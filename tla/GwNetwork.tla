------------------------------ MODULE GwNetwork ------------------------------
(***************************************************************************)
(* The WiFi client (lib/gwwifi GwWifi) and the UDP channels that follow    *)
(* its address (lib/socketserver GwUdpReader, GwUdpWriter), all in the     *)
(* main loop. The WiFi driver is external: it joins and loses the network  *)
(* at any time, also between two calls of the loop.                        *)
(*                                                                         *)
(* Time is counted in ticks. mDNS, the contents of packets and the         *)
(* addresses on the side of the access point are left out; when the access *)
(* point is switched off, and whether at all, is left open.                *)
(***************************************************************************)
EXTENDS Integers, FiniteSets

CONSTANTS
  Address,       (* what the network may assign to the client               *)
  UdpTypes,      (* configurations: <<udpwType, udprType>>. The writer is   *)
                 (* "ap", "bcall", "bcsta", "mcall" or "mcsta", the reader  *)
                 (* "ap", "sta", "mcall" or "mcsta"                         *)
  Descriptor,    (* a set of numbers                                        *)
  RETRY,         (* RETRY_MILLIS in ticks                                   *)
  MaxFaults      (* bound of the calls that fail or time out                *)

VARIABLES
  link,          (* the driver: "down", "joining" or "up"                   *)
  localIP,
  started,       (* FALSE between esp_wifi_stop and esp_wifi_start          *)
  sinceConnect,  (* age of lastConnectStart                                 *)
  apActive,
  writerType, apSocket, staSocket,
  readerType, fd, currentStationIp,
  socketOf,      (* the network stack: what each descriptor is bound to      *)
  loop,          (* where the main loop is                                  *)
  connectedRead, (* the last answer of WiFi.isConnected()                   *)
  faults

driverVars == <<link, localIP, started>>
wifiVars == <<sinceConnect, apActive>>
writerVars == <<writerType, apSocket, staSocket>>
readerVars == <<readerType, fd, currentStationIp>>
udpVars == <<writerVars, readerVars, socketOf, connectedRead>>
netVars == <<driverVars, wifiVars, udpVars, loop, faults>>

NoIP == "0.0.0.0"
NoString == ""
NoFd == -1
NoSocket == [fd |-> NoFd, source |-> NoString, exists |-> FALSE]
Station == Address \cup {NoIP}

(* What a socket serves: nothing, the access point, or an address of the    *)
(* station. A multicast reader on both networks is "ap" until it has joined *)
(* the group on the station's one.                                          *)
Unused == "unused"
Ap == "ap"
NotJoined == "not joined"

ASSUME GwNetworkAssumption ==
  /\ Descriptor \subseteq Nat /\ IsFiniteSet(Descriptor)
  /\ RETRY \in Nat /\ MaxFaults \in Nat
  /\ UdpTypes \subseteq {"ap", "bcall", "bcsta", "mcall", "mcsta"}
                           \X {"ap", "sta", "mcall", "mcsta"}
  /\ Unused \notin Address

NetTypeOK ==
  /\ link \in {"down", "joining", "up"} /\ localIP \in Station /\ started \in BOOLEAN
  /\ sinceConnect \in 0..(RETRY + 1) /\ apActive \in BOOLEAN /\ connectedRead \in BOOLEAN
  /\ <<writerType, readerType>> \in UdpTypes
  /\ apSocket \in Descriptor \cup {NoFd} /\ fd \in Descriptor \cup {NoFd}
  /\ staSocket \in [fd : Descriptor \cup {NoFd}, source : Station \cup {NoString}, exists : BOOLEAN]
  /\ currentStationIp \in Station \cup {NoString}
  /\ socketOf \in [Descriptor -> Station \cup {Unused, Ap, NotJoined}]
  /\ faults \in 0..MaxFaults
  /\ loop \in {"beginReader", "setReader", "beginWriter", "createWriter",
               "check", "disconnect", "stop", "start", "connect", "ap",
               "reader", "moveReader", "writer", "moveWriter"}

(* setup() has called connectInternal; the channels begin some time later.  *)
NetInit ==
  /\ \/ link = "joining" /\ localIP = NoIP
     \/ link = "up" /\ localIP \in Address
  /\ started = TRUE
  /\ sinceConnect = 0 /\ apActive = TRUE
  /\ \E u \in UdpTypes : writerType = u[1] /\ readerType = u[2]
  /\ apSocket = NoFd /\ staSocket = NoSocket
  /\ fd = NoFd /\ currentStationIp = NoString
  /\ socketOf = [d \in Descriptor |-> Unused]
  /\ loop = "beginReader" /\ connectedRead = FALSE /\ faults = 0

Works == UNCHANGED faults
Fault == faults < MaxFaults /\ faults' = faults + 1

-----------------------------------------------------------------------------
(* GwWifi::loop. A mutex that is not free in time counts as not connected.  *)

isConnected == link = "up"
Retry == sinceConnect > RETRY

clientConnected ==
  /\ loop = "check"
  /\ loop' = IF ~isConnected /\ Retry THEN "disconnect" ELSE "ap"
  /\ Works /\ UNCHANGED <<driverVars, wifiVars, udpVars>>

MutexTimeout ==
  /\ loop = "check"
  /\ loop' = IF Retry THEN "disconnect" ELSE "ap"
  /\ Fault /\ UNCHANGED <<driverVars, wifiVars, udpVars>>

LinkDown == link' = "down" /\ localIP' = NoIP

Disconnect ==
  /\ loop = "disconnect"
  /\ loop' = IF apActive THEN "connect" ELSE "stop"
  /\ \/ LinkDown /\ Works
     \/ UNCHANGED <<link, localIP>> /\ Fault
  /\ UNCHANGED <<started, wifiVars, udpVars>>

(* Without access point the whole WiFi is stopped and started again.        *)
Stop ==
  /\ loop = "stop" /\ loop' = "start"
  /\ \/ LinkDown /\ started' = FALSE /\ Works
     \/ UNCHANGED driverVars /\ Fault
  /\ UNCHANGED <<wifiVars, udpVars>>

Start_NoConnect ==
  /\ loop = "start" /\ loop' = "ap"
  /\ started' = TRUE /\ Works
  /\ UNCHANGED <<link, localIP, wifiVars, udpVars>>

(* Without the mutex there is no attempt to connect in this pass; an error  *)
(* of esp_wifi_start is only logged.                                        *)
Start ==
  /\ loop = "start"
  /\ \/ started' = TRUE /\ loop' = "connect" /\ Works
     \/ UNCHANGED started /\ loop' \in {"connect", "ap"} /\ Fault
  /\ UNCHANGED <<link, localIP, wifiVars, udpVars>>

connectInternal ==
  /\ loop = "connect" /\ loop' = "ap"
  /\ \/ /\ link' = IF started THEN "joining" ELSE link
        /\ localIP' = IF started THEN NoIP ELSE localIP
        /\ sinceConnect' = 0 /\ Works
     \/ UNCHANGED <<link, localIP, sinceConnect>> /\ Fault
  /\ UNCHANGED <<started, apActive, udpVars>>

(* The access point is switched off when nobody has used it for some time,  *)
(* if this is configured; it never comes back.                              *)
CheckAp ==
  /\ loop = "ap" /\ loop' = "reader"
  /\ apActive' \in (IF apActive THEN BOOLEAN ELSE {FALSE})
  /\ Works /\ UNCHANGED <<driverVars, sinceConnect, udpVars>>

-----------------------------------------------------------------------------
(* Sockets. socket() returns the lowest descriptor that is free. A result   *)
(* is the descriptor, the table of the stack and the count of faults.       *)

Close(s, d) == IF d = NoFd THEN s ELSE [s EXCEPT ![d] = Unused]
FreeIn(s) == {d \in Descriptor : s[d] = Unused}
Lowest(S) == CHOOSE d \in S : \A e \in S : d <= e

Result(d, s, n) == [fd |-> d, table |-> s, faults |-> n]
Bound(s, use, n) ==
  LET d == Lowest(FreeIn(s)) IN Result(d, [s EXCEPT ![d] = use], n)

(* socket() and bind(), or a failure of one of them.                        *)
Opened(s, use) ==
  IF FreeIn(s) = {} THEN {Result(NoFd, s, faults)}
  ELSE {Bound(s, use, faults)}
       \cup (IF faults < MaxFaults THEN {Result(NoFd, s, faults + 1)} ELSE {})

(* A multicast reader stays open when it cannot join the group.             *)
OpenedReader(s, use) ==
  Opened(s, use)
  \cup (IF use # Ap /\ readerType \in {"mcall", "mcsta"} /\ FreeIn(s) # {} /\ faults < MaxFaults
        THEN {Bound(s, NotJoined, faults + 1)} ELSE {})

(* The address that is read after the connection has been looked at.        *)
StationRead == IF connectedRead THEN localIP ELSE NoString

-----------------------------------------------------------------------------
(* GwUdpReader                                                              *)

FollowsStation == readerType \in {"sta", "mcall", "mcsta"}

(* inet_pton refuses the empty string: losing the network changes nothing   *)
(* but the address.                                                         *)
setStationAdd_Any(sta) == sta # currentStationIp

setStationAdd(sta) == sta # currentStationIp /\ sta # NoString

(* Only a multicast reader on both networks can do without the station: a   *)
(* descriptor that has been closed stays in fd otherwise.                   *)
ReaderUse(sta) ==
  IF readerType = "ap" \/ (readerType = "mcall" /\ sta = NoString) THEN Ap ELSE sta

createAndBind(sta) ==
  LET s == Close(socketOf, fd) IN
    IF sta = NoString /\ readerType \in {"sta", "mcsta"}
    THEN socketOf' = s /\ Works /\ UNCHANGED fd
    ELSE \E r \in OpenedReader(s, ReaderUse(sta)) :
           fd' = r.fd /\ socketOf' = r.table /\ faults' = r.faults

AskConnected(from, to) ==
  /\ loop = from /\ loop' = to
  /\ connectedRead' = isConnected
  /\ Works /\ UNCHANGED <<driverVars, wifiVars, writerVars, readerVars, socketOf>>

BeginReader == AskConnected("beginReader", "setReader")

SetReader ==
  /\ loop = "setReader" /\ loop' = "beginWriter"
  /\ currentStationIp' = StationRead
  /\ createAndBind(StationRead)
  /\ UNCHANGED <<driverVars, wifiVars, writerVars, readerType, connectedRead>>

LoopReader == FollowsStation /\ AskConnected("reader", "moveReader")

ReaderStays ==
  /\ loop = "reader" /\ ~FollowsStation /\ loop' = "writer"
  /\ Works /\ UNCHANGED <<driverVars, wifiVars, udpVars>>

MoveReader ==
  /\ loop = "moveReader" /\ loop' = "writer"
  /\ currentStationIp' = StationRead
  /\ IF setStationAdd(StationRead) THEN createAndBind(StationRead)
     ELSE Works /\ UNCHANGED <<fd, socketOf>>
  /\ UNCHANGED <<driverVars, wifiVars, writerVars, readerType, connectedRead>>

-----------------------------------------------------------------------------
(* GwUdpWriter. The broadcast addresses of the station's network are the    *)
(* same for all its addresses.                                              *)

Destination(src) ==
  IF writerType \in {"mcall", "mcsta"} THEN "group"
  ELSE IF src = NoIP THEN "no broadcast" ELSE "broadcast"

changed_Destination(src) == Destination(src) # Destination(staSocket.source)

changed(src) == Destination(src) # Destination(staSocket.source) \/ src # staSocket.source

(* The socket exists, and is not created again, when its bind has failed.   *)
checkStaSocket(src) ==
  IF writerType = "ap" \/ (~staSocket.exists /\ ~connectedRead)
  THEN Works /\ UNCHANGED <<staSocket, socketOf>>
  ELSE LET gone == staSocket.exists /\ (~connectedRead \/ changed(src))
           s    == IF gone THEN Close(socketOf, staSocket.fd) ELSE socketOf
       IN IF ~connectedRead
          THEN staSocket' = NoSocket /\ socketOf' = s /\ Works
          ELSE IF staSocket.exists /\ ~gone THEN Works /\ UNCHANGED <<staSocket, socketOf>>
          ELSE \E r \in Opened(s, src) :
                 /\ socketOf' = r.table /\ faults' = r.faults
                 /\ staSocket' = [fd |-> r.fd, source |-> src, exists |-> TRUE]

(* The socket for the access point is created once.                         *)
BeginWriter ==
  /\ loop = "beginWriter" /\ loop' = "createWriter"
  /\ IF writerType \in {"ap", "bcall", "mcall"}
     THEN \E r \in Opened(socketOf, Ap) :
            apSocket' = r.fd /\ socketOf' = r.table /\ faults' = r.faults
     ELSE Works /\ UNCHANGED <<apSocket, socketOf>>
  /\ connectedRead' = isConnected
  /\ UNCHANGED <<driverVars, wifiVars, writerType, staSocket, readerVars>>

LoopWriter == AskConnected("writer", "moveWriter")

MoveWriter ==
  /\ loop \in {"createWriter", "moveWriter"} /\ loop' = "check"
  /\ checkStaSocket(StationRead)
  /\ UNCHANGED <<driverVars, wifiVars, writerType, apSocket, readerVars, connectedRead>>

-----------------------------------------------------------------------------
(* The driver and the clock                                                 *)

Unchanged == UNCHANGED <<started, wifiVars, udpVars, loop, faults>>

Join ==
  /\ link = "joining" /\ started
  /\ link' = "up" /\ localIP' \in Address
  /\ Unchanged

JoinFails == link = "joining" /\ LinkDown /\ Unchanged
LoseNetwork == link = "up" /\ LinkDown /\ Unchanged

NetTick ==
  /\ sinceConnect <= RETRY /\ sinceConnect' = sinceConnect + 1
  /\ UNCHANGED <<driverVars, apActive, udpVars, loop, faults>>

-----------------------------------------------------------------------------
LoopStep ==
  \/ BeginReader \/ SetReader \/ BeginWriter
  \/ clientConnected \/ MutexTimeout \/ Disconnect \/ Stop \/ Start \/ connectInternal \/ CheckAp
  \/ LoopReader \/ ReaderStays \/ MoveReader \/ LoopWriter \/ MoveWriter

NetNext == LoopStep \/ Join \/ JoinFails \/ LoseNetwork \/ NetTick

NetSpec == NetInit /\ [][NetNext]_netVars

(* The main loop runs, time goes on, and the network is in range again and  *)
(* again while the client tries to join it.                                 *)
NetFairness == WF_netVars(LoopStep) /\ WF_netVars(NetTick) /\ SF_netVars(Join)

NetFairSpec == NetSpec /\ NetFairness

-----------------------------------------------------------------------------
(* Every descriptor that is open belongs to one socket object, and no       *)
(* object holds a descriptor that has been closed, and may by now belong to *)
(* somebody else. createAndBind leaves fd as it is when it returns before   *)
(* socket(): this is right only because it is never called there after a    *)
(* disconnect, where setStationAdd answers false.                           *)
Owned == {apSocket, staSocket.fd, fd} \ {NoFd}
SocketsOwned ==
  /\ {d \in Descriptor : socketOf[d] # Unused} = Owned
  /\ staSocket.fd # NoFd => staSocket.fd \notin {apSocket, fd}
  /\ fd # NoFd => fd # apSocket

(* The client comes back to a network that it has lost: neither a mutex     *)
(* that was not free nor an error of the driver ends the attempts.          *)
ClientComesBack == link # "up" ~> link = "up"

(* A station that keeps its address is served: the reader and the writer    *)
(* move their sockets to it. What could not be bound or joined is not tried *)
(* again as long as the address stays.                                      *)
Serves(d, a) == d = NoFd \/ socketOf[d] \in {a, NotJoined}
SocketsFollow ==
  \A a \in Address :
    <>[](isConnected /\ localIP = a) =>
      /\ writerType # "ap" =>
           <>[](staSocket.source = a /\ Serves(staSocket.fd, a))
      /\ FollowsStation =>
           <>[](currentStationIp = a /\ Serves(fd, a))
=============================================================================
