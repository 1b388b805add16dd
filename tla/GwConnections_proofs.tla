------------------------ MODULE GwConnections_proofs ------------------------
(* Proofs about the TCP client and the UDP sockets for every number of      *)
(* descriptors: types, the pace of the attempts, and that no descriptor is  *)
(* lost or used after its close if no connection fails late.                *)
EXTENDS GwConnections, WellFoundedInduction, TLAPS

-----------------------------------------------------------------------------
(* GwTcpClient                                                              *)

(* The resolve task runs as long as the main loop waits for it.             *)
ResolverWaits == resolver <=> state = "RESOLVING"

(* In these states there is no connection that setClient could overwrite.   *)
IdleWithoutClient ==
  state \in {"DISABLED", "INITIALIZED", "RESOLVING", "RESOLVED"} => ~hasClient

OnlyOwnSocket == \A s \in Socket : net[s] # "closed" => s = clientFd

Clean == IdleWithoutClient /\ OnlyOwnSocket

(* The inductive invariant.                                                 *)
IInv == TcpTypeOK /\ ResolverWaits /\ (~lateFailure => Clean)

LEMMA InitIInv == TcpInit => IInv
BY DEF TcpInit, IInv, TcpTypeOK, ResolverWaits, Clean, IdleWithoutClient, OnlyOwnSocket, hasClient

(* A client is only looked at while there is one.                           *)
LEMMA RunningHasClient ==
  ASSUME Running \in {"CONNECTING", "CONNECTED"}
  PROVE  hasClient /\ state = Running
BY DEF Running

LEMMA RunningInitialized ==
  ASSUME TcpTypeOK, Running = "INITIALIZED"
  PROVE  /\ state \in {"INITIALIZED", "CONNECTING", "CONNECTED"}
         /\ state = "INITIALIZED" \/ ~hasClient
BY DEF Running, TcpTypeOK

-----------------------------------------------------------------------------
(* Types                                                                    *)

LEMMA ConnectionTyped ==
  ASSUME TcpTypeOK, NEW valid \in BOOLEAN, startConnection(valid)
  PROVE  /\ state' \in {"INITIALIZED", "CONNECTING", "CONNECTED"}
         /\ clientFd' \in Socket \cup {NoClient}
         /\ net' \in [Socket -> {"closed", "connecting", "refused", "established", "reset"}]
         /\ due' \in BOOLEAN /\ recent' \in BOOLEAN
BY DEF TcpTypeOK, startConnection, ConnectFails, ConnectStarts

LEMMA ResolvingTyped ==
  ASSUME TcpTypeOK, startResolving, UNCHANGED <<lateFailure, remoteAddress, remote>>
  PROVE  TcpTypeOK'
<1>1. CASE resolved' = TRUE /\ startConnection(TRUE) /\ UNCHANGED resolver
  BY <1>1, ConnectionTyped DEF TcpTypeOK
<1>2. CASE resolveHost
  BY <1>2 DEF resolveHost, TcpTypeOK
<1>3. CASE state' = "INITIALIZED" /\ UNCHANGED <<due, resolved, resolver, clientFd, net, recent>>
  BY <1>3 DEF TcpTypeOK
<1> QED BY <1>1, <1>2, <1>3 DEF startResolving

LEMMA StopTyped ==
  ASSUME TcpTypeOK, stop, UNCHANGED state, ClientUnchanged
  PROVE  TcpTypeOK'
BY DEF TcpTypeOK, stop, ClientUnchanged

LEMMA StepTyped == TcpTypeOK /\ [TcpNext]_tcpVars => TcpTypeOK'
<1> SUFFICES ASSUME TcpTypeOK, [TcpNext]_tcpVars PROVE TcpTypeOK'
  OBVIOUS
<1>1. CASE begin
  BY <1>1, ResolvingTyped DEF begin
<1>2. CASE CheckResolved
  <2>1. resolved \in BOOLEAN
    BY DEF TcpTypeOK
  <2> QED BY <1>2, <2>1, ConnectionTyped DEF CheckResolved, TcpTypeOK
<1>3. CASE CheckWaiting
  BY <1>3 DEF CheckWaiting, TcpTypeOK
<1>4. CASE CheckRetry
  BY <1>4, ResolvingTyped DEF CheckRetry
<1>5. CASE CheckTimeout \/ CheckError \/ ConnectionLost \/ WriteError
  BY <1>5, StopTyped DEF CheckTimeout, CheckError, ConnectionLost, WriteError
<1>6. CASE CheckConnected \/ CheckFailed
  BY <1>6 DEF CheckConnected, CheckFailed, ClientUnchanged, TcpTypeOK
<1>7. CASE Answered \/ NoAnswer
  BY <1>7 DEF Answered, NoAnswer, setResolved, TcpTypeOK
<1>8. CASE TimePasses \/ RemoteChanges
  BY <1>8 DEF TimePasses, RemoteChanges, TcpTypeOK
<1>9. ASSUME NEW s \in Socket, Establish(s) \/ Refuse(s) \/ Reset(s) PROVE TcpTypeOK'
  BY <1>9 DEF Establish, Refuse, Reset, NetChanges, TcpTypeOK
<1>10. CASE UNCHANGED tcpVars
  BY <1>10 DEF tcpVars, TcpTypeOK
<1> QED BY <1>1, <1>2, <1>3, <1>4, <1>5, <1>6, <1>7, <1>8, <1>9, <1>10 DEF TcpNext, Check

(* The state machine, its descriptor and the network stay in their types    *)
(* (all actions of GwTcpClient).                                            *)
THEOREM TypeCorrect == TcpSpec => []TcpTypeOK
<1>1. TcpInit => TcpTypeOK
  BY InitIInv DEF IInv
<1> QED BY <1>1, StepTyped, PTL DEF TcpSpec

-----------------------------------------------------------------------------
(* The resolve task                                                         *)

LEMMA ResolvingWaits ==
  ASSUME TcpTypeOK, ~resolver, startResolving
  PROVE  ResolverWaits'
<1>1. CASE startConnection(TRUE) /\ UNCHANGED resolver
  BY <1>1, ConnectionTyped DEF ResolverWaits
<1>2. CASE resolveHost
  BY <1>2 DEF resolveHost, ResolverWaits
<1>3. CASE state' = "INITIALIZED" /\ UNCHANGED resolver
  BY <1>3 DEF ResolverWaits
<1> QED BY <1>1, <1>2, <1>3 DEF startResolving

LEMMA StepWaits == TcpTypeOK /\ ResolverWaits /\ [TcpNext]_tcpVars => ResolverWaits'
<1> SUFFICES ASSUME TcpTypeOK, ResolverWaits, [TcpNext]_tcpVars PROVE ResolverWaits'
  OBVIOUS
<1>1. CASE begin
  BY <1>1, ResolvingWaits DEF begin, ResolverWaits
<1>2. CASE CheckResolved
  <2>1. resolved \in BOOLEAN
    BY DEF TcpTypeOK
  <2> QED BY <1>2, <2>1, ConnectionTyped DEF CheckResolved, ResolverWaits
<1>3. CASE CheckWaiting
  BY <1>3, RunningInitialized DEF CheckWaiting, ResolverWaits
<1>4. CASE CheckRetry
  BY <1>4, RunningInitialized, ResolvingWaits DEF CheckRetry, ResolverWaits
<1>5. CASE CheckTimeout \/ CheckError \/ ConnectionLost \/ WriteError
  BY <1>5 DEF CheckTimeout, CheckError, ConnectionLost, WriteError, ClientUnchanged, ResolverWaits
<1>6. CASE CheckConnected \/ CheckFailed
  BY <1>6, RunningHasClient DEF CheckConnected, CheckFailed, Connecting, ClientUnchanged, ResolverWaits
<1>7. CASE Answered \/ NoAnswer
  BY <1>7 DEF Answered, NoAnswer, setResolved, ResolverWaits
<1>8. CASE TimePasses \/ RemoteChanges
  BY <1>8 DEF TimePasses, RemoteChanges, ResolverWaits
<1>9. ASSUME NEW s \in Socket, Establish(s) \/ Refuse(s) \/ Reset(s) PROVE ResolverWaits'
  BY <1>9 DEF Establish, Refuse, Reset, NetChanges, ResolverWaits
<1>10. CASE UNCHANGED tcpVars
  BY <1>10 DEF tcpVars, ResolverWaits
<1> QED BY <1>1, <1>2, <1>3, <1>4, <1>5, <1>6, <1>7, <1>8, <1>9, <1>10 DEF TcpNext, Check

-----------------------------------------------------------------------------
(* Descriptors                                                              *)

(* Without a client every descriptor is free, so the new one is the only.   *)
LEMMA ConnectionKeeps ==
  ASSUME TcpTypeOK, OnlyOwnSocket, ~hasClient, NEW valid \in BOOLEAN, startConnection(valid)
  PROVE  Clean'
<1> USE GwTcpClientAssumption DEF hasClient
<1>1. CASE ConnectFails(valid)
  BY <1>1 DEF ConnectFails, Clean, IdleWithoutClient, OnlyOwnSocket
<1>2. CASE ConnectStarts(valid)
  <2>1. PICK s \in Socket :
          /\ clientFd' = s
          /\ \/ state' = "CONNECTING" /\ net' = [net EXCEPT ![s] = "connecting"]
             \/ state' = "CONNECTED" /\ net' = [net EXCEPT ![s] = "established"]
    BY <1>2 DEF ConnectStarts
  <2>2. \A t \in Socket : net[t] = "closed"
    BY DEF OnlyOwnSocket
  <2>3. OnlyOwnSocket'
    BY <2>1, <2>2 DEF OnlyOwnSocket, TcpTypeOK
  <2> QED BY <2>1, <2>3 DEF IdleWithoutClient, Clean
<1> QED BY <1>1, <1>2 DEF startConnection

LEMMA ResolvingKeeps ==
  ASSUME TcpTypeOK, OnlyOwnSocket, ~hasClient, startResolving
  PROVE  Clean'
<1>1. CASE startConnection(TRUE)
  BY <1>1, ConnectionKeeps
<1>2. CASE UNCHANGED <<clientFd, net>>
  BY <1>2 DEF Clean, IdleWithoutClient, OnlyOwnSocket, hasClient
<1> QED BY <1>1, <1>2 DEF startResolving, resolveHost

LEMMA StopKeeps ==
  ASSUME TcpTypeOK, Clean, stop, UNCHANGED state
  PROVE  Clean'
BY DEF TcpTypeOK, Clean, IdleWithoutClient, OnlyOwnSocket, stop, hasClient

LEMMA StepClean ==
  ASSUME TcpTypeOK, ResolverWaits, ~lateFailure, Clean, [TcpNext]_tcpVars
  PROVE  Clean'
<1>0. OnlyOwnSocket /\ IdleWithoutClient
  BY DEF Clean
<1>1. CASE begin
  BY <1>0, <1>1, ResolvingKeeps DEF begin, IdleWithoutClient
<1>2. CASE CheckResolved
  <2>1. ~hasClient /\ resolved \in BOOLEAN
    BY <1>0, <1>2 DEF CheckResolved, IdleWithoutClient, TcpTypeOK
  <2> QED BY <1>0, <1>2, <2>1, ConnectionKeeps DEF CheckResolved
<1>3. CASE CheckWaiting
  <2>1. ~hasClient
    BY <1>0, <1>3, RunningInitialized DEF CheckWaiting, IdleWithoutClient
  <2> QED BY <1>0, <1>3, <2>1 DEF CheckWaiting, Clean, IdleWithoutClient, OnlyOwnSocket, hasClient
<1>4. CASE CheckRetry
  <2>1. ~hasClient
    BY <1>0, <1>4, RunningInitialized DEF CheckRetry, IdleWithoutClient
  <2> QED BY <1>0, <1>4, <2>1, ResolvingKeeps DEF CheckRetry
<1>5. CASE CheckTimeout \/ CheckError \/ ConnectionLost \/ WriteError
  BY <1>5, StopKeeps DEF CheckTimeout, CheckError, ConnectionLost, WriteError
<1>6. CASE CheckConnected
  BY <1>0, <1>6 DEF CheckConnected, Clean, IdleWithoutClient, OnlyOwnSocket
<1>7. CASE CheckFailed
  BY <1>7 DEF CheckFailed
<1>8. CASE Answered \/ NoAnswer
  BY <1>0, <1>8 DEF Answered, NoAnswer, setResolved, Clean, IdleWithoutClient,
     OnlyOwnSocket, hasClient, ResolverWaits
<1>9. CASE TimePasses \/ RemoteChanges
  BY <1>0, <1>9 DEF TimePasses, RemoteChanges, Clean, IdleWithoutClient, OnlyOwnSocket, hasClient
<1>10. ASSUME NEW s \in Socket, Establish(s) \/ Refuse(s) \/ Reset(s) PROVE Clean'
  <2>1. net[s] # "closed" /\ UNCHANGED <<state, clientFd>>
    BY <1>10 DEF Establish, Refuse, Reset, NetChanges
  <2>2. \A t \in Socket : net'[t] # "closed" => net[t] # "closed"
    BY <1>10, <2>1 DEF Establish, Refuse, Reset, NetChanges, TcpTypeOK
  <2> QED BY <1>0, <2>1, <2>2 DEF Clean, IdleWithoutClient, OnlyOwnSocket, hasClient
<1>11. CASE UNCHANGED tcpVars
  BY <1>0, <1>11 DEF tcpVars, Clean, IdleWithoutClient, OnlyOwnSocket, hasClient
<1> QED BY <1>1, <1>2, <1>3, <1>4, <1>5, <1>6, <1>7, <1>8, <1>9, <1>10, <1>11 DEF TcpNext, Check

LEMMA StepEnvironment == [TcpNext]_tcpVars => lateFailure' = lateFailure
BY DEF TcpNext, Check, begin, CheckResolved, CheckWaiting, CheckRetry, CheckTimeout, CheckError,
   ConnectionLost, WriteError, CheckConnected, CheckFailed, ClientUnchanged, Answered, NoAnswer,
   setResolved, TimePasses, RemoteChanges, Establish, Refuse, Reset, NetChanges, tcpVars

LEMMA Invariant == TcpSpec => []IInv
<1>1. IInv /\ [TcpNext]_tcpVars => IInv'
  BY StepTyped, StepWaits, StepClean, StepEnvironment DEF IInv
<1> QED BY InitIInv, <1>1, PTL DEF TcpSpec

(* Unless a connection fails between getsockopt and recv, every open        *)
(* descriptor is the one the connection knows (setClient, stop).            *)
THEOREM NoLeak == TcpSpec => []NoLeakedSocket
<1>1. IInv => NoLeakedSocket
  BY DEF IInv, Clean, OnlyOwnSocket, NoLeakedSocket
<1> QED BY <1>1, Invariant, PTL

(* The answer of the resolve task finds the main loop waiting for it, and   *)
(* unless a connection has failed late there is none that it could cut into *)
(* (resolveHost, setResolved, checkConnection).                             *)
THEOREM Awaited == TcpSpec => []AnswerIsAwaited
<1>1. IInv => AnswerIsAwaited
  BY DEF IInv, Clean, IdleWithoutClient, ResolverWaits, AnswerIsAwaited
<1> QED BY <1>1, Invariant, PTL

-----------------------------------------------------------------------------
(* Attempts to connect                                                      *)

(* An attempt starts the interval anew, and whoever is on the way to the    *)
(* next one has waited for its end.                                         *)
Waited ==
  /\ recent => ~due
  /\ state \in {"DISABLED", "RESOLVING", "RESOLVED"} => ~recent

LEMMA InitWaited == TcpInit => Waited
BY DEF TcpInit, Waited

LEMMA ConnectionWaits ==
  ASSUME TcpTypeOK, ~recent, NEW valid \in BOOLEAN, startConnection(valid)
  PROVE  Waited'
BY DEF startConnection, ConnectFails, ConnectStarts, Waited

LEMMA ResolvingWaited ==
  ASSUME TcpTypeOK, ~recent, startResolving
  PROVE  Waited'
<1>1. CASE startConnection(TRUE)
  BY <1>1, ConnectionWaits
<1>2. CASE UNCHANGED recent
  BY <1>2 DEF Waited
<1> QED BY <1>1, <1>2 DEF startResolving, resolveHost

LEMMA StepWaited ==
  ASSUME TcpTypeOK, ResolverWaits, Waited, [TcpNext]_tcpVars
  PROVE  Waited'
<1>1. CASE begin
  BY <1>1, ResolvingWaited DEF begin, Waited
<1>2. CASE CheckResolved
  <2>1. ~recent /\ resolved \in BOOLEAN
    BY <1>2 DEF CheckResolved, Waited, TcpTypeOK
  <2> QED BY <1>2, <2>1, ConnectionWaits DEF CheckResolved
<1>3. CASE CheckWaiting
  BY <1>3 DEF CheckWaiting, Waited
<1>4. CASE CheckRetry
  BY <1>4, ResolvingWaited DEF CheckRetry, Waited
<1>5. CASE CheckTimeout \/ CheckError \/ ConnectionLost \/ WriteError
  BY <1>5 DEF CheckTimeout, CheckError, ConnectionLost, WriteError, ClientUnchanged, Waited
<1>6. CASE CheckConnected \/ CheckFailed
  <2>1. state' \in {"CONNECTED", "INITIALIZED"} /\ UNCHANGED <<due, recent>>
    BY <1>6 DEF CheckConnected, CheckFailed, ClientUnchanged
  <2> QED BY <2>1 DEF Waited
<1>7. CASE Answered \/ NoAnswer
  BY <1>7 DEF Answered, NoAnswer, setResolved, ResolverWaits, Waited
<1>8. CASE TimePasses \/ RemoteChanges
  BY <1>8 DEF TimePasses, RemoteChanges, Waited
<1>9. ASSUME NEW s \in Socket, Establish(s) \/ Refuse(s) \/ Reset(s) PROVE Waited'
  BY <1>9 DEF Establish, Refuse, Reset, NetChanges, Waited
<1>10. CASE UNCHANGED tcpVars
  BY <1>10 DEF tcpVars, Waited
<1> QED BY <1>1, <1>2, <1>3, <1>4, <1>5, <1>6, <1>7, <1>8, <1>9, <1>10 DEF TcpNext, Check

(* A descriptor is opened by startConnection only, and this is called when  *)
(* the last attempt is no longer recent.                                    *)
LEMMA OpensWhenDue ==
  ASSUME TcpTypeOK, Waited, [TcpNext]_tcpVars,
         NEW s \in Socket, net[s] = "closed", net'[s] # "closed"
  PROVE  ~recent
<1>1. CASE begin
  BY <1>1 DEF begin, Waited
<1>2. CASE CheckResolved
  BY <1>2 DEF CheckResolved, Waited
<1>3. CASE CheckRetry
  BY <1>3 DEF CheckRetry, Waited
<1>4. CASE CheckWaiting \/ CheckConnected \/ CheckFailed
  BY <1>4 DEF CheckWaiting, CheckConnected, CheckFailed
<1>5. CASE CheckTimeout \/ CheckError \/ ConnectionLost \/ WriteError
  BY <1>5 DEF CheckTimeout, CheckError, ConnectionLost, WriteError, stop, TcpTypeOK
<1>6. CASE Answered \/ NoAnswer \/ TimePasses \/ RemoteChanges
  BY <1>6 DEF Answered, NoAnswer, setResolved, TimePasses, RemoteChanges
<1>7. ASSUME NEW t \in Socket, Establish(t) \/ Refuse(t) \/ Reset(t) PROVE FALSE
  BY <1>7 DEF Establish, Refuse, Reset, NetChanges, TcpTypeOK
<1>8. CASE UNCHANGED tcpVars
  BY <1>8 DEF tcpVars
<1> QED BY <1>1, <1>2, <1>3, <1>4, <1>5, <1>6, <1>7, <1>8 DEF TcpNext, Check

(* Two attempts to connect are more than CON_TIMEOUT apart, whichever way   *)
(* the first one ended, and also when a name was resolved in between        *)
(* (startConnection, checkConnection).                                      *)
THEOREM AttemptsPaced == TcpSpec => Paced
<1>1. TcpInit => TcpTypeOK /\ ResolverWaits /\ Waited
  BY InitIInv, InitWaited DEF IInv
<1>2. TcpTypeOK /\ ResolverWaits /\ Waited /\ [TcpNext]_tcpVars
      => (TcpTypeOK /\ ResolverWaits /\ Waited)'
  BY StepTyped, StepWaits, StepWaited
<1>3. TcpTypeOK /\ Waited /\ [TcpNext]_tcpVars
      => [\A s \in Socket : net[s] = "closed" /\ net'[s] # "closed" => ~recent]_tcpVars
  BY OpensWhenDue
<1> QED BY <1>1, <1>2, <1>3, PTL DEF TcpSpec, Paced

-----------------------------------------------------------------------------
(* GwNetwork. NoFd is not a descriptor.                                     *)

Fd == Descriptor \cup {NoFd}
Uses == Station \cup {Unused, Ap, NotJoined}

(* Three objects have the descriptors a, x and c, and there are no others   *)
(* in the table t.                                                          *)
Holding(t, a, x, c) ==
  /\ t \in [Descriptor -> Uses]
  /\ \A d \in Descriptor : t[d] # Unused <=> d \in {a, x, c}
  /\ x # NoFd => x \notin {a, c}
  /\ a # NoFd => a # c

(* There is a lowest descriptor.                                            *)
LEMMA LowestFree ==
  ASSUME NEW S \in SUBSET Descriptor, S # {}
  PROVE  Lowest(S) \in S
<1>1. S \subseteq Nat
  BY GwNetworkAssumption
<1> DEFINE Less == {p \in Nat \X Nat : p[1] < p[2]}
<1>2. IsWellFoundedOn(Less, Nat)
  BY NatLessThanWellFounded, Zenon DEF OpToRel
<1>3. PICK x \in S : \A y \in S : ~ (<<y, x>> \in Less)
  <2> HIDE DEF Less
  <2> QED BY <1>1, <1>2, WFMin
<1>4. ASSUME NEW y \in S  PROVE x <= y
  <2>1. x \in Nat /\ y \in Nat /\ ~ (<<y, x>> \in Less)
    BY <1>1, <1>3
  <2>2. ~ (y < x)
    BY <2>1
  <2> QED BY <2>1, <2>2
<1> QED BY <1>4 DEF Lowest

(* The second object closes its descriptor, if it has one.                  *)
LEMMA CloseFrees ==
  ASSUME NEW t, NEW a \in Fd, NEW x \in Fd, NEW c \in Fd, Holding(t, a, x, c)
  PROVE  Holding(Close(t, x), a, NoFd, c)
BY GwNetworkAssumption DEF Holding, Close, Fd, NoFd, Uses

(* An object without descriptor gets a free one.                            *)
LEMMA BoundTakes ==
  ASSUME NEW t, NEW a \in Fd, NEW c \in Fd, Holding(t, a, NoFd, c),
         NEW use \in Uses \ {Unused}, NEW n, FreeIn(t) # {}
  PROVE  /\ Bound(t, use, n).fd \in Descriptor /\ Bound(t, use, n).faults = n
         /\ Holding(Bound(t, use, n).table, a, Bound(t, use, n).fd, c)
<1> DEFINE d == Lowest(FreeIn(t))
<1>1. d \in FreeIn(t)
  BY LowestFree DEF FreeIn
<1>2. d \in Descriptor /\ t[d] = Unused /\ d # NoFd
  BY <1>1, GwNetworkAssumption DEF FreeIn, NoFd
<1> HIDE DEF d
<1>3. Holding([t EXCEPT ![d] = use], a, d, c)
  BY <1>2, GwNetworkAssumption DEF Holding, Fd, NoFd, Uses
<1>4. Bound(t, use, n) = [fd |-> d, table |-> [t EXCEPT ![d] = use], faults |-> n]
  BY DEF Bound, Result, d
<1> QED BY <1>2, <1>3, <1>4

LEMMA NoDescriptor ==
  /\ NoFd \in Fd
  /\ \A t, a \in Fd, c \in Fd : Holding(t, a, NoFd, c) => Holding(Close(t, NoFd), a, NoFd, c)
BY DEF Fd, Close

LEMMA HoldingTurns ==
  ASSUME NEW t, NEW a \in Fd, NEW x \in Fd, NEW c \in Fd, Holding(t, a, x, c)
  PROVE  Holding(t, x, a, c) /\ Holding(t, a, c, x)
BY DEF Holding

(* It gets one or none, whatever fails.                                     *)
LEMMA OpenedTakes ==
  ASSUME NEW t, NEW a \in Fd, NEW c \in Fd, Holding(t, a, NoFd, c),
         NEW use \in Uses \ {Unused}, NEW r \in Opened(t, use) \cup OpenedReader(t, use)
  PROVE  r.fd \in Fd /\ Holding(r.table, a, r.fd, c)
<1> DEFINE Failed == {Result(NoFd, t, faults), Result(NoFd, t, faults + 1)}
           Taken == {Bound(t, use, faults), Bound(t, NotJoined, faults + 1)}
<1>1. r \in Failed \/ (FreeIn(t) # {} /\ r \in Taken)
  <2>1. \A q \in Opened(t, use) : q \in Failed \/ (FreeIn(t) # {} /\ q \in Taken)
    BY DEF Opened
  <2>2. CASE r \notin Opened(t, use)
    BY <2>2 DEF OpenedReader
  <2> QED BY <2>1, <2>2
<1>2. CASE r \in Failed
  <2>1. r.fd = NoFd /\ r.table = t
    BY <1>2 DEF Result
  <2> QED BY <2>1, NoDescriptor
<1>3. CASE FreeIn(t) # {} /\ r \in Taken
  <2>1. NotJoined \in Uses \ {Unused}
    BY DEF NotJoined, Unused, Uses
  <2>2. \A n : /\ Bound(t, use, n).fd \in Descriptor
               /\ Holding(Bound(t, use, n).table, a, Bound(t, use, n).fd, c)
    BY <1>3, BoundTakes
  <2>3. \A n : /\ Bound(t, NotJoined, n).fd \in Descriptor
               /\ Holding(Bound(t, NotJoined, n).table, a, Bound(t, NotJoined, n).fd, c)
    BY <1>3, <2>1, BoundTakes
  <2> QED BY <1>3, <2>2, <2>3 DEF Fd
<1> QED BY <1>1, <1>2, <1>3

(* Each object has its own descriptors from the moment at which it begins. *)
Owners ==
  /\ apSocket \in Fd /\ staSocket.fd \in Fd /\ fd \in Fd /\ localIP \in Station
  /\ readerType \in {"ap", "sta", "mcall", "mcsta"}
  /\ Holding(socketOf, apSocket, fd, staSocket.fd)
  /\ ~staSocket.exists => staSocket.fd = NoFd
  /\ loop \in {"beginReader", "setReader"} => fd = NoFd
  /\ loop \in {"beginReader", "setReader", "beginWriter"} => apSocket = NoFd

LEMMA InitOwners == NetInit => Owners
<1> SUFFICES ASSUME NetInit PROVE Owners
  OBVIOUS
<1>1. readerType \in {"ap", "sta", "mcall", "mcsta"}
  BY GwNetworkAssumption DEF NetInit
<1>2. localIP \in Station
  BY DEF NetInit, Station
<1>3. Holding(socketOf, NoFd, NoFd, NoFd)
  BY GwNetworkAssumption DEF NetInit, Holding, NoFd, Uses
<1> QED BY <1>1, <1>2, <1>3 DEF NetInit, Owners, NoSocket, Fd

LEMMA StationIsUse ==
  ASSUME Owners
  PROVE  /\ StationRead \in Station \cup {NoString}
         /\ StationRead # NoString \/ connectedRead => StationRead \in Uses \ {Unused}
         /\ connectedRead => StationRead = localIP
BY GwNetworkAssumption DEF Owners, StationRead, Station, Uses, Unused, NoIP, NoString

(* The reader closes its socket and opens another one. Without the station  *)
(* it may stop in between, and must not have had a descriptor then.         *)
LEMMA ReaderMoves ==
  ASSUME Owners, createAndBind(StationRead), StationRead # NoString \/ fd = NoFd
  PROVE  fd' \in Fd /\ Holding(socketOf', apSocket, fd', staSocket.fd)
<1> DEFINE s == Close(socketOf, fd)
<1>1. Holding(s, apSocket, NoFd, staSocket.fd)
  BY CloseFrees DEF Owners
<1>2. CASE StationRead = NoString /\ readerType \in {"sta", "mcsta"}
  BY <1>1, <1>2, NoDescriptor DEF createAndBind
<1>3. CASE ~ (StationRead = NoString /\ readerType \in {"sta", "mcsta"})
  <2>1. ReaderUse(StationRead) \in Uses \ {Unused}
    BY <1>3, StationIsUse DEF ReaderUse, Owners, Uses, Ap, Unused
  <2>2. PICK r \in OpenedReader(s, ReaderUse(StationRead)) : fd' = r.fd /\ socketOf' = r.table
    BY <1>3 DEF createAndBind
  <2> HIDE DEF s
  <2> QED BY <1>1, <2>1, <2>2, OpenedTakes DEF Owners
<1> QED BY <1>2, <1>3

(* The writer closes its socket, opens one, does both or neither.           *)
LEMMA WriterMoves ==
  ASSUME Owners, checkStaSocket(StationRead)
  PROVE  /\ staSocket'.fd \in Fd /\ (~staSocket'.exists => staSocket'.fd = NoFd)
         /\ Holding(socketOf', apSocket, fd, staSocket'.fd)
<1> DEFINE gone == staSocket.exists /\ (~connectedRead \/ changed(StationRead))
           s == IF gone THEN Close(socketOf, staSocket.fd) ELSE socketOf
<1>1. CASE UNCHANGED <<staSocket, socketOf>>
  BY <1>1 DEF Owners
<1>2. ASSUME ~ UNCHANGED <<staSocket, socketOf>>
      PROVE  Holding(s, apSocket, NoFd, fd)
  <2>1. gone \/ ~staSocket.exists
    BY <1>2 DEF checkStaSocket
  <2>2. Holding(socketOf, apSocket, staSocket.fd, fd)
    BY HoldingTurns DEF Owners
  <2>3. CASE gone
    BY <2>2, <2>3, CloseFrees DEF Owners
  <2>4. CASE ~staSocket.exists
    BY <2>2, <2>4 DEF Owners
  <2> QED BY <2>1, <2>3, <2>4
<1>3. ASSUME staSocket' = NoSocket, socketOf' = s, ~ UNCHANGED <<staSocket, socketOf>>
      PROVE  /\ staSocket'.fd = NoFd /\ ~staSocket'.exists
             /\ Holding(socketOf', apSocket, fd, NoFd)
  <2>1. Holding(s, apSocket, NoFd, fd)
    BY <1>2, <1>3
  <2>2. staSocket'.fd = NoFd /\ ~staSocket'.exists
    BY <1>3 DEF NoSocket
  <2> HIDE DEF s
  <2> QED BY <1>3, <2>1, <2>2, HoldingTurns, NoDescriptor DEF Owners
<1>4. ASSUME connectedRead, NEW r \in Opened(s, StationRead), socketOf' = r.table,
             staSocket' = [fd |-> r.fd, source |-> StationRead, exists |-> TRUE],
             ~ UNCHANGED <<staSocket, socketOf>>
      PROVE  /\ staSocket'.fd \in Fd /\ staSocket'.exists
             /\ Holding(socketOf', apSocket, fd, staSocket'.fd)
  <2>1. Holding(s, apSocket, NoFd, fd) /\ StationRead \in Uses \ {Unused}
    BY <1>2, <1>4, StationIsUse
  <2>2. staSocket'.fd = r.fd /\ staSocket'.exists
    BY <1>4
  <2> HIDE DEF s
  <2>3. r.fd \in Fd /\ Holding(r.table, apSocket, r.fd, fd)
    BY <1>4, <2>1, OpenedTakes DEF Owners
  <2> QED BY <1>4, <2>2, <2>3, HoldingTurns DEF Owners
<1>5. \/ UNCHANGED <<staSocket, socketOf>>
      \/ staSocket' = NoSocket /\ socketOf' = s
      \/ connectedRead /\ \E r \in Opened(s, StationRead) :
           /\ socketOf' = r.table
           /\ staSocket' = [fd |-> r.fd, source |-> StationRead, exists |-> TRUE]
  BY DEF checkStaSocket
<1> QED BY <1>1, <1>3, <1>4, <1>5, NoDescriptor

LEMMA StepOwners == Owners /\ [NetNext]_netVars => Owners'
<1> SUFFICES ASSUME Owners, [NetNext]_netVars PROVE Owners'
  OBVIOUS
<1> DEFINE Sockets == <<apSocket, staSocket, fd, socketOf, readerType>>
           Beginning == {"beginReader", "setReader", "beginWriter"}
<1>1. CASE SetReader
  <2>1. fd' \in Fd /\ Holding(socketOf', apSocket, fd', staSocket.fd)
    BY <1>1, ReaderMoves DEF SetReader, Owners
  <2> QED BY <1>1, <2>1 DEF SetReader, Owners, driverVars, writerVars
<1>2. CASE MoveReader
  <2>1. CASE setStationAdd(StationRead)
    <3>1. fd' \in Fd /\ Holding(socketOf', apSocket, fd', staSocket.fd)
      BY <1>2, <2>1, ReaderMoves DEF MoveReader, setStationAdd
    <3> QED BY <1>2, <3>1 DEF MoveReader, Owners, driverVars, writerVars
  <2>2. CASE ~setStationAdd(StationRead)
    BY <1>2, <2>2 DEF MoveReader, Owners, driverVars, writerVars
  <2> QED BY <2>1, <2>2
<1>3. CASE BeginWriter
  <2>1. Holding(socketOf, fd, NoFd, staSocket.fd)
    BY <1>3, HoldingTurns DEF BeginWriter, Owners
  <2>2. apSocket' \in Fd /\ Holding(socketOf', fd, apSocket', staSocket.fd)
    <3>1. CASE UNCHANGED <<apSocket, socketOf>>
      BY <1>3, <2>1, <3>1 DEF BeginWriter, Owners
    <3>2. ASSUME NEW r \in Opened(socketOf, Ap), apSocket' = r.fd, socketOf' = r.table
          PROVE  apSocket' \in Fd /\ Holding(socketOf', fd, apSocket', staSocket.fd)
      BY <2>1, <3>2, OpenedTakes DEF Owners, Uses, Ap, Unused
    <3> QED BY <1>3, <3>1, <3>2 DEF BeginWriter
  <2>3. Holding(socketOf', apSocket', fd, staSocket.fd)
    BY <2>2, HoldingTurns DEF Owners
  <2> QED BY <1>3, <2>2, <2>3 DEF BeginWriter, Owners, driverVars, readerVars
<1>4. CASE MoveWriter
  <2>1. /\ staSocket'.fd \in Fd /\ (~staSocket'.exists => staSocket'.fd = NoFd)
        /\ Holding(socketOf', apSocket, fd, staSocket'.fd)
    BY <1>4, WriterMoves DEF MoveWriter
  <2> QED BY <1>4, <2>1 DEF MoveWriter, Owners, driverVars, readerVars
<1>5. ASSUME UNCHANGED Sockets, localIP' \in Station,
             loop' = loop \/ loop' \notin Beginning
                          \/ (loop = "beginReader" /\ loop' = "setReader")
      PROVE  Owners'
  BY <1>5 DEF Owners
<1>6. CASE BeginReader
  BY <1>6, <1>5 DEF BeginReader, AskConnected, Owners, driverVars, writerVars, readerVars
<1>7. CASE LoopReader \/ LoopWriter
  BY <1>7, <1>5 DEF LoopReader, LoopWriter, AskConnected, Owners, driverVars, writerVars, readerVars
<1>8. CASE clientConnected \/ MutexTimeout
  BY <1>8, <1>5 DEF clientConnected, MutexTimeout, Owners, driverVars, udpVars, writerVars, readerVars
<1>9. CASE Disconnect \/ Stop
  BY <1>9, <1>5 DEF Disconnect, Stop, LinkDown, Station, Owners, driverVars, udpVars, writerVars,
     readerVars
<1>10. CASE Start
  BY <1>10, <1>5 DEF Start, Owners, driverVars, udpVars, writerVars, readerVars
<1>11. CASE connectInternal
  BY <1>11, <1>5 DEF connectInternal, Station, Owners, udpVars, writerVars, readerVars
<1>12. CASE CheckAp \/ ReaderStays
  BY <1>12, <1>5 DEF CheckAp, ReaderStays, Owners, driverVars, udpVars, writerVars, readerVars
<1>13. CASE Join \/ JoinFails \/ LoseNetwork
  BY <1>13, <1>5 DEF Join, JoinFails, LoseNetwork, LinkDown, Unchanged, Station, Owners, udpVars,
     writerVars, readerVars
<1>14. CASE NetTick \/ UNCHANGED netVars
  BY <1>14, <1>5 DEF NetTick, Owners, netVars, driverVars, udpVars, writerVars, readerVars
<1> QED
  BY <1>1, <1>2, <1>3, <1>4, <1>6, <1>7, <1>8, <1>9, <1>10, <1>11, <1>12, <1>13, <1>14
  DEF NetNext, LoopStep

LEMMA OwnersSuffice == Owners => SocketsOwned
<1> SUFFICES ASSUME Owners PROVE SocketsOwned
  OBVIOUS
<1>1. Owned = {apSocket, fd, staSocket.fd} \cap Descriptor
  BY GwNetworkAssumption DEF Owners, Owned, Fd, NoFd
<1>2. \A d \in Descriptor : socketOf[d] # Unused <=> d \in {apSocket, fd, staSocket.fd}
  BY DEF Owners, Holding
<1>3. {d \in Descriptor : socketOf[d] # Unused} = Owned
  BY <1>1, <1>2
<1> QED BY <1>3 DEF Owners, Holding, SocketsOwned

(* Whatever the network does, each open descriptor of the UDP sockets is    *)
(* the one of exactly one of them, and none of them keeps a descriptor that *)
(* it has closed (createAndBind, checkStaSocket).                           *)
THEOREM UdpSocketsOwned == NetSpec => []SocketsOwned
<1> QED BY InitOwners, StepOwners, OwnersSuffice, PTL DEF NetSpec

(* Whatever fails is counted, within the bound.                             *)
LEMMA OpenedCounts ==
  ASSUME faults \in 0..MaxFaults, NEW t, NEW use,
         NEW r \in Opened(t, use) \cup OpenedReader(t, use)
  PROVE  r.faults \in 0..MaxFaults
<1>1. MaxFaults \in Nat
  BY GwNetworkAssumption
<1>2. \A d, s, n : Result(d, s, n).faults = n
  BY DEF Result
<1>3. \A u, n : Bound(t, u, n).faults = n
  BY <1>2 DEF Bound
<1>4. \A q \in Opened(t, use) :
        q.faults = faults \/ (faults < MaxFaults /\ q.faults = faults + 1)
  BY <1>2, <1>3 DEF Opened
<1>5. r.faults = faults \/ (faults < MaxFaults /\ r.faults = faults + 1)
  BY <1>3, <1>4 DEF OpenedReader
<1> QED BY <1>1, <1>5

Places == {"beginReader", "setReader", "beginWriter", "createWriter", "check", "disconnect",
           "stop", "start", "connect", "ap", "reader", "moveReader", "writer", "moveWriter"}

(* What does not concern the sockets.                                       *)
WifiTyped ==
  /\ link \in {"down", "joining", "up"} /\ localIP \in Station /\ started \in BOOLEAN
  /\ sinceConnect \in 0..(RETRY + 1) /\ apActive \in BOOLEAN /\ connectedRead \in BOOLEAN
  /\ <<writerType, readerType>> \in UdpTypes
  /\ currentStationIp \in Station \cup {NoString}
  /\ faults \in 0..MaxFaults /\ loop \in Places

StationSocket == [fd : Fd, source : Station \cup {NoString}, exists : BOOLEAN]

NetTyped == WifiTyped /\ staSocket \in StationSocket

LEMMA NetTypedSuffices == NetTyped /\ Owners => NetTypeOK
BY DEF NetTyped, WifiTyped, StationSocket, Owners, Holding, NetTypeOK, Fd, Uses, Places

LEMMA InitNetTyped == NetInit => NetTyped
<1> SUFFICES ASSUME NetInit PROVE NetTyped
  OBVIOUS
<1>1. <<writerType, readerType>> \in UdpTypes
  <2>1. PICK u \in UdpTypes : writerType = u[1] /\ readerType = u[2]
    BY DEF NetInit
  <2>2. u = <<u[1], u[2]>>
    BY <2>1, GwNetworkAssumption
  <2> QED BY <2>1, <2>2
<1>2. WifiTyped
  <2>1. /\ link \in {"down", "joining", "up"} /\ localIP \in Station /\ started = TRUE
        /\ apActive = TRUE /\ connectedRead = FALSE /\ currentStationIp = NoString
        /\ loop \in Places
    BY DEF NetInit, Station, Places
  <2>2. sinceConnect \in 0..(RETRY + 1) /\ faults \in 0..MaxFaults
    BY GwNetworkAssumption DEF NetInit
  <2> QED BY <1>1, <2>1, <2>2 DEF WifiTyped
<1>3. staSocket \in StationSocket
  BY DEF NetInit, NoSocket, StationSocket, Fd
<1> QED BY <1>2, <1>3 DEF NetTyped

LEMMA StationSocketTyped ==
  ASSUME NetTyped, Owners, checkStaSocket(StationRead)
  PROVE  staSocket' \in StationSocket /\ faults' \in 0..MaxFaults
<1> DEFINE gone == staSocket.exists /\ (~connectedRead \/ changed(StationRead))
           s == IF gone THEN Close(socketOf, staSocket.fd) ELSE socketOf
<1>1. staSocket' \in StationSocket
  <2>1. NoSocket \in StationSocket
    BY DEF NoSocket, StationSocket, Fd
  <2>2. ASSUME staSocket' # staSocket, staSocket' # NoSocket
        PROVE  staSocket' \in StationSocket
    <3>1. staSocket' = [fd |-> staSocket'.fd, source |-> StationRead, exists |-> TRUE]
      BY <2>2 DEF checkStaSocket
    <3>2. staSocket'.fd \in Fd
      BY WriterMoves
    <3>3. PICK d \in Fd : staSocket' = [fd |-> d, source |-> StationRead, exists |-> TRUE]
      BY <3>1, <3>2
    <3>4. StationRead \in Station \cup {NoString}
      BY StationIsUse
    <3>5. [fd |-> d, source |-> StationRead, exists |-> TRUE] \in StationSocket
      BY <3>4, Zenon DEF StationSocket
    <3> QED BY <3>3, <3>5
  <2> QED BY <2>1, <2>2 DEF NetTyped
<1>2. faults' \in 0..MaxFaults
  <2>1. faults' = faults \/ \E r \in Opened(s, StationRead) : faults' = r.faults
    BY DEF checkStaSocket, Works
  <2> QED BY <2>1, OpenedCounts DEF NetTyped, WifiTyped
<1> QED BY <1>1, <1>2

LEMMA StepNetTyped == NetTyped /\ Owners /\ [NetNext]_netVars => NetTyped'
<1> SUFFICES ASSUME NetTyped, Owners, [NetNext]_netVars PROVE NetTyped'
  OBVIOUS
<1> USE DEF Works, driverVars, wifiVars, writerVars, readerVars, udpVars
<1>1. RETRY \in Nat /\ MaxFaults \in Nat /\ isConnected \in BOOLEAN
  BY GwNetworkAssumption DEF isConnected
<1>2. CASE SetReader \/ MoveReader
  <2>1. StationRead \in Station \cup {NoString}
    BY StationIsUse
  <2>2. faults' \in 0..MaxFaults
    <3>1. \/ faults' = faults
          \/ \E r \in OpenedReader(Close(socketOf, fd), ReaderUse(StationRead)) :
               faults' = r.faults
      BY <1>2 DEF SetReader, MoveReader, createAndBind
    <3> QED BY <3>1, OpenedCounts DEF NetTyped, WifiTyped
  <2> QED BY <1>2, <2>1, <2>2 DEF SetReader, MoveReader, NetTyped, WifiTyped, Places
<1>3. CASE BeginWriter
  <2>1. faults' \in 0..MaxFaults
    <3>1. faults' = faults \/ \E r \in Opened(socketOf, Ap) : faults' = r.faults
      BY <1>3 DEF BeginWriter
    <3> QED BY <3>1, OpenedCounts DEF NetTyped, WifiTyped
  <2> QED BY <1>1, <1>3, <2>1 DEF BeginWriter, NetTyped, WifiTyped, Places
<1>4. CASE MoveWriter
  BY <1>4, StationSocketTyped DEF MoveWriter, NetTyped, WifiTyped, Places
<1>5. CASE BeginReader \/ LoopReader \/ LoopWriter
  BY <1>1, <1>5 DEF BeginReader, LoopReader, LoopWriter, AskConnected, NetTyped, WifiTyped, Places
<1>6. CASE clientConnected \/ MutexTimeout
  BY <1>1, <1>6 DEF clientConnected, MutexTimeout, Fault, NetTyped, WifiTyped, Places
<1>7. ASSUME Works \/ Fault PROVE faults' \in 0..MaxFaults
  BY <1>1, <1>7 DEF Fault, NetTyped, WifiTyped
<1>8. CASE Disconnect \/ Stop \/ Start
  <2>1. faults' \in 0..MaxFaults /\ loop' \in {"connect", "stop", "start", "ap"}
    BY <1>7, <1>8 DEF Disconnect, Stop, Start
  <2>2. /\ link' = link \/ link' = "down"
        /\ localIP' = localIP \/ localIP' = NoIP
        /\ started' = started \/ started' \in BOOLEAN
    BY <1>8 DEF Disconnect, Stop, Start, LinkDown
  <2>3. UNCHANGED <<wifiVars, udpVars>>
    BY <1>8 DEF Disconnect, Stop, Start
  <2> QED BY <2>1, <2>2, <2>3 DEF Station, NetTyped, WifiTyped, Places
<1>9. CASE connectInternal
  BY <1>1, <1>9 DEF connectInternal, Fault, Station, NetTyped, WifiTyped, Places
<1>10. CASE CheckAp \/ ReaderStays
  BY <1>10 DEF CheckAp, ReaderStays, NetTyped, WifiTyped, Places
<1>11. CASE Join \/ JoinFails \/ LoseNetwork
  BY <1>11 DEF Join, JoinFails, LoseNetwork, LinkDown, Unchanged, Station, NetTyped, WifiTyped
<1>12. CASE NetTick \/ UNCHANGED netVars
  BY <1>1, <1>12 DEF NetTick, netVars, NetTyped, WifiTyped
<1> QED BY <1>2, <1>3, <1>4, <1>5, <1>6, <1>7, <1>8, <1>9, <1>10, <1>11, <1>12
        DEF NetNext, LoopStep

(* The driver, the counters, the sockets and the place of the loop keep     *)
(* their types, whatever the network does.                                  *)
THEOREM NetworkTyped == NetSpec => []NetTypeOK
<1>1. NetInit => NetTyped /\ Owners
  BY InitNetTyped, InitOwners
<1>2. NetTyped /\ Owners /\ [NetNext]_netVars => (NetTyped /\ Owners)'
  BY StepNetTyped, StepOwners
<1> QED BY <1>1, <1>2, NetTypedSuffices, PTL DEF NetSpec

(* The same for the UDP sockets and the TCP client together (stop,          *)
(* setClient).                                                              *)
THEOREM AllDescriptorsOwned == TcpSpec /\ NetSpec => []DescriptorsOwned
<1>1. SocketsOwned /\ NoLeakedSocket => DescriptorsOwned
  BY DEF DescriptorsOwned
<1> QED BY <1>1, NoLeak, UdpSocketsOwned, PTL
=============================================================================
