----------------------------- MODULE GwTcpClient -----------------------------
(***************************************************************************)
(* lib/socketserver GwTcpClient: the connection to another device. The     *)
(* main loop drives a state machine over a non blocking socket; the name   *)
(* of the other device is resolved by a task of its own that comes back    *)
(* with a change of the same state.                                        *)
(*                                                                         *)
(* A descriptor is open if it is not "closed" in net. The clock is the     *)
(* flag due: more than CON_TIMEOUT since connectStart. The buffers of the  *)
(* connection are those of GwSocketServer and left out here.               *)
(***************************************************************************)
EXTENDS Integers, FiniteSets

CONSTANTS
  Socket,        (* the descriptors of the network stack                    *)
  NoClient,      (* connection->fd is -1                                    *)
  LateFailures   (* whether a connection may fail between getsockopt and    *)
                 (* recv: {FALSE}, {TRUE}, or both for two environments     *)

ASSUME GwTcpClientAssumption ==
  NoClient \notin Socket /\ Socket # {} /\ LateFailures \subseteq BOOLEAN

VARIABLES
  lateFailure,    (* the environment, one of LateFailures                   *)
  remoteAddress,  (* the form of the configured address, fixed at boot      *)
  state,
  due,
  resolved,       (* resolvedAddress.resolved                               *)
  resolver,       (* the resolve task runs                                  *)
  clientFd,       (* connection->fd                                         *)
  net,            (* a socket as the network sees it                        *)
  remote,         (* the other device can be reached                        *)
  recent          (* history: an attempt less than CON_TIMEOUT ago          *)

tcpVars ==
  <<lateFailure, remoteAddress, state, due, resolved, resolver, clientFd, net, remote, recent>>

TcpTypeOK ==
  /\ lateFailure \in LateFailures
  /\ remoteAddress \in {"ip", "local", "invalid"}
  /\ state \in {"DISABLED", "INITIALIZED", "RESOLVING", "RESOLVED", "CONNECTING", "CONNECTED"}
  /\ due \in BOOLEAN /\ resolved \in BOOLEAN /\ resolver \in BOOLEAN
  /\ clientFd \in Socket \cup {NoClient}
  /\ net \in [Socket -> {"closed", "connecting", "refused", "established", "reset"}]
  /\ remote \in BOOLEAN /\ recent \in BOOLEAN

TcpInit ==
  /\ lateFailure \in LateFailures
  /\ remoteAddress \in {"ip", "local", "invalid"}
  /\ state = "DISABLED" /\ due \in BOOLEAN
  /\ resolved = FALSE /\ resolver = FALSE
  /\ clientFd = NoClient /\ net = [s \in Socket |-> "closed"]
  /\ remote \in BOOLEAN /\ recent = FALSE

-----------------------------------------------------------------------------
(* GwSocketConnection                                                       *)

hasClient == clientFd # NoClient

stop_NoClose == clientFd' = NoClient /\ UNCHANGED net

stop == clientFd' = NoClient /\ net' = [net EXCEPT ![clientFd] = "closed"]

(* It is only told by an error number that may be another one's.            *)
connected == IF net[clientFd] = "reset" THEN BOOLEAN ELSE {TRUE}

-----------------------------------------------------------------------------
(* Every branch with an error: no address, no socket, no route.             *)
ConnectFails(valid) ==
  /\ valid => ~remote \/ \A s \in Socket : net[s] # "closed"
  /\ state' = "INITIALIZED"
  /\ UNCHANGED <<clientFd, net, recent>>

(* connect returns EINPROGRESS, or at once. setClient takes the new         *)
(* descriptor whatever there was.                                           *)
ConnectStarts(valid) ==
  /\ valid
  /\ \E s \in Socket :
       /\ net[s] = "closed"
       /\ clientFd' = s /\ recent' = TRUE
       /\ \/ state' = "CONNECTING" /\ net' = [net EXCEPT ![s] = "connecting"]
          \/ remote /\ state' = "CONNECTED" /\ net' = [net EXCEPT ![s] = "established"]

startConnection_NoStart(valid) ==
  /\ ConnectFails(valid) \/ ConnectStarts(valid)
  /\ UNCHANGED due

startConnection(valid) ==
  /\ ConnectFails(valid) \/ ConnectStarts(valid)
  /\ due' = FALSE

(* The task starts, or setResolved without an address.                      *)
resolveHost ==
  /\ resolved' = FALSE
  /\ \/ state' = "RESOLVING" /\ resolver' = TRUE
     \/ state' = "RESOLVED" /\ UNCHANGED resolver
  /\ UNCHANGED <<due, clientFd, net, recent>>

startResolving ==
  \/ /\ remoteAddress = "ip"
     /\ resolved' = TRUE /\ startConnection(TRUE) /\ UNCHANGED resolver
  \/ remoteAddress = "local" /\ resolveHost
  \/ /\ remoteAddress = "invalid"
     /\ state' = "INITIALIZED" /\ UNCHANGED <<due, resolved, resolver, clientFd, net, recent>>

begin ==
  /\ state = "DISABLED"
  /\ startResolving
  /\ UNCHANGED <<lateFailure, remoteAddress, remote>>

-----------------------------------------------------------------------------
(* loop: checkConnection, one action per branch                             *)

(* The state after the check for a client.                                  *)
Running_WithTimeout ==
  IF state = "RESOLVED" THEN "RESOLVED"
  ELSE IF ~hasClient THEN "INITIALIZED" ELSE state

Running ==
  IF state \in {"DISABLED", "RESOLVING", "RESOLVED"} THEN state
  ELSE IF ~hasClient THEN "INITIALIZED" ELSE state

CheckResolved ==
  /\ state = "RESOLVED"
  /\ startConnection(resolved)
  /\ UNCHANGED <<lateFailure, remoteAddress, resolved, resolver, remote>>

CheckWaiting ==
  /\ Running = "INITIALIZED" /\ ~due
  /\ state' = "INITIALIZED"
  /\ UNCHANGED <<lateFailure, remoteAddress, due, resolved, resolver, clientFd, net, remote, recent>>

CheckRetry ==
  /\ Running = "INITIALIZED" /\ due
  /\ startResolving
  /\ UNCHANGED <<lateFailure, remoteAddress, remote>>

Connecting == Running = "CONNECTING"

ClientUnchanged == UNCHANGED <<lateFailure, remoteAddress, due, resolved, resolver, remote, recent>>

(* select finds nothing for CON_TIMEOUT.                                    *)
CheckTimeout ==
  /\ Connecting /\ net[clientFd] = "connecting" /\ due
  /\ stop
  /\ UNCHANGED state /\ ClientUnchanged

(* select or getsockopt reports an error.                                   *)
CheckError ==
  /\ Connecting /\ net[clientFd] \in {"refused", "reset"}
  /\ stop
  /\ UNCHANGED state /\ ClientUnchanged

CheckConnected ==
  /\ Connecting /\ net[clientFd] \in {"established", "reset"} /\ TRUE \in connected
  /\ state' = "CONNECTED"
  /\ UNCHANGED <<clientFd, net>> /\ ClientUnchanged

(* No error, but not connected either: the socket stays open.               *)
CheckFailed ==
  /\ lateFailure
  /\ Connecting /\ net[clientFd] = "reset" /\ FALSE \in connected
  /\ state' = "INITIALIZED"
  /\ UNCHANGED <<clientFd, net>> /\ ClientUnchanged

(* loop: read and write of an existing connection                           *)
ConnectionLost_NotRead == FALSE

ConnectionLost ==
  /\ Running = "CONNECTED" /\ net[clientFd] = "reset"
  /\ stop
  /\ UNCHANGED state /\ ClientUnchanged

WriteError ==
  /\ Running = "CONNECTED" /\ net[clientFd] = "established"
  /\ stop
  /\ UNCHANGED state /\ ClientUnchanged

-----------------------------------------------------------------------------
(* The resolve task: mdns_query_a and setResolved                           *)
setResolved(valid) ==
  /\ resolver
  /\ resolver' = FALSE /\ resolved' = valid /\ state' = "RESOLVED"
  /\ UNCHANGED <<lateFailure, remoteAddress, due, clientFd, net, remote, recent>>

Answered == remote /\ setResolved(TRUE)
NoAnswer == setResolved(FALSE)

(* The clock and the network                                                *)
TimePasses ==
  /\ ~due \/ recent
  /\ due' = TRUE /\ recent' = FALSE
  /\ UNCHANGED <<lateFailure, remoteAddress, state, resolved, resolver, clientFd, net, remote>>

RemoteChanges ==
  /\ remote' = ~remote
  /\ UNCHANGED <<lateFailure, remoteAddress, state, due, resolved, resolver, clientFd, net, recent>>

NetChanges(s, to) ==
  /\ net' = [net EXCEPT ![s] = to]
  /\ UNCHANGED <<lateFailure, remoteAddress, state, due, resolved, resolver, clientFd, remote, recent>>

Establish(s) == net[s] = "connecting" /\ remote /\ NetChanges(s, "established")
Refuse(s) == net[s] = "connecting" /\ ~remote /\ NetChanges(s, "refused")
Reset(s) == net[s] = "established" /\ NetChanges(s, "reset")

-----------------------------------------------------------------------------
Check ==
  CheckResolved \/ CheckWaiting \/ CheckRetry \/ CheckTimeout \/ CheckError \/ ConnectionLost

TcpNext ==
  \/ begin \/ Check \/ CheckConnected \/ CheckFailed \/ WriteError
  \/ Answered \/ NoAnswer \/ TimePasses \/ RemoteChanges
  \/ \E s \in Socket : Establish(s) \/ Refuse(s) \/ Reset(s)

TcpSpec == TcpInit /\ [][TcpNext]_tcpVars

StartsTask == CheckRetry /\ resolver'

Connects == CheckConnected /\ net[clientFd] = "established"

(* The main loop comes round and mdns_query_a has a timeout. There is       *)
(* memory for the resolve task now and then, and a device that can be       *)
(* reached does not fail to answer, to accept and to stay for a moment      *)
(* every single time.                                                       *)
TcpFairness ==
  /\ WF_tcpVars(begin) /\ WF_tcpVars(Check) /\ WF_tcpVars(TimePasses)
  /\ WF_tcpVars(Answered \/ NoAnswer)
  /\ SF_tcpVars(StartsTask) /\ SF_tcpVars(Answered)
  /\ SF_tcpVars(\E s \in Socket : Establish(s)) /\ SF_tcpVars(Connects)

TcpFairSpec == TcpSpec /\ TcpFairness

-----------------------------------------------------------------------------
(* Unless a connection fails late, every open descriptor is the one the     *)
(* connection knows, so the stack does not run out of them (setClient,      *)
(* stop).                                                                   *)
NoLeakedSocket == ~lateFailure => \A s \in Socket : net[s] # "closed" => s = clientFd

(* The resolve task changes the state from outside of the main loop. It     *)
(* only runs while the main loop waits for it, and unless a connection has  *)
(* failed late there is none then that its answer could cut into            *)
(* (checkConnection, resolveHost, setResolved).                             *)
AnswerIsAwaited ==
  /\ resolver <=> state = "RESOLVING"
  /\ resolver => ~hasClient \/ lateFailure

(* Two attempts to connect are more than CON_TIMEOUT apart, whichever way   *)
(* the first one ended (connectStart in startConnection and                 *)
(* checkConnection).                                                        *)
Paced == [][\A s \in Socket : net[s] = "closed" /\ net'[s] # "closed" => ~recent]_tcpVars

Connected == state = "CONNECTED" /\ hasClient /\ net[clientFd] = "established"

(* The client connects again and again to a device that can be reached for  *)
(* good (Readme.md: "enable TCP keepalive on connections to reconnect on    *)
(* failures").                                                              *)
Reconnects == remoteAddress # "invalid" /\ <>[]remote => []<>Connected

(* It does if no connection fails late.                                     *)
ReconnectsUnlessLate == ~lateFailure => Reconnects
=============================================================================
