----------------------------- MODULE MCServices -----------------------------
(* Services of the device that share no state. One run checks them: it      *)
(* chooses one of them at the start, and the others stand still.            *)
(*                                                                          *)
(* Maintenance: two clients, the admin password and one other item. A run   *)
(* has forms or uploads: they meet in the restart only, which may come at   *)
(* any time anyway.                                                         *)
(*                                                                          *)
(* Task interfaces: two fields are enough for a mixture. One object is      *)
(* stored, one is just copied or updated, and one is free for the next set. *)
(* The firmwares set and get, or set and update, or do all three.           *)
(*                                                                          *)
(* Network: two addresses, so that the client can come back with another    *)
(* one, and a descriptor for each socket.                                   *)
(*                                                                          *)
(* TCP client: two descriptors, so that one lost leaves one and two lost    *)
(* leave none.                                                              *)
(*                                                                          *)
(* Log: a ring of three units for a log of five, so that one flush needs    *)
(* two rounds. The port has sentences or the device has forms: with both,   *)
(* two tasks add to the ring at once (MCGwLog).                             *)
(*                                                                          *)
(* CAN bus: a clock that starts again while an action is due, and enough    *)
(* failures for one in the recovery and one in the start that repeats it.   *)
EXTENDS GwMaintenance, GwTaskInterfaces, GwConnections, GwCanBus, GwLog, TLC

CONSTANTS name, pass, none, v1, v2, longName, longValue

MCDefault == (name :> v1) @@ (pass :> v1)

MCEndOf == (longName :> name) @@ (longValue :> v2)

(* One form leaves the password as it is; one changes both items, after a   *)
(* name that the firmware does not know; one has a value that is too long,  *)
(* and one a name that is, with the name of an item at its end.             *)
MCForms == {<< <<name, v1>>, <<pass, none>> >>,
            << <<"old name", v2>>, <<name, none>>, <<pass, v2>> >>,
            << <<name, longValue>>, <<pass, v1>> >>,
            << <<longName, v2>>, <<pass, v2>> >>}

SetAndGet == {"a", "b", "r"}
MCBuilds == {SetAndGet, {"a", "u", "w"}, {"a", "u", "r"}}

ApOnly == <<"ap", "ap">>
MCUdpTypes == {ApOnly, <<"bcall", "ap">>, <<"ap", "sta">>, <<"mcsta", "mcall">>}

OnlySentences == [sends |-> TRUE, forms |-> FALSE]
MCUsbSetups == {OnlySentences, [sends |-> FALSE, forms |-> TRUE]}

VARIABLE part

allVars == <<vars, taskVars, netVars, canVars, tcpVars, logVars, part>>

ServicesInit ==
  /\ part \in {"settings", "firmware", "tasks", "network", "can", "client", "log"}
  /\ Init /\ TaskInit /\ NetInit /\ CanInit /\ TcpInit /\ LogInit
  /\ part # "tasks" => built = SetAndGet
  /\ part # "network" => localIP = "a" /\ <<writerType, readerType>> = ApOnly
  /\ part # "can" => driver = "running"
  /\ part # "client" => lateFailure /\ remoteAddress = "ip" /\ due /\ remote
  /\ part # "log" => usb = OnlySentences

Requested == {req[c].kind : c \in Client}
Maintenance ==
  /\ Next
  /\ \/ part = "settings" /\ "upload" \notin Requested'
     \/ part = "firmware" /\ "form" \notin Requested'
  /\ UNCHANGED <<taskVars, netVars, canVars, tcpVars, logVars, part>>
Tasks ==
  /\ part = "tasks" /\ TaskNext
  /\ UNCHANGED <<vars, netVars, canVars, tcpVars, logVars, part>>
Network ==
  /\ part = "network" /\ NetNext
  /\ UNCHANGED <<vars, taskVars, canVars, tcpVars, logVars, part>>
Can ==
  /\ part = "can" /\ CanNext
  /\ UNCHANGED <<vars, taskVars, netVars, tcpVars, logVars, part>>
Connection ==
  /\ part = "client" /\ TcpNext
  /\ UNCHANGED <<vars, taskVars, netVars, canVars, logVars, part>>
Logging ==
  /\ part = "log" /\ LogNext
  /\ UNCHANGED <<vars, taskVars, netVars, canVars, tcpVars, part>>

In(p, A) == part = p /\ A

(* The fairness of NetFairSpec, CanFairSpec and TcpFairSpec.                *)
ServicesSpec ==
  /\ ServicesInit
  /\ [][\/ Maintenance \/ Tasks \/ Network
        \/ Can \/ Connection \/ Logging]_allVars
  /\ WF_netVars(In("network", LoopStep)) /\ WF_netVars(In("network", NetTick))
  /\ SF_netVars(In("network", Join))
  /\ WF_canVars(In("can", TimerLoop)) /\ WF_canVars(In("can", CanTick))
  /\ SF_canVars(In("can", shouldRun /\ TimerLoop))
  /\ WF_tcpVars(In("client", begin)) /\ WF_tcpVars(In("client", Check))
  /\ WF_tcpVars(In("client", TimePasses)) /\ WF_tcpVars(In("client", Answered \/ NoAnswer))
  /\ SF_tcpVars(In("client", StartsTask)) /\ SF_tcpVars(In("client", Answered))
  /\ SF_tcpVars(In("client", \E s \in Socket : Establish(s)))
  /\ SF_tcpVars(In("client", Connects))

ServicesTypeOK ==
  TypeOK /\ TaskTypeOK /\ NetTypeOK /\ CanTypeOK /\ TcpTypeOK /\ LogTypeOK
=============================================================================
