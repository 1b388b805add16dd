--------------------------- MODULE GwRequestQueue ---------------------------
(***************************************************************************)
(* lib/queue/GwMessage, lib/gwwebserver and the end of loopRun: requests   *)
(* travel from the web task, the user tasks and the button task through a  *)
(* bounded queue to the main task. A request is shared by its sender, the  *)
(* queue, the main task and possibly a delayed web response, and it is     *)
(* deleted by whoever gives back the last reference.                       *)
(*                                                                         *)
(* Msg are the addresses requests can be allocated at; a freed address is  *)
(* allocated again. Waiting times are not modelled: a wait may time out at *)
(* any moment.                                                             *)
(***************************************************************************)
EXTENDS Integers, Sequences

CONSTANTS Msg,           (* addresses of GwMessage objects                  *)
          WebTask,       (* the single async_tcp task                       *)
          Waiters,       (* user tasks that use sendAndWait                 *)
          Forgetters,    (* tasks that use sendAndForget (the button task)  *)
          QueueLength,   (* length of mainQueue                             *)
          ResultLength,  (* bytes of a result                               *)
          NoMsg

Sender == {WebTask} \cup Waiters \cup Forgetters

ASSUME GwRequestQueueAssumption ==
  /\ NoMsg \notin Msg
  /\ WebTask \notin Waiters \cup Forgetters
  /\ Waiters \cap Forgetters = {}
  /\ QueueLength \in Nat \ {0}
  /\ ResultLength \in Nat

VARIABLES
  alive,      (* allocated messages                                         *)
  refcount,   (* GwMessage::refcount                                        *)
  handled,    (* GwRequestMessage::handled                                  *)
  notifier,   (* the counting semaphore, at most 1                          *)
  consumed,   (* GwRequestMessage::consumed                                 *)
  queue,      (* theQueue                                                   *)
  mainPc,     (* the main task's progress with mainMsg                      *)
  mainMsg,
  pc,         (* each sending task's progress                               *)
  cur,        (* the message it works on                                    *)
  held,       (* how many references it has to give back                    *)
  async       (* messages handed over to a chunked web response             *)

msgVars  == <<alive, refcount, handled, notifier, consumed>>
mainVars == <<mainPc, mainMsg>>
senderVars == <<pc, cur, held>>
requestVars == <<msgVars, queue, mainVars, senderVars, async>>

RequestTypeOK ==
  /\ alive \subseteq Msg
  /\ refcount \in [Msg -> Nat]
  /\ handled \in [Msg -> BOOLEAN]
  /\ notifier \in [Msg -> 0..1]
  /\ consumed \in [Msg -> 0..ResultLength]
  /\ queue \in Seq(Msg) /\ Len(queue) <= QueueLength
  /\ mainPc \in {"idle", "fetched", "handled", "notified"}
  /\ mainMsg \in Msg \cup {NoMsg}
  /\ pc \in [Sender -> {"idle", "refused", "waiting", "answered", "timedout",
                      "reply", "handover", "giveback"}]
  /\ cur \in [Sender -> Msg \cup {NoMsg}]
  /\ held \in [Sender -> 0..3]
  /\ async \subseteq Msg

RequestInit ==
  /\ alive = {}
  /\ refcount = [m \in Msg |-> 0]
  /\ handled = [m \in Msg |-> FALSE]
  /\ notifier = [m \in Msg |-> 0]
  /\ consumed = [m \in Msg |-> 0]
  /\ queue = <<>>
  /\ mainPc = "idle" /\ mainMsg = NoMsg
  /\ pc = [t \in Sender |-> "idle"]
  /\ cur = [t \in Sender |-> NoMsg]
  /\ held = [t \in Sender |-> 0]
  /\ async = {}

-----------------------------------------------------------------------------
(* GwMessage::unref; the last reference deletes the message.                *)
unref(m) ==
  /\ refcount' = [refcount EXCEPT ![m] = IF @ > 0 THEN @ - 1 ELSE @]
  /\ alive' = IF refcount[m] = 1 THEN alive \ {m} ELSE alive
  /\ UNCHANGED <<handled, notifier, consumed>>

Goto(t, label) == pc' = [pc EXCEPT ![t] = label]

(* References sendAndWait adds: one for the queue, one for the waiting      *)
(* task; sendAndForget adds the queue's only.                               *)
WaiterRefs_Forgotten(t) == 0

WaiterRefs(t) == IF t \in Forgetters THEN 0 ELSE 1

(* A task creates a request (one reference) and sends it. xQueueSend does   *)
(* not block. Until then nobody else knows the message, so creating it,     *)
(* adding the references and sending it is one step.                        *)
Create(t, m, refs, label) ==
  /\ pc[t] = "idle"
  /\ m \in Msg \ alive
  /\ alive' = alive \cup {m}
  /\ refcount' = [refcount EXCEPT ![m] = 1 + refs]
  /\ handled' = [handled EXCEPT ![m] = FALSE]
  /\ notifier' = [notifier EXCEPT ![m] = 0]
  /\ consumed' = [consumed EXCEPT ![m] = 0]
  /\ cur' = [cur EXCEPT ![t] = m]
  /\ Goto(t, label)

Sends(t, m) ==
  /\ Len(queue) < QueueLength
  /\ Create(t, m, 1 + WaiterRefs(t),
            IF t \in Forgetters THEN "giveback" ELSE "waiting")
  /\ held' = [held EXCEPT ![t] = IF t \in Forgetters THEN 1 ELSE 2]
  /\ queue' = Append(queue, m)
  /\ UNCHANGED <<mainVars, async>>

(* A full queue: the send function gives back what it has added.            *)
SendFails(t, m) ==
  /\ Len(queue) = QueueLength
  /\ Create(t, m, 1 + WaiterRefs(t), "refused")
  /\ held' = [held EXCEPT ![t] = IF t \in Forgetters THEN 2 ELSE 3]
  /\ UNCHANGED <<queue, mainVars, async>>

(* The task gives back one reference and goes on.                           *)
Release(t, label) ==
  /\ unref(cur[t])
  /\ held' = [held EXCEPT ![t] = @ - 1]
  /\ cur' = IF label = "idle" THEN [cur EXCEPT ![t] = NoMsg] ELSE cur
  /\ Goto(t, label)
  /\ UNCHANGED <<queue, mainVars, async>>

Refused(t) ==
  /\ pc[t] = "refused"
  /\ Release(t, IF held[t] = 2 THEN "giveback" ELSE "refused")

(* The wait ends with the notification or with the timeout.                 *)
Notified(t) ==
  /\ pc[t] = "waiting"
  /\ notifier[cur[t]] = 1
  /\ notifier' = [notifier EXCEPT ![cur[t]] = 0]
  /\ Goto(t, "answered")
  /\ UNCHANGED <<alive, refcount, handled, consumed, queue, mainVars, cur,
                 held, async>>

TimedOut(t) ==
  /\ pc[t] = "waiting"
  /\ Goto(t, "timedout")
  /\ UNCHANGED <<msgVars, queue, mainVars, cur, held, async>>

(* sendAndWait returns: the waiting task's extra reference goes.            *)
AfterTimeout(t) == IF t = WebTask THEN "handover" ELSE "giveback"

GotAnswer(t) == pc[t] = "answered" /\ Release(t, "reply")

GiveUp(t) == pc[t] = "timedout" /\ Release(t, AfterTimeout(t))

(* The result is read: the web task sends it, a user task uses it.          *)
Reply(t) ==
  /\ pc[t] = "reply"
  /\ Goto(t, "giveback")
  /\ UNCHANGED <<msgVars, queue, mainVars, cur, held, async>>

GiveBack(t) == pc[t] = "giveback" /\ Release(t, "idle")

(* handleAsyncWebRequest after a timeout: the creator's reference now       *)
(* belongs to the chunked response.                                         *)
KeptByWeb_Released(m) == unref(m)

KeptByWeb(m) == UNCHANGED msgVars

Handover ==
  LET m == cur[WebTask]
  IN  /\ pc[WebTask] = "handover"
      /\ async' = async \cup {m}
      /\ KeptByWeb(m)
      /\ held' = [held EXCEPT ![WebTask] = 0]
      /\ cur' = [cur EXCEPT ![WebTask] = NoMsg]
      /\ Goto(WebTask, "idle")
      /\ UNCHANGED <<queue, mainVars>>

-----------------------------------------------------------------------------
(* Events of an open chunked response, while the web task is free.          *)

Answerable_WaitOnly(m) ==
  /\ notifier[m] = 1
  /\ notifier' = [notifier EXCEPT ![m] = 0]

(* isHandled() || wait(1)                                                   *)
Answerable(m) ==
  IF handled[m] THEN UNCHANGED notifier
  ELSE notifier[m] = 1 /\ notifier' = [notifier EXCEPT ![m] = 0]

Clamp(n, m) == IF n > ResultLength - consumed[m]
               THEN ResultLength - consumed[m] ELSE n

(* The filler copies the next n bytes, or as many as there are left.        *)
Poll(m, n) ==
  /\ m \in async /\ pc[WebTask] = "idle"
  /\ Answerable(m)
  /\ handled[m] /\ consumed[m] < ResultLength
  /\ consumed' = [consumed EXCEPT ![m] = @ + Clamp(n, m)]
  /\ UNCHANGED <<alive, refcount, handled, queue, mainVars, senderVars, async>>

(* The connection ends, after the answer or whenever the browser likes.     *)
Disconnected_NoUnref(m) ==
  /\ m \in async /\ pc[WebTask] = "idle"
  /\ async' = async \ {m}
  /\ UNCHANGED <<msgVars, queue, mainVars, senderVars>>

Disconnected(m) ==
  /\ m \in async /\ pc[WebTask] = "idle"
  /\ async' = async \ {m}
  /\ unref(m)
  /\ UNCHANGED <<queue, mainVars, senderVars>>

-----------------------------------------------------------------------------
(* The end of loopRun: at most one request per iteration.                   *)

Fetch ==
  /\ mainPc = "idle" /\ queue # <<>>
  /\ mainMsg' = Head(queue) /\ queue' = Tail(queue)
  /\ mainPc' = "fetched"
  /\ UNCHANGED <<msgVars, senderVars, async>>

(* Nothing to do in this iteration.                                         *)
FetchNothing == mainPc = "idle" /\ queue = <<>> /\ UNCHANGED requestVars

(* processRequest writes the result, then handled is set.                   *)
Process ==
  /\ mainPc = "fetched"
  /\ handled' = [handled EXCEPT ![mainMsg] = TRUE]
  /\ consumed' = [consumed EXCEPT ![mainMsg] = 0]
  /\ mainPc' = "handled"
  /\ UNCHANGED <<alive, refcount, notifier, queue, mainMsg, senderVars, async>>

Notify_BeforeProcess ==
  /\ mainPc \in {"fetched", "handled"}
  /\ notifier' = [notifier EXCEPT ![mainMsg] = 1]
  /\ mainPc' = IF mainPc = "fetched" THEN "fetched" ELSE "notified"
  /\ UNCHANGED <<alive, refcount, handled, consumed, queue, mainMsg,
                 senderVars, async>>

Notify ==
  /\ mainPc = "handled"
  /\ notifier' = [notifier EXCEPT ![mainMsg] = 1]
  /\ mainPc' = "notified"
  /\ UNCHANGED <<alive, refcount, handled, consumed, queue, mainMsg,
                 senderVars, async>>

Done ==
  /\ mainPc = "notified"
  /\ unref(mainMsg)
  /\ mainPc' = "idle" /\ mainMsg' = NoMsg
  /\ UNCHANGED <<queue, senderVars, async>>

-----------------------------------------------------------------------------
Proceed(t) == \/ Refused(t) \/ Notified(t) \/ TimedOut(t) \/ GotAnswer(t)
              \/ GiveUp(t) \/ Reply(t) \/ GiveBack(t)

Main == Fetch \/ FetchNothing \/ Process \/ Notify \/ Done

RequestNext == \/ \E t \in Sender, m \in Msg : Sends(t, m) \/ SendFails(t, m)
               \/ \E t \in Sender : Proceed(t)
               \/ Handover
               \/ \E m \in Msg, n \in 1..ResultLength : Poll(m, n)
               \/ \E m \in Msg : Disconnected(m)
               \/ Main

RequestSpec == RequestInit /\ [][RequestNext]_requestVars

(* The connection is closed once the whole answer has been sent.            *)
Closes(m) == consumed[m] = ResultLength /\ handled[m] /\ Disconnected(m)

(* The main task and every task that is inside a call go on. The web task   *)
(* handles its events in the order of arrival, so an open response is       *)
(* polled again and again however many requests come in between, and once   *)
(* it has been sent the connection is closed.                               *)
Fairness ==
  /\ WF_requestVars(Main)
  /\ \A t \in Sender : WF_requestVars(Proceed(t))
  /\ WF_requestVars(Handover)
  /\ \A m \in Msg : /\ SF_requestVars(\E n \in 1..ResultLength : Poll(m, n))
                    /\ SF_requestVars(Closes(m))

RequestFairSpec == RequestSpec /\ Fairness

-----------------------------------------------------------------------------
Elements(q) == {q[i] : i \in DOMAIN q}

Queued == Elements(queue)

One(condition) == IF condition THEN 1 ELSE 0

(* References outside the sending task: queue, main task, web response.     *)
SharedRefs(m) == One(m \in Queued) + One(mainMsg = m) + One(m \in async)

(* Every reference that is counted is held by someone and the other way     *)
(* round: nothing leaks and nothing is given back twice                     *)
(* (GwRequestQueue::sendAndWait, GwWebServer::handleAsyncWebRequest).       *)
RefcountExact ==
  /\ \A t \in Sender :
       cur[t] # NoMsg => refcount[cur[t]] = SharedRefs(cur[t]) + held[t]
  /\ \A m \in Msg :
       (\A t \in Sender : cur[t] # m) => refcount[m] = SharedRefs(m)

(* Nobody works with a deleted message: not the queue, not the main task in *)
(* the middle of process(), not a waiting sender, not an open web response  *)
(* (GwMessage::unref).                                                      *)
NoUseAfterFree ==
  /\ Queued \subseteq alive
  /\ mainMsg # NoMsg => mainMsg \in alive
  /\ \A t \in Sender : cur[t] # NoMsg => cur[t] \in alive
  /\ async \subseteq alive

(* A result is only read after the main task has finished writing it, by    *)
(* the sender that was notified as well as by a delayed response that polls *)
(* (GwRequestMessage::processImpl, GwMessage::process).                     *)
ResultComplete ==
  /\ \A t \in Sender : pc[t] \in {"answered", "reply"} => handled[cur[t]]
  /\ \A m \in async : consumed[m] > 0 => handled[m]

(* Every request is deleted in the end, whatever times out, is refused or   *)
(* disconnects (GwMessage::unref in all tasks).                             *)
NoLeak == \A m \in Msg : m \in alive ~> m \notin alive

(* A web request whose answer was too late for the first wait is answered   *)
(* by the delayed response, completely, unless the browser goes away        *)
(* (GwWebServer::handleAsyncWebRequest, the chunk callback).                *)
LateAnswerSent ==
  \A m \in Msg : m \in async ~> (m \notin async \/ consumed[m] = ResultLength)
=============================================================================
