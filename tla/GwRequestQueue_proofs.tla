----------------------- MODULE GwRequestQueue_proofs -----------------------
(***************************************************************************)
(* Proofs about GwRequestQueue for any number of tasks and messages and    *)
(* any queue length: reference counting is exact, nobody uses a deleted    *)
(* message and nobody reads an unfinished result.                          *)
(***************************************************************************)
EXTENDS GwRequestQueue, TLAPS

(* A task has a message exactly while it is inside a call, and its progress *)
(* tells how many references it still has to give back. A message has one   *)
(* sender at most, and none any more once a web response has taken it over. *)
Phases ==
  /\ \A t \in Sender :
       /\ pc[t] = "idle" <=> cur[t] = NoMsg
       /\ pc[t] = "idle" => held[t] = 0
       /\ pc[t] = "refused" => held[t] \in 2..3
       /\ pc[t] \in {"waiting", "answered", "timedout"} => held[t] = 2
       /\ pc[t] \in {"reply", "handover", "giveback"} => held[t] = 1
       /\ cur[t] \notin async
  /\ \A t, u \in Sender : cur[t] = cur[u] /\ cur[t] # NoMsg => t = u

(* A message is at one place in the queue, or with the main task.           *)
QueueOnce ==
  /\ \A i, j \in DOMAIN queue : queue[i] = queue[j] => i = j
  /\ mainPc = "idle" <=> mainMsg = NoMsg
  /\ mainMsg \notin Queued

(* Allocated are the messages with a reference.                             *)
AliveIsReferenced == \A m \in Msg : m \in alive <=> refcount[m] > 0

(* Whoever learns of the end of the processing may read the result.         *)
Finished ==
  /\ \A m \in Msg : notifier[m] = 1 \/ consumed[m] > 0 => handled[m]
  /\ mainPc \in {"handled", "notified"} => handled[mainMsg]
  /\ \A t \in Sender : pc[t] \in {"answered", "reply"} => handled[cur[t]]

IInv == /\ RequestTypeOK
        /\ Phases
        /\ QueueOnce
        /\ AliveIsReferenced
        /\ RefcountExact
        /\ Finished

USE GwRequestQueueAssumption

-----------------------------------------------------------------------------
(* xQueueSend adds one message, and leaves no double one if it was new.     *)
LEMMA AppendElements ==
  ASSUME NEW q \in Seq(Msg), NEW m \in Msg
  PROVE  /\ Append(q, m) \in Seq(Msg)
         /\ Len(Append(q, m)) = Len(q) + 1
         /\ Elements(Append(q, m)) = Elements(q) \cup {m}
         /\ (\A i, j \in DOMAIN q : q[i] = q[j] => i = j) /\ m \notin Elements(q)
            => \A i, j \in DOMAIN Append(q, m) :
                 Append(q, m)[i] = Append(q, m)[j] => i = j
<1>1. /\ Append(q, m) \in Seq(Msg) /\ Len(Append(q, m)) = Len(q) + 1
      /\ \A i \in DOMAIN q : i \in DOMAIN Append(q, m) /\ Append(q, m)[i] = q[i]
      /\ Len(q) + 1 \in DOMAIN Append(q, m) /\ Append(q, m)[Len(q) + 1] = m
      /\ \A i \in DOMAIN Append(q, m) : i = Len(q) + 1 \/ i \in DOMAIN q
  OBVIOUS
<1>2. Elements(Append(q, m)) = Elements(q) \cup {m}
  BY <1>1 DEF Elements
<1>3. ASSUME \A i, j \in DOMAIN q : q[i] = q[j] => i = j, m \notin Elements(q)
      PROVE  \A i, j \in DOMAIN Append(q, m) :
               Append(q, m)[i] = Append(q, m)[j] => i = j
  <2>1. \A i \in DOMAIN q : q[i] # m
    BY <1>3 DEF Elements
  <2> QED BY <1>1, <1>3, <2>1
<1> QED BY <1>1, <1>2, <1>3

(* xQueueReceive takes the oldest message away.                             *)
LEMMA TailElements ==
  ASSUME NEW q \in Seq(Msg), q # <<>>,
         \A i, j \in DOMAIN q : q[i] = q[j] => i = j
  PROVE  /\ Head(q) \in Msg
         /\ Tail(q) \in Seq(Msg)
         /\ Len(Tail(q)) = Len(q) - 1
         /\ Elements(Tail(q)) = Elements(q) \ {Head(q)}
         /\ Head(q) \in Elements(q)
         /\ \A i, j \in DOMAIN Tail(q) : Tail(q)[i] = Tail(q)[j] => i = j
<1>1. /\ Head(q) \in Msg /\ Tail(q) \in Seq(Msg) /\ Len(Tail(q)) = Len(q) - 1
      /\ Head(q) = q[1] /\ 1 \in DOMAIN q
      /\ \A i \in DOMAIN Tail(q) : i + 1 \in DOMAIN q /\ Tail(q)[i] = q[i + 1]
      /\ \A i \in DOMAIN q : i # 1 => i - 1 \in DOMAIN Tail(q)
  OBVIOUS
<1>2. ASSUME NEW x PROVE x \in Elements(Tail(q)) <=> x \in Elements(q) \ {Head(q)}
  <2>1. ASSUME x \in Elements(Tail(q)) PROVE x \in Elements(q) \ {Head(q)}
    <3>1. PICK i \in DOMAIN Tail(q) : x = Tail(q)[i]
      BY <2>1 DEF Elements
    <3>2. i \in Nat \ {0} /\ i + 1 \in DOMAIN q /\ x = q[i + 1] /\ i + 1 # 1
      BY <1>1, <3>1
    <3> QED BY <1>1, <3>2 DEF Elements
  <2>2. ASSUME x \in Elements(q) \ {Head(q)} PROVE x \in Elements(Tail(q))
    <3>1. PICK i \in DOMAIN q : x = q[i]
      BY <2>2 DEF Elements
    <3>2. i # 1
      BY <1>1, <2>2, <3>1
    <3>3. i \in Nat /\ i - 1 \in DOMAIN Tail(q) /\ (i - 1) + 1 = i
      BY <1>1, <3>2
    <3>4. Tail(q)[i - 1] = q[i]
      BY <1>1, <3>3
    <3> QED BY <3>1, <3>3, <3>4 DEF Elements
  <2> QED BY <2>1, <2>2
<1>3. Elements(Tail(q)) = Elements(q) \ {Head(q)}
  BY <1>2
<1>4. Head(q) \in Elements(q)
  BY <1>1 DEF Elements
<1>5. \A i, j \in DOMAIN Tail(q) : Tail(q)[i] = Tail(q)[j] => i = j
  BY <1>1
<1> QED BY <1>1, <1>3, <1>4, <1>5

(* Who shares a message beside its sender.                                  *)
LEMMA SharedRefsType ==
  \A m : /\ SharedRefs(m) \in 0..3
         /\ SharedRefs(m) = 0 <=> m \notin Queued /\ mainMsg # m /\ m \notin async
BY DEF SharedRefs, One

(* A message nobody has a reference to is not known to anybody.             *)
LEMMA FreshIsUnknown ==
  ASSUME IInv, NEW m \in Msg \ alive
  PROVE  /\ refcount[m] = 0 /\ SharedRefs(m) = 0
         /\ m \notin Queued /\ mainMsg # m /\ m \notin async
         /\ \A t \in Sender : cur[t] # m
<1>1. refcount[m] = 0
  BY DEF IInv, RequestTypeOK, AliveIsReferenced
<1>2. \A t \in Sender : cur[t] # NoMsg => held[t] \in 1..3
  BY DEF IInv, RequestTypeOK, Phases
<1>3. \A t \in Sender : cur[t] # m
  BY <1>1, <1>2, SharedRefsType DEF IInv, RefcountExact
<1>4. SharedRefs(m) = 0
  BY <1>1, <1>3 DEF IInv, RefcountExact
<1> QED BY <1>1, <1>3, <1>4, SharedRefsType

(* What a task works with.                                                  *)
LEMMA BusyTask ==
  ASSUME IInv, NEW t \in Sender, pc[t] # "idle"
  PROVE  /\ cur[t] \in Msg /\ cur[t] # NoMsg
         /\ held[t] \in 1..3
         /\ SharedRefs(cur[t]) \in 0..3
         /\ refcount[cur[t]] = SharedRefs(cur[t]) + held[t]
         /\ \A u \in Sender : u # t => cur[u] # cur[t]
BY SharedRefsType DEF IInv, RequestTypeOK, Phases, RefcountExact

(* Giving back one of the references a task holds.                          *)
LEMMA ReleaseKeeps ==
  ASSUME IInv, NEW t \in Sender, pc[t] # "idle",
         NEW label \in {"idle", "refused", "reply", "handover", "giveback"},
         label = "idle" <=> held[t] = 1,
         label = "refused" => held[t] = 3,
         label \in {"reply", "handover", "giveback"} => held[t] = 2,
         label = "reply" => handled[cur[t]],
         Release(t, label)
  PROVE  IInv'
<1> DEFINE m == cur[t]
<1>1. /\ m \in Msg /\ m # NoMsg
      /\ held[t] \in 1..3
      /\ SharedRefs(m) \in 0..3
      /\ refcount[m] = SharedRefs(m) + held[t]
      /\ \A u \in Sender : u # t => cur[u] # m
  BY BusyTask
<1>2. \A x : SharedRefs(x)' = SharedRefs(x)
  BY DEF Release, SharedRefs, One, Queued, mainVars
<1>3. /\ refcount' = [refcount EXCEPT ![m] = @ - 1]
      /\ alive' = IF refcount[m] = 1 THEN alive \ {m} ELSE alive
      /\ held' = [held EXCEPT ![t] = @ - 1]
      /\ cur' = IF label = "idle" THEN [cur EXCEPT ![t] = NoMsg] ELSE cur
      /\ pc' = [pc EXCEPT ![t] = label]
      /\ UNCHANGED <<handled, notifier, consumed, queue, mainPc, mainMsg, async>>
  <2>1. refcount[m] > 0
    BY <1>1
  <2>2. (IF refcount[m] > 0 THEN refcount[m] - 1 ELSE refcount[m]) = refcount[m] - 1
    BY <2>1
  <2> QED BY <2>2 DEF Release, unref, Goto, mainVars
<1> HIDE DEF m
<1>4. refcount' \in [Msg -> Nat]
  BY <1>1, <1>3 DEF IInv, RequestTypeOK
<1>5. RequestTypeOK'
  <2> USE DEF IInv, RequestTypeOK
  <2>1. alive' \subseteq Msg
    BY <1>3
  <2>2. pc' \in [Sender -> {"idle", "refused", "waiting", "answered", "timedout",
                          "reply", "handover", "giveback"}]
    BY <1>3
  <2>3. cur' \in [Sender -> Msg \cup {NoMsg}]
    BY <1>3
  <2>4. held' \in [Sender -> 0..3]
    BY <1>1, <1>3
  <2> QED BY <1>3, <1>4, <2>1, <2>2, <2>3, <2>4
<1>6. ASSUME NEW u \in Sender
      PROVE  /\ pc'[u] = "idle" <=> cur'[u] = NoMsg
             /\ pc'[u] = "idle" => held'[u] = 0
             /\ pc'[u] = "refused" => held'[u] \in 2..3
             /\ pc'[u] \in {"waiting", "answered", "timedout"} => held'[u] = 2
             /\ pc'[u] \in {"reply", "handover", "giveback"} => held'[u] = 1
             /\ cur'[u] \notin async'
  <2>1. CASE u = t
    <3>1. pc'[u] = label /\ held'[u] = held[t] - 1
      BY <1>3, <2>1 DEF IInv, RequestTypeOK
    <3>2. cur'[u] = IF label = "idle" THEN NoMsg ELSE m
      BY <1>3, <2>1 DEF IInv, RequestTypeOK, m
    <3>3. NoMsg \notin async /\ m \notin async
      BY <1>1 DEF IInv, RequestTypeOK, Phases, m
    <3> QED BY <1>1, <1>3, <3>1, <3>2, <3>3
  <2>2. CASE u # t
    <3>1. pc'[u] = pc[u] /\ held'[u] = held[u] /\ cur'[u] = cur[u]
      BY <1>3, <2>2 DEF IInv, RequestTypeOK
    <3> QED BY <1>3, <3>1 DEF IInv, Phases
  <2> QED BY <2>1, <2>2
<1>7. \A u, v \in Sender : cur'[u] = cur'[v] /\ cur'[u] # NoMsg => u = v
  BY <1>3 DEF IInv, RequestTypeOK, Phases
<1>8. Phases'
  BY <1>6, <1>7 DEF Phases
<1>9. QueueOnce'
  BY <1>3 DEF IInv, QueueOnce, Queued
<1>10. AliveIsReferenced'
  BY <1>1, <1>3 DEF IInv, RequestTypeOK, AliveIsReferenced
<1>11. RefcountExact'
  <2>1. ASSUME NEW u \in Sender, cur'[u] # NoMsg
        PROVE  refcount'[cur'[u]] = SharedRefs(cur[u]) + held'[u] /\ cur'[u] = cur[u]
    <3>1. cur'[u] = cur[u]
      BY <1>3, <2>1 DEF IInv, RequestTypeOK
    <3>2. CASE u = t
      BY <1>1, <1>3, <3>1, <3>2 DEF IInv, RequestTypeOK, m
    <3>3. CASE u # t
      <4>1. cur[u] # m /\ cur[u] \in Msg /\ held'[u] = held[u]
        BY <1>1, <1>3, <2>1, <3>1, <3>3 DEF IInv, RequestTypeOK
      <4>2. refcount'[cur[u]] = refcount[cur[u]]
        BY <1>1, <1>3, <4>1 DEF IInv, RequestTypeOK
      <4> QED BY <2>1, <3>1, <4>1, <4>2 DEF IInv, RefcountExact
    <3> QED BY <3>2, <3>3
  <2>2. ASSUME NEW x \in Msg, \A u \in Sender : cur'[u] # x
        PROVE  refcount'[x] = SharedRefs(x)
    <3>1. CASE x = m
      <4>1. label = "idle"
        BY <1>3, <2>2, <3>1 DEF m
      <4> QED BY <1>1, <1>3, <3>1, <4>1 DEF IInv, RequestTypeOK
    <3>2. CASE x # m
      <4>1. \A u \in Sender : cur[u] # x
        BY <1>3, <2>2, <3>2 DEF IInv, RequestTypeOK, m
      <4>2. refcount'[x] = refcount[x]
        BY <1>3, <3>2 DEF IInv, RequestTypeOK
      <4> QED BY <4>1, <4>2 DEF IInv, RefcountExact
    <3> QED BY <3>1, <3>2
  <2> QED BY <1>2, <2>1, <2>2 DEF RefcountExact
<1>12. Finished'
  BY <1>3 DEF IInv, RequestTypeOK, Finished, m
<1> QED BY <1>5, <1>8, <1>9, <1>10, <1>11, <1>12 DEF IInv

LEMMA RefusedKeeps == ASSUME IInv, NEW t \in Sender, Refused(t) PROVE IInv'
<1>1. pc[t] = "refused" /\ held[t] \in 2..3
  BY DEF IInv, Phases, Refused
<1>2. CASE held[t] = 2
  BY <1>1, <1>2, ReleaseKeeps DEF Refused
<1>3. CASE held[t] = 3
  BY <1>1, <1>3, ReleaseKeeps DEF Refused
<1> QED BY <1>1, <1>2, <1>3

LEMMA AnsweredKeeps == ASSUME IInv, NEW t \in Sender, GotAnswer(t) PROVE IInv'
<1>1. pc[t] = "answered" /\ held[t] = 2 /\ handled[cur[t]]
  BY DEF IInv, Phases, Finished, GotAnswer
<1> QED BY <1>1, ReleaseKeeps DEF GotAnswer

LEMMA GiveUpKeeps == ASSUME IInv, NEW t \in Sender, GiveUp(t) PROVE IInv'
<1>1. pc[t] = "timedout" /\ held[t] = 2
  BY DEF IInv, Phases, GiveUp
<1>2. AfterTimeout(t) \in {"handover", "giveback"}
  BY DEF AfterTimeout
<1> QED BY <1>1, <1>2, ReleaseKeeps DEF GiveUp

LEMMA GiveBackKeeps == ASSUME IInv, NEW t \in Sender, GiveBack(t) PROVE IInv'
<1>1. pc[t] = "giveback" /\ held[t] = 1
  BY DEF IInv, Phases, GiveBack
<1> QED BY <1>1, ReleaseKeeps DEF GiveBack

(* Creating a request gives it the references of its new owner.            *)
LEMMA CreateKeeps ==
  ASSUME IInv, NEW t \in Sender, NEW m \in Msg, NEW refs \in 1..2,
         NEW label \in {"refused", "waiting", "giveback"},
         NEW h \in 1..3, NEW inQueue \in BOOLEAN,
         Create(t, m, refs, label),
         held' = [held EXCEPT ![t] = h],
         label = "refused" => h \in 2..3,
         label = "waiting" => h = 2,
         label = "giveback" => h = 1,
         1 + refs = h + One(inQueue),
         queue' = IF inQueue THEN Append(queue, m) ELSE queue,
         Len(queue') <= QueueLength,
         UNCHANGED <<mainVars, async>>
  PROVE  IInv'
<1>1. /\ pc[t] = "idle" /\ cur[t] = NoMsg /\ held[t] = 0
      /\ refcount[m] = 0 /\ SharedRefs(m) = 0
      /\ m \notin Queued /\ mainMsg # m /\ m \notin async
      /\ \A u \in Sender : cur[u] # m
  BY FreshIsUnknown DEF Create, IInv, Phases
<1>2. /\ alive' = alive \cup {m}
      /\ refcount' = [refcount EXCEPT ![m] = 1 + refs]
      /\ handled' = [handled EXCEPT ![m] = FALSE]
      /\ notifier' = [notifier EXCEPT ![m] = 0]
      /\ consumed' = [consumed EXCEPT ![m] = 0]
      /\ cur' = [cur EXCEPT ![t] = m]
      /\ pc' = [pc EXCEPT ![t] = label]
      /\ held' = [held EXCEPT ![t] = h]
      /\ UNCHANGED <<mainPc, mainMsg, async>>
  BY DEF Create, Goto, mainVars
<1>3. /\ queue' \in Seq(Msg)
      /\ Elements(queue') = IF inQueue THEN Queued \cup {m} ELSE Queued
      /\ \A i, j \in DOMAIN queue' : queue'[i] = queue'[j] => i = j
  <2>1. queue \in Seq(Msg) /\ m \notin Elements(queue)
        /\ \A i, j \in DOMAIN queue : queue[i] = queue[j] => i = j
    BY <1>1 DEF IInv, RequestTypeOK, QueueOnce, Queued
  <2>2. CASE inQueue
    BY <2>1, <2>2, AppendElements DEF Queued
  <2>3. CASE ~inQueue
    BY <2>1, <2>3 DEF Queued
  <2> QED BY <2>2, <2>3
<1>4. RequestTypeOK'
  <2>1. /\ alive' \subseteq Msg /\ async' \subseteq Msg
        /\ refcount' \in [Msg -> Nat] /\ handled' \in [Msg -> BOOLEAN]
    BY <1>2 DEF IInv, RequestTypeOK
  <2>2. notifier' \in [Msg -> 0..1] /\ consumed' \in [Msg -> 0..ResultLength]
    BY <1>2, GwRequestQueueAssumption DEF IInv, RequestTypeOK
  <2>3. /\ mainPc' \in {"idle", "fetched", "handled", "notified"}
        /\ mainMsg' \in Msg \cup {NoMsg}
    BY <1>2 DEF IInv, RequestTypeOK
  <2>4. pc' \in [Sender -> {"idle", "refused", "waiting", "answered", "timedout",
                           "reply", "handover", "giveback"}]
    BY <1>2 DEF IInv, RequestTypeOK
  <2>5. cur' \in [Sender -> Msg \cup {NoMsg}] /\ held' \in [Sender -> 0..3]
    BY <1>2 DEF IInv, RequestTypeOK
  <2> QED BY <1>3, <2>1, <2>2, <2>3, <2>4, <2>5 DEF RequestTypeOK
<1>5. Phases'
  <2>1. ASSUME NEW u \in Sender
        PROVE  /\ pc'[u] = "idle" <=> cur'[u] = NoMsg
               /\ pc'[u] = "idle" => held'[u] = 0
               /\ pc'[u] = "refused" => held'[u] \in 2..3
               /\ pc'[u] \in {"waiting", "answered", "timedout"} => held'[u] = 2
               /\ pc'[u] \in {"reply", "handover", "giveback"} => held'[u] = 1
               /\ cur'[u] \notin async'
    <3>1. CASE u = t
      <4>1. pc'[u] = label /\ held'[u] = h /\ cur'[u] = m
        BY <1>2, <3>1 DEF IInv, RequestTypeOK
      <4> QED BY <1>1, <1>2, <4>1
    <3>2. CASE u # t
      <4>1. pc'[u] = pc[u] /\ held'[u] = held[u] /\ cur'[u] = cur[u]
        BY <1>2, <3>2 DEF IInv, RequestTypeOK
      <4> QED BY <1>2, <4>1 DEF IInv, Phases
    <3> QED BY <3>1, <3>2
  <2>2. \A u, v \in Sender : cur'[u] = cur'[v] /\ cur'[u] # NoMsg => u = v
    BY <1>1, <1>2 DEF IInv, RequestTypeOK, Phases
  <2> QED BY <2>1, <2>2 DEF Phases
<1>6. QueueOnce'
  BY <1>1, <1>2, <1>3 DEF IInv, RequestTypeOK, QueueOnce, Queued
<1>7. AliveIsReferenced'
  BY <1>2 DEF IInv, RequestTypeOK, AliveIsReferenced
<1>8. RefcountExact'
  <2>1. SharedRefs(m)' = One(inQueue)
    BY <1>1, <1>2, <1>3 DEF SharedRefs, One, Queued
  <2>2. \A x : x # m => SharedRefs(x)' = SharedRefs(x)
    BY <1>2, <1>3 DEF SharedRefs, One, Queued
  <2>3. ASSUME NEW u \in Sender, cur'[u] # NoMsg
        PROVE  refcount'[cur'[u]] = SharedRefs(cur[u])' + held'[u]
    <3>1. CASE u = t
      BY <1>2, <2>1, <3>1 DEF IInv, RequestTypeOK, One
    <3>2. CASE u # t
      <4>1. cur'[u] = cur[u] /\ held'[u] = held[u] /\ cur[u] # m /\ cur[u] \in Msg
        BY <1>1, <1>2, <2>3, <3>2 DEF IInv, RequestTypeOK
      <4>2. refcount'[cur[u]] = refcount[cur[u]]
        BY <1>2, <4>1 DEF IInv, RequestTypeOK
      <4>3. SharedRefs(cur[u])' = SharedRefs(cur[u])
        BY <2>2, <4>1
      <4> QED BY <2>3, <4>1, <4>2, <4>3 DEF IInv, RefcountExact
    <3> QED BY <3>1, <3>2
  <2>4. ASSUME NEW x \in Msg, \A u \in Sender : cur'[u] # x
        PROVE  refcount'[x] = SharedRefs(x)'
    <3>1. x # m /\ \A u \in Sender : cur[u] # x
      BY <1>1, <1>2, <2>4 DEF IInv, RequestTypeOK
    <3> QED BY <1>2, <2>2, <3>1 DEF IInv, RequestTypeOK, RefcountExact
  <2> QED BY <2>3, <2>4 DEF RefcountExact
<1>9. Finished'
  BY <1>1, <1>2 DEF IInv, RequestTypeOK, Phases, Finished
<1> QED BY <1>4, <1>5, <1>6, <1>7, <1>8, <1>9 DEF IInv

LEMMA SendKeeps ==
  ASSUME IInv, NEW t \in Sender, NEW m \in Msg, Sends(t, m) PROVE IInv'
<1> DEFINE label == IF t \in Forgetters THEN "giveback" ELSE "waiting"
           h == IF t \in Forgetters THEN 1 ELSE 2
           refs == 1 + WaiterRefs(t)
<1>1. /\ Create(t, m, refs, label) /\ held' = [held EXCEPT ![t] = h]
      /\ queue' = IF TRUE THEN Append(queue, m) ELSE queue
      /\ UNCHANGED <<mainVars, async>>
  BY DEF Sends
<1>2. Len(queue') <= QueueLength
  BY AppendElements DEF Sends, IInv, RequestTypeOK
<1>3. /\ refs \in 1..2 /\ label \in {"refused", "waiting", "giveback"} /\ h \in 1..3
      /\ 1 + refs = h + One(TRUE)
      /\ label # "refused" /\ (label = "waiting" => h = 2) /\ (label = "giveback" => h = 1)
  BY DEF WaiterRefs, One
<1> HIDE DEF label, h, refs
<1> QED BY <1>1, <1>2, <1>3, CreateKeeps

LEMMA SendFailsKeeps ==
  ASSUME IInv, NEW t \in Sender, NEW m \in Msg, SendFails(t, m) PROVE IInv'
<1> DEFINE h == IF t \in Forgetters THEN 2 ELSE 3
           refs == 1 + WaiterRefs(t)
<1>1. /\ Create(t, m, refs, "refused") /\ held' = [held EXCEPT ![t] = h]
      /\ queue' = IF FALSE THEN Append(queue, m) ELSE queue
      /\ UNCHANGED <<mainVars, async>>
      /\ Len(queue') <= QueueLength
  BY DEF SendFails, IInv, RequestTypeOK
<1>2. refs \in 1..2 /\ h \in 1..3 /\ 1 + refs = h + One(FALSE) /\ h \in 2..3
  BY DEF WaiterRefs, One
<1> HIDE DEF h, refs
<1> QED BY <1>1, <1>2, CreateKeeps

(* A step in which no reference changes hands.                              *)
LEMMA SameReferences ==
  ASSUME IInv, UNCHANGED <<alive, refcount, queue, mainMsg, cur, held, async>>,
         mainPc' = "idle" <=> mainPc = "idle"
  PROVE  AliveIsReferenced' /\ RefcountExact' /\ QueueOnce'
<1>1. \A m : SharedRefs(m)' = SharedRefs(m)
  BY DEF SharedRefs, One, Queued
<1>2. RefcountExact'
  BY <1>1 DEF IInv, RefcountExact
<1>3. AliveIsReferenced' /\ QueueOnce'
  BY DEF IInv, AliveIsReferenced, QueueOnce, Queued
<1> QED BY <1>2, <1>3

(* The notification reaches the waiting task after the processing.          *)
LEMMA NotifiedKeeps == ASSUME IInv, NEW t \in Sender, Notified(t) PROVE IInv'
<1>1. RequestTypeOK'
  BY BusyTask DEF IInv, RequestTypeOK, QueueOnce, Notified, Goto, mainVars
<1>2. Phases'
  BY DEF IInv, RequestTypeOK, Phases, Notified, Goto, mainVars
<1>3. AliveIsReferenced' /\ RefcountExact' /\ QueueOnce'
  BY SameReferences DEF Notified, Goto, mainVars
<1>4. Finished'
  BY DEF IInv, RequestTypeOK, Phases, QueueOnce, Finished, Notified, Goto, mainVars
<1> QED BY <1>1, <1>2, <1>3, <1>4 DEF IInv

LEMMA TimedOutKeeps == ASSUME IInv, NEW t \in Sender, TimedOut(t) PROVE IInv'
<1>1. RequestTypeOK'
  BY BusyTask DEF IInv, RequestTypeOK, QueueOnce, TimedOut, Goto, msgVars, mainVars
<1>2. Phases'
  BY DEF IInv, RequestTypeOK, Phases, TimedOut, Goto, msgVars, mainVars
<1>3. AliveIsReferenced' /\ RefcountExact' /\ QueueOnce'
  BY SameReferences DEF TimedOut, Goto, msgVars, mainVars
<1>4. Finished'
  BY DEF IInv, RequestTypeOK, Phases, QueueOnce, Finished, TimedOut, Goto, msgVars, mainVars
<1> QED BY <1>1, <1>2, <1>3, <1>4 DEF IInv

LEMMA ReplyKeeps == ASSUME IInv, NEW t \in Sender, Reply(t) PROVE IInv'
<1>1. RequestTypeOK'
  BY BusyTask DEF IInv, RequestTypeOK, QueueOnce, Reply, Goto, msgVars, mainVars
<1>2. Phases'
  BY DEF IInv, RequestTypeOK, Phases, Reply, Goto, msgVars, mainVars
<1>3. AliveIsReferenced' /\ RefcountExact' /\ QueueOnce'
  BY SameReferences DEF Reply, Goto, msgVars, mainVars
<1>4. Finished'
  BY DEF IInv, RequestTypeOK, Phases, QueueOnce, Finished, Reply, Goto, msgVars, mainVars
<1> QED BY <1>1, <1>2, <1>3, <1>4 DEF IInv

(* The filler never gets past the end of the result.                        *)
LEMMA PollKeeps == ASSUME IInv, NEW m \in Msg, NEW n \in 1..ResultLength, Poll(m, n) PROVE IInv'
<1>1. RequestTypeOK'
  BY DEF IInv, RequestTypeOK, QueueOnce, Poll, Answerable, Clamp, senderVars, mainVars
<1>2. Phases'
  BY DEF IInv, RequestTypeOK, Phases, Poll, Answerable, Clamp, senderVars, mainVars
<1>3. AliveIsReferenced' /\ RefcountExact' /\ QueueOnce'
  BY SameReferences DEF Poll, Answerable, Clamp, senderVars, mainVars
<1>4. Finished'
  BY DEF IInv, RequestTypeOK, Phases, QueueOnce, Finished, Poll, Answerable, Clamp, senderVars, mainVars
<1> QED BY <1>1, <1>2, <1>3, <1>4 DEF IInv

LEMMA ProcessKeeps == ASSUME IInv, Process PROVE IInv'
<1>1. RequestTypeOK'
  BY DEF IInv, RequestTypeOK, QueueOnce, Process, senderVars
<1>2. Phases'
  BY DEF IInv, RequestTypeOK, Phases, Process, senderVars
<1>3. AliveIsReferenced' /\ RefcountExact' /\ QueueOnce'
  BY SameReferences DEF Process, senderVars
<1>4. Finished'
  BY DEF IInv, RequestTypeOK, Phases, QueueOnce, Finished, Process, senderVars
<1> QED BY <1>1, <1>2, <1>3, <1>4 DEF IInv

LEMMA NotifyKeeps == ASSUME IInv, Notify PROVE IInv'
<1>1. RequestTypeOK'
  BY DEF IInv, RequestTypeOK, QueueOnce, Notify, senderVars
<1>2. Phases'
  BY DEF IInv, RequestTypeOK, Phases, Notify, senderVars
<1>3. AliveIsReferenced' /\ RefcountExact' /\ QueueOnce'
  BY SameReferences DEF Notify, senderVars
<1>4. Finished'
  BY DEF IInv, RequestTypeOK, Phases, QueueOnce, Finished, Notify, senderVars
<1> QED BY <1>1, <1>2, <1>3, <1>4 DEF IInv

(* The reference of the web task becomes that of the response.              *)
LEMMA HandoverKeeps == ASSUME IInv, Handover PROVE IInv'
<1> DEFINE m == cur[WebTask]
<1>1. /\ pc[WebTask] = "handover" /\ WebTask \in Sender /\ held[WebTask] = 1
      /\ async' = async \cup {m}
      /\ held' = [held EXCEPT ![WebTask] = 0]
      /\ cur' = [cur EXCEPT ![WebTask] = NoMsg]
      /\ pc' = [pc EXCEPT ![WebTask] = "idle"]
      /\ UNCHANGED <<alive, refcount, handled, notifier, consumed, queue, mainPc, mainMsg>>
  BY DEF Handover, KeptByWeb, Goto, msgVars, mainVars, Sender, IInv, Phases
<1>2. /\ m \in Msg /\ m # NoMsg /\ m \notin async
      /\ refcount[m] = SharedRefs(m) + 1
      /\ \A u \in Sender : u # WebTask => cur[u] # m
  BY <1>1, BusyTask DEF IInv, Phases
<1> HIDE DEF m
<1>3. RequestTypeOK'
  BY <1>1, <1>2 DEF IInv, RequestTypeOK
<1>4. Phases'
  BY <1>1, <1>2 DEF IInv, RequestTypeOK, Phases
<1>5. QueueOnce' /\ AliveIsReferenced'
  BY <1>1 DEF IInv, QueueOnce, Queued, AliveIsReferenced
<1>6. RefcountExact'
  <2>1. \A x : SharedRefs(x)' = IF x = m THEN SharedRefs(x) + 1 ELSE SharedRefs(x)
    BY <1>1, <1>2 DEF SharedRefs, One, Queued
  <2>2. ASSUME NEW u \in Sender, cur'[u] # NoMsg
        PROVE  refcount'[cur'[u]] = SharedRefs(cur[u])' + held'[u]
    <3>1. u # WebTask /\ cur'[u] = cur[u] /\ held'[u] = held[u] /\ cur[u] # m
      BY <1>1, <1>2, <2>2 DEF IInv, RequestTypeOK
    <3>2. SharedRefs(cur[u])' = SharedRefs(cur[u])
      BY <2>1, <3>1
    <3> QED BY <1>1, <2>2, <3>1, <3>2 DEF IInv, RefcountExact
  <2>3. ASSUME NEW x \in Msg, \A u \in Sender : cur'[u] # x
        PROVE  refcount'[x] = SharedRefs(x)'
    <3>1. CASE x = m
      BY <1>1, <1>2, <2>1, <3>1
    <3>2. CASE x # m
      <4>1. \A u \in Sender : cur[u] # x
        BY <1>1, <2>3, <3>2 DEF IInv, RequestTypeOK, m
      <4> QED BY <1>1, <2>1, <3>2, <4>1 DEF IInv, RefcountExact
    <3> QED BY <3>1, <3>2
  <2> QED BY <2>2, <2>3 DEF RefcountExact
<1>7. Finished'
  BY <1>1 DEF IInv, RequestTypeOK, Finished
<1> QED BY <1>3, <1>4, <1>5, <1>6, <1>7 DEF IInv

(* A message without sender loses one of the shared references.             *)
LEMMA SharedReleaseKeeps ==
  ASSUME IInv, NEW m \in Msg, unref(m), UNCHANGED <<senderVars>>,
         SharedRefs(m)' = SharedRefs(m) - 1,
         \A x \in Msg : x # m => SharedRefs(x)' = SharedRefs(x)
  PROVE  /\ refcount' \in [Msg -> Nat] /\ alive' \subseteq Msg
         /\ AliveIsReferenced' /\ RefcountExact'
<1>1. SharedRefs(m) > 0
  <2>1. SharedRefs(m) \in 0..3 /\ SharedRefs(m)' \in 0..3
    BY SharedRefsType DEF SharedRefs, One
  <2> QED BY <2>1
<1>2. SharedRefs(m) \in 0..3
  BY SharedRefsType
<1>3. refcount[m] > 0
  <2>1. CASE \E t \in Sender : cur[t] = m
    <3>1. PICK t \in Sender : cur[t] = m
      BY <2>1
    <3>2. cur[t] # NoMsg /\ held[t] \in 0..3
      BY <3>1 DEF IInv, RequestTypeOK
    <3>3. refcount[m] = SharedRefs(m) + held[t]
      BY <3>1, <3>2 DEF IInv, RefcountExact
    <3> QED BY <1>1, <1>2, <3>2, <3>3
  <2>2. CASE \A t \in Sender : cur[t] # m
    BY <1>1, <2>2 DEF IInv, RefcountExact
  <2> QED BY <2>1, <2>2
<1>4. /\ refcount' = [refcount EXCEPT ![m] = refcount[m] - 1]
      /\ alive' = IF refcount[m] = 1 THEN alive \ {m} ELSE alive
      /\ UNCHANGED <<pc, cur, held>>
  BY <1>3 DEF unref, senderVars
<1>5. refcount' \in [Msg -> Nat] /\ alive' \subseteq Msg /\ AliveIsReferenced'
  BY <1>3, <1>4 DEF IInv, RequestTypeOK, AliveIsReferenced
<1>6. ASSUME NEW t \in Sender, cur[t] # NoMsg
      PROVE  refcount'[cur[t]] = SharedRefs(cur[t])' + held[t]
  <2>1. cur[t] \in Msg /\ held[t] \in 0..3
        /\ refcount[cur[t]] = SharedRefs(cur[t]) + held[t]
        /\ SharedRefs(cur[t]) \in 0..3
    BY <1>6, SharedRefsType DEF IInv, RequestTypeOK, RefcountExact
  <2>2. CASE cur[t] = m
    <3>1. SharedRefs(cur[t])' = SharedRefs(m)'
      BY <1>4, <2>2 DEF SharedRefs, One
    <3> QED BY <1>4, <2>1, <2>2, <3>1 DEF IInv, RequestTypeOK
  <2>3. CASE cur[t] # m
    <3>1. SharedRefs(cur[t])' = SharedRefs(cur[t])
      BY <1>4, <2>1, <2>3
    <3> QED BY <1>4, <2>1, <2>3, <3>1 DEF IInv, RequestTypeOK
  <2> QED BY <2>2, <2>3
<1>7. ASSUME NEW x \in Msg, \A t \in Sender : cur[t] # x
      PROVE  refcount'[x] = SharedRefs(x)'
  <2>1. refcount[x] = SharedRefs(x)
    BY <1>7 DEF IInv, RefcountExact
  <2> QED BY <1>2, <1>4, <2>1 DEF IInv, RequestTypeOK
<1>8. RefcountExact'
  BY <1>4, <1>6, <1>7 DEF RefcountExact
<1> QED BY <1>5, <1>8

LEMMA DisconnectKeeps ==
  ASSUME IInv, NEW m \in Msg, Disconnected(m) PROVE IInv'
<1>1. /\ m \in async /\ async' = async \ {m} /\ unref(m) /\ UNCHANGED senderVars
      /\ UNCHANGED <<queue, mainPc, mainMsg, handled, notifier, consumed>>
  BY DEF Disconnected, unref, mainVars
<1>2. /\ SharedRefs(m)' = SharedRefs(m) - 1
      /\ \A x : x # m => SharedRefs(x)' = SharedRefs(x)
  BY <1>1 DEF SharedRefs, One, Queued
<1>3. /\ refcount' \in [Msg -> Nat] /\ alive' \subseteq Msg
      /\ AliveIsReferenced' /\ RefcountExact'
  BY <1>1, <1>2, SharedReleaseKeeps
<1>4. RequestTypeOK' /\ Phases' /\ QueueOnce' /\ Finished'
  BY <1>1, <1>3 DEF IInv, RequestTypeOK, Phases, QueueOnce, Queued, Finished, senderVars
<1> QED BY <1>3, <1>4 DEF IInv

LEMMA DoneKeeps == ASSUME IInv, Done PROVE IInv'
<1>1. /\ mainMsg \in Msg /\ mainMsg # NoMsg /\ mainMsg \notin Queued
      /\ mainPc' = "idle" /\ mainMsg' = NoMsg /\ unref(mainMsg) /\ UNCHANGED senderVars
      /\ UNCHANGED <<queue, async, handled, notifier, consumed>>
  BY DEF Done, unref, IInv, RequestTypeOK, QueueOnce
<1>2. PICK x \in Msg : x = mainMsg
  BY <1>1
<1>3. /\ SharedRefs(x)' = SharedRefs(x) - 1
      /\ \A y \in Msg : y # x => SharedRefs(y)' = SharedRefs(y)
  BY <1>1, <1>2 DEF SharedRefs, One, Queued
<1>4. /\ refcount' \in [Msg -> Nat] /\ alive' \subseteq Msg
      /\ AliveIsReferenced' /\ RefcountExact'
  BY <1>1, <1>2, <1>3, SharedReleaseKeeps
<1>5. NoMsg \notin Queued
  BY DEF IInv, RequestTypeOK, Queued, Elements
<1>6. RequestTypeOK' /\ Phases' /\ QueueOnce' /\ Finished'
  BY <1>1, <1>4, <1>5 DEF IInv, RequestTypeOK, Phases, QueueOnce, Queued, Finished, senderVars
<1> QED BY <1>4, <1>6 DEF IInv

(* The queue's reference becomes that of the main task.                     *)
LEMMA FetchKeeps == ASSUME IInv, Fetch PROVE IInv'
<1>1. /\ mainMsg = NoMsg /\ mainPc' = "fetched" /\ queue # <<>>
      /\ mainMsg' = Head(queue) /\ queue' = Tail(queue)
      /\ UNCHANGED <<alive, refcount, handled, notifier, consumed, pc, cur, held, async>>
  BY DEF Fetch, IInv, QueueOnce, msgVars, senderVars
<1>2. /\ mainMsg' \in Msg /\ mainMsg' \in Queued
      /\ queue' \in Seq(Msg) /\ Len(queue') = Len(queue) - 1
      /\ Queued' = Queued \ {mainMsg'}
      /\ \A i, j \in DOMAIN queue' : queue'[i] = queue'[j] => i = j
  BY <1>1, TailElements DEF IInv, RequestTypeOK, QueueOnce, Queued
<1>3. RequestTypeOK'
  BY <1>1, <1>2 DEF IInv, RequestTypeOK
<1>4. Phases' /\ AliveIsReferenced'
  BY <1>1 DEF IInv, Phases, AliveIsReferenced
<1>5. QueueOnce'
  BY <1>1, <1>2 DEF QueueOnce
<1>6. RefcountExact'
  <2>1. \A x \in Msg : SharedRefs(x)' = SharedRefs(x)
    BY <1>1, <1>2 DEF SharedRefs, One
  <2>2. \A t \in Sender : cur[t] # NoMsg => cur[t] \in Msg
    BY DEF IInv, RequestTypeOK
  <2>3. ASSUME NEW t \in Sender, cur[t] # NoMsg
        PROVE  refcount'[cur'[t]] = SharedRefs(cur[t])' + held'[t]
    <3>1. SharedRefs(cur[t])' = SharedRefs(cur[t])
      BY <1>1, <2>1, <2>2, <2>3
    <3> QED BY <1>1, <2>3, <3>1 DEF IInv, RefcountExact
  <2> QED BY <1>1, <2>1, <2>3 DEF IInv, RefcountExact
<1>7. Finished'
  BY <1>1 DEF IInv, RequestTypeOK, Finished
<1> QED BY <1>3, <1>4, <1>5, <1>6, <1>7 DEF IInv

-----------------------------------------------------------------------------
LEMMA InitInv == RequestInit => IInv
BY DEF RequestInit, IInv, RequestTypeOK, Phases, QueueOnce, Queued, Elements, AliveIsReferenced,
       RefcountExact, SharedRefs, One, Finished

LEMMA NextInv == IInv /\ [RequestNext]_requestVars => IInv'
<1> SUFFICES ASSUME IInv, [RequestNext]_requestVars PROVE IInv'
  OBVIOUS
<1>1. CASE \E t \in Sender, m \in Msg : Sends(t, m) \/ SendFails(t, m)
  BY <1>1, SendKeeps, SendFailsKeeps
<1>2. CASE \E t \in Sender : Proceed(t)
  BY <1>2, RefusedKeeps, NotifiedKeeps, TimedOutKeeps, AnsweredKeeps, GiveUpKeeps,
     ReplyKeeps, GiveBackKeeps DEF Proceed
<1>3. CASE Handover
  BY <1>3, HandoverKeeps
<1>4. CASE \E m \in Msg, n \in 1..ResultLength : Poll(m, n)
  BY <1>4, PollKeeps
<1>5. CASE \E m \in Msg : Disconnected(m)
  BY <1>5, DisconnectKeeps
<1>6. CASE Fetch \/ Process \/ Notify \/ Done
  BY <1>6, FetchKeeps, ProcessKeeps, NotifyKeeps, DoneKeeps
<1>7. CASE UNCHANGED requestVars
  BY <1>7 DEF requestVars, msgVars, mainVars, senderVars, IInv, RequestTypeOK, Phases, QueueOnce,
              Queued, AliveIsReferenced, RefcountExact, SharedRefs, One, Finished
<1> QED BY <1>1, <1>2, <1>3, <1>4, <1>5, <1>6, <1>7 DEF RequestNext, Main, FetchNothing

THEOREM Invariance == RequestSpec => []IInv
BY InitInv, NextInv, PTL DEF RequestSpec

(* The model's variables keep their types: the copied part of a result      *)
(* never exceeds it and the queue its length (GwMessage, GwRequestQueue).   *)
THEOREM TypeCorrect == RequestSpec => []RequestTypeOK
<1>1. IInv => RequestTypeOK
  BY DEF IInv
<1> QED BY <1>1, Invariance, PTL

(* For any number of tasks, messages and queue places every reference that  *)
(* is counted is held by exactly one holder (GwMessage::ref, unref in       *)
(* GwRequestQueue and GwWebServer).                                         *)
THEOREM RefcountCorrect == RequestSpec => []RefcountExact
<1>1. IInv => RefcountExact
  BY DEF IInv
<1> QED BY <1>1, Invariance, PTL

(* Nobody ever uses a deleted message: whoever knows one holds one of the   *)
(* references that are counted (GwMessage::unref).                          *)
THEOREM MemorySafe == RequestSpec => []NoUseAfterFree
<1>1. ASSUME IInv PROVE NoUseAfterFree
  <2>1. \A m \in Msg : m \notin alive =>
          m \notin Queued /\ mainMsg # m /\ m \notin async /\ \A t \in Sender : cur[t] # m
    BY <1>1, FreshIsUnknown
  <2>2. Queued \subseteq Msg
    BY <1>1 DEF IInv, RequestTypeOK, Queued, Elements
  <2> QED BY <1>1, <2>1, <2>2 DEF IInv, RequestTypeOK, NoUseAfterFree
<1> QED BY <1>1, Invariance, PTL

(* Nobody reads the result of a request that is still being processed       *)
(* (GwMessage::process, GwRequestMessage::consume).                         *)
THEOREM ResultsAreComplete == RequestSpec => []ResultComplete
<1>1. IInv => ResultComplete
  BY DEF IInv, RequestTypeOK, Finished, ResultComplete
<1> QED BY <1>1, Invariance, PTL
=============================================================================
