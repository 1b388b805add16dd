------------------------- MODULE GwSocketServer_proofs -------------------------
(* Proofs about GwSocketServer for any connections, numbers of slots and    *)
(* sizes of the buffers: nothing is echoed, nothing passes from one client  *)
(* of a slot to the next, and no descriptor leaks.                          *)
EXTENDS GwSocketServer, FiniteSetTheorems, TLAPS

(* A connection in a slot is accepted and not closed, and no other slot has *)
(* it.                                                                      *)
Owned ==
  /\ \A s, t \in Slot : hasClient(s) /\ fd[s] = fd[t] => s = t
  /\ \A s \in Slot : hasClient(s) => net[fd[s]] \in {"open", "peerclosed"}

(* And every such connection is in a slot.                                  *)
Held == \A c \in Conn : net[c] \in {"open", "peerclosed"} => \E s \in Slot : fd[s] = c

Clean(s) ==
  /\ \A i \in DOMAIN buffer[s] : buffer[s][i].to = fd[s]
  /\ \A i \in DOMAIN readBuffer[s] : readBuffer[s][i] = fd[s]
  /\ ~writeError[s]

CleanSlots == \A s \in Slot : hasClient(s) => Clean(s)

(* While a client's sentence is forwarded its connection is in no other     *)
(* slot, and never comes back to one.                                       *)
Forwarding == pc # "fetch" /\ source # 0

Apart ==
  /\ message \in Conn /\ net[message] \notin {"new", "pending"}
  /\ \A s \in Slot : fd[s] = message => s = source

MessageApart ==
  /\ pc \in {"fetch", "forward", "convert"} => source \in 1..maxClients
  /\ pc = "top" => source = 0
  /\ Forwarding => Apart
  /\ pc = "forward" => fd[source] = message

(* The slots and sources the main loop looks at exist.                      *)
InRange == at \in 1..maxClients /\ source \in 0..maxClients

(* The inductive invariant.                                                 *)
IInv == TypeOK /\ InRange /\ Owned /\ Held /\ CleanSlots /\ MessageApart /\ NoEcho

BuffersTyped ==
  /\ buffer \in [Slot -> Seq(Sentence)] /\ readBuffer \in [Slot -> Seq(Conn)]
  /\ \A s \in Slot : Len(buffer[s]) <= bufferSize /\ Len(readBuffer[s]) <= bufferSize

LEMMA SlotFacts ==
  ASSUME TypeOK
  PROVE  /\ maxClients \in Nat \ {0} /\ bufferSize \in Nat \ {0}
         /\ Slot \subseteq Nat \ {0} /\ 1..maxClients \subseteq Slot
<1>1. PICK z \in Sizes : z = <<maxClients, bufferSize>>
  BY DEF TypeOK
<1>2. z[1] = maxClients /\ z[2] = bufferSize
  BY <1>1
<1>3. \A y \in Sizes : y[1] \in Nat \ {0} /\ y[2] \in Nat \ {0}
  BY GwSocketServerAssumption
<1>4. Slot \subseteq Nat \ {0}
  BY <1>3 DEF Slot
<1> QED BY <1>1, <1>2, <1>3, <1>4 DEF Slot

LEMMA InitIInv == Init => IInv
<1> SUFFICES ASSUME Init PROVE IInv
  OBVIOUS
<1>1. PICK z \in Sizes : maxClients = z[1] /\ bufferSize = z[2]
  BY DEF Init
<1>2. z \in (Nat \ {0}) \X (Nat \ {0}) /\ z = <<z[1], z[2]>>
  BY GwSocketServerAssumption
<1>3. TypeOK
  BY <1>1, <1>2, GwSocketServerAssumption DEF Init, TypeOK
<1>4. InRange
  BY <1>1, <1>2, <1>3 DEF Init, InRange
<1> QED BY <1>3, <1>4, GwSocketServerAssumption
        DEF Init, IInv, Owned, Held, CleanSlots, MessageApart, Forwarding, NoEcho, hasClient

-----------------------------------------------------------------------------
(* Types                                                                    *)

LEMMA StopTyped ==
  ASSUME TypeOK, NEW s \in Slot, hasClient(s), stop(s)
  PROVE  /\ net' \in [Conn -> {"new", "pending", "open", "peerclosed", "closed"}]
         /\ fd' \in [Slot -> Conn \cup {NoConn}] /\ fd[s] \in Conn
BY DEF TypeOK, hasClient, stop

LEMMA SentTyped ==
  ASSUME TypeOK, NEW s \in Slot, NEW n, Sent(s, n)
  PROVE  BuffersTyped'
<1>1. buffer[s] \in Seq(Sentence) /\ n \in 1..Len(buffer[s]) /\ Len(buffer[s]) \in Nat
      /\ Len(buffer[s]) <= bufferSize /\ bufferSize \in Nat
  BY SlotFacts DEF Sent, TypeOK
<1>2. buffer' = [buffer EXCEPT ![s] = SubSeq(buffer[s], n + 1, Len(buffer[s]))]
  BY DEF Sent
<1>3. SubSeq(buffer[s], n + 1, Len(buffer[s])) \in Seq(Sentence)
  BY <1>1
<1>4. Len(SubSeq(buffer[s], n + 1, Len(buffer[s]))) <= bufferSize
  BY <1>1
<1>5. UNCHANGED <<bufferSize, readBuffer>>
  BY DEF Sent, options
<1> QED BY <1>2, <1>3, <1>4, <1>5 DEF TypeOK, BuffersTyped

LEMMA EnqueuedTyped ==
  ASSUME TypeOK, NEW s \in Slot, hasClient(s), NEW from \in Conn \cup {Other}
  PROVE  Enqueued(s, from) \in Seq(Sentence) /\ Len(Enqueued(s, from)) <= bufferSize
<1>1. buffer[s] \in Seq(Sentence) /\ Len(buffer[s]) <= bufferSize /\ bufferSize \in Nat
  BY SlotFacts DEF TypeOK
<1>2. [from |-> from, to |-> fd[s]] \in Sentence
  BY DEF TypeOK, hasClient, Sentence
<1> QED BY <1>1, <1>2 DEF Enqueued, Fits

LEMMA QueuedTyped ==
  ASSUME TypeOK, NEW from \in Conn \cup {Other}, NEW src, sendToClients(from, src),
         UNCHANGED <<bufferSize, readBuffer>>
  PROVE  BuffersTyped'
<1>1. PICK gone \in SUBSET {s \in Slot : hasClient(s) /\ FALSE \in connected(s)} :
        buffer' = [s \in Slot |-> IF s \in Skipped(src) \cup gone \/ ~hasClient(s)
                                 THEN buffer[s] ELSE Enqueued(s, from)]
  BY DEF sendToClients
<1>2. \A s \in Slot : buffer'[s] \in Seq(Sentence) /\ Len(buffer'[s]) <= bufferSize
  BY <1>1, EnqueuedTyped DEF TypeOK
<1>3. buffer' \in [Slot -> Seq(Sentence)]
  BY <1>1, <1>2
<1> QED BY <1>2, <1>3 DEF TypeOK, BuffersTyped

-----------------------------------------------------------------------------
(* Where the main loop goes                                                 *)

MainTyped ==
  /\ pc \in {"top", "accept", "write", "check", "fetch", "forward", "convert"}
  /\ at \in 1..maxClients /\ reading \in BOOLEAN
  /\ source \in 0..maxClients /\ message \in Conn \cup {NoConn}

LEMMA MainFacts ==
  ASSUME TypeOK, InRange
  PROVE  MainTyped /\ maxClients \in Nat \ {0}
BY SlotFacts DEF TypeOK, InRange, MainTyped

LEMMA NextSlotMoves ==
  ASSUME IInv, pc = "write", NextSlot("check"), UNCHANGED maxClients, Apart => Apart'
  PROVE  MainTyped' /\ MessageApart'
<1>1. MainTyped /\ maxClients \in Nat \ {0} /\ MessageApart
  BY MainFacts DEF IInv
<1>2. pc' \in {"write", "check"} /\ UNCHANGED <<reading, source, message>>
  BY DEF NextSlot
<1>3. at' \in 1..maxClients
  BY <1>1 DEF NextSlot, MainTyped
<1> QED BY <1>1, <1>2, <1>3 DEF MainTyped, MessageApart, Forwarding

LEMMA NextCheckMoves ==
  ASSUME IInv, pc = "check", NextCheck, UNCHANGED maxClients,
         Apart /\ source' = source => Apart'
  PROVE  MainTyped' /\ MessageApart'
<1>1. MainTyped /\ maxClients \in Nat \ {0} /\ MessageApart
  BY MainFacts DEF IInv
<1>2. CASE at < maxClients
  <2>1. at' \in 1..maxClients /\ UNCHANGED <<pc, reading, source, message>>
    BY <1>1, <1>2 DEF NextCheck, MainTyped
  <2> QED BY <1>1, <2>1 DEF MainTyped, MessageApart, Forwarding
<1>3. CASE ~(at < maxClients)
  <2>1. /\ at' = 1 /\ pc' = AfterLoop /\ reading' \in BOOLEAN /\ UNCHANGED message
        /\ source' = IF ~reading /\ source = 0 THEN 1 ELSE source
    BY <1>3 DEF NextCheck
  <2>2. CASE reading
    <3>1. pc' = "accept" /\ source' = source
      BY <2>1, <2>2 DEF AfterLoop
    <3> QED BY <1>1, <2>1, <3>1 DEF MainTyped, MessageApart, Forwarding
  <2>3. CASE ~reading /\ source = 0
    <3>1. pc' = "fetch" /\ source' = 1
      BY <2>1, <2>3 DEF AfterLoop
    <3> QED BY <1>1, <2>1, <3>1 DEF MainTyped, MessageApart, Forwarding
  <2>4. CASE ~reading /\ source # 0
    <3>1. pc' = "convert" /\ source' = source
      BY <2>1, <2>4 DEF AfterLoop
    <3> QED BY <1>1, <2>1, <2>4, <3>1 DEF MainTyped, MessageApart, Forwarding
  <2> QED BY <2>2, <2>3, <2>4
<1> QED BY <1>2, <1>3

LEMMA NextSourceMoves ==
  ASSUME IInv, pc \in {"fetch", "convert"}, NextSource, UNCHANGED <<maxClients, at, reading>>,
         message' \in {message, NoConn}
  PROVE  MainTyped' /\ MessageApart'
<1>1. MainTyped /\ maxClients \in Nat \ {0} /\ source \in 1..maxClients
  BY MainFacts DEF IInv, MessageApart
<1> QED BY <1>1 DEF NextSource, MainTyped, MessageApart, Forwarding

(* pc = "accept" is where every call of loop begins.                        *)
LEMMA StartLoopMoves ==
  ASSUME IInv, NEW read \in BOOLEAN, StartLoop(read), UNCHANGED <<maxClients, fd, net, message>>,
         \/ pc \in {"top", "forward"} /\ UNCHANGED source
         \/ source' = 0
  PROVE  MainTyped' /\ MessageApart'
<1>1. MainTyped /\ maxClients \in Nat \ {0} /\ MessageApart
  BY MainFacts DEF IInv
<1>2. pc' = "accept" /\ at' = 1 /\ reading' = read
  BY DEF StartLoop
<1>3. MainTyped'
  BY <1>1, <1>2 DEF MainTyped
<1> QED BY <1>1, <1>2, <1>3 DEF MessageApart, Forwarding, Apart

-----------------------------------------------------------------------------
(* What happens to the slots                                                *)

SlotsInv == Owned /\ Held /\ CleanSlots /\ NoEcho

LEMMA SlotsUnchanged ==
  ASSUME SlotsInv, UNCHANGED <<slotVars, netVars>>
  PROVE  SlotsInv' /\ (Apart /\ UNCHANGED <<source, message>> => Apart')
BY DEF SlotsInv, Owned, Held, CleanSlots, Clean, NoEcho, hasClient, Apart,
       slotVars, netVars, options

LEMMA StopKeeps ==
  ASSUME TypeOK, SlotsInv, NEW s \in Slot, hasClient(s), stop(s), UNCHANGED <<buffer, readBuffer>>,
         UNCHANGED writeError \/ writeError' = [writeError EXCEPT ![s] = TRUE]
  PROVE  SlotsInv' /\ (Apart /\ UNCHANGED <<source, message>> => Apart')
<1>1. /\ fd' = [fd EXCEPT ![s] = NoConn] /\ net' = [net EXCEPT ![fd[s]] = "closed"]
      /\ fd[s] \in Conn /\ NoConn \notin Conn
  BY GwSocketServerAssumption DEF TypeOK, hasClient, stop
<1>2. fd'[s] = NoConn /\ \A t \in Slot : t # s => fd'[t] = fd[t]
  BY <1>1 DEF TypeOK
<1>3. net'[fd[s]] = "closed" /\ \A c \in Conn : c # fd[s] => net'[c] = net[c]
  BY <1>1 DEF TypeOK
<1>4. \A t \in Slot : hasClient(t) /\ t # s => fd[t] # fd[s] /\ fd[t] \in Conn
  BY DEF SlotsInv, Owned, hasClient, TypeOK
<1>5. Owned'
  BY <1>2, <1>3, <1>4 DEF SlotsInv, Owned, hasClient
<1>6. Held'
  BY <1>1, <1>2, <1>3 DEF SlotsInv, Held
<1>7. CleanSlots'
  <2> SUFFICES ASSUME NEW t \in Slot, fd'[t] # NoConn PROVE Clean(t)'
    BY DEF CleanSlots, hasClient
  <2>1. t # s /\ fd'[t] = fd[t] /\ Clean(t)
    BY <1>2 DEF SlotsInv, CleanSlots, hasClient
  <2>2. writeError'[t] = writeError[t]
    BY <2>1 DEF TypeOK
  <2> QED BY <2>1, <2>2 DEF Clean
<1>8. NoEcho'
  BY DEF SlotsInv, NoEcho
<1>9. ASSUME Apart, UNCHANGED <<source, message>> PROVE Apart'
  BY <1>1, <1>2, <1>3, <1>9 DEF Apart, TypeOK
<1> QED BY <1>5, <1>6, <1>7, <1>8, <1>9 DEF SlotsInv

LEMMA SendKeeps ==
  ASSUME TypeOK, SlotsInv, NEW from \in Conn \cup {Other}, NEW src, sendToClients(from, src),
         UNCHANGED <<fd, readBuffer, writeError, net>>,
         \A s \in Slot : hasClient(s) /\ fd[s] = from => s = src
  PROVE  SlotsInv'
<1>1. PICK gone \in SUBSET {s \in Slot : hasClient(s) /\ FALSE \in connected(s)} :
        buffer' = [s \in Slot |-> IF s \in Skipped(src) \cup gone \/ ~hasClient(s)
                                 THEN buffer[s] ELSE Enqueued(s, from)]
  BY DEF sendToClients
<1>2. \A s \in Slot : \/ buffer'[s] = buffer[s]
                      \/ /\ hasClient(s) /\ fd[s] # from
                         /\ buffer'[s] = Append(buffer[s], [from |-> from, to |-> fd[s]])
  BY <1>1 DEF Skipped, Enqueued
<1>3. ASSUME NEW s \in Slot
      PROVE  /\ (\A i \in DOMAIN buffer[s] : buffer[s][i].from # buffer[s][i].to)
                => \A i \in DOMAIN buffer'[s] : buffer'[s][i].from # buffer'[s][i].to
             /\ (\A i \in DOMAIN buffer[s] : buffer[s][i].to = fd[s])
                => \A i \in DOMAIN buffer'[s] : buffer'[s][i].to = fd[s]
  <2>1. CASE buffer'[s] = buffer[s]
    BY <2>1
  <2>2. CASE /\ hasClient(s) /\ fd[s] # from
             /\ buffer'[s] = Append(buffer[s], [from |-> from, to |-> fd[s]])
    <3>1. buffer[s] \in Seq(Sentence) /\ [from |-> from, to |-> fd[s]] \in Sentence
      BY <2>2 DEF TypeOK, hasClient, Sentence
    <3>2. /\ DOMAIN buffer[s] = 1..Len(buffer[s]) /\ Len(buffer[s]) \in Nat
          /\ DOMAIN buffer'[s] = 1..(Len(buffer[s]) + 1)
          /\ \A i \in 1..Len(buffer[s]) : buffer'[s][i] = buffer[s][i]
          /\ buffer'[s][Len(buffer[s]) + 1] = [from |-> from, to |-> fd[s]]
      BY <2>2, <3>1
    <3>3. \A i \in 1..(Len(buffer[s]) + 1) : i \in 1..Len(buffer[s]) \/ i = Len(buffer[s]) + 1
      BY <3>2
    <3> QED BY <2>2, <3>2, <3>3
  <2> QED BY <1>2, <2>1, <2>2
<1>4. NoEcho'
  BY <1>3 DEF SlotsInv, NoEcho
<1>5. CleanSlots'
  BY <1>3 DEF SlotsInv, CleanSlots, Clean, hasClient
<1> QED BY <1>4, <1>5 DEF SlotsInv, Owned, Held, hasClient

-----------------------------------------------------------------------------
(* The invariant by what the actions change.                                *)

SlotsTyped ==
  /\ <<maxClients, bufferSize>> \in Sizes
  /\ fd \in [Slot -> Conn \cup {NoConn}]
  /\ pendingWrite \in [Slot -> BOOLEAN] /\ writeError \in [Slot -> BOOLEAN]
  /\ net \in [Conn -> {"new", "pending", "open", "peerclosed", "closed"}]
  /\ inbox \in [Conn -> 0..MaxInbox] /\ blocked \in [Conn -> BOOLEAN]

Parts == SlotsTyped /\ BuffersTyped /\ MainTyped /\ SlotsInv /\ MessageApart

LEMMA PartsHold ==
  ASSUME IInv
  PROVE  Parts /\ TypeOK /\ maxClients \in Nat \ {0} /\ 1..maxClients \subseteq Slot
BY MainFacts, SlotFacts DEF IInv, Parts, SlotsTyped, BuffersTyped, SlotsInv, TypeOK

LEMMA PartsSuffice ==
  ASSUME Parts
  PROVE  IInv
<1>1. PICK z \in Sizes : z = <<maxClients, bufferSize>>
  BY DEF Parts, SlotsTyped
<1>2. maxClients \in Nat \ {0}
  BY <1>1, GwSocketServerAssumption
<1>3. at \in 1..(maxClients + 1) /\ source \in 0..(maxClients + 1)
  BY <1>2 DEF Parts, MainTyped
<1>4. TypeOK
  BY <1>3 DEF Parts, SlotsTyped, BuffersTyped, MainTyped, TypeOK
<1> QED BY <1>4 DEF Parts, MainTyped, InRange, SlotsInv, IInv

(* Only the main loop moves on.                                             *)
LEMMA QuietStep ==
  ASSUME IInv, UNCHANGED <<slotVars, netVars>>, MainTyped', MessageApart'
  PROVE  IInv'
<1>1. SlotsTyped' /\ BuffersTyped'
  BY PartsHold DEF Parts, SlotsTyped, BuffersTyped, slotVars, netVars, options
<1>2. SlotsInv'
  BY PartsHold, SlotsUnchanged DEF Parts
<1>3. Parts'
  BY <1>1, <1>2 DEF Parts
<1> QED BY <1>3, PartsSuffice, PTL

LEMMA LoopStep ==
  ASSUME IInv,
         \/ NothingToAccept \/ WriteNobody \/ CheckNobody \/ StartLoopRun \/ FetchNothing
         \/ \E s \in Slot : WriteBlocked(s) \/ NothingRead(s)
  PROVE  IInv'
<1>0. MainTyped /\ MessageApart
  BY PartsHold DEF Parts
<1>1. CASE NothingToAccept
  <2>1. UNCHANGED <<slotVars, netVars, at, reading, source, message>> /\ pc = "accept"
        /\ pc' \in {"check", "write"}
    BY <1>1 DEF NothingToAccept
  <2>2. MainTyped' /\ MessageApart'
    BY <1>0, <2>1
       DEF MainTyped, MessageApart, Forwarding, Apart, slotVars, netVars, options
  <2> QED BY <2>1, <2>2, QuietStep
<1>2. CASE WriteNobody \/ \E s \in Slot : WriteBlocked(s)
  <2>1. UNCHANGED <<slotVars, netVars>> /\ pc = "write" /\ NextSlot("check")
    BY <1>2 DEF WriteNobody, WriteBlocked, Writing
  <2>2. Apart => Apart'
    BY <2>1 DEF Apart, NextSlot, slotVars, netVars, options
  <2>3. UNCHANGED maxClients
    BY <2>1 DEF slotVars, options
  <2> QED BY <2>1, <2>2, <2>3, NextSlotMoves, QuietStep
<1>3. CASE CheckNobody \/ \E s \in Slot : NothingRead(s)
  <2>1. UNCHANGED <<slotVars, netVars>> /\ pc = "check" /\ NextCheck
    BY <1>3 DEF CheckNobody, NothingRead, Checking
  <2>2. Apart /\ source' = source => Apart'
    BY <2>1 DEF Apart, NextCheck, slotVars, netVars, options
  <2>3. UNCHANGED maxClients
    BY <2>1 DEF slotVars, options
  <2> QED BY <2>1, <2>2, <2>3, NextCheckMoves, QuietStep
<1>4. CASE StartLoopRun
  <2>1. UNCHANGED <<slotVars, netVars, source, message>> /\ pc = "top" /\ StartLoop(TRUE)
    BY <1>4 DEF StartLoopRun
  <2>2. UNCHANGED <<maxClients, fd, net, message>>
    BY <2>1 DEF slotVars, netVars, options
  <2> QED BY <2>1, <2>2, StartLoopMoves, QuietStep
<1>5. CASE FetchNothing
  <2>1. UNCHANGED <<slotVars, netVars, at, reading, message>> /\ pc = "fetch" /\ NextSource
    BY <1>5 DEF FetchNothing
  <2>2. UNCHANGED maxClients
    BY <2>1 DEF slotVars, options
  <2> QED BY <2>1, <2>2, NextSourceMoves, QuietStep
<1> QED BY <1>1, <1>2, <1>3, <1>4, <1>5

(* A client is stopped.                                                     *)
LEMMA StopStep ==
  ASSUME IInv, NEW s \in Slot,
         WriteTimeout(s) \/ WriteFails(s) \/ Disconnect(s) \/ ReadFails(s)
  PROVE  IInv'
<1>1. /\ hasClient(s) /\ stop(s)
      /\ UNCHANGED <<options, buffer, readBuffer, pendingWrite, inbox, blocked>>
      /\ UNCHANGED writeError \/ writeError' = [writeError EXCEPT ![s] = TRUE]
      /\ \/ pc = "write" /\ NextSlot("check")
         \/ pc = "check" /\ NextCheck
  <2>1. CASE WriteTimeout(s)
    <3>1. pc = "write" /\ NextSlot("check") /\ writeError' = [writeError EXCEPT ![s] = TRUE]
      BY <2>1 DEF WriteTimeout, Writing
    <3>2. /\ hasClient(s) /\ stop(s)
          /\ UNCHANGED <<options, buffer, readBuffer, pendingWrite, inbox, blocked>>
      BY <2>1 DEF WriteTimeout, Writing
    <3> QED BY <3>1, <3>2
  <2>2. CASE WriteFails(s)
    <3>1. pc = "write" /\ NextSlot("check") /\ UNCHANGED writeError
      BY <2>2 DEF WriteFails, Writing
    <3>2. /\ hasClient(s) /\ stop(s)
          /\ UNCHANGED <<options, buffer, readBuffer, pendingWrite, inbox, blocked>>
      BY <2>2 DEF WriteFails, Writing
    <3> QED BY <3>1, <3>2
  <2>3. CASE Disconnect(s) \/ ReadFails(s)
    BY <2>3 DEF Disconnect, ReadFails, Checking
  <2> QED BY <2>1, <2>2, <2>3
<1>2. UNCHANGED <<maxClients, bufferSize>>
  BY <1>1 DEF options
<1>3. SlotsInv' /\ (Apart /\ UNCHANGED <<source, message>> => Apart')
  BY <1>1, PartsHold, StopKeeps DEF Parts
<1>4. MainTyped' /\ MessageApart'
  <2>1. CASE pc = "write" /\ NextSlot("check")
    BY <1>2, <1>3, <2>1, NextSlotMoves DEF NextSlot
  <2>2. CASE pc = "check" /\ NextCheck
    <3>1. UNCHANGED message
      BY <2>2 DEF NextCheck
    <3> QED BY <1>2, <1>3, <2>2, <3>1, NextCheckMoves
  <2> QED BY <1>1, <2>1, <2>2
<1>5. SlotsTyped' /\ BuffersTyped'
  <2>1. writeError' \in [Slot -> BOOLEAN]
    BY <1>1, PartsHold DEF Parts, SlotsTyped
  <2>2. fd' \in [Slot -> Conn \cup {NoConn}]
        /\ net' \in [Conn -> {"new", "pending", "open", "peerclosed", "closed"}]
    BY <1>1, PartsHold, StopTyped
  <2> QED BY <1>1, <1>2, <2>1, <2>2, PartsHold DEF Parts, SlotsTyped, BuffersTyped
<1>6. Parts'
  BY <1>3, <1>4, <1>5 DEF Parts
<1> QED BY <1>6, PartsSuffice, PTL

(* Sentences leave a send buffer from its start.                            *)
LEMMA SentStep ==
  ASSUME IInv, NEW s \in Slot, WriteAll(s) \/ \E n \in 1..bufferSize : WritePart(s, n)
  PROVE  IInv'
<1>0. Parts /\ TypeOK
  BY PartsHold
<1>1. /\ pc = "write" /\ NextSlot("check")
      /\ UNCHANGED <<options, fd, readBuffer, netVars, writeError>>
      /\ \E b \in BOOLEAN : pendingWrite' = [pendingWrite EXCEPT ![s] = b]
      /\ UNCHANGED buffer \/ \E n \in 1..Len(buffer[s]) : Sent(s, n)
  <2>1. CASE WriteAll(s)
    BY <2>1 DEF WriteAll, Sent, Writing
  <2>2. CASE \E n \in 1..bufferSize : WritePart(s, n)
    BY <2>2 DEF WritePart, Sent, Writing
  <2> QED BY <2>1, <2>2
<1>2. UNCHANGED <<maxClients, bufferSize, net, inbox, blocked>>
  BY <1>1 DEF options, netVars
<1>3. SlotsTyped' /\ BuffersTyped'
  <2>1. BuffersTyped'
    <3>1. CASE UNCHANGED buffer
      BY <1>0, <1>1, <1>2, <3>1 DEF Parts, BuffersTyped
    <3>2. CASE \E n \in 1..Len(buffer[s]) : Sent(s, n)
      BY <1>0, <3>2, SentTyped
    <3> QED BY <1>1, <3>1, <3>2
  <2>2. pendingWrite' \in [Slot -> BOOLEAN]
    BY <1>0, <1>1 DEF Parts, SlotsTyped
  <2> QED BY <1>0, <1>1, <1>2, <2>1, <2>2 DEF Parts, SlotsTyped
<1>4. MainTyped' /\ MessageApart'
  <2>1. Apart => Apart'
    BY <1>1, <1>2 DEF Apart, NextSlot
  <2> QED BY <1>1, <1>2, <2>1, NextSlotMoves
<1>5. \A t \in Slot : \A i \in DOMAIN buffer'[t] :
        \E j \in DOMAIN buffer[t] : buffer'[t][i] = buffer[t][j]
  <2>1. CASE UNCHANGED buffer
    BY <2>1
  <2>2. ASSUME NEW n \in 1..Len(buffer[s]), Sent(s, n)
        PROVE  \A t \in Slot : \A i \in DOMAIN buffer'[t] :
                 \E j \in DOMAIN buffer[t] : buffer'[t][i] = buffer[t][j]
    <3>1. buffer' = [buffer EXCEPT ![s] = SubSeq(buffer[s], n + 1, Len(buffer[s]))]
      BY <2>2 DEF Sent
    <3>2. \A t \in Slot : t # s => buffer'[t] = buffer[t]
      BY <1>0, <3>1 DEF TypeOK
    <3>3. buffer'[s] = SubSeq(buffer[s], n + 1, Len(buffer[s])) /\ buffer[s] \in Seq(Sentence)
      BY <1>0, <3>1 DEF TypeOK
    <3>4. /\ DOMAIN buffer[s] = 1..Len(buffer[s])
          /\ DOMAIN buffer'[s] = 1..(Len(buffer[s]) - n) /\ Len(buffer[s]) \in Nat
          /\ \A i \in 1..(Len(buffer[s]) - n) : buffer'[s][i] = buffer[s][i + n]
      BY <3>3
    <3>5. \A i \in 1..(Len(buffer[s]) - n) : i + n \in 1..Len(buffer[s])
      BY <3>4
    <3> QED BY <3>2, <3>4, <3>5
  <2> QED BY <1>1, <2>1, <2>2
<1>6. SlotsInv'
  <2>1. NoEcho'
    BY <1>0, <1>5 DEF Parts, SlotsInv, NoEcho
  <2>2. CleanSlots'
    BY <1>0, <1>1, <1>5 DEF Parts, SlotsInv, CleanSlots, Clean, hasClient
  <2> QED BY <1>0, <1>1, <1>2, <2>1, <2>2 DEF Parts, SlotsInv, Owned, Held, hasClient
<1>7. Parts'
  BY <1>3, <1>4, <1>6 DEF Parts
<1> QED BY <1>7, PartsSuffice, PTL

(* A sentence is read from the network.                                     *)
LEMMA ReadStep ==
  ASSUME IInv, NEW s \in Slot, Read(s)
  PROVE  IInv'
<1>0. Parts /\ TypeOK /\ bufferSize \in Nat
  BY PartsHold, SlotFacts
<1>1. /\ pc = "check" /\ NextCheck /\ hasClient(s) /\ fd[s] \in Conn
      /\ UNCHANGED <<options, fd, buffer, pendingWrite, writeError, net, blocked>>
      /\ readBuffer' = [readBuffer EXCEPT ![s] = Append(readBuffer[s], fd[s])]
      /\ Len(readBuffer[s]) < bufferSize /\ inbox[fd[s]] > 0
      /\ inbox' = [inbox EXCEPT ![fd[s]] = inbox[fd[s]] - 1]
  BY <1>0 DEF Read, Checking, hasClient, TypeOK
<1>2. UNCHANGED <<maxClients, bufferSize>>
  BY <1>1 DEF options
<1>3. readBuffer[s] \in Seq(Conn) /\ \A t \in Slot : t # s => readBuffer'[t] = readBuffer[t]
  BY <1>0, <1>1 DEF TypeOK
<1>4. readBuffer'[s] = Append(readBuffer[s], fd[s])
  BY <1>0, <1>1 DEF TypeOK
<1>5. SlotsTyped' /\ BuffersTyped'
  <2>1. inbox[fd[s]] - 1 \in 0..MaxInbox
    BY <1>0, <1>1, GwSocketServerAssumption DEF TypeOK
  <2>2. inbox' \in [Conn -> 0..MaxInbox]
    BY <1>0, <1>1, <2>1 DEF TypeOK
  <2>3. Append(readBuffer[s], fd[s]) \in Seq(Conn)
    BY <1>1, <1>3
  <2>4. Len(readBuffer'[s]) <= bufferSize
    BY <1>0, <1>1, <1>3, <1>4
  <2>5. BuffersTyped'
    BY <1>0, <1>1, <1>2, <1>3, <2>3, <2>4 DEF Parts, BuffersTyped
  <2> QED BY <1>0, <1>1, <1>2, <2>2, <2>5 DEF Parts, SlotsTyped
<1>6. MainTyped' /\ MessageApart'
  <2>1. Apart /\ source' = source => Apart'
    BY <1>1 DEF Apart, NextCheck
  <2> QED BY <1>1, <1>2, <2>1, NextCheckMoves
<1>7. SlotsInv'
  <2>1. \A i \in DOMAIN readBuffer'[s] : readBuffer'[s][i] = fd[s]
    <3>1. \A i \in DOMAIN readBuffer[s] : readBuffer[s][i] = fd[s]
      BY <1>0, <1>1 DEF Parts, SlotsInv, CleanSlots, Clean
    <3> QED BY <1>1, <1>3, <1>4, <3>1
  <2>2. CleanSlots'
    BY <1>0, <1>1, <1>3, <2>1 DEF Parts, SlotsInv, CleanSlots, Clean, hasClient
  <2> QED BY <1>0, <1>1, <2>2 DEF Parts, SlotsInv, Owned, Held, NoEcho, hasClient
<1>8. Parts'
  BY <1>5, <1>6, <1>7 DEF Parts
<1> QED BY <1>8, PartsSuffice, PTL

(* A sentence is taken from a receive buffer: it is of the slot's client.   *)
LEMMA FetchStep ==
  ASSUME IInv, FetchMessage
  PROVE  IInv'
<1>0. Parts /\ TypeOK /\ bufferSize \in Nat /\ source \in Slot /\ source \in 1..maxClients
  BY PartsHold, SlotFacts DEF Parts, MessageApart, FetchMessage
<1>1. /\ pc = "fetch" /\ pc' = "forward" /\ hasClient(source) /\ readBuffer[source] # <<>>
      /\ message' = Head(readBuffer[source])
      /\ readBuffer' = [readBuffer EXCEPT ![source] = Tail(readBuffer[source])]
      /\ UNCHANGED <<options, fd, buffer, pendingWrite, writeError, netVars, at, reading, source>>
  BY DEF FetchMessage
<1>2. UNCHANGED <<maxClients, bufferSize, net, inbox, blocked>>
  BY <1>1 DEF options, netVars
<1>3. /\ readBuffer[source] \in Seq(Conn)
      /\ \A t \in Slot : t # source => readBuffer'[t] = readBuffer[t]
  BY <1>0, <1>1 DEF TypeOK
<1>4. readBuffer'[source] = Tail(readBuffer[source])
  BY <1>0, <1>1 DEF TypeOK
<1>5. \A i \in DOMAIN readBuffer[source] : readBuffer[source][i] = fd[source]
  BY <1>0, <1>1 DEF Parts, SlotsInv, CleanSlots, Clean
<1>6. message' = fd[source] /\ fd[source] \in Conn
  BY <1>0, <1>1, <1>3, <1>5 DEF hasClient, TypeOK
<1>7. SlotsTyped' /\ BuffersTyped'
  <2>1. Tail(readBuffer[source]) \in Seq(Conn) /\ Len(Tail(readBuffer[source])) <= bufferSize
    <3>1. Len(readBuffer[source]) <= bufferSize
      BY <1>0 DEF TypeOK
    <3> QED BY <1>0, <1>1, <1>3, <3>1
  <2>2. BuffersTyped'
    BY <1>0, <1>1, <1>2, <1>3, <2>1 DEF Parts, BuffersTyped
  <2> QED BY <1>0, <1>1, <1>2, <2>2 DEF Parts, SlotsTyped
<1>8. MainTyped' /\ MessageApart'
  <2>1. MainTyped'
    BY <1>0, <1>1, <1>2, <1>6 DEF Parts, MainTyped
  <2>2. Apart'
    BY <1>0, <1>1, <1>2, <1>6 DEF Parts, SlotsInv, Owned, hasClient, Apart
  <2> QED BY <1>0, <1>1, <1>2, <1>6, <2>1, <2>2 DEF MessageApart
<1>9. SlotsInv'
  <2>1. \A i \in DOMAIN readBuffer'[source] : readBuffer'[source][i] = fd[source]
    <3> DEFINE q == readBuffer[source]
    <3>1. q \in Seq(Conn) /\ q # <<>> /\ readBuffer'[source] = Tail(q)
      BY <1>1, <1>3, <1>4
    <3>2. /\ DOMAIN q = 1..Len(q) /\ Len(q) \in Nat \ {0}
          /\ DOMAIN Tail(q) = 1..(Len(q) - 1)
          /\ \A i \in 1..(Len(q) - 1) : Tail(q)[i] = q[i + 1]
      BY <3>1
    <3>3. \A i \in 1..(Len(q) - 1) : i + 1 \in 1..Len(q)
      BY <3>2
    <3>4. \A i \in DOMAIN q : q[i] = fd[source]
      BY <1>5
    <3> QED BY <3>1, <3>2, <3>3, <3>4
  <2>2. \A t \in Slot : hasClient(t) => Clean(t)
    BY <1>0 DEF Parts, SlotsInv, CleanSlots
  <2>3. \A t \in Slot : t # source /\ hasClient(t) => Clean(t)'
    BY <1>1, <1>3, <2>2 DEF Clean
  <2>4. Clean(source)'
    BY <1>0, <1>1, <2>1, <2>2 DEF Clean
  <2>5. CleanSlots'
    BY <1>1, <2>3, <2>4 DEF CleanSlots, hasClient
  <2> QED BY <1>0, <1>1, <1>2, <2>5 DEF Parts, SlotsInv, Owned, Held, NoEcho, hasClient
<1>10. Parts'
  BY <1>7, <1>8, <1>9 DEF Parts
<1> QED BY <1>10, PartsSuffice, PTL

(* A new client finds a clean slot.                                         *)
LEMMA AcceptStep ==
  ASSUME IInv, Accept
  PROVE  IInv'
<1>0. Parts /\ TypeOK /\ bufferSize \in Nat /\ Slot \subseteq Nat /\ 1..maxClients \subseteq Slot
  BY PartsHold, SlotFacts
<1>1. /\ pc = "accept" /\ pc' \in {"check", "write"}
      /\ UNCHANGED <<options, inbox, blocked, at, reading, source, message>>
  BY DEF Accept
<1>2. UNCHANGED <<maxClients, bufferSize>>
  BY <1>1 DEF options
<1>3. PICK c \in Conn :
        /\ net[c] = "pending"
        /\ \/ net' = [net EXCEPT ![c] = "closed"] /\ UNCHANGED slotVars
           \/ \E s \in Free : net' = [net EXCEPT ![c] = "open"] /\ setClient(s, c)
  BY DEF Accept
<1>4. (Apart => net'[message] \notin {"new", "pending"}) /\ (Apart => message # c)
  BY <1>0, <1>3 DEF Apart, TypeOK
<1>5. ASSUME Parts', Apart => Apart' PROVE IInv'
  BY <1>5, PartsSuffice, PTL
<1>6. MainTyped'
  BY <1>0, <1>1, <1>2 DEF Parts, MainTyped
<1>7. ASSUME Apart => Apart' PROVE MessageApart'
  BY <1>0, <1>1, <1>2, <1>7 DEF Parts, MessageApart, Forwarding
<1>8. \A d \in Conn : d # c => net'[d] = net[d]
  BY <1>0, <1>3 DEF TypeOK
<1>9. \A t \in Slot : hasClient(t) => fd[t] # c
  BY <1>0, <1>3 DEF Parts, SlotsInv, Owned
<1>10. CASE net' = [net EXCEPT ![c] = "closed"] /\ UNCHANGED slotVars
  <2>1. UNCHANGED <<fd, buffer, readBuffer, pendingWrite, writeError>>
    BY <1>10 DEF slotVars
  <2>2. SlotsTyped' /\ BuffersTyped'
    BY <1>0, <1>1, <1>2, <1>10, <2>1 DEF Parts, SlotsTyped, BuffersTyped
  <2>3. Apart => Apart'
    BY <1>1, <1>4, <2>1 DEF Apart
  <2>4. Owned'
    <3>1. \A t \in Slot : hasClient(t) => fd[t] \in Conn /\ net'[fd[t]] = net[fd[t]]
      BY <1>0, <1>8, <1>9 DEF hasClient, TypeOK
    <3> QED BY <1>0, <2>1, <3>1 DEF Parts, SlotsInv, Owned, hasClient
  <2>5. net'[c] = "closed"
    BY <1>0, <1>10 DEF TypeOK
  <2>6. Held'
    BY <1>0, <1>8, <2>1, <2>5 DEF Parts, SlotsInv, Held
  <2>7. CleanSlots' /\ NoEcho'
    BY <1>0, <2>1 DEF Parts, SlotsInv, CleanSlots, Clean, NoEcho, hasClient
  <2> QED BY <1>6, <1>7, <2>2, <2>3, <2>4, <2>6, <2>7, <1>5 DEF Parts, SlotsInv
<1>11. ASSUME NEW s \in Free, net' = [net EXCEPT ![c] = "open"], setClient(s, c)
       PROVE  IInv'
  <2>0. s \in Slot /\ fd[s] = NoConn /\ c # NoConn
    BY <1>0, GwSocketServerAssumption DEF Free, hasClient
  <2>1. /\ fd' = [fd EXCEPT ![s] = c]
        /\ buffer' = [buffer EXCEPT ![s] = <<>>] /\ readBuffer' = [readBuffer EXCEPT ![s] = <<>>]
        /\ pendingWrite' = [pendingWrite EXCEPT ![s] = FALSE]
        /\ writeError' = [writeError EXCEPT ![s] = FALSE]
    BY <1>11 DEF setClient, ResetBuffers
  <2>2. /\ fd'[s] = c /\ buffer'[s] = <<>> /\ readBuffer'[s] = <<>> /\ ~writeError'[s]
        /\ net'[c] = "open"
    BY <1>0, <1>11, <2>0, <2>1 DEF TypeOK
  <2>3. \A t \in Slot : t # s =>
          /\ fd'[t] = fd[t] /\ buffer'[t] = buffer[t] /\ readBuffer'[t] = readBuffer[t]
          /\ writeError'[t] = writeError[t]
    BY <1>0, <2>1 DEF TypeOK
  <2>4. SlotsTyped'
    BY <1>0, <1>1, <1>2, <1>11, <2>1 DEF Parts, SlotsTyped
  <2>5. BuffersTyped'
    <3>1. <<>> \in Seq(Sentence) /\ <<>> \in Seq(Conn) /\ Len(<<>>) = 0
      OBVIOUS
    <3>2. \A t \in Slot : Len(buffer'[t]) <= bufferSize /\ Len(readBuffer'[t]) <= bufferSize
      BY <1>0, <2>2, <2>3, <3>1 DEF TypeOK
    <3> QED BY <1>0, <1>2, <2>1, <3>1, <3>2 DEF Parts, BuffersTyped
  <2>6. Apart => Apart'
    BY <1>1, <1>4, <2>2, <2>3 DEF Apart
  <2>7. Owned'
    <3>1. \A t \in Slot : t # s /\ fd'[t] # NoConn => fd'[t] # c /\ fd'[t] \in Conn
      BY <1>0, <1>9, <2>3 DEF hasClient, TypeOK
    <3>2. \A t, u \in Slot : t # s /\ u # s /\ fd'[t] # NoConn /\ fd'[t] = fd'[u] => t = u
      BY <1>0, <2>3 DEF Parts, SlotsInv, Owned, hasClient
    <3>3. \A t \in Slot : t # s /\ fd'[t] # NoConn => net'[fd'[t]] \in {"open", "peerclosed"}
      BY <1>0, <1>8, <2>3, <3>1 DEF Parts, SlotsInv, Owned, hasClient
    <3> QED BY <2>0, <2>2, <3>1, <3>2, <3>3 DEF Owned, hasClient
  <2>8. Held'
    <3> SUFFICES ASSUME NEW d \in Conn, net'[d] \in {"open", "peerclosed"}
                 PROVE  \E t \in Slot : fd'[t] = d
      BY DEF Held
    <3>1. CASE d = c
      BY <2>0, <2>2, <3>1
    <3>2. CASE d # c
      <4>1. PICK t \in Slot : fd[t] = d
        BY <1>0, <1>8, <3>2 DEF Parts, SlotsInv, Held
      <4>2. t # s
        BY <2>0, <4>1, GwSocketServerAssumption
      <4> QED BY <2>3, <4>1, <4>2
    <3> QED BY <3>1, <3>2
  <2>9. CleanSlots' /\ NoEcho'
    <3>1. DOMAIN buffer'[s] = {} /\ DOMAIN readBuffer'[s] = {}
      BY <2>2
    <3>2. Clean(s)'
      BY <2>2, <3>1 DEF Clean
    <3>3. \A t \in Slot : t # s /\ fd[t] # NoConn => Clean(t)'
      BY <1>0, <2>3 DEF Parts, SlotsInv, CleanSlots, Clean, hasClient
    <3> QED BY <1>0, <2>3, <3>1, <3>2, <3>3 DEF Parts, SlotsInv, CleanSlots, NoEcho, hasClient
  <2> QED BY <1>6, <1>7, <2>4, <2>5, <2>6, <2>7, <2>8, <2>9, <1>5 DEF Parts, SlotsInv
<1> QED BY <1>3, <1>10, <1>11

(* Sentences are sent to the clients.                                       *)
LEMMA SendStep ==
  ASSUME IInv, SendOther \/ ForwardOther \/ Forward \/ Convert
  PROVE  IInv'
<1>0. Parts /\ TypeOK
  BY PartsHold
<1>1. /\ UNCHANGED <<options, fd, readBuffer, pendingWrite, writeError, netVars>>
      /\ \/ UNCHANGED buffer
         \/ sendToClients(Other, 0)
         \/ sendToClients(message, source) /\ pc \in {"forward", "convert"}
  BY DEF SendOther, ForwardOther, Forward, Convert
<1>2. UNCHANGED <<maxClients, bufferSize, net, inbox, blocked>>
  BY <1>1 DEF options, netVars
<1>3. pc \in {"forward", "convert"} => Apart /\ source # 0
  BY <1>0 DEF Parts, MessageApart, Forwarding, MainTyped
<1>4. SlotsInv' /\ BuffersTyped'
  <2>1. CASE UNCHANGED buffer
    BY <1>0, <1>1, <1>2, <2>1
       DEF Parts, BuffersTyped, SlotsInv, Owned, Held, CleanSlots, Clean, NoEcho, hasClient
  <2>2. CASE sendToClients(Other, 0)
    <3>1. \A s \in Slot : hasClient(s) => fd[s] # Other
      BY <1>0, GwSocketServerAssumption DEF TypeOK, hasClient
    <3> QED BY <1>0, <1>1, <1>2, <2>2, <3>1, SendKeeps, QueuedTyped DEF Parts
  <2>3. CASE sendToClients(message, source) /\ pc \in {"forward", "convert"}
    <3>1. message \in Conn /\ \A s \in Slot : hasClient(s) /\ fd[s] = message => s = source
      BY <1>3, <2>3 DEF Apart
    <3> QED BY <1>0, <1>1, <1>2, <2>3, <3>1, SendKeeps, QueuedTyped DEF Parts
  <2> QED BY <1>1, <2>1, <2>2, <2>3
<1>5. MainTyped' /\ MessageApart'
  <2>1. CASE SendOther
    <3>1. UNCHANGED <<pc, at, reading, source, message>>
      BY <2>1 DEF SendOther, mainVars
    <3> QED BY <1>0, <1>1, <1>2, <3>1 DEF Parts, MainTyped, MessageApart, Forwarding, Apart
  <2>2. CASE ForwardOther \/ Forward
    <3>1. /\ StartLoop(FALSE) /\ UNCHANGED message
          /\ \/ pc = "forward" /\ UNCHANGED source
             \/ source' = 0
      BY <2>2 DEF ForwardOther, Forward
    <3>2. UNCHANGED <<maxClients, fd, net, message>>
      BY <1>1, <1>2, <3>1
    <3>3. FALSE \in BOOLEAN
      OBVIOUS
    <3>4. \/ pc \in {"top", "forward"} /\ UNCHANGED source
          \/ source' = 0
      BY <3>1
    <3> QED BY <3>1, <3>2, <3>3, <3>4, StartLoopMoves
  <2>3. CASE Convert
    <3>1. pc = "convert" /\ NextSource /\ UNCHANGED <<at, reading>> /\ message' = NoConn
      BY <2>3 DEF Convert
    <3>2. /\ pc \in {"fetch", "convert"} /\ UNCHANGED <<maxClients, at, reading>>
          /\ message' \in {message, NoConn}
      BY <1>2, <3>1
    <3> QED BY <3>1, <3>2, NextSourceMoves
  <2> QED BY <2>1, <2>2, <2>3 DEF SendOther, ForwardOther, Forward, Convert
<1>6. SlotsTyped'
  BY <1>0, <1>1, <1>2 DEF Parts, SlotsTyped
<1>7. Parts'
  BY <1>4, <1>5, <1>6 DEF Parts
<1> QED BY <1>7, PartsSuffice, PTL

(* The clients connect, send, go away and stop to read.                     *)
LEMMA ClientStep ==
  ASSUME IInv, NEW c \in Conn, Client(c)
  PROVE  IInv'
<1>0. Parts /\ TypeOK
  BY PartsHold
<1>1. UNCHANGED <<maxClients, bufferSize, fd, buffer, readBuffer, pendingWrite, writeError>>
      /\ UNCHANGED <<pc, at, reading, source, message>>
  BY DEF Client, slotVars, options, mainVars
<1>2. \/ UNCHANGED net
      \/ net[c] = "new" /\ net' = [net EXCEPT ![c] = "pending"]
      \/ net[c] = "open" /\ net' = [net EXCEPT ![c] = "peerclosed"]
  BY DEF Client
<1>3. inbox' \in [Conn -> 0..MaxInbox] /\ blocked' \in [Conn -> BOOLEAN]
  <2>0. MaxInbox \in Nat /\ inbox \in [Conn -> 0..MaxInbox] /\ blocked \in [Conn -> BOOLEAN]
    BY <1>0, GwSocketServerAssumption DEF TypeOK
  <2>1. CASE UNCHANGED <<inbox, blocked>>
    BY <2>0, <2>1
  <2>2. CASE /\ inbox[c] < MaxInbox /\ inbox' = [inbox EXCEPT ![c] = inbox[c] + 1]
             /\ UNCHANGED blocked
    <3>1. inbox[c] + 1 \in 0..MaxInbox
      BY <2>0, <2>2
    <3> QED BY <2>0, <2>2, <3>1
  <2>3. CASE blocked' = [blocked EXCEPT ![c] = ~blocked[c]] /\ UNCHANGED inbox
    BY <2>0, <2>3
  <2> QED BY <2>1, <2>2, <2>3 DEF Client
<1>4. SlotsTyped' /\ BuffersTyped'
  BY <1>0, <1>1, <1>2, <1>3 DEF Parts, SlotsTyped, BuffersTyped
<1>5. Owned' /\ Held'
  <2>1. \A d \in Conn : net'[d] \in {"open", "peerclosed"} <=> net[d] \in {"open", "peerclosed"}
    BY <1>0, <1>2 DEF TypeOK
  <2>2. \A t \in Slot : hasClient(t) => fd[t] \in Conn
    BY <1>0 DEF TypeOK, hasClient
  <2>3. Owned'
    BY <1>0, <1>1, <2>1, <2>2 DEF Parts, SlotsInv, Owned, hasClient
  <2> QED BY <1>0, <1>1, <2>1, <2>3 DEF Parts, SlotsInv, Held
<1>6. CleanSlots' /\ NoEcho'
  BY <1>0, <1>1 DEF Parts, SlotsInv, CleanSlots, Clean, NoEcho, hasClient
<1>7. Apart => Apart'
  BY <1>0, <1>1, <1>2 DEF Apart, TypeOK
<1>8. MainTyped' /\ MessageApart'
  BY <1>0, <1>1, <1>7 DEF Parts, MainTyped, MessageApart, Forwarding
<1>9. Parts'
  BY <1>4, <1>5, <1>6, <1>8 DEF Parts, SlotsInv
<1> QED BY <1>9, PartsSuffice, PTL

LEMMA StepIInv == IInv /\ [Next]_vars => IInv'
<1> SUFFICES ASSUME IInv, [Next]_vars PROVE IInv'
  OBVIOUS
<1>1. CASE UNCHANGED vars
  <2>1. UNCHANGED <<slotVars, netVars>> /\ UNCHANGED <<pc, at, reading, source, message>>
    BY <1>1 DEF vars, mainVars
  <2>2. MainTyped' /\ MessageApart'
    BY PartsHold, <2>1
       DEF Parts, MainTyped, MessageApart, Forwarding, Apart, slotVars, netVars, options
  <2> QED BY <2>1, <2>2, QuietStep
<1>2. CASE Main
  BY <1>2, LoopStep, AcceptStep, FetchStep, SendStep, StopStep, SentStep, ReadStep
     DEF Main, Write, Check
<1>3. CASE SendOther \/ ForwardOther
  BY <1>3, SendStep
<1>4. CASE \E c \in Conn : Client(c)
  BY <1>4, ClientStep
<1> QED BY <1>1, <1>2, <1>3, <1>4 DEF Next

-----------------------------------------------------------------------------
LEMMA IInvAlways == Spec => []IInv
<1> QED BY InitIInv, StepIInv, PTL DEF Spec

(* Slots, buffers and connections keep their types, and no buffer holds     *)
(* more than its size.                                                      *)
THEOREM TypeCorrect == Spec => []TypeOK
<1>1. IInv => TypeOK
  BY DEF IInv
<1> QED BY <1>1, IInvAlways, PTL

(* No sentence is sent back to the client it came from, for any number of   *)
(* clients and slots (GwSocketServer::sendToClients).                       *)
THEOREM EchoFree == Spec => []NoEcho
<1>1. IInv => NoEcho
  BY DEF IInv
<1> QED BY <1>1, IInvAlways, PTL

(* No client gets or speaks for what belongs to an earlier client of its    *)
(* slot (GwSocketConnection::setClient).                                    *)
THEOREM Isolated == Spec => []SlotIsolation
<1>1. IInv => SlotIsolation
  BY DEF IInv, CleanSlots, Clean, MessageApart, SlotIsolation
<1> QED BY <1>1, IInvAlways, PTL

(* Every accepted connection is in exactly one slot until it is closed      *)
(* (GwSocketConnection::stop).                                              *)
THEOREM NoLeak == Spec => []NoLeakedSocket
<1>1. IInv => NoLeakedSocket
  <2> SUFFICES ASSUME IInv, NEW c \in Conn
               PROVE  Cardinality({s \in Slot : fd[s] = c}) =
                        (IF net[c] \in {"open", "peerclosed"} THEN 1 ELSE 0)
    BY DEF NoLeakedSocket
  <2>0. c # NoConn /\ Owned /\ Held
    BY GwSocketServerAssumption DEF IInv
  <2>1. CASE net[c] \in {"open", "peerclosed"}
    <3>1. PICK s \in Slot : fd[s] = c
      BY <2>0, <2>1 DEF Held
    <3>2. {t \in Slot : fd[t] = c} = {s}
      BY <2>0, <3>1 DEF Owned, hasClient
    <3> QED BY <2>1, <3>2, FS_Singleton
  <2>2. CASE net[c] \notin {"open", "peerclosed"}
    <3>1. {t \in Slot : fd[t] = c} = {}
      BY <2>0, <2>2 DEF Owned, hasClient
    <3> QED BY <2>2, <3>1, FS_EmptySet
  <2> QED BY <2>1, <2>2
<1> QED BY <1>1, IInvAlways, PTL
=============================================================================
