--------------------------- MODULE GwSocketServer ---------------------------
(***************************************************************************)
(* lib/socketserver GwSocketServer and GwSocketConnection: the NMEA0183    *)
(* TCP server. It keeps a fixed number of client slots, each with a send   *)
(* and a receive buffer, and works on non blocking sockets from the main   *)
(* loop. While the main loop forwards a received sentence it calls the     *)
(* server's loop again, so clients come and go in the middle of a          *)
(* dispatch.                                                               *)
(*                                                                         *)
(* Conn are the connections clients open, each one once. Buffers hold      *)
(* whole sentences, at most bufferSize. A sentence in a send buffer is     *)
(* tagged with the connection it came from and with the one it was queued  *)
(* for. The network, and the time the write timeout needs, are free.       *)
(***************************************************************************)
EXTENDS Integers, Sequences, FiniteSets

CONSTANTS Conn,          (* connections                                     *)
          Sizes,         (* <<slots, sentences a buffer holds>>             *)
          MaxInbox,      (* bound of unread sentences in the network        *)
          NoConn,
          Other          (* a source that is no client of this server       *)

ASSUME GwSocketServerAssumption ==
  /\ NoConn \notin Conn /\ Other \notin Conn /\ NoConn # Other
  /\ Sizes \subseteq (Nat \ {0}) \X (Nat \ {0}) /\ MaxInbox \in Nat

Slot == UNION {1..z[1] : z \in Sizes}
Sentence == [from : Conn \cup {Other}, to : Conn]

VARIABLES
  maxClients,     (* the option of this name: the number of slots           *)
  bufferSize,     (* the bytes of a buffer, in sentences                    *)
  fd,             (* GwSocketConnection::fd as the connection, or NoConn    *)
  buffer,         (* the send buffer                                        *)
  readBuffer,     (* the receive buffer: where each sentence came from      *)
  pendingWrite, writeError,
  net,            (* a connection as the network sees it                    *)
  inbox,          (* sentences on their way from the client                 *)
  blocked,        (* the client's receive window is closed                  *)
  pc,             (* where the main task is                                 *)
  at,             (* the slot it works on                                   *)
  reading,        (* loop was called with handleRead                        *)
  source,         (* the slot whose sentence is dispatched, 0 if none       *)
  message         (* that sentence's connection                             *)

options  == <<maxClients, bufferSize>>
slotVars == <<options, fd, buffer, readBuffer, pendingWrite, writeError>>
netVars  == <<net, inbox, blocked>>
mainVars == <<pc, at, reading, source, message>>
vars == <<slotVars, netVars, mainVars>>

TypeOK ==
  /\ <<maxClients, bufferSize>> \in Sizes
  /\ fd \in [Slot -> Conn \cup {NoConn}]
  /\ buffer \in [Slot -> Seq(Sentence)] /\ readBuffer \in [Slot -> Seq(Conn)]
  /\ \A s \in Slot : Len(buffer[s]) <= bufferSize /\ Len(readBuffer[s]) <= bufferSize
  /\ pendingWrite \in [Slot -> BOOLEAN] /\ writeError \in [Slot -> BOOLEAN]
  /\ net \in [Conn -> {"new", "pending", "open", "peerclosed", "closed"}]
  /\ inbox \in [Conn -> 0..MaxInbox] /\ blocked \in [Conn -> BOOLEAN]
  /\ pc \in {"top", "accept", "write", "check", "fetch", "forward", "convert"}
  /\ at \in 1..(maxClients + 1) /\ reading \in BOOLEAN
  /\ source \in 0..(maxClients + 1) /\ message \in Conn \cup {NoConn}

Init ==
  /\ \E z \in Sizes : maxClients = z[1] /\ bufferSize = z[2]
  /\ fd = [s \in Slot |-> NoConn]
  /\ buffer = [s \in Slot |-> <<>>] /\ readBuffer = [s \in Slot |-> <<>>]
  /\ pendingWrite = [s \in Slot |-> FALSE] /\ writeError = [s \in Slot |-> FALSE]
  /\ net = [c \in Conn |-> "new"]
  /\ inbox = [c \in Conn |-> 0] /\ blocked = [c \in Conn |-> FALSE]
  /\ pc = "top" /\ at = 1 /\ reading = TRUE /\ source = 0 /\ message = NoConn

-----------------------------------------------------------------------------
(* GwSocketConnection                                                       *)

hasClient(s) == fd[s] # NoConn

(* What recv tells about a connection; it may be late to notice a closed    *)
(* one, or misread the error number left by another call.                   *)
connected(s) == IF net[fd[s]] = "open" THEN {TRUE} ELSE {TRUE, FALSE}

ResetBuffers_ReadOnly(s) ==
  /\ readBuffer' = [readBuffer EXCEPT ![s] = <<>>]
  /\ UNCHANGED buffer

ResetBuffers(s) ==
  /\ buffer' = [buffer EXCEPT ![s] = <<>>]
  /\ readBuffer' = [readBuffer EXCEPT ![s] = <<>>]

setClient(s, c) ==
  /\ fd' = [fd EXCEPT ![s] = c]
  /\ ResetBuffers(s)
  /\ pendingWrite' = [pendingWrite EXCEPT ![s] = FALSE]
  /\ writeError' = [writeError EXCEPT ![s] = FALSE]

stop_NoClose(s) ==
  /\ fd' = [fd EXCEPT ![s] = NoConn]
  /\ UNCHANGED net

stop(s) ==
  /\ net' = [net EXCEPT ![fd[s]] = "closed"]
  /\ fd' = [fd EXCEPT ![s] = NoConn]

(* addData takes a sentence as a whole or not at all.                       *)
Fits(s) == Len(buffer[s]) < bufferSize

Enqueued(s, from) ==
  IF Fits(s) THEN Append(buffer[s], [from |-> from, to |-> fd[s]]) ELSE buffer[s]

-----------------------------------------------------------------------------
(* GwSocketServer::loop                                                     *)

StartLoop(read) == pc' = "accept" /\ at' = 1 /\ reading' = read

Free == {s \in 1..maxClients : ~hasClient(s)}

(* One pending connection gets the first free slot, or is closed.           *)
Accept ==
  /\ pc = "accept"
  /\ \E c \in Conn :
       /\ net[c] = "pending"
       /\ \/ /\ Free = {}
             /\ net' = [net EXCEPT ![c] = "closed"] /\ UNCHANGED slotVars
          \/ \E s \in Free :
               /\ \A t \in Free : s <= t
               /\ net' = [net EXCEPT ![c] = "open"] /\ setClient(s, c)
  /\ pc' = IF reading THEN "check" ELSE "write"
  /\ UNCHANGED <<options, inbox, blocked, at, reading, source, message>>

NothingToAccept ==
  /\ pc = "accept" /\ \A c \in Conn : net[c] # "pending"
  /\ pc' = IF reading THEN "check" ELSE "write"
  /\ UNCHANGED <<slotVars, netVars, at, reading, source, message>>

NextSlot(next) ==
  /\ IF at < maxClients THEN at' = at + 1 /\ UNCHANGED pc ELSE at' = 1 /\ pc' = next
  /\ UNCHANGED <<reading, source, message>>

Writing(s) == pc = "write" /\ at = s /\ hasClient(s)

(* The first n sentences leave, because the window or the end of the ring   *)
(* stops the next one.                                                      *)
Sent(s, n) ==
  /\ n \in 1..Len(buffer[s]) /\ ~blocked[fd[s]]
  /\ buffer' = [buffer EXCEPT ![s] = SubSeq(@, n + 1, Len(@))]
  /\ UNCHANGED <<options, fd, readBuffer, netVars>>

WriteAll(s) ==
  /\ Writing(s)
  /\ IF buffer[s] = <<>> THEN UNCHANGED <<options, fd, buffer, readBuffer, netVars>>
                         ELSE Sent(s, Len(buffer[s]))
  /\ pendingWrite' = [pendingWrite EXCEPT ![s] = FALSE]
  /\ UNCHANGED writeError
  /\ NextSlot("check")

(* Only a part left. Either send took less than it was given and the write  *)
(* timer starts, or the part up to the end of the ring left and the next    *)
(* send would block.                                                        *)
WritePart(s, n) ==
  /\ Writing(s) /\ n < Len(buffer[s]) /\ Sent(s, n)
  /\ \E short \in BOOLEAN : pendingWrite' = [pendingWrite EXCEPT ![s] = short]
  /\ UNCHANGED writeError
  /\ NextSlot("check")

(* The timer has run out: writeError, and loop stops the client.            *)
WriteTimeout(s) ==
  /\ Writing(s) /\ buffer[s] # <<>> /\ pendingWrite[s] /\ ~blocked[fd[s]]
  /\ writeError' = [writeError EXCEPT ![s] = TRUE]
  /\ stop(s)
  /\ UNCHANGED <<options, buffer, readBuffer, pendingWrite, inbox, blocked>>
  /\ NextSlot("check")

(* EAGAIN: nothing can be sent, handleError returns false.                  *)
WriteBlocked(s) ==
  /\ Writing(s) /\ buffer[s] # <<>> /\ blocked[fd[s]]
  /\ UNCHANGED <<slotVars, netVars>>
  /\ NextSlot("check")

(* Any other error of send: handleError stops the client.                   *)
WriteFails(s) ==
  /\ Writing(s) /\ buffer[s] # <<>> /\ net[fd[s]] = "peerclosed"
  /\ stop(s)
  /\ UNCHANGED <<options, buffer, readBuffer, pendingWrite, writeError, inbox, blocked>>
  /\ NextSlot("check")

WriteNobody ==
  /\ pc = "write" /\ ~hasClient(at)
  /\ UNCHANGED <<slotVars, netVars>>
  /\ NextSlot("check")

(* Where loop returns to.                                                   *)
AfterLoop == IF reading THEN "accept" ELSE IF source = 0 THEN "fetch" ELSE "convert"

(* The last slot: the main loop goes on, from reading to writing ...        *)
NextCheck ==
  IF at < maxClients
  THEN at' = at + 1 /\ UNCHANGED <<pc, reading, source, message>>
  ELSE /\ at' = 1 /\ pc' = AfterLoop /\ reading' = FALSE
       /\ source' = IF ~reading /\ source = 0 THEN 1 ELSE source
       /\ UNCHANGED message

Checking(s) == pc = "check" /\ at = s /\ hasClient(s)

CheckNobody ==
  /\ pc = "check" /\ ~hasClient(at)
  /\ UNCHANGED <<slotVars, netVars>> /\ NextCheck

Disconnect(s) ==
  /\ Checking(s) /\ FALSE \in connected(s)
  /\ stop(s)
  /\ UNCHANGED <<options, buffer, readBuffer, pendingWrite, writeError, inbox, blocked>>
  /\ NextCheck

(* The loop for writing, or recv would block, or the buffer is full.        *)
NothingRead(s) ==
  /\ Checking(s) /\ TRUE \in connected(s)
  /\ reading => \/ inbox[fd[s]] = 0 /\ net[fd[s]] = "open"
                \/ Len(readBuffer[s]) = bufferSize
  /\ UNCHANGED <<slotVars, netVars>> /\ NextCheck

Read(s) ==
  /\ Checking(s) /\ TRUE \in connected(s) /\ reading
  /\ inbox[fd[s]] > 0 /\ Len(readBuffer[s]) < bufferSize
  /\ readBuffer' = [readBuffer EXCEPT ![s] = Append(@, fd[s])]
  /\ inbox' = [inbox EXCEPT ![fd[s]] = @ - 1]
  /\ UNCHANGED <<options, fd, buffer, pendingWrite, writeError, net, blocked>> /\ NextCheck

ReadFails_Ignored(s) ==
  /\ Checking(s) /\ TRUE \in connected(s) /\ reading
  /\ net[fd[s]] = "peerclosed" /\ Len(readBuffer[s]) < bufferSize
  /\ UNCHANGED <<slotVars, netVars>> /\ NextCheck

(* recv returned 0 or an error.                                             *)
ReadFails(s) ==
  /\ Checking(s) /\ TRUE \in connected(s) /\ reading
  /\ net[fd[s]] = "peerclosed" /\ Len(readBuffer[s]) < bufferSize
  /\ stop(s)
  /\ UNCHANGED <<options, buffer, readBuffer, pendingWrite, writeError, inbox, blocked>>
  /\ NextCheck

-----------------------------------------------------------------------------
(* GwSocketServer::sendToClients, of a sentence that came from the          *)
(* connection from and carries the id of the slot src.                      *)

Skipped_Nobody(src) == {}

Skipped(src) == {src}

sendToClients(from, src) ==
  \E gone \in SUBSET {s \in Slot : hasClient(s) /\ FALSE \in connected(s)} :
    buffer' = [s \in Slot |-> IF s \in Skipped(src) \cup gone \/ ~hasClient(s)
                             THEN buffer[s] ELSE Enqueued(s, from)]

-----------------------------------------------------------------------------
(* The main loop, as far as it calls the server.                            *)

StartLoopRun ==
  /\ pc = "top" /\ StartLoop(TRUE)
  /\ UNCHANGED <<slotVars, netVars, source, message>>

(* A sentence of another channel, a converter or a user task.               *)
SendOther ==
  /\ pc = "top" /\ sendToClients(Other, 0)
  /\ UNCHANGED <<options, fd, readBuffer, pendingWrite, writeError, netVars, mainVars>>

(* A sentence another channel has received, before the clients' turn.       *)
ForwardOther ==
  /\ pc = "fetch" /\ source = 1 /\ sendToClients(Other, 0)
  /\ StartLoop(FALSE) /\ source' = 0
  /\ UNCHANGED <<options, fd, readBuffer, pendingWrite, writeError, netVars, message>>

NextSource ==
  IF source < maxClients THEN source' = source + 1 /\ pc' = "fetch"
                         ELSE source' = 0 /\ pc' = "top"

(* readMessages: one sentence of each client.                               *)
FetchMessage ==
  /\ pc = "fetch" /\ hasClient(source) /\ readBuffer[source] # <<>>
  /\ message' = Head(readBuffer[source])
  /\ readBuffer' = [readBuffer EXCEPT ![source] = Tail(@)]
  /\ pc' = "forward"
  /\ UNCHANGED <<options, fd, buffer, pendingWrite, writeError, netVars, at, reading, source>>

FetchNothing ==
  /\ pc = "fetch" /\ (hasClient(source) => readBuffer[source] = <<>>)
  /\ NextSource
  /\ UNCHANGED <<slotVars, netVars, at, reading, message>>

(* The handler of loopRun forwards it and runs the server's loop.           *)
Forward ==
  /\ pc = "forward"
  /\ sendToClients(message, source)
  /\ StartLoop(FALSE)
  /\ UNCHANGED <<options, fd, readBuffer, pendingWrite, writeError, netVars, source, message>>

(* Then it may be converted, and the result comes back with the same id.    *)
Convert ==
  /\ pc = "convert"
  /\ sendToClients(message, source) \/ UNCHANGED buffer
  /\ message' = NoConn /\ NextSource
  /\ UNCHANGED <<options, fd, readBuffer, pendingWrite, writeError, netVars, at, reading>>

-----------------------------------------------------------------------------
(* The clients.                                                             *)
Client(c) ==
  /\ \/ /\ net[c] = "new"
        /\ net' = [net EXCEPT ![c] = "pending"] /\ UNCHANGED <<inbox, blocked>>
     \/ /\ net[c] = "open" /\ inbox[c] < MaxInbox
        /\ inbox' = [inbox EXCEPT ![c] = @ + 1] /\ UNCHANGED <<net, blocked>>
     \/ /\ net[c] = "open"
        /\ net' = [net EXCEPT ![c] = "peerclosed"] /\ UNCHANGED <<inbox, blocked>>
     \/ /\ net[c] = "open"
        /\ blocked' = [blocked EXCEPT ![c] = ~@] /\ UNCHANGED <<net, inbox>>
  /\ UNCHANGED <<slotVars, mainVars>>

Write(s) == \/ WriteAll(s) \/ WriteTimeout(s) \/ WriteBlocked(s) \/ WriteFails(s)
            \/ \E n \in 1..bufferSize : WritePart(s, n)

Check(s) == Disconnect(s) \/ NothingRead(s) \/ Read(s) \/ ReadFails(s)

Main == \/ StartLoopRun \/ Accept \/ NothingToAccept \/ WriteNobody \/ CheckNobody
        \/ \E s \in Slot : Write(s) \/ Check(s)
        \/ FetchMessage \/ FetchNothing \/ Forward \/ Convert

Next == Main \/ SendOther \/ ForwardOther \/ \E c \in Conn : Client(c)

Spec == Init /\ [][Next]_vars

(* loopRun is called again and again, and in every iteration each channel   *)
(* gets its turn to forward one sentence.                                   *)
FairSpec == Spec /\ WF_vars(Main) /\ SF_vars(FetchMessage \/ FetchNothing)

-----------------------------------------------------------------------------
(* A sentence is never sent back to the client it came from, although slots *)
(* get other clients while it is forwarded, converted and sent again        *)
(* (GwSocketServer::sendToClients).                                         *)
NoEcho ==
  \A s \in Slot : \A i \in DOMAIN buffer[s] : buffer[s][i].from # buffer[s][i].to

(* A client never gets or speaks for what belongs to an earlier client of   *)
(* its slot (GwSocketConnection::setClient, GwSocketServer::readMessages).  *)
SlotIsolation ==
  /\ \A s \in Slot : hasClient(s) =>
       /\ \A i \in DOMAIN buffer[s] : buffer[s][i].to = fd[s]
       /\ \A i \in DOMAIN readBuffer[s] : readBuffer[s][i] = fd[s]
       /\ ~writeError[s]
  /\ pc = "forward" => fd[source] = message

(* Every accepted connection is in exactly one slot until it is closed: no  *)
(* descriptor leaks and none is used after close (GwSocketConnection::stop, *)
(* GwSocketServer::loop).                                                   *)
NoLeakedSocket ==
  \A c \in Conn : Cardinality({s \in Slot : fd[s] = c}) =
                   (IF net[c] \in {"open", "peerclosed"} THEN 1 ELSE 0)

(* A client that goes away gives its slot back, even if it has sent more    *)
(* than the receive buffer holds (GwSocketServer::loop).                    *)
SlotFreed == \A c \in Conn : net[c] = "peerclosed" ~> net[c] = "closed"

(* A client that takes no data any more is closed by the write timeout      *)
(* (GwSocketConnection::write: "we need to check if we have still not been  *)
(* able to write until timeout").                                           *)
Waiting(c) == blocked[c] /\ \E s \in Slot : fd[s] = c /\ buffer[s] # <<>>

BlockedClientClosed ==
  \A c \in Conn : Waiting(c) ~> (~Waiting(c) \/ net[c] = "closed")
=============================================================================
