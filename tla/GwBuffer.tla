------------------------------ MODULE GwBuffer ------------------------------
(***************************************************************************)
(* lib/queue/GwBuffer: the ring of bytes between a channel and its device. *)
(* The pointers into the allocated block are modelled as offsets; one cell *)
(* is always left free, so that equal pointers mean an empty ring.         *)
(* "handled" is what a handler callback reports it has consumed (a short   *)
(* write) or produced (a short read).                                      *)
(***************************************************************************)
EXTENDS Integers, Sequences

CONSTANTS Byte,         (* the values a cell can hold                       *)
          Delimiter,    (* the byte that ends a message ('\n')              *)
          bufferSize,   (* the number of allocated cells                    *)
          messageSize,  (* the size of the caller's message buffer          *)
          Chunk         (* the byte strings one call may offer              *)

ASSUME GwBufferAssumption ==
  /\ Delimiter \in Byte
  /\ bufferSize \in Nat /\ bufferSize >= 2
  /\ messageSize \in Nat
  /\ Chunk \subseteq Seq(Byte)

VARIABLES buffer,        (* the cells                                       *)
          writePointer,  (* offset of the next cell to write                *)
          readPointer,   (* offset of the next cell to read                 *)
          message        (* the message the caller fetched last             *)

bufferVars == <<buffer, writePointer, readPointer, message>>

Cell == 0..(bufferSize - 1)

(* Operators named <definition>_<Fault> are faulty forms of the definition   *)
(* that follows them; no specification uses them.                           *)

(* The pointer correction after every advance.                              *)
Wrap(p) == IF p >= bufferSize THEN p - bufferSize ELSE p

usedSpace(r, w) == IF r <= w THEN w - r ELSE w + bufferSize - r

freeSpace(r, w) == IF r <= w THEN r + bufferSize - w - 1 ELSE r - w - 1

Least(m, n) == IF m <= n THEN m ELSE n

(* memcpy of the first n bytes of data to offset w.                         *)
Store(b, w, data, n) ==
  [c \in Cell |-> IF c \in w..(w + n - 1) THEN data[c - w + 1] ELSE b[c]]

(* The bytes in the ring, oldest first.                                     *)
Content(b, r, w) == [i \in 1..usedSpace(r, w) |-> b[Wrap(r + i - 1)]]

BufferTypeOK == /\ buffer \in [Cell -> Byte]
                /\ writePointer \in Cell
                /\ readPointer \in Cell
                /\ message \in Seq(Byte)

(* The cells are not initialised by new[]: any content is possible.         *)
BufferInit == /\ buffer \in [Cell -> Byte]
              /\ writePointer = 0
              /\ readPointer = 0
              /\ message = <<>>

ClearPointers == writePointer' = 0 /\ readPointer' = 0

reset == ClearPointers /\ UNCHANGED <<buffer, message>>

-----------------------------------------------------------------------------
(* addData copies in two passes: up to the end of the block, then from its  *)
(* start. A pass is limited by what is left, by the free space and by the   *)
(* end of the block.                                                        *)

PassLength(r, w, left) == Least(Least(left, freeSpace(r, w)), bufferSize - w)

Accepts(data, addPartial) ==
  /\ Len(data) # 0
  /\ addPartial \/ freeSpace(readPointer, writePointer) >= Len(data)

addData(data, addPartial) ==
  LET n1 == PassLength(readPointer, writePointer, Len(data))
      w1 == Wrap(writePointer + n1)
      n2 == PassLength(readPointer, w1, Len(data) - n1)
      b1 == Store(buffer, writePointer, data, n1)
  IN  /\ Accepts(data, addPartial)
      /\ buffer' = Store(b1, w1, SubSeq(data, n1 + 1, Len(data)), n2)
      /\ writePointer' = Wrap(w1 + n2)
      /\ UNCHANGED <<readPointer, message>>

(* One contiguous run of free cells is offered to the handler; the last     *)
(* cell of the block is withheld while the reader is at its start.          *)
FillLength_NoGap(r, w) == IF w >= r THEN bufferSize - w ELSE r - w - 1

FillLength(r, w) == IF w >= r
                    THEN IF r = 0 THEN bufferSize - w - 1 ELSE bufferSize - w
                    ELSE r - w - 1

fillData(data, handled) ==
  /\ freeSpace(readPointer, writePointer) >= 1
  /\ handled <= Len(data)
  /\ handled \in 1..FillLength(readPointer, writePointer)
  /\ buffer' = Store(buffer, writePointer, data, handled)
  /\ writePointer' = Wrap(writePointer + handled)
  /\ UNCHANGED <<readPointer, message>>

-----------------------------------------------------------------------------
(* One contiguous run of used cells is offered to the handler.              *)
FetchLength_PastWriter(r, w) == bufferSize - r

FetchLength(r, w) == IF w > r THEN w - r ELSE bufferSize - r

fetchData(maxLen, handled) ==
  /\ usedSpace(readPointer, writePointer) >= 1
  /\ handled \in 1..Least(FetchLength(readPointer, writePointer), maxLen)
  /\ readPointer' = Wrap(readPointer + handled)
  /\ UNCHANGED <<buffer, writePointer, message>>

read == /\ usedSpace(readPointer, writePointer) # 0
        /\ readPointer' = Wrap(readPointer + 1)
        /\ UNCHANGED <<buffer, writePointer, message>>

(* findChar walks the used cells with its own wrapping pointer.             *)
Found(of) == /\ of \in 0..(usedSpace(readPointer, writePointer) - 1)
             /\ buffer[Wrap(readPointer + of)] = Delimiter
             /\ \A o \in 0..(of - 1) :
                  buffer[Wrap(readPointer + o)] # Delimiter

findChar == {of \in Cell : Found(of)}

(* A full ring without a delimiter can never be read: it is emptied.        *)
DropUnterminated ==
  /\ findChar = {}
  /\ freeSpace(readPointer, writePointer) = 0
  /\ reset

(* The message with its delimiter and a final 0 must fit the caller's       *)
(* buffer, otherwise everything queued is thrown away.                      *)
DropTooLong ==
  /\ \E of \in findChar : of + 1 >= messageSize
  /\ reset

(* The fetch loop: a message that wraps takes two calls of fetchData.       *)
FetchMessage ==
  \E of \in findChar :
    LET len == of + 1
        n1  == Least(FetchLength(readPointer, writePointer), len)
        r1  == Wrap(readPointer + n1)
        n2  == Least(FetchLength(r1, writePointer), len - n1)
    IN  /\ len < messageSize
        /\ message' = [i \in 1..len |->
                         IF i <= n1 THEN buffer[readPointer + i - 1]
                                    ELSE buffer[r1 + i - n1 - 1]]
        /\ readPointer' = Wrap(r1 + n2)
        /\ UNCHANGED <<buffer, writePointer>>

fetchMessageToBuffer == DropUnterminated \/ DropTooLong \/ FetchMessage

-----------------------------------------------------------------------------
BufferNext == \/ reset
              \/ \E data \in Chunk, addPartial \in BOOLEAN : addData(data, addPartial)
              \/ \E data \in Chunk, handled \in Cell : fillData(data, handled)
              \/ \E maxLen \in Cell, handled \in Cell : fetchData(maxLen, handled)
              \/ read
              \/ fetchMessageToBuffer

BufferSpec == BufferInit /\ [][BufferNext]_bufferVars

-----------------------------------------------------------------------------
(* The free and the used cells together are all cells but the one that is   *)
(* kept free, so a full ring is never mistaken for an empty one             *)
(* (GwBuffer::freeSpace, GwBuffer::usedSpace).                              *)
SpaceInv ==
  usedSpace(readPointer, writePointer) + freeSpace(readPointer, writePointer)
    = bufferSize - 1

(* The ring is a queue of bufferSize - 1 bytes: whatever the wrap-around,   *)
(* a byte is read once, in order, and never before it was written           *)
(* (GwBuffer::addData, fillData, fetchData, read, fetchMessageToBuffer).    *)
Fifo == INSTANCE ByteFifo WITH
          queue <- Content(buffer, readPointer, writePointer),
          Capacity <- bufferSize - 1
FifoSpec == Fifo!FifoSpec

(* A write is queued as a whole: all of data by addData without addPartial, *)
(* and by fillData all the bytes the handler has produced. A torn NMEA      *)
(* sentence never reaches a client, and filling the ring up to its last     *)
(* cell does not make it look empty (GwBuffer::addData, GwBuffer::fillData).*)
WritesQueued ==
  [][bufferVars' # bufferVars => \A data \in Chunk :
       LET now  == Content(buffer, readPointer, writePointer)
           then == Content(buffer', readPointer', writePointer')
       IN  /\ addData(data, FALSE) => then = now \o data
           /\ \A handled \in Cell :
                fillData(data, handled) =>
                  then = now \o SubSeq(data, 1, handled)]_bufferVars
=============================================================================
