------------------------------ MODULE ByteFifo ------------------------------
(***************************************************************************)
(* What a GwBuffer promises the tasks that use it: a queue of bytes that   *)
(* holds at most Capacity of them, keeps their order, never duplicates or  *)
(* invents one, takes a write completely or not at all unless the writer   *)
(* asked for a partial one, and hands out one delimited message at a time. *)
(***************************************************************************)
EXTENDS Naturals, Sequences

CONSTANTS Byte,      (* the bytes a producer may write                      *)
          Delimiter, (* the byte that ends a message                        *)
          Capacity   (* how many bytes the queue holds                      *)

VARIABLES queue,     (* the bytes written and not yet taken, oldest first   *)
          message    (* the message handed out by the last TakeMessage      *)

fifoVars == <<queue, message>>

FifoInit == queue = <<>> /\ message = <<>>

(* A producer's bytes go behind what is queued, and only if they fit.       *)
Put == /\ \E n \in 1..(Capacity - Len(queue)) :
            /\ Len(queue') = Len(queue) + n
            /\ \A i \in 1..n : queue'[Len(queue) + i] \in Byte
            /\ SubSeq(queue', 1, Len(queue)) = queue
       /\ UNCHANGED message

(* A consumer takes any number of bytes from the front.                     *)
Take == /\ \E n \in 1..Len(queue) : queue' = SubSeq(queue, n + 1, Len(queue))
        /\ UNCHANGED message

(* The bytes up to and including the first delimiter, as one message.       *)
TakeMessage ==
  \E n \in 1..Len(queue) :
    /\ queue[n] = Delimiter
    /\ \A i \in 1..(n - 1) : queue[i] # Delimiter
    /\ message' = SubSeq(queue, 1, n)
    /\ queue' = SubSeq(queue, n + 1, Len(queue))

Clear == queue' = <<>> /\ UNCHANGED message

FifoNext == Put \/ Take \/ TakeMessage \/ Clear

FifoSpec == FifoInit /\ [][FifoNext]_fifoVars
=============================================================================
