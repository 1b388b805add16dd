----------------------------- MODULE MCMainLoop -----------------------------
(* The dispatch of messages, the request queue and a ring buffer of a       *)
(* channel: all are served in the loop of the main task, and they share no  *)
(* state here. One run checks them: it chooses one of them at the start,    *)
(* and the others stand still.                                              *)
(*                                                                          *)
(* Requests: the web task, one user task and the button task share the      *)
(* queue. One request fills it and a second one is alive at the same time,  *)
(* in the hands of the main loop or of its sender, or finds the queue full. *)
(*                                                                          *)
(* Ring buffer: four cells, so that there is every pair of offsets, full,   *)
(* empty and wrapped.                                                       *)
EXTENDS MCGwRouting, GwRequestQueue, GwBuffer

CONSTANTS char, nl

MCByte == {char, nl}
MCChunk == UNION {[1..n -> MCByte] : n \in 0..4}

VARIABLE part

loopVars == <<vars, requestVars, bufferVars, part>>

LoopInit ==
  /\ part \in {"gateways", "requests", "ring"}
  /\ Init /\ RequestInit /\ BufferInit
  /\ part # "gateways" => config = CHOOSE f \in Lone : TRUE
  /\ part # "ring" => buffer = [i \in Cell |-> char]

Gateways == part = "gateways" /\ Next /\ UNCHANGED <<requestVars, bufferVars, part>>
Requests == part = "requests" /\ RequestNext /\ UNCHANGED <<vars, bufferVars, part>>
Ring == part = "ring" /\ BufferNext /\ UNCHANGED <<vars, requestVars, part>>

In(p, A) == part = p /\ A

(* The fairness of FairSpec and RequestFairSpec.                            *)
LoopSpec ==
  /\ LoopInit
  /\ [][Gateways \/ Requests \/ Ring]_loopVars
  /\ \A p \in End : WF_vars(In("gateways", ReadPeer(p) \/ IgnorePeer(p)))
  /\ WF_requestVars(In("requests", Main))
  /\ \A t \in Sender : WF_requestVars(In("requests", Proceed(t)))
  /\ WF_requestVars(In("requests", Handover))
  /\ \A m \in Msg :
       /\ SF_requestVars(In("requests", \E n \in 1..ResultLength : Poll(m, n)))
       /\ SF_requestVars(In("requests", Closes(m)))
=============================================================================
