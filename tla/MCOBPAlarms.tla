----------------------------- MODULE MCOBPAlarms -----------------------------
(* An alarm on a limit and one at a time of day, in both orders, with the   *)
(* delay longer and shorter than the times of silence.                      *)
EXTENDS OBPAlarms, TLC

Setting(k, d, s, u) == [kind |-> k, delay |-> d, snooze |-> s, suspend |-> u]

MCSetups ==
  {<<Setting("limit", 2, 1, 1), Setting("time", 0, 1, 0)>>,
   <<Setting("time", 1, 0, 1), Setting("limit", 0, 2, 1)>>}
=============================================================================
