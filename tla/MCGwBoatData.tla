---------------------------- MODULE MCGwBoatData ----------------------------
(* The bus and two channels; five milliseconds, so that a value times out   *)
(* and comes again, and the clock does not start again in this time.        *)
EXTENDS GwBoatData
=============================================================================
