------------------------------ MODULE MCGwLog ------------------------------
(* A USB port with sentences, and forms that make the web task flush.       *)
EXTENDS GwLog, TLC

SentencesAndForms == {[sends |-> TRUE, forms |-> TRUE]}
=============================================================================
