-------------------------- MODULE MCGwXDRMappings --------------------------
(* Tables that the configuration page accepts: no name twice, and single    *)
(* mappings and an automatic one for the same field. The devices send what  *)
(* the tables name, and one transducer that is not mapped.                  *)
EXTENDS GwXDRMappings

CONSTANTS engine, tank, stranger

MCTables ==
  LET single == [name |-> engine, field |-> 0, mode |-> "single", inst |-> 0] IN
  {<<single>>, <<single, [name |-> tank, field |-> 0, mode |-> "auto", inst |-> 0]>>}

Heard(n, i) == [name |-> n, inst |-> i, known |-> TRUE]
MCTransducer ==
  {Heard(engine, NoNumber), Heard(tank, 0), Heard(tank, 1),
   [name |-> stranger, inst |-> NoNumber, known |-> FALSE]}
=============================================================================
