------------------------------ MODULE MCValues ------------------------------
(* Boat data, the alarms on them, their history and the XDR mappings. They  *)
(* are checked by one run, which chooses one of them at the start; the      *)
(* others stand still.                                                      *)
(*                                                                          *)
(* Boat data: the bus and two channels; five milliseconds, so that a value  *)
(* times out and comes again, and the clock does not start again in this    *)
(* time.                                                                    *)
(*                                                                          *)
(* Alarms: one on a limit and one at a time of day, in both orders, with    *)
(* the delay longer and shorter than the times of silence.                  *)
(*                                                                          *)
(* History: a ring of seven values that is overwritten almost twice. A      *)
(* window that is set before the ring is full and drawn again after that,   *)
(* on either time axis, lags behind by more than its interval.              *)
(*                                                                          *)
(* XDR mappings: what a table has for a field and an instance is found in   *)
(* every order, and a table has all instances of a field or none.           *)
EXTENDS GwBoatData, OBPAlarms, OBPHistory, GwXDRMappings, TLC

CONSTANTS engine, tank, cabin

Single(n, f, i) == [name |-> n, field |-> f, mode |-> "single", inst |-> i]
Automatic(n, f) == [name |-> n, field |-> f, mode |-> "auto", inst |-> 0]
Ignore(n, f) == [name |-> n, field |-> f, mode |-> "ignore", inst |-> 0]

OneEach == <<Single(engine, 0, 0), Single(tank, 0, 1), Automatic(cabin, 1)>>
MCTables ==
  {OneEach,
   <<Single(engine, 0, 0), Automatic(tank, 0)>>,
   <<Automatic(cabin, 0), Ignore(engine, 1)>>,
   <<Ignore(engine, 0), Single(tank, 1, 1), Single(cabin, 1, 0)>>}

MCTransducer ==
  {[name |-> n, inst |-> NoNumber, known |-> TRUE] : n \in {engine, tank}}
  \cup {[name |-> n, inst |-> i, known |-> TRUE] : n \in {tank, cabin}, i \in Instance}

(* The clock does not start again, and no measurement is left to the single *)
(* mapping of another instance (xdr_single).                                *)
ASSUME MCValuesAssumption == BelowWrap /\ EveryInstanceMapped /\ NamesApart

VARIABLE part

valueVars == <<vars, alarmVars, historyVars, xdrVars, part>>

Setting(k, d, s, u) == [kind |-> k, delay |-> d, snooze |-> s, suspend |-> u]

First == <<Setting("limit", 2, 1, 1), Setting("time", 0, 1, 0)>>
Second == <<Setting("time", 1, 0, 1), Setting("limit", 0, 2, 1)>>
MCSetups == {First, Second}

ValuesInit ==
  /\ part \in {"boat data", "alarms", "history", "xdr"}
  /\ Init /\ AlarmInit /\ HistoryInit /\ XdrInit
  /\ part # "alarms" => setup = First
  /\ part # "xdr" => table = OneEach

BoatData ==
  /\ part = "boat data" /\ Next
  /\ UNCHANGED <<alarmVars, historyVars, xdrVars, part>>
Alarms ==
  /\ part = "alarms" /\ AlarmNext
  /\ UNCHANGED <<vars, historyVars, xdrVars, part>>
History ==
  /\ part = "history" /\ HistoryNext
  /\ UNCHANGED <<vars, alarmVars, xdrVars, part>>
Xdr ==
  /\ part = "xdr" /\ XdrNext
  /\ UNCHANGED <<vars, alarmVars, historyVars, part>>
Refreshed == part = "alarms" /\ Refresh

(* The fairness of AlarmFairSpec.                                           *)
ValuesSpec ==
  /\ ValuesInit
  /\ [][BoatData \/ Alarms \/ History \/ Xdr]_valueVars
  /\ WF_alarmVars(Refreshed)

ValuesTypeOK == TypeOK /\ AlarmTypeOK /\ HistoryTypeOK /\ XdrTypeOK
=============================================================================
