------------------------------ MODULE OBPAlarms ------------------------------
(***************************************************************************)
(* lib/obp60task OBPAlarms: alarms on boat data with a delay, hysteresis,  *)
(* snooze and suspend. The display task checks them with each refresh      *)
(* (obp60task.cpp) and then shows the alarm page as long as one is active; *)
(* its keys act on the first active alarm (PageAlarm.cpp).                 *)
(*                                                                         *)
(* Times are ages in refreshes. A boat value is the zone it is in at a     *)
(* refresh: beyond a limit, within the hysteresis of one, or in range. A   *)
(* time alarm is beyond its limit in the minute after the time it is set   *)
(* to. Alarms that are not set, the buzzer and the conversion of units are *)
(* left out.                                                               *)
(***************************************************************************)
EXTENDS Integers

CONSTANTS
  N,        (* the number of alarms                                         *)
  Setups    (* their possible settings: functions from 1..N to records with *)
            (* a kind, "limit" or "time", and a delay, snooze and suspend   *)

Alarm == 1..N

ASSUME OBPAlarmsAssumption ==
  /\ N \in Nat \ {0}
  /\ Setups \subseteq
       [Alarm -> [kind : {"limit", "time"}, delay : Nat, snooze : Nat, suspend : Nat]]

VARIABLES
  setup,       (* the settings, read when the task starts                   *)
  alarm,       (* the alarm list                                            *)
  zone,        (* the boat values at the last refresh                       *)
  callAlarmPage,
  history      (* see Observed                                              *)

alarmVars == <<setup, alarm, zone, callAlarmPage, history>>

None == -1
Zone(a) == IF setup[a].kind = "time" THEN {"in", "high", "invalid"}
           ELSE {"in", "nearHigh", "high", "nearLow", "low", "invalid"}
Beyond == {"high", "low"}

(* pendingSince, snzTime and suspTime are ages: None is 0 in the code, and  *)
(* one past its limit is kept there.                                        *)
Types(s) ==
  [state : {"INACTIVE", "ACTIVE", "SNOOZE"},
   pendingSince : None..s.delay, pendingHigh : BOOLEAN, pendingLow : BOOLEAN,
   hitHighLimit : BOOLEAN, hitLowLimit : BOOLEAN,
   snzTime : None..(s.snooze + 1), suspTime : None..(s.suspend + 1)]

AlarmTypeOK ==
  /\ setup \in Setups /\ callAlarmPage \in BOOLEAN
  /\ \A a \in Alarm :
       /\ alarm[a] \in Types(setup[a]) /\ zone[a] \in Zone(a)
       /\ alarm[a].pendingSince # None <=> alarm[a].pendingHigh \/ alarm[a].pendingLow
       /\ history[a] \in [held : None..setup[a].delay, quiet : {"no", "key", "cleared"},
                          lost : BOOLEAN]

AlarmInit ==
  /\ setup \in Setups
  /\ alarm = [a \in Alarm |->
       [state |-> "INACTIVE", pendingSince |-> None, pendingHigh |-> FALSE, pendingLow |-> FALSE,
        hitHighLimit |-> FALSE, hitLowLimit |-> FALSE, snzTime |-> None, suspTime |-> None]]
  /\ zone = [a \in Alarm |-> "invalid"]
  /\ callAlarmPage = FALSE
  /\ history = [a \in Alarm |-> [held |-> None, quiet |-> "no", lost |-> FALSE]]

-----------------------------------------------------------------------------
suspTimeOver(s, r) == r.suspTime = None \/ r.suspTime > s.suspend
snoozeTimeOver(s, r) == r.snzTime = None \/ r.snzTime > s.snooze

(* The window of a time alarm opens again when its snooze is over.          *)
checkHighHit(s, r, z, withHysteresis) ==
  IF s.kind = "time" /\ r.state = "SNOOZE" THEN snoozeTimeOver(s, r)
  ELSE z = "high" \/ (withHysteresis /\ z = "nearHigh")

checkLowHit(s, r, z, withHysteresis) == z = "low" \/ (withHysteresis /\ z = "nearLow")

Cleared(s, r, z) == ~checkHighHit(s, r, z, TRUE) /\ ~checkLowHit(s, r, z, TRUE)

clearPending_TimeOnly(r) == [r EXCEPT !.pendingSince = None]

clearPending(r) ==
  [r EXCEPT !.pendingSince = None, !.pendingHigh = FALSE, !.pendingLow = FALSE]
noHit(r) == [r EXCEPT !.hitHighLimit = FALSE, !.hitLowLimit = FALSE]

suspendAlarm(r) == [r EXCEPT !.state = "INACTIVE", !.suspTime = 0]
snoozeAlarm(r) == [r EXCEPT !.state = "SNOOZE", !.snzTime = 0]

(* The condition is pending for the delay before the alarm becomes active.  *)
StartPending(s, r, z) ==
  LET high == checkHighHit(s, r, z, FALSE)   low == checkLowHit(s, r, z, FALSE) IN
    IF high \/ low
    THEN [r EXCEPT !.pendingSince = 0, !.pendingHigh = high, !.pendingLow = low]
    ELSE IF r.state = "SNOOZE" THEN [r EXCEPT !.state = "INACTIVE"] ELSE r

Pending_NotCleared(s, r, z) ==
  IF r.pendingSince = None THEN StartPending(s, r, z) ELSE r

Pending(s, r, z) ==
  IF r.pendingSince = None THEN StartPending(s, r, z)
  ELSE IF Cleared(s, r, z) THEN clearPending(r) ELSE r

activateAlarm(r) ==
  clearPending([r EXCEPT !.state = "ACTIVE", !.hitHighLimit = r.pendingHigh,
                         !.hitLowLimit = r.pendingLow])

Monitor_After(s, r, z) ==
  LET p == Pending(s, r, z) IN
    IF p.pendingSince # None /\ p.pendingSince > s.delay THEN activateAlarm(p) ELSE p

Monitor(s, r, z) ==
  LET p == Pending(s, r, z) IN
    IF p.pendingSince # None /\ p.pendingSince >= s.delay THEN activateAlarm(p) ELSE p

(* A time alarm stays active until it is confirmed.                         *)
WhileActive(s, r, z) ==
  LET c == clearPending(r) IN
    IF s.kind # "time" /\ Cleared(s, r, z) THEN noHit(suspendAlarm(c)) ELSE c

Monitored_IgnoresSnooze(s, r) ==
  (r.state = "INACTIVE" /\ suspTimeOver(s, r)) \/ r.state = "SNOOZE"

Monitored_SnoozeForever(s, r) == r.state = "INACTIVE" /\ suspTimeOver(s, r)

Monitored(s, r) ==
  \/ r.state = "INACTIVE" /\ suspTimeOver(s, r)
  \/ r.state = "SNOOZE" /\ snoozeTimeOver(s, r)

(* The body of the loop in checkAlarms. Invalid data ends an alarm, and a   *)
(* snooze, at once.                                                         *)
checkAlarm(s, r, z) ==
  IF z = "invalid" THEN noHit([clearPending(r) EXCEPT !.state = "INACTIVE"])
  ELSE IF Monitored(s, r) THEN Monitor(s, r, z)
  ELSE IF r.state = "ACTIVE" THEN WhileActive(s, r, z)
  ELSE clearPending(r)

-----------------------------------------------------------------------------
(* Since the last refresh millis() has gone on.                             *)
Older(age, limit) == IF age = None \/ age = limit THEN age ELSE age + 1
Aged(s, r) ==
  [r EXCEPT !.pendingSince = Older(@, s.delay), !.snzTime = Older(@, s.snooze + 1),
            !.suspTime = Older(@, s.suspend + 1)]

(* History: held is the age of an unbroken run of refreshes with the value  *)
(* beyond a limit, or still within the hysteresis, since the state changed; *)
(* quiet is why the alarm has been suspended, as long as it is; lost tells  *)
(* that data were invalid after the last snooze.                            *)
Observed(s, h, r, n, z) ==
  LET over  == suspTimeOver(s, Aged(s, r))
      start == over /\ h.quiet # "no"
      held  == IF start THEN None ELSE h.held IN
    [held  |-> IF n.state # r.state \/ z \in {"in", "invalid"} THEN None
               ELSE IF held = None THEN (IF z \in Beyond THEN 0 ELSE None)
               ELSE Older(held, s.delay),
     quiet |-> IF n.suspTime = 0 THEN "cleared" ELSE IF over THEN "no" ELSE h.quiet,
     lost  |-> h.lost \/ z = "invalid"]

(* obp60task: the values are read, the alarms are checked and the page is   *)
(* chosen, all in one pass of the display task.                             *)
AnyActive(list) == \E a \in Alarm : list[a].state = "ACTIVE"

Zones == {z \in [Alarm -> UNION {Zone(a) : a \in Alarm}] : \A a \in Alarm : z[a] \in Zone(a)}

Refresh ==
  /\ zone' \in Zones
  /\ alarm' = [a \in Alarm |-> checkAlarm(setup[a], Aged(setup[a], alarm[a]), zone'[a])]
  /\ callAlarmPage' = AnyActive(alarm')
  /\ history' = [a \in Alarm |-> Observed(setup[a], history[a], alarm[a], alarm'[a], zone'[a])]
  /\ UNCHANGED setup

(* PageAlarm::handleKey                                                     *)
FirstActive(a) ==
  alarm[a].state = "ACTIVE" /\ \A b \in 1..(a - 1) : alarm[b].state # "ACTIVE"

Confirm(a) ==
  /\ callAlarmPage /\ FirstActive(a)
  /\ alarm' = [alarm EXCEPT ![a] = suspendAlarm(@)]
  /\ history' = [history EXCEPT ![a].held = None, ![a].quiet = "key"]
  /\ UNCHANGED <<setup, zone, callAlarmPage>>

Snooze(a) ==
  /\ callAlarmPage /\ FirstActive(a)
  /\ alarm' = [alarm EXCEPT ![a] = snoozeAlarm(@)]
  /\ history' = [history EXCEPT ![a].held = None, ![a].lost = FALSE]
  /\ UNCHANGED <<setup, zone, callAlarmPage>>

AlarmNext == Refresh \/ \E a \in Alarm : Confirm(a) \/ Snooze(a)

AlarmSpec == AlarmInit /\ [][AlarmNext]_alarmVars

(* The display task keeps refreshing. Nobody has to press a key.            *)
AlarmFairSpec == AlarmSpec /\ WF_alarmVars(Refresh)

-----------------------------------------------------------------------------
(* An alarm only starts when its value has been beyond a limit, or still in *)
(* the hysteresis, at every refresh of the whole delay.                     *)
NotEarly ==
  [][\A a \in Alarm :
       setup[a].kind = "limit" /\ alarm[a].state # "ACTIVE" /\ alarm'[a].state = "ACTIVE"
       => history[a].held + 1 >= setup[a].delay /\ zone'[a] \notin {"in", "invalid"}]_alarmVars

(* A value that has been beyond a limit for the delay is never passed over: *)
(* the alarm is active or snoozed, or there is a reason for its silence.    *)
Explained(a, reasons) ==
  alarm[a].state = "INACTIVE" /\ history[a].held >= setup[a].delay
  => history[a].quiet \in reasons

NotSilent == \A a \in Alarm : Explained(a, {"key", "cleared"})

(* The suspend time is one "after confirmation" (OBPAlarms.h): an alarm     *)
(* that nobody has confirmed is not silent. The code also suspends one      *)
(* whose value has come back into range by itself.                          *)
SilentOnlyIfConfirmed == \A a \in Alarm : Explained(a, {"key"})

(* An alarm that was confirmed or snoozed does not start again before the   *)
(* time is over, unless its data have been invalid while it was snoozed.    *)
KeysAreRespected ==
  \A a \in Alarm :
    alarm[a].state = "ACTIVE" =>
      /\ history[a].quiet = "no"
      /\ snoozeTimeOver(setup[a], alarm[a]) \/ history[a].lost

(* However often it is confirmed or snoozed: as long as the value stays     *)
(* beyond a limit, the alarm comes back.                                    *)
ComesBack ==
  \A a \in Alarm : <>[](zone[a] \in Beyond) => []<>(alarm[a].state = "ACTIVE")
=============================================================================
