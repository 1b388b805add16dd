------------------------------ MODULE GwCanBus ------------------------------
(***************************************************************************)
(* The CAN interface (lib/nmea2ktwai Nmea2kTwai) and the timer that drives *)
(* its recovery (lib/timer GwTimer). The TWAI driver is external: it goes  *)
(* off the bus by itself whenever it runs.                                 *)
(*                                                                         *)
(* The clock is a ring of Period ticks, as millis() is one of 2^32         *)
(* milliseconds; a pass of the main loop takes at most two ticks. The      *)
(* log action of the timer and the receiver are left out.                  *)
(***************************************************************************)
EXTENDS Integers

CONSTANTS
  Period,
  Interval,         (* CAN_RECOVERY_PERIOD in ticks                         *)
  TimeoutOffline,   (* TIMEOUT_OFFLINE                                      *)
  MaxFailures       (* bound of the driver calls that fail                  *)

ASSUME GwCanBusAssumption ==
  /\ Period \in Nat /\ Interval \in 1..(Period - 1)
  /\ TimeoutOffline \in Nat \ {0} /\ MaxFailures \in Nat

VARIABLES
  driver,       (* "none" (not installed), "stopped", "running", "busOff"   *)
  millis,
  lastRun,      (* Run::last of checkRecovery                               *)
  busy,         (* ticks since the main loop has looked at its timers       *)
  txTimeouts,
  failures,
  waited,       (* history: ticks since checkRecovery has run               *)
  missed        (* history: millis() started again while it was due         *)

canVars == <<driver, millis, lastRun, busy, txTimeouts, failures, waited, missed>>

CanTypeOK ==
  /\ driver \in {"none", "stopped", "running", "busOff"}
  /\ millis \in 0..(Period - 1) /\ lastRun \in 0..(Period - 1) /\ busy \in 0..2
  /\ txTimeouts \in 0..TimeoutOffline /\ failures \in 0..MaxFailures
  /\ waited \in Nat /\ missed \in BOOLEAN

(* Open() has installed the driver and tried to start it.                   *)
CanInit ==
  /\ driver \in {"stopped", "running"}
  /\ millis = 0 /\ lastRun = 0 /\ busy = 0 /\ txTimeouts = 0
  /\ failures = 0 /\ waited = 0 /\ missed = FALSE

-----------------------------------------------------------------------------
(* The driver's calls: twai_driver_uninstall, twai_driver_install and       *)
(* twai_start, one after the other. An installed driver cannot be installed *)
(* again, and only one that is stopped can be started.                      *)
Failing(n) == failures + n <= MaxFailures /\ failures' = failures + n

CANOpen ==
  \/ driver = "stopped" /\ driver' = "running" /\ Failing(0)
  \/ UNCHANGED driver /\ Failing(1)

startRecovery ==
  \/ driver' = "running" /\ Failing(0)
  \/ driver' = "busOff" /\ Failing(1)     (* uninstall failed               *)
  \/ driver' = "none" /\ Failing(1)       (* install failed                 *)
  \/ driver' = "stopped" /\ Failing(1)    (* start failed                   *)

getStatus ==
  CASE driver = "none" -> "ERROR"
    [] driver = "stopped" -> "STOPPED"
    [] driver = "busOff" -> "BUS_OFF"
    [] OTHER -> IF txTimeouts >= TimeoutOffline THEN "OFFLINE" ELSE "RUNNING"

checkRecovery_BusOffOnly ==
  IF getStatus = "BUS_OFF" THEN startRecovery ELSE UNCHANGED <<driver, failures>>

checkRecovery ==
  CASE getStatus = "BUS_OFF" -> startRecovery
    [] getStatus = "STOPPED" -> CANOpen
    [] OTHER -> UNCHANGED <<driver, failures>>

shouldRun_SumDoesNotWrap == ~(lastRun + Interval > millis)

(* GwIntervalRunner: the sum wraps like millis() itself.                    *)
shouldRun == ~((lastRun + Interval) % Period > millis)

TimerLoop ==
  /\ busy' = 0
  /\ IF shouldRun
     THEN lastRun' = millis /\ checkRecovery /\ waited' = 0 /\ missed' = FALSE
     ELSE UNCHANGED <<lastRun, driver, failures, waited, missed>>
  /\ UNCHANGED <<millis, txTimeouts>>

-----------------------------------------------------------------------------
(* CANSendFrame: only a full queue of a driver that runs is a timeout.      *)
SendFrame ==
  /\ driver = "running"
  /\ txTimeouts' = 0 \/ (txTimeouts < TimeoutOffline /\ txTimeouts' = txTimeouts + 1)
  /\ UNCHANGED <<driver, millis, lastRun, busy, failures, waited, missed>>

BusOff ==
  /\ driver = "running" /\ driver' = "busOff"
  /\ UNCHANGED <<millis, lastRun, busy, txTimeouts, failures, waited, missed>>

CanTick ==
  /\ busy < 2 /\ busy' = busy + 1 /\ millis' = (millis + 1) % Period
  /\ missed' = (missed \/ (millis' = 0 /\ lastRun + Interval < Period))
  /\ waited' = IF missed' THEN 0 ELSE waited + 1
  /\ UNCHANGED <<driver, lastRun, txTimeouts, failures>>

CanNext == TimerLoop \/ SendFrame \/ BusOff \/ CanTick

CanSpec == CanInit /\ [][CanNext]_canVars

(* The main loop runs and time goes on; the passes of the loop are not in   *)
(* step with the clock, so that one of them comes while the action is due,  *)
(* if it is due again and again.                                            *)
CanFairness ==
  WF_canVars(TimerLoop) /\ WF_canVars(CanTick) /\ SF_canVars(shouldRun /\ TimerLoop)

CanFairSpec == CanSpec /\ CanFairness

-----------------------------------------------------------------------------
(* An interface that is off the bus, or could not be started, runs again.   *)
(* How long this may take is the matter of CheckedInTime. The one failure   *)
(* that is never repaired is twai_driver_install after the driver has been  *)
(* removed: getStatus then answers ST_ERROR, and checkRecovery only looks   *)
(* for BUS_OFF and STOPPED.                                                 *)
BusRecovers == driver \in {"stopped", "busOff"} ~> driver \in {"running", "none"}

(* The interface is looked at again within its interval and the one tick by *)
(* which a pass of the loop may come late, also if millis() starts again in *)
(* between or the sum of the timer does (GwIntervalRunner::Run::shouldRun): *)
(* with one exception. If millis() starts again after the action has become *)
(* due and before the loop comes to it, nothing is due any more, and the    *)
(* action waits until the clock has come round, which is 49.7 days.         *)
CheckedInTime == ~missed => waited <= Interval + 1
=============================================================================
