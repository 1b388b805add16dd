----------------------------- MODULE GwBoatData -----------------------------
(***************************************************************************)
(* lib/boatData: the last value of every quantity, with the source it came *)
(* from and the time it was set, as the wind converters of lib/            *)
(* nmea0183ton2k and lib/nmea2kto0183 use it. All of it runs in the main   *)
(* loop. What makes it hard is the priority among sources that come and    *)
(* go, and the clock: millis() starts again at 0 every 2^32 milliseconds,  *)
(* and the sums of times do so too.                                        *)
(*                                                                         *)
(* Three items are modelled: the apparent wind angle and speed, which time *)
(* out, and the maximum of the speed, which is kept. The value of the      *)
(* angle does not matter.                                                  *)
(***************************************************************************)
EXTENDS Integers

CONSTANTS Source,       (* ids of the channels, a lower one goes first      *)
          Speed,        (* wind speeds                                      *)
          NA,           (* the value for "not available"                    *)
          Timeout,      (* the option timoDefault                           *)
          MinInterval,  (* the option min2KInterval                         *)
          Period,       (* millis() counts modulo this: 2^32                *)
          MaxTime       (* bound of the time                                *)

ASSUME GwBoatDataAssumption ==
  /\ Source \subseteq Nat /\ Speed \subseteq Nat /\ NA \notin Speed /\ Speed # {}
  /\ Timeout \in Nat \ {0} /\ MinInterval \in Nat \ {0}
  /\ Period \in Nat \ {0, 1} /\ MaxTime \in Nat \ {0}

VARIABLES
  now,       (* the time since boot                                         *)
  item,      (* GwBoatItem: data, lastUpdateSource, lastSet and, as a       *)
             (* history, the time it was really set                         *)
  lastSend   (* NMEA0183DataToN2KFunctions::lastSends of the wind, or -1    *)

vars == <<now, item, lastSend>>

Never == -1
Name == {"AWA", "AWS", "MaxAws"}
Item == [data : Speed, source : Source \cup {-1}, lastSet : 0..(Period - 1),
         setAt : {Never} \cup 1..MaxTime]

TypeOK ==
  /\ now \in 1..MaxTime
  /\ item \in [Name -> Item]
  /\ lastSend \in {-1} \cup 0..(Period - 1)

AnySpeed == CHOOSE w \in Speed : TRUE

(* Nothing is received in the first millisecond.                            *)
Init ==
  /\ now = 1
  /\ item = [n \in Name |-> [data |-> AnySpeed, source |-> -1, lastSet |-> 0,
                             setAt |-> Never]]
  /\ lastSend = -1

millis == now % Period

invalidTime(n) == IF n = "MaxAws" THEN 0 ELSE Timeout

-----------------------------------------------------------------------------
(* The methods of the item n, in a state i of all items.                    *)

isValid(i, n) ==
  /\ i[n].lastSet # 0
  /\ invalidTime(n) = 0 \/ (i[n].lastSet + invalidTime(n)) % Period >= millis

accepts_Any(i, n, s) == TRUE

accepts(i, n, s) == isValid(i, n) => i[n].source < 0 \/ s <= i[n].source

Set(i, n, v, s) ==
  [i EXCEPT ![n] = [data |-> v, source |-> s, lastSet |-> millis, setAt |-> now]]

update(i, n, v, s) == IF accepts(i, n, s) THEN Set(i, n, v, s) ELSE i

updateMax_Latest(i, n, v, s) == update(i, n, v, s)

updateMax(i, n, v, s) ==
  IF ~isValid(i, n) THEN update(i, n, v, s)
  ELSE IF i[n].data < v THEN Set(i, n, v, s) ELSE i

-----------------------------------------------------------------------------
(* NMEA0183DataToN2KFunctions::send: not more often than each MinInterval.  *)
due == lastSend = -1 \/ (lastSend + MinInterval) % Period <= millis

(* The speed is only looked at if the angle was accepted. The angle reaches *)
(* updateDouble in radians, so that a missing one is not recognised.        *)
bothAccepted(s, w) ==
  accepts(item, "AWA", s) /\ w # NA /\ accepts(item, "AWS", s)

(* A line MWV (or VWR) with the speed w from source s. The maximum is       *)
(* updated whether or not the speed is accepted.                            *)
convertMWV(s, w) ==
  LET angle == update(item, "AWA", AnySpeed, s)
      both  == IF bothAccepted(s, w) THEN Set(angle, "AWS", w, s) ELSE angle
  IN /\ item' = IF w = NA THEN both ELSE updateMax(both, "MaxAws", w, s)
     /\ lastSend' = IF bothAccepted(s, w) /\ due THEN millis ELSE lastSend
     /\ UNCHANGED now

setMax(i, s) == IF isValid(i, "AWS") THEN updateMax(i, "MaxAws", i["AWS"].data, s) ELSE i

(* The NMEA2000 message 130306, with or without the angle and the speed:    *)
(* each value is judged on its own.                                         *)
HandleWind(s, hasAngle, w) ==
  LET angle == IF hasAngle THEN update(item, "AWA", AnySpeed, s) ELSE item
      speed == IF w = NA THEN angle ELSE update(angle, "AWS", w, s)
  IN item' = setMax(speed, s) /\ UNCHANGED <<now, lastSend>>

Tick == now < MaxTime /\ now' = now + 1 /\ UNCHANGED <<item, lastSend>>

N2K_CHANNEL_ID == 0

(* Lines come from the channels; messages from the bus, and in Seasmart or  *)
(* Actisense form from channels too.                                        *)
Next ==
  \/ Tick
  \/ \E s \in Source, w \in Speed \cup {NA} :
       \/ s # N2K_CHANNEL_ID /\ convertMWV(s, w)
       \/ \E hasAngle \in BOOLEAN : HandleWind(s, hasAngle, w)

Spec == Init /\ [][Next]_vars

-----------------------------------------------------------------------------
Recent(n) == item[n].setAt # Never /\ now - item[n].setAt <= Timeout

(* A value that is shown as valid has been set within its timeout, and is   *)
(* not an old one (config.json: "data timeouts(ms) for $t data").           *)
ValidIsRecent == \A n \in {"AWA", "AWS"} : isValid(item, n) => Recent(n)

(* No sum of a time and a timeout reaches the end of the clock.             *)
BelowWrap == MaxTime + Timeout < Period

(* While the clock has not started again, a value is valid exactly as long  *)
(* as it has been set within its timeout, whichever of the sources and      *)
(* converters set it (GwBoatItemBase::isValid).                             *)
ValidIffRecent == ValidIsRecent /\ \A n \in {"AWA", "AWS"} : Recent(n) => isValid(item, n)

(* As long as a value is in time, whatever arrives over whatever protocol   *)
(* only replaces it if it comes from the same or a preferred source; and a  *)
(* speed in a line or message that no preferred source stands against is    *)
(* taken ("sources with lower ids will win and we will not overwrite their  *)
(* value", GwBoatItem::update).                                             *)
Priority ==
  [][/\ \A n \in {"AWA", "AWS"} :
          Recent(n) /\ item'[n] # item[n] => item'[n].source <= item[n].source
     /\ \A s \in Source, w \in Speed :
          /\ convertMWV(s, w) \/ HandleWind(s, TRUE, w)
          /\ \A n \in {"AWA", "AWS"} : Recent(n) => s <= item[n].source
          => item'["AWS"].source = s /\ item'["AWS"].data = w]_vars

(* The maximum is never below a speed that was stored, and never falls,     *)
(* although the two converters feed it in different ways (setMax,           *)
(* updateMax).                                                              *)
MaxIsPeak ==
  [][/\ item'["AWS"].setAt # Never => item'["AWS"].data <= item'["MaxAws"].data
     /\ item["MaxAws"].setAt # Never => item["MaxAws"].data <= item'["MaxAws"].data]_vars
=============================================================================
