--------------------------- MODULE MCValues_proofs ---------------------------
(***************************************************************************)
(* Proofs about the modules that MCValues runs side by side: GwBoatData,   *)
(* OBPAlarms, OBPHistory and GwXDRMappings. Each module is proved by       *)
(* itself, from its own specification; ValuesApart carries the results     *)
(* over to the specification that runs one of them.                        *)
(***************************************************************************)
EXTENDS MCValues, NumberFacts, FiniteSetTheorems

-----------------------------------------------------------------------------
(* GwBoatData *)

(* A number below the period is its own remainder.                          *)
LEMMA Remainder ==
  ASSUME NEW x \in Nat, x < Period
  PROVE  x % Period = x
  BY GwBoatDataAssumption

(* The stamp of an item that was set is the time of its last change.        *)
Stamped(i, n, t) ==
  \/ i[n].setAt = Never /\ i[n].lastSet = 0 /\ i[n].source = -1
  \/ /\ i[n].setAt \in 1..t /\ i[n].lastSet = i[n].setAt
     /\ i[n].source \in Source

Good(i, t) == i \in [Name -> Item] /\ \A n \in Name : Stamped(i, n, t)

Fresh(i, n) == i[n].setAt # Never /\ now - i[n].setAt <= Timeout

(* What was stored as a speed is covered by the maximum.                    *)
Peak(i) ==
  i["AWS"].setAt # Never => i["MaxAws"].setAt # Never /\ i["AWS"].data <= i["MaxAws"].data

BoatInv == TypeOK /\ Good(item, now) /\ Peak(item)

-----------------------------------------------------------------------------
(* isValid is about the age of the value.                                   *)
LEMMA ValidIsFresh ==
  ASSUME BelowWrap, now \in 1..MaxTime, NEW i, Good(i, now), NEW n \in {"AWA", "AWS"}
  PROVE  isValid(i, n) <=> Fresh(i, n)
<1>1. n \in Name BY DEF Name
<1>2. millis = now
  BY Remainder, GwBoatDataAssumption DEF millis, BelowWrap
<1>3. invalidTime(n) = Timeout BY DEF invalidTime
<1>4. CASE i[n].setAt = Never
  BY <1>1, <1>4 DEF Good, Stamped, isValid, Fresh, Never
<1>5. CASE i[n].setAt \in 1..now /\ i[n].lastSet = i[n].setAt
  <2>1. i[n].lastSet + Timeout \in Nat /\ i[n].lastSet + Timeout < Period
    BY <1>5, GwBoatDataAssumption DEF BelowWrap
  <2>2. (i[n].lastSet + Timeout) % Period = i[n].lastSet + Timeout
    BY <2>1, Remainder
  <2> QED BY <1>2, <1>3, <1>5, <2>2, GwBoatDataAssumption DEF isValid, Fresh, Never
<1> QED BY <1>1, <1>4, <1>5 DEF Good, Stamped

(* The maximum is valid from its first change on.                           *)
LEMMA MaxIsValid ==
  ASSUME NEW i, Good(i, now), now \in 1..MaxTime
  PROVE  isValid(i, "MaxAws") <=> i["MaxAws"].setAt # Never
  BY GwBoatDataAssumption DEF Good, Stamped, isValid, invalidTime, Never, Name

(* A source is accepted if no preferred one holds the item.                 *)
LEMMA AcceptsMeans ==
  ASSUME BelowWrap, now \in 1..MaxTime, NEW i, Good(i, now), NEW n \in {"AWA", "AWS"},
         NEW s \in Source
  PROVE  accepts(i, n, s) <=> (Fresh(i, n) => s <= i[n].source)
<1>1. isValid(i, n) <=> Fresh(i, n) BY ValidIsFresh
<1>2. Fresh(i, n) => i[n].source \in Source
  BY DEF Fresh, Good, Stamped, Name
<1>3. Source \subseteq Nat BY GwBoatDataAssumption
<1>4. CASE Fresh(i, n)
  <2>1. i[n].source \in Nat /\ s \in Nat BY <1>2, <1>3, <1>4
  <2> QED BY <1>1, <1>4, <2>1 DEF accepts
<1>5. CASE ~Fresh(i, n)
  BY <1>1, <1>5 DEF accepts
<1> QED BY <1>4, <1>5

LEMMA SetResult ==
  ASSUME BelowWrap, now \in 1..MaxTime, NEW i, Good(i, now), NEW n \in Name,
         NEW v \in Speed, NEW s \in Source
  PROVE  /\ Good(Set(i, n, v, s), now)
         /\ Set(i, n, v, s)[n].data = v
         /\ Set(i, n, v, s)[n].source = s
         /\ Set(i, n, v, s)[n].setAt = now
         /\ \A m \in Name \ {n} : Set(i, n, v, s)[m] = i[m]
<1>1. millis = now /\ now \in 0..(Period - 1)
  BY Remainder, GwBoatDataAssumption DEF millis, BelowWrap
<1>2. [data |-> v, source |-> s, lastSet |-> millis, setAt |-> now] \in Item
  BY <1>1 DEF Item
<1>3. i \in [Name -> Item] BY DEF Good
<1>4. Set(i, n, v, s) \in [Name -> Item]
  BY <1>2, <1>3 DEF Set
<1>5. Set(i, n, v, s)[n] = [data |-> v, source |-> s, lastSet |-> now, setAt |-> now]
  BY <1>1, <1>3 DEF Set
<1>6. \A m \in Name \ {n} : Set(i, n, v, s)[m] = i[m]
  BY <1>3 DEF Set
<1>7. \A m \in Name : Stamped(Set(i, n, v, s), m, now)
  <2>1. Stamped(Set(i, n, v, s), n, now) BY <1>5 DEF Stamped
  <2>2. ASSUME NEW m \in Name \ {n} PROVE Stamped(Set(i, n, v, s), m, now)
    BY <1>6 DEF Stamped, Good
  <2> QED BY <2>1, <2>2
<1> QED BY <1>4, <1>5, <1>6, <1>7 DEF Good

LEMMA UpdateResult ==
  ASSUME BelowWrap, now \in 1..MaxTime, NEW i, Good(i, now), NEW n \in Name,
         NEW v \in Speed, NEW s \in Source
  PROVE  /\ Good(update(i, n, v, s), now)
         /\ \A m \in Name \ {n} : update(i, n, v, s)[m] = i[m]
         /\ accepts(i, n, s) => /\ update(i, n, v, s)[n].data = v
                                /\ update(i, n, v, s)[n].source = s
                                /\ update(i, n, v, s)[n].setAt = now
         /\ ~accepts(i, n, s) => update(i, n, v, s) = i
<1>1. CASE accepts(i, n, s)
  BY <1>1, SetResult DEF update
<1>2. CASE ~accepts(i, n, s)
  BY <1>2 DEF update
<1> QED BY <1>1, <1>2

(* updateMax covers the new value and what was there before.                *)
LEMMA UpdateMaxResult ==
  ASSUME BelowWrap, now \in 1..MaxTime, NEW i, Good(i, now),
         NEW v \in Speed, NEW s \in Source
  PROVE  /\ Good(updateMax(i, "MaxAws", v, s), now)
         /\ \A m \in {"AWA", "AWS"} : updateMax(i, "MaxAws", v, s)[m] = i[m]
         /\ updateMax(i, "MaxAws", v, s)["MaxAws"].setAt # Never
         /\ v <= updateMax(i, "MaxAws", v, s)["MaxAws"].data
         /\ i["MaxAws"].setAt # Never =>
              i["MaxAws"].data <= updateMax(i, "MaxAws", v, s)["MaxAws"].data
<1>1. "MaxAws" \in Name /\ {"AWA", "AWS"} \subseteq Name \ {"MaxAws"} BY DEF Name
<1>2. Speed \subseteq Nat /\ now # Never BY GwBoatDataAssumption DEF Never
<1>3. i["MaxAws"].data \in Nat /\ v \in Nat BY <1>1, <1>2 DEF Good, Item
<1>4. CASE ~isValid(i, "MaxAws")
  <2>1. accepts(i, "MaxAws", s) BY <1>4 DEF accepts
  <2>2. updateMax(i, "MaxAws", v, s) = Set(i, "MaxAws", v, s)
    BY <1>4, <2>1 DEF updateMax, update
  <2>3. i["MaxAws"].setAt = Never BY <1>4, MaxIsValid
  <2> QED BY <1>1, <1>2, <2>2, <2>3, SetResult
<1>5. CASE isValid(i, "MaxAws") /\ i["MaxAws"].data < v
  <2>1. updateMax(i, "MaxAws", v, s) = Set(i, "MaxAws", v, s)
    BY <1>5 DEF updateMax
  <2>2. i["MaxAws"].data <= v BY <1>2, <1>3, <1>5
  <2> QED BY <1>1, <1>2, <2>1, <2>2, SetResult
<1>6. CASE isValid(i, "MaxAws") /\ ~(i["MaxAws"].data < v)
  <2>1. updateMax(i, "MaxAws", v, s) = i BY <1>6 DEF updateMax
  <2>2. i["MaxAws"].setAt # Never BY <1>6, MaxIsValid
  <2>3. v <= i["MaxAws"].data /\ i["MaxAws"].data <= i["MaxAws"].data
    BY <1>2, <1>3, <1>6
  <2> QED BY <2>1, <2>2, <2>3
<1> QED BY <1>4, <1>5, <1>6
-----------------------------------------------------------------------------
(* What a step may do: preferred sources keep their values, unopposed ones  *)
(* are taken, and the maximum follows.                                      *)
Keeps(old, new) ==
  \A n \in {"AWA", "AWS"} :
    Fresh(old, n) /\ new[n] # old[n] => new[n].source <= old[n].source

Unopposed(i, s) == \A n \in {"AWA", "AWS"} : Fresh(i, n) => s <= i[n].source

Takes(new, s, w) == new["AWS"].source = s /\ new["AWS"].data = w

Rises(old, new) ==
  old["MaxAws"].setAt # Never => /\ new["MaxAws"].setAt # Never
                                 /\ old["MaxAws"].data <= new["MaxAws"].data

LEMMA SpeedAvailable == AnySpeed \in Speed
  BY GwBoatDataAssumption DEF AnySpeed

(* The angle comes first, in both converters.                               *)
LEMMA AngleResult ==
  ASSUME BelowWrap, now \in 1..MaxTime, NEW i, Good(i, now), NEW s \in Source
  PROVE  /\ Good(update(i, "AWA", AnySpeed, s), now)
         /\ update(i, "AWA", AnySpeed, s)["AWS"] = i["AWS"]
         /\ update(i, "AWA", AnySpeed, s)["MaxAws"] = i["MaxAws"]
         /\ Keeps(i, update(i, "AWA", AnySpeed, s))
<1> DEFINE u == update(i, "AWA", AnySpeed, s)
<1>1. /\ Good(u, now) /\ u["AWS"] = i["AWS"] /\ u["MaxAws"] = i["MaxAws"]
      /\ accepts(i, "AWA", s) => u["AWA"].source = s
      /\ ~accepts(i, "AWA", s) => u = i
  BY UpdateResult, SpeedAvailable DEF Name
<1>2. ASSUME Fresh(i, "AWA"), u["AWA"] # i["AWA"] PROVE u["AWA"].source <= i["AWA"].source
  <2>1. accepts(i, "AWA", s) BY <1>1, <1>2
  <2>2. s <= i["AWA"].source BY <1>2, <2>1, AcceptsMeans
  <2> QED BY <1>1, <2>1, <2>2
<1> QED BY <1>1, <1>2 DEF Keeps

(* The line: both or only the angle, and the maximum of what it says.       *)
LEMMA LineStep ==
  ASSUME BelowWrap, BoatInv, NEW s \in Source, NEW w \in Speed \cup {NA}, convertMWV(s, w)
  PROVE  /\ Good(item', now) /\ Peak(item') /\ Keeps(item, item') /\ Rises(item, item')
         /\ w # NA /\ Unopposed(item, s) => Takes(item', s, w)
<1> DEFINE angle == update(item, "AWA", AnySpeed, s)
           both  == IF bothAccepted(s, w) THEN Set(angle, "AWS", w, s) ELSE angle
<1>1. now \in 1..MaxTime /\ Good(item, now) /\ Peak(item) BY DEF BoatInv, TypeOK
<1>2. /\ Good(angle, now) /\ angle["AWS"] = item["AWS"]
      /\ angle["MaxAws"] = item["MaxAws"] /\ Keeps(item, angle)
  BY <1>1, AngleResult
<1>3. item' = IF w = NA THEN both ELSE updateMax(both, "MaxAws", w, s)
  BY DEF convertMWV
<1>4. bothAccepted(s, w) => w \in Speed BY DEF bothAccepted
<1>5. ASSUME bothAccepted(s, w)
      PROVE  /\ Good(both, now) /\ both["AWS"].source = s /\ both["AWS"].data = w
             /\ both["AWA"] = angle["AWA"] /\ both["MaxAws"] = item["MaxAws"]
  <2> HIDE DEF angle
  <2>1. both = Set(angle, "AWS", w, s) BY <1>5
  <2> HIDE DEF both
  <2>2. "AWS" \in Name /\ "AWA" \in Name \ {"AWS"} /\ "MaxAws" \in Name \ {"AWS"}
    BY DEF Name
  <2> QED BY <1>1, <1>2, <1>4, <1>5, <2>1, <2>2, SetResult
<1>6. ASSUME ~bothAccepted(s, w) PROVE both = angle
  BY <1>6
<1> HIDE DEF both, angle
<1>7. Good(both, now) /\ both["MaxAws"] = item["MaxAws"] /\ both["AWA"] = angle["AWA"]
  BY <1>2, <1>5, <1>6
<1>8. Keeps(item, both)
  <2>1. CASE bothAccepted(s, w)
    <3>1. Fresh(item, "AWS") => s <= item["AWS"].source
      BY <1>1, <2>1, AcceptsMeans DEF bothAccepted
    <3>2. Fresh(item, "AWA") /\ both["AWA"] # item["AWA"] =>
            both["AWA"].source <= item["AWA"].source
      BY <1>2, <1>7 DEF Keeps
    <3> QED BY <1>5, <2>1, <3>1, <3>2 DEF Keeps
  <2>2. CASE ~bothAccepted(s, w) BY <1>2, <1>6, <2>2
  <2> QED BY <2>1, <2>2
<1>9. w # NA /\ Unopposed(item, s) => bothAccepted(s, w)
  BY <1>1, AcceptsMeans DEF Unopposed, bothAccepted
<1>10. CASE w = NA
  <2>1. ~bothAccepted(s, w) BY <1>10 DEF bothAccepted
  <2>2. item' = angle BY <1>3, <1>6, <1>10, <2>1
  <2>3. item["MaxAws"].data \in Nat
    BY <1>1, GwBoatDataAssumption DEF Good, Item, Name
  <2>4. Peak(item') BY <1>1, <1>2, <2>2 DEF Peak
  <2>5. Rises(item, item') BY <1>2, <2>2, <2>3 DEF Rises
  <2> QED BY <1>2, <1>10, <2>2, <2>4, <2>5
<1>11. CASE w # NA
  <2>1. w \in Speed /\ item' = updateMax(both, "MaxAws", w, s) BY <1>3, <1>11
  <2>2. /\ Good(item', now) /\ item'["AWA"] = both["AWA"] /\ item'["AWS"] = both["AWS"]
        /\ item'["MaxAws"].setAt # Never /\ w <= item'["MaxAws"].data
        /\ both["MaxAws"].setAt # Never => both["MaxAws"].data <= item'["MaxAws"].data
    BY <1>1, <1>7, <2>1, UpdateMaxResult
  <2>3. Rises(item, item') BY <1>7, <2>2 DEF Rises
  <2>4. Keeps(item, item') BY <1>8, <2>2 DEF Keeps
  <2>5. Peak(item')
    <3>1. CASE bothAccepted(s, w) BY <1>5, <2>2, <3>1 DEF Peak
    <3>2. CASE ~bothAccepted(s, w)
      <4>1. item'["AWS"] = item["AWS"] BY <1>2, <1>6, <2>2, <3>2
      <4>2. /\ item["AWS"].data \in Nat /\ item["MaxAws"].data \in Nat
            /\ item'["MaxAws"].data \in Nat
        BY <1>1, <2>2, GwBoatDataAssumption DEF Good, Item, Name
      <4>3. item["MaxAws"].setAt # Never => item["MaxAws"].data <= item'["MaxAws"].data
        BY <1>7, <2>2
      <4> QED BY <1>1, <2>2, <4>1, <4>2, <4>3 DEF Peak
    <3> QED BY <3>1, <3>2
  <2>6. Unopposed(item, s) => Takes(item', s, w)
    BY <1>5, <1>9, <1>11, <2>2 DEF Takes
  <2> QED BY <2>2, <2>3, <2>4, <2>5, <2>6
<1> QED BY <1>10, <1>11

(* The message: each value on its own, and the maximum of what is stored.   *)
LEMMA MessageStep ==
  ASSUME BelowWrap, BoatInv, NEW s \in Source, NEW hasAngle \in BOOLEAN,
         NEW w \in Speed \cup {NA}, HandleWind(s, hasAngle, w)
  PROVE  /\ Good(item', now) /\ Peak(item') /\ Keeps(item, item') /\ Rises(item, item')
         /\ w # NA /\ Unopposed(item, s) => Takes(item', s, w)
<1> DEFINE angle == IF hasAngle THEN update(item, "AWA", AnySpeed, s) ELSE item
           speed == IF w = NA THEN angle ELSE update(angle, "AWS", w, s)
<1>1. now \in 1..MaxTime /\ Good(item, now) /\ Peak(item) BY DEF BoatInv, TypeOK
<1>2. /\ Good(angle, now) /\ angle["AWS"] = item["AWS"]
      /\ angle["MaxAws"] = item["MaxAws"] /\ Keeps(item, angle)
  <2>1. CASE hasAngle BY <1>1, <2>1, AngleResult
  <2>2. CASE ~hasAngle BY <1>1, <2>2 DEF Keeps
  <2> QED BY <2>1, <2>2
<1>3. item' = setMax(speed, s) BY DEF HandleWind
<1>4. Fresh(angle, "AWS") <=> Fresh(item, "AWS") BY <1>2 DEF Fresh
<1> HIDE DEF angle
<1>5. ASSUME w # NA, accepts(angle, "AWS", s)
      PROVE  /\ Good(speed, now) /\ speed["AWS"].source = s /\ speed["AWS"].data = w
             /\ speed["AWS"].setAt = now /\ speed["AWA"] = angle["AWA"]
             /\ speed["MaxAws"] = item["MaxAws"]
  <2>1. speed = update(angle, "AWS", w, s) /\ w \in Speed BY <1>5
  <2> HIDE DEF speed
  <2>2. "AWS" \in Name /\ "AWA" \in Name \ {"AWS"} /\ "MaxAws" \in Name \ {"AWS"}
    BY DEF Name
  <2> QED BY <1>1, <1>2, <1>5, <2>1, <2>2, UpdateResult
<1>6. ASSUME w = NA \/ ~accepts(angle, "AWS", s) PROVE speed = angle
  BY <1>6 DEF update
<1> HIDE DEF speed
<1>7. Good(speed, now) /\ speed["MaxAws"] = item["MaxAws"] /\ speed["AWA"] = angle["AWA"]
  BY <1>2, <1>5, <1>6
<1>8. Keeps(item, speed)
  <2>1. CASE w # NA /\ accepts(angle, "AWS", s)
    <3>1. Fresh(angle, "AWS") => s <= angle["AWS"].source
      BY <1>1, <1>2, <2>1, AcceptsMeans
    <3>2. Fresh(item, "AWA") /\ speed["AWA"] # item["AWA"] =>
            speed["AWA"].source <= item["AWA"].source
      BY <1>2, <1>7 DEF Keeps
    <3> QED BY <1>2, <1>4, <1>5, <2>1, <3>1, <3>2 DEF Keeps
  <2>2. CASE ~(w # NA /\ accepts(angle, "AWS", s)) BY <1>2, <1>6, <2>2
  <2> QED BY <2>1, <2>2
<1>9. w # NA /\ Unopposed(item, s) => speed["AWS"].source = s /\ speed["AWS"].data = w
  <2>1. w # NA /\ Unopposed(item, s) => accepts(angle, "AWS", s)
    BY <1>1, <1>2, <1>4, AcceptsMeans DEF Unopposed
  <2> QED BY <1>5, <2>1
<1>10. CASE isValid(speed, "AWS")
  <2>1. item' = updateMax(speed, "MaxAws", speed["AWS"].data, s)
    BY <1>3, <1>10 DEF setMax
  <2>2. speed["AWS"].data \in Speed BY <1>7 DEF Good, Item, Name
  <2>3. /\ Good(item', now) /\ item'["AWA"] = speed["AWA"] /\ item'["AWS"] = speed["AWS"]
        /\ item'["MaxAws"].setAt # Never /\ speed["AWS"].data <= item'["MaxAws"].data
        /\ speed["MaxAws"].setAt # Never => speed["MaxAws"].data <= item'["MaxAws"].data
    BY <1>1, <1>7, <2>1, <2>2, UpdateMaxResult
  <2>4. Rises(item, item') BY <1>7, <2>3 DEF Rises
  <2>5. Keeps(item, item') BY <1>8, <2>3 DEF Keeps
  <2>6. Peak(item') BY <2>3 DEF Peak
  <2> QED BY <1>9, <2>3, <2>4, <2>5, <2>6 DEF Takes
<1>11. CASE ~isValid(speed, "AWS")
  <2>1. item' = speed BY <1>3, <1>11 DEF setMax
  <2>2. ~Fresh(speed, "AWS") BY <1>1, <1>7, <1>11, ValidIsFresh
  <2>3. ~(w # NA /\ accepts(angle, "AWS", s))
    BY <1>1, <1>5, <2>2, GwBoatDataAssumption DEF Fresh, Never
  <2>4. speed = angle BY <1>6, <2>3
  <2>5. item["MaxAws"].data \in Nat
    BY <1>1, GwBoatDataAssumption DEF Good, Item, Name
  <2>6. Rises(item, item') BY <1>7, <2>1, <2>5 DEF Rises
  <2>7. Peak(item') BY <1>1, <1>2, <2>1, <2>4 DEF Peak
  <2>8. ~(w # NA /\ Unopposed(item, s))
    BY <1>1, <1>2, <1>4, <2>3, AcceptsMeans DEF Unopposed
  <2> QED BY <1>7, <1>8, <2>1, <2>6, <2>7, <2>8
<1> QED BY <1>10, <1>11

-----------------------------------------------------------------------------
LEMMA InitBoatInv == Init => BoatInv
<1> SUFFICES ASSUME Init PROVE BoatInv
  OBVIOUS
<1>1. now = 1 /\ lastSend = -1 BY DEF Init
<1>2. ASSUME NEW n \in Name
      PROVE  item[n] = [data |-> AnySpeed, source |-> -1, lastSet |-> 0, setAt |-> Never]
  BY DEF Init
<1>3. [data |-> AnySpeed, source |-> -1, lastSet |-> 0, setAt |-> Never] \in Item
  BY SpeedAvailable, GwBoatDataAssumption DEF Item
<1>4. item \in [Name -> Item] BY <1>3 DEF Init
<1>5. Good(item, now) BY <1>2, <1>4 DEF Good, Stamped
<1>6. Peak(item) BY <1>2 DEF Peak, Name
<1> QED BY <1>1, <1>4, <1>5, <1>6, GwBoatDataAssumption DEF BoatInv, TypeOK

(* Time stamps stay behind the time.                                        *)
LEMMA Later ==
  ASSUME NEW i, NEW t \in Nat, Good(i, t)
  PROVE  Good(i, t + 1)
  BY DEF Good, Stamped

LEMMA NextBoatInv ==
  ASSUME BelowWrap, BoatInv, [Next]_vars
  PROVE  /\ BoatInv' /\ Keeps(item, item') /\ Rises(item, item')
<1>1. now \in 1..MaxTime /\ Good(item, now) /\ Peak(item) /\ item \in [Name -> Item]
      /\ lastSend \in {-1} \cup 0..(Period - 1) /\ item["MaxAws"].data \in Nat
  BY GwBoatDataAssumption DEF BoatInv, TypeOK, Good, Item, Name
<1>2. Keeps(item, item) /\ Rises(item, item)
  BY <1>1 DEF Keeps, Rises
<1>3. CASE Tick
  <2>1. item' = item /\ now' = now + 1 /\ now' \in 1..MaxTime /\ lastSend' = lastSend
    BY <1>1, <1>3, GwBoatDataAssumption DEF Tick
  <2>2. Good(item, now + 1) BY <1>1, Later
  <2> QED BY <1>1, <1>2, <2>1, <2>2 DEF BoatInv, TypeOK
<1>4. ASSUME NEW s \in Source, NEW w \in Speed \cup {NA}, convertMWV(s, w)
      PROVE  BoatInv' /\ Keeps(item, item') /\ Rises(item, item')
  <2>1. Good(item', now) /\ Peak(item') /\ Keeps(item, item') /\ Rises(item, item')
    BY <1>4, LineStep
  <2>2. millis \in 0..(Period - 1) BY <1>1, GwBoatDataAssumption DEF millis
  <2>3. now' = now /\ lastSend' \in {-1} \cup 0..(Period - 1)
    BY <1>1, <1>4, <2>2 DEF convertMWV
  <2> QED BY <1>1, <2>1, <2>3 DEF BoatInv, TypeOK, Good
<1>5. ASSUME NEW s \in Source, NEW hasAngle \in BOOLEAN, NEW w \in Speed \cup {NA},
             HandleWind(s, hasAngle, w)
      PROVE  BoatInv' /\ Keeps(item, item') /\ Rises(item, item')
  <2>1. Good(item', now) /\ Peak(item') /\ Keeps(item, item') /\ Rises(item, item')
    BY <1>5, MessageStep
  <2>2. now' = now /\ lastSend' = lastSend BY <1>5 DEF HandleWind
  <2> QED BY <1>1, <2>1, <2>2 DEF BoatInv, TypeOK, Good
<1>6. CASE UNCHANGED vars
  BY <1>1, <1>2, <1>6 DEF vars, BoatInv, TypeOK
<1> QED BY <1>3, <1>4, <1>5, <1>6 DEF Next

LEMMA BoatInvAlways == BelowWrap => (Spec => []BoatInv)
<1> SUFFICES ASSUME BelowWrap PROVE Spec => []BoatInv
  OBVIOUS
<1>1. BoatInv /\ [Next]_vars => BoatInv' BY NextBoatInv
<1> QED BY <1>1, InitBoatInv, PTL DEF Spec

-----------------------------------------------------------------------------
(* The items, their sources and time stamps keep their types                *)
(* (GwBoatItem::update, updateMax).                                         *)
THEOREM BoatDataTyped == BelowWrap => (Spec => []TypeOK)
<1>1. BoatInv => TypeOK BY DEF BoatInv
<1> QED BY <1>1, BoatInvAlways, PTL

(* For any sources, speeds, timeout and minimal interval, as long as the    *)
(* clock has not started again: a value is valid exactly while it is within *)
(* its timeout (GwBoatItemBase::isValid).                                   *)
THEOREM ValidInTime == BelowWrap => (Spec => []ValidIffRecent)
<1> SUFFICES ASSUME BelowWrap PROVE Spec => []ValidIffRecent
  OBVIOUS
<1>1. BoatInv => ValidIffRecent
  <2> SUFFICES ASSUME BoatInv PROVE ValidIffRecent
    OBVIOUS
  <2>1. now \in 1..MaxTime /\ Good(item, now) BY DEF BoatInv, TypeOK
  <2>2. ASSUME NEW n \in {"AWA", "AWS"} PROVE isValid(item, n) <=> Recent(n)
    BY <2>1, ValidIsFresh DEF Recent, Fresh
  <2> QED BY <2>2 DEF ValidIffRecent, ValidIsRecent
<1> QED BY <1>1, BoatInvAlways, PTL

(* Preferred sources keep their values and unopposed ones are taken, on     *)
(* both protocols (GwBoatItem::update, convertMWV, HandleWind).             *)
THEOREM PriorityKept == BelowWrap => (Spec => Priority)
<1> SUFFICES ASSUME BelowWrap PROVE Spec => Priority
  OBVIOUS
<1> DEFINE Stronger ==
      \A n \in {"AWA", "AWS"} :
         Recent(n) /\ item'[n] # item[n] => item'[n].source <= item[n].source
    Taken ==
      \A s \in Source, w \in Speed :
          /\ convertMWV(s, w) \/ HandleWind(s, TRUE, w)
          /\ \A n \in {"AWA", "AWS"} : Recent(n) => s <= item[n].source
          => item'["AWS"].source = s /\ item'["AWS"].data = w
<1>1. ASSUME BoatInv, [Next]_vars PROVE Stronger /\ Taken
  <2>1. Stronger BY <1>1, NextBoatInv DEF Keeps, Recent, Fresh
  <2>2. ASSUME NEW s \in Source, NEW w \in Speed,
               convertMWV(s, w) \/ HandleWind(s, TRUE, w),
               \A n \in {"AWA", "AWS"} : Recent(n) => s <= item[n].source
        PROVE  item'["AWS"].source = s /\ item'["AWS"].data = w
    <3>1. Unopposed(item, s) BY <2>2 DEF Unopposed, Recent, Fresh
    <3>2. w # NA BY GwBoatDataAssumption
    <3> QED BY <1>1, <2>2, <3>1, <3>2, LineStep, MessageStep DEF Takes
  <2> QED BY <2>1, <2>2
<1> QED BY <1>1, BoatInvAlways, PTL DEF Spec, Priority

(* The maximum covers every stored speed and never falls (setMax,           *)
(* updateMax).                                                              *)
THEOREM MaximumCovers == BelowWrap => (Spec => MaxIsPeak)
<1> SUFFICES ASSUME BelowWrap PROVE Spec => MaxIsPeak
  OBVIOUS
<1>1. ASSUME BoatInv, [Next]_vars
      PROVE  /\ item'["AWS"].setAt # Never => item'["AWS"].data <= item'["MaxAws"].data
             /\ item["MaxAws"].setAt # Never => item["MaxAws"].data <= item'["MaxAws"].data
  BY <1>1, NextBoatInv DEF BoatInv, Peak, Rises
<1> QED BY <1>1, BoatInvAlways, PTL DEF Spec, MaxIsPeak

-----------------------------------------------------------------------------
(* OBPAlarms *)

AlarmSetting == [kind : {"limit", "time"}, delay : Nat, snooze : Nat, suspend : Nat]
ZoneOf(s) == IF s.kind = "time" THEN {"in", "high", "invalid"}
             ELSE {"in", "nearHigh", "high", "nearLow", "low", "invalid"}
Histories(s) == [held : None..s.delay, quiet : {"no", "key", "cleared"}, lost : BOOLEAN]

(* The times of a pending condition and its flags go together.              *)
PendingIsMarked(r) == r.pendingSince # None <=> r.pendingHigh \/ r.pendingLow

(* What the times, the state and the history of one alarm have to do with   *)
(* each other. A condition that is pending has been there for as long, and  *)
(* of an alarm that may start a longer one is not known.                    *)
Consistent(s, r, h) ==
  /\ h.quiet = "no" <=> suspTimeOver(s, r)
  /\ r.state # "INACTIVE" => suspTimeOver(s, r)
  /\ r.state = "ACTIVE" => r.pendingSince = None
  /\ r.pendingSince # None => suspTimeOver(s, r)
  /\ r.pendingSince # None /\ s.kind = "limit" => h.held >= r.pendingSince
  /\ r.state # "SNOOZE" => snoozeTimeOver(s, r) \/ h.lost
  /\ r.state = "INACTIVE" /\ h.quiet = "no" /\ h.held # None
     => r.pendingSince # None /\ h.held <= r.pendingSince /\ r.pendingSince < s.delay

OneAlarm(s, r, h) ==
  r \in Types(s) /\ h \in Histories(s) /\ PendingIsMarked(r) /\ Consistent(s, r, h)

LEMMA AgedFacts ==
  ASSUME NEW s \in AlarmSetting, NEW r \in Types(s)
  PROVE  /\ Aged(s, r) \in Types(s)
         /\ Aged(s, r).state = r.state
         /\ Aged(s, r).pendingHigh = r.pendingHigh /\ Aged(s, r).pendingLow = r.pendingLow
         /\ r.pendingSince = None => Aged(s, r).pendingSince = None
         /\ r.pendingSince # None => /\ Aged(s, r).pendingSince \in r.pendingSince..s.delay
                                     /\ Aged(s, r).pendingSince <= r.pendingSince + 1
                                     /\ r.pendingSince < s.delay
                                        => Aged(s, r).pendingSince = r.pendingSince + 1
         /\ Aged(s, r).suspTime # 0 /\ Aged(s, r).snzTime # 0
         /\ suspTimeOver(s, r) => suspTimeOver(s, Aged(s, r))
         /\ snoozeTimeOver(s, r) => snoozeTimeOver(s, Aged(s, r))
<1> DEFINE q == Aged(s, r)
<1>1. /\ s.delay \in Nat /\ s.snooze \in Nat /\ s.suspend \in Nat
      /\ r.pendingSince \in -1..s.delay /\ r.snzTime \in -1..(s.snooze + 1)
      /\ r.suspTime \in -1..(s.suspend + 1)
  BY DEF AlarmSetting, Types, None
<1>2. /\ q.state = r.state /\ q.pendingHigh = r.pendingHigh /\ q.pendingLow = r.pendingLow
      /\ q.pendingSince = Older(r.pendingSince, s.delay)
      /\ q.snzTime = Older(r.snzTime, s.snooze + 1)
      /\ q.suspTime = Older(r.suspTime, s.suspend + 1)
  BY DEF Aged, Types
<1>3. q \in Types(s)
  <2>1. /\ Older(r.pendingSince, s.delay) \in None..s.delay
        /\ Older(r.snzTime, s.snooze + 1) \in None..(s.snooze + 1)
        /\ Older(r.suspTime, s.suspend + 1) \in None..(s.suspend + 1)
    BY <1>1 DEF Older, None
  <2> QED BY <2>1 DEF Aged, Types
<1> QED BY <1>1, <1>2, <1>3 DEF Older, None, suspTimeOver, snoozeTimeOver

LEMMA ClearedFacts ==
  ASSUME NEW s \in AlarmSetting, NEW q \in Types(s)
  PROVE  /\ clearPending(q) \in Types(s)
         /\ clearPending(q).pendingSince = None
         /\ ~clearPending(q).pendingHigh /\ ~clearPending(q).pendingLow
         /\ clearPending(q).state = q.state
         /\ clearPending(q).snzTime = q.snzTime /\ clearPending(q).suspTime = q.suspTime
<1>1. None \in None..s.delay
  BY DEF AlarmSetting, None
<1>2. clearPending(q) \in Types(s)
  BY <1>1, Zenon DEF clearPending, Types
<1>3. ~clearPending(q).pendingHigh /\ ~clearPending(q).pendingLow
  BY Zenon DEF clearPending, Types
<1> QED BY <1>2, <1>3 DEF clearPending, Types

(* A condition starts to be pending, goes on, ends, or there is none.       *)
LEMMA PendingFacts ==
  ASSUME NEW s \in AlarmSetting, NEW q \in Types(s), PendingIsMarked(q), Monitored(s, q),
         NEW z \in ZoneOf(s) \ {"invalid"}, NEW p, p = Pending(s, q, z)
  PROVE  /\ p \in Types(s) /\ PendingIsMarked(p)
         /\ p.snzTime = q.snzTime /\ p.suspTime = q.suspTime
         /\ \/ /\ q.pendingSince = None /\ p.pendingSince = 0 /\ p.state = q.state
               /\ s.kind = "limit" \/ q.state = "INACTIVE" => z \in Beyond
            \/ /\ q.pendingSince = None /\ p.pendingSince = None /\ p.state = "INACTIVE"
               /\ z \notin Beyond
            \/ /\ q.pendingSince # None /\ p.pendingSince = q.pendingSince /\ p.state = q.state
               /\ s.kind = "limit" \/ q.state = "INACTIVE" => z # "in"
            \/ /\ q.pendingSince # None /\ p.pendingSince = None /\ p.state = q.state
               /\ z = "in"
<1> DEFINE high == checkHighHit(s, q, z, FALSE)
           low == checkLowHit(s, q, z, FALSE)
<1>1. /\ q.state \in {"INACTIVE", "SNOOZE"} /\ s.delay \in Nat /\ high \in BOOLEAN /\ low \in BOOLEAN
      /\ q.state = "SNOOZE" => snoozeTimeOver(s, q)
  BY DEF Monitored, AlarmSetting, checkHighHit, checkLowHit, snoozeTimeOver
<1>2. z \in Beyond => high \/ low
  BY <1>1 DEF checkHighHit, checkLowHit, Beyond
<1>3. high \/ low => (s.kind = "limit" \/ q.state = "INACTIVE" => z \in Beyond)
  BY <1>1 DEF checkHighHit, checkLowHit, Beyond, AlarmSetting
<1>4. CASE q.pendingSince = None /\ (high \/ low)
  <2>1. p = [q EXCEPT !.pendingSince = 0, !.pendingHigh = high, !.pendingLow = low]
    BY <1>4 DEF Pending, StartPending
  <2>2. /\ p.pendingSince = 0 /\ p.pendingHigh = high /\ p.pendingLow = low
        /\ p.state = q.state /\ p.snzTime = q.snzTime /\ p.suspTime = q.suspTime
    BY <2>1 DEF Types
  <2>3. p \in Types(s)
    <3>1. 0 \in None..s.delay
      BY <1>1 DEF None
    <3> HIDE DEF high, low
    <3> QED BY <1>1, <2>1, <3>1, Zenon DEF Types
  <2>4. PendingIsMarked(p)
    <3>1. p.pendingSince # None
      BY <2>2 DEF None
    <3> HIDE DEF high, low
    <3> QED BY <1>4, <2>2, <3>1, Zenon DEF PendingIsMarked
  <2> HIDE DEF high, low
  <2> QED BY <1>3, <1>4, <2>2, <2>3, <2>4
<1>5. CASE q.pendingSince = None /\ ~ (high \/ low)
  <2>1. p = IF q.state = "SNOOZE" THEN [q EXCEPT !.state = "INACTIVE"] ELSE q
    BY <1>5 DEF Pending, StartPending
  <2>2. /\ p.pendingSince = q.pendingSince /\ p.pendingHigh = q.pendingHigh
        /\ p.pendingLow = q.pendingLow /\ p.state = "INACTIVE"
        /\ p.snzTime = q.snzTime /\ p.suspTime = q.suspTime /\ p \in Types(s)
    BY <1>1, <2>1 DEF Types
  <2> QED BY <1>2, <1>5, <2>2 DEF PendingIsMarked
<1>6. CASE q.pendingSince # None /\ Cleared(s, q, z)
  <2>1. p = clearPending(q)
    BY <1>6 DEF Pending
  <2>2. /\ p.pendingSince = None /\ ~p.pendingHigh /\ ~p.pendingLow /\ p.state = q.state
        /\ p.snzTime = q.snzTime /\ p.suspTime = q.suspTime /\ p \in Types(s)
    BY <2>1, ClearedFacts
  <2>3. z = "in"
    BY <1>1, <1>6 DEF Cleared, checkHighHit, checkLowHit, ZoneOf
  <2> QED BY <1>6, <2>2, <2>3 DEF PendingIsMarked
<1>7. CASE q.pendingSince # None /\ ~Cleared(s, q, z)
  <2>1. p = q
    BY <1>7 DEF Pending
  <2>2. s.kind = "limit" \/ q.state = "INACTIVE" => z # "in"
    BY <1>1, <1>7 DEF Cleared, checkHighHit, checkLowHit, AlarmSetting
  <2> QED BY <1>7, <2>1, <2>2
<1> QED BY <1>4, <1>5, <1>6, <1>7

LEMMA NoHitFacts ==
  ASSUME NEW s \in AlarmSetting, NEW q \in Types(s)
  PROVE  /\ noHit(q) \in Types(s) /\ noHit(q).state = q.state
         /\ noHit(q).pendingSince = q.pendingSince
         /\ noHit(q).pendingHigh = q.pendingHigh /\ noHit(q).pendingLow = q.pendingLow
         /\ noHit(q).snzTime = q.snzTime /\ noHit(q).suspTime = q.suspTime
<1>1. noHit(q) \in Types(s)
  BY Zenon DEF noHit, Types
<1> QED BY <1>1, Zenon DEF noHit, Types

LEMMA StateFacts ==
  ASSUME NEW s \in AlarmSetting, NEW q \in Types(s), NEW to \in {"INACTIVE", "ACTIVE", "SNOOZE"}
  PROVE  /\ [q EXCEPT !.state = to] \in Types(s) /\ [q EXCEPT !.state = to].state = to
         /\ [q EXCEPT !.state = to].pendingSince = q.pendingSince
         /\ [q EXCEPT !.state = to].pendingHigh = q.pendingHigh
         /\ [q EXCEPT !.state = to].pendingLow = q.pendingLow
         /\ [q EXCEPT !.state = to].snzTime = q.snzTime
         /\ [q EXCEPT !.state = to].suspTime = q.suspTime
<1>1. [q EXCEPT !.state = to] \in Types(s)
  BY Zenon DEF Types
<1> QED BY <1>1, Zenon DEF Types

LEMMA SuspendFacts ==
  ASSUME NEW s \in AlarmSetting, NEW q \in Types(s)
  PROVE  /\ suspendAlarm(q) \in Types(s) /\ suspendAlarm(q).state = "INACTIVE"
         /\ suspendAlarm(q).pendingSince = q.pendingSince
         /\ suspendAlarm(q).pendingHigh = q.pendingHigh
         /\ suspendAlarm(q).pendingLow = q.pendingLow
         /\ suspendAlarm(q).snzTime = q.snzTime /\ suspendAlarm(q).suspTime = 0
<1>1. 0 \in None..(s.suspend + 1)
  BY DEF AlarmSetting, None
<1>2. suspendAlarm(q) \in Types(s)
  BY <1>1, Zenon DEF suspendAlarm, Types
<1> QED BY <1>2, Zenon DEF suspendAlarm, Types

LEMMA SnoozeFacts ==
  ASSUME NEW s \in AlarmSetting, NEW q \in Types(s)
  PROVE  /\ snoozeAlarm(q) \in Types(s) /\ snoozeAlarm(q).state = "SNOOZE"
         /\ snoozeAlarm(q).pendingSince = q.pendingSince
         /\ snoozeAlarm(q).pendingHigh = q.pendingHigh
         /\ snoozeAlarm(q).pendingLow = q.pendingLow
         /\ snoozeAlarm(q).snzTime = 0 /\ snoozeAlarm(q).suspTime = q.suspTime
<1>1. 0 \in None..(s.snooze + 1)
  BY DEF AlarmSetting, None
<1>2. snoozeAlarm(q) \in Types(s)
  BY <1>1, Zenon DEF snoozeAlarm, Types
<1> QED BY <1>2, Zenon DEF snoozeAlarm, Types

LEMMA ActivatedFacts ==
  ASSUME NEW s \in AlarmSetting, NEW q \in Types(s)
  PROVE  /\ activateAlarm(q) \in Types(s) /\ activateAlarm(q).state = "ACTIVE"
         /\ activateAlarm(q).pendingSince = None
         /\ ~activateAlarm(q).pendingHigh /\ ~activateAlarm(q).pendingLow
         /\ activateAlarm(q).snzTime = q.snzTime /\ activateAlarm(q).suspTime = q.suspTime
<1> DEFINE a == [q EXCEPT !.state = "ACTIVE", !.hitHighLimit = q.pendingHigh,
                          !.hitLowLimit = q.pendingLow]
<1>1. a \in Types(s)
  BY Zenon DEF Types
<1>2. a.state = "ACTIVE" /\ a.snzTime = q.snzTime /\ a.suspTime = q.suspTime
  BY Zenon DEF Types
<1>3. activateAlarm(q) = clearPending(a)
  BY DEF activateAlarm
<1> HIDE DEF a
<1> QED BY <1>1, <1>2, <1>3, ClearedFacts

(* What a refresh makes of an alarm, one disjunct per way through           *)
(* checkAlarms.                                                             *)
Invalidated(q, z, n) ==
  z = "invalid" /\ n.state = "INACTIVE" /\ n.pendingSince = None /\ n.suspTime = q.suspTime
Activated(s, q, z, n) ==
  /\ Monitored(s, q) /\ z # "invalid" /\ n.suspTime = q.suspTime
  /\ n.state = "ACTIVE" /\ n.pendingSince = None
  /\ \/ q.pendingSince = None /\ s.delay = 0 /\ (s.kind = "limit" => z \in Beyond)
     \/ q.pendingSince = s.delay /\ (s.kind = "limit" => z # "in")
Begun(s, q, z, n) ==
  /\ Monitored(s, q) /\ z # "invalid" /\ n.suspTime = q.suspTime /\ n.state = q.state
  /\ q.pendingSince = None /\ n.pendingSince = 0 /\ 0 < s.delay
  /\ s.kind = "limit" \/ q.state = "INACTIVE" => z \in Beyond
GoesOn(s, q, z, n) ==
  /\ Monitored(s, q) /\ z # "invalid" /\ n.suspTime = q.suspTime /\ n.state = q.state
  /\ q.pendingSince # None /\ n.pendingSince = q.pendingSince /\ n.pendingSince < s.delay
  /\ s.kind = "limit" \/ q.state = "INACTIVE" => z # "in"
Over(s, q, z, n) ==
  /\ Monitored(s, q) /\ z # "invalid" /\ n.suspTime = q.suspTime /\ n.pendingSince = None
  /\ \/ q.pendingSince # None /\ n.state = q.state /\ z = "in"
     \/ q.pendingSince = None /\ n.state = "INACTIVE" /\ z \notin Beyond
Stays(s, q, z, n) ==
  /\ ~Monitored(s, q) /\ z # "invalid"
  /\ n.suspTime = q.suspTime /\ n.state = q.state /\ n.pendingSince = None
Suspended(q, z, n) ==
  /\ q.state = "ACTIVE" /\ z # "invalid"
  /\ n.state = "INACTIVE" /\ n.suspTime = 0 /\ n.pendingSince = None

LEMMA CheckFacts ==
  ASSUME NEW s \in AlarmSetting, NEW q \in Types(s), PendingIsMarked(q), NEW z \in ZoneOf(s),
         NEW n, n = checkAlarm(s, q, z)
  PROVE  /\ n \in Types(s) /\ PendingIsMarked(n) /\ n.snzTime = q.snzTime
         /\ \/ Invalidated(q, z, n) \/ Activated(s, q, z, n) \/ Begun(s, q, z, n)
            \/ GoesOn(s, q, z, n) \/ Over(s, q, z, n) \/ Stays(s, q, z, n) \/ Suspended(q, z, n)
<1> DEFINE c == clearPending(q)
<1>1. /\ c \in Types(s) /\ c.pendingSince = None /\ ~c.pendingHigh /\ ~c.pendingLow
      /\ c.state = q.state /\ c.snzTime = q.snzTime /\ c.suspTime = q.suspTime
  BY ClearedFacts
<1>2. PendingIsMarked(c)
  BY <1>1 DEF PendingIsMarked
<1>3. CASE z = "invalid"
  <2> DEFINE i == [c EXCEPT !.state = "INACTIVE"]
  <2>1. n = noHit(i)
    BY <1>3 DEF checkAlarm
  <2>2. /\ i \in Types(s) /\ i.state = "INACTIVE" /\ i.pendingSince = None
        /\ ~i.pendingHigh /\ ~i.pendingLow /\ i.snzTime = q.snzTime /\ i.suspTime = q.suspTime
    <3> HIDE DEF c
    <3> QED BY <1>1, StateFacts
  <2> HIDE DEF c, i
  <2>3. /\ n \in Types(s) /\ n.state = "INACTIVE" /\ n.pendingSince = None
        /\ ~n.pendingHigh /\ ~n.pendingLow /\ n.snzTime = q.snzTime /\ n.suspTime = q.suspTime
    BY <2>1, <2>2, NoHitFacts
  <2> QED BY <1>3, <2>3 DEF PendingIsMarked, Invalidated
<1>4. CASE z # "invalid" /\ Monitored(s, q)
  <2> DEFINE p == Pending(s, q, z)
  <2>1. n = IF p.pendingSince # None /\ p.pendingSince >= s.delay THEN activateAlarm(p) ELSE p
    BY <1>4 DEF checkAlarm, Monitor
  <2>2. /\ p \in Types(s) /\ PendingIsMarked(p)
        /\ p.snzTime = q.snzTime /\ p.suspTime = q.suspTime
        /\ \/ /\ q.pendingSince = None /\ p.pendingSince = 0 /\ p.state = q.state
              /\ s.kind = "limit" \/ q.state = "INACTIVE" => z \in Beyond
           \/ /\ q.pendingSince = None /\ p.pendingSince = None /\ p.state = "INACTIVE"
              /\ z \notin Beyond
           \/ /\ q.pendingSince # None /\ p.pendingSince = q.pendingSince /\ p.state = q.state
              /\ s.kind = "limit" \/ q.state = "INACTIVE" => z # "in"
           \/ /\ q.pendingSince # None /\ p.pendingSince = None /\ p.state = q.state
              /\ z = "in"
    BY <1>4, PendingFacts
  <2>3. s.delay \in Nat /\ p.pendingSince \in -1..s.delay /\ q.pendingSince \in -1..s.delay
    BY <2>2 DEF AlarmSetting, Types, None
  <2> HIDE DEF p, c
  <2>4. CASE p.pendingSince # None /\ p.pendingSince >= s.delay
    <3>1. /\ n \in Types(s) /\ n.state = "ACTIVE" /\ n.pendingSince = None
          /\ ~n.pendingHigh /\ ~n.pendingLow /\ n.snzTime = q.snzTime /\ n.suspTime = q.suspTime
      BY <2>1, <2>2, <2>4, ActivatedFacts
    <3>2. p.pendingSince = s.delay
      BY <2>3, <2>4
    <3>3. Activated(s, q, z, n)
      BY <1>4, <2>2, <2>4, <3>1, <3>2 DEF Activated
    <3> QED BY <3>1, <3>3 DEF PendingIsMarked
  <2>5. CASE ~ (p.pendingSince # None /\ p.pendingSince >= s.delay)
    <3>1. n = p
      BY <2>1, <2>5
    <3>2. n.pendingSince = None \/ n.pendingSince < s.delay
      BY <2>3, <2>5, <3>1
    <3>3. Begun(s, q, z, n) \/ GoesOn(s, q, z, n) \/ Over(s, q, z, n)
      BY <1>4, <2>2, <3>1, <3>2 DEF Begun, GoesOn, Over, None
    <3> QED BY <2>2, <3>1, <3>3
  <2> QED BY <2>4, <2>5
<1>5. CASE z # "invalid" /\ ~Monitored(s, q) /\ q.state = "ACTIVE"
                         /\ s.kind # "time" /\ Cleared(s, q, z)
  <2> DEFINE i == suspendAlarm(c)
  <2>1. n = noHit(i)
    BY <1>5 DEF checkAlarm, WhileActive
  <2>2. /\ i \in Types(s) /\ i.state = "INACTIVE" /\ i.pendingSince = None
        /\ ~i.pendingHigh /\ ~i.pendingLow /\ i.snzTime = q.snzTime /\ i.suspTime = 0
    <3> HIDE DEF c
    <3> QED BY <1>1, SuspendFacts
  <2> HIDE DEF c, i
  <2>3. /\ n \in Types(s) /\ n.state = "INACTIVE" /\ n.pendingSince = None
        /\ ~n.pendingHigh /\ ~n.pendingLow /\ n.snzTime = q.snzTime /\ n.suspTime = 0
    BY <2>1, <2>2, NoHitFacts
  <2> QED BY <1>5, <2>3 DEF PendingIsMarked, Suspended
<1>6. CASE z # "invalid" /\ ~Monitored(s, q)
           /\ ~ (q.state = "ACTIVE" /\ s.kind # "time" /\ Cleared(s, q, z))
  <2>1. n = c
    BY <1>6 DEF checkAlarm, WhileActive
  <2> HIDE DEF c
  <2> QED BY <1>1, <1>2, <1>6, <2>1 DEF Stays
<1> QED BY <1>3, <1>4, <1>5, <1>6

LEMMA ObservedFacts ==
  ASSUME NEW s \in AlarmSetting, NEW r \in Types(s), NEW h \in Histories(s), NEW n \in Types(s),
         NEW z \in ZoneOf(s), NEW g, g = Observed(s, h, r, n, z)
  PROVE  /\ g \in Histories(s)
         /\ g.quiet = "no" <=> n.suspTime # 0 /\ (suspTimeOver(s, Aged(s, r)) \/ h.quiet = "no")
         /\ g.lost <=> h.lost \/ z = "invalid"
         /\ n.state # r.state \/ z \in {"in", "invalid"} => g.held = None
         /\ n.state = r.state /\ z \notin {"in", "invalid"} =>
              IF h.held = None \/ (suspTimeOver(s, Aged(s, r)) /\ h.quiet # "no")
              THEN g.held = IF z \in Beyond THEN 0 ELSE None
              ELSE g.held = IF h.held = s.delay THEN s.delay ELSE h.held + 1
<1> DEFINE over == suspTimeOver(s, Aged(s, r))
           start == over /\ h.quiet # "no"
           held == IF start THEN None ELSE h.held
           kept == IF n.state # r.state \/ z \in {"in", "invalid"} THEN None
                   ELSE IF held = None THEN (IF z \in Beyond THEN 0 ELSE None)
                   ELSE Older(held, s.delay)
           quiet == IF n.suspTime = 0 THEN "cleared" ELSE IF over THEN "no" ELSE h.quiet
           lost == h.lost \/ z = "invalid"
<1>1. /\ s.delay \in Nat /\ h.held \in -1..s.delay /\ h.quiet \in {"no", "key", "cleared"}
      /\ h.lost \in BOOLEAN
  BY DEF AlarmSetting, Histories, None
<1>2. g = [held |-> kept, quiet |-> quiet, lost |-> lost]
  BY DEF Observed
<1>3. kept \in None..s.delay /\ quiet \in {"no", "key", "cleared"}
  BY <1>1 DEF Older, None
<1>4. g.held = kept /\ g.quiet = quiet /\ (g.lost <=> lost)
  <2> HIDE DEF kept, quiet, lost
  <2>1. g.held = kept /\ g.quiet = quiet /\ g.lost = lost
    BY <1>2
  <2> QED BY <2>1
<1>5. g \in Histories(s)
  <2>1. lost \in BOOLEAN
    BY <1>1
  <2> HIDE DEF kept, quiet, lost
  <2> QED BY <1>2, <1>3, <2>1 DEF Histories
<1>6. g.quiet = "no" <=> n.suspTime # 0 /\ (over \/ h.quiet = "no")
  BY <1>4
<1>7. n.state = r.state /\ z \notin {"in", "invalid"} =>
        IF h.held = None \/ (over /\ h.quiet # "no")
        THEN kept = IF z \in Beyond THEN 0 ELSE None
        ELSE kept = IF h.held = s.delay THEN s.delay ELSE h.held + 1
  BY DEF Older
<1> HIDE DEF kept, quiet
<1>8. n.state # r.state \/ z \in {"in", "invalid"} => g.held = None
  BY <1>4 DEF kept
<1> QED BY <1>4, <1>5, <1>6, <1>7, <1>8

LEMMA RefreshKeeps ==
  ASSUME NEW s \in AlarmSetting, NEW r, NEW h, OneAlarm(s, r, h), NEW z \in ZoneOf(s),
         NEW n, n = checkAlarm(s, Aged(s, r), z), NEW g, g = Observed(s, h, r, n, z)
  PROVE  /\ OneAlarm(s, n, g)
         /\ s.kind = "limit" /\ r.state # "ACTIVE" /\ n.state = "ACTIVE"
            => h.held + 1 >= s.delay /\ z \notin {"in", "invalid"}
<1> DEFINE q == Aged(s, r)
<1>1. r \in Types(s) /\ h \in Histories(s) /\ PendingIsMarked(r) /\ Consistent(s, r, h)
  BY DEF OneAlarm
<1>2. /\ q \in Types(s) /\ q.state = r.state
      /\ q.pendingHigh = r.pendingHigh /\ q.pendingLow = r.pendingLow
      /\ r.pendingSince = None => q.pendingSince = None
      /\ r.pendingSince # None => /\ q.pendingSince \in r.pendingSince..s.delay
                                  /\ q.pendingSince <= r.pendingSince + 1
                                  /\ r.pendingSince < s.delay
                                     => q.pendingSince = r.pendingSince + 1
      /\ q.suspTime # 0 /\ q.snzTime # 0
      /\ suspTimeOver(s, r) => suspTimeOver(s, q)
      /\ snoozeTimeOver(s, r) => snoozeTimeOver(s, q)
  BY <1>1, AgedFacts
<1>3. /\ s.delay \in Nat /\ s.snooze \in Nat /\ s.suspend \in Nat
      /\ h.held \in -1..s.delay /\ r.pendingSince \in -1..s.delay
      /\ q.pendingSince \in -1..s.delay
      /\ r.state \in {"INACTIVE", "ACTIVE", "SNOOZE"}
  BY <1>1, <1>2 DEF AlarmSetting, Histories, Types, None
<1>4. q.pendingSince # None <=> r.pendingSince # None
  BY <1>2, <1>3 DEF None
<1>5. PendingIsMarked(q)
  <2> HIDE DEF q
  <2> QED BY <1>1, <1>2, <1>4, Zenon DEF PendingIsMarked
<1> HIDE DEF q
<1>6. /\ n \in Types(s) /\ PendingIsMarked(n) /\ n.snzTime = q.snzTime
      /\ \/ Invalidated(q, z, n) \/ Activated(s, q, z, n) \/ Begun(s, q, z, n)
         \/ GoesOn(s, q, z, n) \/ Over(s, q, z, n) \/ Stays(s, q, z, n) \/ Suspended(q, z, n)
  BY <1>2, <1>5, CheckFacts DEF q
<1>7. /\ g \in Histories(s)
      /\ g.quiet = "no" <=> n.suspTime # 0 /\ (suspTimeOver(s, q) \/ h.quiet = "no")
      /\ g.lost <=> h.lost \/ z = "invalid"
      /\ n.state # r.state \/ z \in {"in", "invalid"} => g.held = None
      /\ n.state = r.state /\ z \notin {"in", "invalid"} =>
           IF h.held = None \/ (suspTimeOver(s, q) /\ h.quiet # "no")
           THEN g.held = IF z \in Beyond THEN 0 ELSE None
           ELSE g.held = IF h.held = s.delay THEN s.delay ELSE h.held + 1
  BY <1>1, <1>6, ObservedFacts DEF q
<1>8. /\ snoozeTimeOver(s, n) <=> snoozeTimeOver(s, q)
      /\ n.suspTime = q.suspTime => (suspTimeOver(s, n) <=> suspTimeOver(s, q))
      /\ n.suspTime = 0 => ~suspTimeOver(s, n)
  BY <1>3, <1>6 DEF snoozeTimeOver, suspTimeOver, None
<1>9. /\ h.quiet = "no" <=> suspTimeOver(s, r)
      /\ r.state # "INACTIVE" => suspTimeOver(s, r)
      /\ r.state = "ACTIVE" => r.pendingSince = None
      /\ r.pendingSince # None => suspTimeOver(s, r)
      /\ r.pendingSince # None /\ s.kind = "limit" => h.held >= r.pendingSince
      /\ r.state # "SNOOZE" => snoozeTimeOver(s, r) \/ h.lost
      /\ r.state = "INACTIVE" /\ h.quiet = "no" /\ h.held # None
         => r.pendingSince # None /\ h.held <= r.pendingSince /\ r.pendingSince < s.delay
  BY <1>1 DEF Consistent
<1>10. Monitored(s, q) <=> \/ r.state = "INACTIVE" /\ suspTimeOver(s, q)
                           \/ r.state = "SNOOZE" /\ snoozeTimeOver(s, q)
  BY <1>2 DEF Monitored
<1>11. suspTimeOver(s, r) \/ h.quiet = "no" => suspTimeOver(s, q)
  BY <1>2, <1>9
<1>12. g.quiet = "no" <=> suspTimeOver(s, n)
  BY <1>2, <1>6, <1>7, <1>8, <1>11
     DEF Invalidated, Activated, Begun, GoesOn, Over, Stays, Suspended
<1>13. n.state # "INACTIVE" => suspTimeOver(s, n)
  BY <1>2, <1>6, <1>8, <1>9, <1>10, <1>11
     DEF Invalidated, Activated, Begun, GoesOn, Over, Stays, Suspended
<1>14. /\ n.state = "ACTIVE" => n.pendingSince = None
       /\ n.pendingSince # None => suspTimeOver(s, n)
  BY <1>2, <1>6, <1>8, <1>9, <1>10, <1>11
     DEF Invalidated, Activated, Begun, GoesOn, Over, Stays, Suspended
<1>15. n.state # "SNOOZE" => snoozeTimeOver(s, n) \/ g.lost
  BY <1>2, <1>6, <1>7, <1>8, <1>9, <1>10
     DEF Invalidated, Activated, Begun, GoesOn, Over, Stays, Suspended
<1>16. ASSUME n.pendingSince # None, s.kind = "limit"
       PROVE  g.held >= n.pendingSince
  <2>1. CASE Begun(s, q, z, n)
    BY <1>2, <1>3, <1>7, <1>16, <2>1 DEF Begun, Beyond, None
  <2>2. CASE GoesOn(s, q, z, n)
    <3>1. /\ n.state = r.state /\ z \notin {"in", "invalid"} /\ h.quiet = "no"
          /\ h.held >= r.pendingSince /\ h.held # None
      BY <1>2, <1>3, <1>4, <1>9, <1>16, <2>2 DEF GoesOn, None
    <3>2. g.held = IF h.held = s.delay THEN s.delay ELSE h.held + 1
      BY <1>7, <3>1
    <3> QED BY <1>2, <1>3, <1>4, <2>2, <3>1, <3>2 DEF GoesOn
  <2> QED BY <1>6, <1>16, <2>1, <2>2 DEF Invalidated, Activated, Over, Stays, Suspended
<1>17. ASSUME n.state = "INACTIVE", g.quiet = "no", g.held # None
       PROVE  n.pendingSince # None /\ g.held <= n.pendingSince /\ n.pendingSince < s.delay
  <2>1. /\ n.state = r.state /\ z \notin {"in", "invalid"} /\ r.state = "INACTIVE"
        /\ suspTimeOver(s, q) /\ Monitored(s, q)
    BY <1>7, <1>8, <1>10, <1>11, <1>17
  <2>2. CASE Begun(s, q, z, n)
    <3>1. h.held = None \/ h.quiet # "no"
      BY <1>4, <1>9, <2>1, <2>2 DEF Begun
    <3>2. g.held = 0
      BY <1>7, <1>17, <2>1, <3>1
    <3> QED BY <2>2, <3>2 DEF Begun, None
  <2>3. CASE GoesOn(s, q, z, n)
    <3>1. r.pendingSince # None /\ h.quiet = "no"
      BY <1>4, <1>9, <2>3 DEF GoesOn
    <3>2. g.held = 0 \/ (h.held # None /\ (g.held = s.delay \/ g.held = h.held + 1))
      BY <1>7, <1>17, <2>1, <3>1
    <3>3. h.held # None => g.held = h.held + 1
      BY <1>3, <1>7, <1>9, <2>1, <3>1 DEF None
    <3>4. h.held # None => h.held <= r.pendingSince /\ q.pendingSince = r.pendingSince + 1
      BY <1>2, <1>9, <2>1, <3>1
    <3> QED BY <1>3, <2>3, <3>2, <3>3, <3>4 DEF GoesOn, None
  <2>4. CASE Over(s, q, z, n)
    <3>1. q.pendingSince = None /\ z \notin Beyond
      BY <2>1, <2>4 DEF Over
    <3>2. h.held = None \/ h.quiet # "no"
      BY <1>4, <1>9, <2>1, <3>1
    <3> QED BY <1>7, <1>17, <2>1, <3>1, <3>2
  <2> QED BY <1>2, <1>6, <1>17, <2>1, <2>2, <2>3, <2>4
          DEF Invalidated, Activated, Stays, Suspended
<1>18. Consistent(s, n, g)
  BY <1>12, <1>13, <1>14, <1>15, <1>16, <1>17 DEF Consistent
<1>19. ASSUME s.kind = "limit", r.state # "ACTIVE", n.state = "ACTIVE"
       PROVE  h.held + 1 >= s.delay /\ z \notin {"in", "invalid"}
  <2>1. Activated(s, q, z, n)
    BY <1>2, <1>6, <1>19, <1>10
       DEF Invalidated, Begun, GoesOn, Over, Stays, Suspended
  <2>2. CASE q.pendingSince = None /\ s.delay = 0
    BY <1>3, <1>19, <2>1, <2>2 DEF Activated, Beyond, None
  <2>3. CASE q.pendingSince = s.delay
    <3>1. r.pendingSince # None
      BY <1>3, <1>4, <2>3 DEF None
    <3> QED BY <1>2, <1>3, <1>9, <1>19, <2>1, <2>3, <3>1 DEF Activated, None, Beyond
  <2> QED BY <2>1, <2>2, <2>3 DEF Activated
<1> QED BY <1>6, <1>7, <1>18, <1>19 DEF OneAlarm

-----------------------------------------------------------------------------
AlarmInv ==
  /\ setup \in Setups /\ callAlarmPage \in BOOLEAN
  /\ alarm = [a \in Alarm |-> alarm[a]] /\ history = [a \in Alarm |-> history[a]]
  /\ \A a \in Alarm : zone[a] \in Zone(a) /\ OneAlarm(setup[a], alarm[a], history[a])

LEMMA SettingOf ==
  ASSUME setup \in Setups, NEW a \in Alarm
  PROVE  setup[a] \in AlarmSetting /\ Zone(a) = ZoneOf(setup[a])
BY OBPAlarmsAssumption DEF AlarmSetting, Zone, ZoneOf

LEMMA InitAlarmInv == AlarmInit => AlarmInv
<1> SUFFICES ASSUME AlarmInit PROVE AlarmInv
  OBVIOUS
<1> DEFINE r == [state |-> "INACTIVE", pendingSince |-> None, pendingHigh |-> FALSE,
                 pendingLow |-> FALSE, hitHighLimit |-> FALSE, hitLowLimit |-> FALSE,
                 snzTime |-> None, suspTime |-> None]
           h == [held |-> None, quiet |-> "no", lost |-> FALSE]
<1>1. ASSUME NEW a \in Alarm
      PROVE  "invalid" \in Zone(a) /\ OneAlarm(setup[a], r, h)
  <2>1. setup[a] \in AlarmSetting
    BY SettingOf DEF AlarmInit
  <2>2. /\ None \in None..setup[a].delay /\ None \in None..(setup[a].snooze + 1)
        /\ None \in None..(setup[a].suspend + 1)
    BY <2>1 DEF AlarmSetting, None
  <2>3. r \in Types(setup[a]) /\ h \in Histories(setup[a])
    BY <2>2 DEF Types, Histories
  <2>4. PendingIsMarked(r)
    BY DEF PendingIsMarked
  <2>5. Consistent(setup[a], r, h)
    BY DEF Consistent, suspTimeOver, snoozeTimeOver
  <2> QED BY <2>3, <2>4, <2>5 DEF OneAlarm, Zone
<1>2. \A a \in Alarm : alarm[a] = r /\ history[a] = h /\ zone[a] = "invalid"
  BY DEF AlarmInit
<1>3. alarm = [a \in Alarm |-> alarm[a]] /\ history = [a \in Alarm |-> history[a]]
  BY DEF AlarmInit
<1> HIDE DEF r, h
<1> QED BY <1>1, <1>2, <1>3 DEF AlarmInit, AlarmInv

LEMMA RefreshOne ==
  ASSUME AlarmInv, Refresh, NEW a \in Alarm
  PROVE  /\ zone'[a] \in Zone(a) /\ OneAlarm(setup[a], alarm'[a], history'[a])
         /\ setup[a].kind = "limit" /\ alarm[a].state # "ACTIVE" /\ alarm'[a].state = "ACTIVE"
            => history[a].held + 1 >= setup[a].delay /\ zone'[a] \notin {"in", "invalid"}
<1>1. setup[a] \in AlarmSetting /\ Zone(a) = ZoneOf(setup[a])
  BY SettingOf DEF AlarmInv
<1>2. zone'[a] \in Zone(a)
  BY DEF Refresh, Zones
<1>3. /\ alarm'[a] = checkAlarm(setup[a], Aged(setup[a], alarm[a]), zone'[a])
      /\ history'[a] = Observed(setup[a], history[a], alarm[a], alarm'[a], zone'[a])
  BY DEF Refresh
<1> QED BY <1>1, <1>2, <1>3, RefreshKeeps DEF AlarmInv

(* A key acts on one alarm that is active.                                  *)
LEMMA KeyKeeps ==
  ASSUME NEW s \in AlarmSetting, NEW r, NEW h, OneAlarm(s, r, h), r.state = "ACTIVE"
  PROVE  /\ OneAlarm(s, suspendAlarm(r), [[h EXCEPT !.held = None] EXCEPT !.quiet = "key"])
         /\ OneAlarm(s, snoozeAlarm(r), [[h EXCEPT !.held = None] EXCEPT !.lost = FALSE])
<1> DEFINE k == [[h EXCEPT !.held = None] EXCEPT !.quiet = "key"]
           f == [[h EXCEPT !.held = None] EXCEPT !.lost = FALSE]
<1>1. r \in Types(s) /\ h \in Histories(s) /\ PendingIsMarked(r) /\ Consistent(s, r, h)
  BY DEF OneAlarm
<1>2. /\ r.pendingSince = None /\ suspTimeOver(s, r) /\ h.quiet = "no"
      /\ snoozeTimeOver(s, r) \/ h.lost
  BY <1>1 DEF Consistent
<1>3. None \in None..s.delay
  BY DEF AlarmSetting, None
<1>4. /\ k \in Histories(s) /\ k.held = None /\ k.quiet = "key" /\ k.lost = h.lost
      /\ f \in Histories(s) /\ f.held = None /\ f.quiet = h.quiet
  <2>1. k \in Histories(s) /\ f \in Histories(s)
    BY <1>1, <1>3, Zenon DEF Histories
  <2>2. k.held = None /\ k.quiet = "key" /\ k.lost = h.lost
    BY <1>1, Zenon DEF Histories
  <2>3. f.held = None /\ f.quiet = h.quiet
    BY <1>1, Zenon DEF Histories
  <2> QED BY <2>1, <2>2, <2>3
<1> HIDE DEF k, f
<1>5. OneAlarm(s, suspendAlarm(r), k)
  <2> DEFINE n == suspendAlarm(r)
  <2>1. /\ n \in Types(s) /\ n.state = "INACTIVE" /\ n.pendingSince = r.pendingSince
        /\ n.pendingHigh = r.pendingHigh /\ n.pendingLow = r.pendingLow
        /\ n.snzTime = r.snzTime /\ n.suspTime = 0
    BY <1>1, SuspendFacts
  <2> HIDE DEF n
  <2>2. PendingIsMarked(n)
    BY <1>1, <2>1, Zenon DEF PendingIsMarked
  <2>3. ~suspTimeOver(s, n) /\ (snoozeTimeOver(s, n) <=> snoozeTimeOver(s, r))
    BY <2>1 DEF suspTimeOver, snoozeTimeOver, None, AlarmSetting
  <2>4. Consistent(s, n, k)
    BY <1>2, <1>4, <2>1, <2>3 DEF Consistent
  <2> QED BY <1>4, <2>1, <2>2, <2>4 DEF OneAlarm, n
<1>6. OneAlarm(s, snoozeAlarm(r), f)
  <2> DEFINE n == snoozeAlarm(r)
  <2>1. /\ n \in Types(s) /\ n.state = "SNOOZE" /\ n.pendingSince = r.pendingSince
        /\ n.pendingHigh = r.pendingHigh /\ n.pendingLow = r.pendingLow
        /\ n.snzTime = 0 /\ n.suspTime = r.suspTime
    BY <1>1, SnoozeFacts
  <2> HIDE DEF n
  <2>2. PendingIsMarked(n)
    BY <1>1, <2>1, Zenon DEF PendingIsMarked
  <2>3. suspTimeOver(s, n) <=> suspTimeOver(s, r)
    BY <2>1 DEF suspTimeOver
  <2>4. Consistent(s, n, f)
    BY <1>2, <1>4, <2>1, <2>3 DEF Consistent
  <2> QED BY <1>4, <2>1, <2>2, <2>4 DEF OneAlarm, n
<1> QED BY <1>5, <1>6 DEF k, f

LEMMA StepAlarmInv == AlarmInv /\ [AlarmNext]_alarmVars => AlarmInv'
<1> SUFFICES ASSUME AlarmInv, [AlarmNext]_alarmVars PROVE AlarmInv'
  OBVIOUS
<1>1. CASE Refresh
  <2>1. setup' = setup /\ callAlarmPage' \in BOOLEAN
    BY <1>1 DEF Refresh, AnyActive
  <2>2. /\ alarm' = [a \in Alarm |-> alarm'[a]] /\ history' = [a \in Alarm |-> history'[a]]
    BY <1>1 DEF Refresh
  <2>3. ASSUME NEW a \in Alarm
        PROVE  zone'[a] \in Zone(a)' /\ OneAlarm(setup'[a], alarm'[a], history'[a])
    BY <1>1, <2>1, RefreshOne DEF Zone
  <2> QED BY <2>1, <2>2, <2>3 DEF AlarmInv
<1>2. ASSUME NEW a \in Alarm, Confirm(a) \/ Snooze(a)
      PROVE  AlarmInv'
  <2>1. /\ alarm[a].state = "ACTIVE" /\ UNCHANGED <<setup, zone, callAlarmPage>>
        /\ setup[a] \in AlarmSetting /\ OneAlarm(setup[a], alarm[a], history[a])
        /\ alarm = [b \in Alarm |-> alarm[b]] /\ history = [b \in Alarm |-> history[b]]
    BY <1>2, SettingOf DEF Confirm, Snooze, FirstActive, AlarmInv
  <2>2. /\ alarm' = [b \in Alarm |-> alarm'[b]] /\ history' = [b \in Alarm |-> history'[b]]
        /\ \A b \in Alarm \ {a} : alarm'[b] = alarm[b] /\ history'[b] = history[b]
    BY <1>2, <2>1 DEF Confirm, Snooze
  <2>3. \/ /\ alarm'[a] = suspendAlarm(alarm[a])
           /\ history'[a] = [[history[a] EXCEPT !.held = None] EXCEPT !.quiet = "key"]
        \/ /\ alarm'[a] = snoozeAlarm(alarm[a])
           /\ history'[a] = [[history[a] EXCEPT !.held = None] EXCEPT !.lost = FALSE]
    BY <1>2, <2>1 DEF Confirm, Snooze
  <2>4. OneAlarm(setup[a], alarm'[a], history'[a])
    <3> DEFINE k == [[history[a] EXCEPT !.held = None] EXCEPT !.quiet = "key"]
               f == [[history[a] EXCEPT !.held = None] EXCEPT !.lost = FALSE]
    <3>1. OneAlarm(setup[a], suspendAlarm(alarm[a]), k)
          /\ OneAlarm(setup[a], snoozeAlarm(alarm[a]), f)
      BY <2>1, KeyKeeps
    <3>2. \/ alarm'[a] = suspendAlarm(alarm[a]) /\ history'[a] = k
          \/ alarm'[a] = snoozeAlarm(alarm[a]) /\ history'[a] = f
      BY <2>3
    <3> HIDE DEF k, f
    <3> QED BY <3>1, <3>2
  <2>5. \A b \in Alarm : zone'[b] \in Zone(b)' /\ OneAlarm(setup'[b], alarm'[b], history'[b])
    BY <2>1, <2>2, <2>4 DEF AlarmInv, Zone
  <2> QED BY <2>1, <2>2, <2>5 DEF AlarmInv
<1>3. CASE UNCHANGED alarmVars
  BY <1>3 DEF alarmVars, AlarmInv, Zone
<1> QED BY <1>1, <1>2, <1>3 DEF AlarmNext

LEMMA AlarmInvAlways == AlarmSpec => []AlarmInv
BY InitAlarmInv, StepAlarmInv, PTL DEF AlarmSpec

(* The states, times and histories of the alarms keep their types           *)
(* (AlarmHandler's refresh, confirm and snooze).                            *)
THEOREM AlarmsTyped == AlarmSpec => []AlarmTypeOK
<1>1. AlarmInv => AlarmTypeOK
  BY DEF AlarmInv, AlarmTypeOK, OneAlarm, PendingIsMarked, Histories
<1> QED BY <1>1, AlarmInvAlways, PTL

(* For any alarms with any delays and times of silence: a condition that    *)
(* has been there for the delay has raised the alarm, unless a key or the   *)
(* end of an earlier alarm has silenced it.                                 *)
THEOREM SilenceExplained == AlarmSpec => []NotSilent
<1>1. AlarmInv => NotSilent
  <2> SUFFICES ASSUME AlarmInv, NEW a \in Alarm, alarm[a].state = "INACTIVE",
                      history[a].held >= setup[a].delay
               PROVE  history[a].quiet \in {"key", "cleared"}
    BY DEF NotSilent, Explained
  <2>1. /\ setup[a] \in AlarmSetting /\ alarm[a] \in Types(setup[a])
        /\ history[a] \in Histories(setup[a]) /\ Consistent(setup[a], alarm[a], history[a])
    BY SettingOf DEF AlarmInv, OneAlarm
  <2>2. /\ setup[a].delay \in Nat /\ history[a].held \in -1..setup[a].delay
        /\ alarm[a].pendingSince \in -1..setup[a].delay
        /\ history[a].quiet \in {"no", "key", "cleared"}
    BY <2>1 DEF AlarmSetting, Types, Histories, None
  <2> QED BY <2>1, <2>2 DEF Consistent, None
<1> QED BY <1>1, AlarmInvAlways, PTL

(* An alarm that a key has suspended or snoozed is not raised before the    *)
(* time is over, whatever the value does in the meantime.                   *)
THEOREM KeysRespected == AlarmSpec => []KeysAreRespected
<1>1. AlarmInv => KeysAreRespected
  BY DEF AlarmInv, OneAlarm, Consistent, KeysAreRespected
<1> QED BY <1>1, AlarmInvAlways, PTL

(* A limit alarm is not raised before its value has been beyond the limit   *)
(* for the whole delay.                                                     *)
THEOREM NeverEarly == AlarmSpec => NotEarly
<1> DEFINE Late ==
      \A a \in Alarm :
        setup[a].kind = "limit" /\ alarm[a].state # "ACTIVE" /\ alarm'[a].state = "ACTIVE"
        => history[a].held + 1 >= setup[a].delay /\ zone'[a] \notin {"in", "invalid"}
<1>1. AlarmInv /\ [AlarmNext]_alarmVars => [Late]_alarmVars
  <2> SUFFICES ASSUME AlarmInv, AlarmNext PROVE Late
    OBVIOUS
  <2>1. CASE Refresh
    BY <2>1, RefreshOne
  <2>2. ASSUME NEW b \in Alarm, Confirm(b) \/ Snooze(b), NEW a \in Alarm
        PROVE  alarm'[a].state = "ACTIVE" => alarm[a].state = "ACTIVE"
    BY <2>2 DEF Confirm, Snooze, FirstActive, AlarmInv
  <2> QED BY <2>1, <2>2 DEF AlarmNext
<1> QED BY <1>1, AlarmInvAlways, PTL DEF AlarmSpec, NotEarly

-----------------------------------------------------------------------------
(* OBPHistory *)

(* The place of the newest of n values; without any it is the first place.  *)
PlaceOfLast(n) == IF n = 0 THEN 0 ELSE (n - 1) % capacity

Rings == [buffer : [0..(capacity - 1) -> 0..MaxSamples], head : 0..(capacity - 1),
          first : 0..(capacity - 1), last : 0..(capacity - 1), count : 0..capacity]

(* The ring r has the last of n values, each at its place.                  *)
Holds(r, n) ==
  /\ r \in Rings
  /\ r.count = Smaller(n, capacity)
  /\ r.head = n % capacity
  /\ r.last = PlaceOfLast(n)
  /\ r.first = IF n <= capacity THEN 0 ELSE n % capacity
  /\ \A j \in (n - r.count + 1)..n : r.buffer[(j - 1) % capacity] = j

Windows == [bufStart : 0..capacity, numBufVals : Nat, lastAddedIdx : 0..(capacity - 1),
            oldChrtIntv : Intervals \cup {0}]

(* The values of the ring behind the end of the window w, if there were n.  *)
Behind(w, n) == Smaller(n, capacity) - w.bufStart - w.numBufVals

(* What the window had when it was set.                                     *)
SetWith(w, t) == (t - MinFree) * w.oldChrtIntv

(* The window lags behind by what came while it grew. Until the ring is     *)
(* full it does not, except by the value that came after an empty ring.     *)
Lags(w, n) ==
  /\ \/ Behind(w, n) <= 1
     \/ \E t \in TimeAxes : Behind(w, n) + SetWith(w, t) <= w.numBufVals
  /\ n < capacity /\ w.bufStart > 0
     => Behind(w, n) <= 0 /\ \E t \in TimeAxes : SetWith(w, t) <= w.numBufVals
  /\ n < capacity => Behind(w, n) <= 1
  /\ n = 0 => w.bufStart = 0

(* The inductive invariant.                                                 *)
HistoryInv ==
  /\ samples \in 0..MaxSamples
  /\ Holds(ring, samples)
  /\ chart \in Windows
  /\ drawn.values \in Seq(0..MaxSamples)
  /\ seen \in [samples : 0..samples, lapped : BOOLEAN]
  /\ chart.lastAddedIdx = PlaceOfLast(seen.samples)
  /\ chart.oldChrtIntv # 0 /\ ~seen.lapped => Lags(chart, seen.samples)

LEMMA HistoryFacts ==
  /\ capacity \in Nat /\ capacity > 0 /\ capacity \in Nat \ {0} /\ MaxSamples \in Nat
  /\ MinFree \in Nat /\ Intervals \subseteq Nat
  /\ \A i \in Intervals : i \in Nat \ {0} /\ i > 0
  /\ \A t \in TimeAxes : t \in Nat /\ t - MinFree \in Nat /\ t - MinFree > 0
BY OBPHistoryAssumption

LEMMA PlaceFacts ==
  ASSUME NEW n \in Int
  PROVE  n % capacity \in 0..(capacity - 1)
BY HistoryFacts, QuotientFacts

-----------------------------------------------------------------------------
(* The ring                                                                 *)

LEMMA AddHolds ==
  ASSUME NEW n \in 0..(MaxSamples - 1), NEW r, Holds(r, n)
  PROVE  Holds(add(r, n + 1), n + 1)
<1> DEFINE q == add(r, n + 1)
<1>0. /\ capacity \in Nat /\ capacity > 0 /\ MaxSamples \in Nat /\ n \in Nat /\ n + 1 \in 0..MaxSamples
  BY HistoryFacts
<1>1. /\ r \in Rings /\ r.count = Smaller(n, capacity) /\ r.head = n % capacity
      /\ r.first = IF n <= capacity THEN 0 ELSE n % capacity
      /\ \A j \in (n - r.count + 1)..n : r.buffer[(j - 1) % capacity] = j
  BY DEF Holds
<1>2. /\ q.buffer = [r.buffer EXCEPT ![r.head] = n + 1] /\ q.last = r.head
      /\ q.first = IF r.count = capacity THEN (r.first + 1) % capacity ELSE r.first
      /\ q.count = IF r.count = capacity THEN r.count ELSE r.count + 1
      /\ q.head = (r.head + 1) % capacity
  BY DEF add, isFull
<1>3. ((n % capacity) + 1) % capacity = (n + 1) % capacity
  <2>1. n \in Int /\ 1 \in Int /\ capacity \in Nat \ {0}
    BY <1>0
  <2> QED BY <2>1, RemainderOfSum
<1>4. /\ n % capacity \in 0..(capacity - 1) /\ (n + 1) % capacity \in 0..(capacity - 1)
  BY <1>0, PlaceFacts
<1>5. q.count = Smaller(n + 1, capacity)
  BY <1>0, <1>1, <1>2 DEF Smaller
<1>6. q.first = IF n + 1 <= capacity THEN 0 ELSE (n + 1) % capacity
  <2>1. CASE n < capacity
    BY <1>0, <1>1, <1>2, <2>1 DEF Smaller
  <2>2. CASE n = capacity
    <3>1. n % capacity = 0
      <4>1. 0 \in 0..(capacity - 1) /\ 0 + capacity = n
        BY <1>0, <2>2
      <4> QED BY <4>1, HistoryFacts, RemainderSmall
    <3> QED BY <1>0, <1>1, <1>2, <1>3, <2>2, <3>1 DEF Smaller
  <2>3. CASE n > capacity
    BY <1>0, <1>1, <1>2, <1>3, <2>3 DEF Smaller
  <2> QED BY <1>0, <2>1, <2>2, <2>3
<1>7. q \in Rings
  <2>1. q.buffer \in [0..(capacity - 1) -> 0..MaxSamples]
    BY <1>0, <1>1, <1>2, <1>4 DEF Rings
  <2>2. q.head \in 0..(capacity - 1) /\ q.last \in 0..(capacity - 1)
    BY <1>1, <1>2, <1>3, <1>4
  <2>3. q.first \in 0..(capacity - 1) /\ q.count \in 0..capacity
    BY <1>0, <1>4, <1>5, <1>6 DEF Smaller
  <2>4. q = [buffer |-> q.buffer, last |-> q.last, first |-> q.first, count |-> q.count,
             head |-> q.head]
    BY DEF add
  <2> HIDE DEF q
  <2> QED BY <2>1, <2>2, <2>3, <2>4 DEF Rings
<1>8. ASSUME NEW j \in ((n + 1) - q.count + 1)..(n + 1)
      PROVE  q.buffer[(j - 1) % capacity] = j
  <2> HIDE DEF q
  <2>0. /\ q.count \in Int /\ r.count \in Int
        /\ j \in Int /\ j >= ((n + 1) - q.count) + 1 /\ j <= n + 1
    <3>1. q.count \in Int /\ r.count \in Int
      BY <1>0, <1>1, <1>5 DEF Smaller
    <3> QED BY <1>0, <3>1
  <2>1. CASE j = n + 1
    <3>1. (j - 1) % capacity = n % capacity
      BY <2>1, <1>0
    <3> QED BY <1>1, <1>2, <1>4, <2>1, <3>1 DEF Rings
  <2>2. CASE j # n + 1
    <3>1. j \in (n - r.count + 1)..n /\ 0 < n - (j - 1) /\ n - (j - 1) < capacity /\ j - 1 \in Int
      BY <1>0, <1>1, <1>5, <2>0, <2>2 DEF Smaller
    <3>2. (j - 1) % capacity # n % capacity
      <4> DEFINE k == j - 1
      <4>1. k \in Int /\ n \in Int /\ 0 < n - k /\ n - k < capacity /\ capacity \in Nat \ {0}
        BY <1>0, <3>1
      <4> HIDE DEF k
      <4>2. k % capacity # n % capacity
        BY <4>1, RemaindersDiffer
      <4> QED BY <4>2 DEF k
    <3>3. (j - 1) % capacity \in 0..(capacity - 1)
      BY <3>1, PlaceFacts
    <3>4. r.buffer[(j - 1) % capacity] = j
      BY <1>1, <3>1
    <3> QED BY <1>1, <1>2, <3>2, <3>3, <3>4 DEF Rings
  <2> QED BY <2>1, <2>2
<1>9. q.last = PlaceOfLast(n + 1)
  <2>1. (n + 1) - 1 = n
    BY <1>0
  <2> QED BY <1>0, <1>1, <1>2, <2>1 DEF PlaceOfLast
<1>10. q.head = (n + 1) % capacity
  BY <1>1, <1>2, <1>3
<1> HIDE DEF q
<1>11. Holds(q, n + 1)
  BY <1>5, <1>6, <1>7, <1>8, <1>9, <1>10, Zenon DEF Holds
<1> QED BY <1>11 DEF q

(* get counts from the oldest value.                                        *)
LEMMA GetFacts ==
  ASSUME NEW n \in 0..MaxSamples, NEW r, Holds(r, n), NEW index \in Nat
  PROVE  get(r, index) = IF index < Smaller(n, capacity)
                         THEN n - Smaller(n, capacity) + index + 1 ELSE Invalid
<1>0. /\ capacity \in Nat /\ capacity > 0 /\ n \in Nat /\ r.count = Smaller(n, capacity)
      /\ r.count \in Nat /\ r.count <= n /\ r.count <= capacity
  BY HistoryFacts DEF Holds, Smaller
<1>1. CASE index >= r.count
  BY <1>0, <1>1 DEF get
<1>2. CASE index < r.count
  <2> DEFINE j == n - r.count + index + 1
  <2>1. j \in (n - r.count + 1)..n /\ j - 1 = n - r.count + index
    BY <1>0, <1>2
  <2>2. (r.first + index) % capacity = (j - 1) % capacity
    <3>1. CASE n <= capacity
      <4>1. r.first = 0 /\ r.count = n
        BY <1>0, <3>1 DEF Holds, Smaller
      <4>2. r.first + index = j - 1
        BY <1>0, <4>1
      <4> QED BY <4>2
    <3>2. CASE n > capacity
      <4>1. r.first = n % capacity /\ r.count = capacity
        BY <1>0, <3>2 DEF Holds, Smaller
      <4>2. ((n % capacity) + index) % capacity = (n + index) % capacity
        <5>1. n \in Int /\ index \in Int /\ capacity \in Nat \ {0}
          BY <1>0
        <5> QED BY <5>1, RemainderOfSum
      <4>3. (((j - 1) % capacity) + capacity) % capacity = ((j - 1) + capacity) % capacity
        <5>1. j - 1 \in Int /\ capacity \in Int
          BY <1>0, <2>1
        <5> HIDE DEF j
        <5> QED BY <5>1, HistoryFacts, RemainderOfSum
      <4>4. (j - 1) + capacity = n + index
        BY <1>0, <2>1, <4>1
      <4>5. (j - 1) % capacity \in 0..(capacity - 1)
        <5>1. j - 1 \in Int
          BY <1>0, <2>1
        <5> HIDE DEF j
        <5> QED BY <5>1, PlaceFacts
      <4>6. (((j - 1) % capacity) + capacity) % capacity = (j - 1) % capacity
        <5> DEFINE k == (j - 1) % capacity
        <5>1. k \in 0..(capacity - 1)
          BY <4>5
        <5> HIDE DEF k, j
        <5>2. (k + capacity) % capacity = k
          BY <5>1, HistoryFacts, RemainderSmall
        <5> QED BY <5>2 DEF k
      <4> QED BY <4>1, <4>2, <4>3, <4>4, <4>6
    <3> QED BY <1>0, <3>1, <3>2
  <2>3. r.buffer[(j - 1) % capacity] = j
    BY <2>1 DEF Holds
  <2> QED BY <1>0, <1>2, <2>2, <2>3 DEF get
<1> QED BY <1>0, <1>1, <1>2

-----------------------------------------------------------------------------
(* The window                                                               *)

(* The number of new values is found from the places of the newest ones; if *)
(* the ring was empty it is one less.                                       *)
LEMMA AddedFacts ==
  ASSUME HistoryInv, samples - seen.samples < capacity
  PROVE  numAdded(chart) = IF seen.samples > 0 THEN samples - seen.samples
                           ELSE IF samples = 0 THEN 0 ELSE samples - 1
<1> DEFINE n == samples
           d == seen.samples
<1>1. /\ capacity \in Nat \ {0} /\ n \in Nat /\ d \in 0..n /\ n - d < capacity
      /\ ring.last = PlaceOfLast(n) /\ chart.lastAddedIdx = PlaceOfLast(d)
  BY HistoryFacts DEF HistoryInv, Holds
<1>2. numAdded(chart) = ((PlaceOfLast(n) - PlaceOfLast(d)) + capacity) % capacity
  BY <1>1 DEF numAdded
<1> HIDE DEF n, d
<1>3. CASE n = 0
  <2>1. d = 0 /\ PlaceOfLast(n) = 0 /\ PlaceOfLast(d) = 0
    BY <1>1, <1>3 DEF PlaceOfLast
  <2>2. ((PlaceOfLast(n) - PlaceOfLast(d)) + capacity) = 0 + capacity /\ 0 \in 0..(capacity - 1)
    BY <1>1, <2>1
  <2>3. (0 + capacity) % capacity = 0
    BY <1>1, <2>2, RemainderSmall
  <2> QED BY <1>2, <1>3, <2>1, <2>2, <2>3 DEF n, d
<1>4. CASE n > 0 /\ d = 0
  <2>1. n - 1 \in 0..(capacity - 1)
    BY <1>1, <1>4
  <2>2. PlaceOfLast(d) = 0 /\ PlaceOfLast(n) = n - 1
    <3>1. (n - 1) % capacity = n - 1
      BY <1>1, <2>1, RemainderSmall
    <3> QED BY <1>4, <3>1 DEF PlaceOfLast
  <2>3. ((n - 1) + capacity) % capacity = n - 1
    BY <1>1, <2>1, RemainderSmall
  <2>4. ((n - 1) - 0) + capacity = (n - 1) + capacity
    BY <1>1
  <2> QED BY <1>2, <1>4, <2>2, <2>3, <2>4 DEF n, d
<1>5. CASE d > 0
  <2> DEFINE p == (d - 1) % capacity
             a == n - d
  <2>1. /\ d - 1 \in Int /\ n - 1 \in Int /\ p \in 0..(capacity - 1) /\ a \in 0..(capacity - 1)
        /\ PlaceOfLast(d) = p /\ PlaceOfLast(n) = (n - 1) % capacity
        /\ (n - 1) % capacity \in 0..(capacity - 1)
    <3>1. d - 1 \in Int /\ n - 1 \in Int /\ a \in 0..(capacity - 1)
      BY <1>1, <1>5
    <3>2. p \in 0..(capacity - 1) /\ (n - 1) % capacity \in 0..(capacity - 1)
      BY <3>1, PlaceFacts
    <3> HIDE DEF a
    <3>3. d # 0 /\ n # 0
      BY <1>1, <1>5
    <3> QED BY <3>1, <3>2, <3>3 DEF PlaceOfLast
  <2>2. (n - 1) % capacity = (p + a) % capacity
    <3>1. (((d - 1) % capacity) + a) % capacity = ((d - 1) + a) % capacity
      <4>1. d - 1 \in Int /\ a \in Int
        BY <2>1
      <4> HIDE DEF a
      <4> QED BY <1>1, <4>1, RemainderOfSum
    <3>2. (d - 1) + a = n - 1
      BY <1>1
    <3> QED BY <3>1, <3>2
  <2> HIDE DEF p, a
  <2>3. (((p + a) % capacity) + (capacity - p)) % capacity = ((p + a) + (capacity - p)) % capacity
    <3>1. p + a \in Int /\ capacity - p \in Int
      BY <1>1, <2>1
    <3> QED BY <1>1, <3>1, RemainderOfSum
  <2>4. (p + a) + (capacity - p) = a + capacity
    BY <1>1, <2>1
  <2>5. (a + capacity) % capacity = a
    BY <1>1, <2>1, RemainderSmall
  <2>6. (PlaceOfLast(n) - PlaceOfLast(d)) + capacity = ((p + a) % capacity) + (capacity - p)
    <3> DEFINE q == (p + a) % capacity
    <3>1. q \in Int /\ PlaceOfLast(n) = q /\ PlaceOfLast(d) = p /\ p \in Int /\ capacity \in Int
      BY <1>1, <2>1, <2>2
    <3> HIDE DEF q
    <3>2. (q - p) + capacity = q + (capacity - p)
      BY <3>1
    <3> QED BY <3>1, <3>2 DEF q
  <2>7. numAdded(chart) = a
    BY <1>2, <2>3, <2>4, <2>5, <2>6
  <2> QED BY <1>5, <2>7 DEF n, d, a
<1> QED BY <1>1, <1>3, <1>4, <1>5

(* The window c that a display gets.                                        *)
LEMMA WindowFacts ==
  ASSUME HistoryInv, NEW t \in TimeAxes, NEW i \in Intervals,
         NEW c, c = getBufferStartNSize(chart, t, i)
  PROVE  /\ c \in Windows /\ c.oldChrtIntv = i /\ c.lastAddedIdx = PlaceOfLast(samples)
         /\ ~ (~IsSet(chart, i) /\ (seen.lapped \/ samples - seen.samples >= capacity))
            => Lags(c, samples)
<1> DEFINE n == samples
           d == seen.samples
           size == Smaller(ring.count, (t - MinFree) * i)
<1>1. /\ capacity \in Nat /\ capacity > 0 /\ MinFree \in Nat
      /\ n \in Nat /\ d \in 0..n /\ ring.last = PlaceOfLast(n) /\ ring.last \in 0..(capacity - 1)
      /\ ring.count = Smaller(n, capacity) /\ ring.count \in Nat
      /\ chart \in Windows /\ chart.lastAddedIdx = PlaceOfLast(d)
      /\ i \in Nat /\ i > 0 /\ t \in Nat /\ t - MinFree \in Nat /\ t - MinFree > 0
      /\ seen.lapped \in BOOLEAN
  BY HistoryFacts DEF HistoryInv, Holds, Rings, Smaller
<1>2. (t - MinFree) * i \in Nat /\ (t - MinFree) * i > 0
  <2>1. \A a, b \in Nat : a > 0 /\ b > 0 => a * b \in Nat /\ a * b > 0
    OBVIOUS
  <2> QED BY <1>1, <2>1
<1>3. numAdded(chart) \in 0..(capacity - 1)
  <2>1. (ring.last - chart.lastAddedIdx) + capacity \in Int
    BY <1>1 DEF Windows
  <2> QED BY <2>1, PlaceFacts DEF numAdded
<1>4. CASE IsSet(chart, i)
  <2>1. c = [numBufVals |-> size, bufStart |-> Larger(0, ring.count - size),
             oldChrtIntv |-> i, lastAddedIdx |-> ring.last]
    BY <1>4 DEF getBufferStartNSize
  <2>2. size \in Nat /\ size <= ring.count /\ (size = ring.count \/ size = (t - MinFree) * i)
    BY <1>1, <1>2 DEF Smaller
  <2> HIDE DEF size
  <2>3. /\ c.numBufVals = size /\ c.bufStart = ring.count - size /\ c.oldChrtIntv = i
        /\ c.lastAddedIdx = PlaceOfLast(n)
    BY <1>1, <2>1, <2>2 DEF Larger
  <2>4. c.bufStart \in 0..capacity
    BY <1>1, <2>2, <2>3 DEF Smaller
  <2>5. c \in Windows
    BY <1>1, <2>1, <2>2, <2>3, <2>4 DEF Windows
  <2>6. Behind(c, n) = 0
    BY <1>1, <2>2, <2>3 DEF Behind
  <2>7. c.bufStart > 0 => SetWith(c, t) <= c.numBufVals
    BY <1>1, <1>2, <2>2, <2>3 DEF SetWith
  <2>8. n = 0 => c.bufStart = 0
    BY <1>1, <2>2, <2>3 DEF Smaller
  <2>9. Lags(c, n)
    BY <2>6, <2>7, <2>8 DEF Lags
  <2> QED BY <2>3, <2>5, <2>9
<1>5. CASE ~IsSet(chart, i)
  <2> DEFINE a == numAdded(chart)
  <2>1. c = [chart EXCEPT !.lastAddedIdx = ring.last, !.numBufVals = @ + a,
                          !.bufStart = IF isFull(ring) THEN Larger(0, @ - a) ELSE @]
    BY <1>5 DEF getBufferStartNSize
  <2>2. a \in Nat
    BY <1>3
  <2> HIDE DEF a
  <2>3. /\ chart.bufStart \in 0..capacity /\ chart.numBufVals \in Nat
        /\ chart.oldChrtIntv = i
    BY <1>1, <1>5 DEF IsSet, Windows
  <2>4. /\ c.lastAddedIdx = PlaceOfLast(n) /\ c.numBufVals = chart.numBufVals + a
        /\ c.bufStart = IF n >= capacity THEN Larger(0, chart.bufStart - a) ELSE chart.bufStart
        /\ c.oldChrtIntv = i
    BY <1>1, <2>1, <2>3 DEF Windows, isFull, Smaller
  <2>5. c.bufStart \in 0..capacity
    BY <1>1, <2>2, <2>3, <2>4 DEF Larger
  <2>6. c \in Windows
    <3>1. c = [bufStart |-> c.bufStart, numBufVals |-> c.numBufVals,
               lastAddedIdx |-> c.lastAddedIdx, oldChrtIntv |-> c.oldChrtIntv]
      BY <1>1, <2>1 DEF Windows
    <3>2. c.numBufVals \in Nat /\ c.lastAddedIdx \in 0..(capacity - 1)
      BY <1>1, <2>2, <2>3, <2>4
    <3> QED BY <2>4, <2>5, <3>1, <3>2, Zenon DEF Windows
  <2>7. ASSUME ~ (seen.lapped \/ samples - seen.samples >= capacity)
        PROVE  Lags(c, n)
    <3>1. a = IF d > 0 THEN n - d ELSE IF n = 0 THEN 0 ELSE n - 1
      BY <1>1, <2>7, AddedFacts DEF a
    <3>2. n - d < capacity
      BY <1>1, <2>7
    <3>3. Lags(chart, d)
      <4>1. chart.oldChrtIntv # 0
        BY <1>1, <2>3
      <4> QED BY <2>7, <4>1 DEF HistoryInv
    <3> DEFINE b == Behind(chart, d)
               e == Behind(c, n)
               u == chart.numBufVals
               w == chart.bufStart
    <3>4. \A s : SetWith(c, s) = SetWith(chart, s)
      BY <2>3, <2>4 DEF SetWith
    <3>5. \A s \in TimeAxes : SetWith(chart, s) \in Int
      BY <1>1, <2>3, HistoryFacts DEF SetWith
    <3>6. /\ b \in Int /\ e \in Int /\ w \in Nat /\ u \in Nat
          /\ b = Smaller(d, capacity) - w - u
          /\ e = (IF n >= capacity THEN capacity - Larger(0, w - a) ELSE n - w) - (u + a)
      BY <1>1, <2>2, <2>3, <2>4 DEF Behind, Smaller, Larger
    <3>7. /\ b <= 1 \/ \E s \in TimeAxes : b + SetWith(chart, s) <= u
          /\ d < capacity /\ w > 0 => b <= 0 /\ \E s \in TimeAxes : SetWith(chart, s) <= u
          /\ d < capacity => b <= 1
          /\ d = 0 => w = 0
      BY <3>3 DEF Lags
    <3> HIDE DEF b, e, u, w
    <3>8. CASE n < capacity
      <4>1. e <= 1 /\ (w > 0 => e <= 0)
        BY <1>1, <3>1, <3>6, <3>7, <3>8 DEF Smaller
      <4>2. w > 0 => \E s \in TimeAxes : SetWith(chart, s) <= u + a
        <5>1. d < capacity
          BY <1>1, <3>8
        <5> QED BY <2>2, <3>5, <3>6, <3>7, <5>1
      <4>3. c.bufStart = w /\ c.numBufVals = u + a
        BY <1>1, <2>4, <3>8 DEF w, u
      <4>4. n = 0 => w = 0
        BY <1>1, <3>7
      <4> QED BY <3>4, <4>1, <4>2, <4>3, <4>4 DEF Lags, e
    <3>9. CASE n >= capacity /\ d >= capacity
      <4>1. e <= b
        BY <1>1, <2>2, <3>1, <3>6, <3>9 DEF Smaller, Larger
      <4>2. e <= 1 \/ \E s \in TimeAxes : e + SetWith(chart, s) <= u + a
        BY <2>2, <3>5, <3>6, <3>7, <4>1
      <4>3. c.numBufVals = u + a
        BY <2>4 DEF u
      <4> QED BY <1>1, <3>4, <3>9, <4>2, <4>3 DEF Lags, e
    <3>10. CASE n >= capacity /\ d < capacity
      <4>1. d > 0 /\ a = n - d
        BY <1>1, <3>1, <3>2, <3>10
      <4>2. CASE w = 0
        <5>1. e <= 1
          BY <1>1, <2>2, <3>6, <3>7, <3>10, <4>1, <4>2 DEF Smaller, Larger
        <5> QED BY <1>1, <3>10, <5>1 DEF Lags, e
      <4>3. CASE w > 0
        <5>1. PICK s \in TimeAxes : SetWith(chart, s) <= u
          BY <3>7, <3>10, <4>3
        <5>2. e <= a
          BY <1>1, <2>2, <3>6, <3>7, <3>10, <4>1, <4>3 DEF Smaller, Larger
        <5>3. e + SetWith(chart, s) <= u + a
          BY <2>2, <3>5, <3>6, <5>1, <5>2
        <5>4. c.numBufVals = u + a
          BY <2>4 DEF u
        <5> QED BY <1>1, <3>4, <3>10, <5>3, <5>4 DEF Lags, e
      <4> QED BY <3>6, <4>2, <4>3
    <3> QED BY <1>1, <3>8, <3>9, <3>10
  <2> QED BY <1>5, <2>4, <2>6, <2>7
<1> QED BY <1>4, <1>5

-----------------------------------------------------------------------------
(* What is drawn                                                            *)

LinesOf(c) == c.numBufVals \div c.oldChrtIntv
PlaceOf(c, k) == c.bufStart + (k - 1) * c.oldChrtIntv

(* What get returns for a place p.                                          *)
ValueAt(p) ==
  IF p < Smaller(samples, capacity) THEN samples - Smaller(samples, capacity) + p + 1
  ELSE Invalid

LEMMA LineFacts ==
  ASSUME HistoryInv, NEW t \in TimeAxes, NEW c \in Windows, c.oldChrtIntv \in Intervals,
         NEW w, w = drawChartLines(c, t)
  PROVE  /\ LinesOf(c) \in Nat
         /\ c.numBufVals < (LinesOf(c) + 1) * c.oldChrtIntv
         /\ w.interval = c.oldChrtIntv
         /\ w.values \in Seq(0..MaxSamples)
         /\ DOMAIN w.values = 1..Len(w.values) /\ Len(w.values) = Smaller(LinesOf(c), t)
         /\ w.full <=> LinesOf(c) >= t
         /\ \A k \in 1..Len(w.values) :
              PlaceOf(c, k) \in Nat /\ w.values[k] = ValueAt(PlaceOf(c, k))
<1> DEFINE i == c.oldChrtIntv
           lines == LinesOf(c)
           len == Smaller(lines, t)
<1>1. /\ capacity \in Nat /\ samples \in 0..MaxSamples /\ MaxSamples \in Nat /\ t \in Nat
      /\ i \in Nat \ {0} /\ c.numBufVals \in Nat /\ c.bufStart \in Nat
      /\ Holds(ring, samples)
  <2>1. capacity \in Nat /\ MaxSamples \in Nat /\ t \in Nat /\ i \in Nat \ {0}
    BY HistoryFacts
  <2>2. c.numBufVals \in Nat /\ c.bufStart \in Nat
    BY <2>1 DEF Windows
  <2> QED BY <2>1, <2>2 DEF HistoryInv
<1>2. /\ w.values = [k \in 1..len |-> get(ring, PlaceOf(c, k))]
      /\ w.interval = i /\ w.full = (lines >= t)
  BY DEF drawChartLines, LinesOf, PlaceOf
<1>3. lines \in Nat /\ c.numBufVals < (lines + 1) * i
  <2> DEFINE r == c.numBufVals % i
             v == c.numBufVals
  <2>0. lines = v \div i /\ r = v % i /\ v \in Int
    BY <1>1 DEF LinesOf
  <2> HIDE DEF i, lines, r, v
  <2>1. r \in 0..(i - 1) /\ lines \in Int /\ v = i * lines + r
    BY <1>1, <2>0, QuotientFacts
  <2>2. \A q \in Int : q <= -1 => i * q <= -i
    BY <1>1
  <2>3. lines >= 0
    BY <1>1, <2>1, <2>2 DEF v
  <2>4. (lines + 1) * i = i * lines + i
    BY <1>1, <2>1
  <2> QED BY <1>1, <2>1, <2>3, <2>4 DEF v
<1> HIDE DEF lines, i
<1>4. len \in Nat
  BY <1>1, <1>3 DEF Smaller
<1> HIDE DEF len
<1>5. ASSUME NEW k \in 1..len
      PROVE  /\ PlaceOf(c, k) \in Nat /\ get(ring, PlaceOf(c, k)) = ValueAt(PlaceOf(c, k))
             /\ ValueAt(PlaceOf(c, k)) \in 0..MaxSamples
  <2> DEFINE p == PlaceOf(c, k)
  <2>1. p \in Nat
    <3> DEFINE j == k - 1
    <3>1. j \in Nat
      BY <1>4
    <3>2. p = c.bufStart + j * i
      BY DEF PlaceOf, i
    <3> HIDE DEF j, p
    <3>3. j * i \in Nat
      BY <1>1, <3>1
    <3> QED BY <1>1, <3>2, <3>3
  <2> HIDE DEF p
  <2>2. get(ring, p) = ValueAt(p)
    BY <1>1, <2>1, GetFacts DEF ValueAt
  <2>3. ValueAt(p) \in 0..MaxSamples
    BY <1>1, <2>1 DEF ValueAt, Invalid, Smaller
  <2> QED BY <2>1, <2>2, <2>3 DEF p
<1>6. w.values \in Seq(0..MaxSamples) /\ Len(w.values) = len /\ DOMAIN w.values = 1..len
  BY <1>2, <1>4, <1>5
<1>7. \A k \in 1..len : PlaceOf(c, k) \in Nat /\ w.values[k] = ValueAt(PlaceOf(c, k))
  BY <1>2, <1>5
<1> QED BY <1>2, <1>3, <1>6, <1>7 DEF lines, i, len

(* The values that are drawn are one interval apart, and if the chart has   *)
(* room left, the last one is as near to the newest as the window is.       *)
LEMMA DrawnFacts ==
  ASSUME HistoryInv, NEW t \in TimeAxes, NEW c \in Windows, c.oldChrtIntv \in Intervals,
         NEW w, w = drawChartLines(c, t),
         NEW lapped, ~lapped => Lags(c, samples)
  PROVE  UpToDate(w, lapped)
<1> DEFINE i == c.oldChrtIntv
           n == Smaller(samples, capacity)
           len == Len(w.values)
           lines == LinesOf(c)
<1>1. /\ samples \in Nat /\ n \in Nat /\ n <= samples /\ i \in Nat /\ i > 0 /\ t \in Nat
      /\ MinFree \in Nat
  <2>1. samples \in 0..MaxSamples /\ MaxSamples \in Nat /\ capacity \in Nat
    BY HistoryFacts DEF HistoryInv
  <2>2. n \in Nat /\ n <= samples
    BY <2>1 DEF Smaller
  <2>3. i \in Nat /\ i > 0 /\ t \in Nat /\ MinFree \in Nat
    BY HistoryFacts
  <2> HIDE DEF n, i
  <2> QED BY <2>1, <2>2, <2>3
<1>2. /\ lines \in Nat /\ c.numBufVals < (lines + 1) * i
      /\ w.interval = i
      /\ DOMAIN w.values = 1..len /\ len = Smaller(lines, t) /\ len \in Nat
      /\ w.full <=> lines >= t
      /\ \A k \in 1..len : PlaceOf(c, k) \in Nat /\ w.values[k] = ValueAt(PlaceOf(c, k))
  <2>1. Smaller(lines, t) \in Nat
    BY <1>1, LineFacts DEF Smaller
  <2> QED BY <2>1, LineFacts
<1>3. \A p \in Nat : /\ ValueAt(p) = IF p < n THEN samples - n + p + 1 ELSE Invalid
                     /\ ValueAt(p) # Invalid <=> p < n
  BY <1>1 DEF ValueAt, Invalid
<1>4. /\ c.numBufVals \in Nat /\ c.bufStart \in Nat /\ Behind(c, samples) = n - c.bufStart - c.numBufVals
  BY HistoryFacts DEF Windows, Behind
<1> HIDE DEF i, n, len, lines
<1>5. ASSUME NEW k \in Int PROVE PlaceOf(c, k + 1) = PlaceOf(c, k) + i
  <2>1. k * i = (k - 1) * i + i
    BY <1>1, <1>5
  <2>2. (k + 1) - 1 = k
    OBVIOUS
  <2>3. k * i \in Int /\ (k - 1) * i \in Int
    BY <1>1
  <2>4. PlaceOf(c, k + 1) = c.bufStart + k * i /\ PlaceOf(c, k) = c.bufStart + (k - 1) * i
    BY <2>2 DEF PlaceOf, i
  <2> QED BY <1>1, <1>4, <2>1, <2>3, <2>4
<1>6. ASSUME NEW k \in 1..(len - 1), w.values[k + 1] # Invalid
      PROVE  w.values[k] # Invalid /\ w.values[k + 1] = w.values[k] + i
  <2> DEFINE p == PlaceOf(c, k)
             q == PlaceOf(c, k + 1)
  <2>1. /\ p \in Nat /\ q \in Nat /\ w.values[k] = ValueAt(p) /\ w.values[k + 1] = ValueAt(q)
        /\ q = p + i
    <3>1. k \in 1..len /\ k + 1 \in 1..len /\ k \in Int
      BY <1>2
    <3> QED BY <1>2, <1>5, <3>1
  <2> HIDE DEF p, q
  <2>2. q < n
    BY <1>3, <1>6, <2>1
  <2> QED BY <1>1, <1>3, <2>1, <2>2
<1>7. ASSUME ~w.full, Lags(c, samples), NEW k \in 1..len, w.values[k] # Invalid,
             k = len \/ w.values[k + 1] = Invalid
      PROVE  \E s, u \in TimeAxes : samples - w.values[k] < (MinFree + 2 + u - s) * i
  <2> DEFINE p == PlaceOf(c, k)
             v == c.numBufVals
             b == Behind(c, samples)
  <2>1. /\ p \in Nat /\ w.values[k] = ValueAt(p) /\ p < n
        /\ w.values[k] = samples - n + p + 1
    BY <1>2, <1>3, <1>7
  <2>2. samples - w.values[k] = n - p - 1
    BY <1>1, <2>1
  <2>3. len = lines /\ lines < t
    BY <1>1, <1>2, <1>7 DEF Smaller
  <2>4. CASE k < len
    <3>1. k + 1 \in 1..len /\ PlaceOf(c, k + 1) = p + i
      <4>1. k \in Int /\ k + 1 \in 1..len
        BY <1>2, <2>4
      <4> QED BY <4>1, <1>5
    <3>2. ~ (p + i < n)
      BY <1>2, <1>3, <1>7, <2>4, <3>1
    <3>3. n - p - 1 < 2 * i
      BY <1>1, <2>1, <3>2
    <3>4. (MinFree + 2 + t - t) * i >= 2 * i
      <4>1. \A m, j \in Nat : (m + 2) * j >= 2 * j
        OBVIOUS
      <4>2. MinFree + 2 + t - t = MinFree + 2
        BY <1>1
      <4> QED BY <1>1, <4>1, <4>2
    <3>5. (MinFree + 2 + t - t) * i \in Int
      BY <1>1
    <3> HIDE DEF p
    <3>6. samples - w.values[k] < (MinFree + 2 + t - t) * i
      BY <1>1, <2>1, <2>2, <3>3, <3>4, <3>5
    <3> QED BY <3>6
  <2>5. CASE k = len
    <3> DEFINE x == (k - 1) * i
    <3>1. x \in Int /\ p = c.bufStart + x /\ (lines + 1) * i = x + 2 * i
      BY <1>1, <2>3, <2>5 DEF PlaceOf, i
    <3>2. v < x + 2 * i /\ v \in Nat /\ b = n - c.bufStart - v /\ b \in Int
      <4> HIDE DEF x
      <4> QED BY <1>1, <1>2, <1>4, <3>1
    <3> HIDE DEF x, p, v, b
    <3>3. n - p - 1 < b + 2 * i - 1
      BY <1>1, <1>4, <2>1, <3>1, <3>2
    <3>4. CASE b <= 1
      <4>1. n - p - 1 < 2 * i
        BY <1>1, <2>1, <3>2, <3>3, <3>4
      <4>2. (MinFree + 2 + t - t) * i >= 2 * i /\ (MinFree + 2 + t - t) * i \in Int
        <5>1. \A m, j \in Nat : (m + 2) * j >= 2 * j /\ (m + 2) * j \in Int
          OBVIOUS
        <5>2. MinFree + 2 + t - t = MinFree + 2
          BY <1>1
        <5> QED BY <1>1, <5>1, <5>2
      <4>3. samples - w.values[k] < (MinFree + 2 + t - t) * i
        BY <1>1, <2>1, <2>2, <4>1, <4>2
      <4> QED BY <4>3
    <3>5. CASE ~ (b <= 1)
      <4>1. PICK s \in TimeAxes : b + SetWith(c, s) <= v
        BY <1>7, <3>5 DEF Lags, b, v
      <4>2. s \in Nat /\ SetWith(c, s) = (s - MinFree) * i /\ SetWith(c, s) \in Int
        BY <1>1, HistoryFacts DEF SetWith, i
      <4>3. (MinFree + 2 + t - s) * i = t * i - (s - MinFree) * i + 2 * i
        BY <1>1, <4>2
      <4>4. x + 2 * i <= t * i
        <5>1. (lines + 1) * i <= t * i
          <6>1. \A a, e, j \in Nat : a <= e => a * j <= e * j
            OBVIOUS
          <6>2. lines + 1 \in Nat /\ lines + 1 <= t
            BY <1>1, <1>2, <2>3
          <6> QED BY <1>1, <6>1, <6>2
        <5> QED BY <3>1, <5>1
      <4>5. t * i \in Int /\ (MinFree + 2 + t - s) * i \in Int
        BY <1>1, <4>2
      <4>6. samples - w.values[k] < (MinFree + 2 + t - s) * i
        BY <1>1, <2>1, <2>2, <3>1, <3>2, <3>3, <4>1, <4>2, <4>3, <4>4, <4>5
      <4> QED BY <4>6
    <3> QED BY <3>4, <3>5
  <2> QED BY <1>7, <1>2, <2>4, <2>5
<1> QED BY <1>2, <1>6, <1>7 DEF i, len, UpToDate

-----------------------------------------------------------------------------
LEMMA InitHistoryInv == HistoryInit => HistoryInv
<1> SUFFICES ASSUME HistoryInit PROVE HistoryInv
  OBVIOUS
<1>1. /\ capacity \in Nat /\ capacity > 0 /\ MaxSamples \in Nat /\ capacity \in Nat \ {0}
      /\ 0 \in 0..(capacity - 1)
  BY HistoryFacts
<1>2. 0 % capacity = 0
  BY <1>1, RemainderSmall
<1>3. ring \in Rings
  BY <1>1 DEF HistoryInit, Rings, Invalid
<1>4. Holds(ring, 0)
  BY <1>1, <1>2, <1>3 DEF HistoryInit, Holds, Smaller, PlaceOfLast
<1>5. chart \in Windows
  BY <1>1 DEF HistoryInit, Windows
<1>6. drawn.values \in Seq(0..MaxSamples) /\ seen \in [samples : 0..samples, lapped : BOOLEAN]
  BY <1>1 DEF HistoryInit, Nothing
<1> QED BY <1>1, <1>4, <1>5, <1>6 DEF HistoryInit, HistoryInv, PlaceOfLast

LEMMA HandleKeeps == HistoryInv /\ handle => HistoryInv'
<1> SUFFICES ASSUME HistoryInv, handle PROVE HistoryInv'
  OBVIOUS
<1>1. /\ samples \in 0..(MaxSamples - 1) /\ samples' = samples + 1
      /\ ring' = add(ring, samples + 1) /\ UNCHANGED <<chart, drawn, seen>>
  BY HistoryFacts DEF HistoryInv, handle
<1>2. Holds(ring', samples')
  BY <1>1, AddHolds DEF HistoryInv
<1>3. samples' \in 0..MaxSamples
  BY <1>1, HistoryFacts
<1>4. seen' \in [samples : 0..samples', lapped : BOOLEAN]
  BY <1>1 DEF HistoryInv
<1> QED BY <1>1, <1>2, <1>3, <1>4 DEF HistoryInv

(* A display with the window c.                                             *)
LEMMA DisplayStep ==
  ASSUME HistoryInv, NEW t \in TimeAxes, NEW i \in Intervals, drawChrt(t, i),
         seen' = [samples |-> samples,
                  lapped  |-> /\ ~IsSet(chart, i)
                              /\ seen.lapped \/ samples - seen.samples >= capacity],
         UNCHANGED <<ring, samples>>
  PROVE  /\ HistoryInv'
         /\ \/ drawn' = Nothing
            \/ \E c \in Windows :
                 /\ c.oldChrtIntv = i /\ drawn' = drawChartLines(c, t)
                 /\ ~seen'.lapped => Lags(c, samples)
<1> DEFINE c == getBufferStartNSize(chart, t, i)
<1>1. /\ c \in Windows /\ c.oldChrtIntv = i /\ c.lastAddedIdx = PlaceOfLast(samples)
      /\ ~ (~IsSet(chart, i) /\ (seen.lapped \/ samples - seen.samples >= capacity))
         => Lags(c, samples)
  BY WindowFacts
<1>2. \/ /\ drawn' = drawChartLines(c, t)
         /\ chart' = [c EXCEPT !.oldChrtIntv = IF drawn'.full THEN 0 ELSE @]
      \/ drawn' = Nothing /\ chart' = c
  BY DEF drawChrt
<1> HIDE DEF c
<1>3. drawn'.values \in Seq(0..MaxSamples)
  <2>1. drawn' = drawChartLines(c, t) => drawn'.values \in Seq(0..MaxSamples)
    BY <1>1, LineFacts
  <2>2. drawn' = Nothing => drawn'.values = << >>
    BY DEF Nothing
  <2>3. << >> \in Seq(0..MaxSamples)
    OBVIOUS
  <2>4. CASE drawn' = Nothing
    BY <2>2, <2>3, <2>4, Zenon
  <2>5. CASE drawn' = drawChartLines(c, t)
    BY <2>1, <2>5, Zenon
  <2> QED BY <1>2, <2>4, <2>5, Zenon
<1>4. /\ chart' \in Windows /\ chart'.lastAddedIdx = PlaceOfLast(samples)
      /\ chart'.oldChrtIntv = 0 \/ chart' = c
  <2>1. ASSUME chart' = [c EXCEPT !.oldChrtIntv = IF drawn'.full THEN 0 ELSE @]
        PROVE  /\ chart' \in Windows /\ chart'.lastAddedIdx = PlaceOfLast(samples)
               /\ chart'.oldChrtIntv = 0 \/ chart' = c
    <3>1. CASE drawn'.full
      BY <1>1, <2>1, <3>1 DEF Windows
    <3>2. CASE ~drawn'.full
      <4>1. chart' = c
        BY <1>1, <2>1, <3>2 DEF Windows
      <4> QED BY <1>1, <4>1
    <3> QED BY <3>1, <3>2
  <2> QED BY <1>1, <1>2, <2>1
<1>5. seen' \in [samples : 0..samples, lapped : BOOLEAN] /\ seen'.samples = samples
      /\ (~seen'.lapped => Lags(c, samples))
  <2>1. samples \in 0..samples
    BY HistoryFacts DEF HistoryInv
  <2>2. (~IsSet(chart, i) /\ (seen.lapped \/ samples - seen.samples >= capacity)) \in BOOLEAN
    OBVIOUS
  <2> DEFINE lapped == ~IsSet(chart, i) /\ (seen.lapped \/ samples - seen.samples >= capacity)
  <2>3. seen' = [samples |-> samples, lapped |-> lapped] /\ lapped \in BOOLEAN
    OBVIOUS
  <2>4. ~lapped => Lags(c, samples)
    BY <1>1
  <2> HIDE DEF lapped
  <2> QED BY <2>1, <2>3, <2>4
<1>6. HistoryInv'
  <2>1. chart'.oldChrtIntv # 0 /\ ~seen'.lapped => Lags(chart', seen'.samples)
    BY <1>4, <1>5
  <2>2. samples' = samples /\ ring' = ring
    OBVIOUS
  <2> QED BY <1>3, <1>4, <1>5, <2>1, <2>2 DEF HistoryInv
<1>7. c \in Windows /\ c.oldChrtIntv = i /\ (~seen'.lapped => Lags(c, samples))
  BY <1>1, <1>5
<1> QED BY <1>2, <1>6, <1>7

LEMMA DisplayKeeps == HistoryInv /\ Display => HistoryInv'
BY DisplayStep DEF Display

LEMMA StepHistoryInv == HistoryInv /\ [HistoryNext]_historyVars => HistoryInv'
<1>1. HistoryInv /\ UNCHANGED historyVars => HistoryInv'
  BY DEF HistoryInv, historyVars, Lags, Behind, SetWith, Holds
<1> QED BY <1>1, HandleKeeps, DisplayKeeps DEF HistoryNext

LEMMA HistoryInvAlways == HistorySpec => []HistoryInv
BY InitHistoryInv, StepHistoryInv, PTL DEF HistorySpec

(* The ring, the window and what is drawn keep their types (RingBuffer::add,*)
(* Chart::getBufferStartNSize, drawChartLines).                             *)
THEOREM HistoryTyped == HistorySpec => []HistoryTypeOK
<1>1. HistoryInv => HistoryTypeOK
  <2> SUFFICES ASSUME HistoryInv PROVE HistoryTypeOK
    OBVIOUS
  <2>1. 0..samples \subseteq 0..MaxSamples
    BY HistoryFacts DEF HistoryInv
  <2>2. seen \in [samples : 0..MaxSamples, lapped : BOOLEAN]
    BY <2>1 DEF HistoryInv
  <2> QED BY <2>2 DEF HistoryInv, HistoryTypeOK, Holds, Rings, Windows
<1> QED BY <1>1, HistoryInvAlways, PTL

(* For a ring of any length, any axes and intervals and any hidden times, a *)
(* chart shows values one interval apart and does not lag behind by more    *)
(* than ChartKeepsUp says (Chart::getBufferStartNSize, RingBuffer::get).    *)
THEOREM ChartsKeepUp == HistorySpec => ChartKeepsUp
<1>1. HistoryInv /\ Display => UpToDate(drawn', seen'.lapped)
  <2> SUFFICES ASSUME HistoryInv, Display PROVE UpToDate(drawn', seen'.lapped)
    OBVIOUS
  <2>1. PICK t \in TimeAxes, i \in Intervals :
          \/ drawn' = Nothing
          \/ \E c \in Windows :
               /\ c.oldChrtIntv = i /\ drawn' = drawChartLines(c, t)
               /\ ~seen'.lapped => Lags(c, samples)
    BY DisplayStep DEF Display
  <2>2. CASE drawn' = Nothing
    BY <2>2 DEF Nothing, UpToDate
  <2>3. CASE drawn' # Nothing
    BY <2>1, <2>3, DrawnFacts
  <2> QED BY <2>2, <2>3
<1> QED BY <1>1, HistoryInvAlways, PTL DEF HistorySpec, ChartKeepsUp

-----------------------------------------------------------------------------
(* GwXDRMappings *)

-----------------------------------------------------------------------------
(* Look-ups *)

LEMMA FirstAndLast ==
  ASSUME NEW I \in SUBSET Nat
  PROVE  /\ FirstOf(I) \subseteq I /\ LastOf(I) \subseteq I
         /\ \A i, j \in FirstOf(I) : i = j
         /\ \A i, j \in LastOf(I) : i = j
BY DEF FirstOf, LastOf

LEMMA Only ==
  ASSUME NEW i \in Nat
  PROVE  FirstOf({i}) = {i} /\ LastOf({i}) = {i}
BY DEF FirstOf, LastOf

Places(I, inst) ==
  IF exact(I, inst) # {} THEN FirstOf(exact(I, inst)) ELSE candidates(I, inst)

Selected(i, inst) ==
  [def |-> table[i], inst |-> IF inst = NoNumber THEN table[i].inst ELSE inst]

LEMMA SelectedAt ==
  ASSUME NEW I, NEW inst
  PROVE  selectMapping(I, inst) = {Selected(i, inst) : i \in Places(I, inst)}
BY DEF selectMapping, Places, Selected

LEMMA PlacesFacts ==
  ASSUME NEW I \in SUBSET Nat, NEW inst
  PROVE  /\ Places(I, inst) \subseteq I
         /\ \A i, j \in Places(I, inst) : i = j
         /\ \A i \in Places(I, inst) :
              table[i].mode = "single" /\ inst # NoNumber =>
                \/ table[i].inst = inst
                \/ /\ exact(I, inst) = {}
                   /\ \A j \in I : table[j].mode = "auto" => j <= i
<1> DEFINE With(modes) == {i \in I : table[i].mode \in modes}
<1>1. exact(I, inst) \subseteq Nat /\ exact(I, inst) \subseteq I
  BY DEF exact
<1>2. With({"single", "ignore"}) \subseteq Nat /\ With({"single", "auto"}) \subseteq Nat
      /\ With({"ignore"}) \subseteq Nat
  OBVIOUS
<1>3. CASE exact(I, inst) # {}
  BY <1>1, <1>3, FirstAndLast DEF Places, exact
<1>4. CASE exact(I, inst) = {} /\ inst = NoNumber
  <2>1. Places(I, inst) = FirstOf(With({"single", "ignore"}))
    BY <1>4 DEF Places, candidates
  <2>2. /\ Places(I, inst) \subseteq With({"single", "ignore"})
        /\ \A i, j \in Places(I, inst) : i = j
    <3> DEFINE W == With({"single", "ignore"})
    <3>1. W \in SUBSET Nat /\ Places(I, inst) = FirstOf(W)
      BY <1>2, <2>1
    <3> HIDE DEF W
    <3>2. Places(I, inst) \subseteq W /\ \A i, j \in Places(I, inst) : i = j
      BY <3>1, FirstAndLast
    <3> QED BY <3>2 DEF W
  <2> QED BY <1>4, <2>2
<1>5. CASE exact(I, inst) = {} /\ inst # NoNumber /\ With({"single", "auto"}) # {}
  <2>1. Places(I, inst) = LastOf(With({"single", "auto"}))
    BY <1>5 DEF Places, candidates
  <2>2. \A i \in LastOf(With({"single", "auto"})) :
          \A j \in I : table[j].mode = "auto" => j <= i
    BY DEF LastOf
  <2>3. /\ Places(I, inst) \subseteq With({"single", "auto"})
        /\ \A i, j \in Places(I, inst) : i = j
    <3> DEFINE W == With({"single", "auto"})
    <3>1. W \in SUBSET Nat /\ Places(I, inst) = LastOf(W)
      BY <1>2, <2>1
    <3> HIDE DEF W
    <3>2. Places(I, inst) \subseteq W /\ \A i, j \in Places(I, inst) : i = j
      BY <3>1, FirstAndLast
    <3> QED BY <3>2 DEF W
  <2> QED BY <1>5, <2>1, <2>2, <2>3
<1>6. CASE exact(I, inst) = {} /\ inst # NoNumber /\ With({"single", "auto"}) = {}
  <2>1. Places(I, inst) = FirstOf(With({"ignore"}))
    BY <1>6 DEF Places, candidates
  <2>2. Places(I, inst) \subseteq With({"ignore"})
    BY <1>2, <2>1, FirstAndLast
  <2>3. \A i, j \in Places(I, inst) : i = j
    BY <1>2, <2>1, FirstAndLast
  <2> QED BY <2>2, <2>3
<1> QED BY <1>3, <1>4, <1>5, <1>6

TableOK == table \in Tables

LEMMA TableFacts ==
  ASSUME TableOK
  PROVE  /\ DOMAIN table \subseteq Nat
         /\ \A i \in DOMAIN table :
              table[i].mode \in {"single", "auto", "ignore"} /\ table[i].inst \in Instance
BY XdrAssumption DEF TableOK

Of(f) == {i \in DOMAIN table : table[i].field = f}
Named(name) == {i \in DOMAIN table : table[i].name = name}

(* At most one mapping is found, with the instance that was asked for.      *)
LEMMA N2kFound ==
  ASSUME TableOK, NEW f, NEW inst \in Instance, NEW m \in n2kMapping(f, inst)
  PROVE  \E i \in Places(Of(f), inst) :
           m.def = table[i] /\ m.inst = inst /\ i \in DOMAIN table /\ table[i].field = f
<1>1. PICK i \in Places(Of(f), inst) : m = Selected(i, inst)
  <2>1. n2kMapping(f, inst) = {Selected(i, inst) : i \in Places(Of(f), inst)}
    BY SelectedAt DEF n2kMapping, Of
  <2> QED BY <2>1
<1>2. inst # NoNumber
  BY XdrAssumption DEF NoNumber
<1>3. Of(f) \in SUBSET Nat
  BY TableFacts DEF Of
<1>4. i \in Of(f)
  BY <1>3, PlacesFacts
<1>5. m.def = table[i] /\ m.inst = inst
  BY <1>1, <1>2 DEF Selected
<1> QED BY <1>4, <1>5 DEF Of

LEMMA N183Found ==
  ASSUME TableOK, NEW t \in Transducer
  PROVE  /\ \A m, o \in n183Mapping(t) : m = o
         /\ \A m \in n183Mapping(t) : m.inst \in Instance
<1>1. CASE ~t.known
  BY <1>1 DEF n183Mapping
<1>2. CASE t.known
  <2>1. n183Mapping(t) = {Selected(i, t.inst) : i \in Places(Named(t.name), t.inst)}
    BY <1>2, SelectedAt DEF n183Mapping, Named
  <2>2. Named(t.name) \in SUBSET Nat /\ Named(t.name) \subseteq DOMAIN table
    BY TableFacts DEF Named
  <2>3. /\ Places(Named(t.name), t.inst) \subseteq Named(t.name)
        /\ \A i, j \in Places(Named(t.name), t.inst) : i = j
    BY <2>2, PlacesFacts
  <2>4. \A i \in Places(Named(t.name), t.inst) : Selected(i, t.inst).inst \in Instance
    <3>1. t.inst \in Instance \cup {NoNumber}
      BY XdrAssumption DEF NoNumber
    <3> QED BY <2>2, <2>3, <3>1, TableFacts DEF Selected
  <2>5. \A m \in n183Mapping(t) : \E i \in Places(Named(t.name), t.inst) : m = Selected(i, t.inst)
    BY <2>1
  <2> QED BY <2>3, <2>4, <2>5
<1> QED BY <1>1, <1>2

-----------------------------------------------------------------------------
(* The list of unmapped measurements *)

Measurement == Field \X Instance

LEMMA MeasurementsFinite ==
  ASSUME NEW S \in SUBSET Measurement
  PROVE  IsFiniteSet(S) /\ Cardinality(S) \in Nat
<1>1. IsFiniteSet(Field)
  BY FS_Interval, XdrAssumption DEF Field
<1>2. IsFiniteSet(Measurement)
  BY <1>1, FS_Product, XdrAssumption DEF Measurement
<1>3. IsFiniteSet(S)
  BY <1>2, FS_Subset
<1> QED BY <1>3, FS_CardinalityType

Before(asked, q) == {p \in asked : p[1] < q[1] \/ (p[1] = q[1] /\ p[2] < q[2])}
Taken(u, asked) ==
  {q \in asked : Cardinality(u \cup Measured(Before(asked, q))) < MaxUnknown}

(* The list never grows beyond its limit. The last measurement that is      *)
(* added found room for itself.                                             *)
LEMMA AddedUnknown ==
  ASSUME NEW u \in SUBSET Measurement, Cardinality(u) <= MaxUnknown,
         NEW n \in Nat, NEW asked \in SUBSET ((0..n) \X Field \X Instance),
         \A p, q \in asked : p[1] = q[1] /\ p[2] = q[2] => p = q
  PROVE  /\ addUnknown(u, asked) \subseteq Measurement
         /\ Cardinality(addUnknown(u, asked)) <= MaxUnknown
<1> DEFINE A == Taken(u, asked)
<1>1. addUnknown(u, asked) = u \cup Measured(A)
  BY DEF addUnknown, Taken, Before
<1>2. \A S \in SUBSET asked : Measured(S) \in SUBSET Measurement
  BY DEF Measured, Measurement
<1>3. A \in SUBSET asked
  BY DEF Taken
<1>4. addUnknown(u, asked) \in SUBSET Measurement
  BY <1>1, <1>2, <1>3
<1>5. CASE A = {}
  <2>1. Measured(A) = {}
    BY <1>5 DEF Measured
  <2> QED BY <1>1, <1>4, <2>1
<1>6. CASE A # {}
  <2> DEFINE At == {q[1] : q \in A}
  <2>1. PICK k \in At : \A l \in At : l <= k
    <3>1. At \in SUBSET (0..n) /\ At # {}
      BY <1>3, <1>6
    <3> HIDE DEF At
    <3> QED BY <3>1, SetMaximum
  <2> DEFINE FieldsAt == {q[2] : q \in {p \in A : p[1] = k}}
  <2>2. PICK f \in FieldsAt : \A g \in FieldsAt : g <= f
    <3>1. LastField \in Nat /\ FieldsAt \in SUBSET (0..LastField) /\ FieldsAt # {}
      BY <1>3, <2>1, XdrAssumption DEF Field
    <3> HIDE DEF FieldsAt
    <3> QED BY <3>1, SetMaximum
  <2>3. PICK q \in A : q[1] = k /\ q[2] = f
    BY <2>2
  <2>4. \A p \in A : p[1] \in Nat /\ p[2] \in Nat /\ q[1] \in Nat /\ q[2] \in Nat
    BY <1>3 DEF Field
  <2>5. \A p \in A : p \in Before(asked, q) \/ p = q
    <3> SUFFICES ASSUME NEW p \in A PROVE p \in Before(asked, q) \/ p = q
      OBVIOUS
    <3>1. p[1] <= q[1]
      BY <2>1, <2>3
    <3>2. p[1] = q[1] => p[2] <= q[2]
      BY <2>2, <2>3
    <3>3. p \in asked /\ q \in asked
      BY <1>3
    <3> QED BY <2>4, <3>1, <3>2, <3>3 DEF Before
  <2> DEFINE b == u \cup Measured(Before(asked, q))
             x == <<q[2], q[3]>>
  <2>6. b \in SUBSET Measurement /\ x \in Measurement
    <3>1. Before(asked, q) \in SUBSET asked
      BY DEF Before
    <3>2. q \in asked
      BY <1>3
    <3> QED BY <1>2, <3>1, <3>2 DEF Measurement
  <2>7. Cardinality(b) < MaxUnknown
    BY DEF Taken
  <2>8. u \cup Measured(A) \subseteq b \cup {x}
    BY <2>5 DEF Measured
  <2> HIDE DEF b, x
  <2>9. IsFiniteSet(b) /\ Cardinality(b) \in Nat
    BY <2>6, MeasurementsFinite
  <2>10. IsFiniteSet(b \cup {x}) /\ Cardinality(b \cup {x}) <= Cardinality(b) + 1
    <3>1. Cardinality(b \cup {x}) = IF x \in b THEN Cardinality(b) ELSE Cardinality(b) + 1
      BY <2>9, FS_AddElement
    <3>2. IsFiniteSet(b \cup {x})
      BY <2>9, FS_AddElement
    <3> QED BY <2>9, <3>1, <3>2
  <2>11. Cardinality(u \cup Measured(A)) <= Cardinality(b \cup {x})
    BY <2>8, <2>10, FS_Subset
  <2>12. Cardinality(u \cup Measured(A)) \in Nat /\ Cardinality(b \cup {x}) \in Nat
    BY <1>1, <1>4, <2>10, MeasurementsFinite, FS_CardinalityType
  <2>13. MaxUnknown \in Nat
    BY XdrAssumption
  <2>14. Cardinality(u \cup Measured(A)) <= MaxUnknown
    BY <2>7, <2>9, <2>10, <2>11, <2>12, <2>13
  <2> QED BY <1>1, <1>4, <2>14
<1> QED BY <1>5, <1>6

-----------------------------------------------------------------------------
(* Type correctness *)

Heard(s, r) == [i \in DOMAIN s |-> [transducer |-> s[i], value |-> Meaning(s[i], r[i])]]

LEMMA SentenceFacts ==
  ASSUME NEW s \in Sentences
  PROVE  \E k \in Nat : s \in [1..k -> Sendable]
BY DEF Sentences

LEMMA FoundFacts ==
  ASSUME TableOK, NEW k \in Nat, NEW s \in [1..k -> Sendable], NEW r, NEW its
  PROVE  \A m \in Found(Heard(s, r), its) :
           /\ \E c \in n183Mapping(s[m.at]) : m.inst = c.inst /\ m.list = fillFieldList(its, c)
           /\ m.at \in 1..k /\ m.inst \in Instance
           /\ \A o \in Found(Heard(s, r), its) : o.at = m.at => o.inst = m.inst
<1> DEFINE h == Heard(s, r)
           Message(i, c) == [at |-> i, inst |-> c.inst, field |-> c.def.field,
                             value |-> h[i].value, list |-> fillFieldList(its, c)]
<1>1. \A i \in DOMAIN h : i \in 1..k /\ h[i].transducer = s[i]
  BY DEF Heard
<1>2. \A m \in Found(h, its) :
        \E i \in 1..k : \E c \in n183Mapping(s[i]) : m = Message(i, c)
  BY <1>1 DEF Found, Stored
<1>3. \A i \in 1..k : s[i] \in Transducer
  BY DEF Sendable
<1> HIDE DEF h
<1>4. ASSUME NEW m \in Found(h, its)
      PROVE  \E c \in n183Mapping(s[m.at]) :
               /\ m.at \in 1..k /\ m.inst = c.inst /\ m.list = fillFieldList(its, c)
  BY <1>2
<1>5. ASSUME NEW m \in Found(h, its), NEW o \in Found(h, its), o.at = m.at
      PROVE  o.inst = m.inst
  <2>1. PICK c \in n183Mapping(s[m.at]) : m.at \in 1..k /\ m.inst = c.inst
    BY <1>4
  <2>2. PICK d \in n183Mapping(s[m.at]) : o.inst = d.inst
    BY <1>4, <1>5
  <2>3. c = d
    BY <1>3, <2>1, N183Found
  <2> QED BY <2>1, <2>2, <2>3
<1>6. \A m \in Found(h, its) : m.inst \in Instance
  BY <1>3, <1>4, N183Found
<1> QED BY <1>4, <1>5, <1>6 DEF h

XdrInv == XdrTypeOK /\ items = [n \in ItemName |-> items[n]]

LEMMA InitXdrInv == XdrInit => XdrInv
<1> SUFFICES ASSUME XdrInit PROVE XdrInv
  OBVIOUS
<1>1. Cardinality(unknown) = 0
  BY FS_EmptySet DEF XdrInit
<1>2. MaxUnknown \in Nat
  BY XdrAssumption
<1> QED BY <1>1, <1>2 DEF XdrInit, XdrInv, XdrTypeOK

LEMMA UnknownGrows ==
  ASSUME XdrTypeOK, NEW n \in Nat, NEW asked \in SUBSET ((0..n) \X Field \X Instance),
         \A p, q \in asked : p[1] = q[1] /\ p[2] = q[2] => p = q
  PROVE  /\ addUnknown(unknown, Unmapped(asked)) \subseteq Field \X Instance
         /\ Cardinality(addUnknown(unknown, Unmapped(asked))) <= MaxUnknown
<1> DEFINE a == Unmapped(asked)
<1>1. /\ a \in SUBSET ((0..n) \X Field \X Instance)
      /\ \A p, q \in a : p[1] = q[1] /\ p[2] = q[2] => p = q
  BY DEF Unmapped
<1>2. unknown \in SUBSET Measurement /\ Cardinality(unknown) <= MaxUnknown
  BY DEF XdrTypeOK, Measurement
<1> HIDE DEF a
<1>3. addUnknown(unknown, a) \subseteq Measurement /\ Cardinality(addUnknown(unknown, a)) <= MaxUnknown
  BY <1>1, <1>2, AddedUnknown
<1> QED BY <1>3 DEF a, Measurement

LEMMA StepXdrInv == XdrInv /\ [XdrNext]_xdrVars => XdrInv'
<1> SUFFICES ASSUME XdrInv, [XdrNext]_xdrVars PROVE XdrInv'
  OBVIOUS
<1> USE DEF XdrInv
<1>1. ASSUME NEW s \in Sentences, NEW r \in [DOMAIN s -> Reading], convertXDR(Heard(s, r))
      PROVE  XdrInv'
  <2> DEFINE h == Heard(s, r)
             its == ItemsAfter(h)
             asked == {<<m.at, f, m.inst>> : m \in Found(h, its), f \in Field}
  <2>1. PICK k \in Nat : s \in [1..k -> Sendable]
    BY SentenceFacts
  <2>2. TableOK /\ table' = table
    BY <1>1 DEF TableOK, XdrTypeOK, convertXDR
  <2>3. /\ asked \in SUBSET ((0..k) \X Field \X Instance)
        /\ \A p, q \in asked : p[1] = q[1] /\ p[2] = q[2] => p = q
    <3>1. \A m \in Found(h, its) :
            /\ m.at \in 0..k /\ m.inst \in Instance
            /\ \A o \in Found(h, its) : o.at = m.at => o.inst = m.inst
      BY <2>1, <2>2, FoundFacts
    <3> HIDE DEF h, its
    <3> QED BY <3>1
  <2>4. unknown' = addUnknown(unknown, Unmapped(asked))
    BY <1>1 DEF convertXDR
  <2>5. unknown' \subseteq Field \X Instance /\ Cardinality(unknown') <= MaxUnknown
    <3> HIDE DEF asked
    <3> QED BY <2>3, <2>4, UnknownGrows
  <2>6. /\ items' = [n \in ItemName |-> items'[n]]
        /\ \A n \in ItemName : items'[n] # NoItem => items'[n].source \in {Bus, Channel}
    <3>1. items' = ItemsAfter(h)
      BY <1>1 DEF convertXDR
    <3>2. \A n \in ItemName : items'[n] = items[n] \/ items'[n].source = Channel
      BY <3>1 DEF ItemsAfter
    <3> HIDE DEF h
    <3>3. items' = [n \in ItemName |-> items'[n]]
      BY <3>1 DEF ItemsAfter
    <3> QED BY <3>2, <3>3 DEF XdrTypeOK
  <2>7. sent'.entries = {}
    BY <1>1 DEF convertXDR
  <2> QED BY <2>2, <2>5, <2>6, <2>7 DEF XdrTypeOK, TableOK
<1>2. ASSUME NEW inst \in Instance, NEW given \in SUBSET Field \ {{}}, NEW r \in Reading,
             HandleN2k(inst, given, r)
      PROVE  XdrInv'
  <2> DEFINE asked == {<<0, f, inst>> : f \in given}
  <2>1. /\ asked \in SUBSET ((0..0) \X Field \X Instance)
        /\ \A p, q \in asked : p[1] = q[1] /\ p[2] = q[2] => p = q
    OBVIOUS
  <2>2. unknown' = addUnknown(unknown, Unmapped(asked))
    BY <1>2 DEF HandleN2k
  <2>3. unknown' \subseteq Field \X Instance /\ Cardinality(unknown') <= MaxUnknown
    <3> HIDE DEF asked
    <3> QED BY <2>1, <2>2, UnknownGrows
  <2>4. /\ items' = [n \in ItemName |-> items'[n]]
        /\ \A n \in ItemName : items'[n] = items[n] \/ items'[n].source = Bus
    BY <1>2 DEF HandleN2k
  <2>5. sent'.messages = {} /\ table' = table
    BY <1>2 DEF HandleN2k
  <2> QED BY <2>3, <2>4, <2>5 DEF XdrTypeOK
<1>3. CASE TimesOut
  <2>1. PICK n \in ItemName : items' = [items EXCEPT ![n] = NoItem]
    BY <1>3 DEF TimesOut
  <2>2. /\ items' = [k \in ItemName |-> items'[k]]
        /\ \A k \in ItemName : items'[k] = items[k] \/ items'[k] = NoItem
    BY <2>1
  <2> QED BY <1>3, <2>2 DEF TimesOut, XdrTypeOK
<1>4. CASE UNCHANGED xdrVars
  BY <1>4 DEF xdrVars, XdrTypeOK
<1> QED BY <1>1, <1>2, <1>3, <1>4 DEF XdrNext, Heard

LEMMA XdrInvAlways == XdrSpec => []XdrInv
BY InitXdrInv, StepXdrInv, PTL DEF XdrSpec

(* Boat items of transducers have a value of the bus or of a channel, a     *)
(* conversion sends in one direction only, and the list of measurements     *)
(* without a mapping never exceeds its limit, however many of them a single *)
(* sentence or message asks for (addUnknown).                               *)
THEOREM XdrTyped == XdrSpec => []XdrTypeOK
<1>1. XdrInv => XdrTypeOK
  BY DEF XdrInv
<1> QED BY <1>1, XdrInvAlways, PTL

-----------------------------------------------------------------------------
(* Instances *)

Ignored(f) == \E i \in DOMAIN table : table[i].field = f /\ table[i].mode = "ignore"

(* The instance that the name n is for, if the mapping i has it.            *)
InstanceOf(i, n) == IF table[i].mode = "single" THEN table[i].inst ELSE n[2]

(* Every item has a value of the instance its name is for.                  *)
Own(its) ==
  \A n \in ItemName, i \in DOMAIN table :
    its[n] # NoItem /\ table[i].name = n[1]
      => Fits(its[n].data, table[i].field, InstanceOf(i, n))

LEMMA SelectedName ==
  ASSUME TableOK, EveryInstanceMapped, NEW f, NEW inst \in Instance,
         NEW m \in n2kMapping(f, inst)
  PROVE  \E i \in DOMAIN table :
           /\ m.def = table[i] /\ m.inst = inst /\ table[i].field = f
           /\ getTransducerName(m) \in ItemName
           /\ getTransducerName(m)[1] = table[i].name
           /\ InstanceOf(i, getTransducerName(m)) = inst \/ Ignored(f)
<1>1. PICK i \in Places(Of(f), inst) :
        m.def = table[i] /\ m.inst = inst /\ i \in DOMAIN table /\ table[i].field = f
  BY N2kFound
<1>2. getTransducerName(m) = <<table[i].name, IF table[i].mode = "auto" THEN inst ELSE NoNumber>>
  BY <1>1 DEF getTransducerName
<1>3. getTransducerName(m) \in ItemName
  <2>1. table[i].name \in XdrName
    <3> DEFINE names == {table[j].name : j \in DOMAIN table}
    <3>1. table[i].name \in names
      BY <1>1
    <3>2. names \in {{t[j].name : j \in DOMAIN t} : t \in Tables}
      BY DEF TableOK
    <3> HIDE DEF names
    <3> QED BY <3>1, <3>2 DEF XdrName
  <2> QED BY <1>2, <2>1 DEF ItemName
<1>4. InstanceOf(i, getTransducerName(m)) = inst \/ Ignored(f)
  <2>1. CASE table[i].mode = "auto"
    BY <1>2, <2>1 DEF InstanceOf
  <2>2. CASE table[i].mode = "ignore"
    BY <1>1, <2>2 DEF Ignored
  <2>3. CASE table[i].mode = "single"
    <3>1. InstanceOf(i, getTransducerName(m)) = table[i].inst
      BY <2>3 DEF InstanceOf
    <3>2. inst # NoNumber /\ Of(f) \in SUBSET Nat
      BY XdrAssumption, TableFacts DEF NoNumber, Of
    <3>3. \/ table[i].inst = inst
          \/ exact(Of(f), inst) = {} /\ \A j \in Of(f) : table[j].mode = "auto" => j <= i
      BY <1>1, <2>3, <3>2, PlacesFacts
    <3>4. PICK j \in DOMAIN table :
            /\ table[j].field = f
            /\ \/ table[j].mode = "single" /\ table[j].inst = inst
               \/ table[j].mode = "auto" /\ i < j
               \/ table[j].mode = "ignore"
      BY <1>1, <2>3 DEF EveryInstanceMapped, TableOK
    <3>5. j \in Of(f) /\ i \in Nat /\ j \in Nat
      BY <1>1, <3>4, TableFacts DEF Of
    <3>6. CASE exact(Of(f), inst) = {} /\ \A k \in Of(f) : table[k].mode = "auto" => k <= i
      BY <3>4, <3>5, <3>6 DEF Ignored, exact
    <3> QED BY <3>1, <3>3, <3>6
  <2> QED BY <1>1, <2>1, <2>2, <2>3, TableFacts
<1> QED BY <1>1, <1>2, <1>3, <1>4

(* What other devices send is found if its name is mapped, and means what   *)
(* the mapping means.                                                       *)
LEMMA SentFound ==
  ASSUME TableOK, NamesApart, NEW t \in Sendable, t.known,
         NEW i \in DOMAIN table, table[i].name = t.name
  PROVE  n183Mapping(t) = {Selected(i, t.inst)}
<1>1. Named(t.name) = {i} /\ i \in Nat
  BY TableFacts DEF NamesApart, TableOK, Named
<1>2. n183Mapping(t) = {Selected(j, t.inst) : j \in Places({i}, t.inst)}
  BY <1>1, SelectedAt DEF n183Mapping, Named
<1>3. /\ table[i].mode \in {"single", "auto", "ignore"} /\ table[i].inst \in Nat
      /\ t.inst # NoNumber <=> table[i].mode = "auto"
  BY XdrAssumption, TableFacts DEF Sendable
<1>4. exact({i}, t.inst) = {}
  BY <1>3 DEF exact, NoNumber
<1>5. candidates({i}, t.inst) = {i}
  <2>1. CASE t.inst = NoNumber
    <3>1. {j \in {i} : table[j].mode \in {"single", "ignore"}} = {i}
      BY <1>3, <2>1
    <3> QED BY <1>1, <2>1, <3>1, Only DEF candidates
  <2>2. CASE t.inst # NoNumber
    <3>1. {j \in {i} : table[j].mode \in {"single", "auto"}} = {i}
      BY <1>3, <2>2
    <3> QED BY <1>1, <2>2, <3>1, Only DEF candidates
  <2> QED BY <2>1, <2>2
<1> QED BY <1>2, <1>4, <1>5 DEF Places

LEMMA SentName ==
  ASSUME TableOK, NamesApart, NEW t \in Sendable, NEW r, NEW i \in DOMAIN table,
         unmappedXdr \/ n183Mapping(t) # {}, table[i].name = ItemOf(t)[1]
  PROVE  Fits(Meaning(t, r), table[i].field, InstanceOf(i, ItemOf(t)))
<1> t \in Transducer
  BY DEF Sendable
<1>1. t.known /\ table[i].name = t.name
  <2>1. CASE n183Mapping(t) = {}
    <3>1. ItemOf(t)[1] = t.name
      BY <2>1 DEF ItemOf
    <3> QED BY <2>1, <3>1 DEF NamesApart, TableOK
  <2>2. CASE n183Mapping(t) # {}
    <3>1. t.known
      BY <2>2 DEF n183Mapping
    <3>2. PICK m \in n183Mapping(t) : ItemOf(t) = getTransducerName(m)
      BY <2>2 DEF ItemOf
    <3>3. Named(t.name) \in SUBSET Nat
      BY TableFacts DEF Named
    <3>4. n183Mapping(t) = {Selected(j, t.inst) : j \in Places(Named(t.name), t.inst)}
      BY <3>1, SelectedAt DEF n183Mapping, Named
    <3>5. PICK j \in Named(t.name) : m = Selected(j, t.inst)
      <4>1. Places(Named(t.name), t.inst) \subseteq Named(t.name)
        BY <3>3, PlacesFacts
      <4> QED BY <3>2, <3>4, <4>1
    <3>6. ItemOf(t)[1] = t.name
      BY <3>2, <3>5 DEF getTransducerName, Selected, Named
    <3> QED BY <3>1, <3>6
  <2> QED BY <2>1, <2>2
<1>2. n183Mapping(t) = {Selected(i, t.inst)}
  BY <1>1, SentFound
<1>3. ItemOf(t) = getTransducerName(Selected(i, t.inst))
  BY <1>2 DEF ItemOf
<1>4. {j \in DOMAIN table : t.known /\ table[j].name = t.name} = {i} /\ i \in Nat
  BY <1>1, TableFacts DEF NamesApart, TableOK
<1>5. /\ Meaning(t, r).field = table[i].field
      /\ Meaning(t, r).inst = IF table[i].mode = "single" THEN table[i].inst ELSE t.inst
  <2> DEFINE of == {j \in DOMAIN table : t.known /\ table[j].name = t.name}
             m == table[CHOOSE j \in FirstOf(of) : TRUE]
  <2>1. FirstOf(of) = {i}
    BY <1>4, Only
  <2>2. m = table[i]
    BY <2>1
  <2>3. of # {}
    BY <1>4
  <2>4. Meaning(t, r) = [field |-> m.field, inst |-> IF m.mode = "single" THEN m.inst ELSE t.inst,
                         reading |-> r]
    BY <2>3 DEF Meaning
  <2> HIDE DEF m
  <2> QED BY <2>2, <2>4
<1>6. CASE table[i].mode = "single"
  BY <1>5, <1>6 DEF Fits, InstanceOf
<1>7. CASE table[i].mode = "auto"
  <2>1. t.inst # NoNumber
    BY <1>1, <1>7 DEF Sendable
  <2>2. ItemOf(t)[2] = t.inst
    BY <1>3, <1>7, <2>1 DEF getTransducerName, Selected
  <2> QED BY <1>5, <1>7, <2>2 DEF Fits, InstanceOf
<1>8. CASE table[i].mode = "ignore"
  BY <1>5, <1>8 DEF Fits
<1> QED BY <1>6, <1>7, <1>8, TableFacts

LEMMA FieldsFit ==
  ASSUME TableOK, EveryInstanceMapped, NEW its, Own(its), NEW c, c.inst \in Instance,
         NEW f, getOtherFieldValue(its, c, f) # NoValue
  PROVE  Fits(getOtherFieldValue(its, c, f), f, c.inst)
<1>1. PICK o \in n2kMapping(f, c.inst) :
        getOtherFieldValue(its, c, f) = its[getTransducerName(o)].data
  BY DEF getOtherFieldValue
<1> DEFINE n == getTransducerName(o)
<1>2. PICK i \in DOMAIN table :
        /\ n \in ItemName /\ n[1] = table[i].name /\ table[i].field = f
        /\ InstanceOf(i, n) = c.inst \/ Ignored(f)
  BY SelectedName
<1> HIDE DEF n
<1>3. its[n] # NoItem
  BY <1>1 DEF NoItem, n
<1>4. Fits(its[n].data, f, InstanceOf(i, n))
  BY <1>2, <1>3 DEF Own
<1>5. Fits(its[n].data, f, c.inst)
  BY <1>2, <1>4 DEF Fits, Ignored
<1> QED BY <1>1, <1>5 DEF n

LEMMA AfterOwn ==
  ASSUME TableOK, NamesApart, Own(items),
         NEW k \in Nat, NEW s \in [1..k -> Sendable], NEW r
  PROVE  Own(ItemsAfter(Heard(s, r)))
<1> DEFINE h == Heard(s, r)
           its == ItemsAfter(h)
           As(n) == {j \in Stored(h) : ItemOf(h[j].transducer) = n}
<1> SUFFICES ASSUME NEW n \in ItemName, NEW i \in DOMAIN table,
                    its[n] # NoItem, table[i].name = n[1]
             PROVE  Fits(its[n].data, table[i].field, InstanceOf(i, n))
  BY DEF Own
<1>1. DOMAIN h = 1..k /\ \A j \in 1..k : h[j] = [transducer |-> s[j], value |-> Meaning(s[j], r[j])]
  BY DEF Heard
<1>2. its[n] = IF As(n) = {} THEN items[n]
               ELSE [data |-> h[CHOOSE j \in LastOf(As(n)) : TRUE].value, source |-> Channel]
  <2> DEFINE stored == [j \in Stored(h) |-> ItemOf(h[j].transducer)]
             Here == {j \in DOMAIN stored : stored[j] = n}
  <2>1. Here = As(n)
    OBVIOUS
  <2>2. (\A j \in DOMAIN stored : stored[j] # n) <=> As(n) = {}
    OBVIOUS
  <2>3. its[n] = IF \A j \in DOMAIN stored : stored[j] # n THEN items[n]
                 ELSE [data |-> h[CHOOSE j \in LastOf(Here) : TRUE].value, source |-> Channel]
    BY DEF ItemsAfter
  <2> HIDE DEF Here, As
  <2> QED BY <2>1, <2>2, <2>3
<1>3. CASE As(n) = {}
  BY <1>2, <1>3 DEF Own
<1>4. CASE As(n) # {}
  <2>1. As(n) \in SUBSET (0..k)
    BY <1>1 DEF Stored
  <2>2. PICK j \in LastOf(As(n)) : its[n].data = h[j].value
    <3>1. LastOf(As(n)) # {}
      <4> HIDE DEF As
      <4>1. \E j \in As(n) : \A l \in As(n) : l <= j
        BY <1>4, <2>1, SetMaximum
      <4> QED BY <4>1 DEF LastOf
    <3> DEFINE last == CHOOSE j \in LastOf(As(n)) : TRUE
    <3>2. last \in LastOf(As(n))
      BY <3>1
    <3>3. its[n] = [data |-> h[last].value, source |-> Channel]
      BY <1>2, <1>4
    <3> HIDE DEF last, its, As
    <3>4. its[n].data = h[last].value
      BY <3>3
    <3> QED BY <3>2, <3>4
  <2>3. j \in Stored(h) /\ ItemOf(h[j].transducer) = n
    BY <2>2 DEF LastOf
  <2>4. /\ j \in 1..k /\ h[j].transducer = s[j] /\ h[j].value = Meaning(s[j], r[j])
        /\ unmappedXdr \/ n183Mapping(s[j]) # {}
    BY <1>1, <2>3 DEF Stored
  <2>5. s[j] \in Sendable /\ ItemOf(s[j]) = n
    BY <2>3, <2>4
  <2>6. Fits(Meaning(s[j], r[j]), table[i].field, InstanceOf(i, n))
    BY <2>4, <2>5, SentName
  <2> QED BY <2>2, <2>4, <2>6
<1> QED BY <1>3, <1>4

XdrKept == XdrInv /\ Own(items) /\ InstancesKept

LEMMA InitXdrKept == XdrInit => XdrKept
<1> SUFFICES ASSUME XdrInit PROVE XdrKept
  OBVIOUS
<1>1. \A n \in ItemName : items[n] = NoItem
  BY DEF XdrInit
<1>2. Own(items)
  BY <1>1 DEF Own
<1>3. InstancesKept
  BY DEF XdrInit, InstancesKept, NothingSent
<1> QED BY <1>2, <1>3, InitXdrInv DEF XdrKept

LEMMA HeardKeeps ==
  ASSUME XdrKept, EveryInstanceMapped, NamesApart,
         NEW s \in Sentences, NEW r \in [DOMAIN s -> Reading], convertXDR(Heard(s, r))
  PROVE  Own(items)' /\ InstancesKept'
<1> DEFINE its == ItemsAfter(Heard(s, r))
<1>1. PICK k \in Nat : s \in [1..k -> Sendable]
  BY SentenceFacts
<1>2. TableOK /\ table' = table /\ items' = its /\ sent'.entries = {}
  BY DEF XdrKept, XdrInv, TableOK, XdrTypeOK, convertXDR
<1>3. sent'.messages \subseteq Found(Heard(s, r), its)
  BY DEF convertXDR, send
<1>4. Own(its)
  BY <1>1, <1>2, AfterOwn DEF XdrKept
<1>5. ASSUME NEW m \in sent'.messages, NEW f \in Field, m.list[f] # NoValue
      PROVE  Fits(m.list[f], f, m.inst)
  <2>1. m.inst \in Instance /\
          \E c \in n183Mapping(s[m.at]) : m.inst = c.inst /\ m.list = fillFieldList(its, c)
    BY <1>1, <1>2, <1>3, FoundFacts
  <2>2. PICK c : m.inst = c.inst /\ m.list = fillFieldList(its, c)
    BY <2>1
  <2>3. m.list[f] = getOtherFieldValue(its, c, f)
    BY <2>2 DEF fillFieldList
  <2> HIDE DEF its
  <2> QED BY <1>2, <1>4, <1>5, <2>1, <2>2, <2>3, FieldsFit
<1> HIDE DEF its
<1>6. Own(items)'
  BY <1>2, <1>4 DEF Own, Fits, InstanceOf
<1>7. InstancesKept'
  BY <1>2, <1>5 DEF InstancesKept, Fits
<1> QED BY <1>6, <1>7

LEMMA BusKeeps ==
  ASSUME XdrKept, EveryInstanceMapped, NamesApart,
         NEW inst \in Instance, NEW given \in SUBSET Field, NEW r, HandleN2k(inst, given, r)
  PROVE  Own(items)' /\ InstancesKept'
<1> DEFINE Entry(m) == [name |-> getTransducerName(m),
                        value |-> [field |-> m.def.field, inst |-> inst, reading |-> r]]
           entries == {Entry(m) : m \in UNION {n2kMapping(f, inst) : f \in given}}
<1>1. TableOK /\ table' = table /\ sent'.messages = {} /\ sent'.entries \subseteq entries
  BY DEF XdrKept, XdrInv, TableOK, XdrTypeOK, HandleN2k
<1>2. ASSUME NEW e \in entries
      PROVE  \E i \in DOMAIN table :
               e.name[1] = table[i].name /\ Fits(e.value, table[i].field, InstanceOf(i, e.name))
  <2>1. PICK f \in given : \E m \in n2kMapping(f, inst) : e = Entry(m)
    OBVIOUS
  <2>2. PICK m \in n2kMapping(f, inst) : e = Entry(m)
    BY <2>1
  <2>3. PICK i \in DOMAIN table :
          /\ m.def = table[i] /\ table[i].field = f
          /\ getTransducerName(m)[1] = table[i].name
          /\ InstanceOf(i, getTransducerName(m)) = inst \/ Ignored(f)
    BY <1>1, SelectedName
  <2> QED BY <2>2, <2>3 DEF Fits, Ignored
<1>3. \A n \in ItemName :
        items'[n] = items[n] \/ \E e \in entries : e.name = n /\ items'[n].data = e.value
  BY DEF HandleN2k
<1> HIDE DEF entries
<1>4. ASSUME NEW n \in ItemName, NEW i \in DOMAIN table,
             items'[n] # NoItem, table[i].name = n[1]
      PROVE  Fits(items'[n].data, table[i].field, InstanceOf(i, n))
  <2>1. CASE items'[n] = items[n]
    BY <1>4, <2>1 DEF XdrKept, Own
  <2>2. CASE \E e \in entries : e.name = n /\ items'[n].data = e.value
    <3>1. PICK e \in entries : e.name = n /\ items'[n].data = e.value
      BY <2>2
    <3>2. PICK j \in DOMAIN table :
            n[1] = table[j].name /\ Fits(e.value, table[j].field, InstanceOf(j, n))
      BY <1>2, <3>1
    <3>3. j = i
      BY <1>1, <1>4, <3>2 DEF NamesApart, TableOK
    <3> QED BY <3>1, <3>2, <3>3
  <2> QED BY <1>3, <2>1, <2>2
<1>5. Own(items)'
  BY <1>1, <1>4 DEF Own, Fits, InstanceOf
<1>6. InstancesKept'
  BY <1>1, <1>2 DEF InstancesKept, Fits, InstanceOf
<1> QED BY <1>5, <1>6

LEMMA StepXdrKept ==
  EveryInstanceMapped /\ NamesApart /\ XdrKept /\ [XdrNext]_xdrVars => XdrKept'
<1> SUFFICES ASSUME EveryInstanceMapped, NamesApart, XdrKept, [XdrNext]_xdrVars
             PROVE  XdrKept'
  OBVIOUS
<1>1. XdrInv'
  BY StepXdrInv DEF XdrKept
<1>2. ASSUME NEW s \in Sentences, NEW r \in [DOMAIN s -> Reading], convertXDR(Heard(s, r))
      PROVE  Own(items)' /\ InstancesKept'
  BY <1>2, HeardKeeps
<1>3. ASSUME NEW inst \in Instance, NEW given \in SUBSET Field \ {{}}, NEW r \in Reading,
             HandleN2k(inst, given, r)
      PROVE  Own(items)' /\ InstancesKept'
  BY <1>3, BusKeeps
<1>4. ASSUME TimesOut
      PROVE  Own(items)' /\ InstancesKept'
  <2>1. \A n \in ItemName : items'[n] = items[n] \/ items'[n] = NoItem
    BY <1>4 DEF TimesOut, XdrKept, XdrInv
  <2>2. table' = table /\ sent' = NothingSent
    BY <1>4 DEF TimesOut
  <2>3. Own(items)'
    BY <2>1, <2>2 DEF XdrKept, Own, Fits, InstanceOf
  <2> QED BY <2>2, <2>3 DEF InstancesKept, NothingSent
<1>5. ASSUME UNCHANGED xdrVars
      PROVE  Own(items)' /\ InstancesKept'
  BY <1>5 DEF xdrVars, XdrKept, Own, InstancesKept, Fits, InstanceOf
<1> QED BY <1>1, <1>2, <1>3, <1>4, <1>5 DEF XdrNext, Heard, XdrKept

(* Values of different instances are never mixed up, in either direction    *)
(* (handleN2k of the PGNs with XDR, convertXDR with getOtherFieldMapping),  *)
(* for every table in which selectMapping finds a mapping of the instance   *)
(* itself wherever it would fall through to a single one of another.        *)
THEOREM InstancesStay ==
  EveryInstanceMapped /\ NamesApart => (XdrSpec => []InstancesKept)
<1> SUFFICES ASSUME EveryInstanceMapped, NamesApart PROVE XdrSpec => []InstancesKept
  OBVIOUS
<1>1. XdrKept => InstancesKept
  BY DEF XdrKept
<1>2. XdrKept /\ [XdrNext]_xdrVars => XdrKept'
  BY StepXdrKept
<1> QED BY <1>1, <1>2, InitXdrKept, PTL DEF XdrSpec

(* What doc/XdrMappings.md says of a single mapping, that exactly its       *)
(* instance is mapped to its name, is true of such tables, if no mapping    *)
(* asks selectMapping to ignore the instance of the same field.             *)
NoneIgnored ==
  \A t \in Tables : \A i, j \in DOMAIN t :
    t[i].mode = "single" /\ t[j].mode = "ignore" => t[i].field # t[j].field

THEOREM SingleNamesApart ==
  EveryInstanceMapped /\ NamesApart /\ NoneIgnored => (XdrSpec => []OnlyThisInstance)
<1> SUFFICES ASSUME EveryInstanceMapped, NamesApart, NoneIgnored
             PROVE  XdrSpec => []OnlyThisInstance
  OBVIOUS
<1>1. XdrInv /\ InstancesKept => OnlyThisInstance
  <2> SUFFICES ASSUME XdrInv, InstancesKept, NEW e \in sent.entries, NEW i \in DOMAIN table,
                      table[i].name = e.name[1], table[i].mode = "single"
               PROVE  e.value.inst = table[i].inst
    BY DEF OnlyThisInstance
  <2>1. table \in Tables
    BY DEF XdrInv, XdrTypeOK
  <2>2. PICK j \in DOMAIN table :
          /\ table[j].name = e.name[1]
          /\ Fits(e.value, table[j].field,
                  IF table[j].mode = "single" THEN table[j].inst ELSE e.name[2])
    BY DEF InstancesKept
  <2>3. j = i
    BY <2>1, <2>2 DEF NamesApart
  <2>4. \A k \in DOMAIN table : table[k].field = table[i].field => table[k].mode # "ignore"
    BY <2>1 DEF NoneIgnored
  <2> QED BY <2>2, <2>3, <2>4 DEF Fits
<1> QED BY <1>1, XdrInvAlways, InstancesStay, PTL

-----------------------------------------------------------------------------
(* The four together *)

(* A step of one of them leaves the others alone.                           *)
LEMMA ValuesApart == ValuesSpec => Spec /\ AlarmSpec /\ HistorySpec /\ XdrSpec
<1> DEFINE AnyStep == BoatData \/ Alarms \/ History \/ Xdr
<1>1. ValuesInit => Init /\ AlarmInit /\ HistoryInit /\ XdrInit
  BY DEF ValuesInit
<1>2. [AnyStep]_valueVars =>
        [Next]_vars /\ [AlarmNext]_alarmVars /\ [HistoryNext]_historyVars /\ [XdrNext]_xdrVars
  BY DEF BoatData, Alarms, History, Xdr, valueVars
<1>3. ValuesSpec => ValuesInit /\ [][AnyStep]_valueVars
  <2> HIDE DEF AnyStep
  <2> QED BY PTL DEF ValuesSpec, AnyStep
<1> HIDE DEF AnyStep
<1> QED BY <1>1, <1>2, <1>3, PTL DEF Spec, AlarmSpec, HistorySpec, XdrSpec

(* The boat data, the alarms, their history and the transducers keep their  *)
(* types, whatever each of them does, until the clock starts again.         *)
THEOREM ValuesTyped == ValuesSpec => []ValuesTypeOK
<1>1. TypeOK /\ AlarmTypeOK /\ HistoryTypeOK /\ XdrTypeOK => ValuesTypeOK
  BY DEF ValuesTypeOK
<1>2. BelowWrap
  BY MCValuesAssumption
<1>3. Spec => []TypeOK
  BY <1>2, BoatDataTyped
<1> QED BY <1>1, <1>3, ValuesApart, AlarmsTyped, HistoryTyped, XdrTyped, PTL

=============================================================================
