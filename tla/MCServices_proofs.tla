-------------------------- MODULE MCServices_proofs --------------------------
(***************************************************************************)
(* Proofs about the services: the configuration and the update             *)
(* (GwMaintenance), the data exchange of the tasks (GwTaskInterfaces), the  *)
(* log (GwLog), the CAN driver (GwCanBus) and, with GwConnections_proofs,   *)
(* the types of all of them together. Each component is proved about for   *)
(* itself, from its own specification; ServicesApart carries the results   *)
(* over to the specification that runs one of them.                        *)
(***************************************************************************)
EXTENDS MCServices, SequenceTheorems, NumberFacts, GwConnections_proofs

-----------------------------------------------------------------------------
(* GwMaintenance *)

(* Of a form f the first n pairs are stored in the preferences pr, except   *)
(* those of the set x; the others have the values in use cf, or are stored  *)
(* already.                                                                 *)
StoredPair(pr, p) == Sets(p) => pr[p[1]] = p[2]

OpenPair(pr, cf, p) == Sets(p) => pr[p[1]] = cf[p[1]] \/ pr[p[1]] = p[2]

HalfStored(pr, cf, f, n, x) ==
  \A i \in 1..Len(f) : /\ i <= n /\ i \notin x => StoredPair(pr, f[i])
                       /\ i > n => OpenPair(pr, cf, f[i])

NamesFit(f) == \A i \in 1..Len(f) : ~TooLong(f[i][1])

FormsHalfStored ==
  \A c \in Client : IsForm(c) /\ req[c].fresh = TRUE /\ NamesFit(req[c].pairs) =>
    HalfStored(prefs, configs, req[c].pairs, req[c].pos, req[c].failed)

(* An upload that was not refused counts as running, and is the only one.   *)
Owner(c) == req[c].kind = "upload" /\ req[c].error # "busy"

OneOwner ==
  expired = FALSE =>
    \A c \in Client : Owner(c) => Busy /\ \A d \in Client : Owner(d) => d = c

(* While an image is written nothing is answered OK.                        *)
ImageOpen == image # Closed => ok = Partial

(* The inductive invariant.                                                 *)
MaintenanceInv == TypeOK /\ FormsHalfStored /\ OneOwner /\ ImageOpen /\ OkIsSelected

UploadError == {"none", "busy", "failed"}
FormRequest == [kind : {"form"}, pairs : Forms, pos : Nat, failed : SUBSET Nat, fresh : BOOLEAN]
RunningUpload == {"no", "yes", "old"}
Image == Seq(Client \X Files \X (1..Chunks))

LEMMA RequestFacts ==
  /\ Idle \in Requests /\ Ignored \in Requests
  /\ Idle.kind = "idle" /\ Ignored.kind = "ignored"
  /\ \A f \in Files, n \in 1..Chunks, e \in UploadError :
       Upload(f, n, e) \in Requests /\ Upload(f, n, e).kind = "upload" /\ Upload(f, n, e).error = e
BY DEF Requests, Idle, Ignored, Upload, UploadError

LEMMA FormFacts ==
  ASSUME NEW r \in Requests, r.kind = "form"
  PROVE  /\ r \in FormRequest
         /\ r.pairs \in Forms /\ r.pos \in Nat /\ r.failed \in SUBSET Nat /\ r.fresh \in BOOLEAN
BY DEF Requests, Idle, Ignored, FormRequest

LEMMA UploadFacts ==
  ASSUME NEW r \in Requests, r.kind = "upload"
  PROVE  r.file \in Files /\ r.next \in 1..Chunks /\ r.error \in UploadError
BY DEF Requests, Idle, Ignored, UploadError

LEMMA DisturbedFacts ==
  ASSUME NEW r \in Requests
  PROVE  /\ Disturbed(r) \in Requests /\ Disturbed(r).kind = r.kind
         /\ r.kind = "form" => Disturbed(r).fresh = FALSE
         /\ r.kind # "form" => Disturbed(r) = r
<1>1. CASE r.kind = "form"
  <2>1. r \in FormRequest
    BY <1>1, FormFacts
  <2>2. Disturbed(r) = [r EXCEPT !.fresh = FALSE]
    BY <1>1 DEF Disturbed
  <2>3. Disturbed(r) \in FormRequest /\ Disturbed(r).fresh = FALSE
    BY <2>1, <2>2 DEF FormRequest
  <2> QED BY <1>1, <2>3 DEF Requests, FormRequest
<1>2. CASE r.kind # "form"
  BY <1>2 DEF Disturbed
<1> QED BY <1>1, <1>2

LEMMA InitMaintenanceInv == Init => MaintenanceInv
<1> SUFFICES ASSUME Init PROVE MaintenanceInv
  OBVIOUS
<1>1. \A c \in Client : req[c] = Idle /\ req[c].kind = "idle"
  BY RequestFacts DEF Init
<1>2. TypeOK
  <2>1. req \in [Client -> Requests]
    BY RequestFacts DEF Init
  <2>2. image \in Seq(Client \X Files \X (1..Chunks))
    BY DEF Init, Closed
  <2> QED BY <2>1, <2>2, GwMaintenanceAssumption DEF Init, TypeOK
<1> QED BY <1>1, <1>2 DEF Init, MaintenanceInv, FormsHalfStored, IsForm, OneOwner, Owner, ImageOpen, OkIsSelected

-----------------------------------------------------------------------------
(* Forms                                                                    *)

(* The preferences stay and no form moves on.                               *)
LEMMA FormsKept ==
  ASSUME FormsHalfStored, UNCHANGED cfgVars,
         \A d \in Client : req'[d] = req[d] \/ req'[d].kind # "form"
  PROVE  FormsHalfStored'
BY DEF FormsHalfStored, IsForm, cfgVars

LEMMA UpdTyped ==
  ASSUME MaintenanceInv, UNCHANGED updVars, prefs' \in [Key -> Value], configs' \in [Key -> Value],
         req' \in [Client -> Requests], restart' \in BOOLEAN,
         FormsHalfStored',
         \A d \in Client : \/ req'[d].kind # "upload"
                           \/ req'[d] = req[d]
  PROVE  MaintenanceInv'
<1>1. TypeOK'
  BY DEF MaintenanceInv, TypeOK, updVars
<1>2. OneOwner'
  BY DEF MaintenanceInv, OneOwner, Owner, Busy, updVars
<1>3. ImageOpen' /\ OkIsSelected'
  BY DEF MaintenanceInv, ImageOpen, OkIsSelected, updVars, Closed
<1> QED BY <1>1, <1>2, <1>3 DEF MaintenanceInv

LEMMA OpenFormStep ==
  ASSUME MaintenanceInv, NEW c \in Client, NEW h \in Value, NEW f \in Forms, OpenForm(c, h, f)
  PROVE  MaintenanceInv'
<1>0. TypeOK /\ FormsHalfStored /\ Len(f) \in Nat
  BY GwMaintenanceAssumption DEF MaintenanceInv
<1>1. req[c] = Idle /\ UNCHANGED <<prefs, configs, restart>> /\ UNCHANGED updVars
      /\ req' = [req EXCEPT ![c] = IF checkPass(h) THEN Form(f) ELSE Ignored]
  BY DEF OpenForm, cfgVars
<1>2. /\ Form(f) \in FormRequest /\ Form(f).kind = "form"
      /\ Form(f).pairs = f /\ Form(f).pos = 0
      /\ Form(f).fresh = TRUE => \A i \in 1..Len(f) : OpenPair(prefs, configs, f[i])
  <2> DEFINE b == \A i \in 1..Len(f) :
                    Sets(f[i]) => prefs[f[i][1]] \in {configs[f[i][1]], f[i][2]}
  <2>1. b \in BOOLEAN /\ (b = TRUE => \A i \in 1..Len(f) : OpenPair(prefs, configs, f[i]))
    BY DEF OpenPair
  <2>2. Form(f) = [kind |-> "form", pairs |-> f, pos |-> 0, failed |-> {}, fresh |-> b]
    BY DEF Form
  <2> HIDE DEF b
  <2> QED BY <2>1, <2>2 DEF FormRequest
<1>3. Form(f) \in Requests
  BY <1>2 DEF Requests, FormRequest
<1>4. req' \in [Client -> Requests] /\ \A d \in Client : d # c => req'[d] = req[d]
  BY <1>0, <1>1, <1>3, RequestFacts DEF TypeOK
<1>5. req'[c] = Form(f) \/ req'[c] = Ignored
  BY <1>0, <1>1 DEF TypeOK
<1>6. req'[c].kind \in {"form", "ignored"}
  BY <1>2, <1>5, RequestFacts
<1>7. FormsHalfStored'
  <2> SUFFICES ASSUME NEW d \in Client, req'[d].kind = "form", req'[d].fresh = TRUE,
                      NamesFit(req'[d].pairs)
               PROVE  HalfStored(prefs', configs', req'[d].pairs, req'[d].pos, req'[d].failed)
    BY DEF FormsHalfStored, IsForm
  <2>1. CASE d = c
    <3>1. req'[d] = Form(f)
      BY <1>5, <2>1, RequestFacts
    <3> QED BY <1>0, <1>1, <1>2, <3>1 DEF HalfStored
  <2>2. CASE d # c
    BY <1>0, <1>1, <1>4, <2>2 DEF FormsHalfStored, IsForm
  <2> QED BY <2>1, <2>2
<1> QED BY <1>0, <1>1, <1>4, <1>6, <1>7, UpdTyped DEF TypeOK

(* One pair more is stored, or was already, or belongs to the failed ones.  *)
LEMMA PairStored ==
  ASSUME NEW f \in Forms, NEW n \in Nat, n < Len(f),
         NEW pr \in [Key -> Value], NEW cf, NEW x, HalfStored(pr, cf, f, n, x),
         NEW after, NEW v,
         after = pr \/ (f[n+1][1] \in Key /\ after = [pr EXCEPT ![f[n+1][1]] = v]),
         NEW y, x \subseteq y,
         Sets(f[n+1]) /\ n + 1 \notin y =>
           after[f[n+1][1]] = f[n+1][2] \/ (after = pr /\ cf[f[n+1][1]] = f[n+1][2])
  PROVE  HalfStored(after, cf, f, n + 1, y)
<1>0. /\ Len(f) \in Nat /\ n + 1 \in 1..Len(f)
      /\ \A i, j \in 1..Len(f) : f[i][1] = f[j][1] => i = j
  <2>1. Len(f) \in Nat /\ \A i, j \in 1..Len(f) : f[i][1] = f[j][1] => i = j
    BY GwMaintenanceAssumption, Zenon
  <2> QED BY <2>1
<1>1. OpenPair(pr, cf, f[n+1])
  BY <1>0 DEF HalfStored
<1>2. n + 1 \notin y => StoredPair(after, f[n+1])
  BY <1>1 DEF StoredPair, OpenPair
<1>3. \A i \in 1..Len(f) : i # n + 1 /\ f[i][1] \in Key => after[f[i][1]] = pr[f[i][1]]
  BY <1>0
<1>4. \A i \in 1..Len(f) : i # n + 1 => /\ StoredPair(pr, f[i]) => StoredPair(after, f[i])
                                        /\ OpenPair(pr, cf, f[i]) => OpenPair(after, cf, f[i])
  BY <1>3 DEF StoredPair, OpenPair, Sets
<1>5. \A i \in 1..Len(f) : i <= n + 1 => i <= n \/ i = n + 1
  BY <1>0
<1>6. \A i \in 1..Len(f) : i > n + 1 => i > n /\ i # n + 1
  BY <1>0
<1>7. \A i \in 1..Len(f) : i <= n => i # n + 1
  BY <1>0
<1> QED BY <1>2, <1>4, <1>5, <1>6, <1>7 DEF HalfStored

LEMMA FormPairStep ==
  ASSUME MaintenanceInv, NEW c \in Client, FormPair(c)
  PROVE  MaintenanceInv'
<1> DEFINE r == req[c]
           p == r.pos + 1
           base == IF prefs' = prefs THEN req ELSE Others(c)
           item == Received(r.pairs[p][1])
           value == Received(r.pairs[p][2])
           fails == ~Skipped(item, value) /\ prefs'[item] # value
           x == IF fails THEN r.failed \cup {p} ELSE r.failed
<1>0. TypeOK /\ FormsHalfStored
  BY DEF MaintenanceInv
<1>1. /\ IsForm(c) /\ r.pos < Len(r.pairs)
      /\ updateValue(item, value)
      /\ req' = [base EXCEPT ![c].pos = p, ![c].failed = IF fails THEN @ \cup {p} ELSE @]
      /\ UNCHANGED <<configs, restart>> /\ UNCHANGED updVars
  BY DEF FormPair
<1>2. /\ r \in FormRequest /\ r.pairs \in Forms /\ r.pos \in Nat /\ r.failed \in SUBSET Nat
      /\ Len(r.pairs) \in Nat /\ p \in 1..Len(r.pairs) /\ p \in Nat
      /\ value \in Value
  <2>1. r \in FormRequest /\ r.pairs \in Forms /\ r.pos \in Nat /\ r.failed \in SUBSET Nat
    BY <1>0, <1>1, FormFacts DEF TypeOK, IsForm
  <2>2. Len(r.pairs) \in Nat /\ p \in 1..Len(r.pairs) /\ p \in Nat
    BY <1>1, <2>1, GwMaintenanceAssumption
  <2> QED BY <2>1, <2>2, GwMaintenanceAssumption
<1>3. /\ base \in [Client -> Requests] /\ base[c] = r
      /\ \A d \in Client : d # c => base[d] = req[d] \/ base[d] = Disturbed(req[d])
      /\ \A d \in Client : d # c /\ prefs' # prefs => base[d] = Disturbed(req[d])
  <2>1. Others(c) \in [Client -> Requests] /\ Others(c)[c] = req[c]
        /\ \A d \in Client : d # c => Others(c)[d] = Disturbed(req[d])
    BY <1>0, DisturbedFacts DEF Others, TypeOK
  <2> QED BY <1>0, <2>1 DEF TypeOK
<1> HIDE DEF base, item, value, fails, p
<1>4. /\ req'[c] = [r EXCEPT !.pos = p, !.failed = x]
      /\ \A d \in Client : d # c => req'[d] = base[d]
      /\ req' = [base EXCEPT ![c] = req'[c]]
  BY <1>1, <1>2, <1>3 DEF FormRequest
<1>5. /\ req'[c] \in FormRequest /\ req'[c].pairs = r.pairs /\ req'[c].fresh = r.fresh
      /\ req'[c].pos = p /\ req'[c].failed = x /\ req'[c].kind = "form"
  <2>1. x \in SUBSET Nat
    BY <1>2
  <2> HIDE DEF x, r
  <2> QED BY <1>2, <1>4, <2>1 DEF FormRequest
<1>6. req' \in [Client -> Requests]
  <2>1. req'[c] \in Requests
    BY <1>5 DEF Requests, FormRequest
  <2> QED BY <1>3, <1>4, <2>1
<1>7. /\ prefs' = prefs \/ (item \in Key /\ prefs' = [prefs EXCEPT ![item] = value])
      /\ Skipped(item, value) => prefs' = prefs
  BY <1>1 DEF updateValue, Skipped
<1>8. prefs' \in [Key -> Value]
  BY <1>0, <1>2, <1>7 DEF TypeOK
<1>9. FormsHalfStored'
  <2> SUFFICES ASSUME NEW d \in Client, req'[d].kind = "form", req'[d].fresh = TRUE,
                      NamesFit(req'[d].pairs)
               PROVE  HalfStored(prefs', configs', req'[d].pairs, req'[d].pos, req'[d].failed)
    BY DEF FormsHalfStored, IsForm
  <2>1. CASE d = c
    <3>1. HalfStored(prefs, configs, r.pairs, r.pos, r.failed)
      BY <1>0, <1>1, <1>5, <2>1 DEF FormsHalfStored
    <3>2. item = r.pairs[p][1]
      BY <1>2, <1>5, <2>1 DEF NamesFit, Received, item
    <3>3. Sets(r.pairs[p]) /\ p \notin x =>
            prefs'[item] = r.pairs[p][2] \/ (prefs' = prefs /\ configs[item] = r.pairs[p][2])
      <4> SUFFICES ASSUME Sets(r.pairs[p]), p \notin x
                   PROVE  \/ prefs'[item] = r.pairs[p][2]
                          \/ prefs' = prefs /\ configs[item] = r.pairs[p][2]
        OBVIOUS
      <4>1. value = r.pairs[p][2] /\ ~fails
        BY DEF Sets, Received, value
      <4>2. item \in Key /\ ~(item = AdminPassword /\ value = Empty)
        BY <3>2, <4>1 DEF Sets
      <4> QED BY <1>7, <4>1, <4>2 DEF fails, Skipped
    <3>4. r.failed \subseteq x
      OBVIOUS
    <3>5. r.pos < Len(r.pairs) /\ p = r.pos + 1 /\ prefs \in [Key -> Value]
      BY <1>0, <1>1 DEF p, TypeOK
    <3> HIDE DEF x, r
    <3>6. HalfStored(prefs', configs, r.pairs, r.pos + 1, x)
      <4> DEFINE n == r.pos   f == r.pairs
      <4>1. /\ f \in Forms /\ n \in Nat /\ n < Len(f) /\ p = n + 1 /\ item = f[n+1][1]
            /\ HalfStored(prefs, configs, f, n, r.failed)
        BY <1>2, <3>1, <3>2, <3>5
      <4>2. \/ prefs' = prefs
            \/ f[n+1][1] \in Key /\ prefs' = [prefs EXCEPT ![f[n+1][1]] = value]
        BY <1>7, <4>1
      <4>3. Sets(f[n+1]) /\ n + 1 \notin x =>
              \/ prefs'[f[n+1][1]] = f[n+1][2]
              \/ prefs' = prefs /\ configs[f[n+1][1]] = f[n+1][2]
        BY <3>3, <4>1
      <4> HIDE DEF n, f
      <4>4. HalfStored(prefs', configs, f, n + 1, x)
        BY <3>4, <3>5, <4>1, <4>2, <4>3, PairStored
      <4> QED BY <4>4 DEF n, f
    <3> QED BY <1>1, <1>5, <2>1, <3>5, <3>6
  <2>2. CASE d # c
    <3>1. req[d] \in Requests /\ prefs' = prefs
      <4>1. req[d] \in Requests
        BY <1>0 DEF TypeOK
      <4>2. ASSUME prefs' # prefs PROVE FALSE
        <5>1. req'[d] = Disturbed(req[d])
          BY <1>3, <1>4, <2>2, <4>2
        <5>2. req[d].kind = "form" /\ Disturbed(req[d]).fresh = FALSE
          BY <4>1, <5>1, DisturbedFacts
        <5> QED BY <5>1, <5>2
      <4> QED BY <4>1, <4>2
    <3>2. req'[d] = req[d]
      BY <1>4, <2>2, <3>1 DEF base
    <3> QED BY <1>0, <1>1, <3>1, <3>2 DEF FormsHalfStored, IsForm
  <2> QED BY <2>1, <2>2
<1>10. \A d \in Client : req'[d].kind # "upload" \/ req'[d] = req[d]
  <2>1. \A d \in Client : d # c => req'[d] = req[d] \/ req'[d] = Disturbed(req[d])
    BY <1>3, <1>4
  <2>2. \A d \in Client : req[d] \in Requests
    BY <1>0 DEF TypeOK
  <2>3. req'[c].kind = "form"
    BY <1>5
  <2> QED BY <2>1, <2>2, <2>3, DisturbedFacts
<1> QED BY <1>0, <1>1, <1>6, <1>8, <1>9, <1>10, UpdTyped DEF TypeOK

(* A form, or a request of any kind, comes to its end.                      *)
LEMMA EndStep ==
  ASSUME MaintenanceInv, NEW c \in Client, FormEnd(c) \/ Lost(c)
  PROVE  MaintenanceInv'
<1>0. TypeOK /\ FormsHalfStored
  BY DEF MaintenanceInv
<1>1. /\ req' = [req EXCEPT ![c] = Idle] /\ restart' \in BOOLEAN
      /\ UNCHANGED cfgVars /\ UNCHANGED updVars
  BY <1>0 DEF FormEnd, Lost, TypeOK
<1>2. /\ req' \in [Client -> Requests]
      /\ \A d \in Client : req'[d] = req[d] \/ req'[d].kind = "idle"
  BY <1>0, <1>1, RequestFacts DEF TypeOK
<1>3. FormsHalfStored'
  BY <1>0, <1>1, <1>2, FormsKept
<1> QED BY <1>0, <1>1, <1>2, <1>3, UpdTyped DEF TypeOK, cfgVars

LEMMA ResetStep ==
  ASSUME MaintenanceInv, ResetConfigRequest \/ \E h \in Value : ResetRequest(h)
  PROVE  MaintenanceInv'
<1>0. TypeOK /\ FormsHalfStored
  BY DEF MaintenanceInv
<1>1. CASE ResetConfigRequest
  <2>1. /\ prefs' \in [Key -> Value] /\ restart' \in BOOLEAN
        /\ UNCHANGED configs /\ UNCHANGED updVars
        /\ req' = [c \in Client |-> Disturbed(req[c])]
    BY <1>0, <1>1, GwMaintenanceAssumption DEF ResetConfigRequest, reset, TypeOK
  <2>2. /\ req' \in [Client -> Requests]
        /\ \A d \in Client : req'[d].kind = "form" => req'[d].fresh = FALSE
        /\ \A d \in Client : req'[d].kind # "form" => req'[d] = req[d]
    BY <1>0, <2>1, DisturbedFacts DEF TypeOK
  <2>3. FormsHalfStored'
    BY <2>2 DEF FormsHalfStored, IsForm
  <2> QED BY <1>0, <2>1, <2>2, <2>3, UpdTyped DEF TypeOK
<1>2. CASE \E h \in Value : ResetRequest(h)
  <2>1. UNCHANGED cfgVars /\ UNCHANGED updVars /\ UNCHANGED req /\ restart' \in BOOLEAN
    BY <1>2 DEF ResetRequest
  <2>2. FormsHalfStored'
    BY <1>0, <2>1, FormsKept
  <2> QED BY <1>0, <2>1, <2>2, UpdTyped DEF TypeOK, cfgVars
<1> QED BY <1>1, <1>2

-----------------------------------------------------------------------------
(* Uploads                                                                  *)

(* An upload goes on with the error e, or is answered.                      *)
Moves(c, e, running) ==
  /\ req' \in [Client -> Requests] /\ restart' \in BOOLEAN /\ updateRunning' \in RunningUpload
  /\ \A d \in Client : d # c => req'[d] = req[d]
  /\ \/ /\ req'[c].kind = "upload" /\ req'[c].error = e /\ updateRunning' = running
     \/ /\ req'[c].kind = "idle"
        /\ updateRunning' = IF e = "busy" THEN updateRunning ELSE "no"

LEMMA AnswerMoves ==
  ASSUME TypeOK, NEW c \in Client, NEW e \in UploadError, NEW running, Answer(c, e)
  PROVE  Moves(c, e, running)
<1>1. req' \in [Client -> Requests] /\ req'[c].kind = "idle"
      /\ \A d \in Client : d # c => req'[d] = req[d]
  BY RequestFacts DEF Answer, TypeOK
<1>2. restart' \in BOOLEAN
  BY DEF Answer
<1>3. updateRunning' \in RunningUpload /\ updateRunning' = IF e = "busy" THEN updateRunning ELSE "no"
  BY DEF Answer, TypeOK, RunningUpload
<1> QED BY <1>1, <1>2, <1>3 DEF Moves

LEMMA ContinueMoves ==
  ASSUME TypeOK, NEW c \in Client, NEW f \in Files, NEW n \in 1..Chunks, NEW e \in UploadError,
         NEW running \in RunningUpload, Continue(c, f, n, e, running)
  PROVE  Moves(c, e, running)
<1>1. CASE n = Chunks
  BY <1>1, AnswerMoves DEF Continue
<1>2. CASE n # Chunks
  <2>1. req' = [req EXCEPT ![c] = Upload(f, n + 1, e)] /\ updateRunning' = running
        /\ UNCHANGED restart
    BY <1>2 DEF Continue
  <2>2. n + 1 \in 1..Chunks
    BY <1>2, GwMaintenanceAssumption
  <2>3. /\ Upload(f, n + 1, e) \in Requests /\ Upload(f, n + 1, e).kind = "upload"
        /\ Upload(f, n + 1, e).error = e
    BY <2>2, RequestFacts
  <2>4. req' \in [Client -> Requests] /\ req'[c] = Upload(f, n + 1, e)
        /\ \A d \in Client : d # c => req'[d] = req[d]
    BY <2>1, <2>3 DEF TypeOK
  <2> QED BY <2>1, <2>3, <2>4 DEF Moves, TypeOK
<1> QED BY <1>1, <1>2

(* What is written, or fails, keeps OK answers true.                        *)
Kept ==
  /\ image' \in Image /\ slot' \in Files \cup {Partial} /\ selected' \in BOOLEAN
  /\ ok' \in Files \cup {Partial} /\ ImageOpen' /\ OkIsSelected'

LEMMA FailsMoves ==
  ASSUME TypeOK, OkIsSelected, NEW c \in Client, NEW f \in Files, NEW n \in 1..Chunks,
         NEW running \in RunningUpload, Fails(c, f, n, running)
  PROVE  Moves(c, "failed", running) /\ Kept
<1>1. image' = Closed /\ Continue(c, f, n, "failed", running) /\ UNCHANGED <<slot, selected, ok>>
  BY DEF Fails
<1>2. Moves(c, "failed", running)
  BY <1>1, ContinueMoves DEF UploadError
<1> QED BY <1>1, <1>2 DEF Kept, TypeOK, Image, Closed, ImageOpen, OkIsSelected

LEMMA WrittenMoves ==
  ASSUME TypeOK, OkIsSelected, NEW c \in Client, NEW f \in Files, NEW n \in 1..Chunks,
         NEW running \in RunningUpload, NEW s \in Image, Written(c, f, n, s, running),
         ok = Partial \/ WholeImage(s) \/ n # Chunks
  PROVE  (Moves(c, "none", running) \/ Moves(c, "failed", running)) /\ Kept
<1>1. CASE n = Chunks /\ WholeImage(s)
  <2>1. image' = Closed /\ Answer(c, "none") /\ slot' = f /\ selected' = TRUE /\ ok' = f
    BY <1>1 DEF Written, Ends
  <2>2. Moves(c, "none", running)
    BY <2>1, AnswerMoves DEF UploadError
  <2> QED BY <2>1, <2>2 DEF Kept, Image, Closed, ImageOpen, OkIsSelected
<1>2. CASE n = Chunks /\ ~WholeImage(s)
  <2>1. image' = Closed /\ Answer(c, "failed") /\ slot' = Partial /\ UNCHANGED <<selected, ok>>
    BY <1>2 DEF Written, Ends
  <2>2. Moves(c, "failed", running)
    BY <2>1, AnswerMoves DEF UploadError
  <2> QED BY <1>2, <2>1, <2>2 DEF Kept, TypeOK, Image, Closed, ImageOpen, OkIsSelected
<1>3. CASE n # Chunks
  <2>1. /\ image' = s /\ Continue(c, f, n, "none", running)
        /\ slot' = Partial /\ ok' = Partial /\ UNCHANGED selected
    BY <1>3 DEF Written
  <2>2. Moves(c, "none", running)
    BY <2>1, ContinueMoves DEF UploadError
  <2> QED BY <2>1, <2>2 DEF Kept, TypeOK, ImageOpen, OkIsSelected
<1> QED BY <1>1, <1>2, <1>3

(* The invariant from what an upload does to the requests.                  *)
LEMMA UploadMoves ==
  ASSUME MaintenanceInv, NEW c \in Client, NEW e \in UploadError, NEW running, Moves(c, e, running), Kept,
         UNCHANGED cfgVars, expired' \in BOOLEAN, OneOwner'
  PROVE  MaintenanceInv'
<1>1. TypeOK'
  BY DEF MaintenanceInv, TypeOK, Moves, Kept, cfgVars, RunningUpload, Image
<1>2. \A d \in Client : req'[d] = req[d] \/ req'[d].kind # "form"
  BY DEF Moves
<1>3. FormsHalfStored'
  BY <1>2, FormsKept DEF MaintenanceInv
<1> QED BY <1>1, <1>3 DEF MaintenanceInv, Kept

LEMMA SameImage ==
  ASSUME MaintenanceInv, UNCHANGED <<image, slot, selected, ok>>
  PROVE  Kept
BY DEF MaintenanceInv, TypeOK, Kept, Image, ImageOpen, OkIsSelected, Closed

(* The first chunk.                                                         *)
LEMMA FirstStep ==
  ASSUME MaintenanceInv, NEW c \in Client, NEW f \in Files, NEW h \in Value,
         UploadRefused(c, f) \/ UploadInvalid(c, f, h) \/ UploadStart(c, f, h)
  PROVE  MaintenanceInv'
<1>0. TypeOK /\ OkIsSelected /\ OneOwner /\ 1 \in 1..Chunks /\ updateRunning \in RunningUpload
  BY GwMaintenanceAssumption DEF MaintenanceInv, TypeOK, RunningUpload
<1>1. CASE UploadRefused(c, f)
  <2>1. Moves(c, "busy", updateRunning) /\ UNCHANGED expired
    BY <1>0, <1>1, ContinueMoves DEF UploadRefused, UploadError
  <2>2. OneOwner'
    BY <1>0, <2>1 DEF OneOwner, Owner, Busy, Moves
  <2> QED BY <1>0, <1>1, <2>1, <2>2, SameImage, UploadMoves DEF UploadRefused, UploadError, TypeOK
<1>2. ASSUME ~Busy, NEW e \in {"none", "failed"}, Moves(c, e, "yes"), Kept, UNCHANGED cfgVars,
             expired' \in BOOLEAN,
             expired' = FALSE => expired = FALSE \/ \A d \in Client : req[d].kind # "upload"
      PROVE  MaintenanceInv'
  <2>1. expired' = FALSE => \A d \in Client : ~Owner(d)
    BY <1>0, <1>2 DEF OneOwner, Owner
  <2>2. OneOwner'
    <3> SUFFICES ASSUME expired' = FALSE, NEW d \in Client, Owner(d)'
                 PROVE  Busy' /\ \A b \in Client : Owner(b)' => b = d
      BY DEF OneOwner
    <3>1. \A b \in Client : Owner(b)' => b = c
      BY <1>2, <2>1 DEF Owner, Moves
    <3>2. Busy'
      BY <1>2, <3>1 DEF Owner, Moves, Busy
    <3> QED BY <3>1, <3>2
  <2> QED BY <1>2, <2>2, UploadMoves DEF UploadError
<1>3. CASE UploadInvalid(c, f, h)
  <2>1. Moves(c, "failed", "yes") /\ UNCHANGED expired /\ ~Busy
    BY <1>0, <1>3, ContinueMoves DEF UploadInvalid, UploadError, RunningUpload
  <2> QED BY <1>0, <1>2, <1>3, <2>1, SameImage DEF UploadInvalid, TypeOK
<1>4. CASE UploadStart(c, f, h)
  <2> DEFINE s == << <<c, f, 1>> >>
  <2>1. /\ ~Busy /\ UNCHANGED cfgVars
        /\ \/ Written(c, f, 1, s, "yes")
           \/ Fails(c, f, 1, "yes")
        /\ expired' = (expired /\ \E d \in Client : req[d].kind = "upload")
    BY <1>4 DEF UploadStart
  <2>2. s \in Image
    BY <1>0 DEF Image
  <2>3. ASSUME Chunks = 1 PROVE WholeImage(s)
    <3>1. [i \in 1..Len(s) |-> <<s[i][2], s[i][3]>>] = [i \in 1..1 |-> <<f, i>>]
      OBVIOUS
    <3> QED BY <2>3, <3>1 DEF WholeImage
  <2>4. \/ Moves(c, "none", "yes") /\ Kept
        \/ Moves(c, "failed", "yes") /\ Kept
    BY <1>0, <2>1, <2>2, <2>3, WrittenMoves, FailsMoves DEF RunningUpload
  <2>5. expired' \in BOOLEAN
    BY <2>1
  <2>6. expired' = FALSE => expired = FALSE \/ \A d \in Client : req[d].kind # "upload"
    BY <1>0, <2>1 DEF TypeOK
  <2> QED BY <1>2, <2>1, <2>4, <2>5, <2>6
<1> QED BY <1>1, <1>3, <1>4

LEMMA ChunkStep ==
  ASSUME MaintenanceInv, NEW c \in Client, UploadChunk(c)
  PROVE  MaintenanceInv'
<1> DEFINE f == req[c].file   n == req[c].next   e == req[c].error
<1>0. /\ TypeOK /\ OkIsSelected /\ OneOwner /\ ImageOpen /\ updateRunning \in RunningUpload
      /\ req[c].kind = "upload" /\ f \in Files /\ n \in 1..Chunks /\ e \in UploadError
      /\ UNCHANGED cfgVars /\ UNCHANGED expired /\ expired' \in BOOLEAN
  BY UploadFacts DEF MaintenanceInv, TypeOK, UploadChunk, RunningUpload
<1>1. ASSUME NEW a \in UploadError, Moves(c, a, updateRunning), Kept, a = "busy" <=> e = "busy"
      PROVE  MaintenanceInv'
  <2>1. \A d \in Client : Owner(d)' => Owner(d)
    BY <1>0, <1>1 DEF Owner, Moves
  <2>2. ASSUME expired = FALSE, NEW d \in Client, Owner(d)', Busy PROVE Busy'
    <3>1. CASE d = c
      BY <1>1, <2>2, <3>1 DEF Owner, Moves, Busy
    <3>2. CASE d # c
      <4>1. Owner(d) /\ ~Owner(c)
        BY <1>0, <2>1, <2>2, <3>2 DEF OneOwner
      <4>2. e = "busy"
        BY <1>0, <4>1 DEF Owner
      <4> QED BY <1>1, <2>2, <4>2 DEF Moves, Busy
    <3> QED BY <3>1, <3>2
  <2>3. OneOwner'
    BY <1>0, <2>1, <2>2 DEF OneOwner
  <2> QED BY <1>0, <1>1, <2>3, UploadMoves
<1>2. CASE e # "none"
  <2>1. Continue(c, f, n, e, updateRunning) /\ UNCHANGED <<image, slot, selected, ok>>
    BY <1>2 DEF UploadChunk
  <2>2. Moves(c, e, updateRunning) /\ Kept
    BY <1>0, <2>1, ContinueMoves, SameImage
  <2> QED BY <1>0, <1>1, <2>2
<1>3. CASE e = "none"
  <2> DEFINE s == Append(image, <<c, f, n>>)
  <2>1. \/ image # Closed /\ Written(c, f, n, s, updateRunning)
        \/ Fails(c, f, n, updateRunning)
    BY <1>3 DEF UploadChunk
  <2>2. s \in Image
    BY <1>0 DEF TypeOK, Image
  <2>3. \/ Moves(c, "none", updateRunning) /\ Kept
        \/ Moves(c, "failed", updateRunning) /\ Kept
    BY <1>0, <2>1, <2>2, WrittenMoves, FailsMoves DEF ImageOpen
  <2> QED BY <1>1, <1>3, <2>3 DEF UploadError
<1> QED BY <1>2, <1>3

LEMMA ExpireStep ==
  ASSUME MaintenanceInv, Expire
  PROVE  MaintenanceInv'
<1>1. /\ updateRunning' = "old" /\ expired' = TRUE /\ UNCHANGED cfgVars
      /\ UNCHANGED <<req, restart, image, slot, selected, ok>>
  BY DEF Expire
<1>2. FormsHalfStored'
  BY <1>1, FormsKept DEF MaintenanceInv
<1>3. TypeOK'
  BY <1>1 DEF MaintenanceInv, TypeOK, cfgVars
<1> QED BY <1>1, <1>2, <1>3, SameImage DEF MaintenanceInv, OneOwner, Kept

LEMMA RebootStep ==
  ASSUME MaintenanceInv, Reboot
  PROVE  MaintenanceInv'
<1>1. \A c \in Client : req'[c] = Idle /\ req'[c].kind = "idle"
  BY RequestFacts DEF Reboot
<1>2. TypeOK'
  <2>1. req' \in [Client -> Requests]
    BY RequestFacts DEF Reboot
  <2>2. image' \in Seq(Client \X Files \X (1..Chunks))
    BY DEF Reboot, Closed
  <2> QED BY <2>1, <2>2 DEF Reboot, MaintenanceInv, TypeOK
<1> QED BY <1>1, <1>2
        DEF Reboot, MaintenanceInv, FormsHalfStored, IsForm, OneOwner, Owner, ImageOpen, OkIsSelected

LEMMA StepMaintenanceInv == MaintenanceInv /\ [Next]_vars => MaintenanceInv'
<1> SUFFICES ASSUME MaintenanceInv, [Next]_vars PROVE MaintenanceInv'
  OBVIOUS
<1>1. CASE UNCHANGED vars
  <2>1. UNCHANGED cfgVars /\ UNCHANGED updVars /\ UNCHANGED <<req, restart>>
    BY <1>1 DEF vars, cfgVars, updVars
  <2>2. FormsHalfStored'
    BY <2>1, FormsKept DEF MaintenanceInv
  <2> QED BY <2>1, <2>2, UpdTyped DEF MaintenanceInv, TypeOK, cfgVars
<1>2. ASSUME NEW c \in Client,
             \/ \E h \in Value, f \in Forms : OpenForm(c, h, f)
             \/ FormPair(c) \/ FormEnd(c) \/ Lost(c) \/ UploadChunk(c)
             \/ \E f \in Files :
                  \/ UploadRefused(c, f)
                  \/ \E h \in Value : UploadInvalid(c, f, h) \/ UploadStart(c, f, h)
      PROVE  MaintenanceInv'
  <2>1. Empty \in Value
    BY GwMaintenanceAssumption
  <2> QED BY <1>2, <2>1, OpenFormStep, FormPairStep, EndStep, ChunkStep, FirstStep
<1>3. CASE ResetConfigRequest \/ \E h \in Value : ResetRequest(h)
  BY <1>3, ResetStep
<1>4. CASE Expire \/ Reboot
  BY <1>4, ExpireStep, RebootStep
<1> QED BY <1>1, <1>2, <1>3, <1>4 DEF Next

-----------------------------------------------------------------------------
LEMMA MaintenanceInvAlways == Spec => []MaintenanceInv
<1> QED BY InitMaintenanceInv, StepMaintenanceInv, PTL DEF Spec

(* Preferences, requests and images keep their types.                       *)
THEOREM MaintenanceTyped == Spec => []TypeOK
<1>1. MaintenanceInv => TypeOK
  BY DEF MaintenanceInv
<1> QED BY <1>1, MaintenanceInvAlways, PTL

(* For any clients, items and forms, and with every putString that may      *)
(* fail: when a form is answered OK its pairs are stored as they were sent, *)
(* if they fit and could be written, and the form met no values but those   *)
(* in use or its own (handleConfigRequestData, GWConfig.cpp updateValue).   *)
THEOREM StoredAsSent == Spec => []OkIsStored
<1>1. MaintenanceInv => OkIsStored
  <2> SUFFICES ASSUME MaintenanceInv, NEW c \in Client, Answering(c), req[c].fresh,
                      NamesFit(req[c].pairs),
                      NEW i \in 1..Len(req[c].pairs), Sets(req[c].pairs[i]), i \notin req[c].failed
               PROVE  prefs[req[c].pairs[i][1]] = req[c].pairs[i][2]
    BY DEF OkIsStored, NamesFit
  <2>1. req[c].kind = "form" /\ req[c] \in Requests /\ req[c].pos = Len(req[c].pairs)
    BY DEF MaintenanceInv, TypeOK, Answering, IsForm
  <2>2. req[c].fresh = TRUE /\ req[c].pairs \in Forms
    BY <2>1, FormFacts
  <2>3. HalfStored(prefs, configs, req[c].pairs, Len(req[c].pairs), req[c].failed)
    BY <2>1, <2>2 DEF MaintenanceInv, FormsHalfStored, IsForm
  <2>4. i <= Len(req[c].pairs)
    BY <2>2, GwMaintenanceAssumption
  <2> QED BY <2>3, <2>4 DEF HalfStored, StoredPair
<1> QED BY <1>1, MaintenanceInvAlways, PTL

(* For any clients, two uploads write at the same time only after one has   *)
(* taken more than 60 s (GwUpdate.cpp, otherUpdate).                        *)
THEOREM Apart == Spec => []UploadsApart
<1>1. MaintenanceInv => UploadsApart
  BY DEF MaintenanceInv, OneOwner, Owner, UploadsApart, TypeOK
<1> QED BY <1>1, MaintenanceInvAlways, PTL

(* An upload that is answered OK is the boot partition until another one    *)
(* begins (GwUpdate.cpp, the last chunk).                                   *)
THEOREM OkSelected == Spec => []OkIsSelected
<1>1. MaintenanceInv => OkIsSelected
  BY DEF MaintenanceInv
<1> QED BY <1>1, MaintenanceInvAlways, PTL

-----------------------------------------------------------------------------
(* GwTaskInterfaces *)

NoUpdater == built \cap Updaters = {}

(* Only a task of this firmware is busy, and it has an object.              *)
BusyHasObject == \A t \in Task : at[t] # -1 => t \in built /\ ptr[t] \in Object

(* Before the first set there is nothing to read.                           *)
NothingStored ==
  stored = NoObject =>
    expected = 0 /\ updates = 0 /\ \A t \in Readers : known[t].result = -1

Uniform(o) == \A f, g \in Field : field[o][f] = field[o][g]

(* What a reader copies is the same in every field, until it is disturbed.  *)
CopiesInv ==
  \A t \in Readers : at[t] # -1 =>
    /\ stored # NoObject
    /\ disturbed[t] = FALSE =>
         /\ Uniform(ptr[t])
         /\ \A f \in 1..at[t] : copy[t][f] = field[ptr[t]][1]

(* Without updates a reader has copied the first fields of an object that   *)
(* does not change, and has got its counter.                                *)
Copying(t) ==
  at[t] # -1 =>
    /\ stored # NoObject
    /\ result[t] \in 0..updates /\ known[t].result <= result[t]
    /\ known[t].result = result[t] => known[t].version = field[ptr[t]][1]
    /\ result[t] = updates => field[ptr[t]][1] = expected
    /\ \A f \in 1..at[t] : copy[t][f] = field[ptr[t]][1]

(* The counter a reader knows names the version it knows.                   *)
Knows(t) ==
  /\ known[t].result = -1 => known[t].version = 0
  /\ known[t].result <= updates
  /\ known[t].result = updates => known[t].version = expected

ReadersInv ==
  NoUpdater => /\ lock = Nobody
               /\ \A o \in Object : Uniform(o)
               /\ \A t \in Readers : Copying(t) /\ Knows(t)

(* Whoever updates has the lock, and the stored object, of which the first  *)
(* fields show the next version already.                                    *)
UpdatersInv ==
  /\ \A t \in Updaters : at[t] # -1 => lock = t
  /\ lock # Nobody =>
       /\ at[lock] # -1
       /\ stored # NoObject => ptr[lock] = stored
       /\ \A f \in Field : field[ptr[lock]][f] =
                             (IF f <= at[lock] THEN NextVersion(expected) ELSE expected)

(* The inductive invariant.                                                 *)
TaskInv ==
  /\ TaskTypeOK /\ BusyHasObject /\ NothingStored
  /\ CopiesInv /\ ReadersInv /\ UpdatersInv /\ NoLostUpdate

LEMMA VersionFacts ==
  /\ 0 \in Version /\ 1 \in Field /\ Fields \in Field
  /\ \A v \in Version : NextVersion(v) \in Version
  /\ NoCopy \in [Field -> Version]
BY GwTaskInterfacesAssumption DEF Version, Field, NextVersion, NoCopy

LEMMA InitTaskInv == TaskInit => TaskInv
BY GwTaskInterfacesAssumption, VersionFacts
   DEF TaskInit, TaskInv, TaskTypeOK, BusyHasObject, NothingStored, ReadersInv, UpdatersInv, Uniform,
       CopiesInv, Copying, Knows, NoLostUpdate, Free, Task, NoCopy

-----------------------------------------------------------------------------
(* Types                                                                    *)

LEMMA StepTaskTyped ==
  ASSUME TaskTypeOK, BusyHasObject, [TaskNext]_taskVars
  PROVE  TaskTypeOK'
<1>1. CASE UNCHANGED taskVars
  BY <1>1 DEF taskVars, TaskTypeOK
<1>2. ASSUME NEW t \in built, Step(t), UNCHANGED built
      PROVE  TaskTypeOK'
  <2> USE GwTaskInterfacesAssumption, VersionFacts, <1>2
  <2>0. t \in Task
    BY DEF TaskTypeOK
  <2>1. CASE t \in Setters /\ \E v \in Version : Set(t, v)
    BY <2>0, <2>1 DEF Set, Unreferenced, Count, TaskTypeOK
  <2>2. CASE t \in Readers /\ Get(t)
    <3>1. updates \in -1..MaxUpdates
      BY DEF TaskTypeOK
    <3>2. at' \in [Task -> -1..Fields]
      BY <2>0, <2>2 DEF Get, TaskTypeOK
    <3> QED BY <2>0, <2>2, <3>1, <3>2 DEF Get, TaskTypeOK
  <2>3. CASE t \in Readers /\ GetNothing(t)
    BY <2>0, <2>3 DEF GetNothing, TaskTypeOK
  <2>4. CASE t \in Readers /\ CopyField(t)
    <3>1. at[t] + 1 \in Field /\ at[t] + 1 \in -1..Fields /\ ptr[t] \in Object
      BY <2>0, <2>4 DEF CopyField, TaskTypeOK, Field, BusyHasObject
    <3>2. field[ptr[t]][at[t] + 1] \in Version
      BY <3>1 DEF TaskTypeOK
    <3> QED BY <2>0, <2>4, <3>1, <3>2 DEF CopyField, TaskTypeOK
  <2>5. CASE t \in Readers /\ Return(t)
    BY <2>0, <2>5 DEF Return, TaskTypeOK
  <2>6. CASE t \in Updaters /\ Update(t)
    <3>1. at' \in [Task -> -1..Fields]
      BY <2>0, <2>6 DEF Update, TaskTypeOK
    <3>2. ptr' \in [Task -> Object \cup {NoObject}] /\ field' \in [Object -> [Field -> Version]]
      <4>1. CASE stored # NoObject
        BY <2>0, <2>6, <4>1 DEF Update, TaskTypeOK
      <4>2. CASE stored = NoObject
        <5>1. [f \in Field |-> 0] \in [Field -> Version]
          OBVIOUS
        <5>2. PICK o \in Object : /\ ptr' = [ptr EXCEPT ![t] = o]
                                  /\ field' = [field EXCEPT ![o] = [f \in Field |-> 0]]
          BY <2>6, <4>2 DEF Update, Unreferenced
        <5> QED BY <2>0, <5>1, <5>2 DEF TaskTypeOK
      <4> QED BY <4>1, <4>2
    <3> QED BY <2>0, <2>6, <3>1, <3>2 DEF Update, UpdateLock, TaskTypeOK
  <2>7. CASE t \in Updaters /\ ChangeField(t)
    <3>1. at[t] + 1 \in Field /\ at[t] + 1 \in -1..Fields /\ ptr[t] \in Object
      BY <2>0, <2>7 DEF ChangeField, TaskTypeOK, Field, BusyHasObject
    <3>2. NextVersion(field[ptr[t]][at[t] + 1]) \in Version
      BY <3>1 DEF TaskTypeOK
    <3>3. disturbed' \in [Readers -> BOOLEAN]
      BY <2>7, Zenon DEF ChangeField, TaskTypeOK
    <3> QED BY <2>0, <2>7, <3>1, <3>2, <3>3 DEF ChangeField, TaskTypeOK
  <2>8. CASE t \in Updaters /\ UpdateDone(t)
    <3>1. ptr[t] \in Object
      BY <2>0, <2>8 DEF UpdateDone, BusyHasObject
    <3> QED BY <2>0, <2>8, <3>1 DEF UpdateDone, Count, TaskTypeOK
  <2>9. CASE t \in Updaters /\ UpdateRefused(t)
    BY <2>0, <2>9 DEF UpdateRefused, Count, TaskTypeOK
  <2> QED BY <2>1, <2>2, <2>3, <2>4, <2>5, <2>6, <2>7, <2>8, <2>9 DEF Step
<1> QED BY <1>1, <1>2 DEF TaskNext

-----------------------------------------------------------------------------
(* Only the tasks of this firmware are busy.                                *)

LEMMA StepBusy ==
  ASSUME TaskInv, NEW t \in built, Step(t), UNCHANGED built
  PROVE  BusyHasObject'
<1> USE GwTaskInterfacesAssumption DEF BusyHasObject
<1>0. t \in Task /\ TaskTypeOK /\ BusyHasObject
  BY DEF TaskTypeOK, TaskInv
<1>1. CASE \E v \in Version : Set(t, v)
  BY <1>0, <1>1 DEF Set
<1>2. CASE Get(t)
  <2>1. stored \in Object
    BY <1>0, <1>2 DEF Get, TaskTypeOK
  <2> QED BY <1>0, <1>2, <2>1 DEF Get, TaskTypeOK
<1>3. CASE GetNothing(t)
  BY <1>0, <1>3 DEF GetNothing
<1>4. CASE CopyField(t) \/ ChangeField(t)
  BY <1>0, <1>4 DEF CopyField, ChangeField, TaskTypeOK
<1>5. CASE Return(t) \/ UpdateDone(t) \/ UpdateRefused(t)
  BY <1>0, <1>5 DEF Return, UpdateDone, UpdateRefused, TaskTypeOK
<1>6. CASE Update(t)
  <2>1. \E o \in Object : ptr' = [ptr EXCEPT ![t] = o]
    BY <1>0, <1>6 DEF Update, Unreferenced, TaskTypeOK
  <2> QED BY <1>0, <1>6, <2>1 DEF Update, TaskTypeOK
<1> QED BY <1>1, <1>2, <1>3, <1>4, <1>5, <1>6 DEF Step

LEMMA StepNothingStored ==
  ASSUME TaskInv, NEW t \in built, Step(t), UNCHANGED built
  PROVE  NothingStored'
<1>0. t \in Task /\ TaskTypeOK /\ BusyHasObject /\ NothingStored /\ NoObject \notin Object
  BY GwTaskInterfacesAssumption DEF TaskTypeOK, TaskInv
<1>1. CASE \E v \in Version : Set(t, v)
  BY <1>0, <1>1 DEF Set, Unreferenced, NothingStored
<1>2. CASE Get(t) \/ CopyField(t) \/ Update(t) \/ ChangeField(t)
  BY <1>0, <1>2 DEF Get, CopyField, Update, ChangeField, NothingStored
<1>3. CASE t \in Readers /\ GetNothing(t)
  BY <1>0, <1>3 DEF GetNothing, NothingStored, TaskTypeOK
<1>4. CASE t \in Readers /\ Return(t)
  <2>1. at[t] # -1
    BY <1>4, GwTaskInterfacesAssumption DEF Return
  <2>2. stored # NoObject
    BY <1>4, <2>1 DEF TaskInv, CopiesInv
  <2> QED BY <1>0, <1>4, <2>2 DEF Return, NothingStored
<1>5. CASE t \in Updaters /\ UpdateDone(t)
  <2>1. at[t] # -1 /\ stored' = ptr[t]
    BY <1>5, GwTaskInterfacesAssumption DEF UpdateDone
  <2> QED BY <1>0, <2>1 DEF BusyHasObject, NothingStored
<1>6. CASE UpdateRefused(t)
  BY <1>0, <1>6 DEF UpdateRefused, NothingStored
<1> QED BY <1>1, <1>2, <1>3, <1>4, <1>5, <1>6 DEF Step

-----------------------------------------------------------------------------
(* What a reader copies is no other task's to change, except by an update.  *)

(* One reader, if nothing happens to it or to its object.                   *)
LEMMA CopyKept ==
  ASSUME CopiesInv, NEW r \in Readers,
         at'[r] # -1 => /\ at'[r] = at[r] /\ ptr'[r] = ptr[r] /\ stored' # NoObject
                        /\ disturbed'[r] = FALSE => /\ disturbed[r] = FALSE
                                                    /\ field'[ptr[r]] = field[ptr[r]],
         UNCHANGED copy
  PROVE  at'[r] # -1 => /\ stored' # NoObject
                        /\ disturbed'[r] = FALSE =>
                             /\ Uniform(ptr[r])'
                             /\ \A f \in 1..at'[r] : copy'[r][f] = field'[ptr'[r]][1]
BY DEF CopiesInv, Uniform

LEMMA StepCopies ==
  ASSUME TaskInv, NEW t \in built, Step(t), UNCHANGED built
  PROVE  CopiesInv'
<1> USE GwTaskInterfacesAssumption, VersionFacts
<1>0. /\ t \in Task /\ Readers \subseteq Task /\ NoObject \notin Object
      /\ TaskTypeOK /\ BusyHasObject /\ CopiesInv /\ NoLostUpdate
  BY DEF TaskTypeOK, TaskInv, Task
<1> SUFFICES ASSUME NEW r \in Readers
             PROVE  at'[r] # -1 => /\ stored' # NoObject
                                   /\ disturbed'[r] = FALSE =>
                                        /\ Uniform(ptr[r])'
                                        /\ \A f \in 1..at'[r] : copy'[r][f] = field'[ptr'[r]][1]
  BY DEF CopiesInv
<1>1. CASE \E v \in Version : Set(t, v)
  <2>1. PICK v \in Version, o \in Unreferenced :
          /\ field' = [field EXCEPT ![o] = [f \in Field |-> v]] /\ stored' = o
          /\ UNCHANGED <<ptr, at, copy, disturbed>>
    BY <1>1 DEF Set
  <2>2. o \in Object /\ ptr[r] # o
    BY <1>0, <2>1 DEF Unreferenced
  <2>3. at[r] # -1 => field'[ptr[r]] = field[ptr[r]]
    BY <1>0, <2>1, <2>2 DEF BusyHasObject, TaskTypeOK
  <2> QED BY <1>0, <2>1, <2>2, <2>3, CopyKept
<1>2. CASE t \in Readers /\ Get(t)
  <2>1. CASE r = t
    <3>1. /\ ptr'[t] = stored /\ at'[t] = 0 /\ stored # NoObject /\ Free
          /\ UNCHANGED <<stored, field>>
      BY <1>0, <1>2 DEF Get, TaskTypeOK
    <3>2. Uniform(stored)
      BY <1>0, <3>1 DEF NoLostUpdate, Uniform
    <3> QED BY <2>1, <3>1, <3>2 DEF Uniform
  <2>2. CASE r # t
    BY <1>0, <1>2, <2>2, CopyKept DEF Get, TaskTypeOK, CopiesInv
  <2> QED BY <2>1, <2>2
<1>3. CASE t \in Readers /\ CopyField(t)
  <2>1. /\ UNCHANGED <<stored, field, ptr, disturbed>> /\ at' = [at EXCEPT ![t] = @ + 1]
        /\ copy' = [copy EXCEPT ![t][at[t] + 1] = field[ptr[t]][at[t] + 1]]
    BY <1>3 DEF CopyField
  <2>2. at[t] \in 0..(Fields - 1) /\ at[t] # -1 /\ at[t] + 1 \in Field
    BY <1>0, <1>3 DEF CopyField, Field
  <2>3. CASE r = t
    <3>1. at'[t] = at[t] + 1 /\ copy[t] \in [Field -> Version]
          /\ copy'[t] = [copy[t] EXCEPT ![at[t] + 1] = field[ptr[t]][at[t] + 1]]
      BY <1>0, <1>3, <2>1 DEF TaskTypeOK
    <3>2. stored # NoObject
      BY <1>0, <1>3, <2>2 DEF CopiesInv
    <3>3. ASSUME disturbed[t] = FALSE
          PROVE  Uniform(ptr[t]) /\ \A f \in 1..(at[t] + 1) : copy'[t][f] = field[ptr[t]][1]
      <4>1. Uniform(ptr[t]) /\ \A f \in 1..at[t] : copy[t][f] = field[ptr[t]][1]
        BY <1>0, <1>3, <2>2, <3>3 DEF CopiesInv
      <4>2. field[ptr[t]][at[t] + 1] = field[ptr[t]][1]
        BY <2>2, <4>1 DEF Uniform
      <4>3. \A f \in 1..(at[t] + 1) : f = at[t] + 1 \/ (f \in 1..at[t] /\ f # at[t] + 1 /\ f \in Field)
        BY <2>2 DEF Field
      <4> QED BY <2>2, <3>1, <4>1, <4>2, <4>3
    <3> QED BY <2>1, <2>3, <3>1, <3>2, <3>3 DEF Uniform
  <2>4. CASE r # t
    <3>1. at'[r] = at[r] /\ copy'[r] = copy[r]
      BY <1>0, <1>3, <2>1, <2>4 DEF TaskTypeOK
    <3> QED BY <1>0, <2>1, <3>1 DEF CopiesInv, Uniform
  <2> QED BY <2>3, <2>4
<1>4. CASE t \in Readers /\ (GetNothing(t) \/ Return(t))
  <2>1. CASE GetNothing(t)
    BY <1>0, <2>1 DEF GetNothing, CopiesInv, Uniform
  <2>2. CASE Return(t) /\ r = t
    BY <1>0, <2>2 DEF Return, TaskTypeOK
  <2>3. CASE Return(t) /\ r # t
    <3>1. /\ at'[r] = at[r] /\ copy'[r] = copy[r] /\ ptr'[r] = ptr[r]
          /\ disturbed'[r] = disturbed[r] /\ UNCHANGED <<stored, field>>
      BY <1>0, <1>4, <2>3 DEF Return, TaskTypeOK
    <3> QED BY <1>0, <3>1 DEF CopiesInv, Uniform
  <2> QED BY <1>4, <2>1, <2>2, <2>3
<1>5. CASE t \in Updaters /\ Update(t)
  <2>1. /\ ptr'[r] = ptr[r] /\ at'[r] = at[r] /\ UNCHANGED <<stored, copy, disturbed>>
        /\ stored # NoObject => UNCHANGED field
    BY <1>0, <1>5 DEF Update, TaskTypeOK
  <2> QED BY <1>0, <2>1, CopyKept DEF CopiesInv
<1>6. CASE t \in Updaters /\ ChangeField(t)
  <2>1. /\ at[t] # -1 /\ UNCHANGED <<stored, ptr, copy>>
        /\ field' = [field EXCEPT ![ptr[t]][at[t] + 1] = NextVersion(@)]
        /\ at' = [at EXCEPT ![t] = @ + 1]
        /\ disturbed'[r] = (disturbed[r] \/ ptr[r] = ptr[t])
    BY <1>6 DEF ChangeField
  <2>2. at'[r] = at[r] /\ ptr[t] \in Object
    BY <1>0, <1>6, <2>1 DEF TaskTypeOK, BusyHasObject
  <2>3. disturbed'[r] = FALSE => disturbed[r] = FALSE /\ ptr[r] # ptr[t]
    <3>1. disturbed[r] \in BOOLEAN
      BY <1>0 DEF TaskTypeOK
    <3> QED BY <2>1, <3>1
  <2>4. at[r] # -1 /\ ptr[r] # ptr[t] => field'[ptr[r]] = field[ptr[r]]
    BY <1>0, <2>1, <2>2 DEF BusyHasObject, TaskTypeOK
  <2> QED BY <1>0, <2>1, <2>2, <2>3, <2>4, CopyKept DEF CopiesInv
<1>7. CASE t \in Updaters /\ (UpdateDone(t) \/ UpdateRefused(t))
  <2>1. at[t] # -1 /\ at' = [at EXCEPT ![t] = -1] /\ ptr' = [ptr EXCEPT ![t] = NoObject]
        /\ stored' \in {stored, ptr[t]} /\ UNCHANGED <<field, copy, disturbed>>
    BY <1>7 DEF UpdateDone, UpdateRefused
  <2>2. at'[r] = at[r] /\ ptr'[r] = ptr[r] /\ (stored # NoObject => stored' # NoObject)
    BY <1>0, <1>7, <2>1 DEF TaskTypeOK, BusyHasObject
  <2> QED BY <1>0, <2>1, <2>2, CopyKept DEF CopiesInv
<1> QED BY <1>1, <1>2, <1>3, <1>4, <1>5, <1>6, <1>7 DEF Step

-----------------------------------------------------------------------------
(* Firmwares without updates: only set changes anything, and it works on an *)
(* object that no reader has.                                               *)

LEMMA ReadersStep ==
  ASSUME TaskInv, NoUpdater, NEW t \in built, Step(t), UNCHANGED built
  PROVE  ReadersInv'
<1> USE GwTaskInterfacesAssumption, VersionFacts
<1>0. /\ t \in Task /\ t \notin Updaters /\ TaskTypeOK /\ TaskTypeOK' /\ BusyHasObject
      /\ NothingStored /\ NoLostUpdate
  BY StepTaskTyped DEF TaskTypeOK, TaskInv, NoUpdater, TaskNext
<1>1. /\ lock = Nobody /\ \A o \in Object : Uniform(o)
      /\ \A r \in Readers : Copying(r) /\ Knows(r)
  BY DEF TaskInv, ReadersInv
<1> SUFFICES /\ lock' = Nobody /\ \A o \in Object : Uniform(o)'
             /\ \A r \in Readers : Copying(r)' /\ Knows(r)'
  BY DEF ReadersInv
<1>2. CASE \E v \in Version : Set(t, v)
  <2>1. PICK v \in Version, o \in Unreferenced :
          /\ field' = [field EXCEPT ![o] = [f \in Field |-> v]] /\ stored' = o
          /\ updates' = (IF stored = NoObject THEN 0 ELSE updates + 1)
          /\ expected' = v /\ UNCHANGED <<lock, ptr, at, copy, result, known>>
    BY <1>2 DEF Set, Count
  <2>2. \A p \in Object : Uniform(p)'
    BY <1>0, <1>1, <2>1 DEF Uniform, TaskTypeOK
  <2>3. ASSUME NEW r \in Readers PROVE Copying(r)' /\ Knows(r)'
    <3>1. Copying(r) /\ Knows(r)
      BY <1>1
    <3>2. Copying(r)'
      <4> SUFFICES ASSUME at[r] # -1 PROVE Copying(r)'
        BY <2>1 DEF Copying
      <4>1. ptr[r] # o /\ ptr[r] \in Object /\ o \in Object /\ r \in Task
        BY <1>0, <2>1 DEF Unreferenced, BusyHasObject, Task
      <4>2. field'[ptr[r]] = field[ptr[r]]
        BY <1>0, <2>1, <4>1 DEF TaskTypeOK
      <4>3. updates \in Nat /\ updates' = updates + 1 /\ stored' # NoObject
        BY <1>0, <2>1, <3>1, <4>1 DEF Copying, TaskTypeOK
      <4> QED BY <2>1, <3>1, <4>2, <4>3 DEF Copying
    <3>3. Knows(r)'
      <4>1. updates \in Nat /\ known[r].result \in Int /\ known[r].result <= updates
        BY <1>0, <3>1 DEF Knows, TaskTypeOK
      <4>2. CASE stored = NoObject
        BY <1>0, <2>1, <3>1, <4>1, <4>2 DEF Knows, NothingStored
      <4>3. CASE stored # NoObject
        BY <2>1, <3>1, <4>1, <4>3 DEF Knows
      <4> QED BY <4>2, <4>3
    <3> QED BY <3>2, <3>3
  <2> QED BY <1>1, <2>1, <2>2, <2>3
<1>3. CASE t \in Readers /\ Get(t)
  <2>1. stored \in Object /\ NoLostUpdate
    BY <1>0, <1>3 DEF Get, TaskTypeOK
  <2>2. field[stored][1] = expected
    BY <1>1, <1>3, <2>1 DEF NoLostUpdate, Get
  <2>3. ASSUME NEW r \in Readers PROVE Copying(r)' /\ Knows(r)'
    <3>1. Copying(r) /\ Knows(r) /\ r \in Task
      BY <1>1 DEF Task
    <3>2. CASE r = t
      <4>1. ptr'[t] = stored /\ result'[t] = updates /\ at'[t] = 0
        BY <1>0, <1>3 DEF Get, TaskTypeOK
      <4>2. UNCHANGED <<stored, updates, field, known, expected>>
        BY <1>3 DEF Get
      <4>3. updates \in Nat
        BY <1>0 DEF TaskTypeOK
      <4>4. Copying(t)'
        BY <1>3, <2>2, <3>1, <3>2, <4>1, <4>2, <4>3 DEF Copying, Knows, Get
      <4> QED BY <3>1, <3>2, <4>2, <4>4 DEF Knows
    <3>3. CASE r # t
      BY <1>0, <1>3, <3>1, <3>3 DEF Get, Copying, Knows, TaskTypeOK
    <3> QED BY <3>2, <3>3
  <2> QED BY <1>1, <1>3, <2>3 DEF Get, Uniform
<1>4. CASE t \in Readers /\ GetNothing(t)
  <2>1. ASSUME NEW r \in Readers PROVE Copying(r)' /\ Knows(r)'
    <3>1. Copying(r) /\ Knows(r) /\ known[r].result = -1 /\ updates = 0
      BY <1>0, <1>1, <1>4 DEF GetNothing, NothingStored
    <3>2. at[r] = -1
      BY <1>4, <3>1 DEF GetNothing, Copying
    <3>3. known'[r].result = -1 /\ known'[r].version = 0
      BY <1>0, <1>4, <3>1 DEF GetNothing, Knows, TaskTypeOK
    <3> QED BY <1>4, <3>1, <3>2, <3>3 DEF GetNothing, Copying, Knows
  <2> QED BY <1>1, <1>4, <2>1 DEF GetNothing, Uniform
<1>5. CASE t \in Readers /\ CopyField(t)
  <2>1. /\ UNCHANGED <<lock, stored, updates, field, ptr, result, known, expected>>
        /\ at' = [at EXCEPT ![t] = @ + 1]
        /\ copy' = [copy EXCEPT ![t][at[t] + 1] = field[ptr[t]][at[t] + 1]]
    BY <1>5 DEF CopyField
  <2>2. at[t] \in 0..(Fields - 1) /\ ptr[t] \in Object /\ at[t] + 1 \in Field
    BY <1>0, <1>5 DEF CopyField, BusyHasObject, TaskTypeOK, Field
  <2>3. field[ptr[t]][at[t] + 1] = field[ptr[t]][1]
    BY <1>1, <2>2 DEF Uniform
  <2>4. ASSUME NEW r \in Readers PROVE Copying(r)' /\ Knows(r)'
    <3>1. Copying(r) /\ Knows(r) /\ r \in Task
      BY <1>1 DEF Task
    <3>2. CASE r = t
      <4>1. at'[t] = at[t] + 1
        BY <1>0, <2>1 DEF TaskTypeOK
      <4>2. \A f \in 1..at[t] : f # at[t] + 1 /\ f \in Field
        BY <2>2 DEF Field
      <4>3. copy'[t] = [copy[t] EXCEPT ![at[t] + 1] = field[ptr[t]][1]]
        BY <1>0, <1>5, <2>1, <2>3 DEF TaskTypeOK
      <4>4. copy[t] \in [Field -> Version]
        BY <1>0, <1>5 DEF TaskTypeOK
      <4>5. \A f \in 1..(at[t] + 1) : copy'[t][f] = field[ptr[t]][1]
        <5>1. \A f \in 1..(at[t] + 1) : f \in 1..at[t] \/ f = at[t] + 1
          BY <2>2
        <5>2. \A f \in 1..at[t] : copy[t][f] = field[ptr[t]][1]
          BY <2>2, <3>1, <3>2 DEF Copying
        <5> QED BY <2>2, <4>2, <4>3, <4>4, <5>1, <5>2
      <4> QED BY <2>1, <2>2, <3>1, <3>2, <4>1, <4>5 DEF Copying, Knows
    <3>3. CASE r # t
      BY <1>0, <2>1, <3>1, <3>3 DEF Copying, Knows, TaskTypeOK
    <3> QED BY <3>2, <3>3
  <2> QED BY <1>1, <2>1, <2>4 DEF Uniform
<1>6. CASE t \in Readers /\ Return(t)
  <2>1. ASSUME NEW r \in Readers PROVE Copying(r)' /\ Knows(r)'
    <3>1. Copying(r) /\ Knows(r) /\ r \in Task
      BY <1>1 DEF Task
    <3>2. CASE r = t
      <4>1. /\ at'[t] = -1 /\ known'[t].result = result[t]
            /\ known'[t].version = copy[t][Fields]
        BY <1>0, <1>6 DEF Return, TaskTypeOK
      <4>2. at[t] = Fields /\ at[t] # -1 /\ Fields \in 1..Fields
        BY <1>6 DEF Return
      <4>3. /\ copy[t][Fields] = field[ptr[t]][1] /\ result[t] \in 0..updates
            /\ result[t] = updates => field[ptr[t]][1] = expected
        BY <3>1, <3>2, <4>2 DEF Copying
      <4>4. UNCHANGED <<updates, expected>> /\ updates \in Nat
        BY <1>0, <1>6 DEF Return, TaskTypeOK
      <4>5. Knows(t)'
        BY <4>1, <4>3, <4>4 DEF Knows
      <4> QED BY <3>2, <4>1, <4>5 DEF Copying
    <3>3. CASE r # t
      BY <1>0, <1>6, <3>1, <3>3 DEF Return, Copying, Knows, TaskTypeOK
    <3> QED BY <3>2, <3>3
  <2> QED BY <1>1, <1>6, <2>1 DEF Return, Uniform
<1> QED BY <1>0, <1>2, <1>3, <1>4, <1>5, <1>6 DEF Step

-----------------------------------------------------------------------------
(* Whoever updates holds the lock.                                          *)

LEMMA UpdatersStep ==
  ASSUME TaskInv, NEW t \in built, Step(t), UNCHANGED built
  PROVE  UpdatersInv'
<1> USE GwTaskInterfacesAssumption, VersionFacts
<1>0. /\ t \in Task /\ Task \cap {Nobody} = {} /\ NoObject \notin Object
      /\ Updaters \subseteq Task /\ Updaters \cap Readers = {}
      /\ TaskTypeOK /\ TaskTypeOK' /\ BusyHasObject /\ NothingStored /\ NoLostUpdate
  BY StepTaskTyped DEF TaskTypeOK, TaskInv, TaskNext, Task
<1>1. /\ \A u \in Updaters : at[u] # -1 => lock = u
      /\ lock # Nobody =>
           /\ at[lock] # -1
           /\ stored # NoObject => ptr[lock] = stored
           /\ \A f \in Field : field[ptr[lock]][f] =
                                 (IF f <= at[lock] THEN NextVersion(expected) ELSE expected)
  BY DEF TaskInv, UpdatersInv
<1>2. CASE \E v \in Version : Set(t, v)
  BY <1>1, <1>2 DEF Set, Free, UpdatersInv
<1>3. CASE t \in Updaters /\ Update(t)
  <2>1. /\ lock = Nobody /\ lock' = t /\ at' = [at EXCEPT ![t] = 0]
        /\ UNCHANGED <<stored, expected>>
    BY <1>3 DEF Update, UpdateLock, Free
  <2>2. at'[t] = 0 /\ \A u \in Updaters : at'[u] # -1 => u = t
    BY <1>0, <1>1, <2>1 DEF TaskTypeOK
  <2>3. (stored # NoObject => ptr'[t] = stored) /\ \A f \in Field : field'[ptr'[t]][f] = expected
    <3>1. CASE stored # NoObject
      BY <1>0, <1>3, <2>1, <3>1 DEF Update, NoLostUpdate, Free, TaskTypeOK
    <3>2. CASE stored = NoObject
      BY <1>0, <1>3, <3>2 DEF Update, NothingStored, Unreferenced, TaskTypeOK
    <3> QED BY <3>1, <3>2
  <2>4. \A f \in Field : ~(f <= 0)
    BY DEF Field
  <2> QED BY <2>1, <2>2, <2>3, <2>4 DEF UpdatersInv
<1>4. CASE t \in Updaters /\ ChangeField(t)
  <2>1. /\ UNCHANGED <<lock, stored, ptr, expected>> /\ at' = [at EXCEPT ![t] = @ + 1]
        /\ field' = [field EXCEPT ![ptr[t]][at[t] + 1] = NextVersion(@)]
    BY <1>4 DEF ChangeField
  <2>2. /\ at[t] \in 0..(Fields - 1) /\ at[t] # -1 /\ ptr[t] \in Object
        /\ at[t] + 1 \in Field /\ lock = t
    BY <1>0, <1>1, <1>4 DEF ChangeField, BusyHasObject, Field
  <2>3. at'[t] = at[t] + 1 /\ \A u \in Updaters : u # t => at'[u] = at[u]
    BY <1>0, <2>1 DEF TaskTypeOK
  <2>4. field'[ptr[t]] = [field[ptr[t]] EXCEPT ![at[t] + 1] = NextVersion(@)]
    BY <1>0, <2>1, <2>2 DEF TaskTypeOK
  <2>5. field[ptr[t]] \in [Field -> Version]
    BY <1>0, <2>2 DEF TaskTypeOK
  <2>6. ASSUME NEW f \in Field
        PROVE  field'[ptr[t]][f] = (IF f <= at[t] + 1 THEN NextVersion(expected) ELSE expected)
    <3>1. field[ptr[t]][f] = (IF f <= at[t] THEN NextVersion(expected) ELSE expected)
      BY <1>0, <1>1, <2>2
    <3>2. CASE f = at[t] + 1
      BY <2>2, <2>4, <2>5, <3>1, <3>2 DEF Field
    <3>3. CASE f # at[t] + 1
      <4>1. field'[ptr[t]][f] = field[ptr[t]][f]
        BY <2>4, <2>5, <3>3
      <4> QED BY <2>2, <3>1, <3>3, <4>1 DEF Field
    <3> QED BY <3>2, <3>3
  <2>7. at'[t] # -1
    BY <2>2, <2>3
  <2> QED BY <1>0, <1>1, <2>1, <2>2, <2>3, <2>6, <2>7 DEF UpdatersInv
<1>5. CASE t \in Updaters /\ (UpdateDone(t) \/ UpdateRefused(t))
  <2>1. lock' = Nobody /\ at' = [at EXCEPT ![t] = -1] /\ at[t] # -1
    BY <1>5 DEF UpdateDone, UpdateRefused
  <2>2. \A u \in Updaters : at'[u] = -1
    <3>1. lock = t
      BY <1>1, <1>5, <2>1
    <3> QED BY <1>0, <1>1, <2>1, <3>1 DEF TaskTypeOK
  <2> QED BY <2>1, <2>2 DEF UpdatersInv
<1>6. CASE t \in Readers /\ (Get(t) \/ GetNothing(t) \/ CopyField(t) \/ Return(t))
  <2>1. \A u \in Task : u # t => at'[u] = at[u] /\ ptr'[u] = ptr[u]
    BY <1>0, <1>6 DEF Get, GetNothing, CopyField, Return, TaskTypeOK
  <2>2. UNCHANGED <<lock, stored, field, expected>>
    BY <1>6 DEF Get, GetNothing, CopyField, Return
  <2>3. lock # Nobody => lock \in Updaters /\ lock # t /\ lock \in Task
    BY <1>0, <1>6 DEF TaskTypeOK
  <2>4. \A u \in Updaters : u # t
    BY <1>0, <1>6
  <2> QED BY <1>0, <1>1, <2>1, <2>2, <2>3, <2>4 DEF UpdatersInv
<1> QED BY <1>2, <1>3, <1>4, <1>5, <1>6 DEF Step

-----------------------------------------------------------------------------
(* Outside the lock the stored object has the value the calls have left.    *)

LEMMA StepNoLostUpdate ==
  ASSUME TaskInv, NEW t \in built, Step(t), UNCHANGED built
  PROVE  NoLostUpdate'
<1> USE GwTaskInterfacesAssumption, VersionFacts
<1>0. t \in Task /\ t # Nobody /\ TaskTypeOK /\ TaskTypeOK' /\ BusyHasObject /\ NoLostUpdate
  BY StepTaskTyped DEF TaskTypeOK, TaskInv, TaskNext
<1>1. CASE \E v \in Version : Set(t, v)
  BY <1>0, <1>1 DEF Set, Unreferenced, NoLostUpdate, TaskTypeOK
<1>2. CASE Get(t) \/ GetNothing(t) \/ CopyField(t) \/ Return(t)
  BY <1>0, <1>2 DEF Get, GetNothing, CopyField, Return, NoLostUpdate, Free
<1>3. CASE t \in Updaters /\ (Update(t) \/ ChangeField(t))
  <2>1. lock' # Nobody
    <3>1. CASE Update(t)
      BY <1>0, <3>1 DEF Update, UpdateLock
    <3>2. CASE ChangeField(t)
      <4>1. at[t] # -1
        BY <3>2 DEF ChangeField
      <4> QED BY <1>0, <1>3, <3>2, <4>1 DEF ChangeField, TaskInv, UpdatersInv
    <3> QED BY <1>3, <3>1, <3>2
  <2> QED BY <2>1 DEF NoLostUpdate, Free
<1>4. CASE t \in Updaters /\ (UpdateDone(t) \/ UpdateRefused(t))
  <2>1. at[t] # -1
    BY <1>4 DEF UpdateDone, UpdateRefused
  <2>2. /\ lock = t
        /\ stored # NoObject => ptr[t] = stored
        /\ \A f \in Field : field[ptr[t]][f] =
                              (IF f <= at[t] THEN NextVersion(expected) ELSE expected)
    BY <1>0, <1>4, <2>1 DEF TaskInv, UpdatersInv
  <2>3. CASE UpdateDone(t)
    BY <2>2, <2>3 DEF UpdateDone, NoLostUpdate, Field
  <2>4. CASE UpdateRefused(t)
    <3>1. \A f \in Field : ~(f <= 0)
      BY DEF Field
    <3> QED BY <2>2, <2>4, <3>1 DEF UpdateRefused, NoLostUpdate
  <2> QED BY <1>4, <2>3, <2>4
<1> QED BY <1>1, <1>2, <1>3, <1>4 DEF Step

LEMMA StepTaskInv == TaskInv /\ [TaskNext]_taskVars => TaskInv'
<1> SUFFICES ASSUME TaskInv, [TaskNext]_taskVars PROVE TaskInv'
  OBVIOUS
<1>1. TaskTypeOK'
  BY StepTaskTyped DEF TaskInv
<1>2. CASE UNCHANGED taskVars
  BY <1>1, <1>2
     DEF TaskInv, taskVars, BusyHasObject, NothingStored, CopiesInv, ReadersInv, UpdatersInv, NoUpdater,
         Uniform, Copying, Knows, NoLostUpdate, Free
<1>3. ASSUME NEW t \in built, Step(t), UNCHANGED built
      PROVE  TaskInv'
  <2>1. BusyHasObject' /\ NothingStored' /\ CopiesInv' /\ UpdatersInv' /\ NoLostUpdate'
    BY <1>3, StepBusy, StepNothingStored, StepCopies, UpdatersStep, StepNoLostUpdate
  <2>2. ReadersInv'
    <3>1. CASE NoUpdater
      BY <1>3, <3>1, ReadersStep
    <3>2. CASE ~NoUpdater
      BY <1>3, <3>2 DEF ReadersInv, NoUpdater
    <3> QED BY <3>1, <3>2
  <2> QED BY <1>1, <2>1, <2>2 DEF TaskInv
<1> QED BY <1>2, <1>3 DEF TaskNext

-----------------------------------------------------------------------------
LEMMA TaskInvAlways == TaskSpec => []TaskInv
<1> QED BY InitTaskInv, StepTaskInv, PTL DEF TaskSpec

(* The storage, the objects and what the tasks copy keep their types.       *)
THEOREM TasksTyped == TaskSpec => []TaskTypeOK
<1>1. TaskInv => TaskTypeOK
  BY DEF TaskInv
<1> QED BY <1>1, TaskInvAlways, PTL

(* For any number of fields and of tasks, and whatever they do between the  *)
(* copies of two fields: get returns a mixture only if an update worked on  *)
(* the very object it was copying. What set stores has no other user, and   *)
(* what a reader copies is not freed before the copy is complete            *)
(* (DECLARE_TASKIF_IMPL, get and set).                                      *)
THEOREM Whole == TaskSpec => []TornOnlyByUpdate
<1>1. TaskInv => TornOnlyByUpdate
  <2> SUFFICES ASSUME TaskInv, NEW t \in Readers, at[t] = Fields, ~disturbed[t],
                      NEW f \in Field, NEW g \in Field
               PROVE  copy[t][f] = copy[t][g]
    BY DEF TornOnlyByUpdate
  <2>1. at[t] # -1 /\ f \in 1..at[t] /\ g \in 1..at[t] /\ disturbed[t] = FALSE
    BY GwTaskInterfacesAssumption DEF TaskInv, TaskTypeOK, Field
  <2> QED BY <2>1 DEF TaskInv, CopiesInv
<1> QED BY <1>1, TaskInvAlways, PTL

(* Updates and sets never overwrite each other, for any number of tasks     *)
(* (TaskInterfacesStorage::set and update).                                 *)
THEOREM NothingLost == TaskSpec => []NoLostUpdate
<1>1. TaskInv => NoLostUpdate
  BY DEF TaskInv
<1> QED BY <1>1, TaskInvAlways, PTL

(* Where nobody updates, two results of get that are the same belong to the *)
(* same value (TaskInterfacesStorage::set).                                 *)
THEOREM Noticed == TaskSpec => ChangesNoticed
<1> DEFINE A == built \cap Updaters = {} =>
                  \A t \in Readers :
                    known'[t].result = known[t].result => known'[t].version = known[t].version
<1>1. TaskInv /\ [TaskNext]_taskVars => [A]_taskVars
  <2> SUFFICES ASSUME TaskInv, NoUpdater, NEW t \in built, Step(t), NEW r \in Readers,
                      known'[r].result = known[r].result
               PROVE  known'[r].version = known[r].version
    BY DEF TaskNext, NoUpdater
  <2>0. TaskTypeOK /\ t \in Task
    BY GwTaskInterfacesAssumption DEF TaskInv, TaskTypeOK
  <2>1. CASE t \in Readers /\ GetNothing(t)
    <3>1. known[r].result = -1 /\ known[r].version = 0
      BY <2>1 DEF GetNothing, TaskInv, NothingStored, ReadersInv, Knows
    <3> QED BY <2>0, <2>1, <3>1 DEF GetNothing, TaskTypeOK
  <2>2. CASE t \in Readers /\ Return(t)
    <3>1. at[t] # -1 /\ Fields \in 1..at[t]
      BY <2>0, <2>2, GwTaskInterfacesAssumption DEF Return
    <3>2. Copying(t)
      BY <2>2 DEF TaskInv, ReadersInv
    <3>3. known' = [known EXCEPT ![t] = [result |-> result[t], version |-> copy[t][Fields]]]
      BY <2>2 DEF Return
    <3> QED BY <2>0, <2>2, <3>1, <3>2, <3>3 DEF Copying, TaskTypeOK
  <2>3. CASE UNCHANGED known
    BY <2>3
  <2> QED BY <2>1, <2>2, <2>3
          DEF Step, Set, Get, CopyField, Update, ChangeField, UpdateDone, UpdateRefused
<1> QED BY <1>1, TaskInvAlways, PTL DEF TaskSpec, ChangesNoticed

-----------------------------------------------------------------------------
(* GwLog *)

(* OnlyLog: the function it is defined by                                   *)
Counts(f, s, n) ==
  f = [i \in 0..n |-> IF i = 0 THEN << >>
                      ELSE IF IsLog(s[i]) THEN Append(f[i - 1], s[i]) ELSE f[i - 1]]

LEMMA CountsExists ==
  ASSUME NEW s, NEW n \in Nat
  PROVE  \E f : Counts(f, s, n)
<1> DEFINE S == {k \in 0..n : \E f : Counts(f, s, k)}
<1>1. 0 \in S
  <2>1. Counts([i \in 0..0 |-> << >>], s, 0)
    BY DEF Counts
  <2> QED BY <2>1
<1>2. ASSUME NEW k \in 0..(n - 1), k \in S PROVE k + 1 \in S
  <2>1. PICK f : Counts(f, s, k)
    BY <1>2
  <2> DEFINE next == IF IsLog(s[k + 1]) THEN Append(f[k], s[k + 1]) ELSE f[k]
             g == [i \in 0..(k + 1) |-> IF i = k + 1 THEN next ELSE f[i]]
  <2>2. /\ \A i \in 0..k : g[i] = f[i]
        /\ g[k + 1] = next /\ DOMAIN g = 0..(k + 1)
    OBVIOUS
  <2>3. \A i \in 0..k : f[i] = IF i = 0 THEN << >>
                               ELSE IF IsLog(s[i]) THEN Append(f[i - 1], s[i]) ELSE f[i - 1]
    BY <2>1 DEF Counts
  <2>4. \A i \in 0..(k + 1) :
          g[i] = IF i = 0 THEN << >>
                 ELSE IF IsLog(s[i]) THEN Append(g[i - 1], s[i]) ELSE g[i - 1]
    <3> SUFFICES ASSUME NEW i \in 0..(k + 1)
                 PROVE  g[i] = IF i = 0 THEN << >>
                               ELSE IF IsLog(s[i]) THEN Append(g[i - 1], s[i]) ELSE g[i - 1]
      OBVIOUS
    <3>1. CASE i = k + 1
      <4>1. g[k] = f[k] /\ k + 1 # 0 /\ (k + 1) - 1 = k
        BY <2>2
      <4> HIDE DEF g
      <4> QED BY <2>2, <3>1, <4>1
    <3>2. CASE i \in 0..k
      <4>1. g[i] = f[i] /\ (i # 0 => g[i - 1] = f[i - 1])
        BY <2>2, <3>2
      <4> HIDE DEF g
      <4> QED BY <2>3, <3>2, <4>1
    <3>3. i = k + 1 \/ i \in 0..k
      OBVIOUS
    <3> QED BY <3>1, <3>2, <3>3
  <2>5. Counts(g, s, k + 1)
    BY <2>4 DEF Counts
  <2> QED BY <2>5
<1> HIDE DEF S
<1>3. n \in S
  BY <1>1, <1>2, SetInduction
<1> QED BY <1>3 DEF S

(* OnlyLog goes through a sequence unit by unit.                            *)
Follows(f, s) ==
  /\ f[0] = << >>
  /\ \A k \in 0..(Len(s) - 1) :
       f[k + 1] = IF IsLog(s[k + 1]) THEN Append(f[k], s[k + 1]) ELSE f[k]
  /\ \A k \in 0..Len(s) : f[k] \in Seq(LogUnit)

LEMMA OnlyLogFollows ==
  ASSUME NEW s \in Seq(Unit)
  PROVE  \E f : Follows(f, s) /\ OnlyLog(s) = f[Len(s)]
<1> DEFINE f == CHOOSE g : Counts(g, s, Len(s))
<1>1. Len(s) \in Nat
  BY LenProperties
<1>2. Counts(f, s, Len(s))
  BY <1>1, CountsExists
<1>3. OnlyLog(s) = f[Len(s)]
  BY DEF OnlyLog, Counts
<1> HIDE DEF f
<1>4. f[0] = << >>
  BY <1>1, <1>2 DEF Counts
<1>5. \A k \in 0..(Len(s) - 1) :
        f[k + 1] = IF IsLog(s[k + 1]) THEN Append(f[k], s[k + 1]) ELSE f[k]
  <2>1. \A k \in 0..(Len(s) - 1) : k + 1 \in 0..Len(s) /\ k + 1 # 0 /\ (k + 1) - 1 = k
    BY <1>1
  <2> QED BY <1>2, <2>1 DEF Counts
<1> DEFINE S == {k \in 0..Len(s) : f[k] \in Seq(LogUnit)}
<1>6. 0 \in S
  <2>1. << >> \in Seq(LogUnit)
    BY EmptySeq
  <2>2. 0 \in 0..Len(s)
    BY <1>1
  <2> QED BY <1>4, <2>1, <2>2, Zenon
<1>7. ASSUME NEW k \in 0..(Len(s) - 1), k \in S PROVE k + 1 \in S
  <2>1. k + 1 \in 0..Len(s) /\ f[k] \in Seq(LogUnit)
    BY <1>1, <1>7
  <2>2. IsLog(s[k + 1]) => Append(f[k], s[k + 1]) \in Seq(LogUnit)
    BY <2>1, AppendProperties DEF IsLog
  <2>3. f[k + 1] \in Seq(LogUnit)
    BY <1>5, <2>1, <2>2
  <2> QED BY <2>1, <2>3
<1>8. 0..Len(s) \subseteq S
  <2> HIDE DEF S
  <2> QED BY <1>1, <1>6, <1>7, SetInduction
<1>9. Follows(f, s)
  BY <1>4, <1>5, <1>8 DEF Follows
<1> QED BY <1>3, <1>9

LEMMA OnlyLogConcat ==
  ASSUME NEW s \in Seq(Unit), NEW r \in Seq(Unit)
  PROVE  OnlyLog(s \o r) = OnlyLog(s) \o OnlyLog(r) /\ OnlyLog(s) \in Seq(LogUnit)
<1> DEFINE q == s \o r
<1>1. /\ q \in Seq(Unit) /\ Len(q) = Len(s) + Len(r)
      /\ (\A i \in 1..Len(s) : q[i] = s[i]) /\ (\A i \in 1..Len(r) : q[Len(s) + i] = r[i])
      /\ Len(s) \in Nat /\ Len(r) \in Nat
  BY LenProperties, ConcatProperties
<1> HIDE DEF q
<1>2. PICK f : Follows(f, s) /\ OnlyLog(s) = f[Len(s)]
  BY OnlyLogFollows
<1>3. PICK g : Follows(g, r) /\ OnlyLog(r) = g[Len(r)]
  BY OnlyLogFollows
<1>4. PICK h : Follows(h, q) /\ OnlyLog(q) = h[Len(q)]
  BY <1>1, OnlyLogFollows
<1>5. f[Len(s)] \in Seq(LogUnit)
  BY <1>1, <1>2 DEF Follows
<1> DEFINE S == {k \in 0..Len(s) : h[k] = f[k]}
           R == {k \in 0..Len(r) : h[Len(s) + k] = f[Len(s)] \o g[k]}
<1>6. 0 \in S
  BY <1>1, <1>2, <1>4 DEF Follows
<1>7. ASSUME NEW k \in 0..(Len(s) - 1), k \in S PROVE k + 1 \in S
  <2>1. k \in 0..(Len(q) - 1) /\ k + 1 \in 1..Len(s) /\ k + 1 \in 0..Len(s)
    BY <1>1
  <2>2. f[k + 1] = IF IsLog(s[k + 1]) THEN Append(f[k], s[k + 1]) ELSE f[k]
    BY <1>2 DEF Follows
  <2>3. h[k + 1] = IF IsLog(q[k + 1]) THEN Append(h[k], q[k + 1]) ELSE h[k]
    BY <1>4, <2>1 DEF Follows
  <2>4. q[k + 1] = s[k + 1] /\ h[k] = f[k]
    BY <1>1, <1>7, <2>1
  <2> QED BY <2>1, <2>2, <2>3, <2>4
<1>8. h[Len(s)] = f[Len(s)]
  <2>1. 0..Len(s) \subseteq S
    <3> HIDE DEF S
    <3> QED BY <1>1, <1>6, <1>7, SetInduction
  <2> QED BY <1>1, <2>1
<1>9. 0 \in R
  <2>1. h[Len(s) + 0] = f[Len(s)]
    BY <1>1, <1>8
  <2>2. g[0] = << >>
    BY <1>3 DEF Follows
  <2>3. f[Len(s)] \o << >> = f[Len(s)]
    BY <1>5, ConcatEmptySeq
  <2>4. 0 \in 0..Len(r)
    BY <1>1
  <2> QED BY <2>1, <2>2, <2>3, <2>4
<1>10. ASSUME NEW k \in 0..(Len(r) - 1), k \in R PROVE k + 1 \in R
  <2>1. /\ k + 1 \in 1..Len(r) /\ k + 1 \in 0..Len(r) /\ k \in 0..Len(r)
        /\ Len(s) + k \in 0..(Len(q) - 1)
        /\ (Len(s) + k) + 1 = Len(s) + (k + 1)
    BY <1>1
  <2> DEFINE n == Len(s) + k
  <2>2. g[k + 1] = IF IsLog(r[k + 1]) THEN Append(g[k], r[k + 1]) ELSE g[k]
    BY <1>3 DEF Follows
  <2>3. h[n + 1] = IF IsLog(q[n + 1]) THEN Append(h[n], q[n + 1]) ELSE h[n]
    BY <1>4, <2>1 DEF Follows
  <2>4. q[n + 1] = r[k + 1]
    <3>1. q[Len(s) + (k + 1)] = r[k + 1]
      BY <1>1, <2>1
    <3> QED BY <2>1, <3>1
  <2>5. h[n] = f[Len(s)] \o g[k] /\ g[k] \in Seq(LogUnit)
    BY <1>3, <1>10, <2>1 DEF Follows
  <2>6. ASSUME NEW a \in Seq(LogUnit), NEW b \in Seq(LogUnit), NEW u \in LogUnit
        PROVE  Append(a \o b, u) = a \o Append(b, u)
    <3>1. a \o b \in Seq(LogUnit) /\ <<u>> \in Seq(LogUnit)
      BY ConcatProperties
    <3>2. Append(a \o b, u) = (a \o b) \o <<u>> /\ Append(b, u) = b \o <<u>>
      BY <3>1, AppendIsConcat
    <3> QED BY <3>1, <3>2, ConcatAssociative
  <2> HIDE DEF n
  <2>7. h[n + 1] = f[Len(s)] \o g[k + 1]
    <3>1. CASE ~IsLog(r[k + 1])
      BY <2>2, <2>3, <2>4, <2>5, <3>1
    <3>2. CASE IsLog(r[k + 1])
      <4>1. h[n + 1] = Append(h[n], r[k + 1]) /\ g[k + 1] = Append(g[k], r[k + 1])
        BY <2>2, <2>3, <2>4, <3>2
      <4>2. Append(f[Len(s)] \o g[k], r[k + 1]) = f[Len(s)] \o Append(g[k], r[k + 1])
        BY <1>5, <2>5, <2>6, <3>2 DEF IsLog
      <4> QED BY <2>5, <4>1, <4>2
    <3> QED BY <3>1, <3>2
  <2> QED BY <2>1, <2>7 DEF n
<1>11. h[Len(q)] = f[Len(s)] \o g[Len(r)]
  <2>1. 0..Len(r) \subseteq R
    <3> HIDE DEF R
    <3> QED BY <1>1, <1>9, <1>10, SetInduction
  <2>2. Len(r) \in R
    <3> HIDE DEF R
    <3> QED BY <1>1, <2>1
  <2> QED BY <1>1, <2>2
<1> QED BY <1>2, <1>3, <1>4, <1>5, <1>11 DEF q

LEMMA OnlyLogOfLog ==
  ASSUME NEW s \in Seq(LogUnit)
  PROVE  OnlyLog(s) = s
<1>1. s \in Seq(Unit) /\ Len(s) \in Nat
  BY LenProperties, SeqMonotonic DEF Unit
<1>2. PICK f : Follows(f, s) /\ OnlyLog(s) = f[Len(s)]
  BY <1>1, OnlyLogFollows
<1> DEFINE S == {k \in 0..Len(s) : f[k] = SubSeq(s, 1, k)}
<1>3. 0 \in S
  BY <1>1, <1>2, SubSeqEmpty DEF Follows
<1>4. ASSUME NEW k \in 0..(Len(s) - 1), k \in S PROVE k + 1 \in S
  <2>1. k + 1 \in 1..Len(s) /\ k + 1 \in 0..Len(s) /\ f[k] = SubSeq(s, 1, k)
    BY <1>1, <1>4
  <2>2. s[k + 1] \in LogUnit
    BY <2>1, ElementOfSeq
  <2>3. f[k + 1] = Append(f[k], s[k + 1])
    BY <1>2, <2>2 DEF Follows, IsLog
  <2>4. Append(SubSeq(s, 1, k), s[k + 1]) = SubSeq(s, 1, k + 1)
    <3>1. SubSeq(s, 1, k + 1) = SubSeq(s, 1, (k + 1) - 1) \o <<s[k + 1]>>
      BY <1>1, <2>1, SubSeqRecursiveSecond
    <3>2. (k + 1) - 1 = k /\ SubSeq(s, 1, k) \in Seq(LogUnit)
      <4>1. \A i \in 1..k : s[i] \in LogUnit
        BY <1>1, <2>1, ElementOfSeq
      <4> QED BY <1>1, <4>1, SubSeqProperties
    <3> QED BY <2>2, <3>1, <3>2, AppendIsConcat
  <2> QED BY <2>1, <2>3, <2>4
<1>5. f[Len(s)] = SubSeq(s, 1, Len(s))
  <2>1. 0..Len(s) \subseteq S
    <3> HIDE DEF S
    <3> QED BY <1>1, <1>3, <1>4, SetInduction
  <2> QED BY <1>1, <2>1
<1> QED BY <1>2, <1>5, SubSeqFull

LEMMA OnlyLogOfSentence == OnlyLog(Sentence) = << >>
<1>1. Sentence \in Seq(Unit) /\ Len(Sentence) = 2
  BY DEF Sentence, Unit
<1>2. PICK f : Follows(f, Sentence) /\ OnlyLog(Sentence) = f[Len(Sentence)]
  BY <1>1, OnlyLogFollows
<1>3. ~IsLog(Sentence[1]) /\ ~IsLog(Sentence[2])
  BY GwLogAssumption DEF Sentence, IsLog, LogUnit
<1>4. f[0] = << >> /\ f[0 + 1] = f[0] /\ f[1 + 1] = f[1]
  <2>1. 0 \in 0..(Len(Sentence) - 1) /\ 1 \in 0..(Len(Sentence) - 1)
    BY <1>1
  <2> QED BY <1>2, <1>3, <2>1 DEF Follows
<1> QED BY <1>1, <1>2, <1>4

LEMMA RestFacts ==
  ASSUME NEW S, NEW s \in Seq(S), NEW n \in 0..Len(s)
  PROVE  /\ Rest(s, n) \in Seq(S) /\ Len(Rest(s, n)) = Len(s) - n
         /\ SubSeq(s, 1, n) \in Seq(S) /\ Len(SubSeq(s, 1, n)) = n
         /\ SubSeq(s, 1, n) \o Rest(s, n) = s
<1>1. Len(s) \in Nat /\ n \in Nat /\ \A i \in 1..Len(s) : s[i] \in S
  BY LenProperties
<1>2. /\ Rest(s, n) \in Seq(S) /\ Len(Rest(s, n)) = Len(s) - n
      /\ SubSeq(s, 1, n) \in Seq(S) /\ Len(SubSeq(s, 1, n)) = n
  BY <1>1, SubSeqProperties DEF Rest
<1>3. SubSeq(s, 1, n) \o SubSeq(s, n + 1, Len(s)) = SubSeq(s, 1, Len(s))
  <2>1. 1 \in 1..(Len(s) + 1) /\ n \in (1 - 1)..Len(s) /\ Len(s) \in n..Len(s)
    BY <1>1
  <2> QED BY <2>1, ConcatAdjacentSubSeq
<1> QED BY <1>2, <1>3, SubSeqFull DEF Rest

(* A part of a sequence.                                                    *)
LEMMA PartOf ==
  ASSUME NEW S, NEW s \in Seq(S), NEW a \in 0..Len(s), NEW n \in 0..(Len(s) - a)
  PROVE  SubSeq(s, a + 1, a + n) \in Seq(S) /\ Len(SubSeq(s, a + 1, a + n)) = n
<1>1. Len(s) \in Nat /\ a + 1 \in Int /\ a + n \in Int /\ a \in Nat /\ n \in Nat
  BY LenProperties
<1>2. \A i \in (a + 1)..(a + n) : s[i] \in S
  <2>1. \A i \in (a + 1)..(a + n) : i \in 1..Len(s)
    BY <1>1
  <2> QED BY <2>1, ElementOfSeq
<1> DEFINE p == SubSeq(s, a + 1, a + n)
<1>3. p \in Seq(S) /\ Len(p) = IF a + 1 <= a + n THEN (a + n) - (a + 1) + 1 ELSE 0
  BY <1>1, <1>2, SubSeqProperties
<1> HIDE DEF p
<1>4. Len(p) = n
  BY <1>1, <1>3
<1> QED BY <1>3, <1>4 DEF p

LEMMA RestOfConcat ==
  ASSUME NEW S, NEW s \in Seq(S), NEW r \in Seq(S), NEW n \in 0..Len(s)
  PROVE  Rest(s \o r, n) = Rest(s, n) \o r
<1>1. Len(s) \in Nat /\ Len(r) \in Nat /\ n \in Nat
  BY LenProperties
<1>2. s \o r \in Seq(S) /\ Len(s \o r) = Len(s) + Len(r) /\ n \in 0..Len(s \o r)
  BY <1>1, ConcatProperties
<1> DEFINE a == SubSeq(s, 1, n)
           b == Rest(s, n)
           c == Rest(s \o r, n)
<1>3. a \in Seq(S) /\ b \in Seq(S) /\ c \in Seq(S) /\ a \o b = s
  BY <1>2, RestFacts
<1>4. SubSeq(s \o r, 1, n) = a
  <2>1. CASE n = 0
    BY <2>1, <1>1, SubSeqEmpty
  <2>2. CASE n # 0
    BY <1>1, <2>2, SubSeqOfConcat1
  <2> QED BY <2>1, <2>2
<1>5. a \o c = s \o r
  BY <1>2, <1>4, RestFacts
<1>6. s \o r = a \o (b \o r) /\ b \o r \in Seq(S)
  <2> HIDE DEF a, b, c
  <2>1. (a \o b) \o r = a \o (b \o r)
    <3>1. a \in Seq(S) /\ b \in Seq(S)
      BY <1>3
    <3>2. \A x, y, z \in Seq(S) : (x \o y) \o z = x \o (y \o z)
      BY ConcatAssociative
    <3> QED BY <3>1, <3>2
  <2> QED BY <1>3, <2>1, ConcatProperties
<1> HIDE DEF a, b, c
<1>7. c = b \o r
  BY <1>3, <1>5, <1>6, ConcatSimplifications
<1> QED BY <1>7 DEF b, c

LEMMA RestAfterStart ==
  ASSUME NEW S, NEW s \in Seq(S), NEW r \in Seq(S)
  PROVE  Rest(s \o r, Len(s)) = r
<1>1. Len(s) \in Nat
  BY LenProperties
<1>2. Rest(s, Len(s)) = << >>
  BY <1>1, SubSeqEmpty DEF Rest
<1>3. Rest(s \o r, Len(s)) = << >> \o r
  <2>1. Len(s) \in 0..Len(s)
    BY <1>1
  <2> QED BY <1>2, <2>1, RestOfConcat
<1> QED BY <1>3, ConcatEmptySeq

-----------------------------------------------------------------------------
(* The ring accounts for what the line has accepted, or for less by whole   *)
(* rounds, so that there is never more to fetch than was accepted.          *)
RingCounts == (rp + Len(accepted)) % TxSize = wp

(* Who holds the lock of the log flushes it and adds a part of it. Without  *)
(* the lock only the main loop adds, and a whole sentence.                  *)
HoldsLock(t) ==
  /\ locker = t => doing[t] # "idle"
  /\ doing[t] \in {"flush", "send"} => locker = t
  /\ doing[t] = "add" =>
       IF locker = t
       THEN \E n \in 0..(Len(logBuffer) - written) :
              adding[t] = SubSeq(logBuffer, written + 1, written + n)
       ELSE t = "main" /\ adding[t] = Sentence

LogRoles ==
  /\ locker \in LineTask \cup {NoTask}
  /\ locker = NoTask => written = 0
  /\ ~writer => locker = NoTask /\ Len(logBuffer) < IniSize
  /\ \A t \in LineTask : HoldsLock(t)

LogInv ==
  /\ LogTypeOK /\ accepted \in Seq(Unit) /\ logged \in Seq(LogUnit)
  /\ RingCounts /\ LogRoles /\ LogInOrder

LEMMA LogFacts ==
  /\ LogSize \in Nat /\ IniSize \in Nat /\ IniSize >= 1 /\ IniSize < LogSize
  /\ TxSize \in Nat \ {0} /\ TxSize - 1 \in Nat
  /\ "main" \in LogTask /\ "web" \in LogTask /\ NoTask \notin LogTask
  /\ LineTask \subseteq LogTask /\ "main" \in LineTask
  /\ Sentence \in Seq(Unit) /\ Len(Sentence) = 2 /\ LogUnit \subseteq Unit
<1>1. Sentence \in Seq(Unit) /\ Len(Sentence) = 2
  BY DEF Sentence, Unit
<1> QED BY <1>1, GwLogAssumption DEF LineTask, Unit

LEMMA InitLogInv == LogInit => LogInv
<1> SUFFICES ASSUME LogInit PROVE LogInv
  OBVIOUS
<1>1. << >> \in Seq(Unit) /\ << >> \in Seq(LogUnit) /\ Len(<< >>) = 0
  BY EmptySeq
<1>2. LogTypeOK
  <2>1. cells \in [0..(TxSize - 1) -> Unit]
    BY DEF LogInit, Unit
  <2>2. doing \in [LineTask -> {"idle", "flush", "send", "add"}] /\ adding \in [LineTask -> Seq(Unit)]
    BY <1>1 DEF LogInit
  <2>3. usb \in UsbSetups /\ locker \in LogTask \cup {NoTask} /\ writer \in BOOLEAN
        /\ availableWrite \in BOOLEAN /\ wp \in 0..(TxSize - 1) /\ rp \in 0..(TxSize - 1)
    <3>1. 0 \in 0..(TxSize - 1)
      BY LogFacts
    <3> QED BY <3>1 DEF LogInit
  <2>4. logBuffer \in Seq(LogUnit) /\ Len(logBuffer) <= LogSize /\ written \in 0..Len(logBuffer)
    BY <1>1, LogFacts DEF LogInit
  <2> QED BY <2>1, <2>2, <2>3, <2>4 DEF LogTypeOK
<1>3. RingCounts
  <2>1. 0 % TxSize = 0
    BY LogFacts
  <2> QED BY <1>1, <2>1 DEF LogInit, RingCounts
<1>4. LogRoles
  BY <1>1, LogFacts DEF LogInit, LogRoles, HoldsLock
<1>5. LogInOrder
  <2>1. OnlyLog(<< >>) = << >>
    BY <1>1, OnlyLogOfLog
  <2>2. Rest(<< >>, 0) = << >>
    BY <1>1, SubSeqEmpty DEF Rest
  <2> QED BY <1>1, <2>1, <2>2, ConcatEmptySeq DEF LogInit, LogInOrder
<1> QED BY <1>1, <1>2, <1>3, <1>4, <1>5 DEF LogInit, LogInv

(* What is fetched has been accepted; the log of it is no longer to be sent.*)
LEMMA FetchKeeps ==
  ASSUME LogInv, NEW n \in 0..used, fetchData(n), NEW rest \in Seq(LogUnit),
         rest = Rest(logBuffer, written)
  PROVE  /\ rp' \in 0..(TxSize - 1) /\ accepted' \in Seq(Unit) /\ logged' \in Seq(LogUnit)
         /\ (rp' + Len(accepted')) % TxSize = wp
         /\ OnlyLog(accepted') \o rest = logged'
<1>1. /\ accepted \in Seq(Unit) /\ Len(accepted) \in Nat /\ rp \in 0..(TxSize - 1)
      /\ wp \in 0..(TxSize - 1) /\ (rp + Len(accepted)) % TxSize = wp
      /\ logged = OnlyLog(accepted) \o rest
  BY LenProperties DEF LogInv, LogTypeOK, RingCounts, LogInOrder
<1>2. n \in 0..Len(accepted)
  <2>1. used <= Len(accepted)
    <3>1. (((rp + Len(accepted)) % TxSize) - rp) % TxSize <= Len(accepted)
      <4>1. rp \in Int
        BY <1>1
      <4> QED BY <1>1, <4>1, LogFacts, RemainderLeast
    <3> QED BY <1>1, <3>1 DEF used
  <2>2. used \in 0..(TxSize - 1)
    BY <1>1, LogFacts, QuotientFacts DEF used
  <2> QED BY <1>1, <2>1, <2>2, LogFacts
<1> DEFINE a == SubSeq(accepted, 1, n)
           b == Rest(accepted, n)
<1>3. a \in Seq(Unit) /\ b \in Seq(Unit) /\ Len(b) = Len(accepted) - n /\ a \o b = accepted
  BY <1>1, <1>2, RestFacts
<1>4. accepted' = b /\ logged' = Rest(logged, Len(OnlyLog(a))) /\ rp' = (rp + n) % TxSize
  BY DEF fetchData
<1> HIDE DEF a, b
<1>5. /\ OnlyLog(a) \in Seq(LogUnit) /\ OnlyLog(b) \in Seq(LogUnit)
      /\ OnlyLog(accepted) = OnlyLog(a) \o OnlyLog(b)
  BY <1>3, OnlyLogConcat
<1>6. /\ logged = OnlyLog(a) \o (OnlyLog(b) \o rest)
      /\ OnlyLog(b) \o rest \in Seq(LogUnit)
  <2>1. (OnlyLog(a) \o OnlyLog(b)) \o rest = OnlyLog(a) \o (OnlyLog(b) \o rest)
    BY <1>5, ConcatAssociative
  <2> QED BY <1>1, <1>5, <2>1, ConcatProperties
<1>7. logged' = OnlyLog(b) \o rest
  BY <1>4, <1>5, <1>6, RestAfterStart
<1>8. rp' \in 0..(TxSize - 1)
  <2>1. rp + n \in Int
    BY <1>1, <1>2
  <2> QED BY <1>4, <2>1, LogFacts, QuotientFacts
<1>9. (rp' + Len(accepted')) % TxSize = wp
  <2>1. (((rp + n) % TxSize) + (Len(accepted) - n)) % TxSize
        = ((rp + n) + (Len(accepted) - n)) % TxSize
    <3>1. rp + n \in Int /\ Len(accepted) - n \in Int
      BY <1>1, <1>2
    <3> QED BY <3>1, LogFacts, RemainderOfSum
  <2>2. (rp + n) + (Len(accepted) - n) = rp + Len(accepted)
    BY <1>1, <1>2
  <2> QED BY <1>1, <1>3, <1>4, <2>1, <2>2
<1> QED BY <1>3, <1>4, <1>6, <1>7, <1>8, <1>9

Doing == {"idle", "flush", "send", "add"}
Fits(b) == Len(b) <= LogSize /\ (~writer => Len(b) < IniSize)

Extended(b, n) == \E x \in Seq(LogUnit) : n = b \o x

LEMMA ExtendedTwice ==
  ASSUME NEW a \in Seq(LogUnit), NEW b, NEW c, Extended(a, b), Extended(b, c)
  PROVE  Extended(a, c)
<1>1. PICK x \in Seq(LogUnit) : b = a \o x
  BY DEF Extended
<1>2. PICK y \in Seq(LogUnit) : c = b \o y
  BY DEF Extended
<1>3. (a \o x) \o y = a \o (x \o y)
  BY ConcatAssociative
<1>4. x \o y \in Seq(LogUnit)
  BY ConcatProperties
<1> QED BY <1>1, <1>2, <1>3, <1>4 DEF Extended

(* A piece is added to the buffer, in part or not at all if there is no     *)
(* room.                                                                    *)
LEMMA WriteOutExtends ==
  ASSUME NEW b \in Seq(LogUnit), Fits(b), NEW p \in Seq(LogUnit)
  PROVE  writeOut(b, p) \in Seq(LogUnit) /\ Fits(writeOut(b, p)) /\ Extended(b, writeOut(b, p))
<1>1. Len(b) \in Nat /\ Len(p) \in Nat /\ << >> \in Seq(LogUnit) /\ b \o << >> = b
  BY LenProperties, EmptySeq, ConcatEmptySeq
<1>2. CASE writer
  <2>1. CASE Len(b) + Len(p) >= LogSize - 1
    <3>1. writeOut(b, p) = b
      BY <1>2, <2>1 DEF writeOut, write
    <3> QED BY <1>1, <3>1 DEF Extended
  <2>2. CASE ~ (Len(b) + Len(p) >= LogSize - 1)
    <3>1. writeOut(b, p) = b \o p
      BY <1>2, <2>2 DEF writeOut, write
    <3>2. b \o p \in Seq(LogUnit) /\ Len(b \o p) = Len(b) + Len(p)
      BY ConcatProperties
    <3>3. Fits(b \o p)
      BY <1>1, <1>2, <2>2, <3>2, LogFacts DEF Fits
    <3> QED BY <3>1, <3>2, <3>3 DEF Extended
  <2> QED BY <2>1, <2>2
<1>3. CASE ~writer
  <2> DEFINE n == Least(Len(p), IniSize - 1 - Len(b))
             x == SubSeq(p, 1, n)
  <2>1. n \in 0..Len(p) /\ n <= IniSize - 1 - Len(b)
    BY <1>1, <1>3, LogFacts DEF Fits, Least
  <2>2. x \in Seq(LogUnit) /\ Len(x) = n
    <3> HIDE DEF n
    <3> QED BY <2>1, RestFacts
  <2>3. writeOut(b, p) = b \o x
    BY <1>3 DEF writeOut
  <2> HIDE DEF n, x
  <2>4. b \o x \in Seq(LogUnit) /\ Len(b \o x) = Len(b) + n
    BY <2>2, ConcatProperties
  <2>5. Fits(b \o x)
    BY <1>1, <1>3, <2>1, <2>4, LogFacts DEF Fits
  <2> QED BY <2>2, <2>3, <2>4, <2>5 DEF Extended
<1> QED BY <1>2, <1>3

(* So does a line with its pieces.                                          *)
LEMMA LineExtends ==
  ASSUME NEW t \in LogTask, NEW b \in Seq(LogUnit), Fits(b), NEW n,
         n = LET p == Pieces(t) IN
               writeOut(writeOut(writeOut(writeOut(b, p[1]), p[2]), p[3]), p[4])
  PROVE  n \in Seq(LogUnit) /\ Fits(n) /\ Extended(b, n)
<1> DEFINE p == Pieces(t)
           b1 == writeOut(b, p[1])
           b2 == writeOut(b1, p[2])
           b3 == writeOut(b2, p[3])
<1>1. /\ p[1] \in Seq(LogUnit) /\ p[2] \in Seq(LogUnit)
      /\ p[3] \in Seq(LogUnit) /\ p[4] \in Seq(LogUnit)
  BY DEF Pieces, LogUnit
<1>2. n = writeOut(b3, p[4])
  OBVIOUS
<1> HIDE DEF p
<1>3. b1 \in Seq(LogUnit) /\ Fits(b1) /\ Extended(b, b1)
  BY <1>1, WriteOutExtends
<1> HIDE DEF b1
<1>4. b2 \in Seq(LogUnit) /\ Fits(b2) /\ Extended(b1, b2)
  BY <1>1, <1>3, WriteOutExtends
<1> HIDE DEF b2
<1>5. b3 \in Seq(LogUnit) /\ Fits(b3) /\ Extended(b2, b3)
  BY <1>1, <1>4, WriteOutExtends
<1> HIDE DEF b3
<1>6. n \in Seq(LogUnit) /\ Fits(n) /\ Extended(b3, n)
  BY <1>1, <1>2, <1>5, WriteOutExtends
<1>7. Extended(b, b2)
  BY <1>3, <1>4, ExtendedTwice
<1>8. Extended(b, b3)
  BY <1>5, <1>7, ExtendedTwice
<1>9. Extended(b, n)
  BY <1>6, <1>8, ExtendedTwice
<1> QED BY <1>6, <1>9

LEMMA LogDebugKeeps ==
  ASSUME LogInv, NEW t \in LogTask, logDebug(t)
  PROVE  LogInv'
<1>1. /\ logBuffer \in Seq(LogUnit) /\ Fits(logBuffer) /\ locker = NoTask /\ written = 0
      /\ logged \in Seq(LogUnit) /\ accepted \in Seq(Unit)
      /\ logged = OnlyLog(accepted) \o Rest(logBuffer, written)
      /\ UNCHANGED <<usb, locker, writer, written, cells, wp, rp, availableWrite, adding, accepted,
                     doing>>
  BY DEF LogInv, LogTypeOK, LogRoles, Fits, logDebug, ringVars, LogInOrder
<1>2. PICK x \in Seq(LogUnit) : logBuffer' = logBuffer \o x
  <2>1. Extended(logBuffer, logBuffer')
    BY <1>1, LineExtends DEF logDebug
  <2> QED BY <2>1 DEF Extended
<1>3. logBuffer' \in Seq(LogUnit) /\ Len(logBuffer') <= LogSize
      /\ (~writer => Len(logBuffer') < IniSize)
  BY <1>1, LineExtends DEF logDebug, Fits
<1>4. Rest(logBuffer', Len(logBuffer)) = x
  BY <1>1, <1>2, RestAfterStart
<1>5. Len(logBuffer) \in Nat /\ written \in 0..Len(logBuffer) /\ Len(logBuffer') \in Nat
      /\ Len(logBuffer) <= Len(logBuffer')
  BY <1>1, <1>2, <1>3, LenProperties, ConcatProperties DEF LogInv, LogTypeOK
<1>6. Rest(logBuffer', written) = Rest(logBuffer, written) \o x
  BY <1>1, <1>2, <1>5, RestOfConcat
<1>7. logged' = logged \o x /\ logged' \in Seq(LogUnit)
  BY <1>1, <1>2, <1>4, ConcatProperties DEF logDebug
<1>8. LogInOrder'
  <2>1. OnlyLog(accepted) \in Seq(LogUnit) /\ Rest(logBuffer, written) \in Seq(LogUnit)
    <3>1. << >> \in Seq(Unit)
      BY EmptySeq
    <3> QED BY <1>1, <1>5, <3>1, OnlyLogConcat, RestFacts
  <2>2. (OnlyLog(accepted) \o Rest(logBuffer, written)) \o x
        = OnlyLog(accepted) \o (Rest(logBuffer, written) \o x)
    BY <2>1, ConcatAssociative
  <2> QED BY <1>1, <1>6, <1>7, <2>2 DEF LogInOrder
<1>9. LogTypeOK'
  BY <1>1, <1>3, <1>5 DEF LogInv, LogTypeOK
<1>10. LogRoles'
  <2>1. NoTask \notin LineTask
    BY LogFacts
  <2> QED BY <1>1, <1>3, <2>1 DEF LogInv, LogRoles, HoldsLock
<1>11. RingCounts'
  BY <1>1 DEF LogInv, RingCounts
<1> QED BY <1>1, <1>7, <1>8, <1>9, <1>10, <1>11 DEF LogInv

(* What the steps below need of the invariant.                              *)
LEMMA LogState ==
  ASSUME LogInv
  PROVE  /\ logBuffer \in Seq(LogUnit) /\ Len(logBuffer) \in Nat /\ Len(logBuffer) <= LogSize
         /\ written \in 0..Len(logBuffer) /\ Rest(logBuffer, written) \in Seq(LogUnit)
         /\ accepted \in Seq(Unit) /\ logged \in Seq(LogUnit)
         /\ OnlyLog(accepted) \o Rest(logBuffer, written) = logged
         /\ OnlyLog(accepted) \in Seq(LogUnit)
         /\ doing \in [LineTask -> Doing] /\ adding \in [LineTask -> Seq(Unit)]
         /\ wp \in 0..(TxSize - 1) /\ rp \in 0..(TxSize - 1)
         /\ used \in 0..(TxSize - 1) /\ freeSpace \in 0..(TxSize - 1)
<1>1. /\ logBuffer \in Seq(LogUnit) /\ Len(logBuffer) <= LogSize
      /\ written \in 0..Len(logBuffer) /\ accepted \in Seq(Unit) /\ logged \in Seq(LogUnit)
      /\ OnlyLog(accepted) \o Rest(logBuffer, written) = logged
      /\ doing \in [LineTask -> Doing] /\ adding \in [LineTask -> Seq(Unit)]
      /\ wp \in 0..(TxSize - 1) /\ rp \in 0..(TxSize - 1)
  BY DEF LogInv, LogTypeOK, LogInOrder, Doing
<1>2. Len(logBuffer) \in Nat /\ Rest(logBuffer, written) \in Seq(LogUnit)
  BY <1>1, LenProperties, RestFacts
<1>3. OnlyLog(accepted) \in Seq(LogUnit)
  BY <1>1, EmptySeq, OnlyLogConcat
<1>4. used \in 0..(TxSize - 1)
  <2>1. wp - rp \in Int
    BY <1>1
  <2> QED BY <2>1, LogFacts, QuotientFacts DEF used
<1>5. freeSpace \in 0..(TxSize - 1)
  BY <1>4, LogFacts DEF freeSpace
<1> QED BY <1>1, <1>2, <1>3, <1>4, <1>5

LEMMA SetWriterKeeps ==
  ASSUME LogInv, setWriter
  PROVE  LogInv'
<1>1. /\ ~writer /\ locker = NoTask /\ Len(logBuffer) < IniSize /\ writer' = TRUE
      /\ logBuffer' = write(<< >>, logBuffer)
      /\ UNCHANGED <<usb, locker, written, cells, wp, rp, availableWrite, adding, accepted, doing,
                     logged>>
  BY DEF LogInv, LogRoles, setWriter, ringVars
<1>2. logBuffer' = logBuffer
  <2>1. Len(logBuffer) \in Nat /\ << >> \o logBuffer = logBuffer
    BY LogState, ConcatEmptySeq
  <2>2. ~ (0 + Len(logBuffer) >= LogSize - 1)
    BY <1>1, <2>1, LogFacts
  <2> QED BY <1>1, <2>1, <2>2 DEF write
<1>3. LogTypeOK'
  BY <1>1, <1>2 DEF LogInv, LogTypeOK
<1>4. LogRoles'
  BY <1>1, <1>2 DEF LogInv, LogRoles, HoldsLock
<1> QED BY <1>1, <1>2, <1>3, <1>4 DEF LogInv, RingCounts, LogInOrder

LEMMA FlushKeeps ==
  ASSUME LogInv, NEW t \in LineTask, flush(t)
  PROVE  LogInv'
<1>1. /\ writer /\ locker = NoTask /\ doing[t] = "idle" /\ written = 0
      /\ locker' = t /\ written' = 0 /\ doing' = [doing EXCEPT ![t] = "flush"]
      /\ UNCHANGED <<usb, writer, logBuffer, cells, wp, rp, availableWrite, adding, accepted,
                     logged>>
  BY DEF LogInv, LogRoles, flush, ringVars
<1>2. /\ doing' \in [LineTask -> Doing] /\ doing'[t] = "flush"
      /\ \A u \in LineTask \ {t} : doing'[u] = doing[u]
  BY <1>1, LogState DEF Doing
<1>3. LogTypeOK'
  BY <1>1, <1>2, LogFacts DEF LogInv, LogTypeOK, Doing
<1>4. LogRoles'
  <2>1. NoTask \notin LineTask
    BY LogFacts
  <2> QED BY <1>1, <1>2, <2>1 DEF LogInv, LogRoles, HoldsLock
<1> QED BY <1>1, <1>3, <1>4 DEF LogInv, RingCounts, LogInOrder

LEMMA EmptiedKeeps ==
  ASSUME LogInv, NEW t \in LineTask, Emptied(t)
  PROVE  LogInv'
<1>1. /\ doing[t] = "flush" /\ fetchData(used) /\ availableWrite' = TRUE
      /\ doing' = [doing EXCEPT ![t] = "send"]
      /\ UNCHANGED <<usb, locker, writer, logBuffer, written, cells, wp, adding>>
  BY DEF Emptied, fetchData
<1>2. /\ rp' \in 0..(TxSize - 1) /\ accepted' \in Seq(Unit) /\ logged' \in Seq(LogUnit)
      /\ (rp' + Len(accepted')) % TxSize = wp
      /\ OnlyLog(accepted') \o Rest(logBuffer, written) = logged'
  <2>1. used \in 0..used
    BY LogState
  <2> QED BY <1>1, <2>1, LogState, FetchKeeps
<1>3. /\ doing' \in [LineTask -> Doing] /\ doing'[t] = "send"
      /\ \A u \in LineTask \ {t} : doing'[u] = doing[u]
  BY <1>1, LogState DEF Doing
<1>4. LogTypeOK'
  BY <1>1, <1>2, <1>3 DEF LogInv, LogTypeOK, Doing
<1>5. LogRoles'
  BY <1>1, <1>3 DEF LogInv, LogRoles, HoldsLock
<1> QED BY <1>1, <1>2, <1>4, <1>5 DEF LogInv, RingCounts, LogInOrder

LEMMA NotEmptiedKeeps ==
  ASSUME LogInv, NEW t \in LineTask, NotEmptied(t)
  PROVE  LogInv'
<1>1. /\ doing[t] = "flush" /\ logBuffer' = Rest(logBuffer, written) /\ written' = 0
      /\ locker' = NoTask /\ doing' = [doing EXCEPT ![t] = "idle"]
      /\ UNCHANGED <<usb, writer, cells, wp, adding>>
  BY DEF NotEmptied, fetchData, remaining
<1>2. PICK n \in 0..used : fetchData(n)
  BY LogState, LogFacts DEF NotEmptied
<1>3. /\ rp' \in 0..(TxSize - 1) /\ accepted' \in Seq(Unit) /\ logged' \in Seq(LogUnit)
      /\ (rp' + Len(accepted')) % TxSize = wp
      /\ OnlyLog(accepted') \o Rest(logBuffer, written) = logged'
  BY <1>2, LogState, FetchKeeps
<1>4. /\ doing' \in [LineTask -> Doing] /\ doing'[t] = "idle"
      /\ \A u \in LineTask \ {t} : doing'[u] = doing[u]
  BY <1>1, LogState DEF Doing
<1>5. /\ logBuffer' \in Seq(LogUnit) /\ Len(logBuffer') <= LogSize /\ Len(logBuffer') \in Nat
      /\ Rest(logBuffer', 0) = logBuffer'
  <2>1. Len(Rest(logBuffer, written)) = Len(logBuffer) - written
    BY LogState, RestFacts
  <2>2. Rest(logBuffer', 0) = logBuffer'
    <3>1. \A s \in Seq(LogUnit) : SubSeq(s, 0 + 1, Len(s)) = s
      BY SubSeqFull
    <3> QED BY <1>1, <3>1, LogState DEF Rest
  <2> QED BY <1>1, <2>1, <2>2, LogState, LogFacts
<1>6. LogTypeOK'
  <2>1. availableWrite' \in BOOLEAN
    BY DEF NotEmptied, LogInv, LogTypeOK
  <2> QED BY <1>1, <1>3, <1>4, <1>5, <2>1 DEF LogInv, LogTypeOK, Doing
<1>7. LogRoles'
  <2>1. locker = t /\ writer /\ NoTask \notin LineTask
    BY <1>1, LogFacts DEF LogInv, LogRoles, HoldsLock
  <2>2. HoldsLock(t)'
    BY <1>1, <1>4, <2>1 DEF HoldsLock
  <2>3. ASSUME NEW u \in LineTask \ {t} PROVE HoldsLock(u)'
    BY <1>1, <1>4, <2>1 DEF LogInv, LogRoles, HoldsLock
  <2> QED BY <1>1, <2>1, <2>2, <2>3 DEF LogRoles
<1>8. LogInOrder'
  BY <1>1, <1>3, <1>5 DEF LogInOrder
<1> QED BY <1>1, <1>3, <1>6, <1>7, <1>8 DEF LogInv, RingCounts

(* A task starts to add data to the ring.                                   *)
LEMMA CopyKeeps ==
  ASSUME LogInv, NEW t \in LineTask, NEW data \in Seq(Unit), Copy(t, data), writer,
         UNCHANGED <<usb, locker, writer, logBuffer, written, logged>>,
         IF locker = t
         THEN \E n \in 0..(Len(logBuffer) - written) :
                data = SubSeq(logBuffer, written + 1, written + n)
         ELSE t = "main" /\ data = Sentence
  PROVE  LogInv'
<1>1. /\ UNCHANGED <<wp, rp, availableWrite, accepted>>
      /\ adding' = [adding EXCEPT ![t] = data] /\ doing' = [doing EXCEPT ![t] = "add"]
  BY DEF Copy
<1>2. cells' \in [0..(TxSize - 1) -> Unit]
  <2>1. cells \in [0..(TxSize - 1) -> Unit]
    BY DEF LogInv, LogTypeOK
  <2>2. ASSUME NEW i \in 0..(TxSize - 1), (i - wp) % TxSize < Len(data)
        PROVE  data[((i - wp) % TxSize) + 1] \in Unit
    <3>1. (i - wp) % TxSize \in 0..(TxSize - 1)
      <4>1. i - wp \in Int
        BY LogState
      <4> QED BY <4>1, LogFacts, QuotientFacts
    <3>2. ((i - wp) % TxSize) + 1 \in 1..Len(data)
      BY <2>2, <3>1, LenProperties
    <3> QED BY <3>2, ElementOfSeq
  <2> QED BY <2>1, <2>2 DEF Copy
<1>3. /\ adding' \in [LineTask -> Seq(Unit)] /\ adding'[t] = data
      /\ doing' \in [LineTask -> Doing] /\ doing'[t] = "add"
      /\ \A u \in LineTask \ {t} : adding'[u] = adding[u] /\ doing'[u] = doing[u]
  BY <1>1, LogState DEF Doing
<1>4. LogTypeOK'
  BY <1>1, <1>2, <1>3 DEF LogInv, LogTypeOK, Doing
<1>5. LogRoles'
  BY <1>1, <1>3 DEF LogInv, LogRoles, HoldsLock
<1> QED BY <1>1, <1>4, <1>5 DEF LogInv, RingCounts, LogInOrder

(* It has moved the pointer.                                                *)
LEMMA AdvanceKeeps ==
  ASSUME LogInv, NEW t \in LineTask, Advance(t)
  PROVE  /\ wp' \in 0..(TxSize - 1) /\ accepted' \in Seq(Unit) /\ RingCounts'
         /\ adding' \in [LineTask -> Seq(Unit)]
         /\ \A u \in LineTask \ {t} : adding'[u] = adding[u]
         /\ OnlyLog(accepted') = OnlyLog(accepted) \o OnlyLog(adding[t])
<1>1. /\ wp' = (wp + Len(adding[t])) % TxSize /\ accepted' = accepted \o adding[t]
      /\ adding' = [adding EXCEPT ![t] = << >>] /\ rp' = rp
  BY DEF Advance
<1>2. /\ adding[t] \in Seq(Unit) /\ Len(adding[t]) \in Nat /\ Len(accepted) \in Nat
      /\ << >> \in Seq(Unit) /\ (rp + Len(accepted)) % TxSize = wp
  BY LogState, LenProperties, EmptySeq DEF LogInv, RingCounts
<1>3. accepted' \in Seq(Unit) /\ Len(accepted') = Len(accepted) + Len(adding[t])
  BY <1>1, <1>2, LogState, ConcatProperties
<1>4. wp' \in 0..(TxSize - 1)
  <2>1. wp + Len(adding[t]) \in Int
    BY <1>2, LogState
  <2> QED BY <1>1, <2>1, LogFacts, QuotientFacts
<1>5. RingCounts'
  <2>1. (((rp + Len(accepted)) % TxSize) + Len(adding[t])) % TxSize
        = ((rp + Len(accepted)) + Len(adding[t])) % TxSize
    <3>1. rp + Len(accepted) \in Int
      BY <1>2, LogState
    <3>2. Len(adding[t]) \in Int
      BY <1>2
    <3> QED BY <3>1, <3>2, LogFacts, RemainderOfSum
  <2>2. (rp + Len(accepted)) + Len(adding[t]) = rp + (Len(accepted) + Len(adding[t]))
    BY <1>2, LogState
  <2> QED BY <1>1, <1>2, <1>3, <2>1, <2>2 DEF RingCounts
<1>6. OnlyLog(accepted') = OnlyLog(accepted) \o OnlyLog(adding[t])
  BY <1>1, <1>2, LogState, OnlyLogConcat
<1>7. adding' \in [LineTask -> Seq(Unit)] /\ \A u \in LineTask \ {t} : adding'[u] = adding[u]
  BY <1>1, <1>2, LogState
<1> QED BY <1>3, <1>4, <1>5, <1>6, <1>7

(* The holder of the lock has added the next part of the log.               *)
LEMMA LogSentKeeps ==
  ASSUME LogInv, NEW t \in LineTask, LogSent(t)
  PROVE  LogInv'
<1>1. doing[t] = "add" /\ locker = t /\ Advance(t) /\ UNCHANGED <<usb, writer, logged>>
      /\ UNCHANGED <<cells, rp, availableWrite>>
  BY DEF LogSent, Advance
<1>2. writer /\ NoTask \notin LineTask
  BY <1>1, LogFacts DEF LogInv, LogRoles
<1>3. PICK n \in 0..(Len(logBuffer) - written) :
        adding[t] = SubSeq(logBuffer, written + 1, written + n)
  BY <1>1 DEF LogInv, LogRoles, HoldsLock
<1> DEFINE h == written + n
<1>4. h \in written..Len(logBuffer) /\ h \in 0..Len(logBuffer)
  BY <1>3, LogState
<1>5. Len(adding[t]) = n /\ adding[t] \in Seq(LogUnit)
  <2>1. \A i \in (written + 1)..(written + n) : logBuffer[i] \in LogUnit
    BY <1>3, LogState
  <2>2. written + 1 \in Int /\ written + n \in Int
    BY <1>3, LogState
  <2>3. Len(adding[t]) = IF written + 1 <= written + n THEN (written + n) - (written + 1) + 1 ELSE 0
    BY <1>3, <2>1, <2>2, SubSeqProperties
  <2>4. adding[t] \in Seq(LogUnit)
    BY <1>3, <2>1, <2>2, SubSeqProperties
  <2>5. Len(adding[t]) = n
    <3>1. n \in Nat /\ written \in Nat
      BY <1>3, LogState
    <3> DEFINE l == Len(adding[t])
    <3>2. l = IF written + 1 <= written + n THEN (written + n) - (written + 1) + 1 ELSE 0
      BY <2>3
    <3> HIDE DEF l
    <3>3. l = n
      BY <3>1, <3>2
    <3> QED BY <3>3 DEF l
  <2> QED BY <2>4, <2>5
<1>6. Rest(logBuffer, written) = adding[t] \o Rest(logBuffer, h)
  <2>1. /\ written + 1 \in 1..(Len(logBuffer) + 1)
        /\ h \in ((written + 1) - 1)..Len(logBuffer) /\ Len(logBuffer) \in h..Len(logBuffer)
    BY <1>4, LogState
  <2> HIDE DEF h
  <2>2. SubSeq(logBuffer, written + 1, h) \o SubSeq(logBuffer, h + 1, Len(logBuffer))
        = SubSeq(logBuffer, written + 1, Len(logBuffer))
    BY <2>1, LogState, ConcatAdjacentSubSeq
  <2> QED BY <1>3, <2>2 DEF Rest, h
<1>7. OnlyLog(accepted') \o Rest(logBuffer, h) = logged
  <2>1. OnlyLog(accepted') = OnlyLog(accepted) \o adding[t]
    BY <1>1, <1>5, AdvanceKeeps, OnlyLogOfLog
  <2>2. Rest(logBuffer, h) \in Seq(LogUnit)
    BY <1>4, LogState, RestFacts
  <2> HIDE DEF h
  <2>3. (OnlyLog(accepted) \o adding[t]) \o Rest(logBuffer, h)
        = OnlyLog(accepted) \o (adding[t] \o Rest(logBuffer, h))
    <3>1. \A x, y, z \in Seq(LogUnit) : (x \o y) \o z = x \o (y \o z)
      BY ConcatAssociative
    <3> QED BY <1>5, <2>2, <3>1, LogState
  <2> QED BY <1>6, <2>1, <2>3, LogState
<1>8. CASE h < Len(logBuffer)
  <2>1. written' = h /\ doing' = [doing EXCEPT ![t] = "flush"] /\ UNCHANGED <<locker, logBuffer>>
    BY <1>5, <1>8 DEF LogSent
  <2> HIDE DEF h
  <2>2. /\ doing' \in [LineTask -> Doing] /\ doing'[t] = "flush"
        /\ \A u \in LineTask \ {t} : doing'[u] = doing[u]
    BY <2>1, LogState DEF Doing
  <2>3. LogTypeOK'
    BY <1>1, <1>4, <2>1, <2>2, AdvanceKeeps DEF LogInv, LogTypeOK, Doing
  <2>4. LogRoles'
    <3>1. HoldsLock(t)'
      BY <1>1, <2>1, <2>2 DEF HoldsLock
    <3>2. ASSUME NEW u \in LineTask \ {t} PROVE HoldsLock(u)'
      BY <1>1, <2>1, <2>2, AdvanceKeeps DEF LogInv, LogRoles, HoldsLock
    <3> QED BY <1>1, <1>2, <2>1, <3>1, <3>2 DEF LogInv, LogRoles
  <2> QED BY <1>1, <1>7, <2>1, <2>3, <2>4, AdvanceKeeps DEF LogInv, LogInOrder
<1>9. CASE ~ (h < Len(logBuffer))
  <2>1. /\ written' = 0 /\ doing' = [doing EXCEPT ![t] = "idle"]
        /\ locker' = NoTask /\ logBuffer' = << >>
    BY <1>5, <1>9 DEF LogSent
  <2>2. h = Len(logBuffer)
    BY <1>4, <1>9, LogState
  <2> HIDE DEF h
  <2>3. /\ doing' \in [LineTask -> Doing] /\ doing'[t] = "idle"
        /\ \A u \in LineTask \ {t} : doing'[u] = doing[u]
    BY <2>1, LogState DEF Doing
  <2>4. << >> \in Seq(LogUnit) /\ Len(<< >>) = 0
    BY EmptySeq
  <2>5. LogTypeOK'
    <3>1. 0 \in 0..0 /\ LogSize >= 0
      BY LogFacts
    <3> QED BY <1>1, <2>1, <2>3, <2>4, <3>1, AdvanceKeeps DEF LogInv, LogTypeOK, Doing
  <2>6. LogRoles'
    <3>1. HoldsLock(t)'
      BY <1>1, <1>2, <2>1, <2>3 DEF HoldsLock
    <3>2. ASSUME NEW u \in LineTask \ {t} PROVE HoldsLock(u)'
      BY <1>1, <1>2, <2>1, <2>3, AdvanceKeeps DEF LogInv, LogRoles, HoldsLock
    <3> QED BY <1>1, <1>2, <2>1, <3>1, <3>2 DEF LogRoles
  <2>7. LogInOrder'
    <3>1. Rest(logBuffer, h) = << >> /\ Rest(<< >>, 0) = << >>
      BY <2>2, <2>4, LogState, SubSeqEmpty DEF Rest
    <3> QED BY <1>1, <1>7, <2>1, <3>1 DEF LogInOrder
  <2> QED BY <1>1, <2>5, <2>6, <2>7, AdvanceKeeps DEF LogInv
<1> QED BY <1>8, <1>9

LEMMA SentenceSentKeeps ==
  ASSUME LogInv, SentenceSent
  PROVE  LogInv'
<1>1. /\ doing["main"] = "add" /\ locker # "main" /\ Advance("main") /\ "main" \in LineTask
      /\ doing' = [doing EXCEPT !["main"] = "idle"]
      /\ UNCHANGED <<usb, locker, writer, logBuffer, written, logged, cells, rp, availableWrite>>
  BY LogFacts DEF SentenceSent, Advance
<1>2. OnlyLog(accepted') = OnlyLog(accepted)
  <2>1. adding["main"] = Sentence
    BY <1>1 DEF LogInv, LogRoles, HoldsLock
  <2> QED BY <1>1, <2>1, LogState, AdvanceKeeps, OnlyLogOfSentence, ConcatEmptySeq
<1>3. /\ doing' \in [LineTask -> Doing] /\ doing'["main"] = "idle"
      /\ \A u \in LineTask \ {"main"} : doing'[u] = doing[u]
  BY <1>1, LogState DEF Doing
<1>4. LogTypeOK'
  BY <1>1, <1>3, AdvanceKeeps DEF LogInv, LogTypeOK, Doing
<1>5. LogRoles'
  <2>1. HoldsLock("main")'
    BY <1>1, <1>3 DEF HoldsLock
  <2>2. ASSUME NEW u \in LineTask \ {"main"} PROVE HoldsLock(u)'
    <3>1. doing'[u] = doing[u] /\ adding'[u] = adding[u] /\ HoldsLock(u)
      BY <1>1, <1>3, AdvanceKeeps DEF LogInv, LogRoles
    <3> QED BY <1>1, <3>1 DEF HoldsLock
  <2> QED BY <1>1, <2>1, <2>2 DEF LogInv, LogRoles
<1> QED BY <1>1, <1>2, <1>4, <1>5, AdvanceKeeps DEF LogInv, LogInOrder

LEMMA LoopWriteKeeps ==
  ASSUME LogInv, LoopWrite
  PROVE  LogInv'
<1>1. /\ UNCHANGED <<usb, locker, writer, logBuffer, written, availableWrite, doing, cells, wp, adding>>
      /\ \E n \in 1..used : fetchData(n)
  BY DEF LoopWrite, fetchData
<1>2. PICK n \in 0..used : fetchData(n)
  BY <1>1, LogState, LogFacts
<1>3. /\ rp' \in 0..(TxSize - 1) /\ accepted' \in Seq(Unit) /\ logged' \in Seq(LogUnit)
      /\ (rp' + Len(accepted')) % TxSize = wp
      /\ OnlyLog(accepted') \o Rest(logBuffer, written) = logged'
  BY <1>2, LogState, FetchKeeps
<1>4. LogTypeOK' /\ LogRoles'
  BY <1>1, <1>3 DEF LogInv, LogTypeOK, LogRoles, HoldsLock
<1> QED BY <1>1, <1>3, <1>4 DEF LogInv, RingCounts, LogInOrder

LEMMA StepLogInv == LogInv /\ [LogNext]_logVars => LogInv'
<1> SUFFICES ASSUME LogInv, [LogNext]_logVars PROVE LogInv'
  OBVIOUS
<1>1. ASSUME NEW t \in LineTask, SendLog(t) PROVE LogInv'
  <2> DEFINE n == Least(freeSpace, Len(logBuffer) - written)
             data == SubSeq(logBuffer, written + 1, written + n)
  <2>1. /\ Copy(t, data) /\ locker = t /\ writer
        /\ UNCHANGED <<usb, locker, writer, logBuffer, written, logged>>
    BY <1>1, LogFacts DEF SendLog, LogInv, LogRoles, HoldsLock
  <2>2. n \in 0..(Len(logBuffer) - written)
    BY LogState, LogFacts DEF Least
  <2>3. data \in Seq(Unit)
    <3> HIDE DEF n
    <3>1. \A i \in (written + 1)..(written + n) : logBuffer[i] \in Unit
      <4>1. \A i \in (written + 1)..(written + n) : i \in 1..Len(logBuffer)
        BY <2>2, LogState
      <4>2. \A i \in 1..Len(logBuffer) : logBuffer[i] \in LogUnit
        BY LogState, ElementOfSeq
      <4> QED BY <4>1, <4>2, LogFacts
    <3>2. written + 1 \in Int /\ written + n \in Int
      BY <2>2, LogState
    <3> QED BY <3>1, <3>2, SubSeqProperties
  <2>4. \E k \in 0..(Len(logBuffer) - written) : data = SubSeq(logBuffer, written + 1, written + k)
    BY <2>2
  <2> HIDE DEF data
  <2> QED BY <2>1, <2>3, <2>4, CopyKeeps
<1>2. CASE SendSentence
  <2>1. /\ Copy("main", Sentence) /\ doing["main"] = "idle" /\ writer
        /\ UNCHANGED <<usb, locker, writer, logBuffer, written, logged>>
    BY <1>2 DEF SendSentence
  <2>2. locker # "main"
    BY <2>1, LogFacts DEF LogInv, LogRoles, HoldsLock
  <2> QED BY <2>1, <2>2, LogFacts, CopyKeeps
<1>3. CASE UNCHANGED logVars
  BY <1>3 DEF logVars, LogInv, LogTypeOK, RingCounts, LogRoles, HoldsLock, LogInOrder
<1> QED BY <1>1, <1>2, <1>3, LogDebugKeeps, SetWriterKeeps, FlushKeeps, EmptiedKeeps,
           NotEmptiedKeeps, LogSentKeeps, SentenceSentKeeps, LoopWriteKeeps DEF LogNext

LEMMA LogInvAlways == LogSpec => []LogInv
<1> QED BY InitLogInv, StepLogInv, PTL DEF LogSpec

(* What logDebug has taken leaves the device once and in its order, however *)
(* slowly the host reads: GwSerialLog::flush, which stops in the middle and *)
(* goes on with the next flush, neither loses nor repeats anything.         *)
THEOREM LogKeepsOrder == LogSpec => []LogInOrder
<1>1. LogInv => LogInOrder
  BY DEF LogInv
<1> QED BY <1>1, LogInvAlways, PTL

-----------------------------------------------------------------------------
(* The ring of a line that either takes sentences or is flushed by the web  *)
(* task, but not both                                                       *)

(* From the place p on, the cells have the sequence s.                      *)
Holds(p, s) == \A j \in 1..Len(s) : cells[(p + (j - 1)) % TxSize] = s[j]

(* Only one task uses the ring: sentences and the web task exclude another. *)
OneUse ==
  /\ ~(usb.sends /\ usb.forms)
  /\ doing["web"] # "idle" => usb.forms
  /\ doing["main"] = "add" /\ locker # "main" => usb.sends

(* What was accepted is in the ring, and what is added is behind it.        *)
LineHolds ==
  /\ Len(accepted) <= TxSize - 1 /\ Holds(rp, accepted)
  /\ \A t \in LineTask : doing[t] = "add" =>
       Len(accepted) + Len(adding[t]) <= TxSize - 1 /\ Holds(wp, adding[t])

LineInv == LogInv /\ OneUse /\ LineHolds

LEMMA OneAdds ==
  ASSUME LineInv, NEW t \in LineTask, NEW u \in LineTask, doing[u] = "add",
         doing[t] = "add" \/ locker = t \/ (t = "main" /\ usb.sends)
  PROVE  t = u
<1> SUFFICES ASSUME t # u PROVE FALSE
  OBVIOUS
<1>1. {t, u} = {"main", "web"}
  BY DEF LineTask
<1>2. HoldsLock("main") /\ HoldsLock("web")
  BY DEF LineInv, LogInv, LogRoles, LineTask
<1>3. CASE u = "web"
  <2>1. locker = "web" /\ usb.forms
    BY <1>2, <1>3 DEF HoldsLock, LineInv, OneUse
  <2>2. usb.sends
    BY <1>1, <1>3, <2>1 DEF LineInv, OneUse
  <2> QED BY <2>1, <2>2 DEF LineInv, OneUse
<1>4. CASE u = "main"
  <2>1. locker = "web"
    BY <1>1, <1>2, <1>4 DEF HoldsLock
  <2>2. usb.sends
    BY <1>4, <2>1 DEF LineInv, OneUse
  <2>3. usb.forms
    BY <1>2, <2>1 DEF HoldsLock, LineInv, OneUse
  <2> QED BY <2>2, <2>3 DEF LineInv, OneUse
<1> QED BY <1>1, <1>3, <1>4

(* What is accepted takes the cells in use.                                 *)
LEMMA UsedIsAccepted ==
  ASSUME LineInv
  PROVE  used = Len(accepted) /\ Len(accepted) \in 0..(TxSize - 1)
<1>1. /\ Len(accepted) \in 0..(TxSize - 1) /\ rp \in Int /\ -rp \in Int
      /\ wp = (rp + Len(accepted)) % TxSize
  BY LogState, LogFacts, LenProperties DEF LineInv, LineHolds, LogInv, RingCounts
<1>2. (((rp + Len(accepted)) % TxSize) + (-rp)) % TxSize = ((rp + Len(accepted)) + (-rp)) % TxSize
  <2>1. rp + Len(accepted) \in Int
    BY <1>1
  <2> QED BY <1>1, <2>1, LogFacts, RemainderOfSum
<1>3. (rp + Len(accepted)) + (-rp) = Len(accepted) /\ wp - rp = wp + (-rp)
  BY <1>1, LogState DEF LineInv
<1>4. Len(accepted) % TxSize = Len(accepted)
  BY <1>1, LogFacts, RemainderSmall
<1> QED BY <1>1, <1>2, <1>3, <1>4 DEF used

(* Places in the ring, counted from the write pointer.                      *)
LEMMA PlaceOf ==
  ASSUME LineInv, NEW x \in Int
  PROVE  /\ (rp + (Len(accepted) + x)) % TxSize = (wp + x) % TxSize
         /\ (wp + x) % TxSize \in DOMAIN cells
         /\ (((wp + x) % TxSize) - wp) % TxSize = x % TxSize
<1>1. rp \in Int /\ wp \in Int /\ -wp \in Int /\ Len(accepted) \in Int /\ wp + x \in Int
  BY LogState, UsedIsAccepted DEF LineInv
<1>2. (rp + (Len(accepted) + x)) % TxSize = (wp + x) % TxSize
  <2>1. (((rp + Len(accepted)) % TxSize) + x) % TxSize = ((rp + Len(accepted)) + x) % TxSize
    <3>1. rp + Len(accepted) \in Int
      BY <1>1
    <3> QED BY <3>1, LogFacts, RemainderOfSum
  <2>2. (rp + Len(accepted)) + x = rp + (Len(accepted) + x)
    BY <1>1
  <2> QED BY <2>1, <2>2 DEF LineInv, LogInv, RingCounts
<1>3. (wp + x) % TxSize \in 0..(TxSize - 1)
  BY <1>1, LogFacts, QuotientFacts
<1>4. (((wp + x) % TxSize) - wp) % TxSize = x % TxSize
  <2>1. (((wp + x) % TxSize) + (-wp)) % TxSize = ((wp + x) + (-wp)) % TxSize
    BY <1>1, LogFacts, RemainderOfSum
  <2>2. (wp + x) + (-wp) = x /\ ((wp + x) % TxSize) - wp = ((wp + x) % TxSize) + (-wp)
    BY <1>1, <1>3
  <2> QED BY <2>1, <2>2
<1> QED BY <1>2, <1>3, <1>4 DEF LineInv, LogInv, LogTypeOK

(* Data is copied behind what is accepted.                                  *)
LEMMA CopyHolds ==
  ASSUME LineInv, NEW t \in LineTask, NEW data \in Seq(Unit), Copy(t, data),
         Len(data) <= freeSpace, doing[t] # "add",
         locker = t \/ (t = "main" /\ usb.sends)
  PROVE  LineHolds'
<1> DEFINE L == Len(accepted)
           D == Len(data)
<1>1. /\ UNCHANGED <<wp, rp, accepted>>
      /\ cells' = [i \in DOMAIN cells |->
                     IF (i - wp) % TxSize < D THEN data[((i - wp) % TxSize) + 1] ELSE cells[i]]
      /\ adding' = [adding EXCEPT ![t] = data] /\ doing' = [doing EXCEPT ![t] = "add"]
  BY DEF Copy
<1>2. /\ L \in 0..(TxSize - 1) /\ D \in Nat /\ L + D <= TxSize - 1 /\ TxSize \in Nat \ {0}
      /\ adding'[t] = data
      /\ \A u \in LineTask : doing'[u] = "add" => u = t
  <2>1. \A u \in LineTask : doing[u] = "add" => u = t
    BY OneAdds
  <2> QED BY <1>1, <2>1, UsedIsAccepted, LogFacts, LogState, LenProperties DEF LineInv, freeSpace
<1> HIDE DEF L, D
<1>3. ASSUME NEW j \in 1..L
      PROVE  cells'[(rp + (j - 1)) % TxSize] = accepted[j]
  <2> DEFINE x == (j - 1) - L
  <2>1. x \in Int /\ L + x = j - 1 /\ x + TxSize \in 0..(TxSize - 1) /\ x + TxSize >= D
        /\ x = TxSize * (-1) + (x + TxSize)
    BY <1>2
  <2> HIDE DEF x
  <2>2. x % TxSize = x + TxSize
    <3>1. /\ x = TxSize * (x \div TxSize) + (x % TxSize) /\ x \div TxSize \in Int
          /\ x % TxSize \in 0..(TxSize - 1)
      BY <1>2, <2>1, QuotientFacts
    <3> DEFINE q == x \div TxSize
               r == x % TxSize
    <3>2. TxSize * q + r = TxSize * (-1) + (x + TxSize) /\ q \in Int /\ r \in 0..(TxSize - 1)
      BY <2>1, <3>1
    <3> HIDE DEF q, r
    <3>3. r = x + TxSize
      <4>1. -1 \in Int
        OBVIOUS
      <4> QED BY <1>2, <2>1, <3>2, <4>1, RemainderUnique
    <3> QED BY <3>3 DEF r
  <2> DEFINE i == (wp + x) % TxSize
  <2>3. i = (rp + (j - 1)) % TxSize /\ i \in DOMAIN cells /\ (i - wp) % TxSize = x + TxSize
    BY <2>1, <2>2, PlaceOf DEF L
  <2> HIDE DEF i
  <2>4. cells'[i] = cells[i]
    <3>1. ~ ((i - wp) % TxSize < D)
      BY <1>2, <2>1, <2>3
    <3> QED BY <1>1, <2>3, <3>1
  <2> QED BY <2>3, <2>4 DEF LineInv, LineHolds, Holds, L
<1>4. ASSUME NEW j \in 1..D
      PROVE  cells'[(wp + (j - 1)) % TxSize] = data[j]
  <2> DEFINE i == (wp + (j - 1)) % TxSize
  <2>1. j - 1 \in 0..(TxSize - 1) /\ j - 1 < D /\ (j - 1) + 1 = j
    BY <1>2
  <2>2. i \in DOMAIN cells /\ (i - wp) % TxSize = j - 1
    <3>1. (j - 1) % TxSize = j - 1
      BY <1>2, <2>1, RemainderSmall
    <3>2. j - 1 \in Int
      BY <2>1
    <3> QED BY <3>1, <3>2, PlaceOf
  <2> HIDE DEF i
  <2>3. cells'[i] = data[j]
    BY <1>1, <2>1, <2>2
  <2> QED BY <2>3 DEF i
<1> QED BY <1>1, <1>2, <1>3, <1>4 DEF LineInv, LineHolds, Holds, L, D

(* The pointer moves behind what was added.                                 *)
LEMMA AdvanceHolds ==
  ASSUME LineInv, NEW t \in LineTask, doing[t] = "add", Advance(t),
         \A u \in LineTask : doing'[u] = "add" => u # t /\ doing[u] = "add"
  PROVE  LineHolds'
<1> DEFINE L == Len(accepted)
           A == Len(adding[t])
<1>1. UNCHANGED <<cells, rp>> /\ accepted' = accepted \o adding[t]
  BY DEF Advance
<1>2. /\ accepted \in Seq(Unit) /\ adding[t] \in Seq(Unit)
      /\ L \in Nat /\ A \in Nat /\ L + A <= TxSize - 1
  BY LogState, LenProperties DEF LineInv, LineHolds
<1>3. /\ Len(accepted') = L + A
      /\ \A j \in 1..L : accepted'[j] = accepted[j]
      /\ \A j \in 1..A : accepted'[L + j] = adding[t][j]
  BY <1>1, <1>2, ConcatProperties
<1>4. ASSUME NEW j \in 1..(L + A)
      PROVE  cells[(rp + (j - 1)) % TxSize] = accepted'[j]
  <2>1. CASE j <= L
    <3>1. j \in 1..L
      BY <1>2, <2>1
    <3> QED BY <1>3, <3>1 DEF LineInv, LineHolds, Holds
  <2>2. CASE j > L
    <3> DEFINE k == j - L
    <3>1. k \in 1..A /\ k - 1 \in Int /\ L + k = j /\ L + (k - 1) = j - 1
      BY <1>2, <2>2
    <3> HIDE DEF k
    <3>2. (rp + (j - 1)) % TxSize = (wp + (k - 1)) % TxSize
      BY <3>1, PlaceOf
    <3>3. cells[(wp + (k - 1)) % TxSize] = adding[t][k]
      BY <3>1 DEF LineInv, LineHolds, Holds
    <3> QED BY <1>3, <3>1, <3>2, <3>3
  <2> QED BY <1>2, <2>1, <2>2
<1>5. ASSUME NEW u \in LineTask, doing'[u] = "add"
      PROVE  FALSE
  <2>1. u # t /\ doing[u] = "add"
    BY <1>5
  <2>2. t = u
    BY <2>1, OneAdds
  <2> QED BY <2>1, <2>2
<1> QED BY <1>1, <1>2, <1>3, <1>4, <1>5 DEF LineHolds, Holds

(* What is fetched is taken from the front.                                 *)
LEMMA FetchHolds ==
  ASSUME LineInv, NEW n \in 0..used, fetchData(n),
         \A u \in LineTask : doing'[u] = "add" => doing[u] = "add"
  PROVE  LineHolds'
<1> DEFINE L == Len(accepted)
<1>1. /\ UNCHANGED <<cells, wp, adding>> /\ rp' = (rp + n) % TxSize
      /\ accepted' = SubSeq(accepted, n + 1, L)
  BY DEF fetchData, Rest
<1>2. accepted \in Seq(Unit) /\ L \in 0..(TxSize - 1) /\ n \in 0..L /\ rp \in Int
  BY LogState, UsedIsAccepted DEF LineInv
<1>3. /\ Len(accepted') = L - n
      /\ \A j \in 1..(L - n) : accepted'[j] = accepted[n + j]
  <2>1. Len(accepted') = L - n
    BY <1>1, <1>2, RestFacts DEF Rest
  <2>2. accepted' = [j \in 1..(L - n) |-> accepted[(n + 1) + (j - 1)]]
    <3>1. (L - (n + 1)) + 1 = L - n
      BY <1>2
    <3> QED BY <1>1, <1>2, <3>1
  <2>3. \A j \in 1..(L - n) : (n + 1) + (j - 1) = n + j
    BY <1>2
  <2> QED BY <2>1, <2>2, <2>3
<1>4. ASSUME NEW j \in 1..(L - n)
      PROVE  cells[(rp' + (j - 1)) % TxSize] = accepted'[j]
  <2>1. n + j \in 1..L /\ (n + j) - 1 = n + (j - 1) /\ j - 1 \in Int /\ rp + n \in Int
        /\ (rp + n) + (j - 1) = rp + ((n + j) - 1)
    BY <1>2
  <2>2. (((rp + n) % TxSize) + (j - 1)) % TxSize = ((rp + n) + (j - 1)) % TxSize
    BY <2>1, LogFacts, RemainderOfSum
  <2>3. cells[(rp + ((n + j) - 1)) % TxSize] = accepted[n + j]
    BY <2>1 DEF LineInv, LineHolds, Holds
  <2> QED BY <1>1, <1>3, <2>1, <2>2, <2>3
<1>5. ASSUME NEW u \in LineTask, doing'[u] = "add"
      PROVE  Len(accepted') + Len(adding'[u]) <= TxSize - 1 /\ Holds(wp, adding[u])
  <2>1. adding[u] \in Seq(Unit)
    BY LogState DEF LineInv
  <2>2. /\ Len(adding[u]) \in Nat /\ L + Len(adding[u]) <= TxSize - 1
        /\ Holds(wp, adding[u])
    BY <1>5, <2>1, LenProperties DEF LineInv, LineHolds
  <2> DEFINE a == Len(adding[u])
  <2> HIDE DEF a, L
  <2>3. (L - n) + a <= TxSize - 1
    BY <1>2, <2>2, LogFacts DEF a
  <2> QED BY <1>1, <1>3, <2>2, <2>3 DEF a
<1>6. Len(accepted') <= TxSize - 1
  BY <1>2, <1>3, LogFacts
<1> QED BY <1>1, <1>3, <1>4, <1>5, <1>6 DEF LineHolds, Holds

LEMMA StepLineInv == LineInv /\ [LogNext]_logVars => LineInv'
<1> SUFFICES ASSUME LineInv, [LogNext]_logVars PROVE LineInv'
  OBVIOUS
<1>1. LogInv'
  BY StepLogInv DEF LineInv
<1>2. /\ doing \in [LineTask -> Doing] /\ "main" \in LineTask /\ "web" \in LineTask
      /\ HoldsLock("main") /\ HoldsLock("web") /\ NoTask \notin LineTask
  BY LogState, LogFacts DEF LineInv, LogInv, LogRoles, LineTask
<1>3. ASSUME UNCHANGED <<doing, locker, usb>> \/ UNCHANGED logVars
      PROVE  OneUse'
  BY <1>3 DEF LineInv, OneUse, logVars
<1>4. ASSUME NEW t \in LogTask, logDebug(t)
      PROVE  OneUse' /\ LineHolds'
  BY <1>4 DEF logDebug, ringVars, LineInv, OneUse, LineHolds, Holds
<1>5. ASSUME setWriter
      PROVE  OneUse' /\ LineHolds'
  BY <1>5 DEF setWriter, ringVars, LineInv, OneUse, LineHolds, Holds
<1>6. ASSUME SendSentence
      PROVE  OneUse' /\ LineHolds'
  <2>1. /\ usb.sends /\ doing["main"] = "idle" /\ freeSpace >= 2 /\ Copy("main", Sentence)
        /\ doing' = [doing EXCEPT !["main"] = "add"] /\ UNCHANGED <<usb, locker>>
    BY <1>6, LogFacts DEF SendSentence, Copy
  <2>2. LineHolds'
    BY <1>2, <2>1, LogFacts, LogState, CopyHolds DEF LineInv
  <2>3. OneUse'
    BY <1>2, <2>1 DEF LineInv, OneUse
  <2> QED BY <2>2, <2>3
<1>7. ASSUME SentenceSent
      PROVE  OneUse' /\ LineHolds'
  <2>1. /\ doing["main"] = "add" /\ Advance("main")
        /\ doing' = [doing EXCEPT !["main"] = "idle"] /\ UNCHANGED <<usb, locker>>
    BY <1>7 DEF SentenceSent
  <2>2. \A u \in LineTask : doing'[u] = "add" => u # "main" /\ doing[u] = "add"
    BY <1>2, <2>1
  <2>3. OneUse'
    BY <1>2, <2>1 DEF LineInv, OneUse
  <2> QED BY <1>2, <2>1, <2>2, <2>3, AdvanceHolds
<1>8. ASSUME LoopWrite
      PROVE  OneUse' /\ LineHolds'
  <2>1. UNCHANGED <<usb, locker, doing>> /\ \E n \in 1..used : fetchData(n)
    BY <1>8 DEF LoopWrite
  <2>2. PICK n \in 0..used : fetchData(n)
    BY <2>1, LogState, LogFacts DEF LineInv
  <2> QED BY <1>3, <2>1, <2>2, FetchHolds
<1>9. ASSUME NEW t \in LineTask, flush(t)
      PROVE  OneUse' /\ LineHolds'
  <2>1. /\ t = "web" => usb.forms
        /\ locker = NoTask /\ locker' = t /\ doing[t] = "idle" /\ doing' = [doing EXCEPT ![t] = "flush"]
        /\ UNCHANGED <<usb, cells, wp, rp, adding, accepted>>
    BY <1>9 DEF flush, Flushes, ringVars
  <2>2. \A u \in LineTask : doing'[u] = "add" => doing[u] = "add"
    BY <1>2, <2>1
  <2>3. LineHolds'
    BY <2>1, <2>2 DEF LineInv, LineHolds, Holds
  <2>4. OneUse'
    BY <1>2, <2>1 DEF LineInv, OneUse
  <2> QED BY <2>3, <2>4
<1>10. ASSUME NEW t \in LineTask, Emptied(t)
       PROVE  OneUse' /\ LineHolds'
  <2>1. /\ doing[t] = "flush" /\ fetchData(used) /\ doing' = [doing EXCEPT ![t] = "send"]
        /\ UNCHANGED <<usb, locker>>
    BY <1>10 DEF Emptied
  <2>2. (\A u \in LineTask : doing'[u] = "add" => doing[u] = "add") /\ used \in 0..used
    BY <1>2, <2>1, LogState DEF LineInv
  <2>3. LineHolds'
    BY <2>1, <2>2, FetchHolds
  <2>4. OneUse'
    BY <1>2, <2>1 DEF LineInv, OneUse
  <2> QED BY <2>3, <2>4
<1>11. ASSUME NEW t \in LineTask, NotEmptied(t)
       PROVE  OneUse' /\ LineHolds'
  <2>1. /\ doing[t] = "flush" /\ locker' = NoTask /\ doing' = [doing EXCEPT ![t] = "idle"]
        /\ UNCHANGED usb /\ locker = t
    BY <1>11 DEF NotEmptied, LineInv, LogInv, LogRoles, HoldsLock
  <2>2. PICK n \in 0..used : fetchData(n)
    BY <1>11, LogState, LogFacts DEF NotEmptied, LineInv
  <2>3. \A u \in LineTask : doing'[u] = "add" => doing[u] = "add"
    BY <1>2, <2>1
  <2>4. LineHolds'
    BY <2>2, <2>3, FetchHolds
  <2>5. OneUse'
    BY <1>2, <2>1 DEF LineInv, OneUse
  <2> QED BY <2>4, <2>5
<1>12. ASSUME NEW t \in LineTask, SendLog(t)
       PROVE  OneUse' /\ LineHolds'
  <2> DEFINE n == Least(freeSpace, Len(logBuffer) - written)
             data == SubSeq(logBuffer, written + 1, written + n)
  <2>1. /\ Copy(t, data) /\ doing[t] = "send" /\ locker = t /\ UNCHANGED <<usb, locker>>
        /\ doing' = [doing EXCEPT ![t] = "add"]
    BY <1>12 DEF SendLog, Copy, LineInv, LogInv, LogRoles, HoldsLock
  <2>2. n \in 0..(Len(logBuffer) - written) /\ n <= freeSpace
    BY LogState, LogFacts DEF Least, LineInv
  <2>3. data \in Seq(Unit) /\ Len(data) = n
    <3> HIDE DEF n
    <3>1. data \in Seq(LogUnit) /\ Len(data) = n
      BY <2>2, LogState, PartOf DEF LineInv
    <3> QED BY <3>1, SeqMonotonic, LogFacts
  <2> HIDE DEF data, n
  <2>4. LineHolds'
    <3>1. doing[t] # "add" /\ Copy(t, data) /\ data \in Seq(Unit) /\ locker = t
      BY <2>1, <2>3
    <3>2. Len(data) <= freeSpace
      BY <2>2, <2>3
    <3> QED BY <3>1, <3>2, CopyHolds
  <2>5. OneUse'
    BY <1>2, <2>1 DEF LineInv, OneUse
  <2> QED BY <2>4, <2>5
<1>13. ASSUME NEW t \in LineTask, LogSent(t)
       PROVE  OneUse' /\ LineHolds'
  <2>1. /\ doing[t] = "add" /\ locker = t /\ Advance(t) /\ UNCHANGED usb
        /\ \/ doing' = [doing EXCEPT ![t] = "flush"] /\ locker' = locker
           \/ doing' = [doing EXCEPT ![t] = "idle"] /\ locker' = NoTask
    BY <1>13 DEF LogSent
  <2>2. \A u \in LineTask : doing'[u] = "add" => u # t /\ doing[u] = "add"
    BY <1>2, <2>1
  <2>3. LineHolds'
    BY <2>1, <2>2, AdvanceHolds
  <2>4. OneUse'
    BY <1>2, <2>1 DEF LineInv, OneUse
  <2> QED BY <2>3, <2>4
<1>14. ASSUME UNCHANGED logVars
       PROVE  OneUse' /\ LineHolds'
  BY <1>14 DEF logVars, LineInv, OneUse, LineHolds, Holds
<1> QED BY <1>1, <1>4, <1>5, <1>6, <1>7, <1>8, <1>9, <1>10, <1>11, <1>12, <1>13, <1>14
        DEF LogNext, LineInv

LEMMA InitLineInv ==
  (\A u \in UsbSetups : ~(u.sends /\ u.forms)) /\ LogInit => LineInv
<1> SUFFICES ASSUME \A u \in UsbSetups : ~(u.sends /\ u.forms), LogInit PROVE LineInv
  OBVIOUS
<1>1. /\ usb \in UsbSetups /\ accepted = << >> /\ Len(accepted) = 0 /\ "main" \in LineTask
      /\ \A t \in LineTask : doing[t] = "idle"
  BY DEF LogInit, LineTask
<1>2. OneUse
  BY <1>1 DEF OneUse, LineTask
<1>3. LineHolds
  BY <1>1, LogFacts DEF LineHolds, Holds
<1> QED BY <1>2, <1>3, InitLogInv DEF LineInv

(* As long as no device both sends sentences to the USB port and offers the *)
(* web interface (as in MCServices), what the ring of the line has accepted *)
(* (GwBuffer::addData below GwSerial::sendToClients) is in it in this order,*)
(* whatever GwSerialLog::flush and the host do: it takes both to break it.  *)
THEOREM LineKept ==
  (\A u \in UsbSetups : ~(u.sends /\ u.forms)) => (LogSpec => []LineInOrder)
<1> SUFFICES ASSUME \A u \in UsbSetups : ~(u.sends /\ u.forms)
             PROVE  LogSpec => []LineInOrder
  OBVIOUS
<1>1. LogInit => LineInv
  BY InitLineInv
<1>2. LineInv => LineInOrder
  <2> SUFFICES ASSUME LineInv PROVE LineInOrder
    OBVIOUS
  <2>1. /\ used = Len(accepted) /\ accepted \in Seq(Unit) /\ rp \in Int
        /\ Len(accepted) \in Nat
    BY UsedIsAccepted, LogState, LenProperties DEF LineInv
  <2>2. accepted = [i \in 1..Len(accepted) |-> accepted[i]]
    BY <2>1
  <2>3. \A i \in 1..Len(accepted) : cells[(rp + i - 1) % TxSize] = accepted[i]
    <3>1. \A i \in 1..Len(accepted) : rp + i - 1 = rp + (i - 1)
      BY <2>1
    <3> QED BY <3>1 DEF LineInv, LineHolds, Holds
  <2> QED BY <2>1, <2>2, <2>3 DEF LineInOrder
<1> QED BY <1>1, <1>2, StepLineInv, PTL DEF LogSpec

-----------------------------------------------------------------------------
(* GwCanBus *)

LEMMA CanFacts ==
  /\ Period \in Nat /\ Period >= 2 /\ TimeoutOffline \in Nat /\ MaxFailures \in Nat
  /\ \A a \in Int : a % Period \in 0..(Period - 1)
<1>1. Period \in Nat /\ Period >= 2 /\ TimeoutOffline \in Nat /\ MaxFailures \in Nat
  BY GwCanBusAssumption
<1>2. \A a \in Int : a % Period \in 0..(Period - 1)
  BY <1>1, QuotientFacts
<1> QED BY <1>1, <1>2

LEMMA InitCanTyped == CanInit => CanTypeOK
<1> SUFFICES ASSUME CanInit PROVE CanTypeOK
  OBVIOUS
<1>1. /\ 0 \in 0..(Period - 1) /\ 0 \in 0..2 /\ 0 \in 0..TimeoutOffline
      /\ 0 \in 0..MaxFailures /\ 0 \in Nat
  BY CanFacts
<1> QED BY <1>1, Zenon DEF CanInit, CanTypeOK

LEMMA StepCanTyped == CanTypeOK /\ [CanNext]_canVars => CanTypeOK'
<1> SUFFICES ASSUME CanTypeOK, [CanNext]_canVars PROVE CanTypeOK'
  OBVIOUS
<1>1. CASE TimerLoop
  <2>1. ASSUME NEW n \in {0, 1}, Failing(n) PROVE failures' \in 0..MaxFailures
    BY <2>1, CanFacts DEF CanTypeOK, Failing
  <2>2. driver' \in {"none", "stopped", "running", "busOff"} /\ failures' \in 0..MaxFailures
    <3>1. checkRecovery \/ UNCHANGED <<driver, failures>>
      BY <1>1 DEF TimerLoop
    <3>2. CASE startRecovery \/ CANOpen
      BY <2>1, <3>2 DEF startRecovery, CANOpen, CanTypeOK
    <3>3. checkRecovery => startRecovery \/ CANOpen \/ UNCHANGED <<driver, failures>>
      BY DEF checkRecovery
    <3> QED BY <3>1, <3>2, <3>3 DEF CanTypeOK
  <2>3. lastRun' \in 0..(Period - 1) /\ busy' = 0 /\ UNCHANGED <<millis, txTimeouts>>
    BY <1>1 DEF TimerLoop, CanTypeOK
  <2>4. waited' \in Nat /\ missed' \in BOOLEAN
    <3>1. waited \in Nat /\ missed \in BOOLEAN
      BY DEF CanTypeOK
    <3>2. \/ waited' = waited /\ missed' = missed
          \/ waited' = 0 /\ missed' = FALSE
      BY <1>1 DEF TimerLoop
    <3>3. waited' \in Nat
      BY <3>1, <3>2
    <3>4. missed' \in BOOLEAN
      BY <3>1, <3>2, Zenon
    <3> QED BY <3>3, <3>4
  <2> QED BY <2>2, <2>3, <2>4 DEF CanTypeOK
<1>2. CASE SendFrame \/ BusOff
  BY <1>2, CanFacts DEF SendFrame, BusOff, CanTypeOK
<1>3. CASE CanTick
  <2>1. waited' \in Nat /\ missed' \in BOOLEAN
    BY <1>3 DEF CanTick, CanTypeOK
  <2> QED BY <1>3, <2>1, CanFacts DEF CanTick, CanTypeOK
<1>4. CASE UNCHANGED canVars
  BY <1>4 DEF canVars, CanTypeOK
<1> QED BY <1>1, <1>2, <1>3, <1>4 DEF CanNext

(* Whatever checkRecovery, startRecovery and CANOpen do and wherever they   *)
(* fail, the driver is in a known state and the clock starts again at its   *)
(* end, with the time stamp of the timer.                                   *)
THEOREM CanTyped == CanSpec => []CanTypeOK
<1> QED BY InitCanTyped, StepCanTyped, PTL DEF CanSpec

(* As long as nothing was missed the clock is as far from the time stamp of *)
(* the timer as it has waited, and has not started again while it was due;  *)
(* after a pass of the loop it waits for less than the interval.            *)
WaitInv ==
  missed = FALSE =>
    /\ waited <= (Interval - 1) + busy
    /\ millis = (IF lastRun + waited < Period THEN lastRun + waited
                                             ELSE (lastRun + waited) - Period)
    /\ lastRun + Interval < Period => lastRun + waited < Period

LEMMA CanSums ==
  ASSUME NEW a \in Nat, a < Period + Period
  PROVE  a % Period = (IF a < Period THEN a ELSE a - Period)
<1>1. CASE a < Period
  BY <1>1, CanFacts, RemainderSmall
<1>2. CASE ~(a < Period)
  <2>1. a - Period \in 0..(Period - 1) /\ (a - Period) + Period = a
    BY <1>2, CanFacts
  <2>2. ((a - Period) + Period) % Period = a - Period
    <3>1. Period \in Nat \ {0}
      BY CanFacts
    <3> DEFINE b == a - Period
    <3>2. b \in 0..(Period - 1)
      BY <2>1
    <3> HIDE DEF b
    <3>3. (b + Period) % Period = b
      BY <3>1, <3>2, RemainderSmall
    <3> QED BY <3>3 DEF b
  <2> QED BY <1>2, <2>1, <2>2
<1> QED BY <1>1, <1>2

LEMMA StepWaitInv == CanTypeOK /\ WaitInv /\ [CanNext]_canVars => WaitInv'
<1> SUFFICES ASSUME CanTypeOK, WaitInv, [CanNext]_canVars, missed' = FALSE
             PROVE  /\ waited' <= (Interval - 1) + busy'
                    /\ millis' = (IF lastRun' + waited' < Period THEN lastRun' + waited'
                                                              ELSE (lastRun' + waited') - Period)
                    /\ lastRun' + Interval < Period => lastRun' + waited' < Period
  BY DEF WaitInv
<1>0. /\ Period \in Nat /\ Interval \in Nat /\ Interval >= 1 /\ Interval < Period
      /\ millis \in 0..(Period - 1) /\ lastRun \in 0..(Period - 1)
      /\ busy \in 0..2 /\ waited \in Nat /\ missed \in BOOLEAN
  BY GwCanBusAssumption DEF CanTypeOK
<1>1. CASE TimerLoop /\ shouldRun
  <2>1. waited' = 0 /\ lastRun' = millis /\ UNCHANGED millis /\ busy' = 0
    BY <1>1 DEF TimerLoop
  <2> QED BY <1>0, <2>1
<1>2. CASE TimerLoop /\ ~shouldRun
  <2>1. UNCHANGED <<waited, lastRun, millis, missed>> /\ busy' = 0
    BY <1>2 DEF TimerLoop
  <2>2. (IF lastRun + Interval < Period THEN lastRun + Interval
                                        ELSE (lastRun + Interval) - Period) > millis
    <3>1. (lastRun + Interval) % Period =
            (IF lastRun + Interval < Period THEN lastRun + Interval
                                            ELSE (lastRun + Interval) - Period)
      BY <1>0, CanSums
    <3> QED BY <1>2, <3>1 DEF shouldRun
  <2> QED BY <1>0, <2>1, <2>2 DEF WaitInv
<1>3. CASE CanTick
  <2>1. /\ busy < 2 /\ busy' = busy + 1 /\ millis' = (millis + 1) % Period
        /\ missed = FALSE /\ ~(millis' = 0 /\ lastRun + Interval < Period)
        /\ waited' = waited + 1 /\ UNCHANGED lastRun
    BY <1>0, <1>3 DEF CanTick
  <2>2. (millis + 1) % Period = (IF millis + 1 < Period THEN millis + 1 ELSE 0)
    BY <1>0, CanSums
  <2>3. /\ waited <= (Interval - 1) + busy
        /\ millis = (IF lastRun + waited < Period THEN lastRun + waited
                                                 ELSE (lastRun + waited) - Period)
        /\ lastRun + Interval < Period => lastRun + waited < Period
    BY <2>1 DEF WaitInv
  <2> QED BY <1>0, <2>1, <2>2, <2>3
<1>4. CASE SendFrame \/ BusOff \/ UNCHANGED canVars
  <2>1. UNCHANGED <<waited, lastRun, millis, missed, busy>>
    BY <1>4 DEF SendFrame, BusOff, canVars
  <2> QED BY <1>0, <2>1 DEF WaitInv
<1> QED BY <1>1, <1>2, <1>3, <1>4 DEF CanNext

(* For any interval that is shorter than the round of the clock: the driver *)
(* is looked at again within the interval and the tick by which a pass of   *)
(* the loop is late, wherever the clock and the sum of the timer start      *)
(* again, unless the clock did so while the action was due                  *)
(* (GwIntervalRunner::Run::shouldRun).                                      *)
THEOREM LookedAtInTime == CanSpec => []CheckedInTime
<1>1. CanInit => WaitInv
  BY CanFacts, GwCanBusAssumption DEF CanInit, WaitInv
<1>2. CanTypeOK /\ WaitInv => CheckedInTime
  BY GwCanBusAssumption DEF CanTypeOK, WaitInv, CheckedInTime
<1> QED BY <1>1, <1>2, InitCanTyped, StepCanTyped, StepWaitInv, PTL DEF CanSpec

-----------------------------------------------------------------------------
(* The services together *)

(* A step of one service leaves the others alone.                           *)
LEMMA ServicesApart ==
  ServicesSpec => Spec /\ TaskSpec /\ NetSpec /\ CanSpec /\ TcpSpec /\ LogSpec
<1> DEFINE AnyStep == \/ Maintenance \/ Tasks \/ Network
                      \/ Can \/ Connection \/ Logging
<1>1. ServicesInit => Init /\ TaskInit /\ NetInit /\ CanInit /\ TcpInit /\ LogInit
  BY DEF ServicesInit
<1>2. [AnyStep]_allVars => /\ [Next]_vars /\ [TaskNext]_taskVars /\ [NetNext]_netVars
                           /\ [CanNext]_canVars /\ [TcpNext]_tcpVars /\ [LogNext]_logVars
  BY DEF Maintenance, Tasks, Network, Can, Connection, Logging, allVars
<1>3. ServicesSpec => ServicesInit /\ [][AnyStep]_allVars
  <2> HIDE DEF AnyStep
  <2> QED BY PTL DEF ServicesSpec, AnyStep
<1> HIDE DEF AnyStep
<1> QED BY <1>1, <1>2, <1>3, PTL DEF Spec, TaskSpec, NetSpec, CanSpec, TcpSpec, LogSpec

(* All services keep their types, whatever each of them does.               *)
THEOREM ServicesTyped == ServicesSpec => []ServicesTypeOK
<1>1. TypeOK /\ TaskTypeOK /\ NetTypeOK /\ CanTypeOK /\ TcpTypeOK /\ LogTypeOK => ServicesTypeOK
  BY DEF ServicesTypeOK
<1>2. LogInv => LogTypeOK
  BY DEF LogInv
<1> QED BY <1>1, <1>2, ServicesApart, MaintenanceTyped, TasksTyped, NetworkTyped, CanTyped,
           TypeCorrect, LogInvAlways, PTL
=============================================================================
