---------------------------- MODULE GwMaintenance ----------------------------
(***************************************************************************)
(* What the web interface does to the device: setConfig (src/main.cpp),    *)
(* the preferences (lib/config GWConfig), the firmware upload              *)
(* (lib/gwupdate GwUpdate) and the restart that ends each of them.         *)
(*                                                                         *)
(* A body arrives in chunks; the state of a request survives from one to   *)
(* the next. The web task runs one chunk at a time, the resets run in the  *)
(* main loop. A form is read one pair per step, since a chunk may end      *)
(* anywhere. The hash of the admin password is the password itself, and    *)
(* useAdminPass is on.                                                     *)
(***************************************************************************)
EXTENDS Integers, Sequences

CONSTANTS
  Client, Key, Value,
  AdminPassword,  (* the secret one of the keys                             *)
  Empty,          (* the value that leaves a secret as it is                *)
  Default,        (* the values of a device without preferences             *)
  Forms,          (* the forms that are sent: sequences of <<name, value>>, *)
                  (* each name at most once                                 *)
  EndOf,          (* what is left of a name or a value that is too long     *)
  Files, Chunks   (* firmware images and the chunks of each                 *)

TooLong(x) == x \in DOMAIN EndOf

(* A name of 32 bytes, or a value of 511, fills its buffer, which starts    *)
(* again with the next byte: the end is taken for the whole. The form goes  *)
(* on and is answered OK.                                                   *)
Received(x) == IF TooLong(x) THEN EndOf[x] ELSE x

ASSUME GwMaintenanceAssumption ==
  /\ AdminPassword \in Key /\ Empty \in Value /\ Default \in [Key -> Value]
  /\ Chunks \in Nat \ {0} /\ \A k \in Key : ~TooLong(k)
  /\ \A f \in Forms :
       /\ Len(f) \in Nat
       /\ \A i, j \in 1..Len(f) : f[i][1] = f[j][1] => i = j
       /\ \A i \in 1..Len(f) : Received(f[i][2]) \in Value

VARIABLES
  prefs,          (* the preferences in flash                               *)
  configs,        (* the values in use, read when the device starts         *)
  req,            (* the request of a client                                *)
  restart,        (* a task waits to restart the device                     *)
  updateRunning,  (* "no", "yes", or "old": more than 60 s ago              *)
  image,          (* the chunks written since Update.begin, if it is open    *)
  slot,           (* the partition that does not run: a file or Partial     *)
  selected,       (* it has been made the boot partition                    *)
  expired,        (* history: an upload went on for more than 60 s          *)
  ok              (* history: the file last answered OK, and left alone     *)

vars == <<prefs, configs, req, restart, updateRunning, image, slot, selected, expired, ok>>
cfgVars == <<prefs, configs>>
updVars == <<updateRunning, image, slot, selected, expired, ok>>

Idle == [kind |-> "idle"]
Ignored == [kind |-> "ignored"]
Closed == << >>
Partial == "partial"

Requests ==
  {Idle, Ignored}
  \cup [kind : {"form"}, pairs : Forms, pos : Nat, failed : SUBSET Nat, fresh : BOOLEAN]
  \cup [kind : {"upload"}, file : Files, next : 1..Chunks, error : {"none", "busy", "failed"}]

TypeOK ==
  /\ prefs \in [Key -> Value] /\ configs \in [Key -> Value]
  /\ req \in [Client -> Requests] /\ restart \in BOOLEAN
  /\ updateRunning \in {"no", "yes", "old"}
  /\ image \in Seq(Client \X Files \X (1..Chunks))
  /\ slot \in Files \cup {Partial} /\ selected \in BOOLEAN
  /\ expired \in BOOLEAN /\ ok \in Files \cup {Partial}

Init ==
  /\ prefs = Default /\ configs = Default
  /\ req = [c \in Client |-> Idle] /\ restart = FALSE
  /\ updateRunning = "no" /\ image = Closed /\ slot = Partial
  /\ selected = FALSE /\ expired = FALSE /\ ok = Partial

-----------------------------------------------------------------------------
(* GWConfig                                                                 *)

checkPass(hash) == hash = configs[AdminPassword]

Skipped_EmptyIsSkipped(item, value) ==
  item \notin Key \/ value = Empty \/ configs[item] = value

(* A value counts as unchanged if it is the one in use, not the stored one. *)
Skipped(item, value) ==
  \/ item \notin Key
  \/ item = AdminPassword /\ value = Empty
  \/ configs[item] = value

(* putString may fail, because the partition is full or has been erased     *)
(* below the library. Nobody looks at its result.                           *)
updateValue(item, value) ==
  \/ ~Skipped(item, value) /\ prefs' = [prefs EXCEPT ![item] = value]
  \/ UNCHANGED prefs

(* Erases the partition, or writes every default, one by one.               *)
reset ==
  \E failed \in SUBSET Key :
    prefs' = [k \in Key |-> IF k \in failed THEN prefs[k] ELSE Default[k]]

-----------------------------------------------------------------------------
(* handleConfigRequestData                                                  *)

IsForm(c) == req[c].kind = "form"
Disturbed(r) == IF r.kind = "form" THEN [r EXCEPT !.fresh = FALSE] ELSE r
Others(c) == [d \in Client |-> IF d = c THEN req[d] ELSE Disturbed(req[d])]

(* A pair that fits and changes an item; an empty secret leaves it alone.   *)
Sets(p) == p[1] \in Key /\ ~(p[1] = AdminPassword /\ p[2] = Empty) /\ ~TooLong(p[2])

(* History: what the form sets was as it is in use, or stored already, when *)
(* it began, and nobody else has changed the preferences since then; and    *)
(* the pairs that could not be stored.                                      *)
Form(f) ==
  [kind |-> "form", pairs |-> f, pos |-> 0, failed |-> {},
   fresh |-> \A i \in 1..Len(f) : Sets(f[i]) => prefs[f[i][1]] \in {configs[f[i][1]], f[i][2]}]

(* The first pair has to be the hash; without it all the rest is ignored.   *)
OpenForm(c, h, f) ==
  /\ req[c] = Idle
  /\ req' = [req EXCEPT ![c] = IF checkPass(h) THEN Form(f) ELSE Ignored]
  /\ UNCHANGED <<cfgVars, restart, updVars>>

FormPair(c) ==
  /\ IsForm(c) /\ req[c].pos < Len(req[c].pairs)
  /\ LET p == req[c].pos + 1
         item == Received(req[c].pairs[p][1])
         value == Received(req[c].pairs[p][2])
         fails == ~Skipped(item, value) /\ prefs'[item] # value IN
       /\ updateValue(item, value)
       /\ req' = [IF prefs' = prefs THEN req ELSE Others(c) EXCEPT
                    ![c].pos = p, ![c].failed = IF fails THEN @ \cup {p} ELSE @]
  /\ UNCHANGED <<configs, restart, updVars>>

(* The answer is OK and the restart follows.                                *)
Answering(c) == IsForm(c) /\ req[c].pos = Len(req[c].pairs)

FormEnd(c) ==
  /\ Answering(c)
  /\ req' = [req EXCEPT ![c] = Idle] /\ restart' = TRUE
  /\ UNCHANGED <<cfgVars, updVars>>

(* A connection is lost, or a form that was refused comes to its end. What  *)
(* it has saved stays saved, and an upload still counts as running.         *)
Lost(c) ==
  /\ req[c] # Idle /\ ~Answering(c)
  /\ req' = [req EXCEPT ![c] = Idle]
  /\ UNCHANGED <<cfgVars, restart, updVars>>

-----------------------------------------------------------------------------
(* ResetRequest, ResetConfigRequest and the FactoryResetRequest of the      *)
(* button, all in the main loop                                             *)

ResetRequest(h) ==
  /\ checkPass(h)
  /\ restart' = TRUE
  /\ UNCHANGED <<cfgVars, req, updVars>>

ResetConfigRequest ==
  /\ reset /\ restart' = TRUE
  /\ req' = [c \in Client |-> Disturbed(req[c])]
  /\ UNCHANGED <<configs, updVars>>

-----------------------------------------------------------------------------
(* GwUpdate and the Update library: one image is written at a time, by      *)
(* whoever calls write; end refuses what is not a whole image.              *)

Upload(f, n, e) == [kind |-> "upload", file |-> f, next |-> n, error |-> e]
Busy == updateRunning = "yes"
WholeImage(s) ==
  \E f \in Files : [i \in 1..Len(s) |-> <<s[i][2], s[i][3]>>] = [i \in 1..Chunks |-> <<f, i>>]

(* The request handler after the last chunk.                                *)
Answer_ResetsAlways(c, e) ==
  /\ req' = [req EXCEPT ![c] = Idle]
  /\ updateRunning' = "no"
  /\ restart' = (restart \/ e = "none")

Answer(c, e) ==
  /\ req' = [req EXCEPT ![c] = Idle]
  /\ updateRunning' = IF e = "busy" THEN updateRunning ELSE "no"
  /\ restart' = (restart \/ e = "none")

Continue_OneMore(c, f, n, e, running) ==
  IF n > Chunks THEN Answer(c, e)
  ELSE /\ req' = [req EXCEPT ![c] = Upload(f, n + 1, e)]
       /\ updateRunning' = running /\ UNCHANGED restart

Continue(c, f, n, e, running) ==
  IF n = Chunks THEN Answer(c, e)
  ELSE /\ req' = [req EXCEPT ![c] = Upload(f, n + 1, e)]
       /\ updateRunning' = running /\ UNCHANGED restart

Fails(c, f, n, running) ==
  /\ image' = Closed /\ Continue(c, f, n, "failed", running)
  /\ UNCHANGED <<slot, selected, ok>>

(* Update.end with the last chunk.                                          *)
Ends_NotChecked(c, f, s) ==
  /\ image' = Closed /\ ok' = f /\ Answer(c, "none")
  /\ IF WholeImage(s) THEN slot' = f /\ selected' = TRUE
     ELSE slot' = Partial /\ UNCHANGED selected

Ends(c, f, s) ==
  /\ image' = Closed
  /\ IF WholeImage(s)
     THEN Answer(c, "none") /\ slot' = f /\ selected' = TRUE /\ ok' = f
     ELSE Answer(c, "failed") /\ slot' = Partial /\ UNCHANGED <<selected, ok>>

Written(c, f, n, s, running) ==
  IF n = Chunks THEN Ends(c, f, s)
  ELSE /\ image' = s /\ Continue(c, f, n, "none", running)
       /\ slot' = Partial /\ ok' = Partial /\ UNCHANGED selected

(* The first chunk: an upload that takes over aborts the other one.         *)
UploadRefused(c, f) ==
  /\ req[c] = Idle /\ Busy
  /\ Continue(c, f, 1, "busy", updateRunning)
  /\ UNCHANGED <<cfgVars, image, slot, selected, expired, ok>>

UploadInvalid(c, f, h) ==
  /\ req[c] = Idle /\ ~Busy /\ ~checkPass(h)
  /\ Continue(c, f, 1, "failed", "yes")
  /\ UNCHANGED <<cfgVars, image, slot, selected, expired, ok>>

UploadStart(c, f, h) ==
  /\ req[c] = Idle /\ ~Busy /\ checkPass(h)
  /\ \/ Written(c, f, 1, << <<c, f, 1>> >>, "yes")
     \/ Fails(c, f, 1, "yes")
  /\ expired' = (expired /\ \E d \in Client : req[d].kind = "upload")
  /\ UNCHANGED cfgVars

UploadChunk(c) ==
  /\ req[c].kind = "upload"
  /\ LET f == req[c].file   n == req[c].next   e == req[c].error IN
       IF e # "none"
       THEN Continue(c, f, n, e, updateRunning) /\ UNCHANGED <<image, slot, selected, ok>>
       ELSE \/ /\ image # Closed
               /\ Written(c, f, n, Append(image, <<c, f, n>>), updateRunning)
            \/ Fails(c, f, n, updateRunning)
  /\ UNCHANGED <<cfgVars, expired>>

(* 60 s have passed since an upload began.                                  *)
Expire ==
  /\ updateRunning = "yes"
  /\ updateRunning' = "old" /\ expired' = TRUE
  /\ UNCHANGED <<cfgVars, req, restart, image, slot, selected, ok>>

-----------------------------------------------------------------------------
(* delayedRestart, or somebody switches the device off and on. loadConfig   *)
(* reads the preferences; the boot loader starts the image that runs if the *)
(* selected one is not whole.                                               *)
Reboot ==
  /\ configs' = prefs
  /\ req' = [c \in Client |-> Idle] /\ restart' = FALSE
  /\ updateRunning' = "no" /\ image' = Closed
  /\ slot' = Partial /\ selected' = FALSE /\ expired' = FALSE /\ ok' = Partial
  /\ UNCHANGED prefs

-----------------------------------------------------------------------------
Next ==
  \/ \E c \in Client :
       \/ \E h \in Value, f \in Forms : OpenForm(c, h, f)
       \/ FormPair(c) \/ FormEnd(c) \/ Lost(c) \/ UploadChunk(c)
       \/ \E f \in Files :
            UploadRefused(c, f) \/ \E h \in Value : UploadInvalid(c, f, h) \/ UploadStart(c, f, h)
  \/ \E h \in Value : ResetRequest(h)
  \/ ResetConfigRequest \/ Expire \/ Reboot

Spec == Init /\ [][Next]_vars

-----------------------------------------------------------------------------
(* What a form sets is stored when it is answered OK, pair by pair, under   *)
(* four conditions: no name of the form is too long, the value is not, the  *)
(* pair's putString did not fail, and the form found the item as it is in   *)
(* use or as it sets it, with no reset and no other form in between. The    *)
(* first three the code does not look at, and answers OK all the same. The  *)
(* last one holds for the first form after a start, and also for the same   *)
(* form once more after its connection was lost: updateValue compares with  *)
(* the value in use, not with the stored one, so that the pairs of the lost *)
(* form are stored again. What a lost form has stored cannot be set back to *)
(* the value in use before the next restart.                                *)
OkIsStored ==
  \A c \in Client :
    LET f == req[c].pairs IN
      Answering(c) /\ req[c].fresh /\ (\A i \in 1..Len(f) : ~TooLong(f[i][1])) =>
        \A i \in 1..Len(f) : Sets(f[i]) /\ i \notin req[c].failed => prefs[f[i][1]] = f[i][2]

(* Two uploads never write at the same time unless one has taken more than *)
(* 60 s: an upload that is refused, or comes without the password, must not *)
(* make way for a third one (GwUpdate.cpp, otherUpdate).                    *)
UploadsApart ==
  \A c, d \in Client :
    /\ c # d /\ ~expired
    /\ req[c].kind = "upload" /\ req[c].error = "none"
    => ~(req[d].kind = "upload" /\ req[d].error = "none")

(* An upload that is answered OK is the boot partition, whole and of this   *)
(* upload's file, as long as no other upload begins before the restart.     *)
OkIsSelected == ok # Partial => selected /\ slot = ok
=============================================================================
