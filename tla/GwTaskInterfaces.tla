-------------------------- MODULE GwTaskInterfaces --------------------------
(***************************************************************************)
(* lib/usercode TaskInterfacesStorage and the get, set and update of       *)
(* lib/api DECLARE_TASKIF: tasks exchange values of a class by its name.   *)
(* The storage lock guards the map of shared pointers. set stores a new    *)
(* copy; get takes the pointer under the lock and copies the object        *)
(* afterwards; update lets a function work on the stored object under the  *)
(* lock.                                                                   *)
(*                                                                         *)
(* One class is modelled, with Fields fields that are copied one after the *)
(* other. A whole value has the same version in every field.               *)
(***************************************************************************)
EXTENDS Integers, FiniteSets

CONSTANTS Setters, Updaters, Readers,   (* tasks by what they call; one     *)
                                        (* that updates and reads counts as *)
                                        (* two                              *)
          Builds,                       (* the sets of tasks that can be in *)
                                        (* a firmware: GWUSERTASKS          *)
          Object,                       (* addresses of heap objects        *)
          Fields,                       (* number of fields                 *)
          MaxVersion,                   (* bound of the versions            *)
          MaxUpdates,                   (* bound of the update counter      *)
          Nobody, NoObject

Task == Setters \cup Updaters \cup Readers

ASSUME GwTaskInterfacesAssumption ==
  /\ Builds \subseteq SUBSET Task /\ Updaters \cap Readers = {}
  /\ Nobody \notin Task /\ NoObject \notin Object
  /\ Fields \in Nat \ {0} /\ MaxVersion \in Nat /\ MaxUpdates \in Nat \ {0}

Field == 1..Fields
Version == 0..MaxVersion

NoCopy == [f \in Field |-> 0]

(* Versions only tell values apart; they are used again after MaxVersion.   *)
NextVersion(v) == (v + 1) % (MaxVersion + 1)

VARIABLES
  built,     (* the tasks of this firmware                                  *)
  lock,      (* the task that is inside update                              *)
  stored,    (* the pointer in the map, NoObject before the first set       *)
  updates,   (* TaskDataEntry::updates                                      *)
  field,     (* the heap: every object's fields                             *)
  ptr,       (* each task's shared pointer                                  *)
  at,        (* how many fields it has copied or changed, -1 when idle      *)
  copy,      (* what a reader has copied so far                             *)
  result,    (* and the update counter it got                               *)
  known,     (* the update counter and version of its last complete get     *)
  disturbed, (* history: an update has changed the object that it copies    *)
  expected   (* history: the version the completed calls should have left   *)

taskVars ==
  <<built, lock, stored, updates, field, ptr, at, copy, result, known, disturbed, expected>>

TaskTypeOK ==
  /\ built \in Builds
  /\ lock \in Updaters \cup {Nobody}
  /\ stored \in Object \cup {NoObject}
  /\ updates \in 0..MaxUpdates
  /\ field \in [Object -> [Field -> Version]]
  /\ ptr \in [Task -> Object \cup {NoObject}]
  /\ at \in [Task -> -1..Fields]
  /\ copy \in [Readers -> [Field -> Version]]
  /\ result \in [Readers -> -1..MaxUpdates]
  /\ known \in [Readers -> [result : -1..MaxUpdates, version : Version]]
  /\ disturbed \in [Readers -> BOOLEAN]
  /\ expected \in Version

TaskInit ==
  /\ built \in Builds
  /\ lock = Nobody /\ stored = NoObject /\ updates = 0
  /\ field = [o \in Object |-> [f \in Field |-> 0]]
  /\ ptr = [t \in Task |-> NoObject]
  /\ at = [t \in Task |-> -1]
  /\ copy = [t \in Readers |-> NoCopy]
  /\ result = [t \in Readers |-> -1]
  /\ known = [t \in Readers |-> [result |-> -1, version |-> 0]]
  /\ disturbed = [t \in Readers |-> FALSE]
  /\ expected = 0

-----------------------------------------------------------------------------
Free == lock = Nobody

(* A new object is at an address nobody points to any more.                 *)
Unreferenced_RawPointer == Object \ {stored}

Unreferenced == Object \ ({stored} \cup {ptr[t] : t \in Task})

Count_Constant(n) == n

(* The counter after another call. It is bounded by MaxUpdates; the code's  *)
(* restart at 0 after 2^31 calls is out of the bound.                       *)
Count(n) == n + 1

(* set<T>(v): new T(v), then iset stores it.                                *)
Set(t, v) ==
  /\ Free /\ at[t] = -1
  /\ updates < MaxUpdates
  /\ \E o \in Unreferenced :
       /\ field' = [field EXCEPT ![o] = [f \in Field |-> v]]
       /\ stored' = o
       /\ updates' = IF stored = NoObject THEN 0 ELSE Count(updates)
  /\ expected' = v
  /\ UNCHANGED <<lock, ptr, at, copy, result, known, disturbed>>

(* get<T>(res): iget under the lock ...                                     *)
Get(t) ==
  /\ Free /\ at[t] = -1
  /\ stored # NoObject
  /\ ptr' = [ptr EXCEPT ![t] = stored]
  /\ result' = [result EXCEPT ![t] = updates]
  /\ at' = [at EXCEPT ![t] = 0]
  /\ UNCHANGED <<lock, stored, updates, field, copy, known, disturbed, expected>>

(* ... without a value it is type() and the result -1 ...                   *)
GetNothing(t) ==
  /\ Free /\ at[t] = -1
  /\ stored = NoObject
  /\ known' = [known EXCEPT ![t] = [result |-> -1, version |-> 0]]
  /\ UNCHANGED <<lock, stored, updates, field, ptr, at, copy, result, disturbed, expected>>

(* ... and the copy constructor field by field, without the lock.          *)
CopyField(t) ==
  /\ at[t] \in 0..(Fields - 1)
  /\ copy' = [copy EXCEPT ![t][at[t] + 1] = field[ptr[t]][at[t] + 1]]
  /\ at' = [at EXCEPT ![t] = @ + 1]
  /\ UNCHANGED <<lock, stored, updates, field, ptr, result, known, disturbed, expected>>

(* The copy is complete: it is the caller's, the shared pointer goes.       *)
Return(t) ==
  /\ at[t] = Fields
  /\ known' = [known EXCEPT ![t] = [result |-> result[t], version |-> copy[t][Fields]]]
  /\ ptr' = [ptr EXCEPT ![t] = NoObject]
  /\ at' = [at EXCEPT ![t] = -1]
  /\ copy' = [copy EXCEPT ![t] = NoCopy] /\ result' = [result EXCEPT ![t] = -1]
  /\ disturbed' = [disturbed EXCEPT ![t] = FALSE]
  /\ UNCHANGED <<lock, stored, updates, field, expected>>

-----------------------------------------------------------------------------
UpdateLock_None(t) == UNCHANGED lock

(* The lock is held until the end of the block.                             *)
UpdateLock(t) == lock' = t

(* update<T>(f): the stored object, or a new one.                           *)
Update(t) ==
  /\ Free /\ at[t] = -1 /\ UpdateLock(t)
  /\ \/ /\ stored # NoObject
        /\ ptr' = [ptr EXCEPT ![t] = stored]
        /\ UNCHANGED field
     \/ /\ stored = NoObject
        /\ \E o \in Unreferenced :
             /\ ptr' = [ptr EXCEPT ![t] = o]
             /\ field' = [field EXCEPT ![o] = [f \in Field |-> 0]]
  /\ at' = [at EXCEPT ![t] = 0]
  /\ UNCHANGED <<stored, updates, copy, result, known, disturbed, expected>>

(* f changes the next field: here it counts. The object is the one that is  *)
(* stored, also while a reader copies it.                                   *)
ChangeField(t) ==
  /\ at[t] \in 0..(Fields - 1)
  /\ field' = [field EXCEPT ![ptr[t]][at[t] + 1] = NextVersion(@)]
  /\ at' = [at EXCEPT ![t] = @ + 1]
  /\ disturbed' = [r \in Readers |-> disturbed[r] \/ ptr[r] = ptr[t]]
  /\ UNCHANGED <<lock, stored, updates, ptr, copy, result, known, expected>>

(* f returns true. Storing the entry anew starts its counter at 0.          *)
UpdateDone(t) ==
  /\ at[t] = Fields
  /\ updates' = IF stored = NoObject THEN 0 ELSE Count(0)
  /\ stored' = ptr[t]
  /\ expected' = NextVersion(expected)
  /\ lock' = Nobody
  /\ ptr' = [ptr EXCEPT ![t] = NoObject]
  /\ at' = [at EXCEPT ![t] = -1]
  /\ UNCHANGED <<field, copy, result, known, disturbed>>

(* f returns false before it changes anything: a new object is deleted, but *)
(* an existing one counts as updated.                                       *)
UpdateRefused(t) ==
  /\ at[t] = 0
  /\ updates' = IF stored = NoObject THEN updates ELSE Count(0)
  /\ lock' = Nobody
  /\ ptr' = [ptr EXCEPT ![t] = NoObject]
  /\ at' = [at EXCEPT ![t] = -1]
  /\ UNCHANGED <<stored, field, copy, result, known, disturbed, expected>>

-----------------------------------------------------------------------------
Step(t) ==
  \/ t \in Setters /\ \E v \in Version : Set(t, v)
  \/ t \in Readers /\ (Get(t) \/ GetNothing(t) \/ CopyField(t) \/ Return(t))
  \/ t \in Updaters /\ (Update(t) \/ ChangeField(t) \/ UpdateDone(t) \/ UpdateRefused(t))

TaskNext == (\E t \in built : Step(t)) /\ UNCHANGED built

TaskSpec == TaskInit /\ [][TaskNext]_taskVars

-----------------------------------------------------------------------------
(* A reader gets a mixture of two values only if an update changed the very *)
(* object it was copying: no set does it, and no update of the object that  *)
(* is stored by then, whenever they come (DECLARE_TASKIF_IMPL get, set). An *)
(* update may: it works in place, and get copies outside of the lock,       *)
(* though GwApi.h says of the interface that it "ensures that there is a    *)
(* correct locking of the data".                                            *)
TornOnlyByUpdate ==
  \A t \in Readers : at[t] = Fields /\ ~disturbed[t] =>
    \A f, g \in Field : copy[t][f] = copy[t][g]

(* Where nobody updates, a task that compares the result of get with the    *)
(* one before notices every change: the same result means the same value,   *)
(* since counter and pointer are read and changed under one lock            *)
(* (TaskInterfacesStorage::set and get). update restarts the counter, so    *)
(* that this is not so in other firmwares.                                  *)
ChangesNoticed ==
  [][built \cap Updaters = {} =>
       \A t \in Readers :
         known'[t].result = known[t].result => known'[t].version = known[t].version]_taskVars

(* Two updates, or an update and a set, never overwrite each other: outside *)
(* the lock the stored object shows all completed calls, in every field     *)
(* (TaskInterfacesStorage::update).                                         *)
NoLostUpdate ==
  Free /\ stored # NoObject => \A f \in Field : field[stored][f] = expected
=============================================================================
