--------------------------- MODULE GwXDRMappings ---------------------------
(***************************************************************************)
(* lib/xdrmappings and its use in the converters: a measurement of the bus *)
(* (category, source, field and instance) has a transducer name in         *)
(* NMEA0183, and both directions meet in the boat items of these names.    *)
(* All of it runs in the main loop.                                        *)
(*                                                                         *)
(* One category and source is modelled: the look-ups of others never meet  *)
(* its mappings, and every PGN of a category is handled alike. A value is  *)
(* the measurement it is of, with a number to tell readings apart. Whether *)
(* the minimal intervals have passed (addToXdr, send) is left open.        *)
(***************************************************************************)
EXTENDS Integers, Sequences, FiniteSets
LOCAL INSTANCE Functions

CONSTANTS
  Tables,        (* the mappings that may be configured, in their order     *)
  Instance,      (* instance ids of the bus                                 *)
  LastField,     (* the fields of the message are 0..LastField              *)
  Transducer,    (* what other devices send: a name with or without a       *)
                 (* number; known if type and unit are those of the mapping *)
  Reading,       (* numbers of readings                                     *)
  MaxHeard,      (* bound of the transducers in a sentence                  *)
  unmappedXdr,   (* the option unknownXdr                                   *)
  MaxUnknown     (* the limit in addUnknown: 200                            *)

ASSUME XdrAssumption ==
  /\ LastField \in Nat /\ MaxUnknown \in Nat
  /\ Instance \subseteq Nat /\ IsFiniteSet(Instance)
  /\ unmappedXdr \in BOOLEAN
  /\ \A t \in Tables : DOMAIN t \subseteq Nat
  /\ \A t \in Tables : \A i \in DOMAIN t :
       t[i].mode \in {"single", "auto", "ignore"} /\ t[i].inst \in Instance
  /\ \A d \in Transducer : d.known \in BOOLEAN /\ d.inst \in Instance \cup {-1}

VARIABLES
  table,     (* the mappings: transducer name, field, instance mode and id  *)
  items,     (* the boat items of transducers that are valid                *)
  unknown,   (* measurements without a mapping                              *)
  sent       (* what the last conversion has sent: XDR entries and messages *)

xdrVars == <<table, items, unknown, sent>>

NoNumber == -1
Field == 0..LastField
Bus == 0
Channel == 1

XdrName == UNION {{t[i].name : i \in DOMAIN t} : t \in Tables} \cup {t.name : t \in Transducer}
ItemName == XdrName \X (Instance \cup {NoNumber})
NoValue == [field |-> NoNumber, inst |-> NoNumber, reading |-> NoNumber]
NoItem == [data |-> NoValue, source |-> NoNumber]
NothingSent == [entries |-> {}, messages |-> {}]

XdrTypeOK ==
  /\ table \in Tables
  /\ \A n \in ItemName : items[n] # NoItem => items[n].source \in {Bus, Channel}
  /\ unknown \subseteq Field \X Instance /\ Cardinality(unknown) <= MaxUnknown
  /\ sent = NothingSent \/ sent.entries = {} \/ sent.messages = {}

XdrInit ==
  /\ table \in Tables
  /\ items = [n \in ItemName |-> NoItem]
  /\ unknown = {}
  /\ sent = NothingSent

-----------------------------------------------------------------------------
(* Look-ups. They return at most one mapping, with the instance it is for.  *)
FirstOf(I) == {i \in I : \A j \in I : i <= j}
LastOf(I) == {i \in I : \A j \in I : j <= i}

(* Of the mappings at the places I: single mappings of the instance.        *)
exact(I, inst) == {i \in I : table[i].mode = "single" /\ table[i].inst = inst}

(* A numbered instance is for the last mapping that is not "ignore": the    *)
(* case of single mappings falls through to that of automatic ones. One     *)
(* without a number is for the first mapping that needs none.               *)
candidates(I, inst) ==
  LET WithMode(modes) == {i \in I : table[i].mode \in modes} IN
    IF inst = NoNumber THEN FirstOf(WithMode({"single", "ignore"}))
    ELSE IF WithMode({"single", "auto"}) # {} THEN LastOf(WithMode({"single", "auto"}))
    ELSE FirstOf(WithMode({"ignore"}))

selectMapping(I, inst) ==
  {[def |-> table[i], inst |-> IF inst = NoNumber THEN table[i].inst ELSE inst] :
     i \in IF exact(I, inst) # {} THEN FirstOf(exact(I, inst)) ELSE candidates(I, inst)}

(* The mappings in n2kMap for a field, and in n183Map for a name.           *)
n2kMapping(f, inst) == selectMapping({i \in DOMAIN table : table[i].field = f}, inst)

n183Mapping(t) ==
  IF t.known THEN selectMapping({i \in DOMAIN table : table[i].name = t.name}, t.inst) ELSE {}

getTransducerName(m) == <<m.def.name, IF m.def.mode = "auto" THEN m.inst ELSE NoNumber>>

(* What was asked for, with the order it was asked in (a place and a field),*)
(* is added to the list where it has no mapping, until the list is full.    *)
Unmapped(asked) == {q \in asked : n2kMapping(q[2], q[3]) = {}}

Measured(asked) == {<<q[2], q[3]>> : q \in asked}

addUnknown(u, asked) ==
  LET Before(q) == {p \in asked : p[1] < q[1] \/ (p[1] = q[1] /\ p[2] < q[2])} IN
    u \cup Measured({q \in asked : Cardinality(u \cup Measured(Before(q))) < MaxUnknown})

-----------------------------------------------------------------------------
(* GwBoatData::update and getDataWithDefault of the item n. A value of a    *)
(* channel that is taken leaves the item open to all channels.              *)
takes(n, source) == items[n] # NoItem => source <= items[n].source

(* timoSensor has passed since the last update.                             *)
TimesOut ==
  /\ \E n \in ItemName : items[n] # NoItem /\ items' = [items EXCEPT ![n] = NoItem]
  /\ sent' = NothingSent
  /\ UNCHANGED <<table, unknown>>

-----------------------------------------------------------------------------
(* A message of the bus with the fields given. The bus is preferred to all  *)
(* channels, so that every item takes its value.                            *)
HandleN2k(inst, given, r) ==
  LET entries == {[name |-> getTransducerName(m),
                   value |-> [field |-> m.def.field, inst |-> inst, reading |-> r]] :
                    m \in UNION {n2kMapping(f, inst) : f \in given}}
  IN /\ unknown' = addUnknown(unknown, Unmapped({<<0, f, inst>> : f \in given}))
     /\ items' = [n \in ItemName |->
                    IF \E e \in entries : e.name = n
                      THEN [data |-> (CHOOSE e \in entries : e.name = n).value, source |-> Bus]
                      ELSE items[n]]
     /\ \E due \in SUBSET entries : sent' = [entries |-> due, messages |-> {}]
     /\ UNCHANGED table

-----------------------------------------------------------------------------
(* A sentence with some transducers: each of them is stored, under its own  *)
(* name if it is not mapped and unmapped ones are shown.                    *)
ItemOf(t) ==
  IF n183Mapping(t) = {} THEN <<t.name, t.inst>>
  ELSE getTransducerName(CHOOSE m \in n183Mapping(t) : TRUE)

Stored(sentence) ==
  {i \in DOMAIN sentence :
     /\ unmappedXdr \/ n183Mapping(sentence[i].transducer) # {}
     /\ takes(ItemOf(sentence[i].transducer), Channel)}

(* An item has the last value that was stored under its name.               *)
ItemsAfter(sentence) ==
  LET stored == [i \in Stored(sentence) |-> ItemOf(sentence[i].transducer)]
      LastAs(n) == CHOOSE i \in LastOf({j \in DOMAIN stored : stored[j] = n}) : TRUE
  IN [n \in ItemName |->
        IF \A i \in DOMAIN stored : stored[i] # n THEN items[n]
        ELSE [data |-> sentence[LastAs(n)].value, source |-> Channel]]

getOtherFieldValue_FirstInstance(its, m, f) ==
  LET other == n2kMapping(f, m.def.inst) IN
    IF other = {} THEN NoValue ELSE its[getTransducerName(CHOOSE o \in other : TRUE)].data

getOtherFieldValue(its, m, f) ==
  LET other == n2kMapping(f, m.inst) IN
    IF other = {} THEN NoValue ELSE its[getTransducerName(CHOOSE o \in other : TRUE)].data

(* The value that was received is overwritten like those of all the fields. *)
fillFieldList(its, m) == [f \in Field |-> getOtherFieldValue(its, m, f)]

(* Afterwards every stored one with a mapping makes a message of the bus,   *)
(* if any of its fields has a value.                                        *)
Found(sentence, its) ==
  UNION {{[at |-> i, inst |-> m.inst, field |-> m.def.field, value |-> sentence[i].value,
           list |-> fillFieldList(its, m)] :
            m \in n183Mapping(sentence[i].transducer)} : i \in Stored(sentence)}

(* The interval has passed for the instances that are due; then it starts   *)
(* anew, so that one message of each is sent.                               *)
send(messages, due) ==
  {m \in messages : m.inst \in due /\ \A o \in messages : o.inst = m.inst => m.at <= o.at}

convertXDR(sentence) ==
  LET found == Found(sentence, ItemsAfter(sentence))
      messages == {m \in found : \E f \in Field : m.list[f] # NoValue} IN
    /\ items' = ItemsAfter(sentence)
    /\ unknown' = addUnknown(unknown, Unmapped({<<m.at, f, m.inst>> : m \in found, f \in Field}))
    /\ \E due \in SUBSET Instance :
         sent' = [entries |-> {}, messages |-> send(messages, due)]
    /\ UNCHANGED table

(* The other devices give a number to the transducers of automatic mappings *)
(* only, and mean by a name what the table means, or something of another   *)
(* type.                                                                    *)
Sendable ==
  {t \in Transducer : \A i \in DOMAIN table :
     t.known /\ table[i].name = t.name => (t.inst # NoNumber <=> table[i].mode = "auto")}

Meaning(t, r) ==
  LET of == {i \in DOMAIN table : t.known /\ table[i].name = t.name}
      m  == table[CHOOSE i \in FirstOf(of) : TRUE] IN
    IF of = {} THEN [field |-> NoNumber, inst |-> NoNumber, reading |-> r]
    ELSE [field |-> m.field, inst |-> IF m.mode = "single" THEN m.inst ELSE t.inst,
          reading |-> r]

Sentences == {s \in UNION {[1..n -> Sendable] : n \in 1..MaxHeard} : IsInjective(s)}

XdrNext ==
  \/ \E s \in Sentences : \E r \in [DOMAIN s -> Reading] :
       convertXDR([i \in DOMAIN s |-> [transducer |-> s[i], value |-> Meaning(s[i], r[i])]])
  \/ \E inst \in Instance, given \in SUBSET Field \ {{}}, r \in Reading :
       HandleN2k(inst, given, r)
  \/ TimesOut

XdrSpec == XdrInit /\ [][XdrNext]_xdrVars

-----------------------------------------------------------------------------
(* The value v is of the field f and the instance inst, if the instance is  *)
(* not to be ignored.                                                       *)
Fits(v, f, inst) ==
  /\ v.field = f
  /\ v.inst = inst \/ \E i \in DOMAIN table : table[i].field = f /\ table[i].mode = "ignore"

(* Single mappings are given for every instance of a field, or an automatic *)
(* one after them, or the instance of the field is to be ignored.           *)
EveryInstanceMapped ==
  \A t \in Tables : \A i \in DOMAIN t, inst \in Instance :
    t[i].mode = "single" =>
      \E j \in DOMAIN t :
        /\ t[j].field = t[i].field
        /\ \/ t[j].mode = "single" /\ t[j].inst = inst
           \/ t[j].mode = "auto" /\ i < j
           \/ t[j].mode = "ignore"

(* A name is of one mapping, and what is shown without a mapping has none   *)
(* of these names.                                                          *)
NamesApart ==
  \A t \in Tables : \A i \in DOMAIN t :
    /\ \A j \in DOMAIN t : t[j].name = t[i].name => j = i
    /\ unmappedXdr => \A d \in Transducer : d.name = t[i].name => d.known

(* Values of different instances are never mixed up: a transducer name is   *)
(* sent with values of its instance only, and a message of the bus has them *)
(* in all of its fields, although these come from several sentences, the    *)
(* bus itself and different mappings ("find a mapping for a different field *)
(* from the same category with similar instanceId and selector",            *)
(* getOtherFieldMapping). It holds if EveryInstanceMapped and NamesApart do.*)
InstancesKept ==
  /\ \A e \in sent.entries : \E i \in DOMAIN table :
       /\ table[i].name = e.name[1]
       /\ Fits(e.value, table[i].field,
               IF table[i].mode = "single" THEN table[i].inst ELSE e.name[2])
  /\ \A m \in sent.messages, f \in Field : m.list[f] # NoValue => Fits(m.list[f], f, m.inst)

(* The name of a single mapping is sent for its instance only (doc/         *)
(* XdrMappings.md: "exactly only this instance id is mapped to the selected *)
(* transducer name"). It is sent for all instances that have no mapping.    *)
OnlyThisInstance ==
  \A e \in sent.entries, i \in DOMAIN table :
    table[i].name = e.name[1] /\ table[i].mode = "single" => e.value.inst = table[i].inst

(* A message that a transducer causes has the value that was received ("we  *)
(* take the current transducer value", fillFieldList). It has the one of    *)
(* the first mapping for its field and instance instead.                    *)
CurrentSent == \A m \in sent.messages : m.list[m.field] = m.value
=============================================================================
