--------------------------- MODULE GwRouting_proofs ---------------------------
(* Proofs about GwRouting for every number of gateways, ports and           *)
(* configurations: types, no echo, each form once, and no loop in a tree of  *)
(* connections.                                                             *)
EXTENDS GwRouting, FiniteSetTheorems, SequenceTheorems, TLAPS

(* The connections form a tree: behind the end x are the gateways that are  *)
(* reached through it, never its own one, and one that is not reached       *)
(* through it has all of them behind the end that leads to x.               *)
Behinds ==
  {B \in [End -> SUBSET Gateway] :
     \A x \in End :
       /\ Peer[x][1] \in B[x] /\ x[1] \notin B[x]
       /\ \A y \in End : Peer[y][1] = x[1] /\ Peer[y] # x => B[x] \subseteq B[y]}

(* The messages with the same data.                                         *)
MessageOf(d) == {m \in Message : m.data = d}

LEMMA MessageTypes ==
  ASSUME NEW d \in Data
  PROVE  /\ \A s \in Sentence : Line(s, d) \in MessageOf(d)
         /\ Seasmart(d) \in MessageOf(d) /\ N2k(d) \in MessageOf(d)
BY DEF MessageOf, Message, Lines, Line, Seasmart, N2k

LEMMA DataOfMessage == ASSUME NEW m \in Message PROVE m.data \in Data /\ m \in MessageOf(m.data)
BY DEF MessageOf, Message, Lines, Line, Seasmart, N2k

(* A port owns its own source id.                                           *)
LEMMA PortIsOwn == ASSUME NEW p \in Port PROVE isOwnSource(ChannelOf(p), p)
BY GwRoutingAssumption DEF isOwnSource, ChannelOf, maxId, MIN_TCP_CHANNEL_ID

-----------------------------------------------------------------------------
(* What is sent to a port carries the data of the message, and nothing is   *)
(* sent to the source.                                                      *)

LEMMA OneOrNone ==
  ASSUME NEW S, NEW m \in S
  PROVE  <<m>> \in Seq(S) /\ <<>> \in Seq(S)
OBVIOUS

LEMMA SendToClients ==
  ASSUME NEW g, NEW p, NEW src, NEW d, NEW m \in MessageOf(d)
  PROVE  /\ sendToClients(g, p, m, src) \in Seq(MessageOf(d))
         /\ p = src => sendToClients(g, p, m, src) = <<>>
<1>1. <<m>> \in Seq(MessageOf(d)) /\ <<>> \in Seq(MessageOf(d))
  BY OneOrNone
<1> QED BY <1>1 DEF sendToClients, Skip

LEMMA SendActisense ==
  ASSUME NEW g, NEW p \in Port, NEW src, NEW d \in Data
  PROVE  /\ sendActisense(g, p, d, src) \in Seq(MessageOf(d))
         /\ p = src => sendActisense(g, p, d, src) = <<>>
<1>1. <<N2k(d)>> \in Seq(MessageOf(d)) /\ <<>> \in Seq(MessageOf(d))
  BY OneOrNone, MessageTypes
<1> QED BY <1>1, PortIsOwn DEF sendActisense

LEMMA SendLines ==
  ASSUME NEW g, NEW p, NEW src, NEW d \in Data, NEW lines \in Converted(d)
  PROVE  /\ SendNMEA0183Message(g, p, lines, src) \in Seq(MessageOf(d))
         /\ p = src => SendNMEA0183Message(g, p, lines, src) = <<>>
<1>1. CASE lines = <<>>
  BY <1>1 DEF SendNMEA0183Message
<1>2. ASSUME NEW s \in Sentence, lines = <<Line(s, d)>>
      PROVE  /\ SendNMEA0183Message(g, p, lines, src) \in Seq(MessageOf(d))
             /\ p = src => SendNMEA0183Message(g, p, lines, src) = <<>>
  <2>1. lines # <<>> /\ lines[1] = Line(s, d)
    BY <1>2
  <2>2. lines[1] \in MessageOf(d)
    BY <2>1, MessageTypes
  <2>3. SendNMEA0183Message(g, p, lines, src) = sendToClients(g, p, lines[1], src)
    BY <2>1 DEF SendNMEA0183Message
  <2> QED BY <2>2, <2>3, SendToClients
<1> QED BY <1>1, <1>2 DEF Converted

LEMMA ConcatOf ==
  ASSUME NEW S, NEW s \in Seq(S), NEW t \in Seq(S)
  PROVE  s \o t \in Seq(S) /\ (s = <<>> /\ t = <<>> => s \o t = <<>>)
OBVIOUS

LEMMA HandleN2k ==
  ASSUME NEW g, NEW p \in Port, NEW src, NEW d \in Data, NEW isConverted \in BOOLEAN,
         NEW lines \in Converted(d)
  PROVE  /\ handleN2kMessage(g, p, d, src, isConverted, lines) \in Seq(MessageOf(d))
         /\ p = src => handleN2kMessage(g, p, d, src, isConverted, lines) = <<>>
<1> DEFINE A == sendToClients(g, p, Seasmart(d), src)
           B == sendActisense(g, p, d, src)
           C == IF isConverted THEN <<>> ELSE SendNMEA0183Message(g, p, lines, src)
<1>1. A \in Seq(MessageOf(d)) /\ (p = src => A = <<>>)
  BY MessageTypes, SendToClients
<1>2. B \in Seq(MessageOf(d)) /\ (p = src => B = <<>>)
  BY SendActisense
<1>3. C \in Seq(MessageOf(d)) /\ (p = src => C = <<>>)
  BY SendLines
<1>4. handleN2kMessage(g, p, d, src, isConverted, lines) = A \o B \o C
  BY DEF handleN2kMessage
<1> HIDE DEF A, B, C
<1>5. A \o B \in Seq(MessageOf(d)) /\ (p = src => A \o B = <<>>)
  BY <1>1, <1>2, ConcatOf
<1>6. (A \o B) \o C \in Seq(MessageOf(d)) /\ (p = src => (A \o B) \o C = <<>>)
  BY <1>5, <1>3, ConcatOf
<1> QED BY <1>4, <1>6

-----------------------------------------------------------------------------
(* How often a form occurs in what leaves a port.                           *)
Places(s, form) == {k \in DOMAIN s : s[k].form = form}
Count(s, form) == Cardinality(Places(s, form))

LEMMA CountType ==
  ASSUME NEW S, NEW s \in Seq(S), NEW form
  PROVE  IsFiniteSet(Places(s, form)) /\ Count(s, form) \in Nat
<1>1. Places(s, form) \in SUBSET (1..Len(s)) /\ Len(s) \in Int /\ 1 \in Int
  BY DEF Places
<1>2. IsFiniteSet(1..Len(s))
  BY <1>1, FS_Interval
<1>3. IsFiniteSet(Places(s, form))
  BY <1>1, <1>2, FS_Subset
<1> QED BY <1>3, FS_CardinalityType DEF Count

LEMMA CountEmpty == ASSUME NEW form PROVE Count(<<>>, form) = 0
<1>1. Places(<<>>, form) = {}
  BY DEF Places
<1> QED BY <1>1, FS_EmptySet DEF Count

LEMMA CountOne ==
  ASSUME NEW m, NEW form
  PROVE  Count(<<m>>, form) = IF m.form = form THEN 1 ELSE 0
<1>1. Places(<<m>>, form) = IF m.form = form THEN {1} ELSE {}
  BY DEF Places
<1> QED BY <1>1, FS_EmptySet, FS_Singleton DEF Count

LEMMA CountConcat ==
  ASSUME NEW S, NEW s \in Seq(S), NEW t \in Seq(S), NEW form
  PROVE  Count(s \o t, form) <= Count(s, form) + Count(t, form)
<1> DEFINE A == Places(s, form)
           B == Places(t, form)
           C == {j + Len(s) : j \in B}
           shift == [j \in B |-> j + Len(s)]
<1>1. IsFiniteSet(A) /\ IsFiniteSet(B) /\ Cardinality(A) \in Nat /\ Cardinality(B) \in Nat
  BY CountType DEF Count
<1>2. shift \in Surjection(B, C)
  BY DEF Surjection
<1>3. IsFiniteSet(C) /\ Cardinality(C) <= Cardinality(B)
  <2> HIDE DEF B, C, shift
  <2> QED BY <1>1, <1>2, FS_Surjection
<1>4. Places(s \o t, form) \subseteq A \cup C
  <2> SUFFICES ASSUME NEW k \in Places(s \o t, form) PROVE k \in A \cup C
    OBVIOUS
  <2>1. k \in 1..(Len(s) + Len(t)) /\ (s \o t)[k].form = form
    BY DEF Places
  <2>2. CASE k <= Len(s)
    <3>1. k \in DOMAIN s /\ (s \o t)[k] = s[k]
      BY <2>1, <2>2
    <3> QED BY <2>1, <3>1 DEF Places
  <2>3. CASE k > Len(s)
    <3>1. k - Len(s) \in DOMAIN t /\ (s \o t)[k] = t[k - Len(s)]
      BY <2>1, <2>3
    <3>2. k - Len(s) \in B
      BY <2>1, <3>1 DEF Places
    <3>3. k = (k - Len(s)) + Len(s)
      BY <2>1
    <3> QED BY <3>2, <3>3
  <2> QED BY <2>1, <2>2, <2>3
<1>5. IsFiniteSet(A \cup C) /\ Cardinality(A \cup C) <= Cardinality(A) + Cardinality(B)
  <2> HIDE DEF A, B, C
  <2>1. /\ IsFiniteSet(A \cup C)
        /\ Cardinality(A \cup C) = Cardinality(A) + Cardinality(C) - Cardinality(A \cap C)
    BY <1>1, <1>3, FS_Union
  <2>2. Cardinality(C) \in Nat
    BY <1>3, FS_CardinalityType
  <2>3. Cardinality(A \cap C) \in Nat
    <3>1. IsFiniteSet(A \cap C)
      BY <1>1, FS_Subset
    <3> QED BY <3>1, FS_CardinalityType
  <2> QED BY <1>1, <1>3, <2>1, <2>2, <2>3
<1>6. Cardinality(Places(s \o t, form)) <= Cardinality(A \cup C)
  <2> HIDE DEF A, B, C
  <2> QED BY <1>4, <1>5, FS_Subset
<1>7. Cardinality(Places(s \o t, form)) \in Nat /\ Cardinality(A \cup C) \in Nat
  <2>1. s \o t \in Seq(S)
    OBVIOUS
  <2>2. Count(s \o t, form) \in Nat
    BY <2>1, CountType
  <2> HIDE DEF A, B, C
  <2> QED BY <2>2, <1>5, FS_CardinalityType DEF Count
<1> QED BY <1>1, <1>5, <1>6, <1>7 DEF Count

LEMMA ClientsCount ==
  ASSUME NEW g, NEW p, NEW src, NEW m, NEW form
  PROVE  Count(sendToClients(g, p, m, src), form) <= IF m.form = form THEN 1 ELSE 0
BY CountEmpty, CountOne DEF sendToClients

LEMMA ActisenseCount ==
  ASSUME NEW g, NEW p, NEW src, NEW d, NEW form
  PROVE  Count(sendActisense(g, p, d, src), form) <= IF form = "n2k" THEN 1 ELSE 0
BY CountEmpty, CountOne DEF sendActisense, N2k

LEMMA LinesCount ==
  ASSUME NEW g, NEW p, NEW src, NEW d \in Data, NEW lines \in Converted(d), NEW form
  PROVE  Count(SendNMEA0183Message(g, p, lines, src), form) <= IF form = "line" THEN 1 ELSE 0
<1>1. CASE lines = <<>>
  BY <1>1, CountEmpty DEF SendNMEA0183Message
<1>2. ASSUME NEW s \in Sentence, lines = <<Line(s, d)>>
      PROVE  Count(SendNMEA0183Message(g, p, lines, src), form) <= IF form = "line" THEN 1 ELSE 0
  <2>1. SendNMEA0183Message(g, p, lines, src) = sendToClients(g, p, Line(s, d), src)
    BY <1>2 DEF SendNMEA0183Message
  <2>2. Line(s, d).form = "line"
    BY DEF Line
  <2> QED BY <2>1, <2>2, ClientsCount
<1> QED BY <1>1, <1>2 DEF Converted

(* A message of the bus leaves in each form once, as a line only if it is   *)
(* not itself made from lines.                                              *)
LEMMA HandleN2kCount ==
  ASSUME NEW g, NEW p \in Port, NEW src, NEW d \in Data, NEW isConverted \in BOOLEAN,
         NEW lines \in Converted(d), NEW form \in {"line", "seasmart", "n2k"}
  PROVE  /\ Count(handleN2kMessage(g, p, d, src, isConverted, lines), form) \in Nat
         /\ Count(handleN2kMessage(g, p, d, src, isConverted, lines), form)
              <= IF isConverted /\ form = "line" THEN 0 ELSE 1
<1> DEFINE A == sendToClients(g, p, Seasmart(d), src)
           B == sendActisense(g, p, d, src)
           C == IF isConverted THEN <<>> ELSE SendNMEA0183Message(g, p, lines, src)
           M == MessageOf(d)
<1>1. A \in Seq(M) /\ Count(A, form) <= IF form = "seasmart" THEN 1 ELSE 0
  <2>1. Seasmart(d) \in M /\ Seasmart(d).form = "seasmart"
    BY MessageTypes DEF Seasmart
  <2> QED BY <2>1, SendToClients, ClientsCount
<1>2. B \in Seq(M) /\ Count(B, form) <= IF form = "n2k" THEN 1 ELSE 0
  BY SendActisense, ActisenseCount
<1>3. C \in Seq(M) /\ Count(C, form) <= IF ~isConverted /\ form = "line" THEN 1 ELSE 0
  BY SendLines, LinesCount, CountEmpty
<1>4. handleN2kMessage(g, p, d, src, isConverted, lines) = A \o B \o C
  BY DEF handleN2kMessage
<1> HIDE DEF A, B, C, M
<1>5. A \o B \in Seq(M) /\ (A \o B) \o C \in Seq(M)
  BY <1>1, <1>2, <1>3
<1>6. /\ Count(A \o B, form) <= Count(A, form) + Count(B, form)
      /\ Count((A \o B) \o C, form) <= Count(A \o B, form) + Count(C, form)
  BY <1>1, <1>2, <1>3, <1>5, CountConcat
<1>7. /\ Count(A, form) \in Nat /\ Count(B, form) \in Nat /\ Count(C, form) \in Nat
      /\ Count(A \o B, form) \in Nat /\ Count((A \o B) \o C, form) \in Nat
  BY <1>1, <1>2, <1>3, <1>5, CountType
<1> QED BY <1>1, <1>2, <1>3, <1>4, <1>6, <1>7

(* What may leave a port for the message m.                                 *)
Once(s, m) ==
  \A form \in {"line", "seasmart", "n2k"} :
    Count(s, form) <= IF form = "seasmart" /\ m.form = form THEN 2 ELSE 1

LEMMA HandleN2kOnce ==
  ASSUME NEW g, NEW p \in Port, NEW src, NEW d \in Data, NEW isConverted \in BOOLEAN,
         NEW lines \in Converted(d), NEW m
  PROVE  Once(handleN2kMessage(g, p, d, src, isConverted, lines), m)
BY HandleN2kCount DEF Once

LEMMA SendLinesOnce ==
  ASSUME NEW g, NEW p, NEW src, NEW d \in Data, NEW lines \in Converted(d), NEW m
  PROVE  Once(SendNMEA0183Message(g, p, lines, src), m)
<1>1. ASSUME NEW form \in {"line", "seasmart", "n2k"}
      PROVE  /\ Count(SendNMEA0183Message(g, p, lines, src), form) \in Nat
             /\ Count(SendNMEA0183Message(g, p, lines, src), form)
                  <= IF form = "line" THEN 1 ELSE 0
  BY SendLines, CountType, LinesCount
<1> QED BY <1>1 DEF Once

LEMMA ForwardOnce ==
  ASSUME NEW g, NEW p, NEW src, NEW m \in Message
  PROVE  Once(sendToClients(g, p, m, src), m)
<1>1. ASSUME NEW form \in {"line", "seasmart", "n2k"}
      PROVE  /\ Count(sendToClients(g, p, m, src), form) \in Nat
             /\ Count(sendToClients(g, p, m, src), form) <= IF m.form = form THEN 1 ELSE 0
  BY DataOfMessage, SendToClients, CountType, ClientsCount
<1> QED BY <1>1 DEF Once

(* Seasmart is forwarded and what it holds is handled; of a line, only what *)
(* is made of it and not a line.                                            *)
LEMMA ForwardAndHandleOnce ==
  ASSUME NEW g, NEW p \in Port, NEW src, NEW m \in Message, NEW isConverted \in BOOLEAN,
         NEW lines \in Converted(m.data),
         \/ m.form = "seasmart"
         \/ m.form = "line" /\ isConverted
  PROVE  Once(sendToClients(g, p, m, src)
              \o handleN2kMessage(g, p, m.data, src, isConverted, lines), m)
<1> DEFINE A == sendToClients(g, p, m, src)
           B == handleN2kMessage(g, p, m.data, src, isConverted, lines)
           M == MessageOf(m.data)
<1>1. m.data \in Data /\ m \in M
  BY DataOfMessage
<1> SUFFICES ASSUME NEW form \in {"line", "seasmart", "n2k"}
             PROVE  Count(A \o B, form) <= IF form = "seasmart" /\ m.form = form THEN 2 ELSE 1
  BY DEF Once
<1>2. A \in Seq(M) /\ Count(A, form) <= IF m.form = form THEN 1 ELSE 0
  BY <1>1, SendToClients, ClientsCount
<1>3. B \in Seq(M) /\ Count(B, form) <= IF isConverted /\ form = "line" THEN 0 ELSE 1
  BY <1>1, HandleN2k, HandleN2kCount
<1> HIDE DEF A, B, M
<1>4. Count(A, form) \in Nat /\ Count(B, form) \in Nat /\ Count(A \o B, form) \in Nat
  <2>1. A \o B \in Seq(M)
    BY <1>2, <1>3
  <2> QED BY <2>1, <1>2, <1>3, CountType
<1>5. Count(A \o B, form) <= Count(A, form) + Count(B, form)
  BY <1>2, <1>3, CountConcat
<1> QED BY <1>2, <1>3, <1>4, <1>5

LEMMA HandleAndSendOnce ==
  ASSUME NEW g, NEW p \in Port, NEW src, NEW m \in Lines, NEW converted \in BOOLEAN
  PROVE  Once((IF converted THEN handleN2kMessage(g, p, m.data, src, TRUE, <<>>) ELSE <<>>)
              \o SendNMEA0183Message(g, p, <<m>>, src), m)
<1> DEFINE A == IF converted THEN handleN2kMessage(g, p, m.data, src, TRUE, <<>>) ELSE <<>>
           B == SendNMEA0183Message(g, p, <<m>>, src)
           M == MessageOf(m.data)
<1>1. m.data \in Data /\ <<m>> \in Converted(m.data) /\ <<>> \in Converted(m.data)
  BY DEF Lines, Line, Converted
<1>2. ASSUME NEW form \in {"line", "seasmart", "n2k"}
      PROVE  /\ Count(A \o B, form) \in Nat
             /\ Count(A \o B, form) <= 1
  <2>1. A \in Seq(M) /\ Count(A, form) <= IF form = "line" THEN 0 ELSE 1
    <3>1. CASE converted
      <4>1. A = handleN2kMessage(g, p, m.data, src, TRUE, <<>>)
        BY <3>1
      <4> HIDE DEF A
      <4> QED BY <1>1, <4>1, HandleN2k, HandleN2kCount
    <3>2. CASE ~converted
      <4>1. A = <<>>
        BY <3>2
      <4> HIDE DEF A
      <4> QED BY <4>1, CountEmpty
    <3> QED BY <3>1, <3>2
  <2>2. B \in Seq(M) /\ Count(B, form) <= IF form = "line" THEN 1 ELSE 0
    BY <1>1, SendLines, LinesCount
  <2> HIDE DEF A, B, M
  <2>3. Count(A, form) \in Nat /\ Count(B, form) \in Nat /\ Count(A \o B, form) \in Nat
    <3>1. A \o B \in Seq(M)
      BY <2>1, <2>2
    <3> QED BY <3>1, <2>1, <2>2, CountType
  <2>4. Count(A \o B, form) <= Count(A, form) + Count(B, form)
    BY <2>1, <2>2, CountConcat
  <2> QED BY <2>1, <2>2, <2>3, <2>4
<1>3. Once(A \o B, m)
  <2> HIDE DEF A, B
  <2> QED BY <1>2 DEF Once
<1> QED BY <1>3

-----------------------------------------------------------------------------
(* The inboxes of the connections.                                          *)

Boxes == {b \in [End -> Seq(Message)] : \A x \in End : Len(b[x]) <= Capacity}

LEMMA SubsetSeq == ASSUME NEW S, NEW T, S \subseteq T, NEW s \in Seq(S) PROVE s \in Seq(T)
OBVIOUS

LEMMA PeerIsEnd ==
  ASSUME NEW x \in End
  PROVE  /\ Peer[x] \in End /\ Peer[x][1] \in Gateway /\ Peer[x][2] \in Port
         /\ Peer[Peer[x]] = x /\ Peer[x][1] # x[1]
BY GwRoutingAssumption

(* The first messages that fit.                                             *)
LEMMA Fitting ==
  ASSUME NEW S, NEW s \in Seq(S),
         NEW n \in Nat, n = IF Len(s) < Capacity THEN Len(s) ELSE Capacity
  PROVE  /\ SubSeq(s, 1, n) \in Seq(S) /\ Len(SubSeq(s, 1, n)) = n /\ n <= Capacity
         /\ \A k \in 1..n : SubSeq(s, 1, n)[k] = s[k] /\ k \in 1..Len(s)
<1>1. n <= Len(s) /\ n <= Capacity /\ Capacity \in Nat
  BY GwRoutingAssumption
<1>2. \A k \in 1..n : s[k] \in S
  BY <1>1
<1>3. SubSeq(s, 1, n) \in Seq(S) /\ Len(SubSeq(s, 1, n)) = n
  BY <1>1, <1>2
<1> QED BY <1>1, <1>3

LEMMA ElementOfConcat ==
  ASSUME NEW S, NEW s \in Seq(S), NEW t \in Seq(S)
  PROVE  /\ s \o t \in Seq(S)
         /\ \A k \in 1..Len(s \o t) : \/ \E j \in DOMAIN s : (s \o t)[k] = s[j]
                                     \/ \E j \in DOMAIN t : (s \o t)[k] = t[j]
<1>1. ASSUME NEW k \in 1..Len(s \o t)
      PROVE  \/ \E j \in DOMAIN s : (s \o t)[k] = s[j]
             \/ \E j \in DOMAIN t : (s \o t)[k] = t[j]
  <2>1. CASE k <= Len(s)
    <3>1. k \in DOMAIN s /\ (s \o t)[k] = s[k]
      BY <2>1
    <3> QED BY <3>1
  <2>2. CASE k > Len(s)
    <3>1. k - Len(s) \in DOMAIN t /\ (s \o t)[k] = t[k - Len(s)]
      BY <2>2
    <3> QED BY <3>1
  <2> QED BY <2>1, <2>2
<1> QED BY <1>1

(* What is in an inbox afterwards was there before or comes from g.         *)
Arrived(new, box, g, out) ==
  \A x \in End : \A k \in DOMAIN new[x] :
    \/ \E j \in DOMAIN box[x] : new[x][k] = box[x][j]
    \/ /\ Peer[x][1] = g
       /\ \E j \in DOMAIN out[Peer[x][2]] : new[x][k] = out[Peer[x][2]][j]

LEMMA Arriving ==
  ASSUME NEW g, NEW box \in Boxes, NEW out \in [Port -> Seq(Message)]
  PROVE  Arrive(box, g, out) \in Boxes /\ Arrived(Arrive(box, g, out), box, g, out)
<1>1. ASSUME NEW x \in End
      PROVE  /\ Arrive(box, g, out)[x] \in Seq(Message)
             /\ Len(Arrive(box, g, out)[x]) <= Capacity
             /\ \A k \in DOMAIN Arrive(box, g, out)[x] :
                  \/ \E j \in DOMAIN box[x] : Arrive(box, g, out)[x][k] = box[x][j]
                  \/ /\ Peer[x][1] = g
                     /\ \E j \in DOMAIN out[Peer[x][2]] :
                          Arrive(box, g, out)[x][k] = out[Peer[x][2]][j]
  <2> DEFINE o == out[Peer[x][2]]
             s == box[x] \o o
             n == IF Len(s) < Capacity THEN Len(s) ELSE Capacity
             r == Arrive(box, g, out)[x]
  <2>1. box[x] \in Seq(Message) /\ Len(box[x]) <= Capacity
    BY DEF Boxes
  <2>2. o \in Seq(Message)
    BY PeerIsEnd
  <2> HIDE DEF o
  <2>3. s \in Seq(Message) /\ n \in Nat
    BY <2>1, <2>2, GwRoutingAssumption
  <2>4. \A k \in 1..Len(s) : \/ \E j \in DOMAIN box[x] : s[k] = box[x][j]
                            \/ \E j \in DOMAIN o : s[k] = o[j]
    <3> DEFINE b == box[x]
    <3>1. b \in Seq(Message)
      BY <2>1
    <3> HIDE DEF b
    <3>2. \A k \in 1..Len(b \o o) : \/ \E j \in DOMAIN b : (b \o o)[k] = b[j]
                                  \/ \E j \in DOMAIN o : (b \o o)[k] = o[j]
      BY <3>1, <2>2, ElementOfConcat
    <3> QED BY <3>2 DEF b
  <2>5. CASE Peer[x][1] = g /\ Connected(x)
    <3>1. r = SubSeq(s, 1, n)
      BY <2>5 DEF Arrive, o
    <3> HIDE DEF s, n, r
    <3>2. /\ r \in Seq(Message) /\ Len(r) = n /\ n <= Capacity
          /\ \A k \in 1..n : r[k] = s[k] /\ k \in 1..Len(s)
      BY <2>3, <3>1, Fitting DEF n
    <3>3. \A k \in DOMAIN r : \/ \E j \in DOMAIN box[x] : r[k] = box[x][j]
                             \/ \E j \in DOMAIN o : r[k] = o[j]
      <4>1. \A k \in DOMAIN r : k \in 1..n
        BY <3>2
      <4> QED BY <4>1, <3>2, <2>4
    <3> QED BY <3>2, <3>3, <2>5 DEF r, o
  <2>6. CASE ~(Peer[x][1] = g /\ Connected(x))
    <3>1. r = box[x]
      BY <2>6 DEF Arrive
    <3> QED BY <3>1, <2>1
  <2> QED BY <2>5, <2>6
<1>2. Arrive(box, g, out) = [x \in End |-> Arrive(box, g, out)[x]]
  BY DEF Arrive
<1>3. Arrive(box, g, out) \in [End -> Seq(Message)]
  BY <1>1, <1>2
<1>4. Arrive(box, g, out) \in Boxes
  BY <1>1, <1>3 DEF Boxes
<1> QED BY <1>1, <1>4 DEF Arrived

-----------------------------------------------------------------------------
(* Every step dispatches a new message, or one from a connection, or loses  *)
(* messages of connections.                                                 *)

Kind == {"bus", "port", "user", "own"}

(* A dispatch of m that follows the rules.                                  *)
Sends(by, g, src, m, box) ==
  \E out \in [Port -> Seq(MessageOf(m.data))], bus \in Nat :
    /\ Send(by, g, src, m, box, out, bus)
    /\ by = "port" => out[src] = <<>>
    /\ by = "bus" => bus = 0
    /\ \A p \in Port : Once(out[p], m)

Inject ==
  \E by \in Kind, g \in Gateway, src \in Source, m \in Message :
    Sends(by, g, src, m, inbox) /\ Fresh(g, m.data)

Relay ==
  \E x \in End :
    /\ inbox[x] # <<>>
    /\ Sends("port", x[1], x[2], Head(inbox[x]), [inbox EXCEPT ![x] = Tail(@)])
    /\ UNCHANGED origin

(* Nothing is in the boxes new that is not in box.                          *)
Within(new, box) ==
  \A x \in End : \A k \in DOMAIN new[x] : \E j \in DOMAIN box[x] : new[x][k] = box[x][j]

Lose ==
  /\ inbox' \in Boxes
  /\ Within(inbox', inbox)
  /\ UNCHANGED <<config, sendOutN2k, origin, sent>>

LEMMA BusCount ==
  ASSUME NEW g, NEW src
  PROVE  toBus(g, src) \in Nat /\ toBus(g, N2K_CHANNEL_ID) = 0
BY DEF toBus

LEMMA ReadBusInjects ==
  ASSUME NEW g \in Gateway, ReadBus(g) PROVE Inject
<1>0. PICK d \in Data :
        \E lines \in Converted(d) :
          /\ Fresh(g, d)
          /\ Send("bus", g, N2K_CHANNEL_ID, N2k(d), inbox,
                  [p \in Port |-> handleN2kMessage(g, p, d, N2K_CHANNEL_ID, FALSE, lines)],
                  toBus(g, N2K_CHANNEL_ID))
  BY DEF ReadBus
<1>1. PICK lines \in Converted(d) :
        /\ Fresh(g, d)
        /\ Send("bus", g, N2K_CHANNEL_ID, N2k(d), inbox,
                [p \in Port |-> handleN2kMessage(g, p, d, N2K_CHANNEL_ID, FALSE, lines)],
                toBus(g, N2K_CHANNEL_ID))
  BY <1>0
<1> DEFINE out == [p \in Port |-> handleN2kMessage(g, p, d, N2K_CHANNEL_ID, FALSE, lines)]
<1>2. out \in [Port -> Seq(MessageOf(d))] /\ \A p \in Port : Once(out[p], N2k(d))
  BY HandleN2k, HandleN2kOnce
<1>3. N2k(d) \in Message /\ N2k(d).data = d
  BY MessageTypes DEF MessageOf
<1>4. N2K_CHANNEL_ID \in Source
  BY DEF Source
<1> DEFINE bus == toBus(g, N2K_CHANNEL_ID)
<1>5. bus \in Nat /\ bus = 0
  BY BusCount
<1>6. Send("bus", g, N2K_CHANNEL_ID, N2k(d), inbox, out, bus)
  BY <1>1
<1> HIDE DEF out, bus
<1>7. Sends("bus", g, N2K_CHANNEL_ID, N2k(d), inbox)
  BY <1>2, <1>3, <1>5, <1>6 DEF Sends
<1> QED BY <1>1, <1>3, <1>4, <1>7 DEF Inject, Kind

LEMMA ReadActisenseInjects ==
  ASSUME NEW g \in Gateway, NEW src \in Port, ReadActisense(g, src) PROVE Inject
<1>0. PICK d \in Data :
        \E lines \in Converted(d) :
          /\ Fresh(g, d)
          /\ Send("port", g, src, N2k(d), inbox,
                  [p \in Port |-> handleN2kMessage(g, p, d, src, FALSE, lines)], toBus(g, src))
  BY DEF ReadActisense
<1>1. PICK lines \in Converted(d) :
        /\ Fresh(g, d)
        /\ Send("port", g, src, N2k(d), inbox,
                [p \in Port |-> handleN2kMessage(g, p, d, src, FALSE, lines)], toBus(g, src))
  BY <1>0
<1> DEFINE out == [p \in Port |-> handleN2kMessage(g, p, d, src, FALSE, lines)]
<1>2. /\ out \in [Port -> Seq(MessageOf(d))] /\ out[src] = <<>>
      /\ \A p \in Port : Once(out[p], N2k(d))
  BY HandleN2k, HandleN2kOnce
<1>3. N2k(d) \in Message /\ N2k(d).data = d
  BY MessageTypes DEF MessageOf
<1> HIDE DEF out
<1>5. Sends("port", g, src, N2k(d), inbox)
  BY <1>1, <1>2, <1>3, BusCount DEF Sends, out
<1> QED BY <1>1, <1>3, <1>5 DEF Inject, Kind, Source

LEMMA HandleLineSends ==
  ASSUME NEW g \in Gateway, NEW src \in Port, NEW m \in Message, NEW box,
         HandleLine(g, src, m, box)
  PROVE  Sends("port", g, src, m, box)
<1> DEFINE forward == [p \in Port |-> sendToClients(g, p, m, src)]
           decode(lines) ==
             [p \in Port |-> sendToClients(g, p, m, src)
                             \o handleN2kMessage(g, p, m.data, src, FALSE, lines)]
           convert ==
             [p \in Port |-> sendToClients(g, p, m, src)
                             \o handleN2kMessage(g, p, m.data, src, TRUE, <<>>)]
<1>1. m.data \in Data /\ m \in MessageOf(m.data)
  BY DataOfMessage
<1>2. /\ forward \in [Port -> Seq(MessageOf(m.data))] /\ forward[src] = <<>>
      /\ \A p \in Port : Once(forward[p], m)
  BY <1>1, SendToClients, ForwardOnce
<1>3. ASSUME NEW isConverted \in BOOLEAN, NEW lines \in Converted(m.data), NEW p \in Port
      PROVE  /\ sendToClients(g, p, m, src)
                \o handleN2kMessage(g, p, m.data, src, isConverted, lines)
                  \in Seq(MessageOf(m.data))
             /\ p = src => sendToClients(g, p, m, src)
                \o handleN2kMessage(g, p, m.data, src, isConverted, lines) = <<>>
  <2> DEFINE A == sendToClients(g, p, m, src)
             B == handleN2kMessage(g, p, m.data, src, isConverted, lines)
  <2>1. A \in Seq(MessageOf(m.data)) /\ (p = src => A = <<>>)
    BY <1>1, SendToClients
  <2>2. B \in Seq(MessageOf(m.data)) /\ (p = src => B = <<>>)
    BY <1>1, HandleN2k
  <2> HIDE DEF A, B
  <2>3. A \o B \in Seq(MessageOf(m.data)) /\ (p = src => A \o B = <<>>)
    BY <2>1, <2>2, ConcatOf
  <2> QED BY <2>3 DEF A, B
<1>4. ASSUME NEW lines \in Converted(m.data), m.form = "seasmart"
      PROVE  /\ decode(lines) \in [Port -> Seq(MessageOf(m.data))] /\ decode(lines)[src] = <<>>
             /\ \A p \in Port : Once(decode(lines)[p], m)
  BY <1>3, <1>4, ForwardAndHandleOnce
<1>5. /\ convert \in [Port -> Seq(MessageOf(m.data))] /\ convert[src] = <<>>
      /\ m.form = "line" => \A p \in Port : Once(convert[p], m)
  <2>1. <<>> \in Converted(m.data)
    BY DEF Converted
  <2> QED BY <2>1, <1>3, ForwardAndHandleOnce
<1>6. \/ Send("port", g, src, m, box, forward, 0)
      \/ /\ m.form = "seasmart"
         /\ \E lines \in Converted(m.data) :
              Send("port", g, src, m, box, decode(lines), toBus(g, src))
      \/ m.form = "line" /\ Send("port", g, src, m, box, convert, toBus(g, src))
  BY DEF HandleLine
<1> HIDE DEF forward, decode, convert
<1>7. CASE Send("port", g, src, m, box, forward, 0)
  BY <1>2, <1>7 DEF Sends
<1>8. ASSUME NEW lines \in Converted(m.data), m.form = "seasmart",
             Send("port", g, src, m, box, decode(lines), toBus(g, src))
      PROVE  Sends("port", g, src, m, box)
  BY <1>4, <1>8, BusCount DEF Sends
<1>9. CASE m.form = "line" /\ Send("port", g, src, m, box, convert, toBus(g, src))
  BY <1>5, <1>9, BusCount DEF Sends
<1> QED BY <1>6, <1>7, <1>8, <1>9

LEMMA UserN2kInjects ==
  ASSUME NEW g \in Gateway, UserN2k(g) PROVE Inject
<1>0. PICK d \in Data, convert \in BOOLEAN :
        \E lines \in Converted(d) :
          /\ Fresh(g, d)
          /\ Send("user", g, MIN_USER_TASK, N2k(d), inbox,
                  [p \in Port |-> handleN2kMessage(g, p, d, MIN_USER_TASK, ~convert, lines)],
                  toBus(g, MIN_USER_TASK))
  BY DEF UserN2k
<1>1. PICK lines \in Converted(d) :
        /\ Fresh(g, d)
        /\ Send("user", g, MIN_USER_TASK, N2k(d), inbox,
                [p \in Port |-> handleN2kMessage(g, p, d, MIN_USER_TASK, ~convert, lines)],
                toBus(g, MIN_USER_TASK))
  BY <1>0
<1> DEFINE out == [p \in Port |-> handleN2kMessage(g, p, d, MIN_USER_TASK, ~convert, lines)]
<1>2. out \in [Port -> Seq(MessageOf(d))] /\ \A p \in Port : Once(out[p], N2k(d))
  <2>1. (~convert) \in BOOLEAN
    OBVIOUS
  <2> QED BY <2>1, HandleN2k, HandleN2kOnce
<1>3. N2k(d) \in Message /\ N2k(d).data = d
  BY MessageTypes DEF MessageOf
<1> HIDE DEF out
<1>5. Sends("user", g, MIN_USER_TASK, N2k(d), inbox)
  BY <1>1, <1>2, <1>3, BusCount DEF Sends, out
<1> QED BY <1>1, <1>3, <1>5 DEF Inject, Kind, Source

LEMMA UserLineInjects ==
  ASSUME NEW g \in Gateway, UserLine(g) PROVE Inject
<1> DEFINE out(m, converted) ==
      [p \in Port |->
         (IF converted THEN handleN2kMessage(g, p, m.data, MIN_USER_TASK, TRUE, <<>>)
                       ELSE <<>>)
         \o SendNMEA0183Message(g, p, <<m>>, MIN_USER_TASK)]
           bus(converted) == IF converted THEN toBus(g, MIN_USER_TASK) ELSE 0
<1>1. PICK m \in Lines, converted \in BOOLEAN :
        /\ Fresh(g, m.data)
        /\ Send("user", g, MIN_USER_TASK, m, inbox, out(m, converted), bus(converted))
  BY DEF UserLine
<1>2. m \in Message /\ m.data \in Data /\ <<m>> \in Converted(m.data)
      /\ <<>> \in Converted(m.data)
  BY DEF Message, Lines, Line, Converted
<1>3. /\ out(m, converted) \in [Port -> Seq(MessageOf(m.data))]
      /\ \A p \in Port : Once(out(m, converted)[p], m)
  <2>1. ASSUME NEW p \in Port
        PROVE  (IF converted THEN handleN2kMessage(g, p, m.data, MIN_USER_TASK, TRUE, <<>>)
                             ELSE <<>>)
               \o SendNMEA0183Message(g, p, <<m>>, MIN_USER_TASK) \in Seq(MessageOf(m.data))
    <3> DEFINE A == IF converted THEN handleN2kMessage(g, p, m.data, MIN_USER_TASK, TRUE, <<>>)
                                 ELSE <<>>
               B == SendNMEA0183Message(g, p, <<m>>, MIN_USER_TASK)
    <3>1. A \in Seq(MessageOf(m.data))
      BY <1>2, HandleN2k
    <3>2. B \in Seq(MessageOf(m.data))
      BY <1>2, SendLines
    <3> HIDE DEF A, B
    <3>3. A \o B \in Seq(MessageOf(m.data))
      BY <3>1, <3>2, ConcatOf
    <3> QED BY <3>3 DEF A, B
  <2> QED BY <2>1, HandleAndSendOnce
<1>4. bus(converted) \in Nat
  BY BusCount
<1> HIDE DEF out, bus
<1>5. Sends("user", g, MIN_USER_TASK, m, inbox)
  BY <1>1, <1>3, <1>4 DEF Sends
<1> QED BY <1>1, <1>2, <1>5 DEF Inject, Kind, Source

LEMMA SendRMCInjects ==
  ASSUME TypeOK, NEW g \in Gateway, SendRMC(g) PROVE Inject
<1>1. PICK d \in Data :
        /\ Fresh(g, d)
        /\ Send("own", g, lastSource[g], Line("RMC", d), inbox,
                [p \in Port |-> SendNMEA0183Message(g, p, <<Line("RMC", d)>>, lastSource[g])], 0)
  BY DEF SendRMC
<1> DEFINE out == [p \in Port |-> SendNMEA0183Message(g, p, <<Line("RMC", d)>>, lastSource[g])]
<1>2. <<Line("RMC", d)>> \in Converted(d)
  BY GwRoutingAssumption DEF Converted
<1>3. /\ out \in [Port -> Seq(MessageOf(d))]
      /\ \A p \in Port : Once(out[p], Line("RMC", d))
  BY <1>2, SendLines, SendLinesOnce
<1>4. Line("RMC", d) \in Message /\ Line("RMC", d).data = d
  BY MessageTypes, GwRoutingAssumption DEF MessageOf
<1>5. lastSource[g] \in Source
  BY DEF TypeOK
<1> HIDE DEF out
<1>6. Sends("own", g, lastSource[g], Line("RMC", d), inbox)
  BY <1>1, <1>3, <1>4 DEF Sends, out
<1> QED BY <1>1, <1>4, <1>5, <1>6 DEF Inject, Kind

LEMMA ReadExternalInjects ==
  ASSUME NEW g \in Gateway, NEW p \in Port, ReadExternal(g, p) PROVE Inject
<1>1. PICK m \in Message : Fresh(g, m.data) /\ HandleLine(g, p, m, inbox)
  BY DEF ReadExternal
<1>2. Sends("port", g, p, m, inbox)
  BY <1>1, HandleLineSends
<1> QED BY <1>1, <1>2 DEF Inject, Kind, Source

LEMMA ReadPeerRelays ==
  ASSUME TypeOK, NEW x \in End, ReadPeer(x) PROVE Relay
<1>1. /\ inbox[x] # <<>> /\ UNCHANGED origin
      /\ HandleLine(x[1], x[2], Head(inbox[x]), [inbox EXCEPT ![x] = Tail(@)])
  BY DEF ReadPeer
<1>2. Head(inbox[x]) \in Message
  BY <1>1 DEF TypeOK
<1>3. x[1] \in Gateway /\ x[2] \in Port
  BY GwRoutingAssumption
<1>4. Sends("port", x[1], x[2], Head(inbox[x]), [inbox EXCEPT ![x] = Tail(@)])
  BY <1>1, <1>2, <1>3, HandleLineSends
<1> QED BY <1>1, <1>4 DEF Relay

(* Taking the first message leaves the others.                              *)
LEMMA TailOfBox ==
  ASSUME NEW box \in Boxes, NEW x \in End, box[x] # <<>>,
         NEW rest, rest = [box EXCEPT ![x] = Tail(@)]
  PROVE  rest \in Boxes /\ Within(rest, box)
<1>1. box \in [End -> Seq(Message)] /\ \A y \in End : Len(box[y]) <= Capacity
  BY DEF Boxes
<1>2. Tail(box[x]) \in Seq(Message) /\ Len(Tail(box[x])) <= Capacity
  BY <1>1, GwRoutingAssumption
<1>3. ASSUME NEW k \in DOMAIN Tail(box[x]) PROVE \E j \in DOMAIN box[x] : Tail(box[x])[k] = box[x][j]
  <2>1. k + 1 \in DOMAIN box[x] /\ Tail(box[x])[k] = box[x][k + 1]
    BY <1>1
  <2> QED BY <2>1
<1>4. rest \in [End -> Seq(Message)] /\ rest[x] = Tail(box[x]) /\ \A y \in End \ {x} : rest[y] = box[y]
  BY <1>1, <1>2
<1>5. rest \in Boxes
  BY <1>1, <1>2, <1>4 DEF Boxes
<1>6. ASSUME NEW y \in End, NEW k \in DOMAIN rest[y]
      PROVE  \E j \in DOMAIN box[y] : rest[y][k] = box[y][j]
  <2>1. CASE y = x
    BY <2>1, <1>3, <1>4
  <2>2. CASE y # x
    <3>1. rest[y] = box[y]
      BY <2>2, <1>4
    <3>2. k \in DOMAIN box[y] /\ rest[y][k] = box[y][k]
      BY <3>1
    <3> QED BY <3>2
  <2> QED BY <2>1, <2>2
<1> QED BY <1>5, <1>6 DEF Within

LEMMA IgnorePeerLoses ==
  ASSUME TypeOK, NEW x \in End, IgnorePeer(x) PROVE Lose
<1>1. inbox \in Boxes
  BY DEF TypeOK, Boxes
<1>2. inbox[x] # <<>> /\ inbox' = [inbox EXCEPT ![x] = Tail(@)]
      /\ UNCHANGED <<config, sendOutN2k, origin, sent>>
  BY DEF IgnorePeer
<1>3. inbox' \in Boxes /\ Within(inbox', inbox)
  BY <1>1, <1>2, TailOfBox
<1> QED BY <1>2, <1>3 DEF Lose

LEMMA ConnectionLostLoses ==
  ASSUME TypeOK, NEW x \in End, ConnectionLost(x) PROVE Lose
<1>1. inbox' = [inbox EXCEPT ![x] = <<>>, ![Peer[x]] = <<>>]
      /\ UNCHANGED <<config, sendOutN2k, origin, sent>>
  BY DEF ConnectionLost
<1>2. inbox \in [End -> Seq(Message)] /\ \A y \in End : Len(inbox[y]) <= Capacity
  BY DEF TypeOK
<1>3. \A y \in End : inbox'[y] = inbox[y] \/ inbox'[y] = <<>>
  BY <1>1, <1>2
<1>4. inbox' \in [End -> Seq(Message)]
  <2>1. <<>> \in Seq(Message)
    OBVIOUS
  <2> QED BY <1>1, <1>2, <2>1, PeerIsEnd
<1>5. inbox' \in Boxes
  <2>1. \A y \in End : Len(inbox'[y]) <= Capacity
    BY <1>2, <1>3, GwRoutingAssumption
  <2> QED BY <1>4, <2>1 DEF Boxes
<1>6. ASSUME NEW y \in End, NEW k \in DOMAIN inbox'[y]
      PROVE  \E j \in DOMAIN inbox[y] : inbox'[y][k] = inbox[y][j]
  <2>1. inbox'[y] = inbox[y] \/ DOMAIN inbox'[y] = {}
    BY <1>3
  <2> QED BY <2>1
<1> QED BY <1>1, <1>5, <1>6 DEF Lose, Within

LEMMA Steps == TypeOK /\ [Next]_vars => Inject \/ Relay \/ Lose \/ UNCHANGED vars
<1> SUFFICES ASSUME TypeOK, Next PROVE Inject \/ Relay \/ Lose
  OBVIOUS
<1>1. ASSUME NEW g \in Gateway,
             ReadBus(g) \/ UserN2k(g) \/ UserLine(g) \/ SendRMC(g)
      PROVE  Inject
  BY <1>1, ReadBusInjects, UserN2kInjects, UserLineInjects, SendRMCInjects
<1>2. ASSUME NEW g \in Gateway, NEW p \in Port, ReadActisense(g, p) \/ ReadExternal(g, p)
      PROVE  Inject
  BY <1>2, ReadActisenseInjects, ReadExternalInjects
<1>3. ASSUME NEW x \in End, ReadPeer(x) \/ IgnorePeer(x) \/ ConnectionLost(x)
      PROVE  Relay \/ Lose
  BY <1>3, ReadPeerRelays, IgnorePeerLoses, ConnectionLostLoses
<1> QED BY <1>1, <1>2, <1>3 DEF Next

LEMMA LastSourceTyped ==
  TypeOK /\ [Next]_vars => lastSource' \in [Gateway -> Source]
<1> SUFFICES ASSUME TypeOK, Next PROVE lastSource' \in [Gateway -> Source]
  BY DEF TypeOK, vars
<1> USE DEF TypeOK
<1>0. N2K_CHANNEL_ID \in Source /\ MIN_USER_TASK \in Source /\ Port \subseteq Source
  BY DEF Source
<1>1. ASSUME NEW g \in Gateway, ReadBus(g) \/ UserN2k(g) PROVE lastSource' \in [Gateway -> Source]
  BY <1>0, <1>1 DEF ReadBus, UserN2k
<1>2. ASSUME NEW g \in Gateway, UserLine(g) \/ SendRMC(g) PROVE lastSource' \in [Gateway -> Source]
  BY <1>2 DEF UserLine, SendRMC
<1>3. ASSUME NEW g \in Gateway, NEW p \in Port, NEW m, NEW box, HandleLine(g, p, m, box)
      PROVE  lastSource' \in [Gateway -> Source]
  BY <1>0, <1>3 DEF HandleLine
<1>4. ASSUME NEW g \in Gateway, NEW p \in Port, ReadActisense(g, p)
      PROVE  lastSource' \in [Gateway -> Source]
  BY <1>0, <1>4 DEF ReadActisense
<1>5. ASSUME NEW g \in Gateway, NEW p \in Port, ReadExternal(g, p)
      PROVE  lastSource' \in [Gateway -> Source]
  BY <1>3, <1>5 DEF ReadExternal
<1>6. ASSUME NEW x \in End, ReadPeer(x) PROVE lastSource' \in [Gateway -> Source]
  <2>1. x[1] \in Gateway /\ x[2] \in Port
    BY GwRoutingAssumption
  <2> QED BY <1>3, <1>6, <2>1 DEF ReadPeer
<1>7. ASSUME NEW x \in End, IgnorePeer(x) \/ ConnectionLost(x) PROVE lastSource' \in [Gateway -> Source]
  BY <1>7 DEF IgnorePeer, ConnectionLost
<1> QED BY <1>1, <1>2, <1>4, <1>5, <1>6, <1>7 DEF Next

-----------------------------------------------------------------------------
(* What a dispatch does to the state.                                       *)

Arrivals(by, g, src, m, box) ==
  \A x \in End : \A k \in DOMAIN inbox'[x] :
    \/ \E j \in DOMAIN box[x] : inbox'[x][k] = box[x][j]
    \/ /\ Peer[x][1] = g
       /\ inbox'[x][k].data = m.data
       /\ by = "port" => Peer[x][2] # src

LEMMA Dispatched ==
  ASSUME TypeOK, NEW by \in Kind, NEW g \in Gateway, NEW src \in Source, NEW m \in Message,
         NEW box \in Boxes, Sends(by, g, src, m, box)
  PROVE  /\ UNCHANGED <<config, sendOutN2k>>
         /\ inbox' \in Boxes /\ sent' \in Dispatch
         /\ NoEcho' /\ OncePerForm'
         /\ Arrivals(by, g, src, m, box)
<1>1. PICK out \in [Port -> Seq(MessageOf(m.data))], bus \in Nat :
        /\ Send(by, g, src, m, box, out, bus)
        /\ by = "port" => out[src] = <<>>
        /\ by = "bus" => bus = 0
        /\ \A p \in Port : Once(out[p], m)
  BY DEF Sends
<1>2. out \in [Port -> Seq(Message)]
  <2>1. ASSUME NEW p \in Port PROVE out[p] \in Seq(Message)
    <3>1. MessageOf(m.data) \subseteq Message /\ out[p] \in Seq(MessageOf(m.data))
      BY DEF MessageOf
    <3> QED BY <3>1, SubsetSeq
  <2> QED BY <2>1
<1>3. /\ sent' = [by |-> by, at |-> g, source |-> src, message |-> m, out |-> out, bus |-> bus]
      /\ inbox' = Arrive(box, g, out)
      /\ UNCHANGED <<config, sendOutN2k>>
  BY <1>1 DEF Send
<1>4. inbox' \in Boxes /\ Arrived(inbox', box, g, out)
  BY <1>2, <1>3, Arriving
<1>5. sent' \in Dispatch
  BY <1>2, <1>3 DEF Dispatch, Kind
<1>6. NoEcho' /\ OncePerForm'
  BY <1>1, <1>3 DEF NoEcho, OncePerForm, Once, Copies, Count, Places
<1>7. ASSUME NEW x \in End, NEW k \in DOMAIN inbox'[x],
             NEW j \in DOMAIN out[Peer[x][2]], inbox'[x][k] = out[Peer[x][2]][j]
      PROVE  /\ inbox'[x][k].data = m.data
             /\ by = "port" => Peer[x][2] # src
  <2>1. out[Peer[x][2]] \in Seq(MessageOf(m.data))
    BY PeerIsEnd
  <2>2. out[Peer[x][2]][j] \in MessageOf(m.data)
    BY <2>1
  <2>3. out[Peer[x][2]] # <<>>
    BY <2>1
  <2>4. inbox'[x][k].data = m.data
    BY <1>7, <2>2 DEF MessageOf
  <2>5. by = "port" => Peer[x][2] # src
    BY <1>1, <2>3
  <2> QED BY <2>4, <2>5
<1>8. Arrivals(by, g, src, m, box)
  BY <1>4, <1>7 DEF Arrivals, Arrived
<1> QED BY <1>3, <1>4, <1>5, <1>6, <1>8

(* A relayed message was the first one of an inbox.                         *)
LEMMA Relayed ==
  ASSUME TypeOK, NEW x \in End, inbox[x] # <<>>,
         NEW rest, rest = [inbox EXCEPT ![x] = Tail(@)],
         Sends("port", x[1], x[2], Head(inbox[x]), rest)
  PROVE  /\ UNCHANGED <<config, sendOutN2k>>
         /\ inbox' \in Boxes /\ sent' \in Dispatch
         /\ NoEcho' /\ OncePerForm'
         /\ Within(rest, inbox)
         /\ Arrivals("port", x[1], x[2], Head(inbox[x]), rest)
<1>1. inbox \in Boxes /\ Head(inbox[x]) \in Message
  BY DEF TypeOK, Boxes
<1>2. rest \in Boxes /\ Within(rest, inbox)
  BY <1>1, TailOfBox
<1>3. x[1] \in Gateway /\ x[2] \in Source /\ "port" \in Kind
  BY GwRoutingAssumption DEF Source, Kind
<1> QED BY <1>1, <1>2, <1>3, Dispatched

-----------------------------------------------------------------------------
LEMMA InitTyped == Init => TypeOK
<1> SUFFICES ASSUME Init PROVE TypeOK
  OBVIOUS
<1>1. AnyGateway \in Gateway
  BY GwRoutingAssumption DEF AnyGateway
<1>2. AnyMessage \in Message
  <2>1. Message # {}
    BY GwRoutingAssumption DEF Message
  <2> QED BY <2>1 DEF AnyMessage
<1>3. N2K_CHANNEL_ID \in Source
  BY DEF Source
<1>4. <<>> \in Seq(Message) /\ Len(<<>>) = 0 /\ Capacity \in Nat
  BY GwRoutingAssumption
<1>5. sent \in Dispatch
  BY <1>1, <1>2, <1>3, <1>4 DEF Init, Dispatch
<1> QED BY <1>1, <1>3, <1>4, <1>5 DEF Init, TypeOK

LEMMA StepTyped == TypeOK /\ [Next]_vars => TypeOK'
<1> SUFFICES ASSUME TypeOK, [Next]_vars PROVE TypeOK'
  OBVIOUS
<1>1. lastSource' \in [Gateway -> Source]
  BY LastSourceTyped
<1>2. CASE Inject
  <2>1. PICK by \in Kind, g \in Gateway, src \in Source, m \in Message :
          Sends(by, g, src, m, inbox) /\ Fresh(g, m.data)
    BY <1>2 DEF Inject
  <2>2. inbox \in Boxes
    BY DEF TypeOK, Boxes
  <2>3. UNCHANGED <<config, sendOutN2k>> /\ inbox' \in Boxes /\ sent' \in Dispatch
    BY <2>1, <2>2, Dispatched
  <2>4. origin' \in [Data -> Gateway]
    BY <2>1, DataOfMessage DEF Fresh, TypeOK
  <2> QED BY <1>1, <2>3, <2>4 DEF TypeOK, Boxes
<1>3. CASE Relay
  <2>1. PICK x \in End :
          /\ inbox[x] # <<>>
          /\ Sends("port", x[1], x[2], Head(inbox[x]), [inbox EXCEPT ![x] = Tail(@)])
          /\ UNCHANGED origin
    BY <1>3 DEF Relay
  <2>2. UNCHANGED <<config, sendOutN2k>> /\ inbox' \in Boxes /\ sent' \in Dispatch
    BY <2>1, Relayed
  <2> QED BY <1>1, <2>1, <2>2 DEF TypeOK, Boxes
<1>4. CASE Lose
  BY <1>1, <1>4 DEF Lose, TypeOK, Boxes
<1>5. CASE UNCHANGED vars
  BY <1>5 DEF vars, TypeOK
<1> QED BY <1>2, <1>3, <1>4, <1>5, Steps

(* The messages in the inboxes and the history are of the kinds the         *)
(* channels exchange, and no connection holds more than fits (all actions   *)
(* of GwRouting).                                                           *)
THEOREM TypeCorrect == Spec => []TypeOK
<1> QED BY InitTyped, StepTyped, PTL DEF Spec

(* Whatever the configuration, nothing goes back to the channel it came     *)
(* from, and no message of the bus goes back to the bus                     *)
(* (sendToClients, sendActisense, handleN2kMessage).                        *)
THEOREM NoEchoes == Spec => []NoEcho
<1>1. Init => NoEcho
  BY DEF Init, NoEcho
<1>2. TypeOK /\ NoEcho /\ [Next]_vars => NoEcho'
  <2> SUFFICES ASSUME TypeOK, NoEcho, [Next]_vars PROVE NoEcho'
    OBVIOUS
  <2>1. CASE Inject
    <3>1. inbox \in Boxes
      BY DEF TypeOK, Boxes
    <3> QED BY <2>1, <3>1, Dispatched DEF Inject
  <2>2. CASE Relay
    BY <2>2, Relayed DEF Relay
  <2>3. CASE Lose \/ UNCHANGED vars
    BY <2>3 DEF Lose, vars, NoEcho
  <2> QED BY <2>1, <2>2, <2>3, Steps
<1> QED BY <1>1, <1>2, TypeCorrect, PTL DEF Spec

(* Whatever is forwarded, converted and encoded, a message leaves a port at *)
(* most once in each form (loopRun, handleN2kMessage and its isConverted,   *)
(* SendNMEA0183Message); only Seasmart that is decoded leaves twice.        *)
THEOREM EachFormOnce == Spec => []OncePerForm
<1>1. Init => OncePerForm
  <2> SUFFICES ASSUME Init, NEW p \in Port, NEW form \in {"line", "seasmart", "n2k"}
               PROVE  Copies(p, form) = 0
    BY DEF OncePerForm
  <2>1. sent.out[p] = <<>>
    BY DEF Init
  <2> QED BY <2>1, CountEmpty DEF Copies, Count, Places
<1>2. TypeOK /\ OncePerForm /\ [Next]_vars => OncePerForm'
  <2> SUFFICES ASSUME TypeOK, OncePerForm, [Next]_vars PROVE OncePerForm'
    OBVIOUS
  <2>1. CASE Inject
    <3>1. inbox \in Boxes
      BY DEF TypeOK, Boxes
    <3> QED BY <2>1, <3>1, Dispatched DEF Inject
  <2>2. CASE Relay
    BY <2>2, Relayed DEF Relay
  <2>3. CASE Lose \/ UNCHANGED vars
    BY <2>3 DEF Lose, vars, OncePerForm, Copies
  <2> QED BY <2>1, <2>2, <2>3, Steps
<1> QED BY <1>1, <1>2, TypeCorrect, PTL DEF Spec

-----------------------------------------------------------------------------
(* What is on the way to x came in behind x.                                *)
FromBehind(B) == \A x \in End : \A k \in DOMAIN inbox[x] : origin[inbox[x][k].data] \in B[x]

LEMMA StepFromBehind ==
  ASSUME NEW B \in Behinds, TypeOK, FromBehind(B), [Next]_vars
  PROVE  FromBehind(B)'
<1>1. CASE Inject
  <2>1. PICK by \in Kind, g \in Gateway, src \in Source, m \in Message :
          Sends(by, g, src, m, inbox) /\ Fresh(g, m.data)
    BY <1>1 DEF Inject
  <2>2. inbox \in Boxes
    BY DEF TypeOK, Boxes
  <2>3. Arrivals(by, g, src, m, inbox)
    BY <2>1, <2>2, Dispatched
  <2>4. /\ m.data \in Data /\ origin \in [Data -> Gateway]
        /\ origin' = [origin EXCEPT ![m.data] = g]
    BY <2>1, DataOfMessage DEF Fresh, TypeOK
  <2>5. ASSUME NEW x \in End, NEW k \in DOMAIN inbox'[x]
        PROVE  origin'[inbox'[x][k].data] \in B[x]
    <3>1. CASE \E j \in DOMAIN inbox[x] : inbox'[x][k] = inbox[x][j]
      <4>1. PICK j \in DOMAIN inbox[x] : inbox'[x][k] = inbox[x][j]
        BY <3>1
      <4>2. inbox[x][j].data # m.data
        BY <2>1 DEF Fresh, Unused, InFlight
      <4>3. inbox[x][j] \in Message
        BY DEF TypeOK
      <4>4. inbox[x][j].data \in Data
        BY <4>3, DataOfMessage
      <4> QED BY <2>4, <4>1, <4>2, <4>4 DEF FromBehind
    <3>2. CASE Peer[x][1] = g /\ inbox'[x][k].data = m.data
      BY <2>4, <3>2 DEF Behinds
    <3> QED BY <2>3, <3>1, <3>2 DEF Arrivals
  <2> QED BY <2>5 DEF FromBehind
<1>2. CASE Relay
  <2>1. PICK x \in End :
          /\ inbox[x] # <<>>
          /\ Sends("port", x[1], x[2], Head(inbox[x]), [inbox EXCEPT ![x] = Tail(@)])
          /\ UNCHANGED origin
    BY <1>2 DEF Relay
  <2> DEFINE rest == [inbox EXCEPT ![x] = Tail(@)]
             m == Head(inbox[x])
  <2>2. Within(rest, inbox) /\ Arrivals("port", x[1], x[2], m, rest)
    BY <2>1, Relayed
  <2>3. origin[m.data] \in B[x]
    <3>1. 1 \in DOMAIN inbox[x] /\ m = inbox[x][1]
      BY <2>1 DEF TypeOK
    <3> QED BY <3>1 DEF FromBehind
  <2> HIDE DEF rest, m
  <2>4. ASSUME NEW y \in End, NEW k \in DOMAIN inbox'[y]
        PROVE  origin[inbox'[y][k].data] \in B[y]
    <3>1. CASE \E j \in DOMAIN rest[y] : inbox'[y][k] = rest[y][j]
      BY <2>2, <3>1 DEF Within, FromBehind
    <3>2. CASE Peer[y][1] = x[1] /\ inbox'[y][k].data = m.data /\ Peer[y][2] # x[2]
      <4>1. Peer[y] # x
        BY <3>2
      <4>2. B[x] \subseteq B[y]
        BY <3>2, <4>1 DEF Behinds
      <4> QED BY <2>3, <3>2, <4>2
    <3> QED BY <2>2, <3>1, <3>2 DEF Arrivals
  <2> QED BY <2>1, <2>4 DEF FromBehind
<1>3. CASE Lose
  BY <1>3 DEF Lose, Within, FromBehind
<1>4. CASE UNCHANGED vars
  BY <1>4 DEF vars, FromBehind
<1> QED BY <1>1, <1>2, <1>3, <1>4, Steps

(* Gateways that are connected as a tree make no loop: what came in at one  *)
(* of them is never on the way back to it, although every connection        *)
(* carries data in both directions and every gateway converts in both       *)
(* (loopRun, Skip of the TCP channels).                                     *)
THEOREM NoLoop == ASSUME NEW B \in Behinds PROVE Spec => []NeverReturns
<1>1. Init => FromBehind(B)
  BY DEF Init, FromBehind
<1>2. TypeOK /\ FromBehind(B) /\ [Next]_vars => FromBehind(B)'
  BY StepFromBehind
<1>3. FromBehind(B) => NeverReturns
  BY DEF FromBehind, NeverReturns, Behinds
<1> QED BY <1>1, <1>2, <1>3, TypeCorrect, PTL DEF Spec
=============================================================================
