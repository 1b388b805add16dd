-------------------------- MODULE GwBuffer_proofs --------------------------
(***************************************************************************)
(* For every ring size, alphabet and message size: the pointers stay in    *)
(* the block, free and used cells add up, the ring implements the bounded  *)
(* byte queue of ByteFifo, and writes are queued as a whole.               *)
(***************************************************************************)
EXTENDS GwBuffer, SequenceTheorems, TLAPS

Cells == [Cell -> Byte]

(* The content b[r..w] is still there, unmoved, in c.                       *)
Keeps(b, c, r, w) ==
  \A i \in 1..usedSpace(r, w) : c[Wrap(r + i - 1)] = b[Wrap(r + i - 1)]

(* q is p with n more bytes behind it, within the capacity of the ring.     *)
Grown(p, q, n) ==
  /\ n \in 1..(bufferSize - 1 - Len(p))
  /\ Len(q) = Len(p) + n
  /\ \A i \in 1..n : q[Len(p) + i] \in Byte
  /\ SubSeq(q, 1, Len(p)) = p

(* Reader s sees what reader r sees n bytes later.                          *)
Ahead(r, s, w, n) ==
  \A i \in 1..(usedSpace(r, w) - n) :
    Wrap(s + i - 1) = Wrap(r + (n + i) - 1)

(* Behind the content of b, c holds the first n bytes of data.              *)
Holds(c, r, w, data, n) ==
  \A i \in 1..n : c[Wrap(r + (usedSpace(r, w) + i) - 1)] = data[i]

-----------------------------------------------------------------------------
(* Pointer arithmetic.                                                      *)

(* Wrap brings every offset less than two rings away back into the block.   *)
LEMMA WrapInCell ==
  \A p \in 0..(2 * bufferSize - 1) : Wrap(p) \in Cell
BY GwBufferAssumption DEF Wrap, Cell

(* freeSpace and usedSpace share all cells but one.                         *)
LEMMA SpacesAddUp ==
  \A r, w \in Cell :
    /\ usedSpace(r, w) \in 0..(bufferSize - 1)
    /\ freeSpace(r, w) \in 0..(bufferSize - 1)
    /\ usedSpace(r, w) + freeSpace(r, w) = bufferSize - 1
BY GwBufferAssumption DEF usedSpace, freeSpace, Cell

(* Writing a run of n free cells up to the end of the block adds n bytes    *)
(* behind the content and leaves the content itself alone.                  *)
LEMMA AppendRun ==
  ASSUME NEW b \in Cells, NEW r \in Cell, NEW w \in Cell, NEW n \in Nat,
         n <= freeSpace(r, w), n <= bufferSize - w,
         NEW data, \A i \in 1..n : data[i] \in Byte
  PROVE  /\ Store(b, w, data, n) \in Cells
         /\ Wrap(w + n) \in Cell
         /\ usedSpace(r, Wrap(w + n)) = usedSpace(r, w) + n
         /\ freeSpace(r, Wrap(w + n)) = freeSpace(r, w) - n
         /\ Keeps(b, Store(b, w, data, n), r, w)
         /\ Holds(Store(b, w, data, n), r, w, data, n)
<1>1. Store(b, w, data, n) \in Cells
  BY GwBufferAssumption DEF Store, Cells, Cell
<1>2. Wrap(w + n) \in Cell
  BY GwBufferAssumption DEF Wrap, Cell
<1>3. /\ usedSpace(r, Wrap(w + n)) = usedSpace(r, w) + n
      /\ freeSpace(r, Wrap(w + n)) = freeSpace(r, w) - n
  BY GwBufferAssumption DEF Wrap, Cell, usedSpace, freeSpace
<1>4. ASSUME NEW i \in 1..usedSpace(r, w)
      PROVE  /\ Wrap(r + i - 1) \in Cell
             /\ Wrap(r + i - 1) \notin w..(w + n - 1)
  BY GwBufferAssumption DEF Wrap, Cell, usedSpace, freeSpace
<1>5. ASSUME NEW i \in 1..usedSpace(r, w)
      PROVE  Store(b, w, data, n)[Wrap(r + i - 1)] = b[Wrap(r + i - 1)]
  BY <1>4 DEF Store
<1>6. ASSUME NEW i \in 1..n
      PROVE  Store(b, w, data, n)[Wrap(r + (usedSpace(r, w) + i) - 1)] = data[i]
  <2>1. Wrap(r + (usedSpace(r, w) + i) - 1) = w + i - 1
    BY GwBufferAssumption DEF Wrap, Cell, usedSpace, freeSpace
  <2>2. w + i - 1 \in Cell /\ w + i - 1 \in w..(w + n - 1) /\ (w + i - 1) - w + 1 = i
    BY GwBufferAssumption DEF Cell
  <2> QED BY <2>1, <2>2 DEF Store
<1>7. QED BY <1>1, <1>2, <1>3, <1>5, <1>6 DEF Keeps, Holds

(* Advancing the reader over n used cells drops n bytes from the front.     *)
LEMMA DropRun ==
  ASSUME NEW r \in Cell, NEW w \in Cell, NEW n \in Nat,
         n <= usedSpace(r, w), n <= bufferSize - r
  PROVE  /\ Wrap(r + n) \in Cell
         /\ usedSpace(Wrap(r + n), w) = usedSpace(r, w) - n
         /\ Ahead(r, Wrap(r + n), w, n)
BY GwBufferAssumption DEF Wrap, Cell, usedSpace, Ahead

-----------------------------------------------------------------------------
(* The content as a sequence.                                               *)

LEMMA ContentIsSeq ==
  ASSUME NEW b \in Cells, NEW r \in Cell, NEW w \in Cell
  PROVE  /\ Content(b, r, w) \in Seq(Byte)
         /\ Len(Content(b, r, w)) = usedSpace(r, w)
         /\ \A i \in 1..usedSpace(r, w) :
              Content(b, r, w)[i] = b[Wrap(r + i - 1)]
<1>1. usedSpace(r, w) \in 0..(bufferSize - 1)
  BY SpacesAddUp
<1>2. ASSUME NEW i \in 1..usedSpace(r, w)
      PROVE  Wrap(r + i - 1) \in Cell
  <2>1. r + i - 1 \in 0..(2 * bufferSize - 1)
    BY <1>1, GwBufferAssumption DEF Cell
  <2>2. QED BY <2>1, WrapInCell
<1>3. \A i \in 1..usedSpace(r, w) : b[Wrap(r + i - 1)] \in Byte
  BY <1>2 DEF Cells
<1>4. Content(b, r, w) \in [1..usedSpace(r, w) -> Byte]
  BY <1>3 DEF Content
<1>5. QED BY <1>1, <1>4 DEF Content

(* What AppendRun says, for the sequence.                                   *)
LEMMA ContentGrows ==
  ASSUME NEW b \in Cells, NEW c \in Cells,
         NEW r \in Cell, NEW w \in Cell, NEW v \in Cell, NEW n \in Nat \ {0},
         usedSpace(r, v) = usedSpace(r, w) + n,
         Keeps(b, c, r, w)
  PROVE  Grown(Content(b, r, w), Content(c, r, v), n)
<1> DEFINE p == Content(b, r, w)
           q == Content(c, r, v)
<1>1. /\ p \in Seq(Byte) /\ Len(p) = usedSpace(r, w)
      /\ q \in Seq(Byte) /\ Len(q) = usedSpace(r, v)
      /\ \A i \in 1..usedSpace(r, w) : p[i] = b[Wrap(r + i - 1)]
      /\ \A i \in 1..usedSpace(r, v) : q[i] = c[Wrap(r + i - 1)]
  BY ContentIsSeq
<1>2. /\ usedSpace(r, w) \in Nat
      /\ usedSpace(r, v) \in 0..(bufferSize - 1)
  BY SpacesAddUp, GwBufferAssumption
<1> HIDE DEF p, q
<1>3. n \in 1..(bufferSize - 1 - Len(p)) /\ Len(q) = Len(p) + n
  BY <1>1, <1>2, GwBufferAssumption
<1>4. \A i \in 1..Len(q) : q[i] \in Byte
  BY <1>1, ElementOfSeq
<1>5. \A i \in 1..n : q[Len(p) + i] \in Byte
  BY <1>1, <1>2, <1>3, <1>4
<1>6. \A i \in 1..Len(p) : q[i] = p[i]
  BY <1>1, <1>2 DEF Keeps
<1>7. SubSeq(q, 1, Len(p)) = p
  <2>1. \A i \in 1..Len(p) : q[i] \in Byte
    BY <1>1, <1>2, <1>3, <1>4
  <2>2. Len(p) \in Nat
    BY <1>1, <1>2
  <2> DEFINE s == SubSeq(q, 1, Len(p))
  <2>3. /\ s \in Seq(Byte)
        /\ Len(s) = Len(p)
        /\ \A i \in 1..Len(p) : s[i] = q[i]
    BY <2>1, <2>2, SubSeqProperties
  <2> HIDE DEF s
  <2>4. s = p
    BY <2>3, <1>1, <1>6, SeqEqual
  <2>5. QED BY <2>4 DEF s
<1>8. QED BY <1>3, <1>5, <1>7 DEF Grown, p, q

(* What AppendRun says of the bytes, for the sequence.                      *)
LEMMA ContentAppends ==
  ASSUME NEW b \in Cells, NEW c \in Cells,
         NEW r \in Cell, NEW w \in Cell, NEW v \in Cell, NEW d \in Seq(Byte),
         usedSpace(r, v) = usedSpace(r, w) + Len(d),
         Keeps(b, c, r, w), Holds(c, r, w, d, Len(d))
  PROVE  Content(c, r, v) = Content(b, r, w) \o d
<1> DEFINE p == Content(b, r, w)
           q == Content(c, r, v)
           t == p \o d
<1>1. /\ p \in Seq(Byte) /\ Len(p) = usedSpace(r, w)
      /\ q \in Seq(Byte) /\ Len(q) = usedSpace(r, v)
      /\ \A i \in 1..usedSpace(r, w) : p[i] = b[Wrap(r + i - 1)]
      /\ \A i \in 1..usedSpace(r, v) : q[i] = c[Wrap(r + i - 1)]
  BY ContentIsSeq
<1>2. usedSpace(r, w) \in Nat /\ usedSpace(r, v) \in Nat /\ Len(d) \in Nat
  BY SpacesAddUp
<1> HIDE DEF p, q
<1>3. /\ t \in Seq(Byte)
      /\ Len(t) = Len(p) + Len(d)
      /\ \A i \in 1..(Len(p) + Len(d)) : t[i] = IF i <= Len(p) THEN p[i] ELSE d[i - Len(p)]
  BY <1>1, ConcatProperties
<1> HIDE DEF t
<1>4. ASSUME NEW i \in 1..Len(q)
      PROVE  q[i] = t[i]
  <2>1. q[i] = c[Wrap(r + i - 1)] /\ i \in 1..(Len(p) + Len(d))
    BY <1>1, <1>2
  <2>2. CASE i <= Len(p)
    <3>a. i \in 1..usedSpace(r, w)
      BY <1>1, <1>2, <2>1, <2>2
    <3>1. q[i] = p[i]
      BY <1>1, <2>1, <3>a DEF Keeps
    <3> QED BY <1>3, <2>1, <2>2, <3>1
  <2>3. CASE i > Len(p)
    <3>1. i - Len(p) \in 1..Len(d) /\ usedSpace(r, w) + (i - Len(p)) = i
      BY <1>1, <1>2, <2>1, <2>3
    <3>2. c[Wrap(r + (usedSpace(r, w) + (i - Len(p))) - 1)] = d[i - Len(p)]
      BY <3>1 DEF Holds
    <3> QED BY <1>1, <1>2, <1>3, <2>1, <2>3, <3>1, <3>2
  <2> QED BY <1>1, <1>2, <2>2, <2>3
<1>5. q = t
  BY <1>1, <1>2, <1>3, <1>4, SeqEqual
<1>6. QED BY <1>5 DEF p, q, t

(* What DropRun says, for the sequence.                                     *)
LEMMA ContentShrinks ==
  ASSUME NEW b \in Cells, NEW r \in Cell, NEW w \in Cell, NEW s \in Cell,
         NEW n \in Nat, n <= usedSpace(r, w),
         usedSpace(s, w) = usedSpace(r, w) - n,
         Ahead(r, s, w, n)
  PROVE  Content(b, s, w)
           = SubSeq(Content(b, r, w), n + 1, Len(Content(b, r, w)))
<1> DEFINE p == Content(b, r, w)
           q == Content(b, s, w)
           t == SubSeq(p, n + 1, Len(p))
<1>1. /\ p \in Seq(Byte) /\ Len(p) = usedSpace(r, w)
      /\ q \in Seq(Byte) /\ Len(q) = usedSpace(s, w)
      /\ \A i \in 1..usedSpace(r, w) : p[i] = b[Wrap(r + i - 1)]
      /\ \A i \in 1..usedSpace(s, w) : q[i] = b[Wrap(s + i - 1)]
  BY ContentIsSeq
<1>2. usedSpace(r, w) \in Nat /\ usedSpace(s, w) \in Nat
  BY SpacesAddUp
<1> HIDE DEF p, q
<1>3. \A i \in (n + 1)..Len(p) : p[i] \in Byte
  BY <1>1, <1>2, ElementOfSeq
<1>4. /\ t \in Seq(Byte)
      /\ Len(t) = Len(p) - n
      /\ \A i \in 1..(Len(p) - n) : t[i] = p[n + i]
  BY <1>1, <1>2, <1>3, SubSeqProperties
<1>5. \A i \in 1..(usedSpace(r, w) - n) :
         q[i] = b[Wrap(s + i - 1)] /\ p[n + i] = b[Wrap(r + (n + i) - 1)]
  BY <1>1, <1>2
<1> HIDE DEF t
<1>6. Len(q) = Len(t) /\ \A i \in 1..Len(q) : q[i] = t[i]
  BY <1>1, <1>2, <1>4, <1>5 DEF Ahead
<1>7. q = t
  BY <1>1, <1>4, <1>6, SeqEqual
<1>8. QED BY <1>7 DEF p, q, t

-----------------------------------------------------------------------------
(* Facts about single actions.                                              *)

LEMMA ChunkBytes ==
  ASSUME NEW data \in Chunk
  PROVE  /\ Len(data) \in Nat
         /\ \A i \in 1..Len(data) : data[i] \in Byte
<1>1. data \in Seq(Byte)
  BY GwBufferAssumption
<1>2. QED BY <1>1, LenProperties, ElementOfSeq

(* Both passes of addData together are one append run.                      *)
LEMMA addDataRun ==
  ASSUME BufferTypeOK, NEW data \in Chunk, NEW addPartial, addData(data, addPartial)
  PROVE  /\ buffer' \in Cells
         /\ writePointer' \in Cell
         /\ \E n \in Nat :
              /\ usedSpace(readPointer, writePointer')
                   = usedSpace(readPointer, writePointer) + n
              /\ Holds(buffer', readPointer, writePointer, data, n)
              /\ freeSpace(readPointer, writePointer) >= Len(data) => n = Len(data)
         /\ Keeps(buffer, buffer', readPointer, writePointer)
<1> DEFINE r  == readPointer
           w  == writePointer
           n1 == PassLength(r, w, Len(data))
           w1 == Wrap(w + n1)
           n2 == PassLength(r, w1, Len(data) - n1)
           b1 == Store(buffer, w, data, n1)
           d2 == SubSeq(data, n1 + 1, Len(data))
<1>1. /\ buffer' = Store(b1, w1, d2, n2)
      /\ writePointer' = Wrap(w1 + n2)
  BY DEF addData
<1>2. buffer \in Cells /\ r \in Cell /\ w \in Cell
  BY DEF BufferTypeOK, Cells
<1>3. /\ Len(data) \in Nat
      /\ \A i \in 1..Len(data) : data[i] \in Byte
  BY ChunkBytes
<1>4. n1 \in Nat /\ n1 <= Len(data) /\ n1 <= freeSpace(r, w)
      /\ n1 <= bufferSize - w
  <2>1. freeSpace(r, w) \in 0..(bufferSize - 1)
    BY <1>2, SpacesAddUp
  <2>2. QED BY <1>2, <1>3, <2>1, GwBufferAssumption DEF PassLength, Least, Cell
<1>a. freeSpace(r, w) >= Len(data) => n1 = Len(data) \/ (n1 = bufferSize - w /\ w1 = 0)
  <2>1. freeSpace(r, w) \in 0..(bufferSize - 1)
    BY <1>2, SpacesAddUp
  <2>2. freeSpace(r, w) >= Len(data) => n1 = Len(data) \/ n1 = bufferSize - w
    BY <1>2, <1>3, <2>1, GwBufferAssumption DEF PassLength, Least, Cell
  <2> QED BY <1>2, <2>2, GwBufferAssumption DEF Wrap, Cell
<1> HIDE DEF n1
<1>5. /\ b1 \in Cells
      /\ w1 \in Cell
      /\ usedSpace(r, w1) = usedSpace(r, w) + n1
      /\ freeSpace(r, w1) = freeSpace(r, w) - n1
      /\ Keeps(buffer, b1, r, w)
      /\ Holds(b1, r, w, data, n1)
  <2>1. \A i \in 1..n1 : data[i] \in Byte
    BY <1>3, <1>4
  <2>2. QED BY <1>2, <1>4, <2>1, AppendRun
<1> HIDE DEF w1, b1
<1>6. n2 \in Nat /\ n2 <= Len(data) - n1 /\ n2 <= freeSpace(r, w1)
      /\ n2 <= bufferSize - w1
  <2>1. freeSpace(r, w1) \in 0..(bufferSize - 1)
    BY <1>2, <1>5, SpacesAddUp
  <2>2. QED BY <1>3, <1>4, <1>5, <2>1, GwBufferAssumption
            DEF PassLength, Least, Cell
<1>b. freeSpace(r, w) >= Len(data) => n1 + n2 = Len(data)
  <2>1. /\ freeSpace(r, w) \in 0..(bufferSize - 1)
        /\ freeSpace(r, w1) = freeSpace(r, w) - n1 /\ freeSpace(r, w1) >= 0
    BY <1>2, <1>5, SpacesAddUp
  <2>2. CASE n1 = Len(data)
    BY <1>3, <1>4, <1>6, <2>2
  <2>3. CASE w1 = 0
    BY <1>3, <1>4, <2>1, <2>3, GwBufferAssumption DEF PassLength, Least
  <2> QED BY <1>a, <2>2, <2>3
<1> HIDE DEF n2
<1>7. \A i \in 1..n2 : d2[i] \in Byte /\ d2[i] = data[n1 + i]
  <2>1. \A i \in (n1 + 1)..Len(data) : data[i] \in Byte
    BY <1>3, <1>4
  <2>2. \A i \in 1..(Len(data) - (n1 + 1) + 1) : d2[i] = data[(n1 + 1) + i - 1]
    BY <1>3, <1>4, <2>1, SubSeqProperties
  <2>3. QED BY <1>3, <1>4, <1>6, <2>1, <2>2
<1> HIDE DEF d2
<1>8. /\ buffer' \in Cells
      /\ writePointer' \in Cell
      /\ usedSpace(r, writePointer') = usedSpace(r, w1) + n2
      /\ Keeps(b1, buffer', r, w1)
      /\ Holds(buffer', r, w1, d2, n2)
  BY <1>1, <1>2, <1>5, <1>6, <1>7, AppendRun
<1>9. usedSpace(r, w) \in Nat /\ usedSpace(r, w1) \in Nat
  BY <1>2, <1>5, SpacesAddUp
<1>10. usedSpace(r, writePointer') = usedSpace(r, w) + (n1 + n2)
       /\ n1 + n2 \in Nat
  BY <1>4, <1>5, <1>6, <1>8, <1>9
<1>11. Keeps(buffer, buffer', r, w)
  BY <1>4, <1>5, <1>8, <1>9 DEF Keeps
<1>12. Holds(buffer', r, w, data, n1 + n2)
  <2> SUFFICES ASSUME NEW i \in 1..(n1 + n2)
               PROVE  buffer'[Wrap(r + (usedSpace(r, w) + i) - 1)] = data[i]
    BY DEF Holds
  <2>1. CASE i <= n1
    <3>1. usedSpace(r, w) + i \in 1..usedSpace(r, w1) /\ i \in 1..n1
      BY <1>4, <1>5, <1>6, <1>9, <2>1
    <3> QED BY <1>5, <1>8, <3>1 DEF Keeps, Holds
  <2>2. CASE i > n1
    <3>1. i - n1 \in 1..n2 /\ n1 + (i - n1) = i
      BY <1>4, <1>6, <2>2
    <3>2. usedSpace(r, w1) + (i - n1) = usedSpace(r, w) + i
      BY <1>4, <1>5, <1>6, <1>9
    <3>3. buffer'[Wrap(r + (usedSpace(r, w1) + (i - n1)) - 1)] = d2[i - n1]
      BY <1>8, <3>1 DEF Holds
    <3> QED BY <1>7, <3>1, <3>2, <3>3
  <2> QED BY <1>4, <1>6, <2>1, <2>2
<1>13. QED BY <1>8, <1>10, <1>11, <1>12, <1>b

LEMMA fillDataRun ==
  ASSUME BufferTypeOK, NEW data \in Chunk, NEW handled \in Cell,
         fillData(data, handled)
  PROVE  /\ buffer' \in Cells
         /\ writePointer' \in Cell
         /\ handled \in Nat \ {0}
         /\ usedSpace(readPointer, writePointer')
              = usedSpace(readPointer, writePointer) + handled
         /\ Keeps(buffer, buffer', readPointer, writePointer)
         /\ Holds(buffer', readPointer, writePointer, data, handled)
<1>1. buffer \in Cells /\ readPointer \in Cell /\ writePointer \in Cell
  BY DEF BufferTypeOK, Cells
<1>2. \A i \in 1..handled : data[i] \in Byte
  BY ChunkBytes DEF fillData, Cell
<1>3. /\ handled \in Nat \ {0}
      /\ handled <= freeSpace(readPointer, writePointer)
      /\ handled <= bufferSize - writePointer
  BY <1>1, GwBufferAssumption DEF fillData, FillLength, freeSpace, Cell
<1>4. /\ buffer' = Store(buffer, writePointer, data, handled)
      /\ writePointer' = Wrap(writePointer + handled)
  BY DEF fillData
<1>5. QED BY <1>1, <1>2, <1>3, <1>4, AppendRun

LEMMA fetchDataRun ==
  ASSUME BufferTypeOK, NEW maxLen \in Cell, NEW handled \in Cell,
         fetchData(maxLen, handled)
  PROVE  /\ readPointer' = Wrap(readPointer + handled)
         /\ handled \in Nat \ {0}
         /\ handled <= usedSpace(readPointer, writePointer)
         /\ handled <= bufferSize - readPointer
         /\ UNCHANGED <<buffer, writePointer, message>>
BY GwBufferAssumption
   DEF fetchData, FetchLength, Least, usedSpace, Cell, BufferTypeOK

(* The fetch loop takes exactly the bytes up to the delimiter, whether or   *)
(* not the message wraps.                                                   *)
LEMMA FetchLoop ==
  ASSUME NEW r \in Cell, NEW w \in Cell, NEW len \in Nat \ {0},
         len <= usedSpace(r, w)
  PROVE  LET n1 == Least(FetchLength(r, w), len)
             r1 == Wrap(r + n1)
             n2 == Least(FetchLength(r1, w), len - n1)
         IN  /\ Wrap(r1 + n2) \in Cell
             /\ usedSpace(Wrap(r1 + n2), w) = usedSpace(r, w) - len
             /\ Ahead(r, Wrap(r1 + n2), w, len)
             /\ \A i \in 1..len :
                  (IF i <= n1 THEN r + i - 1 ELSE r1 + i - n1 - 1)
                    = Wrap(r + i - 1)
<1> DEFINE n1 == Least(FetchLength(r, w), len)
           r1 == Wrap(r + n1)
           n2 == Least(FetchLength(r1, w), len - n1)
<1>1. r \in Nat /\ w \in Nat /\ r < bufferSize /\ w < bufferSize
  BY GwBufferAssumption DEF Cell
<1>2. CASE len <= FetchLength(r, w)
  <2>1. n1 = len
    BY <1>1, <1>2, GwBufferAssumption DEF Least, FetchLength
  <2>2. r1 = Wrap(r + len) /\ n2 = 0
    BY <1>1, <2>1, GwBufferAssumption DEF Least, FetchLength, Wrap
  <2> HIDE DEF n1, r1, n2
  <2>3. Wrap(r1 + n2) = Wrap(r + len)
    <3>1. len <= bufferSize - r
      BY <1>1, <1>2, GwBufferAssumption DEF FetchLength
    <3>2. r1 \in Nat /\ r1 < bufferSize
      BY <1>1, <2>2, <3>1, GwBufferAssumption DEF Wrap
    <3>3. Wrap(r1 + n2) = r1
      BY <2>2, <3>2, GwBufferAssumption DEF Wrap
    <3>4. QED BY <2>2, <3>3
  <2>4. /\ Wrap(r + len) \in Cell
        /\ usedSpace(Wrap(r + len), w) = usedSpace(r, w) - len
        /\ Ahead(r, Wrap(r + len), w, len)
    <3>1. len <= bufferSize - r
      BY <1>1, <1>2, GwBufferAssumption DEF FetchLength
    <3>2. QED BY <3>1, DropRun
  <2>5. \A i \in 1..len :
          (IF i <= n1 THEN r + i - 1 ELSE r1 + i - n1 - 1) = Wrap(r + i - 1)
    BY <1>1, <1>2, <2>1, GwBufferAssumption DEF FetchLength, Wrap
  <2>6. QED BY <2>3, <2>4, <2>5 DEF n1, r1, n2
<1>3. CASE len > FetchLength(r, w)
  <2>1. w < r /\ FetchLength(r, w) = bufferSize - r
    BY <1>1, <1>3, GwBufferAssumption DEF FetchLength, usedSpace
  <2>2. n1 = bufferSize - r /\ r1 = 0
    BY <1>1, <1>3, <2>1, GwBufferAssumption DEF Least, Wrap
  <2> HIDE DEF n1, r1
  <2>3. n2 = len - (bufferSize - r) /\ n2 <= w
    BY <1>1, <1>3, <2>1, <2>2, GwBufferAssumption
       DEF Least, FetchLength, usedSpace
  <2> HIDE DEF n2
  <2>4. Wrap(r1 + n2) = n2 /\ n2 \in Cell
    BY <1>1, <1>3, <2>1, <2>2, <2>3, GwBufferAssumption DEF Wrap, Cell
  <2>5. usedSpace(n2, w) = usedSpace(r, w) - len
    BY <1>1, <1>3, <2>1, <2>3, GwBufferAssumption DEF usedSpace
  <2>6. Ahead(r, n2, w, len)
    BY <1>1, <1>3, <2>1, <2>3, GwBufferAssumption DEF usedSpace, Wrap, Ahead
  <2>7. \A i \in 1..len :
          (IF i <= n1 THEN r + i - 1 ELSE r1 + i - n1 - 1) = Wrap(r + i - 1)
    BY <1>1, <1>3, <2>1, <2>2, GwBufferAssumption DEF usedSpace, Wrap
  <2>8. QED BY <2>4, <2>5, <2>6, <2>7 DEF n1, r1, n2
<1>4. QED
  <2>1. FetchLength(r, w) \in Int
    BY <1>1, GwBufferAssumption DEF FetchLength
  <2>2. QED BY <1>2, <1>3, <2>1

LEMMA FetchMessageRun ==
  ASSUME BufferTypeOK, FetchMessage
  PROVE  /\ readPointer' \in Cell
         /\ message' \in Seq(Byte)
         /\ UNCHANGED <<buffer, writePointer>>
         /\ Fifo!TakeMessage
<1> DEFINE r == readPointer
           w == writePointer
           q == Content(buffer, r, w)
<1>0. buffer \in Cells /\ r \in Cell /\ w \in Cell
  BY DEF BufferTypeOK, Cells
<1>1. usedSpace(r, w) \in 0..(bufferSize - 1)
  BY <1>0, SpacesAddUp
<1>2. PICK of \in findChar :
        LET len == of + 1
            n1  == Least(FetchLength(r, w), len)
            r1  == Wrap(r + n1)
            n2  == Least(FetchLength(r1, w), len - n1)
        IN  /\ message' = [i \in 1..len |-> IF i <= n1 THEN buffer[r + i - 1]
                                              ELSE buffer[r1 + i - n1 - 1]]
            /\ readPointer' = Wrap(r1 + n2)
            /\ UNCHANGED <<buffer, writePointer>>
  BY DEF FetchMessage
<1> DEFINE len == of + 1
           n1  == Least(FetchLength(r, w), len)
           r1  == Wrap(r + n1)
           n2  == Least(FetchLength(r1, w), len - n1)
<1>3. of \in Cell /\ Found(of)
  BY <1>2 DEF findChar
<1>4. len \in Nat \ {0} /\ len <= usedSpace(r, w)
  BY <1>1, <1>3, GwBufferAssumption DEF Found, Cell
<1>5. /\ Wrap(r1 + n2) \in Cell
      /\ usedSpace(Wrap(r1 + n2), w) = usedSpace(r, w) - len
      /\ Ahead(r, Wrap(r1 + n2), w, len)
      /\ \A i \in 1..len :
           (IF i <= n1 THEN r + i - 1 ELSE r1 + i - n1 - 1) = Wrap(r + i - 1)
  BY <1>0, <1>4, FetchLoop
<1>6. /\ readPointer' = Wrap(r1 + n2)
      /\ message' = [i \in 1..len |-> IF i <= n1 THEN buffer[r + i - 1]
                                        ELSE buffer[r1 + i - n1 - 1]]
      /\ buffer' = buffer /\ writePointer' = writePointer
  BY <1>2
<1> HIDE DEF n1, r1, n2
<1>7. message' = [i \in 1..len |-> buffer[Wrap(r + i - 1)]]
  <2>1. \A i \in 1..len :
          (IF i <= n1 THEN buffer[r + i - 1] ELSE buffer[r1 + i - n1 - 1])
            = buffer[Wrap(r + i - 1)]
    BY <1>5
  <2>2. QED BY <1>6, <2>1
<1>8. /\ q \in Seq(Byte) /\ Len(q) = usedSpace(r, w)
      /\ \A i \in 1..usedSpace(r, w) : q[i] = buffer[Wrap(r + i - 1)]
  BY <1>0, ContentIsSeq
<1> HIDE DEF len, q
<1>9. Content(buffer, readPointer', w) = SubSeq(q, len + 1, Len(q))
  <2>1. len \in Nat
    BY <1>4
  <2>2. QED BY <1>0, <1>4, <1>5, <1>6, <2>1, ContentShrinks DEF q
<1>10. message' = SubSeq(q, 1, len) /\ message' \in Seq(Byte)
  <2>1. \A i \in 1..len : q[i] = buffer[Wrap(r + i - 1)] /\ q[i] \in Byte
    BY <1>1, <1>4, <1>8, ElementOfSeq
  <2> DEFINE s == SubSeq(q, 1, len)
  <2>2. /\ s \in Seq(Byte)
        /\ Len(s) = len
        /\ \A i \in 1..len : s[i] = q[i]
    BY <1>4, <2>1, SubSeqProperties
  <2> HIDE DEF s
  <2>3. message' = [i \in 1..len |-> q[i]]
    BY <1>7, <2>1
  <2>4. s = [i \in 1..len |-> s[i]]
    BY <2>2, LenProperties
  <2>5. s = message'
    BY <2>2, <2>3, <2>4
  <2>6. QED BY <2>2, <2>5 DEF s
<1>11. /\ q[len] = Delimiter
       /\ \A i \in 1..(len - 1) : q[i] # Delimiter
  <2>1. buffer[Wrap(r + of)] = Delimiter
    BY <1>3 DEF Found
  <2>2. q[len] = buffer[Wrap(r + len - 1)] /\ r + len - 1 = r + of
    BY <1>0, <1>1, <1>3, <1>4, <1>8, GwBufferAssumption DEF len, Cell
  <2>3. ASSUME NEW i \in 1..(len - 1)
        PROVE  q[i] # Delimiter
    <3>1. buffer[Wrap(r + (i - 1))] # Delimiter
      <4>1. i - 1 \in 0..(of - 1)
        BY <1>3 DEF len, Cell
      <4>2. QED BY <1>3, <4>1 DEF Found
    <3>2. q[i] = buffer[Wrap(r + i - 1)] /\ r + i - 1 = r + (i - 1)
      BY <1>0, <1>1, <1>4, <1>8, GwBufferAssumption DEF Cell
    <3>3. QED BY <3>1, <3>2
  <2>4. QED BY <2>1, <2>2, <2>3
<1>12. len \in 1..Len(q)
  BY <1>1, <1>4, <1>8
<1>13. Fifo!TakeMessage
  BY <1>6, <1>9, <1>10, <1>11, <1>12 DEF Fifo!TakeMessage, q
<1>14. QED BY <1>5, <1>6, <1>10, <1>13

-----------------------------------------------------------------------------
(* BufferTypeOK: the two pointers never leave the allocated block, so no    *)
(* operation of GwBuffer touches memory outside of it.                      *)
THEOREM TypeCorrect == BufferSpec => []BufferTypeOK
<1>1. BufferInit => BufferTypeOK
  BY GwBufferAssumption DEF BufferInit, BufferTypeOK, Cell
<1>2. BufferTypeOK /\ [BufferNext]_bufferVars => BufferTypeOK'
  <2> SUFFICES ASSUME BufferTypeOK, [BufferNext]_bufferVars
               PROVE  BufferTypeOK'
    OBVIOUS
  <2>1. CASE reset
    BY <2>1, GwBufferAssumption DEF reset, ClearPointers, BufferTypeOK, Cell
  <2>2. ASSUME NEW data \in Chunk, NEW addPartial \in BOOLEAN,
               addData(data, addPartial)
        PROVE  BufferTypeOK'
    BY <2>2, addDataRun DEF addData, BufferTypeOK, Cells
  <2>3. ASSUME NEW data \in Chunk, NEW handled \in Cell,
               fillData(data, handled)
        PROVE  BufferTypeOK'
    BY <2>3, fillDataRun DEF fillData, BufferTypeOK, Cells
  <2>4. ASSUME NEW maxLen \in Cell, NEW handled \in Cell,
               fetchData(maxLen, handled)
        PROVE  BufferTypeOK'
    <3>1. readPointer' \in Cell
      BY <2>4, fetchDataRun, DropRun DEF BufferTypeOK
    <3>2. QED BY <2>4, <3>1, fetchDataRun DEF BufferTypeOK
  <2>5. CASE read
    <3>1. readPointer' \in Cell
      BY <2>5, GwBufferAssumption DEF read, BufferTypeOK, Wrap, Cell
    <3>2. QED BY <2>5, <3>1 DEF read, BufferTypeOK
  <2>6. CASE fetchMessageToBuffer
    <3>1. CASE DropUnterminated \/ DropTooLong
      BY <3>1, GwBufferAssumption
         DEF DropUnterminated, DropTooLong, reset, ClearPointers, BufferTypeOK, Cell
    <3>2. CASE FetchMessage
      BY <3>2, FetchMessageRun DEF BufferTypeOK
    <3>3. QED BY <2>6, <3>1, <3>2 DEF fetchMessageToBuffer
  <2>7. CASE UNCHANGED bufferVars
    BY <2>7 DEF bufferVars, BufferTypeOK
  <2>8. QED BY <2>1, <2>2, <2>3, <2>4, <2>5, <2>6, <2>7 DEF BufferNext
<1>3. QED BY <1>1, <1>2, PTL DEF BufferSpec

(* SpaceInv: what freeSpace and usedSpace report always adds up, so a full  *)
(* ring and an empty ring are told apart.                                   *)
THEOREM SpaceCorrect == BufferSpec => []SpaceInv
<1>1. BufferTypeOK => SpaceInv
  BY SpacesAddUp DEF BufferTypeOK, SpaceInv
<1>2. QED BY <1>1, TypeCorrect, PTL

(* FifoSpec: the ring implements the bounded byte queue, for every size.    *)
THEOREM RingIsFifo == BufferSpec => FifoSpec
<1> DEFINE q == Content(buffer, readPointer, writePointer)
<1>1. BufferInit => Fifo!FifoInit
  <2> SUFFICES ASSUME BufferInit PROVE Fifo!FifoInit
    OBVIOUS
  <2>1. usedSpace(readPointer, writePointer) = 0
    BY DEF BufferInit, usedSpace
  <2>2. q \in Seq(Byte) /\ Len(q) = 0
    BY <2>1, ContentIsSeq, GwBufferAssumption DEF BufferInit, Cells, Cell
  <2>3. q = <<>>
    BY <2>2, EmptySeq
  <2>4. QED BY <2>3 DEF Fifo!FifoInit, BufferInit
<1>2. BufferTypeOK /\ [BufferNext]_bufferVars => [Fifo!FifoNext]_(Fifo!fifoVars)
  <2> SUFFICES ASSUME BufferTypeOK, [BufferNext]_bufferVars
               PROVE  Fifo!FifoNext \/ UNCHANGED Fifo!fifoVars
    OBVIOUS
  <2> DEFINE q1 == Content(buffer', readPointer', writePointer')
  <2>0. /\ buffer \in Cells /\ readPointer \in Cell /\ writePointer \in Cell
        /\ usedSpace(readPointer, writePointer) \in 0..(bufferSize - 1)
    BY SpacesAddUp DEF BufferTypeOK, Cells
  <2>a. Len(q) = usedSpace(readPointer, writePointer)
    BY <2>0, ContentIsSeq
  <2>1. ASSUME reset PROVE Fifo!Clear
    <3>1. usedSpace(readPointer', writePointer') = 0 /\ readPointer' \in Cell
          /\ writePointer' \in Cell /\ buffer' \in Cells /\ message' = message
      BY <2>0, <2>1, GwBufferAssumption
         DEF reset, ClearPointers, usedSpace, Cell
    <3>2. q1 \in Seq(Byte) /\ Len(q1) = 0
      BY <3>1, ContentIsSeq
    <3>3. q1 = <<>>
      BY <3>2, EmptySeq
    <3>4. QED BY <3>1, <3>3 DEF Fifo!Clear
  <2>2. ASSUME NEW data \in Chunk, NEW addPartial \in BOOLEAN,
               addData(data, addPartial)
        PROVE  Fifo!Put \/ UNCHANGED Fifo!fifoVars
    <3>1. /\ buffer' \in Cells
          /\ writePointer' \in Cell
          /\ Keeps(buffer, buffer', readPointer, writePointer)
      BY <2>2, addDataRun
    <3>2. PICK n \in Nat : usedSpace(readPointer, writePointer')
                             = usedSpace(readPointer, writePointer) + n
      BY <2>2, addDataRun
    <3>3. readPointer' = readPointer /\ message' = message
      BY <2>2 DEF addData
    <3>4. CASE n = 0
      <4>1. usedSpace(readPointer, writePointer')
              = usedSpace(readPointer, writePointer)
        BY <2>0, <3>2, <3>4
      <4>2. q1 = q
        BY <3>1, <3>3, <4>1 DEF Content, Keeps
      <4>3. QED BY <3>3, <4>2 DEF Fifo!fifoVars
    <3>5. CASE n # 0
      <4>1. Grown(q, q1, n)
        <5> DEFINE p1 == Content(buffer', readPointer, writePointer')
        <5>1. n \in Nat \ {0}
          BY <3>5
        <5>2. Grown(q, p1, n)
          BY <2>0, <3>1, <3>2, <5>1, ContentGrows
        <5>3. p1 = q1
          BY <3>3
        <5> HIDE DEF p1, q1, q
        <5>4. QED BY <5>2, <5>3
      <4>2. QED BY <3>3, <4>1 DEF Fifo!Put, Grown
    <3>6. QED BY <3>4, <3>5
  <2>3. ASSUME NEW data \in Chunk, NEW handled \in Cell,
               fillData(data, handled)
        PROVE  Fifo!Put
    <3>1. readPointer' = readPointer /\ message' = message
      BY <2>3 DEF fillData
    <3>2. Grown(q, q1, handled)
      <4> DEFINE p1 == Content(buffer', readPointer, writePointer')
      <4>1. /\ buffer' \in Cells /\ writePointer' \in Cell
            /\ handled \in Nat \ {0}
            /\ usedSpace(readPointer, writePointer')
                 = usedSpace(readPointer, writePointer) + handled
            /\ Keeps(buffer, buffer', readPointer, writePointer)
        BY <2>3, fillDataRun
      <4>2. Grown(q, p1, handled)
        BY <2>0, <4>1, ContentGrows
      <4>3. p1 = q1
        BY <3>1
      <4> HIDE DEF p1, q1, q
      <4>4. QED BY <4>2, <4>3
    <3>3. QED BY <3>1, <3>2 DEF Fifo!Put, Grown
  <2>4. ASSUME NEW maxLen \in Cell, NEW handled \in Cell,
               fetchData(maxLen, handled)
        PROVE  Fifo!Take
    <3>1. /\ readPointer' = Wrap(readPointer + handled)
          /\ handled \in Nat \ {0}
          /\ handled <= usedSpace(readPointer, writePointer)
          /\ handled <= bufferSize - readPointer
          /\ UNCHANGED <<buffer, writePointer, message>>
      BY <2>4, fetchDataRun
    <3>2. /\ readPointer' \in Cell
          /\ usedSpace(readPointer', writePointer)
               = usedSpace(readPointer, writePointer) - handled
          /\ Ahead(readPointer, readPointer', writePointer, handled)
      BY <2>0, <3>1, DropRun
    <3>3. q1 = SubSeq(q, handled + 1, Len(q))
      <4>1. handled \in Nat
        BY <3>1
      <4>2. Content(buffer, readPointer', writePointer)
              = SubSeq(q, handled + 1, Len(q))
        BY <2>0, <3>1, <3>2, <4>1, ContentShrinks
      <4>3. q1 = Content(buffer, readPointer', writePointer)
        BY <3>1
      <4> HIDE DEF q1, q
      <4>4. QED BY <4>2, <4>3
    <3>4. handled \in 1..Len(q)
      BY <2>0, <2>a, <3>1
    <3>5. QED BY <3>1, <3>3, <3>4 DEF Fifo!Take
  <2>5. ASSUME read PROVE Fifo!Take
    <3>1. /\ 1 <= usedSpace(readPointer, writePointer)
          /\ 1 <= bufferSize - readPointer
          /\ readPointer' = Wrap(readPointer + 1)
          /\ UNCHANGED <<buffer, writePointer, message>>
      BY <2>0, <2>5, GwBufferAssumption DEF read, Cell
    <3>2. /\ readPointer' \in Cell
          /\ usedSpace(readPointer', writePointer)
               = usedSpace(readPointer, writePointer) - 1
          /\ Ahead(readPointer, readPointer', writePointer, 1)
      BY <2>0, <3>1, DropRun
    <3>3. q1 = SubSeq(q, 1 + 1, Len(q))
      BY <2>0, <3>1, <3>2, ContentShrinks
    <3>4. 1 \in 1..Len(q)
      BY <2>0, <2>a, <3>1
    <3>5. QED BY <3>1, <3>3, <3>4 DEF Fifo!Take
  <2>6. ASSUME fetchMessageToBuffer PROVE Fifo!FifoNext
    BY <2>1, <2>6, FetchMessageRun
       DEF fetchMessageToBuffer, DropUnterminated, DropTooLong, Fifo!FifoNext
  <2>7. CASE UNCHANGED bufferVars
    BY <2>7 DEF bufferVars, Fifo!fifoVars, Content
  <2>8. QED BY <2>1, <2>2, <2>3, <2>4, <2>5, <2>6, <2>7
            DEF BufferNext, Fifo!FifoNext
<1>3. QED BY <1>1, <1>2, TypeCorrect, PTL DEF BufferSpec, FifoSpec, Fifo!FifoSpec

(* WritesQueued: what addData takes without addPartial, and what a handler   *)
(* of fillData has produced, is queued as a whole, behind what was there,   *)
(* whether or not it crosses the end of the block.                          *)
THEOREM WholeWrites == BufferSpec => WritesQueued
<1> DEFINE now  == Content(buffer, readPointer, writePointer)
           then == Content(buffer', readPointer', writePointer')
<1>1. ASSUME BufferTypeOK, NEW data \in Chunk, addData(data, FALSE)
      PROVE  then = now \o data
  <2>1. /\ buffer \in Cells /\ readPointer \in Cell /\ writePointer \in Cell
        /\ readPointer' = readPointer /\ data \in Seq(Byte)
        /\ freeSpace(readPointer, writePointer) >= Len(data)
    BY <1>1, GwBufferAssumption DEF BufferTypeOK, Cells, addData, Accepts
  <2>2. /\ buffer' \in Cells /\ writePointer' \in Cell
        /\ Keeps(buffer, buffer', readPointer, writePointer)
        /\ usedSpace(readPointer, writePointer')
             = usedSpace(readPointer, writePointer) + Len(data)
        /\ Holds(buffer', readPointer, writePointer, data, Len(data))
    BY <1>1, <2>1, addDataRun
  <2>3. PICK d \in Seq(Byte), n \in Nat : d = data /\ n = Len(d)
    BY <2>1, LenProperties
  <2>4. /\ Len(d) = n /\ Holds(buffer', readPointer, writePointer, d, Len(d))
        /\ usedSpace(readPointer, writePointer') = usedSpace(readPointer, writePointer) + n
    BY <2>2, <2>3
  <2>5. Content(buffer', readPointer, writePointer') = now \o d
    BY <2>1, <2>2, <2>4, ContentAppends
  <2> QED BY <2>1, <2>3, <2>5
<1>2. ASSUME BufferTypeOK, NEW data \in Chunk, NEW handled \in Cell, fillData(data, handled)
      PROVE  then = now \o SubSeq(data, 1, handled)
  <2> DEFINE d == SubSeq(data, 1, handled)
  <2>1. /\ buffer \in Cells /\ readPointer \in Cell /\ writePointer \in Cell
        /\ readPointer' = readPointer /\ handled <= Len(data)
    BY <1>2 DEF BufferTypeOK, Cells, fillData
  <2>2. /\ buffer' \in Cells /\ writePointer' \in Cell /\ handled \in Nat
        /\ Keeps(buffer, buffer', readPointer, writePointer)
        /\ usedSpace(readPointer, writePointer')
             = usedSpace(readPointer, writePointer) + handled
        /\ Holds(buffer', readPointer, writePointer, data, handled)
    BY <1>2, fillDataRun
  <2>3. \A i \in 1..handled : data[i] \in Byte
    BY <2>1, <2>2, ChunkBytes
  <2>4. /\ d \in Seq(Byte) /\ Len(d) = handled
        /\ \A i \in 1..handled : d[i] = data[i]
    BY <2>2, <2>3, SubSeqProperties
  <2> HIDE DEF d
  <2>5. Holds(buffer', readPointer, writePointer, d, Len(d))
    BY <2>2, <2>4 DEF Holds
  <2>6. Content(buffer', readPointer, writePointer') = now \o d
    BY <2>1, <2>2, <2>4, <2>5, ContentAppends
  <2> QED BY <2>1, <2>6 DEF d
<1>3. BufferTypeOK /\ [BufferNext]_bufferVars
      => [bufferVars' # bufferVars => \A data \in Chunk :
            /\ addData(data, FALSE) => then = now \o data
            /\ \A handled \in Cell :
                 fillData(data, handled) => then = now \o SubSeq(data, 1, handled)]_bufferVars
  BY <1>1, <1>2
<1> QED BY <1>3, TypeCorrect, PTL DEF BufferSpec, WritesQueued

(* The "Message to long for message buffer" branch cannot be taken when the *)
(* caller's buffer is as large as the ring (GwChannelMessageReceiver fetches *)
(* RX_BUFFER_SIZE bytes from a ring of RX_BUFFER_SIZE cells): the terminated *)
(* messages of a channel are never thrown away.                             *)
THEOREM MessageFits ==
  ASSUME messageSize >= bufferSize
  PROVE  BufferSpec => [](\A of \in findChar : of + 1 < messageSize)
<1>1. BufferTypeOK => \A of \in findChar : of + 1 < messageSize
  <2> SUFFICES ASSUME BufferTypeOK, NEW of \in findChar
               PROVE  of + 1 < messageSize
    OBVIOUS
  <2>1. usedSpace(readPointer, writePointer) \in 0..(bufferSize - 1)
    BY SpacesAddUp DEF BufferTypeOK
  <2>2. of \in Cell /\ of \in 0..(usedSpace(readPointer, writePointer) - 1)
    BY DEF findChar, Found
  <2>3. QED BY <2>1, <2>2, GwBufferAssumption DEF Cell
<1>2. QED BY <1>1, TypeCorrect, PTL
=============================================================================
