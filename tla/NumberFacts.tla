----------------------------- MODULE NumberFacts -----------------------------
(* Facts about numbers that the proofs about rings and about recursive      *)
(* functions need: induction, quotients and remainders.                     *)
EXTENDS Integers, WellFoundedInduction, TLAPS

(* Induction over a set of numbers: the library's theorems take a predicate *)
(* as a parameter instead.                                                  *)
LEMMA SetInduction ==
  ASSUME NEW n \in Nat, NEW S, 0 \in S, \A k \in 0..(n - 1) : k \in S => k + 1 \in S
  PROVE  0..n \subseteq S
<1> DEFINE Less == {p \in Nat \X Nat : p[1] < p[2]}
           Rest1 == (0..n) \ S
<1>1. IsWellFoundedOn(Less, Nat)
  BY NatLessThanWellFounded, Zenon DEF OpToRel
<1>2. SUFFICES ASSUME Rest1 # {} PROVE FALSE
  OBVIOUS
<1>3. PICK x \in Rest1 : \A y \in Rest1 : ~ (<<y, x>> \in Less)
  <2>1. Rest1 \subseteq Nat
    OBVIOUS
  <2> HIDE DEF Less, Rest1
  <2> QED BY <1>1, <1>2, <2>1, WFMin
<1>4. x \in 0..n /\ x \notin S /\ x # 0
  OBVIOUS
<1>5. x - 1 \in 0..(n - 1) /\ ~ (x - 1 \in Rest1)
  <2>1. x - 1 \in Nat /\ x \in Nat /\ x - 1 < x
    BY <1>4
  <2>2. <<x - 1, x>> \in Less
    BY <2>1
  <2> QED BY <1>3, <1>4, <2>2
<1>6. x - 1 \in S
  BY <1>4, <1>5
<1> QED BY <1>4, <1>5, <1>6

LEMMA QuotientFacts ==
  ASSUME NEW a \in Int, NEW n \in Nat \ {0}
  PROVE  a % n \in 0..(n - 1) /\ a \div n \in Int /\ a = n * (a \div n) + (a % n)
OBVIOUS

LEMMA RemainderUnique ==
  ASSUME NEW n \in Nat \ {0}, NEW q \in Int, NEW p \in Int,
         NEW r \in 0..(n - 1), NEW s \in 0..(n - 1), n * q + r = n * p + s
  PROVE  r = s
<1>1. n * (q - p) = s - r
  OBVIOUS
<1>2. \A d \in Int : d >= 1 => n * d >= n
  OBVIOUS
<1>3. \A d \in Int : d <= -1 => n * d <= -n
  OBVIOUS
<1> DEFINE d == q - p
<1>4. d \in Int /\ n * d = s - r /\ s - r < n /\ s - r > -n
  BY <1>1
<1> HIDE DEF d
<1>5. ~ (d >= 1) /\ ~ (d <= -1)
  BY <1>2, <1>3, <1>4
<1>6. d = 0
  BY <1>4, <1>5
<1> QED BY <1>4, <1>6

(* Remainders may be taken at once or one after the other.                  *)
LEMMA RemainderOfSum ==
  ASSUME NEW a \in Int, NEW b \in Int, NEW n \in Nat \ {0}
  PROVE  ((a % n) + b) % n = (a + b) % n
<1> DEFINE q == a \div n
           c == (a % n) + b
           p == c \div n
           e == (a + b) \div n
<1>1. a = n * q + (a % n) /\ q \in Int /\ a % n \in 0..(n - 1)
  BY QuotientFacts
<1>2. c \in Int /\ c = n * p + (c % n) /\ p \in Int /\ c % n \in 0..(n - 1)
  BY <1>1, QuotientFacts
<1>3. a + b = n * e + ((a + b) % n) /\ e \in Int /\ (a + b) % n \in 0..(n - 1)
  <2>1. a + b \in Int
    OBVIOUS
  <2> QED BY <2>1, QuotientFacts
<1>4. a + b = n * q + c
  BY <1>1
<1>5. n * (q + p) + (c % n) = n * e + ((a + b) % n)
  <2> HIDE DEF q, c, p, e
  <2>1. n * (q + p) = n * q + n * p
    BY <1>1, <1>2
  <2> QED BY <1>1, <1>2, <1>3, <1>4, <2>1
<1> HIDE DEF q, p, e, c
<1>6. c % n = (a + b) % n
  <2>1. q + p \in Int
    BY <1>1, <1>2
  <2> DEFINE u == q + p
             r == c % n
             s == (a + b) % n
  <2>2. u \in Int /\ e \in Int /\ r \in 0..(n - 1) /\ s \in 0..(n - 1) /\ n * u + r = n * e + s
    BY <1>2, <1>3, <1>5, <2>1
  <2> HIDE DEF u, r, s
  <2>3. r = s
    BY <2>2, RemainderUnique
  <2> QED BY <2>3 DEF r, s
<1> QED BY <1>6 DEF c

(* What is between two places of a ring is not more than the way from one   *)
(* to the other.                                                            *)
LEMMA RemainderLeast ==
  ASSUME NEW a \in Int, NEW l \in Nat, NEW n \in Nat \ {0}
  PROVE  (((a + l) % n) - a) % n <= l
<1> DEFINE c == ((a + l) % n) - a
<1>1. (a + l) % n \in Int
  BY QuotientFacts
<1>2. c % n = l % n
  <2>1. (((a + l) % n) + (-a)) % n = ((a + l) + (-a)) % n
    <3>1. a + l \in Int /\ -a \in Int
      OBVIOUS
    <3> QED BY <3>1, RemainderOfSum
  <2> QED BY <1>1, <2>1
<1>3. l % n <= l
  <2>1. l = n * (l \div n) + (l % n) /\ l \div n \in Int /\ l % n \in 0..(n - 1)
    BY QuotientFacts
  <2>2. \A d \in Int : d <= -1 => n * d <= -n
    OBVIOUS
  <2>3. \A d \in Int : d >= 0 => n * d >= 0
    OBVIOUS
  <2> DEFINE d == l \div n
             m == l % n
  <2>4. l = n * d + m /\ d \in Int /\ m \in 0..(n - 1)
    BY <2>1
  <2> HIDE DEF d, m
  <2>5. d >= 0
    BY <2>2, <2>4
  <2>6. m <= l
    BY <2>3, <2>4, <2>5
  <2> QED BY <2>6 DEF m
<1> QED BY <1>2, <1>3

LEMMA RemaindersDiffer ==
  ASSUME NEW a \in Int, NEW b \in Int, NEW n \in Nat \ {0}, 0 < b - a, b - a < n
  PROVE  a % n # b % n
<1> SUFFICES ASSUME a % n = b % n PROVE FALSE
  OBVIOUS
<1> DEFINE p == a \div n
           q == b \div n
           d == q - p
<1>1. /\ a = n * p + (a % n) /\ p \in Int
      /\ b = n * q + (b % n) /\ q \in Int
      /\ a % n \in Int /\ b % n \in Int
  BY QuotientFacts
<1> HIDE DEF p, q
<1>2. d \in Int /\ n * d = n * q - n * p
  BY <1>1
<1>3. n * d = b - a
  BY <1>1, <1>2
<1>4. \A e \in Int : e >= 1 => n * e >= n
  OBVIOUS
<1>5. \A e \in Int : e <= 0 => n * e <= 0
  OBVIOUS
<1> HIDE DEF d
<1> QED BY <1>2, <1>3, <1>4, <1>5

LEMMA RemainderSmall ==
  ASSUME NEW n \in Nat \ {0}, NEW a \in 0..(n - 1)
  PROVE  a % n = a /\ (a + n) % n = a
<1>1. a % n = a
  <2> DEFINE q == a \div n
             r == a % n
  <2>1. a = n * q + r /\ q \in Int /\ r \in 0..(n - 1)
    BY QuotientFacts
  <2> HIDE DEF q, r
  <2>2. n * q + r = n * 0 + a
    BY <2>1
  <2>3. r = a
    BY <2>1, <2>2, RemainderUnique
  <2> QED BY <2>3 DEF r
<1>2. (a + n) % n = a
  <2> DEFINE q == (a + n) \div n
             r == (a + n) % n
  <2>1. a + n = n * q + r /\ q \in Int /\ r \in 0..(n - 1)
    <3>1. a + n \in Int
      OBVIOUS
    <3> QED BY <3>1, QuotientFacts
  <2> HIDE DEF q, r
  <2>2. n * q + r = n * 1 + a
    BY <2>1
  <2>3. r = a
    BY <2>1, <2>2, RemainderUnique
  <2> QED BY <2>3 DEF r
<1> QED BY <1>1, <1>2


(* A set of numbers below a bound has a greatest one.                      *)
LEMMA SetMaximum ==
  ASSUME NEW n \in Nat, NEW S \in SUBSET (0..n), S # {}
  PROVE  \E x \in S : \A y \in S : y <= x
<1> DEFINE Less == {p \in Nat \X Nat : p[1] < p[2]}
           Gaps == {n - y : y \in S}
<1>1. IsWellFoundedOn(Less, Nat)
  BY NatLessThanWellFounded, Zenon DEF OpToRel
<1>2. Gaps \subseteq Nat /\ Gaps # {}
  <2>1. PICK y \in S : TRUE
    OBVIOUS
  <2>2. n - y \in Gaps
    OBVIOUS
  <2>3. \A z \in S : n - z \in Nat
    OBVIOUS
  <2> QED BY <2>2, <2>3
<1>3. PICK g \in Gaps : \A d \in Gaps : ~ (<<d, g>> \in Less)
  <2> HIDE DEF Less, Gaps
  <2> QED BY <1>1, <1>2, WFMin
<1>4. PICK x \in S : g = n - x
  OBVIOUS
<1>5. ASSUME NEW y \in S, y > x PROVE FALSE
  <2>1. n - y \in Gaps /\ n - y \in Nat /\ n - x \in Nat /\ n - y < n - x
    BY <1>5
  <2>2. <<n - y, n - x>> \in Less
    BY <2>1
  <2> QED BY <1>3, <1>4, <2>1, <2>2
<1> QED BY <1>5
=============================================================================
