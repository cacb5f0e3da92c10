----------------------------- MODULE SharedLemmas -----------------------------
(***************************************************************************)
(* Facts about data that the proofs of several components need.  First the *)
(* arithmetic of the engine's rings: free-running counters that are masked *)
(* on use.  The number of entries divides the counters' wrap, so a counter *)
(* that has come round selects the entry it would have selected anyway,    *)
(* and counters less than a ring's length apart select different entries.  *)
(***************************************************************************)
EXTENDS Integers, Sequences, FiniteSets, SequenceTheorems, FiniteSetTheorems,
        WellFoundedInduction, TLAPS

LEMMA MultipleAtLeast ==
  ASSUME NEW e \in Nat \ {0}, NEW d \in Int, d >= 1
  PROVE  e * d >= e
  OBVIOUS

LEMMA DivMod ==
  ASSUME NEW e \in Nat \ {0}, NEW x \in Nat
  PROVE  /\ x \div e \in Nat
         /\ x % e \in 0..(e - 1)
         /\ x = e * (x \div e) + (x % e)
  OBVIOUS

(***************************************************************************)
(* Quotient and remainder are unique.                                      *)
(***************************************************************************)
LEMMA RemainderUnique ==
  ASSUME NEW e \in Nat \ {0}, NEW x \in Nat, NEW q \in Int, NEW r \in 0..(e - 1),
         x = e * q + r
  PROVE  x % e = r
<1> DEFINE p == x \div e
           s == x % e
<1>1. p \in Nat /\ s \in 0..(e - 1) /\ x = e * p + s
  BY DivMod
<1> HIDE DEF p, s
<1>2. e * (p - q) = r - s /\ e * (q - p) = s - r
  BY <1>1
<1>3. ~(p - q >= 1) /\ ~(q - p >= 1)
  <2>1. p - q \in Int /\ q - p \in Int
    BY <1>1
  <2>2. r - s < e /\ s - r < e
    BY <1>1
  <2>3. QED
    BY <1>2, <2>1, <2>2, MultipleAtLeast
<1>4. p = q
  BY <1>1, <1>3
<1>5. QED
  BY <1>1, <1>4 DEF s

(***************************************************************************)
(* Stepping a counter and taking the difference of two of them, without    *)
(* the modulo.                                                             *)
(***************************************************************************)
LEMMA WrapSucc ==
  ASSUME NEW w \in Nat \ {0}, NEW h \in 0..(w - 1)
  PROVE  (h + 1) % w = IF h + 1 = w THEN 0 ELSE h + 1
  OBVIOUS

LEMMA WrapPred ==
  ASSUME NEW w \in Nat \ {0}, NEW h \in 0..(w - 1)
  PROVE  (h + w - 1) % w = IF h = 0 THEN w - 1 ELSE h - 1
  OBVIOUS

LEMMA WrapDifference ==
  ASSUME NEW w \in Nat \ {0}, NEW h \in 0..(w - 1), NEW t \in 0..(w - 1)
  PROVE  (t + w - h) % w = IF t >= h THEN t - h ELSE t - h + w
  OBVIOUS

(***************************************************************************)
(* A counter that came round selects the same entry.                       *)
(***************************************************************************)
LEMMA SameEntry ==
  ASSUME NEW e \in Nat \ {0}, NEW w \in Nat, w % e = 0, NEW x \in Nat
  PROVE  (w + x) % e = x % e
<1> DEFINE a == x \div e
           b == w \div e
           r == x % e
<1>1. a \in Nat /\ b \in Nat /\ r \in 0..(e - 1) /\ x = e * a + r /\ w = e * b
  BY DivMod
<1> HIDE DEF a, b, r
<1>2. a + b \in Int /\ e * (a + b) = e * a + e * b
  BY <1>1
<1>3. w + x \in Nat /\ w + x = e * (a + b) + r
  BY <1>1, <1>2
<1>4. (w + x) % e = r
  BY <1>1, <1>2, <1>3, RemainderUnique
<1>5. QED
  BY <1>4 DEF r

(***************************************************************************)
(* Counters less than a ring's length apart select different entries.      *)
(***************************************************************************)
LEMMA OtherEntry ==
  ASSUME NEW e \in Nat \ {0}, NEW x \in Nat, NEW y \in Nat, x < y, y - x < e
  PROVE  x % e # y % e
<1> SUFFICES ASSUME x % e = y % e PROVE FALSE
  OBVIOUS
<1> DEFINE a == x \div e
           b == y \div e
           r == x % e
<1>1. a \in Nat /\ b \in Nat /\ r \in 0..(e - 1) /\ x = e * a + r /\ y = e * b + r
  BY DivMod
<1> HIDE DEF a, b, r
<1>2. y - x = e * (b - a)
  BY <1>1
<1>3. b - a >= 1
  <2>1. b - a \in Int
    BY <1>1
  <2>2. ASSUME a - b >= 0 PROVE FALSE
    <3>1. e * (a - b) >= 0
      BY <2>2, <1>1
    <3>2. QED
      BY <1>1, <1>2, <3>1
  <2>3. QED
    BY <2>1, <2>2, <1>1
<1>4. QED
  BY <1>1, <1>2, <1>3, MultipleAtLeast
-----------------------------------------------------------------------------
(***************************************************************************)
(* Lists: what a list with one element more or without its first holds.    *)
(***************************************************************************)
LEMMA AppendShape ==
  ASSUME NEW T, NEW s \in Seq(T), NEW e \in T
  PROVE  /\ Append(s, e) \in Seq(T) /\ Len(s) \in Nat /\ Len(Append(s, e)) = Len(s) + 1
         /\ DOMAIN s = 1..Len(s) /\ DOMAIN Append(s, e) = 1..(Len(s) + 1)
         /\ \A i \in 1..Len(s) : Append(s, e)[i] = s[i]
         /\ Append(s, e)[Len(s) + 1] = e
  BY AppendProperties, LenProperties

LEMMA TailShape ==
  ASSUME NEW T, NEW s \in Seq(T), s # <<>>
  PROVE  /\ Tail(s) \in Seq(T) /\ Head(s) \in T /\ Head(s) = s[1]
         /\ Len(s) \in Nat /\ Len(s) >= 1 /\ Len(Tail(s)) = Len(s) - 1
         /\ DOMAIN s = 1..Len(s) /\ DOMAIN Tail(s) = 1..(Len(s) - 1)
         /\ \A i \in 1..(Len(s) - 1) : Tail(s)[i] = s[i + 1]
  BY HeadTailProperties, LenProperties, EmptySeq

LEMMA AppendDistinct ==
  ASSUME NEW T, NEW s \in Seq(T), NEW e \in T, e \notin {s[i] : i \in DOMAIN s},
         \A i, j \in DOMAIN s : s[i] = s[j] => i = j
  PROVE  /\ {Append(s, e)[i] : i \in DOMAIN Append(s, e)} = {s[i] : i \in DOMAIN s} \cup {e}
         /\ \A i, j \in DOMAIN Append(s, e) : Append(s, e)[i] = Append(s, e)[j] => i = j
<1>1. /\ Len(s) \in Nat /\ DOMAIN s = 1..Len(s) /\ DOMAIN Append(s, e) = 1..(Len(s) + 1)
      /\ \A i \in 1..Len(s) : Append(s, e)[i] = s[i]
      /\ Append(s, e)[Len(s) + 1] = e
  BY AppendShape
<1>2. \A i \in DOMAIN Append(s, e) : i \in DOMAIN s \/ i = Len(s) + 1
  BY <1>1
<1>3. DOMAIN s \subseteq DOMAIN Append(s, e) /\ Len(s) + 1 \in DOMAIN Append(s, e)
  BY <1>1
<1>4. QED
  BY <1>1, <1>2, <1>3

LEMMA TailDistinct ==
  ASSUME NEW T, NEW s \in Seq(T), s # <<>>,
         \A i, j \in DOMAIN s : s[i] = s[j] => i = j
  PROVE  /\ Head(s) \in {s[i] : i \in DOMAIN s}
         /\ {Tail(s)[i] : i \in DOMAIN Tail(s)} = {s[i] : i \in DOMAIN s} \ {Head(s)}
         /\ \A i, j \in DOMAIN Tail(s) : Tail(s)[i] = Tail(s)[j] => i = j
<1>1. /\ Head(s) = s[1] /\ Len(s) \in Nat /\ Len(s) >= 1
      /\ DOMAIN s = 1..Len(s) /\ DOMAIN Tail(s) = 1..(Len(s) - 1)
      /\ \A i \in 1..(Len(s) - 1) : Tail(s)[i] = s[i + 1]
  BY TailShape
<1>2. 1 \in DOMAIN s /\ \A i \in DOMAIN Tail(s) : i + 1 \in DOMAIN s /\ i + 1 # 1
  BY <1>1
<1>3. \A i \in DOMAIN s : i # 1 => \E k \in DOMAIN Tail(s) : i = k + 1
  <2> SUFFICES ASSUME NEW i \in DOMAIN s, i # 1 PROVE \E k \in DOMAIN Tail(s) : i = k + 1
    OBVIOUS
  <2>1. i - 1 \in DOMAIN Tail(s) /\ i = (i - 1) + 1
    BY <1>1
  <2>2. QED
    BY <2>1
<1>4. ASSUME NEW b \in {Tail(s)[i] : i \in DOMAIN Tail(s)}
      PROVE  b \in {s[i] : i \in DOMAIN s} \ {Head(s)}
  BY <1>1, <1>2
<1>5. ASSUME NEW i \in DOMAIN s, s[i] # Head(s)
      PROVE  s[i] \in {Tail(s)[k] : k \in DOMAIN Tail(s)}
  <2>1. PICK k \in DOMAIN Tail(s) : i = k + 1
    BY <1>1, <1>3, <1>5
  <2>2. Tail(s)[k] = s[i]
    BY <1>1, <2>1
  <2>3. QED
    BY <2>2
<1>6. ASSUME NEW i \in DOMAIN Tail(s), NEW j \in DOMAIN Tail(s), Tail(s)[i] = Tail(s)[j]
      PROVE  i = j
  <2>1. s[i + 1] = s[j + 1] /\ i + 1 \in DOMAIN s /\ j + 1 \in DOMAIN s
    BY <1>1, <1>2, <1>6
  <2>2. i + 1 = j + 1
    BY <2>1
  <2>3. QED
    BY <1>1, <2>2
<1>7. Head(s) \in {s[i] : i \in DOMAIN s}
  BY <1>1, <1>2
<1>8. QED
  BY <1>4, <1>5, <1>6, <1>7

-----------------------------------------------------------------------------
(***************************************************************************)
(* A set with no two elements has one, or none.                            *)
(***************************************************************************)
LEMMA AtMostOne ==
  ASSUME NEW S, \A i, j \in S : i = j
  PROVE  Cardinality(S) = IF S = {} THEN 0 ELSE 1
<1>1. CASE S = {}
  BY <1>1, FS_EmptySet
<1>2. ASSUME NEW i \in S PROVE Cardinality(S) = 1
  <2>1. S = {i}
    BY <1>2
  <2>2. QED
    BY <2>1, FS_Singleton
<1>3. QED
  BY <1>1, <1>2

(***************************************************************************)
(* What is left of a sequence behind its first n.                          *)
(***************************************************************************)
LEMMA SuffixShape ==
  ASSUME NEW T, NEW s \in Seq(T), NEW n \in 0..Len(s)
  PROVE  /\ SubSeq(s, n + 1, Len(s)) \in Seq(T)
         /\ Len(SubSeq(s, n + 1, Len(s))) = Len(s) - n
         /\ \A i \in 1..(Len(s) - n) : SubSeq(s, n + 1, Len(s))[i] = s[n + i]
  OBVIOUS

(***************************************************************************)
(* A sequence without repetition is as long as its elements are many.      *)
(***************************************************************************)
LEMMA DistinctLength ==
  ASSUME NEW T, NEW s \in Seq(T), \A i, j \in DOMAIN s : s[i] = s[j] => i = j
  PROVE  Len(s) = Cardinality({s[i] : i \in DOMAIN s})
<1> DEFINE R == {s[i] : i \in DOMAIN s}
<1>1. Len(s) \in Nat /\ DOMAIN s = 1..Len(s)
  BY LenProperties
<1>2. IsFiniteSet(1..Len(s)) /\ Cardinality(1..Len(s)) = IF 1 > Len(s) THEN 0 ELSE Len(s) - 1 + 1
  BY <1>1, FS_Interval
<1>3. s \in Bijection(DOMAIN s, R)
  BY <1>1 DEF Bijection, Injection, Surjection, IsInjective
<1>4. Cardinality(R) = Cardinality(DOMAIN s)
  <2>1. IsFiniteSet(DOMAIN s)
    BY <1>1, <1>2
  <2>2. QED
    BY <1>3, <2>1, FS_Bijection, Zenon DEF ExistsBijection
<1>5. QED
  BY <1>1, <1>2, <1>4

(***************************************************************************)
(* Numbers have a least among them.                                        *)
(***************************************************************************)
LEMMA LeastIn ==
  ASSUME NEW T, T \subseteq Nat, T # {}
  PROVE  \E x \in T : \A y \in T : x <= y
<1> DEFINE R == OpToRel(<, Nat)
<1>1. IsWellFoundedOn(R, Nat)
  BY NatLessThanWellFounded
<1>2. \A x, y \in Nat : y < x => <<y, x>> \in R
  BY DEF OpToRel
<1> HIDE DEF R
<1>3. \E x \in T : \A y \in T : ~ (<<y, x>> \in R)
  BY <1>1, WFMin
<1>4. PICK x \in T : \A y \in T : ~ (<<y, x>> \in R)
  BY <1>3
<1>5. ASSUME NEW y \in T PROVE x <= y
  <2>1. ~(y < x)
    BY <1>2, <1>4
  <2>2. QED
    BY <2>1
<1>6. QED
  BY <1>5
=============================================================================
