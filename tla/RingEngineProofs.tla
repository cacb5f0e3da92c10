--------------------------- MODULE RingEngineProofs ---------------------------
(***************************************************************************)
(* The safety of one ring's engine, for every pool size, CQ size and set   *)
(* of scripts. The inductive invariant IInv has seven parts.               *)
(*                                                                         *)
(* Types bounds the variables; PoolOK says of the CQ, the backlog and the  *)
(* free list what slip_engine_post and slip_engine_emit rely on; Lists,    *)
(* that no op is twice in a queue; Control, what the place of each thread  *)
(* says of its op; Apart, that the homes of ops are disjoint and cover the *)
(* pool; Numbered, that ops in flight carry different, unanswered requests *)
(* that have been taken; StallInv, that the linked op in flight is the one *)
(* the queue waits for.                                                    *)
(*                                                                         *)
(* None of them is inductive alone. Numbered keeps Post from answering a   *)
(* request twice, and needs Apart for the op's being in one place; Apart   *)
(* needs PoolOK for the carrier that Emit takes, and Control for the op a  *)
(* thread holds; StallInv needs Apart and Control to know that the op      *)
(* behind a ticket is not pending again under a later request.             *)
(*                                                                         *)
(* One lemma per action shows that it keeps IInv. What ends a completion   *)
(* (Ends), what only moves an op (MoveKeeps) and what moves none           *)
(* (StillKeeps) are proved once.                                           *)
(***************************************************************************)
EXTENDS RingEngine, SharedLemmas

(***************************************************************************)
(* RemoveAt closes the gap it leaves.                                      *)
(***************************************************************************)
LEMMA RemoveShape ==
  ASSUME NEW T, NEW s \in Seq(T), NEW n \in 1..Len(s)
  PROVE  /\ RemoveAt(s, n) \in Seq(T)
         /\ Len(s) \in Nat
         /\ Len(RemoveAt(s, n)) = Len(s) - 1
         /\ \A i \in 1..(Len(s) - 1) : RemoveAt(s, n)[i] = IF i < n THEN s[i] ELSE s[i + 1]
<1> DEFINE p == SubSeq(s, 1, n - 1)
           q == SubSeq(s, n + 1, Len(s))
<1>1. p \in Seq(T) /\ Len(p) = n - 1 /\ \A i \in 1..(n - 1) : p[i] = s[i]
  OBVIOUS
<1>2. q \in Seq(T) /\ Len(q) = Len(s) - n /\ \A i \in 1..(Len(s) - n) : q[i] = s[n + i]
  OBVIOUS
<1>3. RemoveAt(s, n) = p \o q
  BY DEF RemoveAt
<1>4. Len(s) \in Nat
  BY LenProperties
<1> HIDE DEF p, q
<1>5. /\ p \o q \in Seq(T) /\ Len(p \o q) = Len(p) + Len(q)
      /\ \A i \in 1..(Len(p) + Len(q)) : (p \o q)[i] = IF i <= Len(p) THEN p[i] ELSE q[i - Len(p)]
  BY <1>1, <1>2, ConcatProperties
<1>6. ASSUME NEW i \in 1..(Len(s) - 1)
      PROVE  (p \o q)[i] = IF i < n THEN s[i] ELSE s[i + 1]
  <2>1. i \in 1..(Len(p) + Len(q))
    BY <1>1, <1>2, <1>4
  <2>2. CASE i < n
    BY <1>1, <1>4, <1>5, <2>1, <2>2
  <2>3. CASE ~(i < n)
    <3>1. i - (n - 1) \in 1..(Len(s) - n) /\ n + (i - (n - 1)) = i + 1
      BY <1>4, <2>3
    <3>2. QED
      BY <1>1, <1>2, <1>4, <1>5, <2>1, <2>3, <3>1
  <2>4. QED
    BY <2>2, <2>3
<1>7. Len(p \o q) = Len(s) - 1
  BY <1>1, <1>2, <1>4, <1>5
<1>8. QED
  BY <1>3, <1>4, <1>5, <1>6, <1>7

(***************************************************************************)
(* Taking one out of a queue without repetition takes out just that one.   *)
(***************************************************************************)
LEMMA RemoveDistinct ==
  ASSUME NEW T, NEW s \in Seq(T), NEW n \in 1..Len(s),
         \A i, j \in DOMAIN s : s[i] = s[j] => i = j
  PROVE  /\ s[n] \in {s[i] : i \in DOMAIN s}
         /\ {RemoveAt(s, n)[i] : i \in DOMAIN RemoveAt(s, n)} = {s[i] : i \in DOMAIN s} \ {s[n]}
         /\ \A i, j \in DOMAIN RemoveAt(s, n) : RemoveAt(s, n)[i] = RemoveAt(s, n)[j] => i = j
<1> DEFINE r == RemoveAt(s, n)
           At(i) == IF i < n THEN i ELSE i + 1
<1>1. /\ r \in Seq(T) /\ Len(s) \in Nat /\ Len(r) = Len(s) - 1
      /\ \A i \in 1..(Len(s) - 1) : r[i] = IF i < n THEN s[i] ELSE s[i + 1]
  BY RemoveShape
<1> HIDE DEF r
<1>2. DOMAIN s = 1..Len(s) /\ DOMAIN r = 1..(Len(s) - 1) /\ n \in DOMAIN s
  BY <1>1, LenProperties
<1>3. \A i \in DOMAIN r : At(i) \in DOMAIN s /\ At(i) # n /\ r[i] = s[At(i)]
  BY <1>1, <1>2
<1>4. \A i, j \in DOMAIN r : At(i) = At(j) => i = j
  BY <1>2
<1>5. \A k \in DOMAIN s : k # n => \E i \in DOMAIN r : k = At(i)
  <2> SUFFICES ASSUME NEW k \in DOMAIN s, k # n PROVE \E i \in DOMAIN r : k = At(i)
    OBVIOUS
  <2>1. CASE k < n
    BY <1>1, <1>2, <2>1
  <2>2. CASE k > n
    <3>1. k - 1 \in DOMAIN r /\ k = At(k - 1)
      BY <1>1, <1>2, <2>2
    <3>2. QED
      BY <3>1
  <2>3. QED
    BY <1>2, <2>1, <2>2
<1> HIDE DEF At
<1>6. \A i \in DOMAIN r : r[i] \in {s[k] : k \in DOMAIN s} \ {s[n]}
  BY <1>2, <1>3
<1>7. \A k \in DOMAIN s : s[k] # s[n] => s[k] \in {r[i] : i \in DOMAIN r}
  BY <1>3, <1>5
<1>8. \A i, j \in DOMAIN r : r[i] = r[j] => i = j
  BY <1>3, <1>4
<1>9. {r[i] : i \in DOMAIN r} = {s[k] : k \in DOMAIN s} \ {s[n]}
  BY <1>6, <1>7
<1>10. s[n] \in {s[k] : k \in DOMAIN s}
  BY <1>2
<1>11. QED
  BY <1>8, <1>9, <1>10 DEF r

\* What waits in the backlog, the line the caller will read, and the ops held up.
Waiter(T) == [op : Op, cqe : T]
LineOf(c, b) == c \o [i \in DOMAIN b |-> b[i].cqe]
OpsOf(b) == {b[i].op : i \in DOMAIN b}

LEMMA MinOfTwo ==
  ASSUME NEW x \in Int, NEW y \in Int
  PROVE  Min({x, y}) = IF x <= y THEN x ELSE y
  BY DEF Min

(***************************************************************************)
(* The CQEs of the first n that wait.                                      *)
(***************************************************************************)
LEMMA MappedShape ==
  ASSUME NEW T, NEW b \in Seq(Waiter(T)), NEW n \in 0..Len(b)
  PROVE  /\ [i \in 1..n |-> b[i].cqe] \in Seq(T)
         /\ Len([i \in 1..n |-> b[i].cqe]) = n
         /\ \A i \in 1..n : b[i].cqe \in T
<1>1. \A i \in 1..Len(b) : b[i] \in Waiter(T)
  BY ElementOfSeq
<1>2. Len(b) \in Nat
  BY LenProperties
<1>3. \A i \in 1..n : b[i].cqe \in T
  BY <1>1, <1>2 DEF Waiter
<1>4. [i \in 1..n |-> b[i].cqe] \in [1..n -> T]
  BY <1>3
<1>5. n \in Nat
  BY <1>2
<1>6. QED
  BY <1>3, <1>4, <1>5

Laid(T, c, b) ==
  /\ LineOf(c, b) \in Seq(T)
  /\ Len(c) \in Nat /\ Len(b) \in Nat
  /\ Len(LineOf(c, b)) = Len(c) + Len(b)
  /\ \A i \in 1..Len(c) : LineOf(c, b)[i] = c[i]
  /\ \A i \in 1..Len(b) : LineOf(c, b)[Len(c) + i] = b[i].cqe

(***************************************************************************)
(* The line at each place.                                                 *)
(***************************************************************************)
LEMMA LineShape ==
  ASSUME NEW T, NEW c \in Seq(T), NEW b \in Seq(Waiter(T))
  PROVE  Laid(T, c, b)
<1> DEFINE m == [i \in 1..Len(b) |-> b[i].cqe]
<1>1. Len(c) \in Nat /\ Len(b) \in Nat /\ DOMAIN b = 1..Len(b)
  BY LenProperties
<1>2. m \in Seq(T) /\ Len(m) = Len(b)
  BY <1>1, MappedShape
<1>3. LineOf(c, b) = c \o m
  BY <1>1 DEF LineOf
<1>4. \A i \in 1..Len(b) : m[i] = b[i].cqe
  OBVIOUS
<1> HIDE DEF m
<1>5. /\ c \o m \in Seq(T) /\ Len(c \o m) = Len(c) + Len(m)
      /\ \A i \in 1..(Len(c) + Len(m)) : (c \o m)[i] = IF i <= Len(c) THEN c[i] ELSE m[i - Len(c)]
  BY <1>2, ConcatProperties
<1>6. \A i \in 1..Len(c) : (c \o m)[i] = c[i]
  BY <1>1, <1>2, <1>5
<1>7. ASSUME NEW i \in 1..Len(b) PROVE (c \o m)[Len(c) + i] = b[i].cqe
  <2>1. Len(c) + i \in 1..(Len(c) + Len(m)) /\ ~(Len(c) + i <= Len(c)) /\ (Len(c) + i) - Len(c) = i
    BY <1>1, <1>2
  <2>2. QED
    BY <1>4, <1>5, <2>1
<1>8. QED
  BY <1>1, <1>2, <1>3, <1>5, <1>6, <1>7 DEF Laid

Moved(n, c, b, d, e) ==
  /\ Len(d) = Len(c) + n
  /\ \A i \in 1..Len(c) : d[i] = c[i]
  /\ \A i \in 1..n : d[Len(c) + i] = b[i].cqe
  /\ Len(e) = Len(b) - n
  /\ \A i \in 1..(Len(b) - n) : e[i] = b[n + i]

(***************************************************************************)
(* Moving the first of the backlog to the end of the CQ changes nothing in *)
(* the line.                                                               *)
(***************************************************************************)
LEMMA LineMoved ==
  ASSUME NEW T, NEW c \in Seq(T), NEW b \in Seq(Waiter(T)), NEW n \in 0..Len(b),
         NEW d \in Seq(T), NEW e \in Seq(Waiter(T)), Moved(n, c, b, d, e)
  PROVE  LineOf(d, e) = LineOf(c, b)
<1>0. Laid(T, c, b) /\ Laid(T, d, e)
  BY LineShape
<1>1. /\ LineOf(c, b) \in Seq(T) /\ Len(c) \in Nat /\ Len(b) \in Nat
      /\ Len(LineOf(c, b)) = Len(c) + Len(b)
      /\ \A i \in 1..Len(c) : LineOf(c, b)[i] = c[i]
      /\ \A i \in 1..Len(b) : LineOf(c, b)[Len(c) + i] = b[i].cqe
  BY <1>0 DEF Laid
<1>2. /\ LineOf(d, e) \in Seq(T) /\ Len(LineOf(d, e)) = Len(d) + Len(e)
      /\ \A i \in 1..Len(d) : LineOf(d, e)[i] = d[i]
      /\ \A i \in 1..Len(e) : LineOf(d, e)[Len(d) + i] = e[i].cqe
  BY <1>0 DEF Laid
<1>3. Moved(n, c, b, d, e)
  OBVIOUS
<1>4. Len(LineOf(d, e)) = Len(LineOf(c, b))
  BY <1>1, <1>2, <1>3 DEF Moved
<1>5. ASSUME NEW i \in 1..(Len(c) + Len(b))
      PROVE  LineOf(d, e)[i] = LineOf(c, b)[i]
  <2>1. CASE i <= Len(c)
    BY <1>1, <1>2, <1>3, <2>1 DEF Moved
  <2>2. CASE i > Len(c) /\ i <= Len(c) + n
    <3> DEFINE k == i - Len(c)
    <3>1. k \in 1..n /\ k \in 1..Len(b) /\ i = Len(c) + k /\ i \in 1..Len(d)
      BY <1>1, <1>3, <2>2 DEF Moved
    <3> HIDE DEF k
    <3>2. LineOf(c, b)[Len(c) + k] = b[k].cqe
      BY <1>1, <3>1
    <3>3. d[Len(c) + k] = b[k].cqe
      BY <1>3, <3>1 DEF Moved
    <3>4. QED
      BY <1>2, <3>1, <3>2, <3>3
  <2>3. CASE i > Len(c) + n
    <3> DEFINE k == i - Len(d)
    <3>1. k \in 1..Len(e) /\ k \in 1..(Len(b) - n) /\ n + k \in 1..Len(b) /\ i = Len(c) + (n + k) /\ i = Len(d) + k
      BY <1>1, <1>3, <2>3 DEF Moved
    <3> HIDE DEF k
    <3>2. LineOf(c, b)[Len(c) + (n + k)] = b[n + k].cqe
      BY <1>1, <3>1
    <3>3. LineOf(d, e)[Len(d) + k] = e[k].cqe
      BY <1>2, <3>1
    <3>4. e[k] = b[n + k]
      BY <1>3, <3>1 DEF Moved
    <3>5. QED
      BY <3>1, <3>2, <3>3, <3>4
  <2>4. QED
    BY <1>1, <1>3, <2>1, <2>2, <2>3 DEF Moved
<1>6. QED
  BY <1>1, <1>2, <1>4, <1>5, SeqEqual

(***************************************************************************)
(* slip_backlog_drain_locked, in the words of the line: CQ and backlog     *)
(* keep their entries, the line is the same, and the ops that left the     *)
(* backlog are free.                                                       *)
(***************************************************************************)
LEMMA DrainedShape ==
  ASSUME NEW T, cq \in Seq(T), backlog \in Seq(Waiter(T)), Len(cq) <= CqEntries,
         \A i, j \in DOMAIN backlog : backlog[i].op = backlog[j].op => i = j
  PROVE  /\ Drained.cq \in Seq(T) /\ Len(Drained.cq) <= CqEntries
         /\ Drained.backlog \in Seq(Waiter(T))
         /\ Len(Drained.cq) < CqEntries => Drained.backlog = <<>>
         /\ LineOf(Drained.cq, Drained.backlog) = LineOf(cq, backlog)
         /\ OpsOf(Drained.backlog) \subseteq OpsOf(backlog)
         /\ Drained.free = free \cup (OpsOf(backlog) \ OpsOf(Drained.backlog))
         /\ \A i, j \in DOMAIN Drained.backlog :
              Drained.backlog[i].op = Drained.backlog[j].op => i = j
<1> DEFINE room == CqEntries - Len(cq)
           n == Min({Len(backlog), room})
           m == [i \in 1..n |-> backlog[i].cqe]
           b == SubSeq(backlog, n + 1, Len(backlog))
<1>1. Len(cq) \in Nat /\ Len(backlog) \in Nat /\ CqEntries \in Nat /\ room \in Nat
      /\ DOMAIN backlog = 1..Len(backlog)
  BY LenProperties, RingAssumption
<1>2. Drained.cq = cq \o m /\ Drained.backlog = b /\ Drained.free = free \cup {backlog[i].op : i \in 1..n}
  BY DEF Drained
<1>3. n = IF Len(backlog) <= room THEN Len(backlog) ELSE room
  BY <1>1, MinOfTwo
<1> HIDE DEF n
<1>4. n \in 0..Len(backlog) /\ n <= room
  BY <1>1, <1>3
<1>5. m \in Seq(T) /\ Len(m) = n /\ \A i \in 1..n : m[i] = backlog[i].cqe
  BY <1>4, MappedShape
<1>6. /\ b \in Seq(Waiter(T)) /\ Len(b) = Len(backlog) - n
      /\ \A i \in 1..(Len(backlog) - n) : b[i] = backlog[n + i]
  BY <1>4, SuffixShape
<1> HIDE DEF m, b
<1>7. /\ cq \o m \in Seq(T) /\ Len(cq \o m) = Len(cq) + n
      /\ \A i \in 1..(Len(cq) + n) : (cq \o m)[i] = IF i <= Len(cq) THEN cq[i] ELSE m[i - Len(cq)]
  BY <1>5, ConcatProperties
<1>8. DOMAIN b = 1..(Len(backlog) - n)
  BY <1>6, LenProperties
<1>9. Len(cq \o m) <= CqEntries
  BY <1>1, <1>4, <1>7
<1>10. Len(cq \o m) < CqEntries => b = <<>>
  <2>1. Len(cq) + n < CqEntries => Len(backlog) - n = 0
    BY <1>1, <1>3
  <2>2. QED
    BY <1>6, <1>7, <2>1, EmptySeq
<1>11. LineOf(cq \o m, b) = LineOf(cq, backlog)
  <2>1. \A i \in 1..Len(cq) : (cq \o m)[i] = cq[i]
    BY <1>1, <1>4, <1>7
  <2>2. \A i \in 1..n : (cq \o m)[Len(cq) + i] = backlog[i].cqe
    <3> SUFFICES ASSUME NEW i \in 1..n PROVE (cq \o m)[Len(cq) + i] = backlog[i].cqe
      OBVIOUS
    <3>1. Len(cq) + i \in 1..(Len(cq) + n) /\ ~(Len(cq) + i <= Len(cq)) /\ (Len(cq) + i) - Len(cq) = i
      BY <1>1, <1>4
    <3>2. QED
      BY <1>5, <1>7, <3>1
  <2>3. Moved(n, cq, backlog, cq \o m, b)
    BY <1>4, <1>6, <1>7, <2>1, <2>2 DEF Moved
  <2>4. QED
    BY <1>4, <1>6, <1>7, <2>3, LineMoved
<1>12. \A i \in DOMAIN b : n + i \in DOMAIN backlog /\ b[i] = backlog[n + i] /\ n + i > n
  BY <1>1, <1>4, <1>6, <1>8
<1>13. OpsOf(b) \subseteq OpsOf(backlog)
  BY <1>12 DEF OpsOf
<1>14. {backlog[i].op : i \in 1..n} = OpsOf(backlog) \ OpsOf(b)
  <2>1. \A i \in 1..n : i \in DOMAIN backlog /\ \A j \in DOMAIN b : i # n + j
    BY <1>1, <1>4, <1>12
  <2>2. \A i \in 1..n : backlog[i].op \notin OpsOf(b)
    BY <1>12, <2>1 DEF OpsOf
  <2>3. ASSUME NEW i \in DOMAIN backlog, backlog[i].op \notin OpsOf(b) PROVE i \in 1..n
    <3> SUFFICES ASSUME i > n PROVE FALSE
      BY <1>1, <1>4
    <3>1. i - n \in DOMAIN b /\ n + (i - n) = i
      BY <1>1, <1>4, <1>8
    <3>2. b[i - n] = backlog[i]
      BY <1>12, <3>1
    <3>3. QED
      BY <2>3, <3>1, <3>2 DEF OpsOf
  <2>4. QED
    BY <2>1, <2>2, <2>3 DEF OpsOf
<1>15. ASSUME NEW i \in DOMAIN b, NEW j \in DOMAIN b, b[i].op = b[j].op
       PROVE  i = j
  <2>1. n + i = n + j
    BY <1>12, <1>15
  <2>2. QED
    BY <1>4, <1>8, <2>1
<1>16. QED
  BY <1>2, <1>6, <1>7, <1>9, <1>10, <1>11, <1>13, <1>14, <1>15

-----------------------------------------------------------------------------
\* A CQE of a request of the script.
RealCqe == [id : 1..Len(script), last : BOOLEAN]

(***************************************************************************)
(* The pool's ops are the free ones and those held up in the backlog, and  *)
(* none is both or twice in the backlog.                                   *)
(***************************************************************************)
PoolOK ==
  /\ cq \in Seq(RealCqe) /\ Len(cq) <= CqEntries
  /\ backlog \in Seq(Waiter(RealCqe))
  /\ \A i, j \in DOMAIN backlog : backlog[i].op = backlog[j].op => i = j
  /\ free \subseteq Op /\ free \cap OpsOf(backlog) = {}

Pool == free \cup OpsOf(backlog)
Line == LineOf(cq, backlog)

DrainOK(d) ==
  /\ d.cq \in Seq(RealCqe) /\ Len(d.cq) <= CqEntries
  /\ d.backlog \in Seq(Waiter(RealCqe))
  /\ Len(d.cq) < CqEntries => d.backlog = <<>>
  /\ \A i, j \in DOMAIN d.backlog : d.backlog[i].op = d.backlog[j].op => i = j
  /\ d.free \subseteq Op /\ d.free \cap OpsOf(d.backlog) = {}
  /\ d.free \cup OpsOf(d.backlog) = Pool
  /\ LineOf(d.cq, d.backlog) = Line

(***************************************************************************)
(* Every lock section of the engine drains first, and that is sound.       *)
(***************************************************************************)
LEMMA DrainPool ==
  ASSUME PoolOK
  PROVE  DrainOK(Drained)
<1> DEFINE d == Drained
<1>1. /\ cq \in Seq(RealCqe) /\ Len(cq) <= CqEntries /\ backlog \in Seq(Waiter(RealCqe))
      /\ \A i, j \in DOMAIN backlog : backlog[i].op = backlog[j].op => i = j
  BY DEF PoolOK
<1>2. /\ d.cq \in Seq(RealCqe) /\ Len(d.cq) <= CqEntries
      /\ d.backlog \in Seq(Waiter(RealCqe))
      /\ Len(d.cq) < CqEntries => d.backlog = <<>>
      /\ LineOf(d.cq, d.backlog) = LineOf(cq, backlog)
      /\ OpsOf(d.backlog) \subseteq OpsOf(backlog)
      /\ d.free = free \cup (OpsOf(backlog) \ OpsOf(d.backlog))
      /\ \A i, j \in DOMAIN d.backlog : d.backlog[i].op = d.backlog[j].op => i = j
  BY <1>1, DrainedShape
<1>3. OpsOf(backlog) \subseteq Op
  <2>1. \A i \in DOMAIN backlog : backlog[i] \in Waiter(RealCqe)
    BY <1>1, ElementOfSeq, LenProperties
  <2>2. QED
    BY <2>1 DEF OpsOf, Waiter
<1> HIDE DEF d
<1>4. d.free \subseteq Op /\ d.free \cap OpsOf(d.backlog) = {} /\ d.free \cup OpsOf(d.backlog) = Pool
  BY <1>2, <1>3 DEF PoolOK, Pool
<1>5. DrainOK(d)
  BY <1>2, <1>4 DEF DrainOK, Line
<1>6. QED
  BY <1>5 DEF d

(***************************************************************************)
(* One more CQE, in the CQ behind all or in the backlog behind all.        *)
(***************************************************************************)
LEMMA LineLonger ==
  ASSUME NEW T, NEW c \in Seq(T), NEW e \in T
  PROVE  LineOf(Append(c, e), <<>>) = Append(LineOf(c, <<>>), e)
  BY DEF LineOf

LEMMA LineWaits ==
  ASSUME NEW T, NEW c \in Seq(T), NEW b \in Seq(Waiter(T)), NEW w \in Waiter(T)
  PROVE  LineOf(c, Append(b, w)) = Append(LineOf(c, b), w.cqe)
<1>1. Append(b, w) \in Seq(Waiter(T)) /\ Len(Append(b, w)) = Len(b) + 1 /\ Len(b) \in Nat /\ Len(c) \in Nat
      /\ \A i \in 1..Len(b) : Append(b, w)[i] = b[i]
      /\ Append(b, w)[Len(b) + 1] = w
  BY AppendShape
<1>2. Laid(T, c, b) /\ Laid(T, c, Append(b, w))
  BY <1>1, LineShape
<1>3. /\ LineOf(c, b) \in Seq(T) /\ Len(LineOf(c, b)) = Len(c) + Len(b)
      /\ \A i \in 1..Len(c) : LineOf(c, b)[i] = c[i]
      /\ \A i \in 1..Len(b) : LineOf(c, b)[Len(c) + i] = b[i].cqe
  BY <1>2 DEF Laid
<1>4. w.cqe \in T
  BY DEF Waiter
<1>5. /\ Append(LineOf(c, b), w.cqe) \in Seq(T)
      /\ Len(Append(LineOf(c, b), w.cqe)) = Len(c) + Len(b) + 1
      /\ \A i \in 1..(Len(c) + Len(b)) : Append(LineOf(c, b), w.cqe)[i] = LineOf(c, b)[i]
      /\ Append(LineOf(c, b), w.cqe)[Len(c) + Len(b) + 1] = w.cqe
  BY <1>3, <1>4, AppendShape
<1>6. /\ LineOf(c, Append(b, w)) \in Seq(T) /\ Len(LineOf(c, Append(b, w))) = Len(c) + Len(b) + 1
      /\ \A i \in 1..Len(c) : LineOf(c, Append(b, w))[i] = c[i]
      /\ \A i \in 1..(Len(b) + 1) : LineOf(c, Append(b, w))[Len(c) + i] = Append(b, w)[i].cqe
  BY <1>1, <1>2 DEF Laid
<1>7. ASSUME NEW i \in 1..(Len(c) + Len(b) + 1)
      PROVE  LineOf(c, Append(b, w))[i] = Append(LineOf(c, b), w.cqe)[i]
  <2>1. CASE i <= Len(c)
    BY <1>1, <1>3, <1>5, <1>6, <2>1
  <2>2. CASE i > Len(c)
    <3> DEFINE k == i - Len(c)
    <3>1. k \in 1..(Len(b) + 1) /\ i = Len(c) + k
      BY <1>1, <2>2
    <3> HIDE DEF k
    <3>2. LineOf(c, Append(b, w))[Len(c) + k] = Append(b, w)[k].cqe
      BY <1>6, <3>1
    <3>3. CASE k = Len(b) + 1
      BY <1>1, <1>5, <3>1, <3>2, <3>3
    <3>4. CASE k # Len(b) + 1
      <4>1. k \in 1..Len(b) /\ i \in 1..(Len(c) + Len(b))
        BY <1>1, <3>1, <3>4
      <4>2. LineOf(c, b)[Len(c) + k] = b[k].cqe
        BY <1>3, <4>1
      <4>3. QED
        BY <1>1, <1>5, <3>1, <3>2, <4>1, <4>2
    <3>5. QED
      BY <3>3, <3>4
  <2>3. i <= Len(c) \/ i > Len(c)
    BY <1>1
  <2>4. QED
    BY <2>1, <2>2, <2>3
<1>8. QED
  BY <1>5, <1>6, <1>7, SeqEqual

PoolGets(o) == PoolOK' /\ Pool' = Pool \cup {o}

PoolKeeps == PoolOK' /\ Pool' = Pool

Final(o) == [id |-> ud[o], last |-> TRUE]

(***************************************************************************)
(* One more op that waits in the backlog.                                  *)
(***************************************************************************)
LEMMA WaiterAdded ==
  ASSUME NEW T, NEW b \in Seq(Waiter(T)), NEW w \in Waiter(T), w.op \notin OpsOf(b),
         \A i, j \in DOMAIN b : b[i].op = b[j].op => i = j
  PROVE  /\ Append(b, w) \in Seq(Waiter(T))
         /\ OpsOf(Append(b, w)) = OpsOf(b) \cup {w.op}
         /\ \A i, j \in DOMAIN Append(b, w) : Append(b, w)[i].op = Append(b, w)[j].op => i = j
<1>1. /\ Append(b, w) \in Seq(Waiter(T)) /\ Len(b) \in Nat
      /\ DOMAIN b = 1..Len(b) /\ DOMAIN Append(b, w) = 1..(Len(b) + 1)
      /\ \A i \in 1..Len(b) : Append(b, w)[i] = b[i]
      /\ Append(b, w)[Len(b) + 1] = w
  BY AppendShape
<1>2. \A i \in DOMAIN Append(b, w) : i \in DOMAIN b \/ i = Len(b) + 1
  BY <1>1
<1>3. DOMAIN b \subseteq DOMAIN Append(b, w) /\ Len(b) + 1 \in DOMAIN Append(b, w)
  BY <1>1
<1>4. QED
  BY <1>1, <1>2, <1>3 DEF OpsOf

(***************************************************************************)
(* slip_engine_post: the op is in the pool afterwards, and its CQE is the  *)
(* last of the line unless a success was to be skipped.                    *)
(***************************************************************************)
LEMMA PostPool ==
  ASSUME PoolOK, NEW o \in Op, o \notin Pool, ud[o] \in 1..Len(script), NEW res, Post(o, res),
         script' = script
  PROVE  /\ PoolGets(o)
         /\ Line' = IF res = "ok" /\ SqeOf(o).skip THEN Line ELSE Append(Line, Final(o))
         /\ result' = [result EXCEPT ![ud[o]] = IF res = "ok" /\ SqeOf(o).skip THEN "silent" ELSE res]
<1> DEFINE d == Drained
           silent == res = "ok" /\ SqeOf(o).skip
           room == Len(d.cq) < CqEntries
<1>1. DrainOK(d)
  BY DrainPool
<1>2. /\ cq' = IF ~silent /\ room THEN Append(d.cq, Final(o)) ELSE d.cq
      /\ backlog' = IF silent \/ room THEN d.backlog ELSE Append(d.backlog, [op |-> o, cqe |-> Final(o)])
      /\ free' = IF silent \/ room THEN d.free \cup {o} ELSE d.free
      /\ result' = [result EXCEPT ![ud[o]] = IF silent THEN "silent" ELSE res]
  BY DEF Post, Final
<1>3. Final(o) \in RealCqe /\ [op |-> o, cqe |-> Final(o)] \in Waiter(RealCqe) /\ RealCqe' = RealCqe
  BY DEF Final, RealCqe, Waiter
<1>4. CqEntries \in Nat
  BY RingAssumption
<1> HIDE DEF d, silent, room
<1>5. CASE silent
  <2>1. cq' = d.cq /\ backlog' = d.backlog /\ free' = d.free \cup {o}
    BY <1>2, <1>5
  <2>2. PoolGets(o)
    BY <1>1, <1>3, <2>1 DEF DrainOK, PoolGets, PoolOK, Pool
  <2>3. Line' = Line
    BY <1>1, <2>1 DEF DrainOK, Line
  <2>4. QED
    BY <1>2, <1>5, <2>2, <2>3 DEF silent
<1>6. CASE ~silent /\ room
  <2>1. cq' = Append(d.cq, Final(o)) /\ backlog' = d.backlog /\ free' = d.free \cup {o}
    BY <1>2, <1>6
  <2>2. d.cq \in Seq(RealCqe) /\ d.backlog = <<>>
    BY <1>1, <1>6 DEF DrainOK, room
  <2>3. cq' \in Seq(RealCqe) /\ Len(cq') <= CqEntries
    BY <1>3, <1>4, <1>6, <2>1, <2>2, AppendShape DEF room
  <2>4. PoolGets(o)
    BY <1>1, <1>3, <2>1, <2>3 DEF DrainOK, PoolGets, PoolOK, Pool
  <2>5. Line' = Append(Line, Final(o))
    <3>1. LineOf(Append(d.cq, Final(o)), <<>>) = Append(LineOf(d.cq, <<>>), Final(o))
      BY <1>3, <2>2, LineLonger
    <3>2. QED
      BY <1>1, <2>1, <2>2, <3>1 DEF DrainOK, Line
  <2>6. QED
    BY <1>2, <1>6, <2>4, <2>5 DEF silent
<1>7. CASE ~silent /\ ~room
  <2> DEFINE w == [op |-> o, cqe |-> Final(o)]
  <2>1. cq' = d.cq /\ backlog' = Append(d.backlog, w) /\ free' = d.free
    BY <1>2, <1>7
  <2>2. w \in Waiter(RealCqe) /\ w.op = o /\ w.cqe = Final(o)
    BY <1>3
  <2> HIDE DEF w
  <2>3. d.backlog \in Seq(Waiter(RealCqe)) /\ d.cq \in Seq(RealCqe)
    BY <1>1 DEF DrainOK
  <2>4. o \notin OpsOf(d.backlog) /\ o \notin d.free
    BY <1>1 DEF DrainOK
  <2>5. /\ backlog' \in Seq(Waiter(RealCqe)) /\ OpsOf(backlog') = OpsOf(d.backlog) \cup {o}
        /\ \A i, j \in DOMAIN backlog' : backlog'[i].op = backlog'[j].op => i = j
    <3>1. \A i, j \in DOMAIN d.backlog : d.backlog[i].op = d.backlog[j].op => i = j
      BY <1>1 DEF DrainOK
    <3>2. QED
      BY <2>1, <2>2, <2>3, <2>4, <3>1, WaiterAdded
  <2>6. PoolGets(o)
    BY <1>1, <1>3, <2>1, <2>4, <2>5 DEF DrainOK, PoolGets, PoolOK, Pool
  <2>7. Line' = Append(Line, Final(o))
    <3>1. LineOf(d.cq, Append(d.backlog, w)) = Append(LineOf(d.cq, d.backlog), w.cqe)
      BY <2>2, <2>3, LineWaits
    <3>2. QED
      BY <1>1, <2>1, <2>2, <3>1 DEF DrainOK, Line
  <2>8. QED
    BY <1>2, <1>7, <2>6, <2>7 DEF silent
<1>8. QED
  BY <1>5, <1>6, <1>7

(***************************************************************************)
(* slip_engine_emit: no op is gained or lost, whether the emission found   *)
(* room, rode a carrier, or was dropped for want of one.                   *)
(***************************************************************************)
LEMMA EmitPool ==
  ASSUME PoolOK, NEW i \in 1..Len(script), Emit(i), script' = script
  PROVE  /\ PoolKeeps /\ result' = result
         /\ Line' = Line \/ Line' = Append(Line, [id |-> i, last |-> FALSE])
<1> DEFINE d == Drained
           cqe == [id |-> i, last |-> FALSE]
           room == Len(d.cq) < CqEntries
<1>1. DrainOK(d)
  BY DrainPool
<1>2. /\ cq' = IF room THEN Append(d.cq, cqe) ELSE d.cq
      /\ \/ (room \/ d.free = {}) /\ backlog' = d.backlog /\ free' = d.free
         \/ ~room /\ \E o \in d.free : /\ backlog' = Append(d.backlog, [op |-> o, cqe |-> cqe])
                                       /\ free' = d.free \ {o}
      /\ result' = result
  BY DEF Emit
<1>3. cqe \in RealCqe /\ RealCqe' = RealCqe
  BY DEF RealCqe
<1>4. CqEntries \in Nat
  BY RingAssumption
<1> HIDE DEF d, cqe, room
<1>5. CASE room
  <2>1. cq' = Append(d.cq, cqe) /\ backlog' = d.backlog /\ free' = d.free
    BY <1>2, <1>5
  <2>2. d.cq \in Seq(RealCqe) /\ d.backlog = <<>>
    BY <1>1, <1>5 DEF DrainOK, room
  <2>3. cq' \in Seq(RealCqe) /\ Len(cq') <= CqEntries
    BY <1>3, <1>4, <1>5, <2>1, <2>2, AppendShape DEF room
  <2>4. PoolKeeps
    BY <1>1, <1>3, <2>1, <2>3 DEF DrainOK, PoolKeeps, PoolOK, Pool
  <2>5. Line' = Append(Line, cqe)
    <3>1. LineOf(Append(d.cq, cqe), <<>>) = Append(LineOf(d.cq, <<>>), cqe)
      BY <1>3, <2>2, LineLonger
    <3>2. QED
      BY <1>1, <2>1, <2>2, <3>1 DEF DrainOK, Line
  <2>6. QED
    BY <1>2, <2>4, <2>5 DEF cqe
<1>6. CASE ~room /\ d.free = {} /\ backlog' = d.backlog /\ free' = d.free
  <2>1. cq' = d.cq
    BY <1>2, <1>6
  <2>2. PoolKeeps
    BY <1>1, <1>3, <1>6, <2>1 DEF DrainOK, PoolKeeps, PoolOK, Pool
  <2>3. Line' = Line
    BY <1>1, <1>6, <2>1 DEF DrainOK, Line
  <2>4. QED
    BY <1>2, <2>2, <2>3
<1>7. ASSUME NEW o \in d.free, ~room, backlog' = Append(d.backlog, [op |-> o, cqe |-> cqe]),
             free' = d.free \ {o}
      PROVE  PoolKeeps /\ Line' = Append(Line, cqe)
  <2> DEFINE w == [op |-> o, cqe |-> cqe]
  <2>1. cq' = d.cq /\ backlog' = Append(d.backlog, w)
    BY <1>2, <1>7
  <2>2. w \in Waiter(RealCqe) /\ w.op = o /\ w.cqe = cqe /\ o \in Op
    BY <1>1, <1>3 DEF Waiter, DrainOK
  <2> HIDE DEF w
  <2>3. d.backlog \in Seq(Waiter(RealCqe)) /\ d.cq \in Seq(RealCqe)
    BY <1>1 DEF DrainOK
  <2>4. o \notin OpsOf(d.backlog)
    BY <1>1 DEF DrainOK
  <2>5. /\ backlog' \in Seq(Waiter(RealCqe)) /\ OpsOf(backlog') = OpsOf(d.backlog) \cup {o}
        /\ \A k, j \in DOMAIN backlog' : backlog'[k].op = backlog'[j].op => k = j
    <3>1. \A k, j \in DOMAIN d.backlog : d.backlog[k].op = d.backlog[j].op => k = j
      BY <1>1 DEF DrainOK
    <3>2. w.op \notin OpsOf(d.backlog)
      BY <2>2, <2>4
    <3>3. /\ Append(d.backlog, w) \in Seq(Waiter(RealCqe))
          /\ OpsOf(Append(d.backlog, w)) = OpsOf(d.backlog) \cup {w.op}
          /\ \A k, j \in DOMAIN Append(d.backlog, w) :
               Append(d.backlog, w)[k].op = Append(d.backlog, w)[j].op => k = j
      BY <2>2, <2>3, <3>1, <3>2, WaiterAdded
    <3>4. QED
      BY <2>1, <2>2, <3>3
  <2>6. PoolKeeps
    BY <1>1, <1>3, <1>7, <2>1, <2>4, <2>5 DEF DrainOK, PoolKeeps, PoolOK, Pool
  <2>7. Line' = Append(Line, cqe)
    <3>1. LineOf(d.cq, Append(d.backlog, w)) = Append(LineOf(d.cq, d.backlog), w.cqe)
      BY <2>2, <2>3, LineWaits
    <3>2. QED
      BY <1>1, <2>1, <2>2, <3>1 DEF DrainOK, Line
  <2>8. QED
    BY <2>6, <2>7
<1>8. QED
  BY <1>2, <1>5, <1>6, <1>7 DEF cqe

-----------------------------------------------------------------------------
InQueue == ToSet(queue)
AtDoor == ToSet(wq)

\* TypeOK, cut into what the actions tell apart.
SqTypes ==
  /\ script \in Seq(Sqe)
  /\ taken \in 0..Len(script)
  /\ ud \in [Op -> 0..Len(script)]
  /\ began \subseteq 1..Len(script)
  /\ result \in [DOMAIN script -> Ended \cup {"none", "silent", "quiet"}]
  /\ seen \subseteq 1..Len(script)

HomeTypes ==
  /\ queue \in Seq(Op) /\ wq \in Seq(Op)
  /\ waiting \subseteq Op /\ fired \subseteq waiting /\ ready \subseteq waiting
  /\ done \in Seq([op : Op, res : {"ok", "err"}])
  /\ cur \in Op \cup {None} /\ wop \in Op \cup {None}
  /\ blocking \in Op \cup {None} /\ blockedDone \in Op \cup {None}

FlagTypes ==
  /\ chain \in {"holds", "cancels", "quiet"}
  /\ pc \in {"out", "take", "settle", "check", "wait", "retry", "try", "complete",
             "run", "exec", "stall", "cancel", "post"}
  /\ curres \in Ended
  /\ count \in Nat
  /\ live \in BOOLEAN
  /\ wpc \in {"idle", "run", "ticket", "post", "poke"}
  /\ wres \in {"ok", "err"}
  /\ blockedFailed \in {"holds", "cancels", "quiet"}
  /\ poked \in BOOLEAN
  /\ emits \in 0..MaxEmits
  /\ spurious \in 0..MaxSpurious

CallTypes ==
  call \in [left : Nat, min : Nat, deadline : BOOLEAN, took : BOOLEAN, waited : BOOLEAN]

Types == SqTypes /\ HomeTypes /\ FlagTypes /\ CallTypes

\* No op is twice in a queue.
Lists ==
  /\ \A i, j \in DOMAIN queue : queue[i] = queue[j] => i = j
  /\ \A i, j \in DOMAIN wq : wq[i] = wq[j] => i = j
  /\ \A i, j \in DOMAIN done : done[i].op = done[j].op => i = j

\* Where a thread is says whether it holds an op, and that nothing blocks the queue it runs.
Control ==
  /\ (cur # None) <=> (pc \in {"exec", "stall", "cancel", "post", "try"})
  /\ (wop # None) <=> (wpc \in {"run", "ticket", "post"})
  /\ (pc \in {"exec", "stall", "cancel", "post"}) => blocking = None
  /\ (pc \notin {"retry", "try"}) => ready = {}
  /\ (wpc = "ticket") => Linked(wop)

\* The ops in flight, and that each is at one place and none is in the pool.
Active == InQueue \cup waiting \cup InHand \cup DoneOps \cup AtDoor \cup AtWorker

Apart ==
  /\ Op = Pool \cup Active
  /\ Pool \cap Active = {}
  /\ InQueue \cap (waiting \cup InHand \cup DoneOps \cup AtDoor \cup AtWorker) = {}
  /\ waiting \cap (InHand \cup DoneOps \cup AtDoor \cup AtWorker) = {}
  /\ InHand \cap (DoneOps \cup AtDoor \cup AtWorker) = {}
  /\ DoneOps \cap (AtDoor \cup AtWorker) = {}
  /\ AtDoor \cap AtWorker = {}

\* Ops in flight carry different requests, taken and not yet answered.
Numbered ==
  /\ \A o \in Active : ud[o] \in 1..taken /\ result[ud[o]] = "none"
  /\ \A o, p \in Active : ud[o] = ud[p] => o = p
  /\ \A i \in DOMAIN script : i > taken => result[i] = "none"

\* What the queue waits for, or will once process_queue has noted it.
Awaited == IF pc = "stall" THEN cur ELSE blocking

Retried == IF pc = "try" THEN {cur} ELSE {}

\* Ops whose end is still to come from the OS or the worker.
Pending == waiting \cup AtDoor \cup Running \cup DoneOps \cup Retried

\* A linked op that is pending is the one awaited; a ticket that is up names it, and then
\* it is pending no more; without a ticket it is pending.
StallInv ==
  /\ \A o \in Pending : Linked(o) => o = Awaited
  /\ blockedDone # None => blockedDone = Awaited /\ Awaited \notin Pending
  /\ blockedDone = None /\ Awaited # None => Awaited \in Pending /\ Linked(Awaited)
  /\ blockedDone = None => blockedFailed = "holds"

IInv == Types /\ PoolOK /\ Lists /\ Control /\ Apart /\ Numbered /\ StallInv

-----------------------------------------------------------------------------
USE DEF sqVars, parkVars, chainVars, engineVars, ticketVars, workerVars, postVars, boundVars

\* Queues of different ops: one comes, the head goes, a named one goes.
LEMMA QueueGets ==
  ASSUME NEW s \in Seq(Op), NEW o \in Op \ ToSet(s), \A i, j \in DOMAIN s : s[i] = s[j] => i = j
  PROVE  /\ Append(s, o) \in Seq(Op) /\ ToSet(Append(s, o)) = ToSet(s) \cup {o}
         /\ \A i, j \in DOMAIN Append(s, o) : Append(s, o)[i] = Append(s, o)[j] => i = j
<1>1. o \notin {s[i] : i \in DOMAIN s}
  BY DEF ToSet
<1>2. Append(s, o) \in Seq(Op)
  BY AppendShape
<1>3. /\ {Append(s, o)[i] : i \in DOMAIN Append(s, o)} = {s[i] : i \in DOMAIN s} \cup {o}
      /\ \A i, j \in DOMAIN Append(s, o) : Append(s, o)[i] = Append(s, o)[j] => i = j
  BY <1>1, AppendDistinct
<1>4. QED
  BY <1>2, <1>3 DEF ToSet

LEMMA QueueLoses ==
  ASSUME NEW s \in Seq(Op), s # <<>>, \A i, j \in DOMAIN s : s[i] = s[j] => i = j
  PROVE  /\ Head(s) \in ToSet(s) /\ Head(s) \in Op /\ Tail(s) \in Seq(Op)
         /\ ToSet(Tail(s)) = ToSet(s) \ {Head(s)}
         /\ \A i, j \in DOMAIN Tail(s) : Tail(s)[i] = Tail(s)[j] => i = j
<1>1. Tail(s) \in Seq(Op) /\ Head(s) \in Op
  BY TailShape
<1>2. /\ Head(s) \in {s[i] : i \in DOMAIN s}
      /\ {Tail(s)[i] : i \in DOMAIN Tail(s)} = {s[i] : i \in DOMAIN s} \ {Head(s)}
      /\ \A i, j \in DOMAIN Tail(s) : Tail(s)[i] = Tail(s)[j] => i = j
  BY TailDistinct
<1>3. QED
  BY <1>1, <1>2 DEF ToSet

LEMMA QueueRemoves ==
  ASSUME NEW s \in Seq(Op), FirstNamed(s) # 0, \A i, j \in DOMAIN s : s[i] = s[j] => i = j
  PROVE  LET n == FirstNamed(s) IN
         /\ s[n] \in ToSet(s) /\ s[n] \in Op /\ RemoveAt(s, n) \in Seq(Op)
         /\ ToSet(RemoveAt(s, n)) = ToSet(s) \ {s[n]}
         /\ \A i, j \in DOMAIN RemoveAt(s, n) : RemoveAt(s, n)[i] = RemoveAt(s, n)[j] => i = j
<1> DEFINE n == FirstNamed(s)
           I == {i \in 1..Len(s) : Named(s[i])}
<1>1. n \in 1..Len(s)
  <2>1. n = IF I # {} THEN Min(I) ELSE 0
    BY DEF FirstNamed, SelectInSeq
  <2>2. I # {}
    BY <2>1
  <2>3. \A i \in I : i \in Nat
    BY LenProperties
  <2>4. Min(I) \in I
    <3>1. \E x \in I : \A y \in I : x <= y
      BY <2>2, <2>3, LeastIn
    <3>2. QED
      BY <3>1 DEF Min
  <2>5. QED
    BY <2>1, <2>2, <2>4
<1> HIDE DEF n
<1>2. RemoveAt(s, n) \in Seq(Op) /\ s[n] \in Op
  BY <1>1, RemoveShape, ElementOfSeq
<1>3. /\ s[n] \in {s[i] : i \in DOMAIN s}
      /\ {RemoveAt(s, n)[i] : i \in DOMAIN RemoveAt(s, n)} = {s[i] : i \in DOMAIN s} \ {s[n]}
      /\ \A i, j \in DOMAIN RemoveAt(s, n) : RemoveAt(s, n)[i] = RemoveAt(s, n)[j] => i = j
  BY <1>1, RemoveDistinct
<1>4. QED
  BY <1>2, <1>3 DEF ToSet, n

-----------------------------------------------------------------------------
LEMMA InitIInv == Init => IInv
<1> SUFFICES ASSUME Init PROVE IInv
  OBVIOUS
<1> USE RingAssumption DEF Init
<1>1. script \in Seq(Sqe) /\ Len(script) \in Nat /\ DOMAIN script = 1..Len(script)
  BY LenProperties
<1>2. Types
  <2>1. SqTypes
    BY <1>1 DEF SqTypes
  <2>2. HomeTypes
    BY DEF HomeTypes
  <2>3. FlagTypes
    <3>1. 0 \in 0..MaxEmits /\ 0 \in 0..MaxSpurious
      BY RingAssumption
    <3>2. QED
      BY <3>1, Zenon DEF FlagTypes, Ended
  <2>4. CallTypes
    BY DEF CallTypes, NoCall
  <2>5. QED
    BY <2>1, <2>2, <2>3, <2>4 DEF Types
<1>3. PoolOK
  BY DEF PoolOK, OpsOf
<1>4. Lists
  BY DEF Lists
<1>5. Control
  BY DEF Control
<1>6. Active = {} /\ Pool = Op
  BY DEF Active, InQueue, AtDoor, InHand, DoneOps, AtWorker, Pool, OpsOf, ToSet
<1>7. Apart
  BY <1>6 DEF Apart, Active
<1>8. Numbered
  BY <1>1, <1>6 DEF Numbered
<1>9. StallInv
  BY DEF StallInv, Pending, Awaited, AtDoor, DoneOps, Running, Retried, ToSet
<1>10. QED
  BY <1>2, <1>3, <1>4, <1>5, <1>7, <1>8, <1>9 DEF IInv

-----------------------------------------------------------------------------
\* Steps that move no op and answer nothing.
Still ==
  /\ UNCHANGED <<script, taken, ud, queue, waiting, done, wq, wop, result>>
  /\ InHand' = InHand
  /\ PoolKeeps

LEMMA StillKeeps ==
  ASSUME IInv, Still
  PROVE  PoolOK' /\ Lists' /\ Apart' /\ Numbered'
<1>1. PoolOK' /\ Pool' = Pool
  BY DEF Still, PoolKeeps
<1>2. Lists'
  BY DEF IInv, Still, Lists
<1>3. /\ InQueue' = InQueue /\ waiting' = waiting /\ InHand' = InHand /\ DoneOps' = DoneOps
      /\ AtDoor' = AtDoor /\ AtWorker' = AtWorker
  BY DEF Still, InQueue, DoneOps, AtDoor, AtWorker
<1>4. Active' = Active
  BY <1>3 DEF Active
<1>5. Apart'
  BY <1>1, <1>3, <1>4 DEF IInv, Apart
<1>6. Numbered'
  BY <1>4 DEF IInv, Numbered, Still
<1>7. QED
  BY <1>1, <1>2, <1>5, <1>6

\* The stall stands as long as pending ops and the awaited one do.
LEMMA StallKept ==
  ASSUME StallInv, UNCHANGED <<script, ud, blockedDone, blockedFailed>>,
         Pending' = Pending, Awaited' = Awaited
  PROVE  StallInv'
  BY DEF StallInv, Linked, SqeOf

LEMMA PoolStands ==
  ASSUME PoolOK, UNCHANGED <<script, free, cq, backlog>>
  PROVE  PoolKeeps
  BY DEF PoolKeeps, PoolOK, Pool, RealCqe

LEMMA ACall ==
  ASSUME NEW l \in Nat, NEW m \in Nat, NEW d \in BOOLEAN, NEW t \in BOOLEAN, NEW w \in BOOLEAN
  PROVE  [left |-> l, min |-> m, deadline |-> d, took |-> t, waited |-> w]
           \in [left : Nat, min : Nat, deadline : BOOLEAN, took : BOOLEAN, waited : BOOLEAN]
  OBVIOUS

LEMMA EnterKeeps ==
  ASSUME IInv, NEW n \in 0..Len(script), NEW m \in 0..CqEntries, NEW deadline \in BOOLEAN,
         Enter(n, m, deadline)
  PROVE  IInv'
<1> USE DEF Enter
<1>1. Still
  BY PoolStands DEF IInv, Still, InHand
<1>2. Types'
  <2>1. CallTypes'
    <3>1. n \in Nat /\ m \in Nat
      BY RingAssumption, LenProperties DEF IInv, Types, SqTypes
    <3>2. call' = [NoCall EXCEPT !.left = n, !.min = m, !.deadline = deadline]
      OBVIOUS
    <3>3. call' = [left |-> n, min |-> m, deadline |-> deadline, took |-> FALSE, waited |-> FALSE]
      BY <3>2 DEF NoCall
    <3>4. [left |-> n, min |-> m, deadline |-> deadline, took |-> FALSE, waited |-> FALSE]
            \in [left : Nat, min : Nat, deadline : BOOLEAN, took : BOOLEAN, waited : BOOLEAN]
      BY <3>1, ACall
    <3>5. QED
      BY <3>3, <3>4 DEF CallTypes
  <2>2. FlagTypes'
    BY DEF IInv, Types, FlagTypes
  <2>3. QED
    BY <2>1, <2>2 DEF IInv, Types, SqTypes, HomeTypes
<1>3. Control'
  BY DEF IInv, Control, Linked, SqeOf
<1>4. Pending' = Pending /\ Awaited' = Awaited
  BY DEF Pending, Awaited, AtDoor, Running, DoneOps, Retried
<1>5. QED
  BY <1>1, <1>2, <1>3, <1>4, StillKeeps, StallKept DEF IInv

LEMMA TakeEndKeeps ==
  ASSUME IInv, TakeEnd
  PROVE  IInv'
<1>1. /\ UNCHANGED <<sqVars, queue, parkVars, chainVars, call, cur, curres, count, ticketVars,
                     workerVars, poked, postVars, boundVars, began, seen>>
      /\ pc = "take" /\ pc' \in {"run", "settle", "out"}
  BY DEF TakeEnd, AfterRun
<1>2. Still
  BY <1>1, PoolStands DEF IInv, Still, InHand
<1>3. Types'
  BY <1>1 DEF IInv, Types, SqTypes, HomeTypes, FlagTypes, CallTypes
<1>4. Control'
  BY <1>1 DEF IInv, Control, Linked, SqeOf
<1>5. Pending' = Pending /\ Awaited' = Awaited
  BY <1>1 DEF Pending, Awaited, AtDoor, Running, DoneOps, Retried
<1>6. QED
  BY <1>1, <1>2, <1>3, <1>4, <1>5, StillKeeps, StallKept DEF IInv

LEMMA ReturnKeeps ==
  ASSUME IInv, Return
  PROVE  IInv'
<1> USE DEF Return
<1>1. Still
  BY PoolStands DEF IInv, Still, InHand
<1>2. Types'
  <2>1. SqTypes' /\ HomeTypes'
    BY DEF IInv, Types, SqTypes, HomeTypes
  <2>2. FlagTypes'
    BY DEF IInv, Types, FlagTypes
  <2>3. CallTypes'
    BY DEF CallTypes, NoCall
  <2>4. QED
    BY <2>1, <2>2, <2>3 DEF Types
<1>3. Control'
  BY DEF IInv, Control, Linked, SqeOf
<1>4. Pending' = Pending /\ Awaited' = Awaited
  BY DEF Pending, Awaited, AtDoor, Running, DoneOps, Retried
<1>5. QED
  BY <1>1, <1>2, <1>3, <1>4, StillKeeps, StallKept DEF IInv

LEMMA CheckWaitKeeps ==
  ASSUME IInv, CheckWait
  PROVE  IInv'
<1> USE DEF CheckWait
<1>1. Still
  BY PoolStands DEF IInv, Still, InHand
<1>2. Types'
  BY DEF IInv, Types, SqTypes, HomeTypes, FlagTypes, CallTypes
<1>3. Control'
  BY DEF IInv, Control, Linked, SqeOf
<1>4. Pending' = Pending /\ Awaited' = Awaited
  BY DEF Pending, Awaited, AtDoor, Running, DoneOps, Retried
<1>5. QED
  BY <1>1, <1>2, <1>3, <1>4, StillKeeps, StallKept DEF IInv

LEMMA RunEndKeeps ==
  ASSUME IInv, RunEnd
  PROVE  IInv'
<1> USE DEF RunEnd, AfterRun
<1>1. Still
  BY PoolStands DEF IInv, Still, InHand
<1>2. Types'
  BY DEF IInv, Types, SqTypes, HomeTypes, FlagTypes, CallTypes
<1>3. Control'
  BY DEF IInv, Control, Linked, SqeOf
<1>4. Pending' = Pending /\ Awaited' = Awaited
  BY DEF Pending, Awaited, AtDoor, Running, DoneOps, Retried
<1>5. QED
  BY <1>1, <1>2, <1>3, <1>4, StillKeeps, StallKept DEF IInv

LEMMA RetryEndKeeps ==
  ASSUME IInv, RetryEnd
  PROVE  IInv'
<1> USE DEF RetryEnd
<1>1. Still
  BY PoolStands DEF IInv, Still, InHand
<1>2. Types'
  <2>1. SqTypes' /\ HomeTypes'
    BY DEF IInv, Types, SqTypes, HomeTypes
  <2>2. FlagTypes'
    BY DEF IInv, Types, FlagTypes
  <2>3. CallTypes'
    BY DEF IInv, Types, CallTypes
  <2>4. QED
    BY <2>1, <2>2, <2>3 DEF Types
<1>3. Control'
  BY DEF IInv, Control, Linked, SqeOf
<1>4. Pending' = Pending /\ Awaited' = Awaited
  BY DEF Pending, Awaited, AtDoor, Running, DoneOps, Retried
<1>5. QED
  BY <1>1, <1>2, <1>3, <1>4, StillKeeps, StallKept DEF IInv

LEMMA CompleteEndKeeps ==
  ASSUME IInv, CompleteEnd
  PROVE  IInv'
<1> USE DEF CompleteEnd
<1>1. Still
  BY PoolStands DEF IInv, Still, InHand
<1>2. Types'
  <2>1. SqTypes' /\ HomeTypes'
    BY DEF IInv, Types, SqTypes, HomeTypes
  <2>2. FlagTypes'
    BY DEF IInv, Types, FlagTypes
  <2>3. CallTypes'
    BY DEF IInv, Types, CallTypes
  <2>4. QED
    BY <2>1, <2>2, <2>3 DEF Types
<1>3. Control'
  BY DEF IInv, Control, Linked, SqeOf
<1>4. Pending' = Pending /\ Awaited' = Awaited
  BY DEF Pending, Awaited, AtDoor, Running, DoneOps, Retried
<1>5. QED
  BY <1>1, <1>2, <1>3, <1>4, StillKeeps, StallKept DEF IInv

LEMMA ExecCancelKeeps ==
  ASSUME IInv, ExecCancel
  PROVE  IInv'
<1> USE DEF ExecCancel
<1>1. Still
  BY PoolStands DEF IInv, Still, InHand
<1>2. Types'
  BY DEF IInv, Types, SqTypes, HomeTypes, FlagTypes, CallTypes
<1>3. Control'
  BY DEF IInv, Control, Linked, SqeOf
<1>4. Pending' = Pending /\ Awaited' = Awaited
  BY DEF Pending, Awaited, AtDoor, Running, DoneOps, Retried
<1>5. QED
  BY <1>1, <1>2, <1>3, <1>4, StillKeeps, StallKept DEF IInv

LEMMA CancelEndKeeps ==
  ASSUME IInv, CancelEnd
  PROVE  IInv'
<1>0. /\ pc = "cancel" /\ pc' = "post" /\ count' = 0 /\ curres' \in {"ok", "ealready", "enoent"}
      /\ UNCHANGED <<sqVars, queue, parkVars, chainVars, call, cur, ticketVars,
                     workerVars, poked, postVars, boundVars, began, seen>>
  BY DEF CancelEnd
<1>1. Still
  BY <1>0, PoolStands DEF IInv, Still, InHand
<1>2. Types'
  BY <1>0 DEF IInv, Types, SqTypes, HomeTypes, FlagTypes, CallTypes, Ended
<1>3. Control'
  BY <1>0 DEF IInv, Control, Linked, SqeOf
<1>4. Pending' = Pending /\ Awaited' = Awaited
  BY <1>0 DEF Pending, Awaited, AtDoor, Running, DoneOps, Retried
<1>5. QED
  BY <1>0, <1>1, <1>2, <1>3, <1>4, StillKeeps, StallKept DEF IInv

LEMMA WaitReturnsKeeps ==
  ASSUME IInv, NEW S \in SUBSET fired, NEW drained \in BOOLEAN, WaitReturns(S, drained)
  PROVE  IInv'
<1> USE DEF WaitReturns
<1>1. Still
  BY PoolStands DEF IInv, Still, InHand
<1>2. Types'
  <2>1. poked' \in BOOLEAN
    BY Zenon
  <2>2. fired' \subseteq waiting' /\ ready' \subseteq waiting'
    BY DEF IInv, Types, HomeTypes
  <2>3. SqTypes' /\ CallTypes'
    BY DEF IInv, Types, SqTypes, CallTypes
  <2>4. HomeTypes'
    BY <2>2 DEF IInv, Types, HomeTypes
  <2>5. FlagTypes'
    BY <2>1 DEF IInv, Types, FlagTypes
  <2>6. QED
    BY <2>3, <2>4, <2>5 DEF Types
<1>3. Control'
  BY DEF IInv, Control, Linked, SqeOf
<1>4. Pending' = Pending /\ Awaited' = Awaited
  BY DEF Pending, Awaited, AtDoor, Running, DoneOps, Retried
<1>5. QED
  BY <1>1, <1>2, <1>3, <1>4, StillKeeps, StallKept DEF IInv

LEMMA WorkerPokeKeeps ==
  ASSUME IInv, WorkerPoke
  PROVE  IInv'
<1> USE DEF WorkerPoke
<1>1. Still
  BY PoolStands DEF IInv, Still, InHand
<1>2. Types'
  BY DEF IInv, Types, SqTypes, HomeTypes, FlagTypes, CallTypes
<1>3. Control'
  BY DEF IInv, Control, Linked, SqeOf
<1>4. Pending' = Pending /\ Awaited' = Awaited
  BY DEF Pending, Awaited, AtDoor, Running, DoneOps, Retried
<1>5. QED
  BY <1>1, <1>2, <1>3, <1>4, StillKeeps, StallKept DEF IInv

LEMMA FireKeeps ==
  ASSUME IInv, NEW o \in Op, Fire(o)
  PROVE  IInv'
<1> USE DEF Fire
<1>1. Still
  BY PoolStands DEF IInv, Still, InHand
<1>2. Types'
  <2>1. SqTypes' /\ HomeTypes'
    BY DEF IInv, Types, SqTypes, HomeTypes
  <2>2. FlagTypes'
    BY DEF IInv, Types, FlagTypes
  <2>3. CallTypes'
    BY DEF IInv, Types, CallTypes
  <2>4. QED
    BY <2>1, <2>2, <2>3 DEF Types
<1>3. Control'
  BY DEF IInv, Control, Linked, SqeOf
<1>4. Pending' = Pending /\ Awaited' = Awaited
  BY DEF Pending, Awaited, AtDoor, Running, DoneOps, Retried
<1>5. QED
  BY <1>1, <1>2, <1>3, <1>4, StillKeeps, StallKept DEF IInv

\* An op in flight is not in the pool, and its user_data is a place of the script.
LEMMA ActiveFacts ==
  ASSUME IInv, NEW o \in Active
  PROVE  o \in Op /\ o \notin Pool /\ ud[o] \in 1..Len(script) /\ ud[o] \in DOMAIN script
<1>1. taken \in 0..Len(script) /\ Len(script) \in Nat /\ DOMAIN script = 1..Len(script)
  BY LenProperties DEF IInv, Types, SqTypes
<1>2. ud[o] \in 1..taken
  BY DEF IInv, Numbered
<1>3. o \in Op /\ o \notin Pool
  BY DEF IInv, Apart
<1>4. QED
  BY <1>1, <1>2, <1>3

\* So is the one the engine has in hand.
LEMMA CurFacts ==
  ASSUME IInv, pc \in {"exec", "cancel", "post", "try"}
  PROVE  cur \in Active /\ cur \in Op /\ cur # None /\ InHand = {cur}
<1>1. cur # None
  BY DEF IInv, Control
<1>2. InHand = {cur} /\ cur \in Active
  BY DEF InHand, Active
<1>3. cur \in Op
  BY <1>1 DEF IInv, Types, HomeTypes
<1>4. QED
  BY <1>1, <1>2, <1>3

LEMMA SettleKeeps ==
  ASSUME IInv, Settle
  PROVE  IInv'
<1>0. /\ pc = "settle" /\ pc' = "check"
      /\ cq' = Drained.cq /\ backlog' = Drained.backlog /\ free' = Drained.free
      /\ UNCHANGED <<sqVars, queue, parkVars, call, cur, curres, count, workerVars,
                     poked, result, boundVars, began, seen>>
  BY DEF Settle
<1>1. \/ /\ blockedDone # None /\ blockedDone = blocking /\ blocking' = None /\ blockedDone' = None
         /\ blockedFailed' = "holds" /\ chain' \in {chain, blockedFailed}
      \/ UNCHANGED <<chainVars, ticketVars>>
  BY DEF Settle
<1>2. PoolKeeps
  <2>1. DrainOK(Drained)
    BY DrainPool DEF IInv
  <2>2. QED
    BY <1>0, <2>1 DEF DrainOK, PoolKeeps, PoolOK, Pool, RealCqe
<1>3. Still
  BY <1>0, <1>2 DEF Still, InHand
<1>4. Types'
  <2>1. SqTypes' /\ CallTypes'
    BY <1>0 DEF IInv, Types, SqTypes, CallTypes
  <2>2. HomeTypes'
    BY <1>0, <1>1 DEF IInv, Types, HomeTypes
  <2>3. FlagTypes'
    BY <1>0, <1>1 DEF IInv, Types, FlagTypes
  <2>4. QED
    BY <2>1, <2>2, <2>3 DEF Types
<1>5. Control'
  BY <1>0, <1>1 DEF IInv, Control, Linked, SqeOf
<1>6. Pending' = Pending
  BY <1>0 DEF Pending, AtDoor, Running, DoneOps, Retried
<1>7. StallInv'
  <2>1. \A o : Linked(o)' = Linked(o)
    BY <1>0 DEF Linked, SqeOf
  <2>2. Awaited = blocking /\ Awaited' = blocking'
    BY <1>0 DEF Awaited
  <2>3. QED
    BY <1>1, <1>6, <2>1, <2>2 DEF IInv, StallInv
<1>8. QED
  BY <1>3, <1>4, <1>5, <1>7, StillKeeps DEF IInv

LEMMA EmitOneKeeps ==
  ASSUME IInv, EmitOne
  PROVE  IInv'
<1>0. /\ pc \in {"exec", "try"} /\ emits < MaxEmits /\ emits' = emits + 1 /\ Emit(ud[cur])
      /\ UNCHANGED <<sqVars, queue, parkVars, chainVars, engineVars, ticketVars,
                     workerVars, poked, spurious, began, seen>>
  BY DEF EmitOne
<1>1. PoolKeeps /\ result' = result
  <2>1. ud[cur] \in 1..Len(script)
    BY <1>0, CurFacts, ActiveFacts
  <2>2. QED
    BY <1>0, <2>1, EmitPool DEF IInv
<1>2. Still
  BY <1>0, <1>1 DEF Still, InHand
<1>3. Types'
  <2>1. emits' \in 0..MaxEmits
    BY <1>0, RingAssumption DEF IInv, Types, FlagTypes
  <2>2. QED
    BY <1>0, <1>1, <2>1 DEF IInv, Types, SqTypes, HomeTypes, FlagTypes, CallTypes
<1>4. Control'
  BY <1>0 DEF IInv, Control, Linked, SqeOf
<1>5. Pending' = Pending /\ Awaited' = Awaited
  BY <1>0 DEF Pending, Awaited, AtDoor, Running, DoneOps, Retried
<1>6. QED
  BY <1>0, <1>2, <1>3, <1>4, <1>5, StillKeeps, StallKept DEF IInv

LEMMA ExecMsgKeeps ==
  ASSUME IInv, ExecMsg
  PROVE  IInv'
<1>0. /\ pc = "exec" /\ pc' = "post" /\ curres' \in {"ok", "err"}
      /\ Emit(ud[cur]) \/ UNCHANGED postVars
      /\ UNCHANGED <<sqVars, queue, parkVars, chainVars, call, cur, count, ticketVars,
                     workerVars, poked, boundVars, began, seen>>
  BY DEF ExecMsg
<1>1. PoolKeeps /\ result' = result
  <2>1. ud[cur] \in 1..Len(script)
    BY <1>0, CurFacts, ActiveFacts
  <2>2. QED
    BY <1>0, <2>1, EmitPool, PoolStands DEF IInv
<1>2. Still
  BY <1>0, <1>1 DEF Still, InHand
<1>3. Types'
  BY <1>0, <1>1 DEF IInv, Types, SqTypes, HomeTypes, FlagTypes, CallTypes, Ended
<1>4. Control'
  BY <1>0 DEF IInv, Control, Linked, SqeOf
<1>5. Pending' = Pending /\ Awaited' = Awaited
  BY <1>0 DEF Pending, Awaited, AtDoor, Running, DoneOps, Retried
<1>6. QED
  BY <1>0, <1>2, <1>3, <1>4, <1>5, StillKeeps, StallKept DEF IInv

LEMMA ReapKeeps ==
  ASSUME IInv, Reap
  PROVE  IInv'
<1>0. /\ cq # <<>> /\ cq' = Tail(cq)
      /\ seen' = IF Head(cq).last THEN seen \cup {Head(cq).id} ELSE seen
      /\ UNCHANGED <<sqVars, queue, parkVars, chainVars, engineVars, ticketVars,
                     workerVars, poked, free, backlog, result, boundVars, began>>
  BY DEF Reap
<1>1. /\ cq \in Seq(RealCqe) /\ Tail(cq) \in Seq(RealCqe) /\ Head(cq) \in RealCqe
      /\ Len(Tail(cq)) <= CqEntries
  <2>1. cq \in Seq(RealCqe) /\ Len(cq) <= CqEntries /\ CqEntries \in Nat
    BY RingAssumption DEF IInv, PoolOK
  <2>2. QED
    BY <1>0, <2>1, TailShape
<1>2. PoolKeeps
  BY <1>0, <1>1 DEF IInv, PoolKeeps, PoolOK, Pool, RealCqe
<1>3. Still
  BY <1>0, <1>2 DEF Still, InHand
<1>4. Types'
  <2>1. seen' \subseteq 1..Len(script)
    BY <1>0, <1>1 DEF IInv, Types, SqTypes, RealCqe
  <2>2. SqTypes'
    BY <1>0, <2>1 DEF IInv, Types, SqTypes
  <2>3. HomeTypes' /\ CallTypes'
    BY <1>0 DEF IInv, Types, HomeTypes, CallTypes
  <2>4. FlagTypes'
    BY <1>0 DEF IInv, Types, FlagTypes
  <2>5. QED
    BY <2>2, <2>3, <2>4 DEF Types
<1>5. Control'
  BY <1>0 DEF IInv, Control, Linked, SqeOf
<1>6. Pending' = Pending /\ Awaited' = Awaited
  BY <1>0 DEF Pending, Awaited, AtDoor, Running, DoneOps, Retried
<1>7. QED
  BY <1>0, <1>3, <1>4, <1>5, <1>6, StillKeeps, StallKept DEF IInv

LEMMA StallKeeps ==
  ASSUME IInv, Stall
  PROVE  IInv'
<1> USE DEF Stall
<1>1. Still
  BY PoolStands DEF IInv, Still, InHand
<1>2. Types'
  <2>1. SqTypes' /\ HomeTypes'
    BY DEF IInv, Types, SqTypes, HomeTypes
  <2>2. FlagTypes' /\ CallTypes'
    BY DEF IInv, Types, FlagTypes, CallTypes
  <2>3. QED
    BY <2>1, <2>2 DEF Types
<1>3. Control'
  BY DEF IInv, Control, Linked, SqeOf
<1>4. Pending' = Pending /\ Awaited' = Awaited
  BY DEF Pending, Awaited, AtDoor, Running, DoneOps, Retried
<1>5. QED
  BY <1>1, <1>2, <1>3, <1>4, StillKeeps, StallKept DEF IInv

LEMMA WorkerRunKeeps ==
  ASSUME IInv, NEW res \in {"ok", "err"}, WorkerRun(res)
  PROVE  IInv'
<1> USE DEF WorkerRun
<1>1. Still
  BY PoolStands DEF IInv, Still, InHand
<1>2. Types'
  <2>1. SqTypes' /\ HomeTypes'
    BY DEF IInv, Types, SqTypes, HomeTypes
  <2>2. FlagTypes' /\ CallTypes'
    BY DEF IInv, Types, FlagTypes, CallTypes
  <2>3. QED
    BY <2>1, <2>2 DEF Types
<1>3. Control'
  BY DEF IInv, Control, Linked, SqeOf
<1>4. Awaited' = Awaited
  BY DEF Awaited
<1>5. Running = {wop} /\ Running' = IF Linked(wop) THEN {wop} ELSE {}
  BY DEF Running
<1>6. waiting' = waiting /\ AtDoor' = AtDoor /\ DoneOps' = DoneOps /\ Retried' = Retried
  BY DEF AtDoor, DoneOps, Retried
<1>7. StallInv'
  <2>1. \A o : Linked(o)' = Linked(o)
    BY DEF Linked, SqeOf
  <2>2. Pending' \subseteq Pending /\ \A o \in Pending \ Pending' : ~Linked(o)
    BY <1>5, <1>6 DEF Pending
  <2>3. QED
    BY <1>4, <2>1, <2>2 DEF IInv, StallInv
<1>8. QED
  BY <1>1, <1>2, <1>3, <1>7, StillKeeps DEF IInv

LEMMA WorkerTicketKeeps ==
  ASSUME IInv, WorkerTicket
  PROVE  IInv'
<1>0. /\ wpc = "ticket" /\ wpc' = "post" /\ blockedDone' = wop
      /\ blockedFailed' \in {"holds", "cancels", "quiet"}
      /\ UNCHANGED <<sqVars, queue, parkVars, chainVars, engineVars, wq, live, wop, wres,
                     poked, postVars, boundVars, began, seen>>
  BY DEF WorkerTicket, ChainFailureOf
<1>1. Still
  BY <1>0, PoolStands DEF IInv, Still, InHand
<1>2. Types'
  <2>1. SqTypes' /\ HomeTypes'
    BY <1>0 DEF IInv, Types, SqTypes, HomeTypes
  <2>2. FlagTypes' /\ CallTypes'
    BY <1>0 DEF IInv, Types, FlagTypes, CallTypes
  <2>3. QED
    BY <2>1, <2>2 DEF Types
<1>3. Control'
  BY <1>0 DEF IInv, Control, Linked, SqeOf
<1>4. Awaited' = Awaited /\ wop # None
  BY <1>0 DEF Awaited, IInv, Control
<1>5. Running = {wop} /\ Running' = {} /\ AtWorker = {wop}
  BY <1>0, <1>4 DEF Running, AtWorker
<1>6. waiting' = waiting /\ AtDoor' = AtDoor /\ DoneOps' = DoneOps /\ Retried' = Retried
      /\ Retried \subseteq InHand
  BY <1>0 DEF AtDoor, DoneOps, Retried, InHand
<1>7. StallInv'
  <2>1. \A o : Linked(o)' = Linked(o)
    BY <1>0 DEF Linked, SqeOf
  <2>2. Linked(wop) /\ wop \in Pending
    BY <1>0, <1>5 DEF IInv, Control, Pending
  <2>3. wop = Awaited
    BY <2>2 DEF IInv, StallInv
  <2>4. Pending' = Pending \ {wop}
    BY <1>5, <1>6 DEF Pending, IInv, Apart
  <2>5. QED
    BY <1>0, <1>4, <2>1, <2>3, <2>4 DEF IInv, StallInv
<1>8. QED
  BY <1>1, <1>2, <1>3, <1>7, StillKeeps DEF IInv

-----------------------------------------------------------------------------
\* Op o goes back to the pool and its request is answered.
Ends(o) ==
  /\ PoolGets(o)
  /\ \E r \in Ended \cup {"silent", "quiet"} : result' = [result EXCEPT ![ud[o]] = r]

\* A post ends the op, whether it goes to the CQ, to the backlog or is silent.
LEMMA PostEnds ==
  ASSUME IInv, NEW o \in Active, NEW res \in Ended, Post(o, res), script' = script
  PROVE  Ends(o)
<1>1. PoolOK /\ o \in Op /\ o \notin Pool /\ ud[o] \in 1..Len(script)
  BY ActiveFacts DEF IInv
<1>2. /\ PoolGets(o)
      /\ result' = [result EXCEPT ![ud[o]] = IF res = "ok" /\ SqeOf(o).skip THEN "silent" ELSE res]
  BY <1>1, PostPool
<1>3. QED
  BY <1>2 DEF Ends

\* So does a release without a CQE.
LEMMA QuietEnds ==
  ASSUME IInv, NEW o \in Active, ReleaseQuietly(o), script' = script
  PROVE  Ends(o)
<1>1. PoolOK /\ o \in Op /\ o \notin Pool
  BY ActiveFacts DEF IInv
<1>2. free' = free \cup {o} /\ cq' = cq /\ backlog' = backlog /\ RealCqe' = RealCqe
      /\ result' = [result EXCEPT ![ud[o]] = "quiet"]
  BY DEF ReleaseQuietly, RealCqe
<1>3. PoolGets(o)
  BY <1>1, <1>2 DEF PoolGets, PoolOK, Pool
<1>4. QED
  BY <1>2, <1>3 DEF Ends

\* An op that ends leaves the others as they were.
LEMMA EndKeeps ==
  ASSUME IInv, NEW o \in Active, Ends(o), UNCHANGED <<script, taken, ud>>,
         Active' = Active \ {o}
  PROVE  /\ PoolOK' /\ Numbered'
         /\ result' \in [DOMAIN script' -> Ended \cup {"none", "silent", "quiet"}]
         /\ Op = Pool' \cup Active' /\ Pool' \cap Active' = {}
<1>1. PoolOK' /\ Pool' = Pool \cup {o}
  BY DEF Ends, PoolGets
<1>2. PICK r \in Ended \cup {"silent", "quiet"} : result' = [result EXCEPT ![ud[o]] = r]
  BY DEF Ends
<1>3. ud[o] \in DOMAIN script /\ o \in Op
  BY ActiveFacts
<1>4. result \in [DOMAIN script -> Ended \cup {"none", "silent", "quiet"}]
  BY DEF IInv, Types, SqTypes
<1>5. result' \in [DOMAIN script' -> Ended \cup {"none", "silent", "quiet"}]
  BY <1>2, <1>4
<1>6. Op = Pool' \cup Active' /\ Pool' \cap Active' = {}
  BY <1>1, <1>3 DEF IInv, Apart
<1>7. Numbered'
  <2>1. \A p \in Active' : p \in Active /\ ud[p] # ud[o]
    BY DEF IInv, Numbered
  <2>2. \A p \in Active' : result'[ud[p]] = "none" /\ ud[p] \in 1..taken
    <3>1. \A p \in Active' : ud[p] \in DOMAIN script
      BY <2>1, ActiveFacts
    <3>2. QED
      BY <1>2, <1>4, <2>1, <3>1 DEF IInv, Numbered
  <2>3. \A i \in DOMAIN script : i > taken => i # ud[o]
    <3>1. ud[o] \in 1..taken /\ taken \in Nat /\ DOMAIN script = 1..Len(script)
      BY LenProperties DEF IInv, Numbered, Types, SqTypes
    <3>2. QED
      BY <3>1
  <2>4. \A i \in DOMAIN script : i > taken => result'[i] = "none"
    BY <1>2, <1>4, <2>3 DEF IInv, Numbered
  <2>5. QED
    BY <2>1, <2>2, <2>4 DEF IInv, Numbered
<1>8. QED
  BY <1>1, <1>5, <1>6, <1>7

\* So does one that only changes its place.
LEMMA MoveKeeps ==
  ASSUME IInv, UNCHANGED <<script, taken, ud, result>>, PoolKeeps, Active' = Active
  PROVE  PoolOK' /\ Numbered' /\ Op = Pool' \cup Active' /\ Pool' \cap Active' = {}
<1>1. PoolOK' /\ Pool' = Pool
  BY DEF PoolKeeps
<1>2. Numbered'
  BY DEF IInv, Numbered
<1>3. QED
  BY <1>1, <1>2 DEF IInv, Apart

LEMMA RunCancelledKeeps ==
  ASSUME IInv, RunCancelled
  PROVE  IInv'
<1> DEFINE o == Head(queue)
<1>0. /\ pc = "run" /\ queue # <<>> /\ blocking = None /\ queue' = Tail(queue)
      /\ ReleaseQuietly(o) \/ Post(o, "canceled")
      /\ chain' \in {chain, "holds"}
      /\ UNCHANGED <<sqVars, parkVars, blocking, engineVars, ticketVars, workerVars,
                     poked, boundVars, began, seen>>
  BY DEF RunCancelled, Runnable
<1>1. /\ o \in InQueue /\ InQueue' = InQueue \ {o} /\ queue' \in Seq(Op)
      /\ \A i, j \in DOMAIN queue' : queue'[i] = queue'[j] => i = j
  <2>1. queue \in Seq(Op) /\ \A i, j \in DOMAIN queue : queue[i] = queue[j] => i = j
    BY DEF IInv, Types, HomeTypes, Lists
  <2>2. QED
    BY <1>0, <2>1, QueueLoses DEF InQueue
<1> HIDE DEF o
<1>2. o \in Active
  BY <1>1 DEF Active
<1>3. /\ waiting' = waiting /\ InHand' = InHand /\ DoneOps' = DoneOps
      /\ AtDoor' = AtDoor /\ AtWorker' = AtWorker
  BY <1>0 DEF InHand, DoneOps, AtDoor, AtWorker
<1>4. Active' = Active \ {o}
  BY <1>1, <1>3 DEF IInv, Apart, Active
<1>5. Ends(o)
  BY <1>0, <1>2, PostEnds, QuietEnds DEF Ended
<1>6. /\ PoolOK' /\ Numbered'
      /\ result' \in [DOMAIN script' -> Ended \cup {"none", "silent", "quiet"}]
      /\ Op = Pool' \cup Active' /\ Pool' \cap Active' = {}
  BY <1>0, <1>2, <1>4, <1>5, EndKeeps
<1>7. Apart'
  BY <1>1, <1>3, <1>6 DEF IInv, Apart
<1>8. Types'
  <2>1. SqTypes' /\ CallTypes'
    BY <1>0, <1>6 DEF IInv, Types, SqTypes, CallTypes
  <2>2. HomeTypes'
    BY <1>0, <1>1 DEF IInv, Types, HomeTypes
  <2>3. FlagTypes'
    BY <1>0 DEF IInv, Types, FlagTypes
  <2>4. QED
    BY <2>1, <2>2, <2>3 DEF Types
<1>9. Control' /\ Lists'
  BY <1>0, <1>1 DEF IInv, Control, Lists, Linked, SqeOf
<1>10. Pending' = Pending /\ Awaited' = Awaited
  BY <1>0 DEF Pending, Awaited, AtDoor, Running, DoneOps, Retried
<1>11. QED
  BY <1>0, <1>6, <1>7, <1>8, <1>9, <1>10, StallKept DEF IInv

LEMMA RunPopKeeps ==
  ASSUME IInv, RunPop
  PROVE  IInv'
<1> DEFINE o == Head(queue)
<1>0. /\ pc = "run" /\ pc' = "exec" /\ queue # <<>> /\ blocking = None
      /\ queue' = Tail(queue) /\ cur' = o /\ began' = began \cup {ud[o]}
      /\ UNCHANGED <<sqVars, parkVars, chainVars, call, curres, count, ticketVars,
                     workerVars, poked, postVars, boundVars, seen>>
  BY DEF RunPop, Runnable
<1>1. /\ o \in InQueue /\ o \in Op /\ InQueue' = InQueue \ {o} /\ queue' \in Seq(Op)
      /\ \A i, j \in DOMAIN queue' : queue'[i] = queue'[j] => i = j
  <2>1. queue \in Seq(Op) /\ \A i, j \in DOMAIN queue : queue[i] = queue[j] => i = j
    BY DEF IInv, Types, HomeTypes, Lists
  <2>2. QED
    BY <1>0, <2>1, QueueLoses DEF InQueue
<1> HIDE DEF o
<1>2. /\ waiting' = waiting /\ DoneOps' = DoneOps /\ AtDoor' = AtDoor /\ AtWorker' = AtWorker
      /\ InHand = {} /\ InHand' = {o}
  BY <1>0 DEF InHand, DoneOps, AtDoor, AtWorker
<1>3. Active' = Active /\ o \in Active
  BY <1>1, <1>2 DEF Active
<1>4. PoolKeeps
  BY <1>0, PoolStands DEF IInv
<1>5. PoolOK' /\ Numbered' /\ Op = Pool' \cup Active' /\ Pool' \cap Active' = {}
  BY <1>0, <1>3, <1>4, MoveKeeps
<1>6. Apart'
  BY <1>1, <1>2, <1>5 DEF IInv, Apart
<1>7. Types'
  <2>1. SqTypes' /\ CallTypes'
    BY <1>0, <1>3, ActiveFacts DEF IInv, Types, SqTypes, CallTypes
  <2>2. HomeTypes'
    BY <1>0, <1>1 DEF IInv, Types, HomeTypes
  <2>3. FlagTypes'
    BY <1>0 DEF IInv, Types, FlagTypes
  <2>4. QED
    BY <2>1, <2>2, <2>3 DEF Types
<1>8. Control' /\ Lists'
  <2>1. o # None
    BY <1>1, RingAssumption
  <2>2. QED
    BY <1>0, <1>1, <2>1 DEF IInv, Control, Lists, Linked, SqeOf
<1>9. Pending' = Pending /\ Awaited' = Awaited
  BY <1>0 DEF Pending, Awaited, AtDoor, Running, DoneOps, Retried
<1>10. QED
  BY <1>0, <1>5, <1>6, <1>7, <1>8, <1>9, StallKept DEF IInv

LEMMA TakeSqeKeeps ==
  ASSUME IInv, NEW o \in Op, TakeSqe(o)
  PROVE  IInv'
<1>0. /\ pc = "take" /\ call.left > 0 /\ taken < Len(script) /\ o \in free
      /\ free' = free \ {o} /\ ud' = [ud EXCEPT ![o] = taken + 1] /\ taken' = taken + 1
      /\ queue' = Append(queue, o) /\ call' = [call EXCEPT !.left = @ - 1, !.took = TRUE]
      /\ UNCHANGED <<script, parkVars, chainVars, pc, cur, curres, count, ticketVars,
                     workerVars, poked, cq, backlog, result, boundVars, began, seen>>
  BY DEF TakeSqe
<1>1. o \in Pool /\ o \notin Active /\ o \notin InQueue
  BY <1>0 DEF Pool, IInv, Apart, Active
<1>2. /\ InQueue' = InQueue \cup {o} /\ queue' \in Seq(Op)
      /\ \A i, j \in DOMAIN queue' : queue'[i] = queue'[j] => i = j
  <2>1. /\ queue \in Seq(Op) /\ o \in Op \ ToSet(queue)
        /\ \A i, j \in DOMAIN queue : queue[i] = queue[j] => i = j
    BY <1>1 DEF IInv, Types, HomeTypes, Lists, InQueue
  <2>2. QED
    BY <1>0, <2>1, QueueGets DEF InQueue
<1>3. /\ waiting' = waiting /\ InHand' = InHand /\ DoneOps' = DoneOps
      /\ AtDoor' = AtDoor /\ AtWorker' = AtWorker
  BY <1>0 DEF InHand, DoneOps, AtDoor, AtWorker
<1>4. Active' = Active \cup {o}
  BY <1>2, <1>3 DEF Active
<1>5. PoolOK' /\ Pool' = Pool \ {o}
  BY <1>0 DEF IInv, PoolOK, Pool, RealCqe
<1>6. Apart'
  BY <1>1, <1>2, <1>3, <1>4, <1>5 DEF IInv, Apart, Active
<1>7. /\ taken \in Nat /\ Len(script) \in Nat /\ DOMAIN script = 1..Len(script)
      /\ ud \in [Op -> 0..Len(script)]
  BY LenProperties DEF IInv, Types, SqTypes
<1>8. ud'[o] = taken + 1 /\ \A p \in Op : p # o => ud'[p] = ud[p]
  BY <1>0, <1>7
<1>9. Numbered'
  <2>1. \A p \in Active : p \in Op /\ p # o /\ ud'[p] = ud[p] /\ ud[p] \in 1..taken
    BY <1>1, <1>8 DEF IInv, Apart, Numbered
  <2>2. \A p \in Active' : ud'[p] \in 1..taken' /\ result'[ud'[p]] = "none"
    BY <1>0, <1>4, <1>7, <1>8, <2>1 DEF IInv, Numbered
  <2>3. \A p, q \in Active' : ud'[p] = ud'[q] => p = q
    BY <1>4, <1>7, <1>8, <2>1 DEF IInv, Numbered
  <2>4. \A i \in DOMAIN script' : i > taken' => result'[i] = "none"
    BY <1>0, <1>7 DEF IInv, Numbered
  <2>5. QED
    BY <2>2, <2>3, <2>4 DEF Numbered
<1>10. Types'
  <2>1. SqTypes'
    BY <1>0, <1>7 DEF IInv, Types, SqTypes
  <2>2. CallTypes'
    <3>1. call \in [left : Nat, min : Nat, deadline : BOOLEAN, took : BOOLEAN, waited : BOOLEAN]
      BY DEF IInv, Types, CallTypes
    <3>2. call.left - 1 \in Nat
      BY <1>0, <3>1
    <3>3. [call EXCEPT !.left = call.left - 1, !.took = TRUE]
            \in [left : Nat, min : Nat, deadline : BOOLEAN, took : BOOLEAN, waited : BOOLEAN]
      BY <3>1, <3>2
    <3>4. QED
      BY <1>0, <3>3 DEF CallTypes
  <2>3. HomeTypes'
    BY <1>0, <1>2 DEF IInv, Types, HomeTypes
  <2>4. FlagTypes'
    BY <1>0 DEF IInv, Types, FlagTypes
  <2>5. QED
    BY <2>1, <2>2, <2>3, <2>4 DEF Types
<1>11. \A p \in Op : p # o => Linked(p)' = Linked(p)
  BY <1>0, <1>8 DEF Linked, SqeOf
<1>12. Control' /\ Lists'
  <2>1. wpc = "ticket" => wop \in Op /\ wop # o
    BY <1>1 DEF IInv, Control, Active, AtWorker, Types, HomeTypes
  <2>2. QED
    BY <1>0, <1>2, <1>11, <2>1 DEF IInv, Control, Lists
<1>13. StallInv'
  <2>1. Pending' = Pending /\ Awaited' = Awaited
    BY <1>0 DEF Pending, Awaited, AtDoor, Running, DoneOps, Retried
  <2>2. Pending \subseteq Active
    BY DEF Pending, Active, Running, AtWorker, Retried, InHand, IInv, Control
  <2>3. \A p \in Pending : Linked(p)' = Linked(p)
    BY <1>1, <1>11, <2>2 DEF IInv, Apart
  <2>4. QED
    BY <1>0, <2>1, <2>3 DEF IInv, StallInv
<1>14. QED
  BY <1>5, <1>6, <1>9, <1>10, <1>12, <1>13 DEF IInv

LEMMA LinkedSame ==
  ASSUME UNCHANGED <<script, ud>>
  PROVE  \A o : Linked(o)' = Linked(o)
  BY DEF Linked, SqeOf

\* The op in hand ends: ExecDone and PostCur.
LEMMA CurEnds ==
  ASSUME IInv, pc \in {"exec", "post"}, NEW res \in Ended, Post(cur, res),
         cur' = None, pc' = "run", chain' \in {"holds", "cancels", "quiet"}, curres' \in Ended,
         UNCHANGED <<sqVars, queue, parkVars, blocking, call, count, ticketVars,
                     workerVars, poked, boundVars, began, seen>>
  PROVE  IInv'
<1>1. cur \in Active /\ cur \in Op /\ InHand = {cur}
  BY CurFacts
<1>2. /\ InQueue' = InQueue /\ waiting' = waiting /\ DoneOps' = DoneOps
      /\ AtDoor' = AtDoor /\ AtWorker' = AtWorker /\ InHand' = {}
  BY DEF InQueue, InHand, DoneOps, AtDoor, AtWorker
<1>3. Active' = Active \ {cur}
  BY <1>1, <1>2 DEF IInv, Apart, Active
<1>4. Ends(cur)
  BY <1>1, PostEnds
<1>5. /\ PoolOK' /\ Numbered'
      /\ result' \in [DOMAIN script' -> Ended \cup {"none", "silent", "quiet"}]
      /\ Op = Pool' \cup Active' /\ Pool' \cap Active' = {}
  BY <1>1, <1>3, <1>4, EndKeeps
<1>6. Apart'
  BY <1>2, <1>5 DEF IInv, Apart
<1>7. Types'
  <2>1. SqTypes' /\ CallTypes'
    BY <1>5 DEF IInv, Types, SqTypes, CallTypes
  <2>2. HomeTypes'
    BY DEF IInv, Types, HomeTypes
  <2>3. FlagTypes'
    BY DEF IInv, Types, FlagTypes
  <2>4. QED
    BY <2>1, <2>2, <2>3 DEF Types
<1>8. Control' /\ Lists'
  BY DEF IInv, Control, Lists, Linked, SqeOf
<1>9. Pending' = Pending /\ Awaited' = Awaited
  BY DEF Pending, Awaited, AtDoor, Running, DoneOps, Retried
<1>10. QED
  BY <1>5, <1>6, <1>7, <1>8, <1>9, StallKept DEF IInv

LEMMA ExecDoneKeeps ==
  ASSUME IInv, NEW res \in {"ok", "err"}, ExecDone(res)
  PROVE  IInv'
<1>1. chain' \in {"holds", "cancels", "quiet"} /\ curres' \in Ended /\ res \in Ended
  BY DEF ExecDone, ChainFailureOf, Ended, IInv, Types, FlagTypes
<1>2. QED
  BY <1>1, CurEnds DEF ExecDone

LEMMA PostCurKeeps ==
  ASSUME IInv, PostCur
  PROVE  IInv'
<1>1. chain' \in {"holds", "cancels", "quiet"} /\ curres' \in Ended /\ curres \in Ended
  BY DEF PostCur, ChainFailureOf, Ended, IInv, Types, FlagTypes
<1>2. QED
  BY <1>1, CurEnds DEF PostCur

\* Pending ops are in flight.
LEMMA PendingActive ==
  ASSUME IInv
  PROVE  Pending \subseteq Active /\ Pending \subseteq Op /\ None \notin Pending
<1>1. Running \subseteq AtWorker /\ Retried \subseteq InHand
  BY DEF Running, AtWorker, Retried, InHand, IInv, Control
<1>2. QED
  BY <1>1, RingAssumption DEF Pending, Active, IInv, Apart

LEMMA ExecParkKeeps ==
  ASSUME IInv, ExecPark
  PROVE  IInv'
<1>0. /\ pc = "exec" /\ pc' = "run" /\ waiting' = waiting \cup {cur} /\ cur' = None
      /\ blocking' = IF Linked(cur) THEN cur ELSE blocking
      /\ UNCHANGED <<sqVars, queue, fired, ready, done, chain, call, curres, count,
                     ticketVars, workerVars, poked, postVars, boundVars, began, seen>>
  BY DEF ExecPark
<1>1. cur \in Active /\ cur \in Op /\ cur # None /\ InHand = {cur} /\ blocking = None
  BY <1>0, CurFacts DEF IInv, Control
<1>2. /\ InQueue' = InQueue /\ DoneOps' = DoneOps /\ AtDoor' = AtDoor /\ AtWorker' = AtWorker
      /\ Running' = Running /\ InHand' = {} /\ Retried = {} /\ Retried' = {}
  BY <1>0 DEF InQueue, InHand, DoneOps, AtDoor, AtWorker, Running, Retried
<1>3. Active' = Active
  BY <1>0, <1>1, <1>2 DEF Active
<1>4. PoolKeeps
  BY <1>0, PoolStands DEF IInv
<1>5. PoolOK' /\ Numbered' /\ Op = Pool' \cup Active' /\ Pool' \cap Active' = {}
  BY <1>0, <1>3, <1>4, MoveKeeps
<1>6. Apart'
  BY <1>0, <1>1, <1>2, <1>5 DEF IInv, Apart
<1>7. Types'
  <2>1. SqTypes' /\ CallTypes'
    BY <1>0 DEF IInv, Types, SqTypes, CallTypes
  <2>2. HomeTypes'
    BY <1>0, <1>1 DEF IInv, Types, HomeTypes
  <2>3. FlagTypes'
    BY <1>0 DEF IInv, Types, FlagTypes
  <2>4. QED
    BY <2>1, <2>2, <2>3 DEF Types
<1>8. Control' /\ Lists'
  BY <1>0, <1>1 DEF IInv, Control, Lists, Linked, SqeOf
<1>9. StallInv'
  <2>1. Pending' = Pending \cup {cur} /\ Awaited = None
        /\ Awaited' = IF Linked(cur) THEN cur ELSE None
    BY <1>0, <1>1, <1>2 DEF Pending, Awaited
  <2>2. \A o : Linked(o)' = Linked(o)
    BY <1>0, LinkedSame
  <2>3. blockedDone = None /\ blockedFailed = "holds" /\ \A o \in Pending : ~Linked(o)
    BY <2>1, PendingActive DEF IInv, StallInv
  <2>4. QED
    BY <1>0, <1>1, <2>1, <2>2, <2>3 DEF StallInv
<1>10. QED
  BY <1>5, <1>6, <1>7, <1>8, <1>9 DEF IInv

LEMMA ExecHandKeeps ==
  ASSUME IInv, ExecHand
  PROVE  IInv'
<1>0. /\ pc = "exec" /\ wq' = Append(wq, cur) /\ live' \in BOOLEAN
      /\ pc' = IF Linked(cur) THEN "stall" ELSE "run"
      /\ cur' = IF Linked(cur) THEN cur ELSE None
      /\ UNCHANGED <<sqVars, queue, parkVars, chainVars, call, curres, count, ticketVars,
                     wpc, wop, wres, poked, postVars, boundVars, began, seen>>
  BY RingAssumption DEF ExecHand
<1>1. cur \in Active /\ cur \in Op /\ cur # None /\ InHand = {cur} /\ blocking = None
  BY <1>0, CurFacts DEF IInv, Control
<1>2. /\ AtDoor' = AtDoor \cup {cur} /\ wq' \in Seq(Op)
      /\ \A i, j \in DOMAIN wq' : wq'[i] = wq'[j] => i = j
  <2>1. /\ wq \in Seq(Op) /\ cur \in Op \ ToSet(wq)
        /\ \A i, j \in DOMAIN wq : wq[i] = wq[j] => i = j
    BY <1>1 DEF IInv, Types, HomeTypes, Lists, AtDoor, Apart
  <2>2. QED
    BY <1>0, <2>1, QueueGets DEF AtDoor
<1>3. /\ InQueue' = InQueue /\ waiting' = waiting /\ DoneOps' = DoneOps /\ AtWorker' = AtWorker
      /\ Running' = Running /\ InHand' = {} /\ Retried = {} /\ Retried' = {}
  BY <1>0 DEF InQueue, InHand, DoneOps, AtWorker, Running, Retried
<1>4. Active' = Active
  BY <1>1, <1>2, <1>3 DEF Active
<1>5. PoolKeeps
  BY <1>0, PoolStands DEF IInv
<1>6. PoolOK' /\ Numbered' /\ Op = Pool' \cup Active' /\ Pool' \cap Active' = {}
  BY <1>0, <1>4, <1>5, MoveKeeps
<1>7. Apart'
  BY <1>1, <1>2, <1>3, <1>6 DEF IInv, Apart
<1>8. Types'
  <2>1. SqTypes' /\ CallTypes'
    BY <1>0 DEF IInv, Types, SqTypes, CallTypes
  <2>2. HomeTypes'
    BY <1>0, <1>1, <1>2 DEF IInv, Types, HomeTypes
  <2>3. FlagTypes'
    BY <1>0 DEF IInv, Types, FlagTypes
  <2>4. QED
    BY <2>1, <2>2, <2>3 DEF Types
<1>9. Control' /\ Lists'
  BY <1>0, <1>1, <1>2 DEF IInv, Control, Lists, Linked, SqeOf
<1>10. StallInv'
  <2>1. Pending' = Pending \cup {cur} /\ Awaited = None
        /\ Awaited' = IF Linked(cur) THEN cur ELSE None
    BY <1>0, <1>1, <1>2, <1>3 DEF Pending, Awaited
  <2>2. \A o : Linked(o)' = Linked(o)
    BY <1>0, LinkedSame
  <2>3. blockedDone = None /\ blockedFailed = "holds" /\ \A o \in Pending : ~Linked(o)
    BY <2>1, PendingActive DEF IInv, StallInv
  <2>4. QED
    BY <1>0, <1>1, <2>1, <2>2, <2>3 DEF StallInv
<1>11. QED
  BY <1>6, <1>7, <1>8, <1>9, <1>10 DEF IInv

LEMMA UnparkKeeps ==
  ASSUME IInv, NEW o \in Op, Unpark(o)
  PROVE  IInv'
<1>0. /\ pc = "retry" /\ pc' = "try" /\ o \in ready /\ ready' = ready \ {o}
      /\ waiting' = waiting \ {o} /\ fired' = fired \ {o} /\ cur' = o
      /\ UNCHANGED <<sqVars, queue, done, chainVars, call, curres, count, ticketVars,
                     workerVars, poked, postVars, boundVars, began, seen>>
  BY DEF Unpark
<1>1. o \in waiting /\ o # None
  BY <1>0, RingAssumption DEF IInv, Types, HomeTypes
<1>2. /\ InQueue' = InQueue /\ DoneOps' = DoneOps /\ AtDoor' = AtDoor /\ AtWorker' = AtWorker
      /\ Running' = Running /\ InHand = {} /\ InHand' = {o} /\ Retried = {} /\ Retried' = {o}
  BY <1>0 DEF InQueue, InHand, DoneOps, AtDoor, AtWorker, Running, Retried
<1>3. Active' = Active
  BY <1>0, <1>1, <1>2 DEF Active
<1>4. PoolKeeps
  BY <1>0, PoolStands DEF IInv
<1>5. PoolOK' /\ Numbered' /\ Op = Pool' \cup Active' /\ Pool' \cap Active' = {}
  BY <1>0, <1>3, <1>4, MoveKeeps
<1>6. Apart'
  BY <1>0, <1>1, <1>2, <1>5 DEF IInv, Apart
<1>7. Types'
  <2>1. SqTypes' /\ CallTypes'
    BY <1>0 DEF IInv, Types, SqTypes, CallTypes
  <2>2. HomeTypes'
    BY <1>0, <1>1 DEF IInv, Types, HomeTypes
  <2>3. FlagTypes'
    BY <1>0 DEF IInv, Types, FlagTypes
  <2>4. QED
    BY <2>1, <2>2, <2>3 DEF Types
<1>8. Control' /\ Lists'
  BY <1>0, <1>1 DEF IInv, Control, Lists, Linked, SqeOf
<1>9. Pending' = Pending /\ Awaited' = Awaited
  BY <1>0, <1>1, <1>2 DEF Pending, Awaited
<1>10. QED
  BY <1>0, <1>5, <1>6, <1>7, <1>8, <1>9, StallKept DEF IInv

LEMMA TryParkKeeps ==
  ASSUME IInv, TryPark
  PROVE  IInv'
<1>0. /\ pc = "try" /\ pc' = "retry" /\ waiting' = waiting \cup {cur} /\ cur' = None
      /\ spurious < MaxSpurious /\ spurious' = spurious + 1
      /\ UNCHANGED <<sqVars, queue, fired, ready, done, chainVars, call, curres, count,
                     ticketVars, workerVars, poked, postVars, emits, began, seen>>
  BY DEF TryPark
<1>1. cur \in Active /\ cur \in Op /\ cur # None /\ InHand = {cur}
  BY <1>0, CurFacts
<1>2. /\ InQueue' = InQueue /\ DoneOps' = DoneOps /\ AtDoor' = AtDoor /\ AtWorker' = AtWorker
      /\ Running' = Running /\ InHand' = {} /\ Retried = {cur} /\ Retried' = {}
  BY <1>0 DEF InQueue, InHand, DoneOps, AtDoor, AtWorker, Running, Retried
<1>3. Active' = Active
  BY <1>0, <1>1, <1>2 DEF Active
<1>4. PoolKeeps
  BY <1>0, PoolStands DEF IInv
<1>5. PoolOK' /\ Numbered' /\ Op = Pool' \cup Active' /\ Pool' \cap Active' = {}
  BY <1>0, <1>3, <1>4, MoveKeeps
<1>6. Apart'
  BY <1>0, <1>1, <1>2, <1>5 DEF IInv, Apart
<1>7. Types'
  <2>1. SqTypes' /\ CallTypes'
    BY <1>0 DEF IInv, Types, SqTypes, CallTypes
  <2>2. HomeTypes'
    BY <1>0, <1>1 DEF IInv, Types, HomeTypes
  <2>3. spurious' \in 0..MaxSpurious
    BY <1>0, RingAssumption DEF IInv, Types, FlagTypes
  <2>4. FlagTypes'
    BY <1>0, <2>3 DEF IInv, Types, FlagTypes
  <2>5. QED
    BY <2>1, <2>2, <2>4 DEF Types
<1>8. Control' /\ Lists'
  BY <1>0 DEF IInv, Control, Lists, Linked, SqeOf
<1>9. Pending' = Pending /\ Awaited' = Awaited
  BY <1>0, <1>2 DEF Pending, Awaited
<1>10. QED
  BY <1>0, <1>5, <1>6, <1>7, <1>8, <1>9, StallKept DEF IInv

\* What the three ways to cancel an op have in common (cancel_target).
CancelsOne(t) ==
  /\ pc = "cancel"
  /\ blocking' = blocking
  /\ chain' \in {"holds", "cancels", "quiet"}
  /\ count' = count + 1
  /\ t \in Active
  /\ Ends(t)
  /\ UNCHANGED <<sqVars, done, pc, call, cur, curres, ticketVars, live, wpc, wop, wres,
                 poked, boundVars, began, seen>>

\* A cancel runs with no linked op pending, so it never clears the stall.
LEMMA CancelTargets ==
  ASSUME IInv, pc = "cancel", NEW t \in Active, CancelTarget(t),
         UNCHANGED <<sqVars, done, pc, call, cur, curres, ticketVars, live, wpc, wop, wres,
                     poked, boundVars, began, seen>>
  PROVE  CancelsOne(t)
<1>1. blocking = None /\ t # None
  BY ActiveFacts, RingAssumption DEF IInv, Control
<1>2. Ends(t)
  BY PostEnds DEF CancelTarget, Ended
<1>3. chain' \in {"holds", "cancels", "quiet"}
  BY DEF CancelTarget, ChainFailureOf, IInv, Types, FlagTypes
<1>4. QED
  BY <1>1, <1>2, <1>3 DEF CancelsOne, CancelTarget

LEMMA CancelsKeep ==
  ASSUME IInv, NEW t, CancelsOne(t), Active' = Active \ {t}, Lists',
         HomeTypes', ready' = {},
         Pending' \subseteq Pending,
         InQueue' \subseteq InQueue, waiting' \subseteq waiting, AtDoor' \subseteq AtDoor
  PROVE  IInv'
<1>1. /\ pc = "cancel" /\ pc' = pc /\ blocking = None /\ blocking' = None
      /\ UNCHANGED <<script, taken, ud, done, call, cur, ticketVars, wpc, wop, began, seen>>
  BY DEF CancelsOne, IInv, Control
<1>2. InHand' = InHand /\ DoneOps' = DoneOps /\ AtWorker' = AtWorker
  BY <1>1 DEF InHand, DoneOps, AtWorker
<1>3. /\ PoolOK' /\ Numbered'
      /\ result' \in [DOMAIN script' -> Ended \cup {"none", "silent", "quiet"}]
      /\ Op = Pool' \cup Active' /\ Pool' \cap Active' = {}
  BY <1>1, EndKeeps DEF CancelsOne
<1>4. Apart'
  BY <1>2, <1>3 DEF IInv, Apart
<1>5. Types'
  <2>1. SqTypes' /\ CallTypes'
    BY <1>1, <1>3 DEF IInv, Types, SqTypes, CallTypes
  <2>2. FlagTypes'
    BY DEF IInv, Types, FlagTypes, CancelsOne
  <2>3. QED
    BY <2>1, <2>2 DEF Types
<1>6. Control'
  BY <1>1 DEF IInv, Control, Linked, SqeOf
<1>7. StallInv'
  <2>1. Awaited = None /\ Awaited' = None
    BY <1>1 DEF Awaited
  <2>2. \A o : Linked(o)' = Linked(o)
    BY <1>1, LinkedSame
  <2>3. QED
    BY <1>1, <2>1, <2>2, PendingActive DEF IInv, StallInv
<1>8. QED
  BY <1>3, <1>4, <1>5, <1>6, <1>7 DEF IInv

LEMMA CancelParkedKeeps ==
  ASSUME IInv, NEW t \in Op, CancelParked(t)
  PROVE  IInv'
<1>0. /\ pc = "cancel" /\ t \in waiting /\ waiting' = waiting \ {t} /\ fired' = fired \ {t}
      /\ CancelTarget(t)
      /\ UNCHANGED <<sqVars, queue, ready, done, pc, call, cur, curres, ticketVars,
                     workerVars, poked, boundVars, began, seen>>
  BY DEF CancelParked, MoreToCancel
<1>1. t \in Active /\ ready = {} /\ blocking = None
  BY <1>0 DEF Active, IInv, Control
<1>2. CancelsOne(t)
  BY <1>0, <1>1, CancelTargets
<1>3. /\ InQueue' = InQueue /\ InHand' = InHand /\ DoneOps' = DoneOps /\ AtDoor' = AtDoor
      /\ AtWorker' = AtWorker /\ Running' = Running /\ Retried' = Retried
  BY <1>0 DEF InQueue, InHand, DoneOps, AtDoor, AtWorker, Running, Retried
<1>4. Active' = Active \ {t}
  BY <1>0, <1>3 DEF IInv, Apart, Active
<1>5. Pending' \subseteq Pending
  BY <1>0, <1>3 DEF Pending
<1>6. Lists' /\ HomeTypes'
  BY <1>0, <1>1, <1>2 DEF IInv, Lists, Types, HomeTypes, CancelsOne
<1>7. QED
  BY <1>0, <1>1, <1>2, <1>3, <1>4, <1>5, <1>6, CancelsKeep

LEMMA CancelQueuedKeeps ==
  ASSUME IInv, CancelQueued
  PROVE  IInv'
<1> DEFINE t == queue[FirstNamed(queue)]
<1>0. /\ pc = "cancel" /\ FirstNamed(queue) # 0 /\ queue' = RemoveAt(queue, FirstNamed(queue))
      /\ CancelTarget(t)
      /\ UNCHANGED <<sqVars, parkVars, pc, call, cur, curres, ticketVars, workerVars,
                     poked, boundVars, began, seen>>
  BY DEF CancelQueued, MoreToCancel
<1>1. /\ t \in InQueue /\ InQueue' = InQueue \ {t} /\ queue' \in Seq(Op)
      /\ \A i, j \in DOMAIN queue' : queue'[i] = queue'[j] => i = j
  <2>1. queue \in Seq(Op) /\ \A i, j \in DOMAIN queue : queue[i] = queue[j] => i = j
    BY DEF IInv, Types, HomeTypes, Lists
  <2>2. QED
    BY <1>0, <2>1, QueueRemoves DEF InQueue
<1> HIDE DEF t
<1>2. t \in Active /\ ready = {} /\ blocking = None
  BY <1>0, <1>1 DEF Active, IInv, Control
<1>3. CancelsOne(t)
  BY <1>0, <1>2, CancelTargets
<1>4. /\ waiting' = waiting /\ InHand' = InHand /\ DoneOps' = DoneOps /\ AtDoor' = AtDoor
      /\ AtWorker' = AtWorker /\ Running' = Running /\ Retried' = Retried
  BY <1>0 DEF InHand, DoneOps, AtDoor, AtWorker, Running, Retried
<1>5. Active' = Active \ {t}
  BY <1>1, <1>4 DEF IInv, Apart, Active
<1>6. Pending' \subseteq Pending
  BY <1>4 DEF Pending
<1>7. Lists' /\ HomeTypes'
  BY <1>0, <1>1, <1>3 DEF IInv, Lists, Types, HomeTypes, CancelsOne
<1>8. QED
  BY <1>0, <1>1, <1>2, <1>3, <1>4, <1>5, <1>6, <1>7, CancelsKeep

LEMMA CancelAtWorkerKeeps ==
  ASSUME IInv, CancelAtWorker
  PROVE  IInv'
<1> DEFINE t == wq[FirstNamed(wq)]
<1>0. /\ pc = "cancel" /\ FirstNamed(wq) # 0 /\ wq' = RemoveAt(wq, FirstNamed(wq))
      /\ CancelTarget(t)
      /\ UNCHANGED <<sqVars, queue, parkVars, pc, call, cur, curres, ticketVars, live,
                     wpc, wop, wres, poked, boundVars, began, seen>>
  BY DEF CancelAtWorker, MoreToCancel
<1>1. /\ t \in AtDoor /\ AtDoor' = AtDoor \ {t} /\ wq' \in Seq(Op)
      /\ \A i, j \in DOMAIN wq' : wq'[i] = wq'[j] => i = j
  <2>1. wq \in Seq(Op) /\ \A i, j \in DOMAIN wq : wq[i] = wq[j] => i = j
    BY DEF IInv, Types, HomeTypes, Lists
  <2>2. QED
    BY <1>0, <2>1, QueueRemoves DEF AtDoor
<1> HIDE DEF t
<1>2. t \in Active /\ ready = {} /\ blocking = None
  BY <1>0, <1>1 DEF Active, IInv, Control
<1>3. CancelsOne(t)
  BY <1>0, <1>2, CancelTargets
<1>4. /\ waiting' = waiting /\ InHand' = InHand /\ DoneOps' = DoneOps /\ InQueue' = InQueue
      /\ AtWorker' = AtWorker /\ Running' = Running /\ Retried' = Retried
  BY <1>0 DEF InHand, DoneOps, InQueue, AtWorker, Running, Retried
<1>5. Active' = Active \ {t}
  BY <1>1, <1>4 DEF IInv, Apart, Active
<1>6. Pending' \subseteq Pending
  BY <1>1, <1>4 DEF Pending
<1>7. Lists' /\ HomeTypes'
  BY <1>0, <1>1, <1>3 DEF IInv, Lists, Types, HomeTypes, CancelsOne
<1>8. QED
  BY <1>0, <1>1, <1>2, <1>3, <1>4, <1>5, <1>6, <1>7, CancelsKeep

LEMMA TryDoneKeeps ==
  ASSUME IInv, NEW res \in {"ok", "err"}, TryDone(res)
  PROVE  IInv'
<1>0. /\ pc = "try" /\ pc' = "retry" /\ cur' = None
      /\ done' = Append(done, [op |-> cur, res |-> res])
      /\ UNCHANGED <<sqVars, queue, waiting, fired, ready, chainVars, call, curres, count,
                     ticketVars, workerVars, poked, postVars, boundVars, began, seen>>
  BY DEF TryDone
<1>1. cur \in Active /\ cur \in Op /\ cur # None /\ InHand = {cur}
  BY <1>0, CurFacts
<1>2. /\ InQueue' = InQueue /\ AtDoor' = AtDoor /\ AtWorker' = AtWorker
      /\ Running' = Running /\ InHand' = {} /\ Retried = {cur} /\ Retried' = {}
  BY <1>0 DEF InQueue, InHand, AtDoor, AtWorker, Running, Retried
<1>3. /\ DoneOps' = DoneOps \cup {cur} /\ done' \in Seq([op : Op, res : {"ok", "err"}])
      /\ \A i, j \in DOMAIN done' : done'[i].op = done'[j].op => i = j
  <2> DEFINE e == [op |-> cur, res |-> res]
  <2>1. e \in [op : Op, res : {"ok", "err"}] /\ e.op = cur
    BY <1>1
  <2> HIDE DEF e
  <2>2. done \in Seq([op : Op, res : {"ok", "err"}])
    BY DEF IInv, Types, HomeTypes
  <2>3. /\ done' \in Seq([op : Op, res : {"ok", "err"}]) /\ Len(done) \in Nat
        /\ DOMAIN done = 1..Len(done) /\ DOMAIN done' = 1..(Len(done) + 1)
        /\ \A i \in 1..Len(done) : done'[i] = done[i]
        /\ done'[Len(done) + 1] = e
    <3>1. done' = Append(done, e)
      BY <1>0 DEF e
    <3>2. QED
      BY <2>1, <2>2, <3>1, AppendShape
  <2>4. /\ \A i \in DOMAIN done' : i \in DOMAIN done \/ i = Len(done) + 1
        /\ DOMAIN done \subseteq DOMAIN done' /\ Len(done) + 1 \in DOMAIN done'
    BY <2>3
  <2>5. DoneOps' = DoneOps \cup {cur}
    BY <2>1, <2>3, <2>4 DEF DoneOps
  <2>6. \A i \in DOMAIN done : done[i].op # cur
    BY <1>1 DEF IInv, Apart, DoneOps
  <2>7. \A i, j \in DOMAIN done' : done'[i].op = done'[j].op => i = j
    BY <2>1, <2>3, <2>4, <2>6 DEF IInv, Lists
  <2>8. QED
    BY <2>3, <2>5, <2>7
<1>4. Active' = Active
  BY <1>0, <1>1, <1>2, <1>3 DEF Active
<1>5. PoolKeeps
  BY <1>0, PoolStands DEF IInv
<1>6. PoolOK' /\ Numbered' /\ Op = Pool' \cup Active' /\ Pool' \cap Active' = {}
  BY <1>0, <1>4, <1>5, MoveKeeps
<1>7. Apart'
  BY <1>0, <1>1, <1>2, <1>3, <1>6 DEF IInv, Apart
<1>8. Types'
  <2>1. SqTypes' /\ CallTypes'
    BY <1>0 DEF IInv, Types, SqTypes, CallTypes
  <2>2. HomeTypes'
    BY <1>0, <1>3 DEF IInv, Types, HomeTypes
  <2>3. FlagTypes'
    BY <1>0 DEF IInv, Types, FlagTypes
  <2>4. QED
    BY <2>1, <2>2, <2>3 DEF Types
<1>9. Control' /\ Lists'
  BY <1>0, <1>3 DEF IInv, Control, Lists, Linked, SqeOf
<1>10. Pending' = Pending /\ Awaited' = Awaited
  BY <1>0, <1>2, <1>3 DEF Pending, Awaited
<1>11. QED
  BY <1>0, <1>6, <1>7, <1>8, <1>9, <1>10, StallKept DEF IInv

LEMMA CompleteKeeps ==
  ASSUME IInv, Complete
  PROVE  IInv'
<1> DEFINE o == Head(done).op
           res == Head(done).res
<1>0. /\ pc = "complete" /\ done # <<>> /\ done' = Tail(done)
      /\ blocking' = (IF o = blocking THEN None ELSE blocking)
      /\ chain' = (IF Failed(res) /\ (o = blocking \/ Linked(o)) THEN ChainFailureOf(o) ELSE chain)
      /\ Post(o, res)
      /\ UNCHANGED <<sqVars, queue, waiting, fired, ready, engineVars, ticketVars,
                     workerVars, poked, boundVars, began, seen>>
  BY DEF Complete
<1>1. /\ o \in DoneOps /\ o \in Op /\ res \in {"ok", "err"} /\ DoneOps' = DoneOps \ {o}
      /\ done' \in Seq([op : Op, res : {"ok", "err"}])
      /\ \A i, j \in DOMAIN done' : done'[i].op = done'[j].op => i = j
  <2>1. done \in Seq([op : Op, res : {"ok", "err"}])
    BY DEF IInv, Types, HomeTypes
  <2>2. /\ done' \in Seq([op : Op, res : {"ok", "err"}])
        /\ Head(done) \in [op : Op, res : {"ok", "err"}] /\ Head(done) = done[1]
        /\ Len(done) \in Nat /\ Len(done) >= 1
        /\ DOMAIN done = 1..Len(done) /\ DOMAIN done' = 1..(Len(done) - 1)
        /\ \A i \in 1..(Len(done) - 1) : done'[i] = done[i + 1]
    BY <1>0, <2>1, TailShape
  <2>3. o = done[1].op /\ 1 \in DOMAIN done /\ o \in Op /\ res \in {"ok", "err"}
    BY <2>2
  <2> HIDE DEF o, res
  <2>4. \A i \in DOMAIN done' : i + 1 \in DOMAIN done /\ i + 1 # 1 /\ done'[i] = done[i + 1]
    BY <2>2
  <2>5. \A k \in DOMAIN done : k = 1 \/ (k - 1 \in DOMAIN done' /\ done'[k - 1] = done[k])
    <3> SUFFICES ASSUME NEW k \in DOMAIN done, k # 1
                 PROVE  k - 1 \in DOMAIN done' /\ done'[k - 1] = done[k]
      OBVIOUS
    <3>1. k - 1 \in DOMAIN done' /\ (k - 1) + 1 = k
      BY <2>2
    <3>2. QED
      BY <2>4, <3>1
  <2>6. \A i, j \in DOMAIN done : done[i].op = done[j].op => i = j
    BY DEF IInv, Lists
  <2>7. DoneOps' \subseteq DoneOps \ {o}
    BY <2>3, <2>4, <2>6 DEF DoneOps
  <2>8. DoneOps \ {o} \subseteq DoneOps'
    BY <2>3, <2>5 DEF DoneOps
  <2>9. \A i, j \in DOMAIN done' : done'[i].op = done'[j].op => i = j
    <3>1. \A i, j \in DOMAIN done' : done'[i].op = done'[j].op => i + 1 = j + 1
      BY <2>4, <2>6
    <3>2. QED
      BY <2>2, <3>1
  <2>10. o \in DoneOps
    BY <2>3 DEF DoneOps
  <2>11. QED
    BY <2>2, <2>3, <2>7, <2>8, <2>9, <2>10
<1> HIDE DEF o, res
<1>2. /\ InQueue' = InQueue /\ waiting' = waiting /\ InHand' = InHand /\ AtDoor' = AtDoor
      /\ AtWorker' = AtWorker /\ Running' = Running /\ Retried' = Retried
  BY <1>0 DEF InQueue, InHand, AtDoor, AtWorker, Running, Retried
<1>3. Active' = Active \ {o} /\ o \in Active
  BY <1>1, <1>2 DEF IInv, Apart, Active
<1>4. Ends(o)
  BY <1>0, <1>1, <1>3, PostEnds DEF Ended
<1>5. /\ PoolOK' /\ Numbered'
      /\ result' \in [DOMAIN script' -> Ended \cup {"none", "silent", "quiet"}]
      /\ Op = Pool' \cup Active' /\ Pool' \cap Active' = {}
  BY <1>0, <1>3, <1>4, EndKeeps
<1>6. Apart'
  BY <1>1, <1>2, <1>5 DEF IInv, Apart
<1>7. Types'
  <2>1. SqTypes' /\ CallTypes'
    BY <1>0, <1>5 DEF IInv, Types, SqTypes, CallTypes
  <2>2. HomeTypes'
    BY <1>0, <1>1 DEF IInv, Types, HomeTypes
  <2>3. chain' \in {"holds", "cancels", "quiet"}
    BY <1>0 DEF ChainFailureOf, IInv, Types, FlagTypes
  <2>4. FlagTypes'
    BY <1>0, <2>3 DEF IInv, Types, FlagTypes
  <2>5. QED
    BY <2>1, <2>2, <2>4 DEF Types
<1>8. Control' /\ Lists'
  BY <1>0, <1>1 DEF IInv, Control, Lists, Linked, SqeOf
<1>9. StallInv'
  <2>1. \A p : Linked(p)' = Linked(p)
    BY <1>0, LinkedSame
  <2>2. Retried = {} /\ Running \subseteq AtWorker
    BY <1>0 DEF Retried, Running, AtWorker, IInv, Control
  <2>3. Pending' = Pending \ {o} /\ o \in Pending
    BY <1>1, <1>2, <2>2 DEF Pending, IInv, Apart
  <2>4. Awaited = blocking /\ Awaited' = blocking'
    BY <1>0 DEF Awaited
  <2>5. QED
    BY <1>0, <2>1, <2>3, <2>4, PendingActive DEF IInv, StallInv
<1>10. QED
  BY <1>5, <1>6, <1>7, <1>8, <1>9 DEF IInv

LEMMA WorkerPopKeeps ==
  ASSUME IInv, WorkerPop
  PROVE  IInv'
<1> DEFINE o == Head(wq)
<1>0. /\ wpc = "idle" /\ wpc' = "run" /\ wq # <<>> /\ wop' = o /\ wq' = Tail(wq)
      /\ UNCHANGED <<sqVars, queue, parkVars, chainVars, engineVars, ticketVars, live,
                     wres, poked, postVars, boundVars, began, seen>>
  BY DEF WorkerPop
<1>1. /\ o \in AtDoor /\ o \in Op /\ AtDoor' = AtDoor \ {o} /\ wq' \in Seq(Op)
      /\ \A i, j \in DOMAIN wq' : wq'[i] = wq'[j] => i = j
  <2>1. wq \in Seq(Op) /\ \A i, j \in DOMAIN wq : wq[i] = wq[j] => i = j
    BY DEF IInv, Types, HomeTypes, Lists
  <2>2. QED
    BY <1>0, <2>1, QueueLoses DEF AtDoor
<1> HIDE DEF o
<1>2. o # None /\ wop = None
  BY <1>0, <1>1, RingAssumption DEF IInv, Control
<1>3. /\ InQueue' = InQueue /\ waiting' = waiting /\ InHand' = InHand /\ DoneOps' = DoneOps
      /\ Retried' = Retried /\ AtWorker = {} /\ AtWorker' = {o} /\ Running = {} /\ Running' = {o}
  BY <1>0, <1>2 DEF InQueue, InHand, DoneOps, Retried, AtWorker, Running
<1>4. Active' = Active
  BY <1>1, <1>3 DEF Active
<1>5. PoolKeeps
  BY <1>0, PoolStands DEF IInv
<1>6. PoolOK' /\ Numbered' /\ Op = Pool' \cup Active' /\ Pool' \cap Active' = {}
  BY <1>0, <1>4, <1>5, MoveKeeps
<1>7. Apart'
  BY <1>1, <1>3, <1>6 DEF IInv, Apart
<1>8. Types'
  <2>1. SqTypes' /\ CallTypes'
    BY <1>0 DEF IInv, Types, SqTypes, CallTypes
  <2>2. HomeTypes'
    BY <1>0, <1>1 DEF IInv, Types, HomeTypes
  <2>3. FlagTypes'
    BY <1>0 DEF IInv, Types, FlagTypes
  <2>4. QED
    BY <2>1, <2>2, <2>3 DEF Types
<1>9. Control' /\ Lists'
  BY <1>0, <1>1, <1>2 DEF IInv, Control, Lists, Linked, SqeOf
<1>10. Pending' = Pending /\ Awaited' = Awaited
  BY <1>0, <1>1, <1>3 DEF Pending, Awaited
<1>11. QED
  BY <1>0, <1>6, <1>7, <1>8, <1>9, <1>10, StallKept DEF IInv

LEMMA WorkerPostKeeps ==
  ASSUME IInv, WorkerPost
  PROVE  IInv'
<1>0. /\ wpc = "post" /\ wpc' = "poke" /\ Post(wop, wres) /\ wop' = None /\ wres' = "ok"
      /\ UNCHANGED <<sqVars, queue, parkVars, chainVars, engineVars, ticketVars, wq, live,
                     poked, boundVars, began, seen>>
  BY DEF WorkerPost
<1>1. wop # None /\ AtWorker = {wop} /\ AtWorker' = {} /\ Running = {} /\ Running' = {}
  BY <1>0 DEF IInv, Control, AtWorker, Running
<1>2. /\ InQueue' = InQueue /\ waiting' = waiting /\ InHand' = InHand /\ DoneOps' = DoneOps
      /\ AtDoor' = AtDoor /\ Retried' = Retried
  BY <1>0 DEF InQueue, InHand, DoneOps, AtDoor, Retried
<1>3. wop \in Active /\ Active' = Active \ {wop}
  BY <1>1, <1>2 DEF IInv, Apart, Active
<1>4. Ends(wop)
  BY <1>0, <1>3, PostEnds DEF IInv, Types, FlagTypes, Ended
<1>5. /\ PoolOK' /\ Numbered'
      /\ result' \in [DOMAIN script' -> Ended \cup {"none", "silent", "quiet"}]
      /\ Op = Pool' \cup Active' /\ Pool' \cap Active' = {}
  BY <1>0, <1>3, <1>4, EndKeeps
<1>6. Apart'
  BY <1>1, <1>2, <1>5 DEF IInv, Apart
<1>7. Types'
  <2>1. SqTypes' /\ CallTypes'
    BY <1>0, <1>5 DEF IInv, Types, SqTypes, CallTypes
  <2>2. HomeTypes'
    BY <1>0 DEF IInv, Types, HomeTypes
  <2>3. FlagTypes'
    BY <1>0 DEF IInv, Types, FlagTypes
  <2>4. QED
    BY <2>1, <2>2, <2>3 DEF Types
<1>8. Control' /\ Lists'
  BY <1>0 DEF IInv, Control, Lists, Linked, SqeOf
<1>9. Pending' = Pending /\ Awaited' = Awaited
  BY <1>0, <1>1, <1>2 DEF Pending, Awaited
<1>10. QED
  BY <1>0, <1>5, <1>6, <1>7, <1>8, <1>9, StallKept DEF IInv

LEMMA StutterKeeps ==
  ASSUME IInv, UNCHANGED vars
  PROVE  IInv'
<1> USE DEF vars
<1>1. Still
  BY PoolStands DEF IInv, Still, InHand
<1>2. Types'
  <2>1. SqTypes' /\ HomeTypes'
    BY DEF IInv, Types, SqTypes, HomeTypes
  <2>2. FlagTypes' /\ CallTypes'
    BY DEF IInv, Types, FlagTypes, CallTypes
  <2>3. QED
    BY <2>1, <2>2 DEF Types
<1>3. Control'
  BY DEF IInv, Control, Linked, SqeOf
<1>4. Pending' = Pending /\ Awaited' = Awaited
  BY DEF Pending, Awaited, AtDoor, Running, DoneOps, Retried
<1>5. QED
  BY <1>1, <1>2, <1>3, <1>4, StillKeeps, StallKept DEF IInv

\* Every step keeps the invariant.
LEMMA NextIInv ==
  ASSUME IInv, [Next]_vars
  PROVE  IInv'
<1>1. CASE CallerEnters
  BY <1>1, EnterKeeps DEF CallerEnters
<1>2. CASE EngineStep
  <2>1. ASSUME NEW o \in Op, TakeSqe(o) \/ Unpark(o) \/ CancelParked(o) PROVE IInv'
    BY <2>1, TakeSqeKeeps, UnparkKeeps, CancelParkedKeeps
  <2>2. CASE TakeEnd \/ Settle \/ Return \/ CheckWait \/ RunEnd \/ RunCancelled \/ RunPop
    BY <2>2, TakeEndKeeps, SettleKeeps, ReturnKeeps, CheckWaitKeeps, RunEndKeeps,
       RunCancelledKeeps, RunPopKeeps
  <2>3. ASSUME NEW res \in {"ok", "err"}, ExecDone(res) \/ TryDone(res) PROVE IInv'
    BY <2>3, ExecDoneKeeps, TryDoneKeeps
  <2>4. CASE ExecPark \/ EmitOne \/ ExecHand \/ Stall \/ ExecMsg \/ PostCur
    BY <2>4, ExecParkKeeps, EmitOneKeeps, ExecHandKeeps, StallKeeps, ExecMsgKeeps, PostCurKeeps
  <2>5. CASE ExecCancel \/ CancelQueued \/ CancelAtWorker \/ CancelEnd
    BY <2>5, ExecCancelKeeps, CancelQueuedKeeps, CancelAtWorkerKeeps, CancelEndKeeps
  <2>6. ASSUME NEW S \in SUBSET fired, NEW drained \in BOOLEAN, WaitReturns(S, drained) PROVE IInv'
    BY <2>6, WaitReturnsKeeps
  <2>7. CASE TryPark \/ RetryEnd \/ Complete \/ CompleteEnd
    BY <2>7, TryParkKeeps, RetryEndKeeps, CompleteKeeps, CompleteEndKeeps
  <2>8. QED
    BY <1>2, <2>1, <2>2, <2>3, <2>4, <2>5, <2>6, <2>7 DEF EngineStep
<1>3. CASE WorkerStep
  BY <1>3, WorkerPopKeeps, WorkerRunKeeps, WorkerTicketKeeps, WorkerPostKeeps, WorkerPokeKeeps
     DEF WorkerStep
<1>4. ASSUME NEW o \in Op, Fire(o) PROVE IInv'
  BY <1>4, FireKeeps
<1>5. CASE Reap
  BY <1>5, ReapKeeps
<1>6. CASE UNCHANGED vars
  BY <1>6, StutterKeeps
<1>7. QED
  BY <1>1, <1>2, <1>3, <1>4, <1>5, <1>6 DEF Next

(***************************************************************************)
(* The engine, the worker, the OS and the caller keep IInv in whatever     *)
(* order they step: process_queue, slip_posix_finish_ready,                *)
(* cancel_matching, settle_worker_ticket, worker_main and the lock         *)
(* sections that post.                                                     *)
(***************************************************************************)
THEOREM Invariance == Spec => []IInv
<1>1. IInv /\ [Next]_vars => IInv'
  BY NextIInv
<1>2. QED
  BY <1>1, InitIInv, PTL DEF Spec

-----------------------------------------------------------------------------
LEMMA SeqWidens ==
  ASSUME NEW S, NEW T, S \subseteq T, NEW s \in Seq(S)
  PROVE  s \in Seq(T)
<1>1. s \in [1..Len(s) -> S] /\ Len(s) \in Nat
  BY LenProperties
<1>2. s \in [1..Len(s) -> T]
  BY <1>1
<1>3. QED
  BY <1>1, <1>2, IsASeq

LEMMA WholeTypes ==
  ASSUME IInv
  PROVE  TypeOK
<1>1. Types /\ PoolOK
  BY DEF IInv
<1>2. cq \in Seq(Cqe) /\ Len(cq) <= CqEntries
  <2>1. RealCqe \subseteq Cqe
    BY LenProperties DEF RealCqe, Cqe, IInv, Types, SqTypes
  <2>2. cq \in Seq(RealCqe) /\ Len(cq) <= CqEntries
    BY <1>1 DEF PoolOK
  <2>3. QED
    BY <2>1, <2>2, SeqWidens
<1>3. backlog \in Seq([op : Op, cqe : Cqe])
  <2>1. Waiter(RealCqe) \subseteq [op : Op, cqe : Cqe]
    BY LenProperties DEF Waiter, RealCqe, Cqe, IInv, Types, SqTypes
  <2>2. backlog \in Seq(Waiter(RealCqe))
    BY <1>1 DEF PoolOK
  <2>3. QED
    BY <2>1, <2>2, SeqWidens
<1>4. free \subseteq Op
  BY <1>1 DEF PoolOK
<1>5. QED
  BY <1>1, <1>2, <1>3, <1>4, Zenon DEF TypeOK, Types, SqTypes, HomeTypes, FlagTypes, CallTypes

(***************************************************************************)
(* Every variable of the engine has its type; the CQ never holds more than *)
(* cq_entries (slip_engine_post and slip_engine_emit look for room under   *)
(* the lock).                                                              *)
(***************************************************************************)
THEOREM TypeCorrect == Spec => []TypeOK
  BY Invariance, WholeTypes, PTL

\* The homes are apart, and a queue is as long as the ops in it are many.
LEMMA OneHomeEach ==
  ASSUME IInv
  PROVE  OneHome
<1>1. Homes = <<free, InQueue, waiting, InHand, DoneOps, AtDoor, AtWorker, OpsOf(backlog)>>
  BY DEF Homes, InQueue, AtDoor, BackloggedOps, OpsOf
<1>2. Apart /\ free \cap OpsOf(backlog) = {} /\ Pool = free \cup OpsOf(backlog)
  BY DEF IInv, PoolOK, Pool
<1>3. DOMAIN Homes = 1..8
  BY <1>1
<1>4. UNION ToSet(Homes) = Op
  <2>1. ToSet(Homes) = {free, InQueue, waiting, InHand, DoneOps, AtDoor, AtWorker, OpsOf(backlog)}
    BY <1>1, <1>3 DEF ToSet
  <2>2. QED
    BY <1>2, <2>1 DEF Apart, Active
<1>5. ASSUME NEW i \in DOMAIN Homes, NEW j \in DOMAIN Homes, i # j
      PROVE  Homes[i] \cap Homes[j] = {}
  BY <1>1, <1>2, <1>3, <1>5 DEF Apart, Active
<1>6. Len(queue) = Cardinality(ToSet(queue)) /\ Len(wq) = Cardinality(ToSet(wq))
  <2>1. /\ queue \in Seq(Op) /\ \A i, j \in DOMAIN queue : queue[i] = queue[j] => i = j
        /\ wq \in Seq(Op) /\ \A i, j \in DOMAIN wq : wq[i] = wq[j] => i = j
    BY DEF IInv, Types, HomeTypes, Lists
  <2>2. QED
    BY <2>1, DistinctLength DEF ToSet
<1>7. Len(done) = Cardinality(DoneOps)
  <2> DEFINE s == [i \in 1..Len(done) |-> done[i].op]
  <2>1. /\ done \in Seq([op : Op, res : {"ok", "err"}]) /\ Len(done) \in Nat /\ DOMAIN done = 1..Len(done)
        /\ \A i, j \in DOMAIN done : done[i].op = done[j].op => i = j
    BY LenProperties DEF IInv, Types, HomeTypes, Lists
  <2>2. \A i \in 1..Len(done) : done[i].op \in Op
    <3>1. \A i \in 1..Len(done) : done[i] \in [op : Op, res : {"ok", "err"}]
      BY <2>1, ElementOfSeq
    <3>2. QED
      BY <3>1
  <2>3. s \in Seq(Op) /\ Len(s) = Len(done) /\ DOMAIN s = 1..Len(done)
    BY <2>1, <2>2
  <2>4. \A i, j \in DOMAIN s : s[i] = s[j] => i = j
    BY <2>1
  <2>5. {s[i] : i \in DOMAIN s} = DoneOps
    BY <2>1, <2>3 DEF DoneOps
  <2> HIDE DEF s
  <2>6. QED
    BY <2>3, <2>4, <2>5, DistinctLength
<1>8. Len(backlog) = Cardinality(BackloggedOps)
  <2> DEFINE s == [i \in 1..Len(backlog) |-> backlog[i].op]
  <2>1. /\ backlog \in Seq(Waiter(RealCqe)) /\ Len(backlog) \in Nat /\ DOMAIN backlog = 1..Len(backlog)
        /\ \A i, j \in DOMAIN backlog : backlog[i].op = backlog[j].op => i = j
    BY LenProperties DEF IInv, PoolOK
  <2>2. \A i \in 1..Len(backlog) : backlog[i].op \in Op
    <3>1. \A i \in 1..Len(backlog) : backlog[i] \in Waiter(RealCqe)
      BY <2>1, ElementOfSeq
    <3>2. QED
      BY <3>1 DEF Waiter
  <2>3. s \in Seq(Op) /\ Len(s) = Len(backlog) /\ DOMAIN s = 1..Len(backlog)
    BY <2>1, <2>2
  <2>4. \A i, j \in DOMAIN s : s[i] = s[j] => i = j
    BY <2>1
  <2>5. {s[i] : i \in DOMAIN s} = BackloggedOps
    BY <2>1, <2>3 DEF BackloggedOps
  <2> HIDE DEF s
  <2>6. QED
    BY <2>3, <2>4, <2>5, DistinctLength
<1>9. QED
  BY <1>4, <1>5, <1>6, <1>7, <1>8 DEF OneHome

(***************************************************************************)
(* An op of the pool is at one place at a time and never nowhere: whatever *)
(* enter, the worker, a cancel and the backlog do with it,                 *)
(* slip_engine_post gives each op back once and op_free neither leaks nor  *)
(* gets one twice.                                                         *)
(***************************************************************************)
THEOREM NoOpLostOrTwice == Spec => []OneHome
  BY Invariance, OneHomeEach, PTL

\* What StallInv says of the two properties of the stall.
LEMMA StallFacts ==
  ASSUME IInv
  PROVE  StallHasOwner /\ OneStallAtATime
<1>1. StallInv /\ Control
  BY DEF IInv
<1>2. StallHasOwner
  <2> SUFFICES ASSUME blocking # None, blocking # blockedDone
               PROVE  \/ blocking \in waiting \cup ToSet(wq) \cup AtWorker \cup DoneOps
                      \/ pc = "try" /\ blocking = cur
    BY DEF StallHasOwner
  <2>1. Awaited = blocking /\ Running \subseteq AtWorker
    BY <1>1 DEF Awaited, Control, Running, AtWorker
  <2>2. blocking \in Pending
    BY <1>1, <2>1 DEF StallInv
  <2>3. QED
    BY <2>1, <2>2 DEF Pending, AtDoor, Retried
<1>3. OneStallAtATime
  <2>1. Stalled = {Awaited}
    BY DEF Stalled, Awaited
  <2>2. waiting \cup ToSet(wq) \cup Running \cup DoneOps \subseteq Pending
    BY DEF Pending, AtDoor
  <2>3. QED
    BY <1>1, <2>1, <2>2 DEF OneStallAtATime, StallInv
<1>4. QED
  BY <1>2, <1>3

(***************************************************************************)
(* The pointer r->blocking always has somebody who will clear it: the op   *)
(* is parked, at the worker, retried or found done, or                     *)
(* settle_worker_ticket has a ticket to clear it by. A chain's queue is    *)
(* never stuck behind an op that ended unnoticed.                          *)
(***************************************************************************)
THEOREM StallIsOwned == Spec => []StallHasOwner
  BY Invariance, StallFacts, PTL

(***************************************************************************)
(* At most one linked op is pending, the one the queue waits for, and a    *)
(* ticket that is up (worker_blocked_done) names it: no ticket is left     *)
(* over from an earlier stall to release a later one that reuses the op.   *)
(***************************************************************************)
THEOREM OneStall == Spec => []OneStallAtATime
  BY Invariance, StallFacts, PTL
=============================================================================
