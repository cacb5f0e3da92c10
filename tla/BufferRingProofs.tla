--------------------------- MODULE BufferRingProofs ---------------------------
(***************************************************************************)
(* The provided buffer ring, for every ring, every number of buffers it    *)
(* can hold and every counter width: a rewind gives back the buffer that   *)
(* was taken, no buffer is in two places, one is missing only when its CQE *)
(* was dropped or skipped, and none is when CQ and carriers have room for  *)
(* all of them and every receive posts its CQE.                            *)
(***************************************************************************)
EXTENDS BufferRing, SharedLemmas

\* Buffers that wait in the ring, how many, and those in CQEs.
Count == (tail + Wrap - head) % Wrap
Waiting == {WaitingAt(i) : i \in Provided}
InCqes == {cqes[i] : i \in DOMAIN cqes}
InHand == IF hand = None THEN {} ELSE {hand}

(***************************************************************************)
(* Every two places are disjoint, and the ring and the CQEs have nothing   *)
(* twice.  The ring's part holds for offsets, not counters, so that it     *)
(* says the same before and after a counter has come round.                *)
(***************************************************************************)
Apart ==
  /\ \A i \in Provided : WaitingAt(i) \in Bid
  /\ \A i, j \in Provided : WaitingAt(i) = WaitingAt(j) => i = j
  /\ \A i, j \in DOMAIN cqes : cqes[i] = cqes[j] => i = j
  /\ Waiting \cap caller = {} /\ Waiting \cap InCqes = {} /\ Waiting \cap InHand = {}
  /\ caller \cap InCqes = {} /\ caller \cap InHand = {}
  /\ InCqes \cap InHand = {}
  /\ lost \cap caller = {} /\ lost \cap Waiting = {}
  /\ lost \cap InCqes = {} /\ lost \cap InHand = {}

IInv == TypeOK /\ Count <= Entries /\ Apart /\ UngetRestores

\* Nothing is missing but what a CQE that never came has taken along.
Covered == Bid \subseteq caller \cup Waiting \cup InHand \cup InCqes \cup lost

-----------------------------------------------------------------------------
(***************************************************************************)
(* The counters, without the modulo.                                       *)
(***************************************************************************)
LEMMA Stepped ==
  ASSUME NEW h \in 0..(Wrap - 1)
  PROVE  /\ Succ(h) = IF h + 1 = Wrap THEN 0 ELSE h + 1
         /\ Pred(h) = IF h = 0 THEN Wrap - 1 ELSE h - 1
<1>1. Wrap \in Nat \ {0}
  BY BufferAssumption
<1>2. Succ(h) = IF h + 1 = Wrap THEN 0 ELSE h + 1
  BY <1>1, WrapSucc DEF Succ
<1>3. Pred(h) = IF h = 0 THEN Wrap - 1 ELSE h - 1
  BY <1>1, WrapPred DEF Pred
<1>4. QED
  BY <1>2, <1>3

LEMMA CountIs ==
  ASSUME head \in 0..(Wrap - 1), tail \in 0..(Wrap - 1)
  PROVE  Count = IF tail >= head THEN tail - head ELSE tail - head + Wrap
<1>1. Wrap \in Nat \ {0}
  BY BufferAssumption
<1>2. QED
  BY <1>1, WrapDifference DEF Count

LEMMA NextCountIs ==
  ASSUME head' \in 0..(Wrap - 1), tail' \in 0..(Wrap - 1)
  PROVE  Count' = IF tail' >= head' THEN tail' - head' ELSE tail' - head' + Wrap
<1>1. Wrap \in Nat \ {0}
  BY BufferAssumption
<1>2. QED
  BY <1>1, WrapDifference DEF Count

(***************************************************************************)
(* Which entry a counter selects: one of the ring's, another one for a     *)
(* counter less than a ring's length away, and the same one when it has    *)
(* come round.                                                             *)
(***************************************************************************)
LEMMA SlotInRing ==
  ASSUME NEW c \in Nat
  PROVE  Slot(c) \in 0..(Entries - 1)
  BY BufferAssumption, DivMod DEF Slot

LEMMA SlotsDiffer ==
  ASSUME NEW c \in Nat, NEW d \in Nat, c < d, d - c < Entries
  PROVE  Slot(c) # Slot(d)
  BY BufferAssumption, OtherEntry DEF Slot

LEMMA SlotWraps ==
  ASSUME NEW c \in Nat
  PROVE  Slot(Wrap + c) = Slot(c)
  BY BufferAssumption, SameEntry DEF Slot

LEMMA SlotAfterSucc ==
  ASSUME NEW h \in 0..(Wrap - 1), NEW i \in Nat
  PROVE  Slot(Succ(h) + i) = Slot(h + (i + 1))
<1>1. Wrap \in Nat \ {0}
  BY BufferAssumption
<1>2. CASE h + 1 = Wrap
  <2>1. Succ(h) + i = i /\ h + (i + 1) = Wrap + i
    BY <1>1, <1>2, Stepped
  <2>2. QED
    BY <2>1, SlotWraps
<1>3. CASE h + 1 # Wrap
  <2>1. Succ(h) = h + 1
    BY <1>3, Stepped
  <2>2. Succ(h) + i = h + (i + 1)
    BY <2>1
  <2>3. QED
    BY <2>2
<1>4. QED
  BY <1>2, <1>3

LEMMA SlotAfterPred ==
  ASSUME NEW h \in 0..(Wrap - 1), NEW i \in Nat
  PROVE  Slot(Pred(h) + (i + 1)) = Slot(h + i)
<1>1. Wrap \in Nat \ {0}
  BY BufferAssumption
<1>2. CASE h = 0
  <2>1. Pred(h) = Wrap - 1
    BY <1>2, Stepped
  <2>2. Pred(h) + (i + 1) = Wrap + i /\ h + i = i
    BY <1>1, <1>2, <2>1
  <2>3. QED
    BY <2>2, SlotWraps
<1>3. CASE h # 0
  <2>1. Pred(h) = h - 1
    BY <1>3, Stepped
  <2>2. Pred(h) + (i + 1) = h + i
    BY <2>1
  <2>3. QED
    BY <2>2
<1>4. QED
  BY <1>2, <1>3

(***************************************************************************)
(* The tail's entry is the one behind the last that waits.                 *)
(***************************************************************************)
LEMMA TailSlot ==
  ASSUME TypeOK
  PROVE  Count \in 0..(Wrap - 1) /\ Provided = 0..(Count - 1) /\ Slot(tail) = Slot(head + Count)
<1>1. Wrap \in Nat \ {0} /\ Entries \in Nat \ {0} /\ Wrap % Entries = 0
      /\ head \in 0..(Wrap - 1) /\ tail \in 0..(Wrap - 1)
  BY BufferAssumption DEF TypeOK
<1>2. Count = IF tail >= head THEN tail - head ELSE tail - head + Wrap
  BY <1>1, CountIs
<1>3. CASE tail >= head
  BY <1>1, <1>2, <1>3 DEF Provided, Count
<1>4. CASE tail < head
  <2>1. head + Count = Wrap + tail
    BY <1>1, <1>2, <1>4
  <2>2. Slot(Wrap + tail) = Slot(tail)
    BY <1>1, SlotWraps
  <2>3. QED
    BY <1>1, <1>2, <1>4, <2>1, <2>2 DEF Provided, Count
<1>5. QED
  BY <1>1, <1>3, <1>4

-----------------------------------------------------------------------------
(***************************************************************************)
(* Pigeonhole: buffers that are elsewhere are not in the ring, and the     *)
(* ring has an entry for every buffer.                                     *)
(***************************************************************************)
LEMMA RoomForTheRest ==
  ASSUME TypeOK, Apart, NEW X \in SUBSET Bid, X \cap Waiting = {}
  PROVE  Count + Cardinality(X) <= Entries
<1>1. Count \in Nat /\ Provided = 0..(Count - 1)
  BY TailSlot
<1>2. IsFiniteSet(Bid) /\ Cardinality(Bid) <= Entries /\ Entries \in Nat
  BY BufferAssumption
<1>3. IsFiniteSet(Provided) /\ Cardinality(Provided) = Count
  BY <1>1, FS_Interval
<1>4. IsFiniteSet(Waiting) /\ Cardinality(Waiting) = Count
  <2> DEFINE f == [i \in Provided |-> WaitingAt(i)]
  <2>1. f \in Bijection(Provided, Waiting)
    BY DEF Apart, Waiting, Bijection, Injection, Surjection, IsInjective
  <2>2. QED
    BY <1>3, <2>1, FS_Bijection, Zenon DEF ExistsBijection
<1>5. Waiting \subseteq Bid
  BY DEF Apart, Waiting
<1>6. IsFiniteSet(X) /\ Cardinality(X) \in Nat
  BY <1>2, FS_Subset, FS_CardinalityType
<1>7. Cardinality(Waiting \cup X) = Count + Cardinality(X)
  <2>1. Waiting \cap X = {}
    OBVIOUS
  <2>2. Cardinality(Waiting \cup X) = Cardinality(Waiting) + Cardinality(X) - Cardinality({})
    BY <1>4, <1>6, <2>1, FS_Union
  <2>3. QED
    BY <1>1, <1>4, <1>6, <2>2, FS_EmptySet
<1>8. Cardinality(Waiting \cup X) <= Cardinality(Bid)
  BY <1>2, <1>5, FS_Subset
<1>9. Cardinality(Bid) \in Nat
  BY <1>2, FS_CardinalityType
<1>10. QED
  BY <1>1, <1>2, <1>6, <1>7, <1>8, <1>9

(***************************************************************************)
(* With a buffer in hand there is an entry that neither waits nor is the   *)
(* tail's to write, and a buffer to add leaves one more.                   *)
(***************************************************************************)
LEMMA RoomForOne ==
  ASSUME IInv, hand # None
  PROVE  Count + 1 <= Entries
<1>1. hand \in Bid /\ {hand} \cap Waiting = {}
  BY DEF IInv, TypeOK, Apart, InHand
<1>2. Count + Cardinality({hand}) <= Entries
  BY <1>1, RoomForTheRest DEF IInv
<1>3. QED
  BY <1>2, FS_Singleton

LEMMA RoomToProvide ==
  ASSUME IInv, NEW b \in caller
  PROVE  /\ Count + 1 <= Entries
         /\ hand # None => Count + 2 <= Entries
<1>1. b \in Bid /\ {b} \cap Waiting = {}
  BY DEF IInv, TypeOK, Apart
<1>2. Count + 1 <= Entries
  <2>1. Count + Cardinality({b}) <= Entries
    BY <1>1, RoomForTheRest DEF IInv
  <2>2. QED
    BY <2>1, FS_Singleton
<1>3. ASSUME hand # None PROVE Count + 2 <= Entries
  <2>1. hand \in Bid /\ hand # b /\ {b, hand} \cap Waiting = {} /\ {b, hand} = {b} \cup {hand}
    BY <1>1, <1>3 DEF IInv, TypeOK, Apart, InHand
  <2>2. Cardinality({b, hand}) = 2
    <3>1. IsFiniteSet({b}) /\ Cardinality({b}) = 1 /\ hand \notin {b}
      BY <2>1, FS_Singleton
    <3>2. Cardinality({b} \cup {hand}) = Cardinality({b}) + 1
      BY <3>1, FS_AddElement
    <3>3. QED
      BY <2>1, <3>1, <3>2
  <2>3. Count + Cardinality({b, hand}) <= Entries
    BY <1>1, <2>1, RoomForTheRest DEF IInv
  <2>4. QED
    BY <2>2, <2>3
<1>4. QED
  BY <1>2, <1>3

-----------------------------------------------------------------------------
(***************************************************************************)
(* What the steps on the ring do to the buffers that wait.                 *)
(***************************************************************************)
LEMMA WaitingProvide ==
  ASSUME IInv, NEW b \in caller, Provide(b)
  PROVE  /\ Count' = Count + 1 /\ Provided' = 0..Count
         /\ \A i \in 0..Count : WaitingAt(i)' = IF i = Count THEN b ELSE WaitingAt(i)
<1>1. /\ head \in 0..(Wrap - 1) /\ tail \in 0..(Wrap - 1) /\ head' = head /\ tail' = Succ(tail)
      /\ bufs \in [0..(Entries - 1) -> Bid \cup {None}]
      /\ bufs' = [bufs EXCEPT ![Slot(tail)] = b]
      /\ Wrap \in Nat \ {0} /\ Entries \in Nat \ {0} /\ Wrap > Entries
  BY BufferAssumption DEF IInv, TypeOK, Provide
<1>2. Count \in Nat /\ Count + 1 <= Entries /\ Provided = 0..(Count - 1)
      /\ Slot(tail) = Slot(head + Count)
  BY TailSlot, RoomToProvide DEF IInv
<1>3. tail' \in 0..(Wrap - 1)
  BY <1>1, Stepped
<1>4. Count' = Count + 1
  <2>1. Count = IF tail >= head THEN tail - head ELSE tail - head + Wrap
    BY <1>1, CountIs
  <2>2. Count' = IF tail' >= head' THEN tail' - head' ELSE tail' - head' + Wrap
    BY <1>1, <1>3, NextCountIs
  <2>3. tail' = IF tail + 1 = Wrap THEN 0 ELSE tail + 1
    BY <1>1, Stepped
  <2>4. QED
    BY <1>1, <1>2, <2>1, <2>2, <2>3
<1>5. Provided' = 0..Count
  BY <1>2, <1>4 DEF Provided, Count
<1>6. ASSUME NEW i \in 0..Count
      PROVE  WaitingAt(i)' = IF i = Count THEN b ELSE WaitingAt(i)
  <2>1. head + i \in Nat /\ head + Count \in Nat
    BY <1>1, <1>2
  <2>2. Slot(head + i) \in 0..(Entries - 1)
    BY <2>1, SlotInRing
  <2>3. i # Count => Slot(head + i) # Slot(head + Count)
    <3>1. i # Count => head + i < head + Count /\ (head + Count) - (head + i) < Entries
      BY <1>1, <1>2
    <3>2. QED
      BY <2>1, <3>1, SlotsDiffer
  <2>4. QED
    BY <1>1, <1>2, <2>2, <2>3 DEF WaitingAt
<1>7. QED
  BY <1>4, <1>5, <1>6

(***************************************************************************)
(* Taking: the first that waits leaves, the others move up.                *)
(***************************************************************************)
LEMMA WaitingTake ==
  ASSUME IInv, Take
  PROVE  /\ Count' = Count - 1 /\ Count >= 1 /\ Provided' = 0..(Count - 2)
         /\ \A i \in 0..(Count - 2) : WaitingAt(i)' = WaitingAt(i + 1)
         /\ hand' = WaitingAt(0)
         /\ bufs'[Slot(Pred(head'))] = hand'
<1>1. /\ head \in 0..(Wrap - 1) /\ tail \in 0..(Wrap - 1) /\ head' = Succ(head) /\ tail' = tail
      /\ bufs' = bufs /\ head # tail /\ hand' = bufs[Slot(head)]
      /\ Wrap \in Nat \ {0}
  BY BufferAssumption DEF IInv, TypeOK, Take
<1>2. Count \in Nat /\ Provided = 0..(Count - 1)
  BY TailSlot DEF IInv
<1>3. head' \in 0..(Wrap - 1) /\ Pred(head') = head
  BY <1>1, Stepped
<1>4. Count' = Count - 1 /\ Count >= 1
  <2>1. Count = IF tail >= head THEN tail - head ELSE tail - head + Wrap
    BY <1>1, CountIs
  <2>2. Count' = IF tail' >= head' THEN tail' - head' ELSE tail' - head' + Wrap
    BY <1>1, <1>3, NextCountIs
  <2>3. head' = IF head + 1 = Wrap THEN 0 ELSE head + 1
    BY <1>1, Stepped
  <2>4. QED
    BY <1>1, <1>2, <2>1, <2>2, <2>3
<1>5. Provided' = 0..(Count - 2)
  BY <1>2, <1>4 DEF Provided, Count
<1>6. \A i \in 0..(Count - 2) : WaitingAt(i)' = WaitingAt(i + 1)
  BY <1>1, SlotAfterSucc DEF WaitingAt
<1>7. hand' = WaitingAt(0)
  <2>1. head + 0 = head
    BY <1>1
  <2>2. QED
    BY <1>1, <2>1 DEF WaitingAt
<1>8. QED
  BY <1>1, <1>3, <1>4, <1>5, <1>6, <1>7

(***************************************************************************)
(* Rewinding: the buffer in hand is the first that waits again.            *)
(***************************************************************************)
LEMMA WaitingUnget ==
  ASSUME IInv, Unget
  PROVE  /\ Count' = Count + 1 /\ Count' <= Entries /\ Provided' = 0..Count
         /\ \A i \in 0..Count : WaitingAt(i)' = IF i = 0 THEN hand ELSE WaitingAt(i - 1)
<1>1. /\ head \in 0..(Wrap - 1) /\ tail \in 0..(Wrap - 1) /\ head' = Pred(head) /\ tail' = tail
      /\ bufs' = bufs /\ hand # None /\ bufs[Slot(Pred(head))] = hand
      /\ Wrap \in Nat \ {0} /\ Entries \in Nat \ {0} /\ Wrap > Entries
  BY BufferAssumption DEF IInv, TypeOK, Unget, UngetRestores
<1>2. Count \in Nat /\ Provided = 0..(Count - 1) /\ Count + 1 <= Entries
  BY <1>1, TailSlot, RoomForOne DEF IInv
<1>3. head' \in 0..(Wrap - 1)
  BY <1>1, Stepped
<1>4. Count' = Count + 1
  <2>1. Count = IF tail >= head THEN tail - head ELSE tail - head + Wrap
    BY <1>1, CountIs
  <2>2. Count' = IF tail' >= head' THEN tail' - head' ELSE tail' - head' + Wrap
    BY <1>1, <1>3, NextCountIs
  <2>3. head' = IF head = 0 THEN Wrap - 1 ELSE head - 1
    BY <1>1, Stepped
  <2>4. QED
    BY <1>1, <1>2, <2>1, <2>2, <2>3
<1>5. Provided' = 0..Count
  BY <1>2, <1>4 DEF Provided, Count
<1>6. ASSUME NEW i \in 0..Count
      PROVE  WaitingAt(i)' = IF i = 0 THEN hand ELSE WaitingAt(i - 1)
  <2>1. CASE i = 0
    <3>1. head' + 0 = head'
      BY <1>1, <1>3
    <3>2. QED
      BY <1>1, <2>1, <3>1 DEF WaitingAt
  <2>2. CASE i # 0
    <3>1. i - 1 \in Nat /\ (i - 1) + 1 = i
      BY <1>2, <2>2
    <3>2. Slot(Pred(head) + ((i - 1) + 1)) = Slot(head + (i - 1))
      BY <1>1, <3>1, SlotAfterPred
    <3>3. QED
      BY <1>1, <2>2, <3>1, <3>2 DEF WaitingAt
  <2>3. QED
    BY <2>1, <2>2
<1>7. QED
  BY <1>2, <1>4, <1>5, <1>6

(***************************************************************************)
(* The CQEs: what a posted one adds and what a read one takes away.        *)
(***************************************************************************)
LEMMA PostBuffer ==
  ASSUME TypeOK, NEW b \in Bid, b \notin InCqes, cqes' = Append(cqes, b),
         \A i, j \in DOMAIN cqes : cqes[i] = cqes[j] => i = j
  PROVE  /\ cqes' \in Seq(Bid) /\ InCqes' = InCqes \cup {b}
         /\ \A i, j \in DOMAIN cqes' : cqes'[i] = cqes'[j] => i = j
<1>1. cqes \in Seq(Bid) /\ b \notin {cqes[i] : i \in DOMAIN cqes}
  BY DEF TypeOK, InCqes
<1>2. /\ {Append(cqes, b)[i] : i \in DOMAIN Append(cqes, b)} = {cqes[i] : i \in DOMAIN cqes} \cup {b}
      /\ \A i, j \in DOMAIN Append(cqes, b) : Append(cqes, b)[i] = Append(cqes, b)[j] => i = j
  BY <1>1, AppendDistinct
<1>3. QED
  BY <1>1, <1>2, AppendShape DEF InCqes

LEMMA ReadBuffer ==
  ASSUME TypeOK, cqes # <<>>, cqes' = Tail(cqes),
         \A i, j \in DOMAIN cqes : cqes[i] = cqes[j] => i = j
  PROVE  /\ cqes' \in Seq(Bid) /\ Head(cqes) \in InCqes /\ InCqes' = InCqes \ {Head(cqes)}
         /\ \A i, j \in DOMAIN cqes' : cqes'[i] = cqes'[j] => i = j
<1>1. cqes \in Seq(Bid)
  BY DEF TypeOK
<1>2. /\ Head(cqes) \in {cqes[i] : i \in DOMAIN cqes}
      /\ {Tail(cqes)[i] : i \in DOMAIN Tail(cqes)} = {cqes[i] : i \in DOMAIN cqes} \ {Head(cqes)}
      /\ \A i, j \in DOMAIN Tail(cqes) : Tail(cqes)[i] = Tail(cqes)[j] => i = j
  BY <1>1, TailDistinct
<1>3. QED
  BY <1>1, <1>2, TailShape DEF InCqes

-----------------------------------------------------------------------------
LEMMA InitIInv == Init => IInv /\ Covered
<1> SUFFICES ASSUME Init PROVE IInv /\ Covered
  OBVIOUS
<1>1. TypeOK
  BY BufferAssumption, EmptySeq DEF Init, TypeOK
<1>2. Count = 0 /\ Provided = {} /\ cqes = <<>> /\ Entries \in Nat \ {0}
  <2>1. head = 0 /\ tail = 0 /\ cqes = <<>>
    BY DEF Init
  <2>2. Count = 0
    BY <1>1, <2>1, CountIs DEF TypeOK
  <2>3. QED
    BY <2>1, <2>2, BufferAssumption DEF Provided, Count
<1>3. Waiting = {} /\ InCqes = {} /\ InHand = {} /\ lost = {}
  BY <1>2 DEF Init, Waiting, InCqes, InHand
<1>4. Apart
  BY <1>2, <1>3 DEF Apart
<1>5. QED
  BY <1>1, <1>2, <1>3, <1>4 DEF Init, IInv, UngetRestores, Covered

(***************************************************************************)
(* A step that leaves ring and counters alone leaves what waits alone.     *)
(***************************************************************************)
LEMMA WaitingUnchanged ==
  ASSUME UNCHANGED <<bufs, head, tail>>
  PROVE  /\ Count' = Count /\ Provided' = Provided /\ Waiting' = Waiting
         /\ \A i : WaitingAt(i)' = WaitingAt(i)
  BY DEF Count, Provided, Waiting, WaitingAt

(***************************************************************************)
(* What waits, as a set, with what makes it a set of different buffers.    *)
(***************************************************************************)
RingApart ==
  /\ \A i \in Provided : WaitingAt(i) \in Bid
  /\ \A i, j \in Provided : WaitingAt(i) = WaitingAt(j) => i = j

LEMMA RingProvide ==
  ASSUME IInv, NEW b \in caller, Provide(b)
  PROVE  Waiting' = Waiting \cup {b} /\ RingApart'
<1>1. /\ Count \in Nat /\ Provided = 0..(Count - 1) /\ Provided' = 0..Count
      /\ \A i \in 0..Count : WaitingAt(i)' = IF i = Count THEN b ELSE WaitingAt(i)
  BY TailSlot, WaitingProvide DEF IInv
<1>2. \A i \in Provided' : i = Count \/ i \in Provided
  BY <1>1
<1>3. \A i \in Provided : i \in Provided' /\ i # Count
  BY <1>1
<1>4. Count \in Provided'
  BY <1>1
<1>5. b \in Bid /\ b \notin Waiting
  BY DEF IInv, TypeOK, Apart
<1>6. Waiting' = Waiting \cup {b}
  <2>1. Waiting' = {WaitingAt(i)' : i \in Provided'}
    BY DEF Waiting
  <2>2. QED
    BY <1>1, <1>2, <1>3, <1>4, <2>1 DEF Waiting
<1>7. \A i \in Provided' : WaitingAt(i)' \in Bid
  BY <1>1, <1>2, <1>3, <1>5 DEF IInv, Apart
<1>8. ASSUME NEW i \in Provided', NEW j \in Provided', WaitingAt(i)' = WaitingAt(j)'
      PROVE  i = j
  BY <1>1, <1>2, <1>3, <1>5, <1>8 DEF IInv, Apart, Waiting
<1>9. QED
  BY <1>6, <1>7, <1>8 DEF RingApart

LEMMA RingTake ==
  ASSUME IInv, Take
  PROVE  hand' \in Waiting /\ Waiting' = Waiting \ {hand'} /\ RingApart'
<1>1. /\ Count \in Nat /\ Count >= 1 /\ Provided = 0..(Count - 1)
      /\ Provided' = 0..(Count - 2) /\ hand' = WaitingAt(0)
      /\ \A i \in 0..(Count - 2) : WaitingAt(i)' = WaitingAt(i + 1)
  BY TailSlot, WaitingTake DEF IInv
<1>2. 0 \in Provided /\ \A i \in Provided' : i + 1 \in Provided /\ i + 1 # 0
  BY <1>1
<1>3. \A i \in Provided : i # 0 => \E k \in Provided' : i = k + 1
  <2> SUFFICES ASSUME NEW i \in Provided, i # 0 PROVE \E k \in Provided' : i = k + 1
    OBVIOUS
  <2>1. i - 1 \in Provided' /\ i = (i - 1) + 1
    BY <1>1
  <2>2. QED
    BY <2>1
<1>4. hand' \in Waiting
  BY <1>1, <1>2 DEF Waiting
<1>5. Waiting' = {WaitingAt(i)' : i \in Provided'}
  BY DEF Waiting
<1>6. Waiting' \subseteq Waiting \ {hand'}
  <2> SUFFICES ASSUME NEW i \in Provided' PROVE WaitingAt(i)' \in Waiting \ {hand'}
    BY <1>5
  <2>1. WaitingAt(i)' = WaitingAt(i + 1) /\ i + 1 \in Provided /\ i + 1 # 0
    BY <1>1, <1>2
  <2>2. WaitingAt(i + 1) # WaitingAt(0)
    BY <1>2, <2>1 DEF IInv, Apart
  <2>3. QED
    BY <1>1, <2>1, <2>2 DEF Waiting
<1>7. Waiting \ {hand'} \subseteq Waiting'
  <2> SUFFICES ASSUME NEW i \in Provided, WaitingAt(i) # hand' PROVE WaitingAt(i) \in Waiting'
    BY DEF Waiting
  <2>1. PICK k \in Provided' : i = k + 1
    BY <1>1, <1>3
  <2>2. WaitingAt(k)' = WaitingAt(i)
    BY <1>1, <2>1
  <2>3. QED
    BY <1>5, <2>2
<1>8. \A i \in Provided' : WaitingAt(i)' \in Bid
  BY <1>1, <1>2 DEF IInv, Apart
<1>9. ASSUME NEW i \in Provided', NEW j \in Provided', WaitingAt(i)' = WaitingAt(j)'
      PROVE  i = j
  <2>1. WaitingAt(i + 1) = WaitingAt(j + 1) /\ i + 1 \in Provided /\ j + 1 \in Provided
    BY <1>1, <1>2, <1>9
  <2>2. i + 1 = j + 1
    BY <2>1 DEF IInv, Apart
  <2>3. QED
    BY <1>1, <2>2
<1>10. QED
  BY <1>4, <1>6, <1>7, <1>8, <1>9 DEF RingApart

LEMMA RingUnget ==
  ASSUME IInv, Unget
  PROVE  Waiting' = Waiting \cup {hand} /\ RingApart'
<1>1. /\ Count \in Nat /\ Provided = 0..(Count - 1) /\ Provided' = 0..Count
      /\ \A i \in 0..Count : WaitingAt(i)' = IF i = 0 THEN hand ELSE WaitingAt(i - 1)
  BY TailSlot, WaitingUnget DEF IInv
<1>2. 0 \in Provided' /\ \A i \in Provided' : i # 0 => i - 1 \in Provided
  BY <1>1
<1>3. \A k \in Provided : k + 1 \in Provided' /\ k + 1 # 0 /\ (k + 1) - 1 = k
  BY <1>1
<1>4. hand \in Bid /\ hand \notin Waiting
  BY DEF IInv, TypeOK, Apart, InHand, Unget
<1>5. Waiting' = {WaitingAt(i)' : i \in Provided'}
  BY DEF Waiting
<1>6. Waiting' \subseteq Waiting \cup {hand}
  BY <1>1, <1>2, <1>5 DEF Waiting
<1>7. Waiting \subseteq Waiting'
  <2> SUFFICES ASSUME NEW k \in Provided PROVE WaitingAt(k) \in Waiting'
    BY DEF Waiting
  <2>1. WaitingAt(k + 1)' = WaitingAt(k) /\ k + 1 \in Provided'
    BY <1>1, <1>3
  <2>2. QED
    BY <1>5, <2>1
<1>8. hand \in Waiting'
  <2>1. WaitingAt(0)' = hand
    BY <1>1, <1>2
  <2>2. QED
    BY <1>2, <1>5, <2>1
<1>9. \A i \in Provided' : WaitingAt(i)' \in Bid
  BY <1>1, <1>2, <1>4 DEF IInv, Apart
<1>10. ASSUME NEW i \in Provided', NEW j \in Provided', WaitingAt(i)' = WaitingAt(j)'
       PROVE  i = j
  <2>1. CASE i # 0 /\ j # 0
    <3>1. WaitingAt(i - 1) = WaitingAt(j - 1) /\ i - 1 \in Provided /\ j - 1 \in Provided
      BY <1>1, <1>2, <1>10, <2>1
    <3>2. i - 1 = j - 1
      BY <3>1 DEF IInv, Apart
    <3>3. QED
      BY <1>1, <3>2
  <2>2. CASE i = 0 \/ j = 0
    BY <1>1, <1>2, <1>4, <1>10, <2>2 DEF Waiting
  <2>3. QED
    BY <2>1, <2>2
<1>11. QED
  BY <1>6, <1>7, <1>8, <1>9, <1>10 DEF RingApart

-----------------------------------------------------------------------------
(***************************************************************************)
(* Every step keeps the inductive invariant.                               *)
(***************************************************************************)
LEMMA NextIInv == IInv /\ [Next]_vars => IInv'
<1> SUFFICES ASSUME IInv, [Next]_vars PROVE IInv'
  OBVIOUS
<1> USE BufferAssumption
<1>1. ASSUME NEW b \in Bid, Provide(b) PROVE IInv'
  <2>1. b \in caller
    BY <1>1 DEF Provide
  <2>2. Waiting' = Waiting \cup {b} /\ RingApart' /\ Count' <= Entries
    BY <1>1, <2>1, RingProvide, WaitingProvide, RoomToProvide
  <2>3. Count \in Nat /\ head \in 0..(Wrap - 1) /\ tail \in 0..(Wrap - 1) /\ Slot(tail) = Slot(head + Count)
    BY TailSlot DEF IInv, TypeOK
  <2>4. tail' \in 0..(Wrap - 1)
    BY <1>1, <2>3, Stepped DEF Provide
  <2>5. TypeOK'
    BY <1>1, <2>1, <2>4 DEF IInv, TypeOK, Provide
  <2>6. Apart'
    BY <1>1, <2>1, <2>2 DEF IInv, Apart, RingApart, Provide, InCqes, InHand
  <2>7. UngetRestores'
    <3> SUFFICES ASSUME hand # None PROVE bufs'[Slot(Pred(head))] = hand
      BY <1>1 DEF Provide, UngetRestores
    <3>1. Count + 2 <= Entries /\ Pred(head) \in Nat /\ Pred(head) + (Count + 1) \in Nat
      BY <2>1, <2>3, RoomToProvide, Stepped
    <3>2. Slot(Pred(head) + (Count + 1)) = Slot(tail)
      BY <2>3, SlotAfterPred
    <3>3. Slot(Pred(head)) # Slot(Pred(head) + (Count + 1))
      BY <2>3, <3>1, SlotsDiffer
    <3>4. Slot(Pred(head)) \in 0..(Entries - 1)
      BY <3>1, SlotInRing
    <3>5. QED
      BY <1>1, <3>2, <3>3, <3>4 DEF IInv, TypeOK, UngetRestores, Provide
  <2>8. QED
    BY <2>2, <2>5, <2>6, <2>7 DEF IInv
<1>2. CASE Take
  <2>1. hand' \in Waiting /\ Waiting' = Waiting \ {hand'} /\ RingApart'
    BY <1>2, RingTake
  <2>2. Count' = Count - 1 /\ Count \in Nat /\ bufs'[Slot(Pred(head'))] = hand'
    BY <1>2, WaitingTake, TailSlot DEF IInv
  <2>3. head \in 0..(Wrap - 1) /\ head' = Succ(head) /\ Waiting \subseteq Bid
    BY <1>2 DEF IInv, TypeOK, Take, Apart, Waiting
  <2>4. head' \in 0..(Wrap - 1)
    BY <2>3, Stepped
  <2>5. hand' \in Bid
    BY <2>1, <2>3
  <2>6. TypeOK'
    BY <1>2, <2>4, <2>5 DEF IInv, TypeOK, Take
  <2>7. Apart'
    BY <1>2, <2>1, <2>5 DEF IInv, Apart, RingApart, Take, InCqes, InHand
  <2>8. UngetRestores'
    BY <2>2 DEF UngetRestores
  <2>9. QED
    BY <2>2, <2>6, <2>7, <2>8 DEF IInv
<1>3. CASE Unget
  <2>1. Waiting' = Waiting \cup {hand} /\ RingApart' /\ Count' <= Entries
    BY <1>3, RingUnget, WaitingUnget
  <2>2. head' \in 0..(Wrap - 1)
    BY <1>3, Stepped DEF IInv, TypeOK, Unget
  <2>3. TypeOK'
    BY <1>3, <2>2 DEF IInv, TypeOK, Unget
  <2>4. Apart'
    BY <1>3, <2>1 DEF IInv, Apart, RingApart, Unget, InCqes, InHand
  <2>5. QED
    BY <1>3, <2>1, <2>3, <2>4 DEF IInv, UngetRestores, Unget
<1>4. ASSUME hand # None, cqes' = Append(cqes, hand), hand' = None,
             UNCHANGED <<bufs, head, tail, caller, lost>>
      PROVE  IInv'
  <2>1. hand \in Bid /\ hand \notin InCqes
    BY <1>4 DEF IInv, TypeOK, Apart, InHand
  <2>2. /\ cqes' \in Seq(Bid) /\ InCqes' = InCqes \cup {hand}
        /\ \A i, j \in DOMAIN cqes' : cqes'[i] = cqes'[j] => i = j
    BY <1>4, <2>1, PostBuffer DEF IInv, Apart
  <2>3. Count' = Count /\ Provided' = Provided /\ Waiting' = Waiting /\ \A i : WaitingAt(i)' = WaitingAt(i)
    BY <1>4, WaitingUnchanged
  <2>4. TypeOK'
    BY <1>4, <2>2 DEF IInv, TypeOK
  <2>5. Apart'
    BY <1>4, <2>2, <2>3 DEF IInv, Apart, InHand
  <2>6. QED
    BY <1>4, <2>3, <2>4, <2>5 DEF IInv, UngetRestores
<1>5. ASSUME hand # None, hand' = None, lost' = lost \cup {hand},
             UNCHANGED <<bufs, head, tail, cqes, caller>>
      PROVE  IInv'
  <2>1. Count' = Count /\ Provided' = Provided /\ Waiting' = Waiting /\ \A i : WaitingAt(i)' = WaitingAt(i)
    BY <1>5, WaitingUnchanged
  <2>2. TypeOK'
    BY <1>5 DEF IInv, TypeOK
  <2>3. Apart'
    BY <1>5, <2>1 DEF IInv, Apart, InHand, InCqes
  <2>4. QED
    BY <1>5, <2>1, <2>2, <2>3 DEF IInv, UngetRestores
<1>6. CASE EmitFilled \/ CompleteFilled
  BY <1>4, <1>6 DEF EmitFilled, CompleteFilled
<1>7. CASE EmitDropped \/ CompleteSkipped
  BY <1>5, <1>7 DEF EmitDropped, CompleteSkipped
<1>8. CASE ReadCqe
  <2>1. /\ cqes' \in Seq(Bid) /\ Head(cqes) \in InCqes /\ InCqes' = InCqes \ {Head(cqes)}
        /\ \A i, j \in DOMAIN cqes' : cqes'[i] = cqes'[j] => i = j
    BY <1>8, ReadBuffer DEF IInv, Apart, ReadCqe
  <2>2. Count' = Count /\ Provided' = Provided /\ Waiting' = Waiting /\ \A i : WaitingAt(i)' = WaitingAt(i)
    BY <1>8, WaitingUnchanged DEF ReadCqe
  <2>3. Head(cqes) \in Bid
    BY <1>8, HeadTailProperties DEF IInv, TypeOK, ReadCqe
  <2>4. TypeOK'
    BY <1>8, <2>1, <2>3 DEF IInv, TypeOK, ReadCqe
  <2>5. Apart'
    BY <1>8, <2>1, <2>2 DEF IInv, Apart, InHand, ReadCqe
  <2>6. QED
    BY <1>8, <2>2, <2>4, <2>5 DEF IInv, UngetRestores, ReadCqe
<1>9. CASE Reregister
  <2>1. Count' = 0 /\ Provided' = {} /\ Waiting' = {}
    <3>1. head' = 0 /\ tail' = 0
      BY <1>9 DEF Reregister
    <3>2. Count' = 0
      BY <3>1, NextCountIs
    <3>3. QED
      BY <3>2 DEF Provided, Count, Waiting
  <2>2. caller' = caller \cup Waiting \cup lost /\ Waiting \subseteq Bid /\ hand = None
    BY <1>9 DEF Reregister, Waiting, IInv, Apart
  <2>3. TypeOK'
    BY <1>9, <2>2 DEF IInv, TypeOK, Reregister
  <2>4. Apart'
    BY <1>9, <2>1, <2>2 DEF IInv, Apart, InHand, InCqes, Reregister
  <2>5. QED
    BY <1>9, <2>1, <2>2, <2>3, <2>4 DEF IInv, UngetRestores, Reregister
<1>10. CASE UNCHANGED vars
  <2>1. Count' = Count /\ Provided' = Provided /\ Waiting' = Waiting /\ \A i : WaitingAt(i)' = WaitingAt(i)
    BY <1>10, WaitingUnchanged DEF vars
  <2>2. QED
    BY <1>10, <2>1 DEF IInv, TypeOK, Apart, UngetRestores, InHand, InCqes, vars
<1>11. QED
  BY <1>1, <1>2, <1>3, <1>6, <1>7, <1>8, <1>9, <1>10 DEF Next

-----------------------------------------------------------------------------
(***************************************************************************)
(* As many CQEs wait as buffers are in them, and the one in hand is not:   *)
(* with room for all of them an emission is never dropped.                 *)
(***************************************************************************)
LEMMA RoomToEmit ==
  ASSUME IInv, hand # None, CqRoom >= Cardinality(Bid)
  PROVE  Len(cqes) < CqRoom
<1>1. IsFiniteSet(Bid) /\ Cardinality(Bid) \in Nat /\ CqRoom \in Nat
  BY BufferAssumption, FS_CardinalityType
<1>2. Len(cqes) \in Nat /\ DOMAIN cqes = 1..Len(cqes)
  BY LenProperties DEF IInv, TypeOK
<1>3. InCqes \subseteq Bid \ {hand} /\ hand \in Bid
  BY <1>2, ElementOfSeq DEF IInv, TypeOK, Apart, InCqes, InHand
<1>4. IsFiniteSet(DOMAIN cqes) /\ Cardinality(DOMAIN cqes) = Len(cqes)
  <2>1. IsFiniteSet(1..Len(cqes)) /\ Cardinality(1..Len(cqes)) = IF 1 > Len(cqes) THEN 0 ELSE Len(cqes) - 1 + 1
    BY <1>2, FS_Interval
  <2>2. QED
    BY <1>2, <2>1
<1>5. Cardinality(InCqes) = Len(cqes)
  <2>1. cqes \in Bijection(DOMAIN cqes, InCqes)
    BY <1>2 DEF IInv, TypeOK, Apart, InCqes, Bijection, Injection, Surjection, IsInjective
  <2>2. QED
    BY <1>4, <2>1, FS_Bijection, Zenon DEF ExistsBijection
<1>6. IsFiniteSet(Bid \ {hand}) /\ Cardinality(Bid \ {hand}) = Cardinality(Bid) - 1
  BY <1>1, <1>3, FS_RemoveElement
<1>7. Cardinality(InCqes) <= Cardinality(Bid \ {hand})
  BY <1>3, <1>6, FS_Subset
<1>8. QED
  BY <1>1, <1>2, <1>5, <1>6, <1>7

(***************************************************************************)
(* No step takes a buffer away but one that drops or skips its CQE.        *)
(***************************************************************************)
LEMMA NextCovered ==
  ASSUME IInv, Covered, [Next]_vars
  PROVE  Covered'
<1>1. ASSUME NEW b \in Bid, Provide(b) PROVE Covered'
  <2>1. Waiting' = Waiting \cup {b}
    BY <1>1, RingProvide DEF Provide
  <2>2. QED
    BY <1>1, <2>1 DEF Covered, Provide, InHand, InCqes
<1>2. CASE Take
  <2>1. hand' \in Waiting /\ Waiting' = Waiting \ {hand'} /\ hand' # None
    BY <1>2, RingTake, BufferAssumption DEF IInv, Apart, Waiting
  <2>2. QED
    BY <1>2, <2>1 DEF Covered, Take, InHand, InCqes
<1>3. CASE Unget
  <2>1. Waiting' = Waiting \cup {hand}
    BY <1>3, RingUnget
  <2>2. QED
    BY <1>3, <2>1 DEF Covered, Unget, InHand, InCqes
<1>4. CASE EmitFilled \/ CompleteFilled
  <2>1. hand # None /\ cqes' = Append(cqes, hand) /\ hand' = None /\ caller' = caller
        /\ UNCHANGED <<bufs, head, tail, lost>>
    BY <1>4 DEF EmitFilled, CompleteFilled
  <2>2. hand \in Bid /\ hand \notin InCqes
    BY <2>1 DEF IInv, TypeOK, Apart, InHand
  <2>3. InCqes' = InCqes \cup {hand}
    BY <2>1, <2>2, PostBuffer DEF IInv, Apart
  <2>4. Waiting' = Waiting
    BY <2>1, WaitingUnchanged
  <2>5. QED
    BY <2>1, <2>3, <2>4 DEF Covered, InHand
<1>5. CASE EmitDropped \/ CompleteSkipped
  <2>1. lost' = lost \cup {hand} /\ UNCHANGED <<bufs, head, tail, cqes, caller>>
    BY <1>5 DEF EmitDropped, CompleteSkipped
  <2>2. Waiting' = Waiting
    BY <2>1, WaitingUnchanged
  <2>3. QED
    BY <2>1, <2>2 DEF Covered, InHand, InCqes
<1>6. CASE ReadCqe
  <2>1. InCqes' = InCqes \ {Head(cqes)}
    BY <1>6, ReadBuffer DEF IInv, Apart, ReadCqe
  <2>2. Waiting' = Waiting
    BY <1>6, WaitingUnchanged DEF ReadCqe
  <2>3. QED
    BY <1>6, <2>1, <2>2 DEF Covered, InHand, ReadCqe
<1>7. CASE Reregister
  BY <1>7 DEF Covered, Reregister, Waiting, InHand, InCqes
<1>8. CASE UNCHANGED vars
  <2>1. Waiting' = Waiting
    BY <1>8, WaitingUnchanged DEF vars
  <2>2. QED
    BY <1>8, <2>1 DEF Covered, InHand, InCqes, vars
<1>9. QED
  BY <1>1, <1>2, <1>3, <1>4, <1>5, <1>6, <1>7, <1>8 DEF Next

(***************************************************************************)
(* With room for every buffer, and a CQE for every receive, nothing is     *)
(* dropped and nothing skipped.                                            *)
(***************************************************************************)
LEMMA NextNothingLost ==
  ASSUME CqRoom >= Cardinality(Bid), ~SkipSuccess, IInv, lost = {}, [Next]_vars
  PROVE  lost' = {}
<1>1. ASSUME NEW b \in Bid, Provide(b) PROVE lost' = {}
  BY <1>1 DEF Provide
<1>2. CASE Take \/ Unget \/ EmitFilled \/ CompleteFilled \/ ReadCqe
  BY <1>2 DEF Take, Unget, EmitFilled, CompleteFilled, ReadCqe
<1>3. ~EmitDropped
  <2> SUFFICES ASSUME EmitDropped PROVE FALSE
    OBVIOUS
  <2>1. hand # None /\ Len(cqes) >= CqRoom
    BY DEF EmitDropped
  <2>2. Len(cqes) < CqRoom
    BY <2>1, RoomToEmit
  <2>3. Len(cqes) \in Nat /\ CqRoom \in Nat
    BY LenProperties, BufferAssumption DEF IInv, TypeOK
  <2>4. QED
    BY <2>1, <2>2, <2>3
<1>4. ~CompleteSkipped
  BY DEF CompleteSkipped
<1>5. CASE Reregister
  BY <1>5 DEF Reregister
<1>6. CASE UNCHANGED vars
  BY <1>6 DEF vars
<1>7. QED
  BY <1>1, <1>2, <1>3, <1>4, <1>5, <1>6 DEF Next

(***************************************************************************)
(* Places, without the cardinalities.                                      *)
(***************************************************************************)
LEMMA PlacesCounted ==
  ASSUME IInv, NEW b
  PROVE  Places(b) = (IF b \in caller THEN 1 ELSE 0) + (IF b \in Waiting THEN 1 ELSE 0)
                     + (IF b = hand THEN 1 ELSE 0) + (IF b \in InCqes THEN 1 ELSE 0)
<1> DEFINE W == {i \in Provided : WaitingAt(i) = b}
           C == {i \in DOMAIN cqes : cqes[i] = b}
<1>1. Cardinality(W) = IF W = {} THEN 0 ELSE 1
  <2>1. \A i, j \in W : i = j
    BY DEF IInv, Apart
  <2>2. QED
    BY <2>1, AtMostOne
<1>2. Cardinality(C) = IF C = {} THEN 0 ELSE 1
  <2>1. \A i, j \in C : i = j
    BY DEF IInv, Apart
  <2>2. QED
    BY <2>1, AtMostOne
<1>3. W = {} <=> b \notin Waiting
  BY DEF Waiting
<1>4. C = {} <=> b \notin InCqes
  BY DEF InCqes
<1>5. QED
  BY <1>1, <1>2, <1>3, <1>4 DEF Places

LEMMA OncePlaced ==
  ASSUME IInv, Covered, NEW b \in Bid
  PROVE  Places(b) = IF b \in lost THEN 0 ELSE 1
<1>1. \/ b \in caller /\ b \notin Waiting /\ b # hand /\ b \notin InCqes /\ b \notin lost
      \/ b \notin caller /\ b \in Waiting /\ b # hand /\ b \notin InCqes /\ b \notin lost
      \/ b \notin caller /\ b \notin Waiting /\ b = hand /\ b \notin InCqes /\ b \notin lost
      \/ b \notin caller /\ b \notin Waiting /\ b # hand /\ b \in InCqes /\ b \notin lost
      \/ b \notin caller /\ b \notin Waiting /\ b # hand /\ b \notin InCqes /\ b \in lost
  BY BufferAssumption DEF IInv, Apart, InHand, Covered
<1>2. QED
  BY <1>1, PlacesCounted

-----------------------------------------------------------------------------
(***************************************************************************)
(* bufring_take, bufring_unget and the caller's own writes keep IInv in    *)
(* whatever order they come.                                               *)
(***************************************************************************)
THEOREM Invariance == Spec => []IInv
  BY InitIInv, NextIInv, PTL DEF Spec

(***************************************************************************)
(* The counters of struct bufring stay within their 16 bits, and a buffer  *)
(* that the engine has in hand is one that was provided.                   *)
(***************************************************************************)
THEOREM TypeCorrect == Spec => []TypeOK
<1>1. IInv => TypeOK
  BY DEF IInv
<1>2. QED
  BY <1>1, Invariance, PTL

(***************************************************************************)
(* bufring_unget's rewind exposes the buffer bufring_take took, however    *)
(* many buffers the caller has added since.                                *)
(***************************************************************************)
THEOREM RewindGivesBack == Spec => []UngetRestores
<1>1. IInv => UngetRestores
  BY DEF IInv
<1>2. QED
  BY <1>1, Invariance, PTL

(***************************************************************************)
(* The ring never holds more buffers than it has entries: the caller's     *)
(* tail does not run over the engine's head.                               *)
(***************************************************************************)
THEOREM NeverOverrun == Spec => [](Count <= Entries)
<1>1. IInv => Count <= Entries
  BY DEF IInv
<1>2. QED
  BY <1>1, Invariance, PTL

(***************************************************************************)
(* No buffer is filled for two receives or provided while it is in use,    *)
(* whether emissions are dropped or not.                                   *)
(***************************************************************************)
NeverTwice == \A b \in Bid : Places(b) <= 1

THEOREM NoBufferTwice == Spec => []NeverTwice
<1>1. IInv => NeverTwice
  <2> SUFFICES ASSUME IInv, NEW b \in Bid PROVE Places(b) <= 1
    BY DEF NeverTwice
  <2>1. \/ b \notin caller /\ b \notin Waiting /\ b \notin InCqes
        \/ b \notin caller /\ b \notin Waiting /\ b # hand
        \/ b \notin caller /\ b # hand /\ b \notin InCqes
        \/ b # hand /\ b \notin Waiting /\ b \notin InCqes
    BY BufferAssumption DEF IInv, Apart, InHand
  <2>2. QED
    BY <2>1, PlacesCounted
<1>2. QED
  BY <1>1, Invariance, PTL

(***************************************************************************)
(* Every buffer is in exactly one place, or its CQE was dropped or skipped *)
(* and it is in none.                                                      *)
(***************************************************************************)
THEOREM BuffersAccounted == Spec => []EachBufferAccounted
<1>1. Init => IInv /\ Covered
  BY InitIInv
<1>2. IInv /\ Covered /\ [Next]_vars => (IInv /\ Covered)'
  BY NextIInv, NextCovered
<1>3. IInv /\ Covered => EachBufferAccounted
  BY OncePlaced DEF EachBufferAccounted
<1>4. QED
  BY <1>1, <1>2, <1>3, PTL DEF Spec

(***************************************************************************)
(* With room in CQ and carriers for a CQE of every buffer, and no receive  *)
(* under IOSQE_CQE_SKIP_SUCCESS, none is ever lost to the caller.          *)
(***************************************************************************)
THEOREM NoBufferLost ==
  ASSUME CqRoom >= Cardinality(Bid), ~SkipSuccess
  PROVE  Spec => []EachBufferOnce
<1>1. Init => IInv /\ Covered /\ lost = {}
  BY InitIInv DEF Init
<1>2. IInv /\ Covered /\ lost = {} /\ [Next]_vars => (IInv /\ Covered /\ lost = {})'
  BY NextIInv, NextCovered, NextNothingLost
<1>3. IInv /\ Covered /\ lost = {} => EachBufferOnce
  BY OncePlaced DEF EachBufferOnce
<1>4. QED
  BY <1>1, <1>2, <1>3, PTL DEF Spec
=============================================================================
