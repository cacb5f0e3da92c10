--------------------------- MODULE FixedFilesProofs ---------------------------
(***************************************************************************)
(* FixedFiles for every set of descriptors and every size of table.  The   *)
(* table's shape and the place of every descriptor are inductive together; *)
(* that the search misses no free slot is arithmetic over the shape.       *)
(***************************************************************************)
EXTENDS FixedFiles, TLAPS

IInv == TypeOK /\ EachDescriptorOnce

(***************************************************************************)
(* Every probe of slip_fixed_install falls into the alloc range.           *)
(***************************************************************************)
LEMMA ProbeInRange ==
  ASSUME TypeOK, NEW t \in 0..(len - 1)
  PROVE  Probe(t) \in Int /\ InRange(Probe(t)) /\ Probe(t) \in 0..(n - 1)
BY DEF TypeOK, Probe, Start, InRange, End

(***************************************************************************)
(* And every slot of the range is probed.                                  *)
(***************************************************************************)
LEMMA ProbeReachesAll ==
  ASSUME TypeOK, NEW s \in Int, InRange(s)
  PROVE  \E t \in 0..(len - 1) : Probe(t) = s
<1>1. CASE s >= Start
  <2>1. s - Start \in 0..(len - 1) /\ Start + (s - Start) = s
    BY <1>1 DEF TypeOK, Start, InRange, End
  <2>2. Probe(s - Start) = s
    BY <2>1 DEF TypeOK, Probe, Start, InRange, End
  <2> QED BY <2>1, <2>2
<1>2. CASE s < Start
  <2>1. s - Start + len \in 0..(len - 1)
    BY <1>2 DEF TypeOK, Start, InRange, End
  <2>2. Probe(s - Start + len) = s
    BY <1>2, <2>1 DEF TypeOK, Probe, Start, InRange, End
  <2> QED BY <2>1, <2>2
<1> QED BY <1>1, <1>2 DEF TypeOK, Start, InRange, End

THEOREM InitIInv == Init => IInv
BY FixedAssumption DEF Init, IInv, TypeOK, EachDescriptorOnce, InTable, Fresh

(***************************************************************************)
(* A new descriptor goes into a free slot.                                 *)
(***************************************************************************)
LEMMA PlaceKeepsIInv ==
  ASSUME IInv, NEW s \in DOMAIN fixed, Free(s), ~Idle, Place(s), hint' \in 0..n
  PROVE  IInv'
<1>1. fresh \in Fd /\ Fresh = {fresh} /\ fresh \notin InTable \cup held \cup leaked
  BY DEF IInv, TypeOK, Idle, Fresh, EachDescriptorOnce
<1>2. fixed' \in [0..(n - 1) -> Fd \cup {Empty}] /\ DOMAIN fixed' = DOMAIN fixed
  BY <1>1 DEF IInv, TypeOK, Place
<1>3. TypeOK'
  BY <1>2 DEF IInv, TypeOK, Place
<1>4. InTable' = InTable \cup {fresh}
  <2>1. fixed'[s] = fresh /\ \A t \in DOMAIN fixed : t # s => fixed'[t] = fixed[t]
    BY DEF Place, IInv, TypeOK
  <2> QED BY <1>1, <1>2, <2>1, FixedAssumption DEF InTable, Free
<1>5. Fresh' = {}
  BY DEF Place, Fresh
<1>6. \A a, b \in DOMAIN fixed' : a # b /\ ~Free(a)' => fixed'[a] # fixed'[b]
  <2> SUFFICES ASSUME NEW a \in DOMAIN fixed, NEW b \in DOMAIN fixed, a # b,
                      fixed'[a] # Empty
               PROVE  fixed'[a] # fixed'[b]
    BY <1>2 DEF Free
  <2>1. \A t \in DOMAIN fixed : fixed[t] # fresh
    BY <1>1, FixedAssumption DEF InTable
  <2>2. fixed'[s] = fresh /\ \A t \in DOMAIN fixed : t # s => fixed'[t] = fixed[t]
    BY DEF Place, IInv, TypeOK
  <2> QED BY <2>1, <2>2 DEF IInv, EachDescriptorOnce, Free
<1> QED
  BY <1>1, <1>3, <1>4, <1>5, <1>6 DEF IInv, EachDescriptorOnce, Place

(***************************************************************************)
(* Descriptors leave the table, closed or with the table itself.           *)
(***************************************************************************)
LEMMA CloseDirectKeepsIInv ==
  ASSUME IInv, NEW s \in 0..MaxSlots, CloseDirect(s)
  PROVE  IInv'
<1>1. fixed[s] \in Fd /\ fixed[s] \in InTable /\ Fresh = {} /\ Fresh' = {}
  BY DEF IInv, TypeOK, CloseDirect, Free, InTable, Idle, Fresh
<1>2. /\ fixed' \in [0..(n - 1) -> Fd \cup {Empty}] /\ DOMAIN fixed' = DOMAIN fixed
      /\ fixed'[s] = Empty /\ \A t \in DOMAIN fixed : t # s => fixed'[t] = fixed[t]
  BY DEF IInv, TypeOK, CloseDirect
<1>3. TypeOK'
  BY <1>2 DEF IInv, TypeOK, CloseDirect
<1>4. InTable' = InTable \ {fixed[s]}
  <2>1. \A t \in DOMAIN fixed : t # s => fixed[t] # fixed[s]
    BY DEF CloseDirect, IInv, EachDescriptorOnce, Free
  <2> QED BY <1>2, <2>1 DEF InTable, CloseDirect
<1>5. \A a, b \in DOMAIN fixed' : a # b /\ ~Free(a)' => fixed'[a] # fixed'[b]
  BY <1>2 DEF IInv, EachDescriptorOnce, Free
<1> QED
  BY <1>1, <1>3, <1>4, <1>5 DEF IInv, EachDescriptorOnce, CloseDirect

LEMMA EmptyTable ==
  ASSUME NEW t, t = [s \in {} |-> Empty]
  PROVE  t \in [0..(0 - 1) -> Fd \cup {Empty}] /\ DOMAIN t = {}
OBVIOUS

(***************************************************************************)
(* Every operation on the table keeps its shape and every descriptor in    *)
(* its one place.                                                          *)
(***************************************************************************)
THEOREM NextIInv == IInv /\ [Next]_vars => IInv'
<1> SUFFICES ASSUME IInv, [Next]_vars PROVE IInv'
  OBVIOUS
<1> USE FixedAssumption
<1>1. ASSUME NEW k \in 1..MaxSlots, RegisterFiles(k) PROVE IInv'
  <2>1. InTable = {} /\ InTable' = {} /\ Fresh' = Fresh
    BY <1>1 DEF RegisterFiles, Registered, IInv, TypeOK, InTable, Fresh
  <2>2. TypeOK'
    BY <1>1 DEF RegisterFiles, IInv, TypeOK
  <2> QED
    BY <1>1, <2>1, <2>2 DEF RegisterFiles, IInv, EachDescriptorOnce, Free
<1>2. CASE UnregisterFiles
  <2>1. InTable' = {} /\ Fresh = {} /\ Fresh' = {}
    BY <1>2 DEF UnregisterFiles, InTable, Fresh, Idle
  <2>2. TypeOK'
    BY <1>2, EmptyTable DEF UnregisterFiles, IInv, TypeOK
  <2> QED
    BY <1>2, <2>1, <2>2 DEF UnregisterFiles, IInv, EachDescriptorOnce, Free
<1>3. ASSUME NEW o \in 0..MaxSlots, NEW l \in 0..MaxSlots, AllocRange(o, l) PROVE IInv'
  BY <1>3 DEF AllocRange, IInv, TypeOK, EachDescriptorOnce, InTable, Fresh, Free
<1>4. ASSUME NEW fd \in Fd, Make(fd) PROVE IInv'
  BY <1>4 DEF Make, Idle, IInv, TypeOK, EachDescriptorOnce, InTable, Fresh, Free
<1>5. ASSUME NEW fd \in Fd, ClosePlain(fd) PROVE IInv'
  BY <1>5 DEF ClosePlain, Idle, IInv, TypeOK, EachDescriptorOnce, InTable, Fresh, Free
<1>6. CASE InstallAlloc
  <2>1. PICK t \in 0..(len - 1) : Free(Probe(t)) /\ Place(Probe(t)) /\ hint' = Probe(t) + 1
    BY <1>6 DEF InstallAlloc, Hits
  <2>2. Probe(t) \in 0..(n - 1)
    BY ProbeInRange DEF IInv
  <2>3. Probe(t) \in DOMAIN fixed /\ hint' \in 0..n
    BY <2>1, <2>2 DEF IInv, TypeOK
  <2> QED BY <1>6, <2>1, <2>3, PlaceKeepsIInv DEF InstallAlloc
<1>7. ASSUME NEW s \in 0..MaxSlots, InstallNamed(s) PROVE IInv'
  <2>1. hint' \in 0..n
    BY <1>7 DEF InstallNamed, IInv, TypeOK
  <2> QED BY <1>7, <2>1, PlaceKeepsIInv DEF InstallNamed
<1>8. ASSUME CloseFresh PROVE IInv'
  BY <1>8 DEF CloseFresh, Idle, IInv, TypeOK, EachDescriptorOnce, InTable, Fresh, Free
<1>9. CASE HandOver
  BY <1>9 DEF HandOver, Idle, IInv, TypeOK, EachDescriptorOnce, InTable, Fresh, Free
<1>10. CASE AnswerLost
  BY <1>10 DEF AnswerLost, Idle, IInv, TypeOK, EachDescriptorOnce, InTable, Fresh, Free
<1>11. CASE UNCHANGED vars
  BY <1>11 DEF vars, IInv, TypeOK, EachDescriptorOnce, InTable, Fresh, Free
<1> QED
  BY <1>1, <1>2, <1>3, <1>4, <1>5, <1>6, <1>7, <1>8, <1>9, <1>10, <1>11, CloseDirectKeepsIInv
  DEF Next, RefuseAlloc, RefuseNamed

THEOREM Invariance == Spec => []IInv
BY InitIInv, NextIInv, PTL DEF Spec

(***************************************************************************)
(* The table's shape, for every size of table and every history of ranges. *)
(***************************************************************************)
THEOREM TypeCorrect == Spec => []TypeOK
<1>1. IInv => TypeOK
  BY DEF IInv
<1> QED BY <1>1, Invariance, PTL

(***************************************************************************)
(* Every open descriptor is in one place - a slot, the caller's hands, the *)
(* op that made it - or its number was in a CQE that never came: what      *)
(* install_direct, direct and plain close and unregister do leaks none and *)
(* closes none twice.                                                      *)
(***************************************************************************)
THEOREM DescriptorsConserved == Spec => []EachDescriptorOnce
<1>1. IInv => EachDescriptorOnce
  BY DEF IInv
<1> QED BY <1>1, Invariance, PTL

(***************************************************************************)
(* -ENFILE is the truth: slip_fixed_install finds a free slot of the range *)
(* if there is one, wherever earlier ranges and closes left the hint.      *)
(***************************************************************************)
THEOREM EnfileMeansFull == Spec => []SearchIsComplete
<1>1. TypeOK => SearchIsComplete
  <2> SUFFICES ASSUME TypeOK PROVE SearchIsComplete
    OBVIOUS
  <2>1. \A t \in 0..(len - 1) : InRange(Probe(t))
    BY ProbeInRange
  <2>2. ASSUME NEW s \in DOMAIN fixed, InRange(s), Free(s) PROVE Hits # {}
    <3>1. s \in Int
      BY DEF TypeOK
    <3>2. PICK t \in 0..(len - 1) : Probe(t) = s
      BY <2>2, <3>1, ProbeReachesAll
    <3> QED BY <2>2, <3>2 DEF Hits
  <2> QED BY <2>1, <2>2 DEF SearchIsComplete
<1> QED BY <1>1, TypeCorrect, PTL

(***************************************************************************)
(* No operation puts a descriptor over another, where the header promises  *)
(* that a named install replaces: an occupied slot is refused.             *)
(***************************************************************************)
THEOREM InstallsReplaceNone == Spec => NoneReplaced
<1> DEFINE Kept == \A s \in DOMAIN fixed \cap DOMAIN fixed' :
                     ~Free(s) => fixed'[s] \in {fixed[s], Empty}
<1>1. TypeOK /\ [Next]_vars => [Kept]_vars
  <2> SUFFICES ASSUME TypeOK, Next PROVE Kept
    BY DEF vars
  <2>1. ASSUME NEW k \in 1..MaxSlots, RegisterFiles(k) PROVE Kept
    BY <2>1 DEF RegisterFiles
  <2>2. CASE UnregisterFiles
    BY <2>2 DEF UnregisterFiles
  <2>3. ASSUME NEW s \in DOMAIN fixed, Free(s), Place(s) PROVE Kept
    BY <2>3 DEF Place, TypeOK, Free
  <2>4. CASE InstallAlloc
    <3>1. PICK t \in 0..(len - 1) : Free(Probe(t)) /\ Place(Probe(t))
      BY <2>4 DEF InstallAlloc, Hits
    <3>2. Probe(t) \in DOMAIN fixed
      BY ProbeInRange DEF TypeOK
    <3> QED BY <2>3, <3>1, <3>2
  <2>5. ASSUME NEW s \in 0..MaxSlots, InstallNamed(s) PROVE Kept
    BY <2>3, <2>5 DEF InstallNamed
  <2>6. ASSUME NEW s \in 0..MaxSlots, CloseDirect(s) PROVE Kept
    BY <2>6 DEF CloseDirect, TypeOK
  <2>7. ASSUME fixed' = fixed PROVE Kept
    BY <2>7
  <2> QED
    BY <2>1, <2>2, <2>4, <2>5, <2>6, <2>7
    DEF Next, AllocRange, Make, ClosePlain, HandOver, AnswerLost, RefuseAlloc, RefuseNamed, CloseFresh
<1> QED BY <1>1, TypeCorrect, PTL DEF Spec, NoneReplaced
=============================================================================
