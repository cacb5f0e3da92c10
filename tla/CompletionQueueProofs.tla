------------------------ MODULE CompletionQueueProofs ------------------------
(***************************************************************************)
(* The completion side of a ring, for every pool, every CQ size and every  *)
(* counter width: the type invariant, that the CQ is never written past    *)
(* what the caller has read, that every op of the pool is in exactly one   *)
(* place, and, with the history of completions, that they come out in the  *)
(* order they were posted, each of them once.                              *)
(***************************************************************************)
EXTENDS CompletionQueue, SharedLemmas

(***************************************************************************)
(* What the lock's holder has with it.  Without this the three invariants  *)
(* are not inductive: placing a completion needs to know that a finished   *)
(* op is in the hand exactly while its completion is under way.            *)
(***************************************************************************)
HandInv ==
  /\ (hand # None) <=> (at # "unlocked" /\ kind \in {"post", "skip"})
  /\ (at # "unlocked" /\ kind \in {"post", "emit"}) => issued >= 1
  /\ (at \in {"place", "placed"}) => kind # "settle"

Base == TypeOK /\ CqBounded /\ OneHome /\ HandInv

(***************************************************************************)
(* Between the two stores of post_locked there is still room, and the      *)
(* entry the tail is about to publish holds the completion that is posted: *)
(* the caller, who may read meanwhile, only makes room.                    *)
(***************************************************************************)
WrittenEntry(n) == CqRoom /\ slots[tail % CqEntries] = n

Written ==
  /\ at = "drained" => backlog # <<>> /\ WrittenEntry(Head(backlog).n)
  /\ at = "placed" => kind \in {"post", "emit"} /\ WrittenEntry(issued)

IInv == Base /\ Written

-----------------------------------------------------------------------------
(***************************************************************************)
(* Taking the head off a sequence of completions with distinct ops leaves  *)
(* the other ops, still distinct (drain_backlog_locked).                   *)
(***************************************************************************)
LEMMA TailOps ==
  ASSUME NEW s \in Seq(Completion), s # <<>>,
         \A i, j \in DOMAIN s : s[i].op = s[j].op => i = j
  PROVE  /\ Tail(s) \in Seq(Completion)
         /\ Head(s) \in Completion
         /\ {Tail(s)[i].op : i \in DOMAIN Tail(s)}
              = {s[i].op : i \in DOMAIN s} \ {Head(s).op}
         /\ \A i, j \in DOMAIN Tail(s) : Tail(s)[i].op = Tail(s)[j].op => i = j
<1>1. /\ Tail(s) \in Seq(Completion) /\ Head(s) \in Completion /\ Head(s) = s[1]
      /\ Len(Tail(s)) = Len(s) - 1 /\ Len(s) \in Nat /\ Len(s) >= 1
      /\ DOMAIN s = 1..Len(s) /\ DOMAIN Tail(s) = 1..(Len(s) - 1)
      /\ \A i \in 1..(Len(s) - 1) : Tail(s)[i] = s[i + 1]
  BY HeadTailProperties, LenProperties, EmptySeq
<1>2. ASSUME NEW o \in {Tail(s)[i].op : i \in DOMAIN Tail(s)}
      PROVE  o \in {s[i].op : i \in DOMAIN s} \ {Head(s).op}
  <2>1. PICK i \in 1..(Len(s) - 1) : o = s[i + 1].op
    BY <1>1, <1>2
  <2>2. i + 1 \in DOMAIN s /\ 1 \in DOMAIN s /\ i + 1 # 1
    BY <1>1
  <2>3. QED
    BY <1>1, <2>1, <2>2
<1>3. ASSUME NEW o \in {s[i].op : i \in DOMAIN s} \ {Head(s).op}
      PROVE  o \in {Tail(s)[i].op : i \in DOMAIN Tail(s)}
  <2>1. PICK i \in 1..Len(s) : o = s[i].op
    BY <1>1, <1>3
  <2>2. PICK k \in 1..(Len(s) - 1) : i = k + 1
    BY <1>1, <1>3, <2>1
  <2>3. k \in DOMAIN Tail(s) /\ Tail(s)[k].op = o
    BY <1>1, <2>1, <2>2
  <2>4. QED
    BY <2>3
<1>4. ASSUME NEW i \in DOMAIN Tail(s), NEW j \in DOMAIN Tail(s),
             Tail(s)[i].op = Tail(s)[j].op
      PROVE  i = j
  <2>1. i + 1 \in DOMAIN s /\ j + 1 \in DOMAIN s /\ s[i + 1].op = s[j + 1].op
    BY <1>1, <1>4
  <2>2. i + 1 = j + 1
    BY <2>1
  <2>3. QED
    BY <1>1, <2>2
<1>5. QED
  BY <1>1, <1>2, <1>3, <1>4

(***************************************************************************)
(* Appending a completion whose op is not there yet adds that op and keeps *)
(* the ops distinct (backlog_locked).                                      *)
(***************************************************************************)
LEMMA AppendOps ==
  ASSUME NEW s \in Seq(Completion), NEW c \in Completion,
         c.op \notin {s[i].op : i \in DOMAIN s},
         \A i, j \in DOMAIN s : s[i].op = s[j].op => i = j
  PROVE  /\ Append(s, c) \in Seq(Completion)
         /\ {Append(s, c)[i].op : i \in DOMAIN Append(s, c)}
              = {s[i].op : i \in DOMAIN s} \cup {c.op}
         /\ \A i, j \in DOMAIN Append(s, c) :
              Append(s, c)[i].op = Append(s, c)[j].op => i = j
<1>1. /\ Append(s, c) \in Seq(Completion) /\ Len(s) \in Nat
      /\ DOMAIN s = 1..Len(s) /\ DOMAIN Append(s, c) = 1..(Len(s) + 1)
      /\ \A i \in 1..Len(s) : Append(s, c)[i] = s[i]
      /\ Append(s, c)[Len(s) + 1] = c
  BY AppendProperties, LenProperties
<1>2. \A i \in DOMAIN Append(s, c) : i \in DOMAIN s \/ i = Len(s) + 1
  BY <1>1
<1>3. DOMAIN s \subseteq DOMAIN Append(s, c) /\ Len(s) + 1 \in DOMAIN Append(s, c)
  BY <1>1
<1>4. QED
  BY <1>1, <1>2, <1>3

(***************************************************************************)
(* The first store of post_locked writes the entry and moves no counter.   *)
(***************************************************************************)
LEMMA EntryIsWritten ==
  ASSUME TypeOK, CqRoom, NEW c \in 0..MaxIssued, PostLocked("entry", c), head' = head
  PROVE  /\ slots' \in [0..(CqEntries - 1) -> 0..MaxIssued]
         /\ WrittenEntry(c)'
         /\ UNCHANGED <<tail, posted>>
<1>1. slots' = [slots EXCEPT ![tail % CqEntries] = c] /\ UNCHANGED <<tail, posted>>
  BY DEF PostLocked
<1>2. tail % CqEntries \in 0..(CqEntries - 1)
  BY CqAssumption DEF TypeOK
<1>3. slots' \in [0..(CqEntries - 1) -> 0..MaxIssued] /\ slots'[tail % CqEntries] = c
  BY <1>1, <1>2 DEF TypeOK
<1>4. CqRoom'
  BY <1>1 DEF CqRoom, CqAvail
<1>5. QED
  BY <1>1, <1>3, <1>4 DEF WrittenEntry

(***************************************************************************)
(* A completion posted with room leaves the CQ within its bound, whatever  *)
(* the counters have wrapped to (post_locked behind cq_room).              *)
(***************************************************************************)
LEMMA PostKeepsBound ==
  ASSUME TypeOK, CqRoom, NEW c \in 1..MaxIssued, PostLocked("tail", c), head' = head
  PROVE  /\ CqBounded'
         /\ slots' \in [0..(CqEntries - 1) -> 0..MaxIssued]
         /\ tail' \in 0..(Wrap - 1)
         /\ posted' \in Seq(1..MaxIssued)
<1>1. tail' \in 0..(Wrap - 1) /\ CqAvail' <= CqEntries
  BY CqAssumption DEF TypeOK, CqRoom, PostLocked, Succ, CqAvail
<1>2. slots' \in [0..(CqEntries - 1) -> 0..MaxIssued]
  BY CqAssumption DEF TypeOK, PostLocked
<1>3. posted' \in Seq(1..MaxIssued)
  <2>1. posted' = Append(posted, c)
    BY DEF PostLocked
  <2>2. QED
    BY <2>1, AppendProperties DEF TypeOK
<1>4. QED
  BY <1>1, <1>2, <1>3 DEF CqBounded

LEMMA InitIInv == Init => IInv
<1> SUFFICES ASSUME Init PROVE IInv
  OBVIOUS
<1>1. TypeOK
  BY CqAssumption DEF Init, TypeOK, Kinds
<1>2. CqBounded
  BY CqAssumption DEF Init, CqBounded, CqAvail
<1>3. OneHome
  BY DEF Init, OneHome, Held, Backlogged
<1>4. HandInv
  BY DEF Init, HandInv
<1>5. Written
  BY DEF Init, Written
<1>6. QED
  BY <1>1, <1>2, <1>3, <1>4, <1>5 DEF IInv, Base

-----------------------------------------------------------------------------
(***************************************************************************)
(* Every step keeps the inductive invariant: one step of the proof per     *)
(* action, first for the four parts that say where everything is, then for *)
(* the entry that is written and not yet published.                        *)
(***************************************************************************)
LEMMA NextBase == IInv /\ [Next]_vars => Base'
<1> SUFFICES ASSUME IInv, [Next]_vars PROVE Base'
  OBVIOUS
<1> USE CqAssumption
<1>1. ASSUME NEW o \in Op, OpAlloc(o) PROVE Base'
  <2>1. TypeOK' /\ CqBounded' /\ HandInv'
    BY <1>1 DEF IInv, Base, TypeOK, CqBounded, CqAvail, HandInv, OpAlloc, lockVars
  <2>2. OneHome'
    BY <1>1 DEF IInv, Base, TypeOK, OneHome, Held, Backlogged, OpAlloc, lockVars
  <2>3. QED
    BY <2>1, <2>2 DEF IInv, Base
<1>2. ASSUME NEW o \in Op, NEW k \in {"post", "skip"}, PostLock(o, k) PROVE Base'
  <2>1. TypeOK'
    BY <1>2 DEF IInv, Base, TypeOK, Kinds, PostLock
  <2>2. CqBounded' /\ HandInv'
    BY <1>2 DEF IInv, Base, TypeOK, CqBounded, CqAvail, HandInv, PostLock
  <2>3. OneHome'
    BY <1>2 DEF IInv, Base, TypeOK, HandInv, OneHome, Held, Backlogged, PostLock
  <2>4. QED
    BY <2>1, <2>2, <2>3 DEF IInv, Base
<1>3. ASSUME EmitLock PROVE Base'
  <2>1. TypeOK' /\ CqBounded' /\ HandInv'
    BY <1>3 DEF IInv, Base, TypeOK, Kinds, CqBounded, CqAvail, HandInv, EmitLock
  <2>2. OneHome'
    BY <1>3 DEF IInv, Base, OneHome, Held, Backlogged, EmitLock
  <2>3. QED
    BY <2>1, <2>2 DEF IInv, Base
<1>4. ASSUME SettleLock PROVE Base'
  <2>1. TypeOK' /\ CqBounded' /\ HandInv'
    BY <1>4 DEF IInv, Base, TypeOK, Kinds, CqBounded, CqAvail, HandInv, SettleLock
  <2>2. OneHome'
    BY <1>4 DEF IInv, Base, OneHome, Held, Backlogged, SettleLock
  <2>3. QED
    BY <2>1, <2>2 DEF IInv, Base
<1>5. ASSUME Drain PROVE Base'
  <2>0. backlog # <<>> /\ CqRoom /\ PostLocked("tail", Head(backlog).n)
    BY <1>5 DEF IInv, Written, WrittenEntry, Drain
  <2>1. /\ Tail(backlog) \in Seq(Completion)
        /\ Head(backlog) \in Completion
        /\ Backlogged' = Backlogged \ {Head(backlog).op}
        /\ Head(backlog).op \in Backlogged
        /\ \A i, j \in DOMAIN Tail(backlog) :
             Tail(backlog)[i].op = Tail(backlog)[j].op => i = j
    <3>1. /\ backlog \in Seq(Completion) /\ backlog # <<>>
          /\ \A i, j \in DOMAIN backlog : backlog[i].op = backlog[j].op => i = j
          /\ backlog' = Tail(backlog)
      BY <1>5, <2>0 DEF IInv, Base, TypeOK, OneHome, Drain
    <3>2. 1 \in DOMAIN backlog /\ Head(backlog) = backlog[1]
      BY <3>1, LenProperties, EmptySeq, HeadTailProperties
    <3>3. /\ {Tail(backlog)[i].op : i \in DOMAIN Tail(backlog)}
               = {backlog[i].op : i \in DOMAIN backlog} \ {Head(backlog).op}
          /\ Tail(backlog) \in Seq(Completion)
          /\ Head(backlog) \in Completion
          /\ \A i, j \in DOMAIN Tail(backlog) :
               Tail(backlog)[i].op = Tail(backlog)[j].op => i = j
      BY <3>1, TailOps
    <3>4. Backlogged' = Backlogged \ {Head(backlog).op}
      BY <3>1, <3>3, Zenon DEF Backlogged
    <3>5. Head(backlog).op \in Backlogged
      BY <3>2 DEF Backlogged
    <3>6. QED
      BY <3>3, <3>4, <3>5
  <2>2. Head(backlog).n \in 1..MaxIssued /\ Head(backlog).op \in Op
    BY <2>1 DEF Completion
  <2>3. /\ CqBounded'
        /\ slots' \in [0..(CqEntries - 1) -> 0..MaxIssued]
        /\ tail' \in 0..(Wrap - 1)
        /\ posted' \in Seq(1..MaxIssued)
    BY <1>5, <2>0, <2>2, PostKeepsBound DEF IInv, Base, Drain
  <2>4. TypeOK'
    BY <1>5, <2>1, <2>2, <2>3 DEF IInv, Base, TypeOK, Drain
  <2>5. HandInv'
    BY <1>5 DEF IInv, Base, HandInv, Drain
  <2>6. OneHome'
    BY <1>5, <2>1, <2>2 DEF IInv, Base, OneHome, Held, Drain
  <2>7. QED
    BY <2>3, <2>4, <2>5, <2>6 DEF IInv, Base
<1>6. ASSUME DrainEnd PROVE Base'
  <2>1. TypeOK' /\ CqBounded'
    BY <1>6 DEF IInv, Base, TypeOK, CqBounded, CqAvail, DrainEnd
  <2>2. HandInv' /\ OneHome'
    BY <1>6 DEF IInv, Base, TypeOK, Kinds, HandInv, OneHome, Held, Backlogged, DrainEnd
  <2>3. QED
    BY <2>1, <2>2 DEF IInv, Base
<1>7. ASSUME PlaceNothing PROVE Base'
  <2>1. TypeOK' /\ CqBounded' /\ HandInv'
    BY <1>7 DEF IInv, Base, TypeOK, CqBounded, CqAvail, HandInv, PlaceNothing, Unlock
  <2>2. OneHome'
    BY <1>7 DEF IInv, Base, TypeOK, HandInv, OneHome, Held, Backlogged, PlaceNothing, Unlock
  <2>3. QED
    BY <2>1, <2>2 DEF IInv, Base
<1>8. ASSUME PlaceInCq PROVE Base'
  <2>1. /\ issued \in 1..MaxIssued /\ kind \in {"post", "emit"}
        /\ CqRoom /\ PostLocked("tail", issued)
    BY <1>8 DEF IInv, Base, TypeOK, HandInv, Written, WrittenEntry, PlaceInCq
  <2>2. /\ CqBounded'
        /\ slots' \in [0..(CqEntries - 1) -> 0..MaxIssued]
        /\ tail' \in 0..(Wrap - 1)
        /\ posted' \in Seq(1..MaxIssued)
    BY <1>8, <2>1, PostKeepsBound DEF IInv, Base, PlaceInCq
  <2>3. kind = "post" => hand \in Op
    BY <1>8 DEF IInv, Base, TypeOK, HandInv, PlaceInCq
  <2>4. TypeOK'
    BY <1>8, <2>2, <2>3 DEF IInv, Base, TypeOK, PlaceInCq, Unlock
  <2>5. HandInv'
    BY <1>8, <2>1 DEF IInv, Base, HandInv, PlaceInCq, Unlock
  <2>6. OneHome'
    BY <1>8, <2>1, <2>3 DEF IInv, Base, TypeOK, HandInv, OneHome, Held, Backlogged, PlaceInCq, Unlock
  <2>7. QED
    BY <2>2, <2>4, <2>5, <2>6 DEF IInv, Base
<1>9. ASSUME PlaceInBacklog PROVE Base'
  <2> DEFINE c == [op |-> hand, n |-> issued]
  <2>1. hand \in Op /\ hand # None /\ issued \in 1..MaxIssued /\ backlog' = Append(backlog, c)
    BY <1>9 DEF IInv, Base, TypeOK, HandInv, PlaceInBacklog, BacklogLocked
  <2>2. c \in Completion /\ c.op = hand /\ c.op \notin Backlogged
    BY <2>1 DEF IInv, Base, OneHome, Held, Completion
  <2>3. /\ backlog' \in Seq(Completion)
        /\ Backlogged' = Backlogged \cup {hand}
        /\ \A i, j \in DOMAIN backlog' : backlog'[i].op = backlog'[j].op => i = j
    <3> HIDE DEF c
    <3>1. /\ backlog \in Seq(Completion)
          /\ c.op \notin {backlog[i].op : i \in DOMAIN backlog}
          /\ \A i, j \in DOMAIN backlog : backlog[i].op = backlog[j].op => i = j
      BY <2>2 DEF IInv, Base, TypeOK, OneHome, Backlogged
    <3>2. /\ Append(backlog, c) \in Seq(Completion)
          /\ {Append(backlog, c)[i].op : i \in DOMAIN Append(backlog, c)}
               = {backlog[i].op : i \in DOMAIN backlog} \cup {c.op}
          /\ \A i, j \in DOMAIN Append(backlog, c) :
               Append(backlog, c)[i].op = Append(backlog, c)[j].op => i = j
      BY <2>2, <3>1, AppendOps
    <3>3. Backlogged' = Backlogged \cup {hand}
      BY <2>1, <2>2, <3>2, Zenon DEF Backlogged
    <3>4. QED
      BY <2>1, <3>2, <3>3
  <2>4. TypeOK' /\ CqBounded' /\ HandInv'
    BY <1>9, <2>3 DEF IInv, Base, TypeOK, CqBounded, CqAvail, HandInv, PlaceInBacklog,
                      BacklogLocked, Unlock
  <2>5. OneHome'
    BY <1>9, <2>1, <2>3 DEF IInv, Base, OneHome, Held, PlaceInBacklog, Unlock
  <2>6. QED
    BY <2>4, <2>5 DEF IInv, Base
<1>10. ASSUME NEW o \in Op, PlaceOnCarrier(o) PROVE Base'
  <2> DEFINE c == [op |-> o, n |-> issued]
  <2>1. hand = None /\ o \in free /\ issued \in 1..MaxIssued /\ backlog' = Append(backlog, c)
    BY <1>10 DEF IInv, Base, TypeOK, HandInv, PlaceOnCarrier, BacklogLocked
  <2>2. c \in Completion /\ c.op = o /\ c.op \notin Backlogged
    BY <2>1 DEF IInv, Base, OneHome, Completion
  <2>3. /\ backlog' \in Seq(Completion)
        /\ Backlogged' = Backlogged \cup {o}
        /\ \A i, j \in DOMAIN backlog' : backlog'[i].op = backlog'[j].op => i = j
    <3> HIDE DEF c
    <3>1. /\ backlog \in Seq(Completion)
          /\ c.op \notin {backlog[i].op : i \in DOMAIN backlog}
          /\ \A i, j \in DOMAIN backlog : backlog[i].op = backlog[j].op => i = j
      BY <2>2 DEF IInv, Base, TypeOK, OneHome, Backlogged
    <3>2. /\ Append(backlog, c) \in Seq(Completion)
          /\ {Append(backlog, c)[i].op : i \in DOMAIN Append(backlog, c)}
               = {backlog[i].op : i \in DOMAIN backlog} \cup {c.op}
          /\ \A i, j \in DOMAIN Append(backlog, c) :
               Append(backlog, c)[i].op = Append(backlog, c)[j].op => i = j
      BY <2>2, <3>1, AppendOps
    <3>3. Backlogged' = Backlogged \cup {o}
      BY <2>1, <2>2, <3>2, Zenon DEF Backlogged
    <3>4. QED
      BY <2>1, <3>2, <3>3
  <2>4. TypeOK' /\ CqBounded' /\ HandInv'
    BY <1>10, <2>3 DEF IInv, Base, TypeOK, CqBounded, CqAvail, HandInv, PlaceOnCarrier,
                       BacklogLocked, Unlock
  <2>5. OneHome'
    BY <1>10, <2>1, <2>3 DEF IInv, Base, OneHome, Held, PlaceOnCarrier, Unlock
  <2>6. QED
    BY <2>4, <2>5 DEF IInv, Base
<1>11. ASSUME DropEmission PROVE Base'
  <2>1. TypeOK' /\ CqBounded' /\ HandInv'
    BY <1>11 DEF IInv, Base, TypeOK, CqBounded, CqAvail, HandInv, DropEmission, Unlock
  <2>2. OneHome'
    BY <1>11 DEF IInv, Base, HandInv, OneHome, Held, Backlogged, DropEmission, Unlock
  <2>3. QED
    BY <2>1, <2>2 DEF IInv, Base
<1>12. ASSUME Reap PROVE Base'
  <2>1. slots[head % CqEntries] \in 0..MaxIssued
    <3>1. head % CqEntries \in 0..(CqEntries - 1)
      BY DEF IInv, Base, TypeOK
    <3>2. QED
      BY <3>1 DEF IInv, Base, TypeOK
  <2>2. reaped' \in Seq(0..MaxIssued)
    BY <1>12, <2>1, AppendProperties DEF IInv, Base, TypeOK, Reap
  <2>3. TypeOK' /\ CqBounded'
    BY <1>12, <2>2 DEF IInv, Base, TypeOK, CqBounded, CqAvail, Reap, Succ, lockVars
  <2>4. HandInv' /\ OneHome'
    BY <1>12 DEF IInv, Base, HandInv, OneHome, Held, Backlogged, Reap, lockVars
  <2>5. QED
    BY <2>3, <2>4 DEF IInv, Base
<1>13. CASE UNCHANGED vars
  <2>1. TypeOK' /\ CqBounded'
    BY <1>13 DEF IInv, Base, TypeOK, CqBounded, CqAvail, vars
  <2>2. HandInv' /\ OneHome'
    BY <1>13 DEF IInv, Base, HandInv, OneHome, Held, Backlogged, vars
  <2>3. QED
    BY <2>1, <2>2 DEF IInv, Base
<1>14. ASSUME DrainEntry PROVE Base'
  <2>1. Head(backlog).n \in 0..MaxIssued
    <3>1. Head(backlog) \in Completion
      BY <1>14, HeadTailProperties, EmptySeq DEF IInv, Base, TypeOK, DrainEntry
    <3>2. QED
      BY <3>1 DEF Completion
  <2>2. slots' \in [0..(CqEntries - 1) -> 0..MaxIssued] /\ UNCHANGED <<tail, posted>>
    BY <1>14, <2>1, EntryIsWritten DEF IInv, Base, DrainEntry
  <2>3. TypeOK' /\ CqBounded' /\ HandInv'
    BY <1>14, <2>2 DEF IInv, Base, TypeOK, CqBounded, CqAvail, HandInv, DrainEntry
  <2>4. OneHome'
    BY <1>14 DEF IInv, Base, OneHome, Held, Backlogged, DrainEntry
  <2>5. QED
    BY <2>3, <2>4 DEF Base
<1>15. ASSUME PlaceEntry PROVE Base'
  <2>1. issued \in 0..MaxIssued
    BY DEF IInv, Base, TypeOK
  <2>2. slots' \in [0..(CqEntries - 1) -> 0..MaxIssued] /\ UNCHANGED <<tail, posted>>
    BY <1>15, <2>1, EntryIsWritten DEF IInv, Base, PlaceEntry
  <2>3. TypeOK' /\ CqBounded' /\ HandInv'
    BY <1>15, <2>2 DEF IInv, Base, TypeOK, CqBounded, CqAvail, HandInv, PlaceEntry
  <2>4. OneHome'
    BY <1>15 DEF IInv, Base, OneHome, Held, Backlogged, PlaceEntry
  <2>5. QED
    BY <2>3, <2>4 DEF Base
<1>16. QED
  BY <1>1, <1>2, <1>3, <1>4, <1>5, <1>6, <1>7, <1>8, <1>9, <1>10, <1>11, <1>12, <1>13,
     <1>14, <1>15
     DEF Next, LockSection

LEMMA NextWritten == IInv /\ [Next]_vars => Written'
<1> SUFFICES ASSUME IInv, [Next]_vars PROVE Written'
  OBVIOUS
<1>1. CASE DrainEntry
  <2>1. Head(backlog).n \in 0..MaxIssued
    <3>1. Head(backlog) \in Completion
      BY <1>1, HeadTailProperties, EmptySeq DEF IInv, Base, TypeOK, DrainEntry
    <3>2. QED
      BY <3>1 DEF Completion
  <2>2. WrittenEntry(Head(backlog).n)'
    <3>1. PICK n \in 0..MaxIssued : n = Head(backlog).n
      BY <2>1
    <3>2. WrittenEntry(n)'
      BY <1>1, <3>1, EntryIsWritten DEF IInv, Base, DrainEntry
    <3>3. backlog' = backlog
      BY <1>1 DEF DrainEntry
    <3>4. QED
      BY <3>1, <3>2, <3>3 DEF WrittenEntry
  <2>3. QED
    BY <1>1, <2>2 DEF Written, DrainEntry
<1>2. CASE PlaceEntry
  <2>1. issued \in 0..MaxIssued
    BY DEF IInv, Base, TypeOK
  <2>2. WrittenEntry(issued)'
    <3>1. PICK n \in 0..MaxIssued : n = issued
      BY <2>1
    <3>2. WrittenEntry(n)'
      BY <1>2, <3>1, EntryIsWritten DEF IInv, Base, PlaceEntry
    <3>3. issued' = issued
      BY <1>2 DEF PlaceEntry
    <3>4. QED
      BY <3>1, <3>2, <3>3 DEF WrittenEntry
  <2>3. QED
    BY <1>2, <2>2 DEF Written, PlaceEntry
<1>3. CASE Reap
  <2>1. CqRoom => CqRoom'
    BY <1>3, CqAssumption DEF IInv, Base, TypeOK, CqRoom, CqAvail, Reap, Succ
  <2>2. UNCHANGED <<slots, tail, backlog, issued, at, kind>>
    BY <1>3 DEF Reap, lockVars
  <2>3. QED
    BY <2>1, <2>2 DEF IInv, Written, WrittenEntry
<1>4. CASE UNCHANGED vars
  BY <1>4 DEF IInv, Written, WrittenEntry, CqRoom, CqAvail, vars
<1>5. CASE at' \notin {"drained", "placed"}
  BY <1>5 DEF Written
<1>6. ASSUME NEW o \in Op, OpAlloc(o) PROVE at' \notin {"drained", "placed"}
  BY <1>6 DEF OpAlloc, lockVars
<1>7. QED
  BY <1>1, <1>2, <1>3, <1>4, <1>5, <1>6
     DEF Next, LockSection, PostLock, EmitLock, SettleLock, Drain, DrainEnd, PlaceNothing,
         PlaceInCq, PlaceInBacklog, PlaceOnCarrier, DropEmission, Unlock

LEMMA NextIInv == IInv /\ [Next]_vars => IInv'
  BY NextBase, NextWritten DEF IInv

LEMMA Invariance == Spec => []IInv
  BY InitIInv, NextIInv, PTL DEF Spec

(***************************************************************************)
(* Every variable keeps its type, for every pool and CQ.                   *)
(***************************************************************************)
THEOREM TypeCorrect == Spec => []TypeOK
<1>1. IInv => TypeOK
  BY DEF IInv, Base
<1>2. QED
  BY <1>1, Invariance, PTL

(***************************************************************************)
(* post_locked never overwrites a completion the caller has not read.      *)
(***************************************************************************)
THEOREM CqNeverOverrun == Spec => []CqBounded
<1>1. IInv => CqBounded
  BY DEF IInv, Base
<1>2. QED
  BY <1>1, Invariance, PTL

(***************************************************************************)
(* No op of the pool is released twice, shared or lost: each is free,      *)
(* submitted, in the lock holder's hand, or carries one backlogged         *)
(* completion.                                                             *)
(***************************************************************************)
THEOREM PoolConserved == Spec => []OneHome
<1>1. IInv => OneHome
  BY DEF IInv, Base
<1>2. QED
  BY <1>1, Invariance, PTL
-----------------------------------------------------------------------------
(***************************************************************************)
(* The CQ as the caller sees it.  A counter selects the slot one behind    *)
(* the slot its predecessor selects, also where it comes round.            *)
(***************************************************************************)
SlotOf(c) == c % CqEntries

LEMMA SlotOfType ==
  ASSUME NEW c \in Nat
  PROVE  SlotOf(c) \in 0..(CqEntries - 1)
  BY CqAssumption, DivMod DEF SlotOf

LEMMA SlotsDiffer ==
  ASSUME NEW c \in Nat, NEW d \in Nat, c < d, d - c < CqEntries
  PROVE  SlotOf(c) # SlotOf(d)
  BY CqAssumption, OtherEntry DEF SlotOf

LEMMA SlotWraps ==
  ASSUME NEW c \in Nat
  PROVE  SlotOf(Wrap + c) = SlotOf(c)
  BY CqAssumption, WrapAssumption, SameEntry DEF SlotOf

LEMMA SlotAfterSucc ==
  ASSUME NEW h \in 0..(Wrap - 1), NEW i \in Nat
  PROVE  SlotOf(Succ(h) + i) = SlotOf(h + (i + 1))
<1>1. CASE h + 1 = Wrap
  <2>1. Succ(h) + i = i /\ h + (i + 1) = Wrap + i
    BY <1>1, CqAssumption DEF Succ
  <2>2. QED
    BY <2>1, SlotWraps
<1>2. CASE h + 1 # Wrap
  <2>1. Succ(h) + i = h + (i + 1)
    BY <1>2, CqAssumption DEF Succ
  <2>2. QED
    BY <2>1
<1>3. QED
  BY <1>1, <1>2

LEMMA TailSlot ==
  ASSUME TypeOK
  PROVE  CqAvail \in Nat /\ SlotOf(tail) = SlotOf(head + CqAvail)
<1>1. head \in 0..(Wrap - 1) /\ tail \in 0..(Wrap - 1) /\ Wrap \in Nat
  BY CqAssumption DEF TypeOK
<1>2. CASE tail >= head
  BY <1>1, <1>2 DEF CqAvail
<1>3. CASE tail < head
  <2>1. head + CqAvail = Wrap + tail
    BY <1>1, <1>3 DEF CqAvail
  <2>2. QED
    BY <1>1, <1>3, <2>1, SlotWraps DEF CqAvail
<1>4. QED
  BY <1>1, <1>2, <1>3

(***************************************************************************)
(* The two stores of a post and a read keep what the CQ holds: the         *)
(* completions between what was read and what was posted, in their slots.  *)
(***************************************************************************)
LEMMA EntryUnread ==
  ASSUME IInv, CallerReadsWhatWasPosted, CqRoom, NEW c, PostLocked("entry", c),
         UNCHANGED <<head, reaped>>
  PROVE  CallerReadsWhatWasPosted'
<1>1. /\ head \in 0..(Wrap - 1) /\ head' = head /\ tail' = tail
      /\ reaped' = reaped /\ posted' = posted
      /\ slots \in [0..(CqEntries - 1) -> 0..MaxIssued]
      /\ slots' = [slots EXCEPT ![SlotOf(tail)] = c]
      /\ CqAvail < CqEntries /\ CqEntries \in Nat
  BY CqAssumption DEF IInv, Base, TypeOK, CqRoom, PostLocked, SlotOf
<1>2. CqAvail \in Nat /\ SlotOf(tail) = SlotOf(head + CqAvail) /\ CqAvail' = CqAvail
  BY <1>1, TailSlot DEF IInv, Base, CqAvail
<1>3. ASSUME NEW k \in 0..(CqAvail - 1) PROVE slots'[SlotOf(head + k)] = slots[SlotOf(head + k)]
  <2>1. head + k \in Nat /\ head + CqAvail \in Nat
    BY <1>1, <1>2
  <2>2. head + k < head + CqAvail /\ (head + CqAvail) - (head + k) < CqEntries
    BY <1>1, <1>2
  <2>3. SlotOf(head + k) # SlotOf(tail)
    BY <1>2, <2>1, <2>2, SlotsDiffer
  <2>4. QED
    BY <1>1, <2>3
<1>4. QED
  BY <1>1, <1>2, <1>3 DEF CallerReadsWhatWasPosted, SlotOf

LEMMA PostUnread ==
  ASSUME IInv, CallerReadsWhatWasPosted, NEW c \in 1..MaxIssued, WrittenEntry(c),
         PostLocked("tail", c), UNCHANGED <<head, reaped>>
  PROVE  CallerReadsWhatWasPosted'
<1>1. /\ head \in 0..(Wrap - 1) /\ tail \in 0..(Wrap - 1) /\ head' = head
      /\ tail' = Succ(tail) /\ reaped' = reaped /\ posted' = Append(posted, c)
      /\ slots \in [0..(CqEntries - 1) -> 0..MaxIssued]
      /\ slots' = slots /\ slots[SlotOf(tail)] = c
      /\ CqAvail < CqEntries /\ CqEntries \in Nat /\ Wrap \in Nat /\ Wrap > CqEntries
      /\ posted \in Seq(1..MaxIssued) /\ reaped \in Seq(0..MaxIssued)
  BY CqAssumption DEF IInv, Base, TypeOK, CqRoom, PostLocked, SlotOf, WrittenEntry
<1>2. CqAvail \in Nat /\ SlotOf(tail) = SlotOf(head + CqAvail)
  BY TailSlot DEF IInv, Base
<1>3. CqAvail' = CqAvail + 1
  BY <1>1 DEF CqAvail, Succ
<1>4. /\ Len(posted') = Len(posted) + 1 /\ Len(posted) \in Nat /\ Len(reaped) \in Nat
      /\ \A i \in 1..Len(posted) : posted'[i] = posted[i]
      /\ posted'[Len(posted) + 1] = c
      /\ DOMAIN reaped = 1..Len(reaped)
  BY <1>1, AppendProperties, LenProperties
<1>5. Len(posted) = Len(reaped) + CqAvail
  BY DEF CallerReadsWhatWasPosted
<1>6. ASSUME NEW i \in DOMAIN reaped PROVE reaped'[i] = posted'[i]
  <2>1. i \in 1..Len(posted)
    BY <1>2, <1>4, <1>5
  <2>2. QED
    BY <1>1, <1>4, <2>1 DEF CallerReadsWhatWasPosted
<1>7. ASSUME NEW k \in 0..CqAvail PROVE slots'[SlotOf(head + k)] = posted'[Len(reaped) + k + 1]
  <2>3. CASE k = CqAvail
    BY <1>1, <1>2, <1>4, <1>5, <2>3
  <2>4. CASE k # CqAvail
    <3>1. slots[SlotOf(head + k)] = posted[Len(reaped) + k + 1]
      BY <1>2, <2>4 DEF CallerReadsWhatWasPosted, SlotOf
    <3>2. Len(reaped) + k + 1 \in 1..Len(posted)
      BY <1>2, <1>4, <1>5, <2>4
    <3>3. QED
      BY <1>1, <1>4, <3>1, <3>2
  <2>5. QED
    BY <2>3, <2>4
<1>8. Len(posted') = Len(reaped') + CqAvail'
  BY <1>1, <1>3, <1>4, <1>5, <1>2
<1>9. \A k \in 0..(CqAvail' - 1) : slots'[SlotOf(head' + k)] = posted'[Len(reaped') + k + 1]
  <2>1. 0..(CqAvail' - 1) = 0..CqAvail
    BY <1>2, <1>3
  <2>2. QED
    BY <1>1, <1>7, <2>1
<1>10. QED
  BY <1>1, <1>6, <1>8, <1>9 DEF CallerReadsWhatWasPosted, SlotOf

LEMMA ReapUnread ==
  ASSUME IInv, CallerReadsWhatWasPosted, Reap
  PROVE  CallerReadsWhatWasPosted'
<1>1. /\ head \in 0..(Wrap - 1) /\ tail \in 0..(Wrap - 1) /\ head' = Succ(head)
      /\ tail' = tail /\ head # tail /\ reaped' = Append(reaped, slots[SlotOf(head)])
      /\ slots' = slots /\ posted' = posted /\ Wrap \in Nat
      /\ slots \in [0..(CqEntries - 1) -> 0..MaxIssued]
      /\ posted \in Seq(1..MaxIssued) /\ reaped \in Seq(0..MaxIssued)
  BY CqAssumption DEF IInv, Base, TypeOK, Reap, SlotOf
<1>2. CqAvail \in Nat /\ CqAvail >= 1 /\ CqAvail' = CqAvail - 1
  BY <1>1 DEF CqAvail, Succ
<1>3. SlotOf(head) \in 0..(CqEntries - 1)
  BY <1>1, SlotOfType
<1>4. slots[SlotOf(head)] \in 0..MaxIssued
  BY <1>1, <1>3
<1>5. /\ Len(reaped') = Len(reaped) + 1 /\ Len(reaped) \in Nat
      /\ DOMAIN reaped = 1..Len(reaped) /\ DOMAIN reaped' = 1..(Len(reaped) + 1)
      /\ \A i \in 1..Len(reaped) : reaped'[i] = reaped[i]
      /\ reaped'[Len(reaped) + 1] = slots[SlotOf(head)]
  BY <1>1, <1>4, AppendProperties, LenProperties
<1>6. slots[SlotOf(head)] = posted[Len(reaped) + 1]
  <2>1. 0 \in 0..(CqAvail - 1) /\ head + 0 = head /\ Len(reaped) + 0 + 1 = Len(reaped) + 1
    BY <1>1, <1>2, <1>5
  <2>2. slots[SlotOf(head + 0)] = posted[Len(reaped) + 0 + 1]
    BY <2>1 DEF CallerReadsWhatWasPosted, SlotOf
  <2>3. QED
    BY <2>1, <2>2
<1>7. \A i \in DOMAIN reaped' : reaped'[i] = posted'[i]
  <2>1. \A i \in DOMAIN reaped' : i \in DOMAIN reaped \/ i = Len(reaped) + 1
    BY <1>5
  <2>2. QED
    BY <1>1, <1>5, <1>6, <2>1 DEF CallerReadsWhatWasPosted
<1>8. ASSUME NEW k \in 0..(CqAvail - 2)
      PROVE  slots'[SlotOf(head' + k)] = posted'[Len(reaped') + k + 1]
  <2>1. k \in Nat /\ k + 1 \in 0..(CqAvail - 1) /\ Len(reaped') + k + 1 = Len(reaped) + (k + 1) + 1
    BY <1>2, <1>5
  <2>2. SlotOf(Succ(head) + k) = SlotOf(head + (k + 1))
    BY <1>1, <2>1, SlotAfterSucc
  <2>3. slots[SlotOf(head + (k + 1))] = posted[Len(reaped) + (k + 1) + 1]
    BY <2>1 DEF CallerReadsWhatWasPosted, SlotOf
  <2>4. QED
    BY <1>1, <2>1, <2>2, <2>3
<1>9. Len(posted') = Len(reaped') + CqAvail'
  <2>1. Len(posted) = Len(reaped) + CqAvail
    BY DEF CallerReadsWhatWasPosted
  <2>2. QED
    BY <1>1, <1>2, <1>5, <2>1
<1>10. \A k \in 0..(CqAvail' - 1) : slots'[(head' + k) % CqEntries] = posted'[Len(reaped') + k + 1]
  BY <1>2, <1>8 DEF SlotOf
<1>11. QED
  BY <1>7, <1>9, <1>10 DEF CallerReadsWhatWasPosted

LEMMA InitUnread == Init => CallerReadsWhatWasPosted
  BY CqAssumption DEF Init, CallerReadsWhatWasPosted, CqAvail

LEMMA NextUnread == IInv /\ CallerReadsWhatWasPosted /\ [Next]_vars => CallerReadsWhatWasPosted'
<1> SUFFICES ASSUME IInv, CallerReadsWhatWasPosted, [Next]_vars
             PROVE  CallerReadsWhatWasPosted'
  OBVIOUS
<1>1. CASE UNCHANGED <<slots, head, tail, posted, reaped>>
  BY <1>1 DEF CallerReadsWhatWasPosted, CqAvail
<1>2. CASE Drain
  <2>1. backlog # <<>> /\ WrittenEntry(Head(backlog).n)
    BY <1>2 DEF IInv, Written, Drain
  <2>2. Head(backlog) \in Completion
    BY <2>1, TailShape DEF IInv, Base, TypeOK
  <2>3. Head(backlog).n \in 1..MaxIssued
    BY <2>2 DEF Completion
  <2>4. QED
    BY <1>2, <2>1, <2>3, PostUnread DEF Drain
<1>3. CASE PlaceInCq
  <2>1. issued \in 1..MaxIssued /\ WrittenEntry(issued)
    BY <1>3 DEF IInv, Base, TypeOK, HandInv, Written, PlaceInCq
  <2>2. QED
    BY <1>3, <2>1, PostUnread DEF PlaceInCq
<1>4. CASE Reap
  BY <1>4, ReapUnread
<1>5. CASE DrainEntry
  BY <1>5, EntryUnread DEF DrainEntry
<1>6. CASE PlaceEntry
  BY <1>6, EntryUnread DEF PlaceEntry
<1>7. QED
  BY <1>1, <1>2, <1>3, <1>4, <1>5, <1>6
     DEF Next, LockSection, OpAlloc, PostLock, EmitLock, SettleLock, DrainEnd, PlaceNothing,
         PlaceInBacklog, PlaceOnCarrier, DropEmission, cqVars, vars

(***************************************************************************)
(* What the caller reads is what was posted, in that order, for every size *)
(* of the CQ and across every wrap of the counters: cq_head and cq_tail    *)
(* are masked on use and never reset.                                      *)
(***************************************************************************)
THEOREM FifoAcrossTheWrap == Spec => []CallerReadsWhatWasPosted
<1>1. Init => IInv /\ CallerReadsWhatWasPosted
  BY InitIInv, InitUnread
<1>2. IInv /\ CallerReadsWhatWasPosted /\ [Next]_vars => (IInv /\ CallerReadsWhatWasPosted)'
  BY NextIInv, NextUnread
<1>3. QED
  BY <1>1, <1>2, PTL DEF Spec

-----------------------------------------------------------------------------
(***************************************************************************)
(* Where the completions are.  Counting them, as EachCompletionOnce does,  *)
(* is not inductive: the invariant says that the three places are          *)
(* disjoint, hold nothing twice and together hold all that was issued.  A  *)
(* completion that goes to the backlog goes behind all others there        *)
(* because none of them is the one that is being placed.                   *)
(***************************************************************************)
InPosted == {posted[i] : i \in DOMAIN posted}
InBacklog == {backlog[i].n : i \in DOMAIN backlog}

HistoryInv ==
  /\ \A i, j \in DOMAIN posted : posted[i] = posted[j] => i = j
  /\ BacklogInOrder
  /\ InPosted \cap InBacklog = {} /\ InPosted \cap lost = {} /\ InBacklog \cap lost = {}
  /\ InPosted \cup InBacklog \cup lost = (1..issued) \ BeingPlaced

\* A backlog that loses its first stays in order and loses that one's number.
LEMMA DrainedBacklog ==
  ASSUME NEW s \in Seq(Completion), s # <<>>,
         \A i, j \in DOMAIN s : i < j => s[i].n < s[j].n
  PROVE  /\ Head(s).n \in {s[i].n : i \in DOMAIN s}
         /\ {Tail(s)[i].n : i \in DOMAIN Tail(s)} = {s[i].n : i \in DOMAIN s} \ {Head(s).n}
         /\ \A i, j \in DOMAIN Tail(s) : i < j => Tail(s)[i].n < Tail(s)[j].n
<1>1. /\ Head(s) = s[1] /\ Len(s) \in Nat /\ Len(s) >= 1
      /\ DOMAIN s = 1..Len(s) /\ DOMAIN Tail(s) = 1..(Len(s) - 1)
      /\ \A i \in 1..(Len(s) - 1) : Tail(s)[i] = s[i + 1]
  BY TailShape
<1>2. \A i \in DOMAIN s : s[i].n \in Int
  <2>1. \A i \in DOMAIN s : s[i] \in Completion
    BY <1>1, ElementOfSeq
  <2>2. QED
    BY <2>1 DEF Completion
<1>3. 1 \in DOMAIN s /\ \A i \in DOMAIN Tail(s) : i + 1 \in DOMAIN s /\ 1 < i + 1
  BY <1>1
<1>4. ASSUME NEW i \in DOMAIN Tail(s)
      PROVE  Tail(s)[i].n \in {s[k].n : k \in DOMAIN s} \ {Head(s).n}
  <2>1. Tail(s)[i] = s[i + 1] /\ s[1].n < s[i + 1].n
    BY <1>1, <1>3
  <2>2. QED
    BY <1>1, <1>2, <1>3, <2>1
<1>5. ASSUME NEW i \in DOMAIN s, s[i].n # Head(s).n
      PROVE  s[i].n \in {Tail(s)[k].n : k \in DOMAIN Tail(s)}
  <2>1. i - 1 \in DOMAIN Tail(s) /\ (i - 1) + 1 = i
    BY <1>1, <1>5
  <2>2. Tail(s)[i - 1] = s[i]
    BY <1>1, <2>1
  <2>3. QED
    BY <2>1, <2>2
<1>6. ASSUME NEW i \in DOMAIN Tail(s), NEW j \in DOMAIN Tail(s), i < j
      PROVE  Tail(s)[i].n < Tail(s)[j].n
  <2>1. i + 1 \in DOMAIN s /\ j + 1 \in DOMAIN s /\ i + 1 < j + 1
    BY <1>1, <1>3, <1>6
  <2>2. s[i + 1].n < s[j + 1].n
    BY <2>1
  <2>3. QED
    BY <1>1, <2>2
<1>7. Head(s).n \in {s[i].n : i \in DOMAIN s}
  BY <1>1, <1>3
<1>8. QED
  BY <1>4, <1>5, <1>6, <1>7

\* A completion later than all that wait keeps the backlog in order.
LEMMA LengthenedBacklog ==
  ASSUME NEW s \in Seq(Completion), NEW c \in Completion,
         \A i \in DOMAIN s : s[i].n < c.n,
         \A i, j \in DOMAIN s : i < j => s[i].n < s[j].n
  PROVE  /\ {Append(s, c)[i].n : i \in DOMAIN Append(s, c)} = {s[i].n : i \in DOMAIN s} \cup {c.n}
         /\ \A i, j \in DOMAIN Append(s, c) : i < j => Append(s, c)[i].n < Append(s, c)[j].n
<1>1. /\ Len(s) \in Nat /\ DOMAIN s = 1..Len(s) /\ DOMAIN Append(s, c) = 1..(Len(s) + 1)
      /\ \A i \in 1..Len(s) : Append(s, c)[i] = s[i]
      /\ Append(s, c)[Len(s) + 1] = c
  BY AppendShape
<1>2. \A i \in DOMAIN Append(s, c) : i \in DOMAIN s \/ i = Len(s) + 1
  BY <1>1
<1>3. DOMAIN s \subseteq DOMAIN Append(s, c) /\ Len(s) + 1 \in DOMAIN Append(s, c)
  BY <1>1
<1>4. {Append(s, c)[i].n : i \in DOMAIN Append(s, c)} = {s[i].n : i \in DOMAIN s} \cup {c.n}
  BY <1>1, <1>2, <1>3
<1>5. ASSUME NEW i \in DOMAIN Append(s, c), NEW j \in DOMAIN Append(s, c), i < j
      PROVE  Append(s, c)[i].n < Append(s, c)[j].n
  <2>1. i \in DOMAIN s
    BY <1>1, <1>5
  <2>2. QED
    BY <1>1, <1>2, <1>5, <2>1
<1>6. QED
  BY <1>4, <1>5

LEMMA InitHistory == Init => HistoryInv
  BY DEF Init, HistoryInv, BacklogInOrder, InPosted, InBacklog, BeingPlaced

LEMMA HistoryKept ==
  ASSUME HistoryInv, UNCHANGED <<posted, backlog, lost>>,
         (1..issued)' \ BeingPlaced' = (1..issued) \ BeingPlaced
  PROVE  HistoryInv'
  BY DEF HistoryInv, BacklogInOrder, InPosted, InBacklog

\* The completion in hand is added to one of the places.
LEMMA HistoryPost ==
  ASSUME IInv, HistoryInv, at = "placed", kind \in {"post", "emit"}, at' = "unlocked",
         issued' = issued, posted' = Append(posted, issued), UNCHANGED <<backlog, lost>>
  PROVE  HistoryInv'
<1>1. issued \in 1..MaxIssued /\ posted \in Seq(1..MaxIssued)
  BY DEF IInv, Base, TypeOK, HandInv
<1>2. BeingPlaced = {issued} /\ BeingPlaced' = {}
  BY DEF BeingPlaced
<1>3. issued \notin {posted[i] : i \in DOMAIN posted}
      /\ \A i, j \in DOMAIN posted : posted[i] = posted[j] => i = j
  BY <1>2 DEF HistoryInv, InPosted
<1>4. /\ {Append(posted, issued)[i] : i \in DOMAIN Append(posted, issued)}
           = {posted[i] : i \in DOMAIN posted} \cup {issued}
      /\ \A i, j \in DOMAIN Append(posted, issued) :
           Append(posted, issued)[i] = Append(posted, issued)[j] => i = j
  BY <1>1, <1>3, AppendDistinct
<1>5. InPosted' = InPosted \cup {issued}
  BY <1>4 DEF InPosted
<1>6. InBacklog' = InBacklog
  BY DEF InBacklog
<1>7. issued \in 1..issued /\ (1..issued)' = 1..issued
  BY <1>1
<1>8. QED
  BY <1>2, <1>4, <1>5, <1>6, <1>7 DEF HistoryInv, BacklogInOrder

LEMMA HistoryBacklog ==
  ASSUME IInv, HistoryInv, at = "place", kind \in {"post", "emit"}, at' = "unlocked",
         NEW o \in Op, BacklogLocked(o), UNCHANGED <<issued, posted>>
  PROVE  HistoryInv'
<1> DEFINE c == [op |-> o, n |-> issued]
<1>1. issued \in 1..MaxIssued /\ backlog \in Seq(Completion)
      /\ backlog' = Append(backlog, c) /\ lost' = lost
  BY DEF IInv, Base, TypeOK, HandInv, BacklogLocked
<1>2. c \in Completion /\ c.n = issued
  BY <1>1 DEF Completion
<1>3. BeingPlaced = {issued} /\ BeingPlaced' = {}
  BY DEF BeingPlaced
<1>4. issued \notin InBacklog /\ InBacklog \subseteq 1..issued /\ BacklogInOrder
  BY <1>3 DEF HistoryInv
<1>5. \A i \in DOMAIN backlog : backlog[i].n < c.n
  <2> SUFFICES ASSUME NEW i \in DOMAIN backlog PROVE backlog[i].n < issued
    BY <1>2
  <2>1. backlog[i].n \in InBacklog
    BY DEF InBacklog
  <2>2. backlog[i].n \in 1..issued /\ backlog[i].n # issued
    BY <1>4, <2>1
  <2>3. QED
    BY <1>1, <2>2
<1> HIDE DEF c
<1>6. /\ {Append(backlog, c)[i].n : i \in DOMAIN Append(backlog, c)}
           = {backlog[i].n : i \in DOMAIN backlog} \cup {c.n}
      /\ \A i, j \in DOMAIN Append(backlog, c) :
           i < j => Append(backlog, c)[i].n < Append(backlog, c)[j].n
  BY <1>1, <1>2, <1>4, <1>5, LengthenedBacklog DEF BacklogInOrder
<1>7. InBacklog' = InBacklog \cup {issued} /\ BacklogInOrder'
  BY <1>1, <1>2, <1>6 DEF InBacklog, BacklogInOrder
<1>8. InPosted' = InPosted /\ issued \in 1..issued /\ (1..issued)' = 1..issued
  BY <1>1 DEF InPosted
<1>9. QED
  BY <1>1, <1>3, <1>7, <1>8 DEF HistoryInv

LEMMA HistoryDrain ==
  ASSUME IInv, HistoryInv, Drain
  PROVE  HistoryInv'
<1> DEFINE n == Head(backlog).n
<1>1. /\ backlog \in Seq(Completion) /\ backlog # <<>> /\ backlog' = Tail(backlog)
      /\ posted \in Seq(1..MaxIssued) /\ posted' = Append(posted, n)
      /\ UNCHANGED <<issued, lost, kind>> /\ at # "unlocked" /\ at' # "unlocked"
  BY DEF IInv, Base, TypeOK, Written, Drain, PostLocked
<1>2. n \in 1..MaxIssued
  <2>1. Head(backlog) \in Completion
    BY <1>1, TailShape
  <2>2. QED
    BY <2>1 DEF Completion
<1>3. /\ n \in {backlog[i].n : i \in DOMAIN backlog}
      /\ {Tail(backlog)[i].n : i \in DOMAIN Tail(backlog)} = {backlog[i].n : i \in DOMAIN backlog} \ {n}
      /\ \A i, j \in DOMAIN Tail(backlog) : i < j => Tail(backlog)[i].n < Tail(backlog)[j].n
  BY <1>1, DrainedBacklog DEF HistoryInv, BacklogInOrder
<1> HIDE DEF n
<1>4. n \in InBacklog /\ InBacklog' = InBacklog \ {n} /\ BacklogInOrder'
  BY <1>1, <1>3 DEF InBacklog, BacklogInOrder
<1>5. n \notin {posted[i] : i \in DOMAIN posted}
      /\ \A i, j \in DOMAIN posted : posted[i] = posted[j] => i = j
  BY <1>4 DEF HistoryInv, InPosted
<1>6. /\ {Append(posted, n)[i] : i \in DOMAIN Append(posted, n)} = {posted[i] : i \in DOMAIN posted} \cup {n}
      /\ \A i, j \in DOMAIN Append(posted, n) : Append(posted, n)[i] = Append(posted, n)[j] => i = j
  BY <1>1, <1>2, <1>5, AppendDistinct
<1>7. InPosted' = InPosted \cup {n}
  BY <1>1, <1>6 DEF InPosted
<1>8. BeingPlaced' = BeingPlaced /\ (1..issued)' = 1..issued
  BY <1>1 DEF BeingPlaced
<1>9. QED
  BY <1>1, <1>4, <1>6, <1>7, <1>8 DEF HistoryInv

LEMMA NextHistory == IInv /\ HistoryInv /\ [Next]_vars => HistoryInv'
<1> SUFFICES ASSUME IInv, HistoryInv, [Next]_vars PROVE HistoryInv'
  OBVIOUS
<1>1. issued \in Nat
  BY CqAssumption DEF IInv, Base, TypeOK
<1>2. ASSUME NEW o \in Op, OpAlloc(o) PROVE HistoryInv'
  BY <1>2, HistoryKept DEF OpAlloc, BeingPlaced, lockVars
<1>3. ASSUME NEW o \in Op, NEW k \in {"post", "skip"}, PostLock(o, k) PROVE HistoryInv'
  BY <1>1, <1>3, HistoryKept DEF PostLock, BeingPlaced
<1>4. CASE EmitLock
  BY <1>1, <1>4, HistoryKept DEF EmitLock, BeingPlaced
<1>5. CASE SettleLock
  BY <1>5, HistoryKept DEF SettleLock, BeingPlaced
<1>6. CASE Drain
  BY <1>6, HistoryDrain
<1>7. CASE DrainEnd
  BY <1>7, HistoryKept DEF DrainEnd, BeingPlaced, IInv, Base, TypeOK, Kinds
<1>8. CASE PlaceNothing
  BY <1>8, HistoryKept DEF PlaceNothing, Unlock, BeingPlaced
<1>9. CASE PlaceInCq
  <2>1. kind \in {"post", "emit"}
    BY <1>9 DEF IInv, Written, PlaceInCq
  <2>2. QED
    BY <1>9, <2>1, HistoryPost DEF PlaceInCq, PostLocked, Unlock
<1>10. CASE PlaceInBacklog
  <2>1. hand \in Op
    BY <1>10 DEF IInv, Base, TypeOK, HandInv, PlaceInBacklog
  <2>2. QED
    BY <1>10, <2>1, HistoryBacklog DEF PlaceInBacklog, Unlock
<1>11. ASSUME NEW o \in Op, PlaceOnCarrier(o) PROVE HistoryInv'
  BY <1>11, HistoryBacklog DEF PlaceOnCarrier, Unlock
<1>12. CASE DropEmission
  <2>1. BeingPlaced = {issued} /\ BeingPlaced' = {} /\ lost' = lost \cup {issued}
        /\ UNCHANGED <<issued, posted, backlog>>
    BY <1>12 DEF DropEmission, Unlock, BeingPlaced
  <2>2. InPosted' = InPosted /\ InBacklog' = InBacklog /\ (1..issued)' = 1..issued /\ issued \in 1..issued
    BY <1>1, <1>12, <2>1 DEF InPosted, InBacklog, IInv, Base, HandInv, DropEmission
  <2>3. QED
    BY <2>1, <2>2 DEF HistoryInv, BacklogInOrder
<1>13. CASE Reap
  BY <1>13, HistoryKept DEF Reap, lockVars, BeingPlaced
<1>14. CASE UNCHANGED vars
  BY <1>14, HistoryKept DEF vars, BeingPlaced
<1>15. CASE DrainEntry
  BY <1>15, HistoryKept DEF DrainEntry, PostLocked, BeingPlaced
<1>16. CASE PlaceEntry
  BY <1>16, HistoryKept DEF PlaceEntry, PostLocked, BeingPlaced
<1>17. QED
  BY <1>2, <1>3, <1>4, <1>5, <1>6, <1>7, <1>8, <1>9, <1>10, <1>11, <1>12, <1>13, <1>14,
     <1>15, <1>16
     DEF Next, LockSection

LEMMA HistoryInvariance == Spec => [](IInv /\ HistoryInv)
<1>1. Init => IInv /\ HistoryInv
  BY InitIInv, InitHistory
<1>2. IInv /\ HistoryInv /\ [Next]_vars => (IInv /\ HistoryInv)'
  BY NextIInv, NextHistory
<1>3. QED
  BY <1>1, <1>2, PTL DEF Spec

(***************************************************************************)
(* drain_backlog_locked and backlog_locked keep the backlog first in,      *)
(* first out: what waits waits in the order the lock was taken for it.  A  *)
(* newer completion may still find room in the CQ ahead of what waits.     *)
(***************************************************************************)
THEOREM BacklogFifo == Spec => []BacklogInOrder
<1>1. HistoryInv => BacklogInOrder
  BY DEF HistoryInv
<1>2. QED
  BY <1>1, HistoryInvariance, PTL

(***************************************************************************)
(* No completion is posted twice, none is posted and still in the backlog, *)
(* and none disappears without the overflow counter saying so, however     *)
(* full the CQ is and whoever holds the lock.                              *)
(***************************************************************************)
THEOREM NothingLostOrDoubled == Spec => []EachCompletionOnce
<1>1. ASSUME IInv, HistoryInv, NEW n \in 1..issued
      PROVE  Places(n) = (IF n \in BeingPlaced THEN 0 ELSE 1)
  <2> DEFINE P == {i \in DOMAIN posted : posted[i] = n}
             B == {i \in DOMAIN backlog : backlog[i].n = n}
  <2>1. Cardinality(P) = IF P = {} THEN 0 ELSE 1
    <3>1. \A i, j \in P : i = j
      BY <1>1 DEF HistoryInv
    <3>2. QED
      BY <3>1, AtMostOne
  <2>2. Cardinality(B) = IF B = {} THEN 0 ELSE 1
    <3>1. backlog \in Seq(Completion)
      BY <1>1 DEF IInv, Base, TypeOK
    <3>2. \A i, j \in B : i = j
      <4> SUFFICES ASSUME NEW i \in B, NEW j \in B, i # j PROVE FALSE
        OBVIOUS
      <4>1. i \in Nat /\ j \in Nat
        BY <3>1, LenProperties
      <4>2. i < j \/ j < i
        BY <4>1
      <4>3. n \in Int
        OBVIOUS
      <4>4. n < n
        BY <1>1, <4>2 DEF HistoryInv, BacklogInOrder
      <4>5. QED
        BY <4>3, <4>4
    <3>3. QED
      BY <3>2, AtMostOne
  <2>3. P = {} <=> n \notin InPosted
    BY DEF InPosted
  <2>4. B = {} <=> n \notin InBacklog
    BY DEF InBacklog
  <2>5. QED
    BY <1>1, <2>1, <2>2, <2>3, <2>4 DEF HistoryInv, Places
<1>2. IInv /\ HistoryInv => EachCompletionOnce
  BY <1>1 DEF EachCompletionOnce
<1>3. QED
  BY <1>2, HistoryInvariance, PTL
=============================================================================
