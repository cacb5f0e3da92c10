--------------------------- MODULE CompletionQueue ---------------------------
(***************************************************************************)
(* The completion side of one ring (src/src/slipstream_engine.c): the pool *)
(* of ops, the CQ the caller reads, and the backlog of completions the CQ  *)
(* had no room for.                                                        *)
(*                                                                         *)
(* Everyone who finishes an op does so under r->mtx, so the lock sections  *)
(* of the engine thread, the worker and other rings' senders follow one    *)
(* another: `at` says how far the holder of the lock has come.  The caller *)
(* takes no lock.  It moves the head whenever it likes, also between two   *)
(* reads of cq_room in one lock section, so each read is a step here, and  *)
(* so is each of the two stores of post_locked.                            *)
(*                                                                         *)
(* A completion is named by a number, in the order the lock was taken for  *)
(* it; user_data, res and flags ride along and decide nothing here.        *)
(***************************************************************************)
EXTENDS Integers, Sequences, FiniteSets

CONSTANTS
  Op,          \* the slots of the op pool
  CqEntries,   \* cq_entries: the slots of the CQ
  Wrap,        \* the CQ counters run modulo Wrap (2^32 in the code)
  MaxIssued,   \* bound: completions a behaviour produces
  None         \* a null op pointer

ASSUME CqAssumption ==
  /\ CqEntries \in Nat \ {0}
  /\ Cardinality(Op) = CqEntries   \* op_pool_n = cq_entries at setup
  /\ Wrap \in Nat
  /\ Wrap > CqEntries
  /\ MaxIssued \in Nat
  /\ None \notin Op

\* The sizes are powers of two, so the counters wrap where the array does.
ASSUME WrapAssumption == Wrap % CqEntries = 0

VARIABLES
  free,        \* op_free
  inflight,    \* ops submitted and not yet finished, wherever they are
  backlog,     \* backlog_head .. backlog_tail
  slots,       \* the cqes[] array
  head, tail,  \* the CQ counters: the caller owns head, the engine tail
  at,          \* where the holder of mtx is
  kind,        \* what the holder of mtx came to do
  hand,        \* the op it came with
  issued,      \* completions named so far
  overflow,    \* cq->overflow
  lost,        \* history: completions that only overflow remembers
  posted,      \* history: completions in the order post_locked wrote them
  reaped       \* history: what the caller has read

lockVars == <<at, kind, hand>>
cqVars == <<slots, tail, posted>>
vars == <<free, inflight, backlog, slots, head, tail, at, kind, hand, issued,
          overflow, lost, posted, reaped>>

Kinds == {"post", "skip", "emit", "settle"}

(***************************************************************************)
(* cq_avail and cq_room.  The difference of two unsigned counters is taken *)
(* modulo Wrap.                                                            *)
(***************************************************************************)
SuccNoWrap(c) == c + 1   \* mutant: a counter that does not wrap

Succ(c) == IF c + 1 = Wrap THEN 0 ELSE c + 1

CqAvail == IF tail >= head THEN tail - head ELSE tail - head + Wrap

CqRoomOffByOne == CqAvail <= CqEntries   \* mutant: one slot too many

CqRoom == CqAvail < CqEntries

(***************************************************************************)
(* post_locked, in its two stores: the entry is written, then the tail is  *)
(* published.  The caller may read in between.                             *)
(***************************************************************************)
PostLockedTailFirst(part, c) ==   \* mutant: publishes, then writes the entry
  \/ /\ part = "entry"
     /\ tail' = Succ(tail)
     /\ posted' = Append(posted, c)
     /\ UNCHANGED slots
  \/ /\ part = "tail"
     /\ slots' = [slots EXCEPT ![(tail + Wrap - 1) % CqEntries] = c]
     /\ UNCHANGED <<tail, posted>>

PostLocked(part, c) ==
  \/ /\ part = "entry"
     /\ slots' = [slots EXCEPT ![tail % CqEntries] = c]
     /\ UNCHANGED <<tail, posted>>
  \/ /\ part = "tail"
     /\ tail' = Succ(tail)
     /\ posted' = Append(posted, c)
     /\ UNCHANGED slots

Backlogged == {backlog[i].op : i \in DOMAIN backlog}

-----------------------------------------------------------------------------
Init ==
  /\ free = Op
  /\ inflight = {}
  /\ backlog = <<>>
  /\ slots = [s \in 0..(CqEntries - 1) |-> 0]
  /\ head = 0
  /\ tail = 0
  /\ at = "unlocked"
  /\ kind = "post"
  /\ hand = None
  /\ issued = 0
  /\ overflow = 0
  /\ lost = {}
  /\ posted = <<>>
  /\ reaped = <<>>

\* op_alloc: a lock section of its own.
OpAlloc(o) ==
  /\ at = "unlocked"
  /\ o \in free
  /\ free' = free \ {o}
  /\ inflight' = inflight \cup {o}
  /\ UNCHANGED <<backlog, slots, head, tail, lockVars, issued, overflow, lost,
                 posted, reaped>>

\* slip_engine_post takes the lock with a finished op.  `skip` is a success
\* under IOSQE_CQE_SKIP_SUCCESS.
PostLock(o, k) ==
  /\ at = "unlocked"
  /\ o \in inflight
  /\ k \in {"post", "skip"}
  /\ k = "post" => issued < MaxIssued
  /\ at' = "drain"
  /\ kind' = k
  /\ hand' = o
  /\ inflight' = inflight \ {o}
  /\ issued' = IF k = "post" THEN issued + 1 ELSE issued
  /\ UNCHANGED <<free, backlog, slots, head, tail, overflow, lost, posted, reaped>>

\* slip_engine_emit takes the lock: a multishot emission, or a message from
\* another ring.  It comes without an op.
EmitLock ==
  /\ at = "unlocked"
  /\ issued < MaxIssued
  /\ at' = "drain"
  /\ kind' = "emit"
  /\ issued' = issued + 1
  /\ UNCHANGED <<free, inflight, backlog, slots, head, tail, hand, overflow,
                 lost, posted, reaped>>

\* settle_worker_ticket takes the lock, from an enter that waits.
SettleLock ==
  /\ at = "unlocked"
  /\ at' = "drain"
  /\ kind' = "settle"
  /\ UNCHANGED <<free, inflight, backlog, slots, head, tail, hand, issued,
                 overflow, lost, posted, reaped>>

\* drain_backlog_locked, one turn of its loop: up to the entry of post_locked.
DrainEntry ==
  /\ at = "drain"
  /\ backlog # <<>>
  /\ CqRoom
  /\ PostLocked("entry", Head(backlog).n)
  /\ at' = "drained"
  /\ UNCHANGED <<free, inflight, backlog, head, kind, hand, issued, overflow, lost, reaped>>

\* Mutant: the drained completion stays in the backlog.
DrainKeeps ==
  /\ at = "drained"
  /\ PostLocked("tail", Head(backlog).n)
  /\ at' = "drain"
  /\ UNCHANGED <<free, inflight, backlog, head, kind, hand, issued, overflow, lost, reaped>>

\* The rest of the turn: the tail is published, the op goes back.
Drain ==
  /\ at = "drained"
  /\ PostLocked("tail", Head(backlog).n)
  /\ free' = free \cup {Head(backlog).op}
  /\ backlog' = Tail(backlog)
  /\ at' = "drain"
  /\ UNCHANGED <<inflight, head, kind, hand, issued, overflow, lost, reaped>>

\* Mutant: an enter that settles may leave what there is room for.
DrainEndsEarly ==
  /\ at = "drain"
  /\ backlog = <<>> \/ ~CqRoom \/ kind = "settle"
  /\ at' = IF kind = "settle" THEN "unlocked" ELSE "place"
  /\ UNCHANGED <<free, inflight, backlog, slots, head, tail, kind, hand, issued,
                 overflow, lost, posted, reaped>>

\* The loop ends: nothing waits, or there is no room.
DrainEnd ==
  /\ at = "drain"
  /\ backlog = <<>> \/ ~CqRoom
  /\ at' = IF kind = "settle" THEN "unlocked" ELSE "place"
  /\ UNCHANGED <<free, inflight, backlog, slots, head, tail, kind, hand, issued,
                 overflow, lost, posted, reaped>>

Unlock == at' = "unlocked" /\ hand' = None /\ UNCHANGED kind

\* A success nobody wants to hear of: the op goes back, no CQE.
PlaceNothing ==
  /\ at = "place"
  /\ kind = "skip"
  /\ free' = free \cup {hand}
  /\ Unlock
  /\ UNCHANGED <<inflight, backlog, slots, head, tail, issued, overflow, lost,
                 posted, reaped>>

\* There is room when cq_room is read for the second time: the entry.
PlaceEntry ==
  /\ at = "place"
  /\ kind \in {"post", "emit"}
  /\ CqRoom
  /\ PostLocked("entry", issued)
  /\ at' = "placed"
  /\ UNCHANGED <<free, inflight, backlog, head, kind, hand, issued, overflow, lost, reaped>>

\* The tail is published, a finished op goes back.
PlaceInCq ==
  /\ at = "placed"
  /\ PostLocked("tail", issued)
  /\ free' = IF kind = "post" THEN free \cup {hand} ELSE free
  /\ Unlock
  /\ UNCHANGED <<inflight, backlog, head, issued, overflow, lost, reaped>>

\* Mutant: the newest completion is put in front.
BacklogInFront(o) ==
  /\ backlog' = <<[op |-> o, n |-> issued]>> \o backlog
  /\ overflow' = overflow + 1
  /\ UNCHANGED lost

\* backlog_locked: the result waits on op o.
BacklogLocked(o) ==
  /\ backlog' = Append(backlog, [op |-> o, n |-> issued])
  /\ overflow' = overflow + 1
  /\ UNCHANGED lost

\* A finished op waits in the backlog itself.
PlaceInBacklog ==
  /\ at = "place"
  /\ kind = "post"
  /\ ~CqRoom
  /\ BacklogLocked(hand)
  /\ Unlock
  /\ UNCHANGED <<free, inflight, slots, head, tail, issued, posted, reaped>>

\* Mutant: the carrier stays on the free list.
PlaceOnCarrierShared(o) ==
  /\ at = "place"
  /\ kind = "emit"
  /\ ~CqRoom
  /\ o \in free
  /\ UNCHANGED free
  /\ BacklogLocked(o)
  /\ Unlock
  /\ UNCHANGED <<inflight, slots, head, tail, issued, posted, reaped>>

\* An emission waits on a carrier from the pool.
PlaceOnCarrier(o) ==
  /\ at = "place"
  /\ kind = "emit"
  /\ ~CqRoom
  /\ o \in free
  /\ free' = free \ {o}
  /\ BacklogLocked(o)
  /\ Unlock
  /\ UNCHANGED <<inflight, slots, head, tail, issued, posted, reaped>>

\* No carrier either: the counter is all that remains of the completion.
DropEmission ==
  /\ at = "place"
  /\ kind = "emit"
  /\ ~CqRoom
  /\ free = {}
  /\ overflow' = overflow + 1
  /\ lost' = lost \cup {issued}
  /\ Unlock
  /\ UNCHANGED <<free, inflight, backlog, slots, head, tail, issued, posted, reaped>>

\* The caller reads one CQE and moves the head (liburing's io_uring_cqe_seen).
Reap ==
  /\ head # tail
  /\ reaped' = Append(reaped, slots[head % CqEntries])
  /\ head' = Succ(head)
  /\ UNCHANGED <<free, inflight, backlog, slots, tail, lockVars, issued,
                 overflow, lost, posted>>

LockSection ==
  \/ DrainEntry \/ Drain \/ DrainEnd
  \/ PlaceNothing \/ PlaceEntry \/ PlaceInCq \/ PlaceInBacklog \/ DropEmission
  \/ \E o \in Op : PlaceOnCarrier(o)

Next ==
  \/ \E o \in Op : OpAlloc(o)
  \/ \E o \in Op, k \in {"post", "skip"} : PostLock(o, k)
  \/ EmitLock
  \/ SettleLock
  \/ LockSection
  \/ Reap

Spec == Init /\ [][Next]_vars

(***************************************************************************)
(* A lock section ends; the caller reads what is there and, as long as     *)
(* nobody else comes to the lock, calls enter to wait, which settles.      *)
(* Whoever else takes the lock drains as well, so weak fairness is enough. *)
(***************************************************************************)
Fairness ==
  /\ WF_vars(LockSection)
  /\ WF_vars(Reap)
  /\ WF_vars(SettleLock)

FairSpec == Spec /\ Fairness

-----------------------------------------------------------------------------
Completion == [op : Op, n : 1..MaxIssued]

TypeOK ==
  /\ free \subseteq Op
  /\ inflight \subseteq Op
  /\ backlog \in Seq(Completion)
  /\ slots \in [0..(CqEntries - 1) -> 0..MaxIssued]
  /\ head \in 0..(Wrap - 1)
  /\ tail \in 0..(Wrap - 1)
  /\ at \in {"unlocked", "drain", "drained", "place", "placed"}
  /\ kind \in Kinds
  /\ hand \in Op \cup {None}
  /\ issued \in 0..MaxIssued
  /\ overflow \in Nat
  /\ lost \subseteq 1..MaxIssued
  /\ posted \in Seq(1..MaxIssued)
  /\ reaped \in Seq(0..MaxIssued)

(***************************************************************************)
(* The CQ never holds more than cq_entries unread completions: what        *)
(* post_locked writes never lands on a slot the caller has not read.       *)
(***************************************************************************)
CqBounded == CqAvail <= CqEntries

(***************************************************************************)
(* Every slot of the pool is in exactly one place: free, submitted, in the *)
(* hand of the lock's holder, or carrying a backlogged completion.  An op  *)
(* released twice or forgotten breaks it (op_release, op_alloc_locked).    *)
(***************************************************************************)
Held == IF hand = None THEN {} ELSE {hand}

OneHome ==
  /\ free \cup inflight \cup Held \cup Backlogged = Op
  /\ free \cap inflight = {}
  /\ Held \cap (free \cup inflight \cup Backlogged) = {}
  /\ Backlogged \cap (free \cup inflight) = {}
  /\ \A i, j \in DOMAIN backlog : backlog[i].op = backlog[j].op => i = j

(***************************************************************************)
(* What the caller finds between head and tail is what was posted, in that *)
(* order, and what it has read so far is a prefix of it - across the wrap  *)
(* of the counters and of the slot array, and also between the two stores  *)
(* of post_locked: no entry is published before it is written.             *)
(***************************************************************************)
CallerReadsWhatWasPosted ==
  /\ Len(posted) = Len(reaped) + CqAvail
  /\ \A i \in DOMAIN reaped : reaped[i] = posted[i]
  /\ \A k \in 0..(CqAvail - 1) :
       slots[(head + k) % CqEntries] = posted[Len(reaped) + k + 1]

(***************************************************************************)
(* A completion that took the lock is posted once, or waits in the backlog *)
(* once, or was dropped with overflow to say so; it is never in two of     *)
(* these.  The one being placed is in none yet.                            *)
(***************************************************************************)
Places(n) ==
  Cardinality({i \in DOMAIN posted : posted[i] = n})
  + Cardinality({i \in DOMAIN backlog : backlog[i].n = n})
  + (IF n \in lost THEN 1 ELSE 0)

BeingPlaced == IF at # "unlocked" /\ kind \in {"post", "emit"} THEN {issued} ELSE {}

EachCompletionOnce ==
  \A n \in 1..issued : Places(n) = (IF n \in BeingPlaced THEN 0 ELSE 1)

(***************************************************************************)
(* The backlog is first in, first out: what waits in it waits in the order *)
(* the completions happened.  Of the CQ it says nothing: a newer           *)
(* completion may find room, and enter the CQ, while older ones wait.      *)
(***************************************************************************)
BacklogInOrder ==
  \A i, j \in DOMAIN backlog : i < j => backlog[i].n < backlog[j].n

(***************************************************************************)
(* A completion that was not dropped reaches the caller.                   *)
(***************************************************************************)
EveryCompletionReaped ==
  \A n \in 1..MaxIssued :
    (n <= issued) ~> (n \in lost \/ \E i \in DOMAIN reaped : reaped[i] = n)

=============================================================================
