-------------------------------- MODULE WorkerQueue --------------------------------
(***************************************************************************)
(* The worker's queue, link by link (wq_head .. wq_tail of struct          *)
(* slip_ring): the submitter appends, the worker takes the head, and       *)
(* cancel_matching takes ops out of the middle, letting go of the lock at  *)
(* each to post it (src/src/engine_posix.c).  eng_op::next also threads    *)
(* the free list, and an op that is free keeps its SQE until it is handed  *)
(* out again (op_release, op_alloc_locked in src/src/slipstream_engine.c). *)
(*                                                                         *)
(* Requests are unlinked file ops, and cancels that name a descriptor      *)
(* (IORING_ASYNC_CANCEL_FD); nothing is parked or queued, and the CQ has   *)
(* room for all of them.  What a thread does without the lock and without  *)
(* touching the list is part of the step that follows.                     *)
(***************************************************************************)
EXTENDS Integers, Sequences, FiniteSets

CONSTANTS
  Pool,        \* the op pool, each op once, in the order of setup's free list
  File,        \* what requests and cancels name
  MaxRequests, \* bound: SQEs submitted
  Null

Op == {Pool[i] : i \in DOMAIN Pool}

VARIABLES
  next,              \* eng_op::next
  op_free,           \* the free list's first op
  sqe,               \* what each op carries: the number of its request, its file
  wq_head, wq_tail,
  pc,                \* of the submitter
  cur,               \* the op it is running
  p, t,              \* cancel_matching: whose link p is (Null: wq_head), and the target
  count,             \* what it has cancelled
  wop,               \* the op inside the worker
  taken,             \* requests so far
  answers            \* history: how each was answered

list == <<wq_head, wq_tail>>
pool == <<next, op_free, sqe, answers>>
walk == <<p, t, count>>
vars == <<pool, list, pc, cur, walk, wop, taken>>

Init ==
  /\ next = [o \in Op |-> LET i == CHOOSE j \in DOMAIN Pool : Pool[j] = o
                          IN IF i = Len(Pool) THEN Null ELSE Pool[i + 1]]
  /\ op_free = Pool[1]
  /\ sqe = [o \in Op |-> [id |-> 0, file |-> Null, all |-> FALSE]]
  /\ wq_head = Null /\ wq_tail = Null
  /\ pc = "out" /\ cur = Null
  /\ p = Null /\ t = Null /\ count = 0
  /\ wop = Null
  /\ taken = 0 /\ answers = [i \in 1..MaxRequests |-> <<>>]

\* cancel_matching holds the lock while it walks, and lets go of it at a target.
LockFree == pc # "walk"

\* slip_engine_post with room in the CQ: the op goes on the free list.
Post(o, res) ==
  /\ answers' = [answers EXCEPT ![sqe[o].id] = Append(@, res)]
  /\ next' = [next EXCEPT ![o] = op_free]
  /\ op_free' = o
  /\ UNCHANGED sqe

-----------------------------------------------------------------------------
(* The submitter                                                           *)

\* op_alloc, and the SQE copied: a file op, or a cancel with or without ALL.
Take(file, then, all) ==
  /\ pc = "out" /\ taken < MaxRequests /\ op_free # Null
  /\ taken' = taken + 1
  /\ op_free' = next[op_free]
  /\ next' = [next EXCEPT ![op_free] = Null]
  /\ sqe' = [sqe EXCEPT ![op_free] = [id |-> taken + 1, file |-> file, all |-> all]]
  /\ cur' = op_free
  /\ pc' = then
  /\ p' = Null /\ t' = Null /\ count' = 0
  /\ UNCHANGED <<answers, list, wop>>

\* slip_posix_hand_to_worker
Hand ==
  /\ pc = "hand" /\ pc' = "out"
  /\ IF wq_tail # Null
     THEN next' = [next EXCEPT ![wq_tail] = cur] /\ UNCHANGED wq_head
     ELSE wq_head' = cur /\ UNCHANGED next
  /\ wq_tail' = cur
  /\ cur' = Null
  /\ UNCHANGED <<op_free, sqe, answers, walk, wop, taken>>

\* *p
AtP == IF p = Null THEN wq_head ELSE next[p]
Named(o) == sqe[o].file = sqe[cur].file

WalkPast ==
  /\ pc = "walk" /\ AtP # Null /\ ~Named(AtP)
  /\ p' = AtP
  /\ UNCHANGED <<pool, list, pc, cur, t, count, wop, taken>>

\* The last op of the list that starts at o, as links says.
LastFrom(o, links) ==
  LET f[i \in 0..Len(Pool)] ==
        IF i = 0 THEN o ELSE IF f[i - 1] = Null \/ links[f[i - 1]] = Null THEN f[i - 1]
        ELSE links[f[i - 1]]
  IN f[Len(Pool)]

\* A target is unlinked, and the lock let go of.
WalkTakes ==
  LET o == AtP IN
  /\ pc = "walk" /\ o # Null /\ Named(o)
  /\ t' = o
  /\ IF p = Null THEN wq_head' = next[o] /\ UNCHANGED next
     ELSE next' = [next EXCEPT ![p] = next[o]] /\ UNCHANGED wq_head
  /\ wq_tail' = IF wq_tail = o THEN LastFrom(wq_head', next') ELSE wq_tail
  /\ pc' = "target"
  /\ UNCHANGED <<op_free, sqe, answers, cur, p, count, wop, taken>>

\* cancel_target, without the lock but for the post's own.
CancelTarget ==
  /\ pc = "target" /\ pc' = "relock"
  /\ Post(t, "canceled")
  /\ count' = count + 1
  /\ UNCHANGED <<list, cur, p, t, wop, taken>>

\* With ALL the lock is taken again and the walk goes on from the link it was at.
Relock ==
  /\ pc = "relock"
  /\ pc' = IF sqe[cur].all THEN "walk" ELSE "answer"
  /\ UNCHANGED <<pool, list, cur, walk, wop, taken>>

WalkEnd ==
  /\ pc = "walk" /\ AtP = Null
  /\ pc' = "answer"
  /\ UNCHANGED <<pool, list, cur, walk, wop, taken>>

Answer ==
  /\ pc = "answer" /\ pc' = "out"
  /\ Post(cur, IF count = 0 THEN "enoent" ELSE "ok")
  /\ cur' = Null
  /\ UNCHANGED <<list, walk, wop, taken>>

-----------------------------------------------------------------------------
(* worker_main                                                             *)
WorkerPop ==
  /\ LockFree /\ wop = Null /\ wq_head # Null
  /\ wop' = wq_head
  /\ wq_head' = next[wq_head]
  /\ wq_tail' = IF wq_head' = Null THEN Null ELSE wq_tail
  /\ UNCHANGED <<pool, pc, cur, walk, taken>>

WorkerPost ==
  /\ LockFree /\ wop # Null
  /\ Post(wop, "ok")
  /\ wop' = Null
  /\ UNCHANGED <<list, pc, cur, walk, taken>>

Next ==
  \/ \E f \in File : Take(f, "hand", FALSE) \/ \E all \in BOOLEAN : Take(f, "walk", all)
  \/ Hand
  \/ WalkPast \/ WalkTakes \/ CancelTarget \/ Relock \/ WalkEnd \/ Answer
  \/ WorkerPop \/ WorkerPost

Spec == Init /\ [][Next]_vars

-----------------------------------------------------------------------------
(***************************************************************************)
(* A request is either recalled or "already inside - past recall"          *)
(* (cancel_matching), never both, and never recalled twice: nothing is     *)
(* answered a second time, whatever the worker does while the lock is let  *)
(* go of.                                                                  *)
(***************************************************************************)
AnsweredOnce == \A i \in 1..MaxRequests : Len(answers[i]) <= 1
=============================================================================
