------------------------------ MODULE RingEngine ------------------------------
(***************************************************************************)
(* One ring of the engine as the POSIX backends run it: enter with its     *)
(* submission queue, link chains, parked ops and wait loop                 *)
(* (src/src/slipstream_engine.c), and the shared machinery below it: the   *)
(* park set, the worker thread, its ticket and the poke pipe, and cancel   *)
(* (src/src/engine_posix.c).                                               *)
(*                                                                         *)
(* Three parties interleave.  Whoever is inside enter owns queue, waiting, *)
(* chain and blocking and takes r->mtx only to post, to hand an op to the  *)
(* worker and to settle the worker's ticket; the worker runs blocking ops; *)
(* the operating system makes parked ops ready.  A lock section is one     *)
(* step: what happens inside one, when the caller reaps from another       *)
(* thread, is module CompletionQueue.                                      *)
(*                                                                         *)
(* An SQE is what its kind says of the ways it can go:                     *)
(*   "nop"     succeeds at once           "bad"     fails at once          *)
(*   "io"      succeeds, fails or parks until its descriptor is ready      *)
(*   "multi"   the same, with an emission per accepted or received item    *)
(*   "file"    has no readiness: the worker runs it                        *)
(*   "msg"     MSG_RING to this ring      "badmsg"  MSG_RING refused       *)
(*   "cancel"  ASYNC_CANCEL of the SQEs in `names`, of all with `all`      *)
(* and user_data is its place in the script of SQEs the caller submits.    *)
(***************************************************************************)
EXTENDS Integers, Sequences, FiniteSets, SequencesExt

CONSTANTS
  Op,           \* the slots of the op pool
  CqEntries,    \* cq_entries
  Scripts,      \* what the caller may submit: sequences of SQEs
  ThreadStarts, \* what thrd_create may answer: subset of BOOLEAN
  MaxEmits,     \* bound: multishot emissions
  MaxSpurious,  \* bound: readiness that was spurious
  None          \* a null op pointer

Kinds == {"nop", "bad", "io", "multi", "file", "msg", "badmsg", "cancel"}

Sqe == [kind : Kinds, link : BOOLEAN, skip : BOOLEAN, names : SUBSET Nat, all : BOOLEAN]

ASSUME RingAssumption ==
  /\ CqEntries \in Nat \ {0}
  /\ Cardinality(Op) = CqEntries   \* op_pool_n = cq_entries at setup
  /\ Scripts \subseteq Seq(Sqe)
  /\ ThreadStarts \subseteq BOOLEAN
  /\ MaxEmits \in Nat
  /\ MaxSpurious \in Nat
  /\ None \notin Op

VARIABLES
  script,        \* the SQEs the caller has put in the SQ
  taken,         \* how many of them enter has taken: sq->head
  ud,            \* the user_data of each op of the pool
  free,          \* op_free
  queue,         \* queue_head .. queue_tail, with the batch enter is taking
  waiting,       \* waiting[]: the parked ops
  fired,         \* parked ops whose descriptor the OS reports ready
  ready,         \* ready[]: what the running wait has still to retry
  done,          \* done[]: what it found finished
  chain,         \* chain_failed
  blocking,      \* the linked op the queue waits for
  pc,            \* where the thread inside enter is
  call,          \* its arguments and locals
  cur, curres,   \* the op it is running, and the result so far
  count,         \* cancel_matching's count
  wq, live,      \* the worker's queue, and whether the thread exists
  wpc, wop, wres,\* where the worker is, its op, its result
  blockedDone, blockedFailed, \* the ticket
  poked,         \* the poke pipe holds a byte
  cq, backlog,   \* the CQ's unread entries, and the backlog
  emits, spurious, \* used up of the bounds
  began,         \* history: SQEs whose execution began
  result,        \* history: how each SQE ended
  seen           \* history: SQEs whose completion the caller has read

sqVars == <<script, taken, ud>>
parkVars == <<waiting, fired, ready, done>>
chainVars == <<chain, blocking>>
engineVars == <<pc, call, cur, curres, count>>
ticketVars == <<blockedDone, blockedFailed>>
workerVars == <<wq, live, wpc, wop, wres>>
postVars == <<free, cq, backlog, result>>
boundVars == <<emits, spurious>>
vars == <<sqVars, queue, parkVars, chainVars, engineVars, ticketVars,
          workerVars, poked, postVars, boundVars, began, seen>>

Failed(res) == res # "ok"

SqeOf(o) == script[ud[o]]
Linked(o) == SqeOf(o).link

\* slip_chain_failure_of
ChainFailureOf(o) == IF SqeOf(o).skip THEN "quiet" ELSE "cancels"

\* Mutant of Drained: the drain does not look at the room.
DrainedPastRoom ==
  [cq |-> cq \o [i \in DOMAIN backlog |-> backlog[i].cqe],
   backlog |-> <<>>,
   free |-> free \cup {backlog[i].op : i \in DOMAIN backlog}]

(***************************************************************************)
(* The lock sections that end a completion.  Draining moves as much of the *)
(* backlog into the CQ as there is room for and releases those ops.        *)
(***************************************************************************)
Drained ==
  LET room == CqEntries - Len(cq)
      n == Min({Len(backlog), room})
  IN  [cq |-> cq \o [i \in 1..n |-> backlog[i].cqe],
       backlog |-> SubSeq(backlog, n + 1, Len(backlog)),
       free |-> free \cup {backlog[i].op : i \in 1..n}]

\* Mutant of Post: a completion that finds the CQ full is dropped.
PostDropsWhenFull(o, res) ==
  LET d == Drained
      silent == res = "ok" /\ SqeOf(o).skip
      room == Len(d.cq) < CqEntries
  IN  /\ cq' = IF ~silent /\ room THEN Append(d.cq, [id |-> ud[o], last |-> TRUE]) ELSE d.cq
      /\ backlog' = d.backlog
      /\ free' = d.free \cup {o}
      /\ result' = [result EXCEPT ![ud[o]] = IF silent THEN "silent" ELSE res]

\* slip_engine_post: op o is done with res; the op goes back to the pool, or
\* waits with its result in the backlog.
Post(o, res) ==
  LET d == Drained
      silent == res = "ok" /\ SqeOf(o).skip
      cqe == [id |-> ud[o], last |-> TRUE]
      room == Len(d.cq) < CqEntries
  IN  /\ cq' = IF ~silent /\ room THEN Append(d.cq, cqe) ELSE d.cq
      /\ backlog' = IF silent \/ room THEN d.backlog
                    ELSE Append(d.backlog, [op |-> o, cqe |-> cqe])
      /\ free' = IF silent \/ room THEN d.free \cup {o} ELSE d.free
      /\ result' = [result EXCEPT ![ud[o]] = IF silent THEN "silent" ELSE res]

\* slip_engine_emit: a CQE that is not its op's completion.  With the CQ full
\* it rides the backlog on a carrier, and without a carrier it is dropped.
Emit(i) ==
  LET d == Drained
      cqe == [id |-> i, last |-> FALSE]
      room == Len(d.cq) < CqEntries
  IN  /\ cq' = IF room THEN Append(d.cq, cqe) ELSE d.cq
      /\ \/ (room \/ d.free = {}) /\ backlog' = d.backlog /\ free' = d.free
         \/ ~room /\ \E o \in d.free :
              /\ backlog' = Append(d.backlog, [op |-> o, cqe |-> cqe])
              /\ free' = d.free \ {o}
      /\ UNCHANGED result

\* A member of a chain that failed quietly: released without a CQE.
ReleaseQuietly(o) ==
  /\ free' = free \cup {o}
  /\ result' = [result EXCEPT ![ud[o]] = "quiet"]
  /\ UNCHANGED <<cq, backlog>>

-----------------------------------------------------------------------------
NoCall == [left |-> 0, min |-> 0, deadline |-> FALSE, took |-> FALSE, waited |-> FALSE]

Init ==
  /\ script \in Scripts
  /\ taken = 0
  /\ ud = [o \in Op |-> 0]
  /\ free = Op
  /\ queue = <<>>
  /\ waiting = {} /\ fired = {} /\ ready = {} /\ done = <<>>
  /\ chain = "holds" /\ blocking = None
  /\ pc = "out" /\ call = NoCall /\ cur = None /\ curres = "ok" /\ count = 0
  /\ blockedDone = None /\ blockedFailed = "holds"
  /\ wq = <<>> /\ live = FALSE /\ wpc = "idle" /\ wop = None /\ wres = "ok"
  /\ poked = FALSE
  /\ cq = <<>> /\ backlog = <<>>
  /\ emits = 0 /\ spurious = 0
  /\ began = {}
  /\ result = [i \in DOMAIN script |-> "none"]
  /\ seen = {}

(***************************************************************************)
(* enter                                                                   *)
(***************************************************************************)

\* SQEs up to place k that will surely answer with a CQE the caller has not
\* read: nothing skips them, and no skipping member can silence their chain.
Silenceable(i) == \E j \in 1..i : script[j].skip /\ \A k \in j..(i - 1) : script[k].link

Expected(k) == Cardinality({i \in 1..k : ~Silenceable(i) /\ i \notin seen})

\* The caller enters.  It waits for no more than the CQ can hold and than will
\* come of what enter can take, unless it brings a deadline.
Enter(n, m, deadline) ==
  /\ pc = "out"
  /\ n \in 0..(Len(script) - taken)
  /\ m <= CqEntries
  /\ deadline \/ m <= Expected(taken + Min({n, Cardinality(free)}))
  /\ pc' = "take"
  /\ call' = [NoCall EXCEPT !.left = n, !.min = m, !.deadline = deadline]
  /\ UNCHANGED <<sqVars, queue, parkVars, chainVars, cur, curres, count, ticketVars,
                 workerVars, poked, postVars, boundVars, began, seen>>

\* One SQE is copied into an op of the pool, at the end of the queue.
TakeSqe(o) ==
  /\ pc = "take"
  /\ call.left > 0
  /\ taken < Len(script)
  /\ o \in free
  /\ free' = free \ {o}
  /\ ud' = [ud EXCEPT ![o] = taken + 1]
  /\ taken' = taken + 1
  /\ queue' = Append(queue, o)
  /\ call' = [call EXCEPT !.left = @ - 1, !.took = TRUE]
  /\ UNCHANGED <<script, parkVars, chainVars, pc, cur, curres, count, ticketVars,
                 workerVars, poked, cq, backlog, result, boundVars, began, seen>>

\* Mutant of AfterRun: enter does not wait.
AfterRunOut == "out"

AfterRun == IF call.min > 0 THEN "settle" ELSE "out"

\* The loop ends: enough, nothing there, or the pool is empty.
TakeEnd ==
  /\ pc = "take"
  /\ call.left = 0 \/ taken = Len(script) \/ free = {}
  /\ pc' = IF call.took THEN "run" ELSE AfterRun
  /\ UNCHANGED <<sqVars, queue, parkVars, chainVars, call, cur, curres, count,
                 ticketVars, workerVars, poked, postVars, boundVars, began, seen>>

\* Mutant of Settle: the ticket stays up.
SettleKeepsTicket ==
  /\ pc = "settle"
  /\ pc' = "check"
  /\ blocking' = IF blockedDone # None /\ blockedDone = blocking THEN None ELSE blocking
  /\ cq' = Drained.cq
  /\ backlog' = Drained.backlog
  /\ free' = Drained.free
  /\ UNCHANGED <<sqVars, queue, parkVars, chain, call, cur, curres, count, ticketVars,
                 workerVars, poked, result, boundVars, began, seen>>

\* settle_worker_ticket
Settle ==
  /\ pc = "settle"
  /\ pc' = "check"
  /\ IF blockedDone # None /\ blockedDone = blocking
     THEN /\ blocking' = None
          /\ blockedDone' = None
          /\ IF blockedFailed # "holds"
             THEN chain' = blockedFailed /\ blockedFailed' = "holds"
             ELSE UNCHANGED <<chain, blockedFailed>>
     ELSE UNCHANGED <<chainVars, ticketVars>>
  /\ cq' = Drained.cq
  /\ backlog' = Drained.backlog
  /\ free' = Drained.free
  /\ UNCHANGED <<sqVars, queue, parkVars, call, cur, curres, count, workerVars,
                 poked, result, boundVars, began, seen>>

\* The count is there; or the one wait a deadline allows has come up short, or
\* the deadline has passed.
Return ==
  /\ pc = "check"
  /\ Len(cq) >= call.min \/ call.deadline
  /\ pc' = "out"
  /\ call' = NoCall
  /\ UNCHANGED <<sqVars, queue, parkVars, chainVars, cur, curres, count, ticketVars,
                 workerVars, poked, postVars, boundVars, began, seen>>

CheckWait ==
  /\ pc = "check"
  /\ Len(cq) < call.min
  /\ ~(call.deadline /\ call.waited)
  /\ pc' = "wait"
  /\ UNCHANGED <<sqVars, queue, parkVars, chainVars, call, cur, curres, count,
                 ticketVars, workerVars, poked, postVars, boundVars, began, seen>>

(***************************************************************************)
(* process_queue                                                           *)
(***************************************************************************)
Runnable == pc = "run" /\ queue # <<>> /\ blocking = None

RunEnd ==
  /\ pc = "run"
  /\ queue = <<>> \/ blocking # None
  /\ pc' = AfterRun
  /\ UNCHANGED <<sqVars, queue, parkVars, chainVars, call, cur, curres, count,
                 ticketVars, workerVars, poked, postVars, boundVars, began, seen>>

\* Mutant of RunCancelled: the chain's end does not end the cancelling.
RunCancelledOn ==
  LET o == Head(queue) IN
  /\ Runnable
  /\ chain # "holds"
  /\ queue' = Tail(queue)
  /\ IF chain = "quiet" THEN ReleaseQuietly(o) ELSE Post(o, "canceled")
  /\ UNCHANGED <<sqVars, parkVars, chainVars, engineVars, ticketVars, workerVars,
                 poked, boundVars, began, seen>>

\* A failing member cancels the rest of its chain, the unlinked end included.
RunCancelled ==
  LET o == Head(queue) IN
  /\ Runnable
  /\ chain # "holds"
  /\ queue' = Tail(queue)
  /\ IF chain = "quiet" THEN ReleaseQuietly(o) ELSE Post(o, "canceled")
  /\ chain' = IF Linked(o) THEN chain ELSE "holds"
  /\ UNCHANGED <<sqVars, parkVars, blocking, engineVars, ticketVars, workerVars,
                 poked, boundVars, began, seen>>

RunPop ==
  LET o == Head(queue) IN
  /\ Runnable
  /\ chain = "holds"
  /\ queue' = Tail(queue)
  /\ cur' = o
  /\ began' = began \cup {ud[o]}
  /\ pc' = "exec"
  /\ UNCHANGED <<sqVars, parkVars, chainVars, call, curres, count, ticketVars,
                 workerVars, poked, postVars, boundVars, seen>>

\* How an op that runs to its end may have run.  The kind of a request says what its
\* first try does: a connect that blocks at a full Unix backlog is a "file".
Outcomes(kind) ==
  CASE kind = "nop" -> {"ok"}
    [] kind = "bad" -> {"err"}
    [] kind \in {"io", "multi"} -> {"ok", "err"}
    [] OTHER -> {}

\* EXEC_DONE: the op ran to its end inside execute, or its fixed file does not
\* resolve.
ExecDone(res) ==
  /\ pc = "exec"
  /\ res \in Outcomes(SqeOf(cur).kind)
  /\ chain' = IF Failed(res) /\ Linked(cur) THEN ChainFailureOf(cur) ELSE chain
  /\ Post(cur, res)
  /\ cur' = None
  /\ pc' = "run"
  /\ UNCHANGED <<sqVars, queue, parkVars, blocking, call, curres, count, ticketVars,
                 workerVars, poked, boundVars, began, seen>>

\* Mutant of ExecPark: a parked member does not hold its chain.
ExecParkAndGoOn ==
  /\ pc = "exec"
  /\ SqeOf(cur).kind \in {"io", "multi"}
  /\ waiting' = waiting \cup {cur}
  /\ cur' = None
  /\ pc' = "run"
  /\ UNCHANGED <<sqVars, queue, fired, ready, done, chainVars, call, curres, count,
                 ticketVars, workerVars, poked, postVars, boundVars, began, seen>>

\* EXEC_PENDING: the op parks, and a linked one holds the queue.
ExecPark ==
  /\ pc = "exec"
  /\ SqeOf(cur).kind \in {"io", "multi"}
  /\ waiting' = waiting \cup {cur}
  /\ blocking' = IF Linked(cur) THEN cur ELSE blocking
  /\ cur' = None
  /\ pc' = "run"
  /\ UNCHANGED <<sqVars, queue, fired, ready, done, chain, call, curres, count,
                 ticketVars, workerVars, poked, postVars, boundVars, began, seen>>

\* A multishot op hands out one more item, on its first run or a retry.
EmitOne ==
  /\ pc \in {"exec", "try"}
  /\ SqeOf(cur).kind = "multi"
  /\ emits < MaxEmits
  /\ emits' = emits + 1
  /\ Emit(ud[cur])
  /\ UNCHANGED <<sqVars, queue, parkVars, chainVars, engineVars, ticketVars,
                 workerVars, poked, spurious, began, seen>>

\* slip_posix_hand_to_worker: from here on the worker may run and finish it.
ExecHand ==
  /\ pc = "exec"
  /\ SqeOf(cur).kind = "file"
  /\ wq' = Append(wq, cur)
  /\ live' \in IF live THEN {TRUE} ELSE ThreadStarts
  /\ pc' = IF Linked(cur) THEN "stall" ELSE "run"
  /\ cur' = IF Linked(cur) THEN cur ELSE None
  /\ UNCHANGED <<sqVars, queue, parkVars, chainVars, call, curres, count, ticketVars,
                 wpc, wop, wres, poked, postVars, boundVars, began, seen>>

\* Only now does process_queue note that the queue waits for it: the pointer
\* may by then name a finished op.
Stall ==
  /\ pc = "stall"
  /\ blocking' = cur
  /\ cur' = None
  /\ pc' = "run"
  /\ UNCHANGED <<sqVars, queue, parkVars, chain, call, curres, count, ticketVars,
                 workerVars, poked, postVars, boundVars, began, seen>>

\* msg_ring: the target's CQE first; the sender's own follows.
ExecMsg ==
  /\ pc = "exec"
  /\ \/ SqeOf(cur).kind = "msg" /\ Emit(ud[cur]) /\ curres' = "ok"
     \/ SqeOf(cur).kind = "badmsg" /\ curres' = "err" /\ UNCHANGED postVars
  /\ pc' = "post"
  /\ UNCHANGED <<sqVars, queue, parkVars, chainVars, call, cur, count, ticketVars,
                 workerVars, poked, boundVars, began, seen>>

\* The result of a message or a cancel is posted.  A message leaves the chain
\* alone, whatever came of it.
PostCur ==
  /\ pc = "post"
  /\ chain' = IF Failed(curres) /\ Linked(cur) /\ SqeOf(cur).kind = "cancel"
              THEN ChainFailureOf(cur) ELSE chain
  /\ Post(cur, curres)
  /\ cur' = None
  /\ curres' = "ok"
  /\ pc' = "run"
  /\ UNCHANGED <<sqVars, queue, parkVars, blocking, call, count, ticketVars,
                 workerVars, poked, boundVars, began, seen>>

(***************************************************************************)
(* cancel_matching                                                         *)
(***************************************************************************)
ExecCancel ==
  /\ pc = "exec"
  /\ SqeOf(cur).kind = "cancel"
  /\ count' = 0
  /\ pc' = "cancel"
  /\ UNCHANGED <<sqVars, queue, parkVars, chainVars, call, cur, curres, ticketVars,
                 workerVars, poked, postVars, boundVars, began, seen>>

Named(o) == ud[o] \in SqeOf(cur).names

\* The place of the first op of s that the cancel names, 0 for none.
FirstNamed(s) == SelectInSeq(s, Named)

\* cancel_target
CancelTarget(t) ==
  /\ blocking' = IF t = blocking THEN None ELSE blocking
  /\ chain' = IF t = blocking \/ Linked(t) THEN ChainFailureOf(t) ELSE chain
  /\ Post(t, "canceled")
  /\ count' = count + 1

MoreToCancel == pc = "cancel" /\ (SqeOf(cur).all \/ count = 0)

\* Mutant of CancelParked: the cancelled op is not unparked.
CancelParkedStays(t) ==
  /\ MoreToCancel
  /\ t \in waiting
  /\ Named(t)
  /\ CancelTarget(t)
  /\ UNCHANGED <<sqVars, queue, parkVars, pc, call, cur, curres, ticketVars,
                 workerVars, poked, boundVars, began, seen>>

CancelParked(t) ==
  /\ MoreToCancel
  /\ t \in waiting
  /\ Named(t)
  /\ waiting' = waiting \ {t}
  /\ fired' = fired \ {t}
  /\ CancelTarget(t)
  /\ UNCHANGED <<sqVars, queue, ready, done, pc, call, cur, curres, ticketVars,
                 workerVars, poked, boundVars, began, seen>>

NoneParked == \A t \in waiting : ~Named(t)

CancelQueued ==
  LET i == FirstNamed(queue) IN
  /\ MoreToCancel
  /\ NoneParked
  /\ i # 0
  /\ queue' = RemoveAt(queue, i)
  /\ CancelTarget(queue[i])
  /\ UNCHANGED <<sqVars, parkVars, pc, call, cur, curres, ticketVars, workerVars,
                 poked, boundVars, began, seen>>

\* The first target from the head on, one a step: with CANCEL_ALL the code goes on from
\* a link it kept, which is WorkerQueue's matter and the same for at most one op in wq.
CancelAtWorker ==
  LET i == FirstNamed(wq) IN
  /\ MoreToCancel
  /\ NoneParked
  /\ FirstNamed(queue) = 0
  /\ i # 0
  /\ wq' = RemoveAt(wq, i)
  /\ CancelTarget(wq[i])
  /\ UNCHANGED <<sqVars, queue, parkVars, pc, call, cur, curres, ticketVars, live,
                 wpc, wop, wres, poked, boundVars, began, seen>>

\* Nothing (more) to cancel: the answer.
CancelEnd ==
  /\ pc = "cancel"
  /\ \/ count > 0 /\ ~SqeOf(cur).all
     \/ NoneParked /\ FirstNamed(queue) = 0 /\ FirstNamed(wq) = 0
  /\ curres' = IF count > 0 THEN "ok"
               ELSE IF blocking # None /\ blockedDone = None THEN "ealready"
               ELSE "enoent"
  /\ count' = 0
  /\ pc' = "post"
  /\ UNCHANGED <<sqVars, queue, parkVars, chainVars, call, cur, ticketVars,
                 workerVars, poked, postVars, boundVars, began, seen>>

(***************************************************************************)
(* The backend's wait, and slip_posix_finish_ready                         *)
(***************************************************************************)

\* The wait returns with the parked ops in S found ready, with the poke pipe
\* drained, or at the deadline with neither.
WaitReturns(S, drained) ==
  /\ pc = "wait"
  /\ S \subseteq fired
  /\ drained => poked
  /\ S # {} \/ drained \/ (call.deadline /\ fired = {} /\ ~poked)
  /\ ready' = S
  /\ fired' = fired \ S
  /\ poked' = (poked /\ ~drained)
  /\ pc' = "retry"
  /\ UNCHANGED <<sqVars, queue, waiting, done, chainVars, call, cur, curres, count,
                 ticketVars, workerVars, postVars, boundVars, began, seen>>

Unpark(o) ==
  /\ pc = "retry"
  /\ o \in ready
  /\ ready' = ready \ {o}
  /\ waiting' = waiting \ {o}
  /\ fired' = fired \ {o}
  /\ cur' = o
  /\ pc' = "try"
  /\ UNCHANGED <<sqVars, queue, done, chainVars, call, curres, count, ticketVars,
                 workerVars, poked, postVars, boundVars, began, seen>>

TryDone(res) ==
  /\ pc = "try"
  /\ res \in Outcomes(SqeOf(cur).kind)
  /\ done' = Append(done, [op |-> cur, res |-> res])
  /\ cur' = None
  /\ pc' = "retry"
  /\ UNCHANGED <<sqVars, queue, waiting, fired, ready, chainVars, call, curres, count,
                 ticketVars, workerVars, poked, postVars, boundVars, began, seen>>

\* The wakeup was spurious for this op: it parks again.
TryPark ==
  /\ pc = "try"
  /\ spurious < MaxSpurious
  /\ spurious' = spurious + 1
  /\ waiting' = waiting \cup {cur}
  /\ cur' = None
  /\ pc' = "retry"
  /\ UNCHANGED <<sqVars, queue, fired, ready, done, chainVars, call, curres, count,
                 ticketVars, workerVars, poked, postVars, emits, began, seen>>

RetryEnd ==
  /\ pc = "retry"
  /\ ready = {}
  /\ pc' = "complete"
  /\ UNCHANGED <<sqVars, queue, parkVars, chainVars, call, cur, curres, count,
                 ticketVars, workerVars, poked, postVars, boundVars, began, seen>>

\* Mutant of Complete: the queue goes on waiting for the completed op.
CompleteStillBlocking ==
  LET o == Head(done).op
      res == Head(done).res IN
  /\ pc = "complete"
  /\ done # <<>>
  /\ done' = Tail(done)
  /\ chain' = IF Failed(res) /\ (o = blocking \/ Linked(o)) THEN ChainFailureOf(o) ELSE chain
  /\ Post(o, res)
  /\ UNCHANGED <<sqVars, queue, waiting, fired, ready, blocking, engineVars, ticketVars,
                 workerVars, poked, boundVars, began, seen>>

\* complete: the chain's standing first, then the CQE.
Complete ==
  LET o == Head(done).op
      res == Head(done).res IN
  /\ pc = "complete"
  /\ done # <<>>
  /\ done' = Tail(done)
  /\ blocking' = IF o = blocking THEN None ELSE blocking
  /\ chain' = IF Failed(res) /\ (o = blocking \/ Linked(o)) THEN ChainFailureOf(o) ELSE chain
  /\ Post(o, res)
  /\ UNCHANGED <<sqVars, queue, waiting, fired, ready, engineVars, ticketVars,
                 workerVars, poked, boundVars, began, seen>>

CompleteEnd ==
  /\ pc = "complete"
  /\ done = <<>>
  /\ call' = [call EXCEPT !.waited = TRUE]
  /\ pc' = "run"
  /\ UNCHANGED <<sqVars, queue, parkVars, chainVars, cur, curres, count, ticketVars,
                 workerVars, poked, postVars, boundVars, began, seen>>

(***************************************************************************)
(* The worker thread: worker_main                                          *)
(***************************************************************************)
WorkerPop ==
  /\ live
  /\ wpc = "idle"
  /\ wq # <<>>
  /\ wop' = Head(wq)
  /\ wq' = Tail(wq)
  /\ wpc' = "run"
  /\ UNCHANGED <<sqVars, queue, parkVars, chainVars, engineVars, ticketVars, live,
                 wres, poked, postVars, boundVars, began, seen>>

\* slip_posix_run_blocking runs to its end.
WorkerRun(res) ==
  /\ wpc = "run"
  /\ wres' = res
  /\ wpc' = IF Linked(wop) THEN "ticket" ELSE "post"
  /\ UNCHANGED <<sqVars, queue, parkVars, chainVars, engineVars, ticketVars, wq, live,
                 wop, poked, postVars, boundVars, began, seen>>

\* The ticket goes up before the post frees the op.
WorkerTicket ==
  /\ wpc = "ticket"
  /\ blockedDone' = wop
  /\ blockedFailed' = IF Failed(wres) THEN ChainFailureOf(wop) ELSE "holds"
  /\ wpc' = "post"
  /\ UNCHANGED <<sqVars, queue, parkVars, chainVars, engineVars, wq, live, wop, wres,
                 poked, postVars, boundVars, began, seen>>

WorkerPost ==
  /\ wpc = "post"
  /\ Post(wop, wres)
  /\ wop' = None
  /\ wres' = "ok"
  /\ wpc' = "poke"
  /\ UNCHANGED <<sqVars, queue, parkVars, chainVars, engineVars, ticketVars, wq, live,
                 poked, boundVars, began, seen>>

WorkerPoke ==
  /\ wpc = "poke"
  /\ poked' = TRUE
  /\ wpc' = "idle"
  /\ UNCHANGED <<sqVars, queue, parkVars, chainVars, engineVars, ticketVars, wq, live,
                 wop, wres, postVars, boundVars, began, seen>>

(***************************************************************************)
(* The operating system and the caller                                     *)
(***************************************************************************)
Fire(o) ==
  /\ o \in waiting \ fired
  /\ fired' = fired \cup {o}
  /\ UNCHANGED <<sqVars, queue, waiting, ready, done, chainVars, engineVars,
                 ticketVars, workerVars, poked, postVars, boundVars, began, seen>>

\* The thread that submits also reaps, between two calls of enter: io_uring's
\* own single-issuer shape.
Reap ==
  /\ pc = "out"
  /\ cq # <<>>
  /\ cq' = Tail(cq)
  /\ seen' = IF Head(cq).last THEN seen \cup {Head(cq).id} ELSE seen
  /\ UNCHANGED <<sqVars, queue, parkVars, chainVars, engineVars, ticketVars,
                 workerVars, poked, free, backlog, result, boundVars, began>>

-----------------------------------------------------------------------------
EngineStep ==
  \/ \E o \in Op : TakeSqe(o) \/ Unpark(o) \/ CancelParked(o)
  \/ TakeEnd \/ Settle \/ Return \/ CheckWait
  \/ RunEnd \/ RunCancelled \/ RunPop
  \/ \E res \in {"ok", "err"} : ExecDone(res) \/ TryDone(res)
  \/ ExecPark \/ EmitOne \/ ExecHand \/ Stall \/ ExecMsg \/ PostCur
  \/ ExecCancel \/ CancelQueued \/ CancelAtWorker \/ CancelEnd
  \/ \E S \in SUBSET fired, drained \in BOOLEAN : WaitReturns(S, drained)
  \/ TryPark \/ RetryEnd \/ Complete \/ CompleteEnd

WorkerStep ==
  \/ WorkerPop
  \/ \E res \in {"ok", "err"} : WorkerRun(res)
  \/ WorkerTicket \/ WorkerPost \/ WorkerPoke

CallerEnters ==
  \E n \in 0..Len(script), m \in 0..CqEntries, deadline \in BOOLEAN : Enter(n, m, deadline)

Next ==
  \/ CallerEnters
  \/ EngineStep
  \/ WorkerStep
  \/ \E o \in Op : Fire(o)
  \/ Reap

Spec == Init /\ [][Next]_vars

(***************************************************************************)
(* The thread inside enter and the worker do not stop; the OS makes every  *)
(* parked descriptor ready in the end; the caller comes back to wait again *)
(* and again, for one completion or more, with deadlines that do not all   *)
(* pass before the wait begins, and reads what is in the CQ.               *)
(***************************************************************************)
CallerWaits ==
  \E n \in 0..Len(script), m \in 1..CqEntries, deadline \in BOOLEAN : Enter(n, m, deadline)

Fairness ==
  /\ WF_vars(EngineStep)
  /\ SF_vars(CheckWait)
  /\ WF_vars(WorkerStep)
  /\ \A o \in Op : WF_vars(Fire(o))
  /\ SF_vars(Reap)
  /\ SF_vars(CallerWaits)

FairSpec == Spec /\ Fairness

-----------------------------------------------------------------------------
Ended == {"ok", "err", "enoent", "ealready", "canceled"}
Cqe == [id : Nat, last : BOOLEAN]

TypeOK ==
  /\ script \in Seq(Sqe)
  /\ taken \in 0..Len(script)
  /\ ud \in [Op -> 0..Len(script)]
  /\ free \subseteq Op
  /\ queue \in Seq(Op)
  /\ waiting \subseteq Op /\ fired \subseteq waiting /\ ready \subseteq waiting
  /\ done \in Seq([op : Op, res : {"ok", "err"}])
  /\ chain \in {"holds", "cancels", "quiet"}
  /\ blocking \in Op \cup {None}
  /\ pc \in {"out", "take", "settle", "check", "wait", "retry", "try", "complete",
             "run", "exec", "stall", "cancel", "post"}
  /\ call \in [left : Nat, min : Nat, deadline : BOOLEAN, took : BOOLEAN, waited : BOOLEAN]
  /\ cur \in Op \cup {None}
  /\ curres \in Ended
  /\ count \in Nat
  /\ wq \in Seq(Op)
  /\ live \in BOOLEAN
  /\ wpc \in {"idle", "run", "ticket", "post", "poke"}
  /\ wop \in Op \cup {None}
  /\ wres \in {"ok", "err"}
  /\ blockedDone \in Op \cup {None}
  /\ blockedFailed \in {"holds", "cancels", "quiet"}
  /\ poked \in BOOLEAN
  /\ cq \in Seq(Cqe) /\ Len(cq) <= CqEntries
  /\ backlog \in Seq([op : Op, cqe : Cqe])
  /\ emits \in 0..MaxEmits
  /\ spurious \in 0..MaxSpurious
  /\ began \subseteq 1..Len(script)
  /\ result \in [DOMAIN script -> Ended \cup {"none", "silent", "quiet"}]
  /\ seen \subseteq 1..Len(script)

InHand == IF pc \in {"exec", "cancel", "post", "try"} THEN {cur} ELSE {}
AtWorker == IF wop = None THEN {} ELSE {wop}
DoneOps == {done[i].op : i \in DOMAIN done}
BackloggedOps == {backlog[i].op : i \in DOMAIN backlog}

(***************************************************************************)
(* An op is at one place at a time: free, queued, parked, at the worker's  *)
(* door, inside the worker, in the engine's hand, found done, or carrying  *)
(* a backlogged completion.  Two places would complete it twice, none      *)
(* would shrink the pool for good.                                         *)
(***************************************************************************)
Homes == <<free, ToSet(queue), waiting, InHand, DoneOps, ToSet(wq), AtWorker,
           BackloggedOps>>

OneHome ==
  /\ UNION ToSet(Homes) = Op
  /\ \A i, j \in DOMAIN Homes : i # j => Homes[i] \cap Homes[j] = {}
  /\ Len(queue) = Cardinality(ToSet(queue))
  /\ Len(wq) = Cardinality(ToSet(wq))
  /\ Len(done) = Cardinality(DoneOps)
  /\ Len(backlog) = Cardinality(BackloggedOps)

(***************************************************************************)
(* The pointer the queue waits on always has somebody who will clear it:   *)
(* the op is parked, at the worker, being retried or found done, or the    *)
(* ticket for it is up.  The last case is the delicate one: the op behind  *)
(* the pointer may be free again, or reused by a later submission.         *)
(***************************************************************************)
StallHasOwner ==
  blocking # None =>
    \/ blocking = blockedDone
    \/ blocking \in waiting \cup ToSet(wq) \cup AtWorker \cup DoneOps
    \/ pc = "try" /\ blocking = cur

(***************************************************************************)
(* At most one linked op is pending, and it is the one the queue waits     *)
(* for; a ticket that is up names it too.  A ticket left over from an      *)
(* earlier stall could release a later one that reuses its op.  An op the  *)
(* worker has yet to post is pending no more once its ticket was up.       *)
(***************************************************************************)
Stalled == IF pc = "stall" THEN {cur} ELSE {blocking}

Running == IF wpc \in {"run", "ticket"} THEN {wop} ELSE {}

OneStallAtATime ==
  /\ \A o \in waiting \cup ToSet(wq) \cup Running \cup DoneOps : Linked(o) => o \in Stalled
  /\ blockedDone # None => blockedDone \in Stalled
  /\ blockedDone = None => blockedFailed = "holds"

(***************************************************************************)
(* A thread asleep in the backend's wait has no runnable queue behind it,  *)
(* unless a poke is there or on its way: "a settled chain may have more    *)
(* to run now" (enter's wait loop).                                        *)
(***************************************************************************)
SleeperHasNothingToRun ==
  pc = "wait" /\ queue # <<>> /\ blocking = None => poked \/ wpc \in {"post", "poke"}

(***************************************************************************)
(* What the worker has decided counts as the answer before it is posted:   *)
(* the ticket lets the chain go on from there.                             *)
(***************************************************************************)
Decided ==
  [i \in DOMAIN script |->
     IF wpc # "post" \/ ud[wop] # i THEN result[i]
     ELSE IF wres = "ok" /\ script[i].skip THEN "silent" ELSE wres]

(***************************************************************************)
(* The detailed engine keeps the promise of LinkedRequests: answers come   *)
(* once, in chain order, and only a failure in the chain or a cancel that  *)
(* names the request cancels it.                                           *)
(***************************************************************************)
InCq == {cq[i].id : i \in {j \in DOMAIN cq : cq[j].last}}

Requests == INSTANCE LinkedRequests WITH result <- Decided, delivered <- InCq \cup seen

KeepsPromise == Requests!Spec

(***************************************************************************)
(* The caller finds one final CQE per request, whether it went straight to *)
(* the CQ or through the backlog.                                          *)
(***************************************************************************)
FinalCqes(i) ==
  Cardinality({k \in DOMAIN cq : cq[k] = [id |-> i, last |-> TRUE]})
  + Cardinality({k \in DOMAIN backlog : backlog[k].cqe = [id |-> i, last |-> TRUE]})
  + (IF i \in seen THEN 1 ELSE 0)

OneFinalCqe ==
  \A i \in DOMAIN script : FinalCqes(i) = (IF result[i] \in Ended THEN 1 ELSE 0)

(***************************************************************************)
(* No member of a chain begins before the one ahead of it has succeeded    *)
(* (process_queue stops at blocking, and a failure empties the chain).     *)
(***************************************************************************)
ChainOrder ==
  \A i \in began : i > 1 /\ script[i - 1].link => Decided[i - 1] \in {"ok", "silent"}

(***************************************************************************)
(* settle_worker_ticket's comment: when the ticket says that the head of a *)
(* chain has finished, "the op behind it is already posted and freed", so  *)
(* that no member of the chain runs ahead of its predecessor's CQE.        *)
(***************************************************************************)
SettledOpIsPosted ==
  \A i \in began : i > 1 /\ script[i - 1].link => result[i - 1] \in {"ok", "silent"}

(***************************************************************************)
(* Every request enter takes is answered, and an answer that is not silent *)
(* reaches the caller: no wakeup is lost, no op forgotten.  The script is  *)
(* finite and answers stay, so it is enough that it is so again and again. *)
(***************************************************************************)
Answered(i) == i \in seen \/ result[i] \in {"silent", "quiet"}

EveryRequestAnswered == []<>(\A i \in 1..taken : Answered(i))

=============================================================================
