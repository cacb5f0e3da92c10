-------------------------------- MODULE Backends --------------------------------
(***************************************************************************)
(* The four readiness backends of the ring behind one vtable (struct       *)
(* eng_backend in src/src/engine_internal.h): epoll, kqueue - with the     *)
(* BSD kernels' EV_ADD or libkqueue's -, select and dispatch, and the      *)
(* parking of src/src/engine_posix.c that drives them.  The run chooses    *)
(* one of them in Init and never changes it.                               *)
(*                                                                         *)
(* A request that would block joins a chain of its descriptor and side,    *)
(* and the backend makes sure that the kernel watches that side.  What the *)
(* kernel was told is remembered in a table which nobody corrects when the *)
(* program closes a descriptor and its number comes back.  A wait collects *)
(* what the kernel reports and hands over the chains, and each request is  *)
(* tried again and, if it still would block, parked again.  Between any    *)
(* two of these steps peers make descriptors ready and take readiness      *)
(* away.  With dispatch the reports come from handlers on a serial queue,  *)
(* through a semaphore, and some requests run on a pool of threads.        *)
(***************************************************************************)
EXTENDS Integers, FiniteSets

CONSTANTS
  Ring,       \* the rings to check: [be, face, setsize], a backend, what each
              \* descriptor can be ready for, and FD_SETSIZE
  Op,         \* the ring's op_pool
  Fd,         \* descriptors, numbered
  Nothing     \* no request, no handler

ASSUME BackendsAssumption ==
  /\ Ring \subseteq [be : {"epoll", "kqueue", "libkqueue", "select", "dispatch"},
                      face : [Fd -> SUBSET {"in", "out", "err"}], setsize : Nat]
  /\ Fd \subseteq Nat
  /\ IsFiniteSet(Op) /\ Op \cap {"q", "poke", "wait"} = {}
  /\ Nothing \notin [fd : Fd, want : SUBSET {"in", "out"}]
  /\ Nothing \notin [what : {"event", "cancel"}, fd : Fd, side : {"in", "out"}]

VARIABLES
  ring,      \* the ring
  open,      \* which descriptors are open, whichever file is behind the number
  rdy,       \* what each open descriptor is ready for; "err" answers both sides
  full,      \* the kernel will not take the next new registration
  at,        \* where each op is
  req,       \* what it asks for, [fd, want]
  last,      \* the answer that this step gave, if it gave one
  table,     \* what the backend believes the kernel watches: interest, armed_*, rd and wr
  chain,     \* the ops behind each side of a descriptor: in and out
  kset,      \* what the kernel does watch of the file that is open now
  orphan,    \* parked ops whose descriptor the ring closed under them
  ready,     \* handed over by a wait, not yet tried again
  hit,       \* dispatch: sides reported, not yet answered (rd_hit, wr_hit)
  queued,    \* dispatch: descriptors on the ready chain
  knocked,   \* dispatch: something waits to be collected
  sem,       \* dispatch: the count of the wait's door
  owed,      \* dispatch: who has unlocked and is about to signal the door
  done,      \* dispatch: what came back from the pool
  waiter,    \* dispatch: where dsp_wait is
  running,   \* dispatch: the handler on the serial queue
  stopping,  \* dispatch: at the end, sources whose cancel handler has not run
  phase      \* of the ring

world == <<open, rdy, full>>
ops == <<at, req>>
reg == <<table, chain, kset, orphan>>
door == <<hit, queued, knocked, sem, owed, done, waiter>>
queue == <<running, stopping>>
vars == <<ring, world, ops, last, reg, ready, door, queue, phase>>

be == ring.be
Side == {"in", "out"}
Silent == last' = "none"
NoSides == [f \in Fd |-> {}]
Requests == {q \in [fd : Fd, want : (SUBSET Side) \ {{}}] : q.want \subseteq ring.face[q.fd]}

\* A poll for both directions is filed under out (as POLLOUT is tested first).
SideOf(want) == IF "out" \in want THEN "out" ELSE "in"
Ready(f, s) == s \in rdy[f] \/ "err" \in rdy[f]
IsReady(q) == \E s \in q.want : Ready(q.fd, s)

Waits(o) == at[o] \in {"arming", "parked"}
Parked == {o \in Op : at[o] = "parked"}
Behind(f) == chain[f]["in"] \cup chain[f]["out"]

\* Mutant of Free: what a wait handed over is not tried again first.
FreeTooSoon ==
  /\ phase = "open" /\ waiter = "out" /\ "wait" \notin owed
  /\ \A o \in Op : at[o] # "arming"

\* The submitter is neither parking, nor trying again, nor inside a wait.
Free ==
  /\ phase = "open" /\ ready = {} /\ waiter = "out" /\ "wait" \notin owed
  /\ \A o \in Op : at[o] # "arming"

Init ==
  /\ ring \in Ring
  /\ open = [f \in Fd |-> FALSE] /\ rdy = NoSides /\ full = FALSE
  /\ at = [o \in Op |-> "free"] /\ req = [o \in Op |-> Nothing]
  /\ last = "none"
  /\ table = NoSides /\ kset = NoSides /\ orphan = {}
  /\ chain = [f \in Fd |-> [s \in Side |-> {}]]
  /\ ready = {}
  /\ hit = NoSides /\ queued = {} /\ knocked = FALSE /\ sem = 0 /\ owed = {} /\ done = {}
  /\ waiter = "out" /\ running = Nothing /\ stopping = {}
  /\ phase = "open"

-----------------------------------------------------------------------------
\* Peers and other programs.
BecomesReady(f, s) ==
  /\ open[f] /\ s \in ring.face[f] \ rdy[f]
  /\ rdy' = [rdy EXCEPT ![f] = @ \cup {s}]
  /\ Silent /\ UNCHANGED <<ring, open, full, ops, reg, ready, door, queue, phase>>

LosesReadiness(f, s) ==
  /\ s \in rdy[f] \cap Side
  /\ rdy' = [rdy EXCEPT ![f] = @ \ {s}]
  /\ Silent /\ UNCHANGED <<ring, open, full, ops, reg, ready, door, queue, phase>>

KernelFills ==
  /\ \E o \in Op : at[o] = "arming"
  /\ ~full /\ full' = TRUE
  /\ Silent /\ UNCHANGED <<ring, open, rdy, ops, reg, ready, door, queue, phase>>

\* The program opens a descriptor, under the lowest number or another.
Open(f) ==
  /\ ~open[f]
  /\ open' = [open EXCEPT ![f] = TRUE]
  /\ Silent /\ UNCHANGED <<ring, rdy, full, ops, reg, ready, door, queue, phase>>

\* The last close: the kernel drops what it watched.
Closed(f) ==
  /\ open' = [open EXCEPT ![f] = FALSE]
  /\ rdy' = [rdy EXCEPT ![f] = {}]
  /\ kset' = [kset EXCEPT ![f] = {}]
  /\ UNCHANGED full

\* The program closes one itself, which it may while nothing waits on it.
ProgramCloses(f) ==
  /\ open[f]
  /\ \A o \in Op : Waits(o) => req[o].fd # f
  /\ Closed(f)
  /\ Silent /\ UNCHANGED <<ring, ops, table, chain, orphan, ready, door, queue, phase>>

-----------------------------------------------------------------------------
(* Registering: what arm does, as a new table row and a new kernel set.    *)

\* Mutant of EpollArm: an idle row is trusted.
EpollArmTrusting(f, want) ==
  LET covered == table[f] # {} /\ want \subseteq table[f]
      merged == table[f] \cup want
      told == covered \/ kset[f] # {} \/ ~full
  IN [ok |-> told,
      row |-> IF covered THEN table[f] ELSE IF told THEN merged ELSE {},
      kernel |-> IF told /\ ~covered THEN merged ELSE kset[f]]

\* epoll_ctl: ADD wants the descriptor unknown (EEXIST), MOD known (ENOENT).
EpollCtl(f, ctl) ==
  /\ open[f]
  /\ IF ctl = "ADD" THEN kset[f] = {} /\ ~full ELSE kset[f] # {}

\* epoll_arm.  An idle row may be about another file, and is not believed.
EpollArm(f, want) ==
  LET row == IF Behind(f) = {} THEN {} ELSE table[f]
      covered == row # {} /\ want \subseteq row
      merged == row \cup want
      first == IF row = {} THEN "ADD" ELSE "MOD"
      other == IF row = {} THEN "MOD" ELSE "ADD"
      told == EpollCtl(f, first) \/ EpollCtl(f, other)
  IN [ok |-> covered \/ told,
      row |-> IF covered THEN row ELSE IF told THEN merged ELSE {},
      kernel |-> IF told /\ ~covered THEN merged ELSE kset[f]]

\* Mutant of KqueueArm: EV_ADD is not tried again after EV_DELETE.
KqueueArmOnce(f, want) ==
  LET s == SideOf(want)
      row == IF Behind(f) = {} THEN {} ELSE table[f]
      told == s \in row \/ (open[f] /\ IF s \in kset[f] THEN be = "kqueue" ELSE ~full)
  IN [ok |-> told, row |-> IF told THEN row \cup {s} ELSE row,
      kernel |-> IF told THEN kset[f] \cup {s} ELSE kset[f]]

\* Mutant of KqueueArm: an idle row is trusted.
KqueueArmTrusting(f, want) ==
  [ok |-> SideOf(want) \in table[f] \/ ~full,
   row |-> IF full THEN table[f] ELSE table[f] \cup {SideOf(want)},
   kernel |-> IF full \/ SideOf(want) \in table[f] THEN kset[f] ELSE kset[f] \cup {SideOf(want)}]

\* kqueue_arm.  An EV_ADD of a knote that is there is a modify to a BSD kernel
\* and an error to libkqueue; deleting first frees its place.
KqueueArm(f, want) ==
  LET s == SideOf(want)
      row == IF Behind(f) = {} THEN {} ELSE table[f]
      added == open[f] /\ IF s \in kset[f] THEN be = "kqueue" ELSE ~full
      again == open[f] /\ (s \in kset[f] \/ ~full)
      told == s \in row \/ added \/ again
  IN [ok |-> told, row |-> IF told THEN row \cup {s} ELSE row,
      kernel |-> IF s \in row THEN kset[f]
                 ELSE IF told THEN kset[f] \cup {s} ELSE kset[f] \ {s}]

\* dsp_arm, dsp_source_start: the first behind a side brings its source.
DispatchArm(f, want) ==
  LET s == SideOf(want)
      told == chain[f][s] # {} \/ ~full
  IN [ok |-> told, row |-> IF told THEN table[f] \cup {s} ELSE table[f],
      kernel |-> IF told THEN kset[f] \cup {s} ELSE kset[f]]

\* select_arm: membership in waiting[] is the interest set.
SelectArm(f) == [ok |-> f < ring.setsize, row |-> {}, kernel |-> {}]

Registered(f, want) ==
  CASE be = "epoll" -> EpollArm(f, want)
    [] be \in {"kqueue", "libkqueue"} -> KqueueArm(f, want)
    [] be = "dispatch" -> DispatchArm(f, want)
    [] be = "select" -> SelectArm(f)

-----------------------------------------------------------------------------
(* Parking, on the submitter's thread.                                     *)

\* slip_posix_execute: tried, and the descriptor says EAGAIN.  What a try
\* answers at once leaves nothing behind, and is no step.
TryWouldBlock(o, q) ==
  /\ Free /\ at[o] = "free" /\ open[q.fd] /\ ~IsReady(q)
  /\ at' = [at EXCEPT ![o] = "arming"]
  /\ req' = [req EXCEPT ![o] = q]
  /\ Silent /\ UNCHANGED <<ring, world, reg, ready, door, queue, phase>>

Gone(o, answer) ==
  /\ at' = [at EXCEPT ![o] = "free"]
  /\ req' = [req EXCEPT ![o] = Nothing]
  /\ last' = answer

\* park: the backend arms, or the op is answered -EBUSY.
Park(o) ==
  /\ at[o] = "arming"
  /\ LET f == req[o].fd
         s == SideOf(req[o].want)
         arm == Registered(f, req[o].want)
     IN /\ table' = [table EXCEPT ![f] = arm.row]
        /\ kset' = [kset EXCEPT ![f] = arm.kernel]
        /\ IF arm.ok
           THEN /\ at' = [at EXCEPT ![o] = "parked"]
                /\ chain' = IF be = "select" THEN chain
                            ELSE [chain EXCEPT ![f][s] = @ \cup {o}]
                /\ UNCHANGED req /\ last' = "none"
           ELSE Gone(o, "ebusy") /\ UNCHANGED chain
  /\ full' = FALSE
  /\ UNCHANGED <<ring, open, rdy, orphan, ready, door, queue, phase>>

\* Mutant of Unpark: the op is looked for on the reading side.
UnparkReading(o) ==
  /\ chain' = [chain EXCEPT ![req[o].fd]["in"] = @ \ {o}]
  /\ orphan' = orphan \ {o}
  /\ UNCHANGED <<table, kset>>

\* unpark and disarm.  Registrations stay, except that dispatch takes the
\* source away with its last waiter (dsp_disarm).
Unpark(o) ==
  LET f == req[o].fd
      s == SideOf(req[o].want)
      drops == be = "dispatch" /\ chain[f][s] \ {o} = {} /\ s \in table[f]
  IN /\ chain' = [chain EXCEPT ![f][s] = @ \ {o}]
     /\ table' = IF drops THEN [table EXCEPT ![f] = @ \ {s}] ELSE table
     /\ kset' = IF drops THEN [kset EXCEPT ![f] = @ \ {s}] ELSE kset
     /\ orphan' = orphan \ {o}

\* slip_posix_finish_ready, for one op: a recv that may leave bytes behind, or
\* a wakeup for nothing, after which it parks again.
Retry(o) ==
  /\ o \in ready /\ waiter = "out" /\ "wait" \notin owed
  /\ \A p \in Op : at[p] # "arming"
  /\ ready' = ready \ {o}
  /\ Unpark(o)
  /\ \/ /\ IsReady(req[o])
        /\ Gone(o, "ok")
        /\ \/ UNCHANGED rdy
           \/ \E s \in req[o].want : rdy' = [rdy EXCEPT ![req[o].fd] = @ \ {s}]
     \/ /\ ~IsReady(req[o])
        /\ at' = [at EXCEPT ![o] = "arming"]
        /\ UNCHANGED <<rdy, req>> /\ last' = "none"
  /\ UNCHANGED <<ring, open, full, door, queue, phase>>

\* cancel_matching finds it parked.
CancelParked(o) ==
  /\ Free /\ at[o] = "parked"
  /\ Unpark(o)
  /\ Gone(o, "ecanceled")
  /\ UNCHANGED <<ring, world, ready, door, queue, phase>>

\* The backend's forget; select has none.  A source goes before its descriptor.
Forget(f) ==
  /\ table' = [table EXCEPT ![f] = {}]
  /\ chain' = [chain EXCEPT ![f] = [s \in Side |-> {}]]
  /\ hit' = [hit EXCEPT ![f] = {}]

\* IORING_OP_CLOSE, of a descriptor that others may be parked on.
RingCloses(f) ==
  /\ Free /\ open[f]
  /\ Forget(f)
  /\ Closed(f)
  /\ orphan' = orphan \cup {o \in Parked : req[o].fd = f}
  /\ Silent /\ UNCHANGED <<ring, ops, ready, queued, knocked, sem, owed, done, waiter, queue, phase>>

-----------------------------------------------------------------------------
(* epoll, kqueue and select: what one wait collects.                       *)

\* Level triggered: what is still there is reported on every wait.
Fired(f) == kset[f] \cap rdy[f]
Broken(f) == kset[f] # {} /\ "err" \in rdy[f]
Unwatched(quiet) ==
  /\ table' = [f \in Fd |-> table[f] \ quiet[f]]
  /\ kset' = [f \in Fd |-> kset[f] \ quiet[f]]

\* Mutant of EpollQuiet: nothing is asked about any less.
EpollQuietNothing(f) == {}

\* What fired with nobody behind it is asked about no further.
EpollQuiet(f) ==
  {s \in Fired(f) : chain[f][s] = {}}
  \cup (IF Broken(f) /\ Behind(f) = {} THEN table[f] ELSE {})

\* epoll_wait_ready.  An error or a hangup wakes both sides.
WaitEpoll ==
  /\ be = "epoll" /\ Free
  /\ \E f \in Fd : Fired(f) # {} \/ Broken(f)
  /\ ready' = UNION {IF Broken(f) THEN Behind(f) ELSE UNION {chain[f][s] : s \in Fired(f)} : f \in Fd}
  /\ Unwatched([f \in Fd |-> EpollQuiet(f)])
  /\ Silent /\ UNCHANGED <<ring, world, ops, chain, orphan, door, queue, phase>>

\* kqueue_wait.  A knote per side, and an error rides on each of them.
Knotes(f) == {s \in kset[f] : Ready(f, s)}
WaitKqueue ==
  /\ be \in {"kqueue", "libkqueue"} /\ Free
  /\ \E f \in Fd : Knotes(f) # {}
  /\ ready' = UNION {UNION {chain[f][s] : s \in Knotes(f)} : f \in Fd}
  /\ Unwatched([f \in Fd |-> {s \in Knotes(f) : chain[f][s] = {}}])
  /\ Silent /\ UNCHANGED <<ring, world, ops, chain, orphan, door, queue, phase>>

\* select_wait.  One closed descriptor in the sets fails the call (EBADF), which
\* is taken for EINTR: nothing is handed over, for any of them.
BadSet == \E o \in Parked : ~open[req[o].fd]
WaitSelect ==
  /\ be = "select" /\ Free /\ ~BadSet
  /\ \E o \in Parked : IsReady(req[o])
  /\ ready' = {o \in Parked : IsReady(req[o])}
  /\ Silent /\ UNCHANGED <<ring, world, ops, reg, door, queue, phase>>

-----------------------------------------------------------------------------
(* dispatch: handlers on a serial queue, a pool, and the door.             *)

\* Mutant of Knock: every item knocks.
KnockAlways(a) == knocked' = TRUE /\ owed' = owed \cup {a}

\* dsp_knock_locked: whoever makes the transition owes the door a signal.
Knock(a) ==
  /\ knocked' = TRUE
  /\ owed' = IF knocked THEN owed ELSE owed \cup {a}

\* dispatch_semaphore_signal, after the unlock.
Signal(a) ==
  /\ a \in owed
  /\ sem' = sem + 1
  /\ owed' = owed \ {a}
  /\ running' = IF a = "q" THEN Nothing ELSE running
  /\ Silent /\ UNCHANGED <<ring, world, ops, reg, ready, hit, queued, knocked, done, waiter, stopping, phase>>

\* A source's handler is called for a side that is ready, again and again.
HandlerBegins(f, s) ==
  /\ be = "dispatch" /\ running = Nothing
  /\ s \in kset[f] /\ Ready(f, s)
  /\ running' = [what |-> "event", fd |-> f, side |-> s]
  /\ Silent /\ UNCHANGED <<ring, world, ops, reg, ready, door, stopping, phase>>

\* Mutant of HandlerReports: it does not knock.
HandlerReportsSilently ==
  /\ running # Nothing /\ running.what = "event" /\ "q" \notin owed
  /\ hit' = [hit EXCEPT ![running.fd] = @ \cup {running.side}]
  /\ queued' = queued \cup {running.fd}
  /\ UNCHANGED <<knocked, owed>>
  /\ running' = Nothing
  /\ Silent /\ UNCHANGED <<ring, world, ops, reg, ready, sem, done, waiter, stopping, phase>>

\* dsp_report.  By now the source may be cancelled, and its number another file's.
HandlerReports ==
  /\ running # Nothing /\ running.what = "event" /\ "q" \notin owed
  /\ hit' = [hit EXCEPT ![running.fd] = @ \cup {running.side}]
  /\ queued' = queued \cup {running.fd}
  /\ Knock("q")
  /\ running' = IF "q" \in owed' THEN running ELSE Nothing
  /\ Silent /\ UNCHANGED <<ring, world, ops, reg, ready, sem, done, waiter, stopping, phase>>

\* The cancel handler of a source, live-- and then the gate.
CancelHandlerBegins(f, s) ==
  /\ running = Nothing /\ <<f, s>> \in stopping
  /\ stopping' = stopping \ {<<f, s>>}
  /\ running' = [what |-> "cancel", fd |-> f, side |-> s]
  /\ Silent /\ UNCHANGED <<ring, world, ops, reg, ready, door, phase>>

CancelHandlerEnds ==
  /\ running # Nothing /\ running.what = "cancel"
  /\ running' = Nothing
  /\ Silent /\ UNCHANGED <<ring, world, ops, reg, ready, door, stopping, phase>>

\* dsp_submit_blocking: a channel or the global queue, either way out of reach.
SubmitBlocking(o) ==
  /\ be = "dispatch" /\ Free /\ at[o] = "free"
  /\ at' = [at EXCEPT ![o] = "pool"]
  /\ Silent /\ UNCHANGED <<ring, world, req, reg, ready, door, queue, phase>>

\* dsp_done, up to its unlock.
PoolDone(o) ==
  /\ at[o] = "pool" /\ o \notin done \cup owed
  /\ done' = done \cup {o}
  /\ Knock(o)
  /\ Silent /\ UNCHANGED <<ring, world, ops, reg, ready, hit, queued, sem, waiter, queue, phase>>

\* dsp_poke, from any thread.
Poke ==
  /\ be = "dispatch" /\ phase = "open" /\ ~knocked
  /\ Knock("poke")
  /\ Silent /\ UNCHANGED <<ring, world, ops, reg, ready, hit, queued, sem, done, waiter, queue, phase>>

\* dsp_wait: through the door, past the barrier on the serial queue, and then,
\* under the lock, everything that has come.
WaitDispatch ==
  /\ be = "dispatch" /\ Free /\ sem > 0
  /\ sem' = sem - 1
  /\ waiter' = "barrier"
  /\ Silent /\ UNCHANGED <<ring, world, ops, reg, ready, hit, queued, knocked, owed, done, queue, phase>>

Barrier ==
  /\ waiter = "barrier" /\ running = Nothing
  /\ waiter' = "collect"
  /\ Silent /\ UNCHANGED <<ring, world, ops, reg, ready, hit, queued, knocked, sem, owed, done, queue, phase>>

Drop(gone) == at' = [o \in Op |-> IF o \in gone THEN "free" ELSE at[o]]

\* With every op of the pool come back at once there is no room left for the
\* chain, which keeps its hits, and the door its knock.
Collect ==
  /\ waiter = "collect"
  /\ waiter' = "out"
  /\ Drop(done) /\ done' = {}
  /\ LET walked == IF Cardinality(done) < Cardinality(Op) THEN queued ELSE {}
         left == queued \ walked # {}
     IN /\ ready' = UNION {UNION {chain[f][s] : s \in hit[f]} : f \in walked}
        /\ hit' = [f \in Fd |-> IF f \in walked THEN {} ELSE hit[f]]
        /\ queued' = queued \ walked
        /\ knocked' = left
        /\ owed' = IF left THEN owed \cup {"wait"} ELSE owed
  /\ Silent /\ UNCHANGED <<ring, world, req, reg, sem, queue, phase>>

-----------------------------------------------------------------------------
(* The end of the ring.                                                    *)

\* dsp_source_stop, of what the row holds.
StopSources(f) == table[f]

\* close_ring: epoll's and kqueue's set goes with its descriptor; dispatch stops
\* every source, and waits for them and for those it stopped before.  The
\* program's descriptors are of no interest after this, and closed too.
CloseRing ==
  /\ Free
  /\ open' = [f \in Fd |-> FALSE] /\ rdy' = NoSides
  /\ kset' = [f \in Fd |-> IF be = "dispatch" THEN kset[f] \ StopSources(f) ELSE {}]
  /\ IF be = "dispatch"
     THEN /\ phase' = "closing"
          /\ \E earlier \in SUBSET (Fd \X Side) :
               stopping' = earlier \cup {x \in Fd \X Side : x[2] \in StopSources(x[1])}
     ELSE phase' = "freed" /\ UNCHANGED stopping
  /\ table' = NoSides
  /\ chain' = [f \in Fd |-> [s \in Side |-> {}]] /\ orphan' = {}
  /\ Drop(Op \ {o \in Op : at[o] = "pool"})
  /\ req' = [o \in Op |-> Nothing]
  /\ Silent /\ UNCHANGED <<ring, full, ready, door, running>>

\* dsp_close_ring's loop.  The gate counts every live--, so that each brings
\* another look; results that come back meanwhile are dropped.
CloseLooks ==
  /\ phase = "closing"
  /\ Drop(done) /\ done' = {}
  /\ phase' = IF stopping = {} /\ (\A o \in Op \ done : at[o] # "pool") THEN "sync" ELSE phase
  /\ Silent /\ UNCHANGED <<ring, world, req, reg, ready, hit, queued, knocked, sem, owed, waiter, queue>>

\* Mutant of CloseSync: the queue is not waited for.
CloseWithoutSync ==
  /\ phase = "sync"
  /\ phase' = "freed"
  /\ Silent /\ UNCHANGED <<ring, world, ops, reg, ready, door, queue>>

\* dispatch_sync_f on the serial queue, and everything is freed.
CloseSync ==
  /\ phase = "sync" /\ running = Nothing
  /\ phase' = "freed"
  /\ Silent /\ UNCHANGED <<ring, world, ops, reg, ready, door, queue>>

-----------------------------------------------------------------------------
Wait == WaitEpoll \/ WaitKqueue \/ WaitSelect \/ WaitDispatch

World ==
  /\ phase = "open"
  /\ \/ \E f \in Fd : Open(f) \/ ProgramCloses(f)
     \/ \E f \in Fd : BecomesReady(f, "err") \/ \E s \in Side : BecomesReady(f, s) \/ LosesReadiness(f, s)
     \/ KernelFills

Dispatch ==
  \/ \E a \in owed : Signal(a)
  \/ \E f \in Fd, s \in Side : HandlerBegins(f, s) \/ CancelHandlerBegins(f, s)
  \/ HandlerReports \/ CancelHandlerEnds
  \/ \E o \in Op : SubmitBlocking(o) \/ PoolDone(o)
  \/ Poke
  \/ Barrier \/ Collect
  \/ CloseLooks \/ CloseSync

Next ==
  \/ \E o \in Op : (\E q \in Requests : TryWouldBlock(o, q)) \/ Park(o) \/ Retry(o) \/ CancelParked(o)
  \/ \E f \in Fd : RingCloses(f)
  \/ Wait \/ CloseRing
  \/ Dispatch
  \/ World
  \/ phase = "freed" /\ UNCHANGED vars

(***************************************************************************)
(* A program that uses the ring goes on waiting on it, between whatever    *)
(* else it submits (SF); its thread finishes what it began; the serial     *)
(* queue is first in, first out, so that no source keeps another, or the   *)
(* barrier, from it (SF); a thread that unlocked goes on to signal.  Peers *)
(* owe nothing.                                                            *)
(***************************************************************************)
Fairness ==
  /\ SF_vars(Wait)
  /\ WF_vars(\E o \in Op : Park(o) \/ Retry(o))
  /\ SF_vars(Barrier) /\ WF_vars(Collect)
  /\ WF_vars(\E a \in owed : Signal(a))
  /\ \A f \in Fd, s \in Side : SF_vars(HandlerBegins(f, s))
  /\ WF_vars(HandlerReports \/ CancelHandlerEnds)

Spec == Init /\ [][Next]_vars
FairSpec == Spec /\ Fairness

-----------------------------------------------------------------------------
TypeOK ==
  /\ ring \in Ring
  /\ open \in [Fd -> BOOLEAN] /\ rdy \in [Fd -> SUBSET (Side \cup {"err"})] /\ full \in BOOLEAN
  /\ at \in [Op -> {"free", "arming", "parked", "pool"}]
  /\ req \in [Op -> Requests \cup {Nothing}]
  /\ last \in {"none", "ok", "ebusy", "ecanceled"}
  /\ table \in [Fd -> SUBSET Side] /\ kset \in [Fd -> SUBSET Side] /\ hit \in [Fd -> SUBSET Side]
  /\ chain \in [Fd -> [Side -> SUBSET Op]]
  /\ orphan \subseteq Parked /\ ready \subseteq Parked
  /\ queued \subseteq Fd /\ knocked \in BOOLEAN /\ sem \in {0, 1}
  /\ owed \subseteq Op \cup {"q", "poke", "wait"}
  /\ done \subseteq {o \in Op : at[o] = "pool"}
  /\ waiter \in {"out", "barrier", "collect"}
  /\ running \in [what : {"event", "cancel"}, fd : Fd, side : Side] \cup {Nothing}
  /\ stopping \subseteq Fd \X Side
  /\ phase \in {"open", "closing", "sync", "freed"}

(***************************************************************************)
(* A wakeup "names its own waiters instead of being searched for"          *)
(* (engine_dispatch.c): the chains hold every parked op, under its own     *)
(* descriptor and side, and nothing else, however the op left before.      *)
(***************************************************************************)
ChainsAreParked ==
  be # "select" =>
    \A f \in Fd, s \in Side :
      chain[f][s] = {o \in Parked \ orphan : req[o].fd = f /\ SideOf(req[o].want) = s}

(***************************************************************************)
(* The table may be wrong about an idle descriptor, whose number may have  *)
(* come back as another file.  For a parked op it never is: the kernel     *)
(* watches its side of the file that is open now.  "A skipped EV_ADD is    *)
(* silent, and the op waits forever" (kqueue_arm).                         *)
(***************************************************************************)
KernelWatches ==
  be # "select" =>
    \A o \in Parked \ orphan : SideOf(req[o].want) \in kset[req[o].fd]

(***************************************************************************)
(* "Its count is 1 exactly while knocked says something is waiting to be   *)
(* collected - signalled on the TRANSITION, never per item" (sem in        *)
(* engine_dispatch.c): one signal per knock, none added and none lost.     *)
(* That the knock is news to anybody it does not say: a late hit whose op  *)
(* was cancelled meanwhile still ends a wait with nothing to collect.      *)
(***************************************************************************)
OneKnock ==
  sem + Cardinality(owed) + (IF waiter = "out" THEN 0 ELSE 1) = IF knocked THEN 1 ELSE 0

(***************************************************************************)
(* What has been reported and not answered is behind a door that has been  *)
(* knocked at: a hit whose descriptor is on the ready chain, a result of   *)
(* the pool (dsp_report, dsp_done against the end of dsp_wait).            *)
(***************************************************************************)
NewsKnocks ==
  phase = "open" =>
    /\ \A f \in Fd : hit[f] # {} => f \in queued
    /\ queued # {} \/ done # {} => knocked

(***************************************************************************)
(* "A handler that ran after the state was freed would be reading a        *)
(* dangling pointer" (struct dsp_state): no handler of the serial queue    *)
(* runs or is still to run, and no op is out.                              *)
(***************************************************************************)
FreedWhenQuiet ==
  phase = "freed" =>
    /\ running = Nothing /\ stopping = {} /\ kset = NoSides
    /\ \A o \in Op : at[o] = "free"

(***************************************************************************)
(* One io_uring, whatever is behind it: each backend, with its table or    *)
(* its handlers, implements the same set of waiting requests.  An op is    *)
(* answered by a try that found it ready, and -EBUSY only of a descriptor  *)
(* that could not be registered (park in engine_posix.c).                  *)
(***************************************************************************)
PS == INSTANCE PollSet WITH
  waits <- [o \in Op |-> IF Waits(o) THEN req[o] ELSE Nothing],
  room <- {f \in Fd : open[f] /\ IF be = "select" THEN f < ring.setsize ELSE ~full},
  closing <- phase # "open"

PollSetSpec == PS!Spec

(***************************************************************************)
(* No lost wakeup: an op parked on one direction of a descriptor that is   *)
(* and stays ready is tried again, whatever peers, reused numbers, late    *)
(* handlers and other ops did.  Not promised: an op that asks for both     *)
(* directions, and select while a closed descriptor is in its sets.        *)
(***************************************************************************)
Due(o) ==
  /\ at[o] = "parked" /\ o \notin orphan
  /\ Cardinality(req[o].want) = 1 /\ IsReady(req[o])
  /\ ~(be = "select" /\ BadSet)

ReadyIsAnswered == \A o \in Op : Due(o) ~> ~Due(o)

(***************************************************************************)
(* "A registration that outlives its ops does not go quiet - it spins"     *)
(* (ep_quiet): no descriptor is reported for ever with nobody behind it.   *)
(***************************************************************************)
ReportedToNobody(f) ==
  \E s \in kset[f] :
    /\ chain[f][s] = {}
    /\ s \in rdy[f] \/ ("err" \in rdy[f] /\ Behind(f) = {})

QuietsDown == \A f \in Fd : []<>~ReportedToNobody(f)
=============================================================================
