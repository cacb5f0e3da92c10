# slipstreamIO in TLA+

slipstreamIO answers the io_uring system calls in user space where the kernel
will not. These modules model its engine - what a ring does between the caller's
`io_uring_enter` and the completion queue entries it reads -, the backends with
which it waits, and its file watching. Source paths below
are relative to the repository (`src/slipstream_engine.c` and so on).

## The system

| part | state it keeps | operations | modelled by |
| --- | --- | --- | --- |
| completion queue and backlog (`slipstream_engine.c`) | op pool and its free list, CQ counters and entries, backlog, overflow | alloc, post, emit, drain; the caller moves head | `CompletionQueue` |
| ring core (`slipstream_engine.c`) | submission queue, `chain_failed`, `blocking` | setup, enter, process_queue, complete, settle_worker_ticket, msg_ring, register, mmap, close | `RingEngine` (enter and what it calls) |
| POSIX machinery (`engine_posix.c`) | `waiting[]`, the worker and its queue, the ticket, the poke pipe | execute, park and unpark, finish_ready, cancel_matching, worker_main | `RingEngine`; the worker's queue also `WorkerQueue` |
| fixed file table (`slipstream_engine.c`) | slots, alloc range and hint | install, clear, lookup, register, unregister | `FixedFiles` |
| provided buffer rings (`engine_posix.c`) | 16-bit head; the caller owns tail and entries | take, unget | `BufferRing` |
| readiness backends (`engine_epoll.c`, `engine_select.c`, `engine_kqueue.c`, `engine_dispatch.c`) | a mirror of what the OS was told, chains of waiting ops per descriptor and side; dispatch also sources, a ready chain, a door | arm, disarm, forget, wait, poke, close_ring | `Backends`, against `PollSet`; `RingEngine` takes a wait's answer as given |
| iocp backend (`engine_iocp.c`) | overlapped operations in flight | issue, cancel, drain, close | not modelled |
| syscall switch (`slipstream_syscall.c` and its headers) | which side answers | one dispatch | not planned: stateless |
| signals (`slipstream_signal.c`) | a pump thread, a pipe, a stop flag | open, read, close | not modelled, see below |
| file watching (`slipstream_inotify.c`) | watches, directory snapshots (BSD, macOS) or reads in flight (Windows), a bounded queue of records | init, add, remove, read, close | `Watch` |
| temporary files, thread wrappers, mruby glue | none | | not planned |

**How they interact.** Whoever calls enter *is* the engine: it copies SQEs into
ops of the pool, runs them in order, parks what would block in `waiting[]` and
sleeps in the backend's wait. Regular-file work goes through `wq` to one worker
thread, which posts its own completions and writes the poke pipe. The op queue
and the link-chain state belong to the thread inside enter without a lock;
`r->mtx` covers the pool, the CQ tail, the backlog, the worker's queue and the
*ticket* with which the worker tells that a linked op has finished. The caller
moves the CQ head on its own, at any moment. A MSG_RING writes into the CQ of
another ring. File watching and signals stand beside the ring: a caller's own
thread reads them, and what they share with other programs is the file system.

**What is hard.** The order in which ticket, post and poke reach a thread that
is about to sleep; op pointers compared after their op was freed; a queue that
stops behind a linked op; a CQ that gains room while the lock is held; pool and
CQ at their limits; counters that wrap; cancels that reach ops in four places;
link-chain standing that outlives a call; tables that mirror a kernel which
forgets descriptors on its own; handlers that report while the waiter leaves; a
directory that changes while it is looked at. `PROJECT.json` lists each such hazard
at its line, with the properties that watch it.

**What makes the parts correct.** CQ: no unread entry is overwritten, every
completion is in one place and reaches the caller. Pool: an op is in one place.
Core: a chain runs in order, a failure cancels the rest of its own chain and
nothing else, a stalled queue is released, every request is answered once.
Fixed files: a slot holds one descriptor, ALLOC fails only when the range is
full. Buffers: one is never handed out twice. Backends: whoever is parked on a
ready descriptor is woken, and nobody is woken for ever. Watches: the records
lead to what is there, what was lost is said to be lost, and a watch ends once.

## Modules

### CompletionQueue

The functions under `r->mtx` at the top of `slipstream_engine.c`. One action per
step inside a lock section: `OpAlloc`; `PostLock`, `EmitLock` and `SettleLock`
take the lock for `slip_engine_post`, `slip_engine_emit` and
`settle_worker_ticket`; `DrainEntry` and `Drain` move one backlogged completion
and `DrainEnd` leaves the loop; `PlaceNothing`, `PlaceEntry` and `PlaceInCq`,
`PlaceInBacklog`, `PlaceOnCarrier` and `DropEmission` are the branches behind it.
The lock section is cut up because one party does not take the lock: `Reap` reads
an entry and moves the head between any two of these steps. `post_locked` is
two of them for the same reason, the store of the entry (`DrainEntry`,
`PlaceEntry`) and the store of the tail (`Drain`, `PlaceInCq`). `Reap` is one: the
caller copies an entry before it gives the entry up. `at`, `kind` and `hand` say where in its section the
holder of the lock is. `head` and `tail` count modulo `Wrap`, a multiple of
the number of entries, as `unsigned` does with 2^32. A completion is a number,
its place in the order in which completions happened. `posted`, `reaped` and
`lost` are history.

### RingEngine

One ring on a readiness backend. Variables keep the names of the fields of
`struct slip_ring` (`engine_internal.h`). `pc` is where the thread inside enter
is:

| pc | code | actions |
| --- | --- | --- |
| out | the caller's own code | `Enter`, `Reap` |
| take | the loop that copies SQEs | `TakeSqe`, `TakeEnd` |
| run | `process_queue` | `RunCancelled`, `RunPop`, `RunEnd` |
| exec | one op in `execute` | `ExecDone`, `ExecPark`, `EmitOne`, `ExecHand`, `ExecMsg`, `ExecCancel` |
| stall | `blocking = op`, after the hand-over | `Stall` |
| cancel, post | `cancel_matching`, and the post of its answer | `CancelParked`, `CancelQueued`, `CancelAtWorker`, `CancelEnd`, `PostCur` |
| settle, check | `settle_worker_ticket`, and the count | `Settle`, `Return`, `CheckWait` |
| wait | asleep in the backend | `WaitReturns` |
| retry, try | `slip_posix_finish_ready` | `Unpark`, `TryDone`, `TryPark`, `RetryEnd` |
| complete | the loop over `done[]` | `Complete`, `CompleteEnd` |

The worker goes through `WorkerPop`, `WorkerRun`, `WorkerTicket`, `WorkerPost`,
`WorkerPoke` (`worker_main`), each a step of its own. A lock section is one step
here; `CompletionQueue` is what justifies looking no closer, because the caller
of this module reaps between its calls of enter. An SQE is its `kind`, which
says how it can go (at once, with a failure, by parking, through the worker - the
last also for a connect that would block at a full Unix backlog),
with its link and skip flags; a cancel has the set of SQEs it names. `script`
is what the caller submits, and an SQE's user_data is its place in it. Which op
the pool hands out is left open: the free list is a stack, and the module is
right for any order. A wait that is interrupted, or that the OS fails, is left
out, as are SQE indices past the array.

### WorkerQueue

The list between submitter and worker as it lies in memory: `next` is
`eng_op::next`, which also threads the free list, `p` the link that
`cancel_matching` stands at (`Null` is `wq_head` itself) and `t` its target. The
submitter hands ops over (`Take`, `Hand`) or walks the list for a cancel
(`WalkPast`, `WalkTakes`, `CancelTarget`, `Relock`, `WalkEnd`, `Answer`), holding
the lock except at a target; the worker pops and posts when the lock is free.
`RingEngine` has the same walk one target a step, always from the head again,
which comes to the same with at most one op in the queue; its pool of two has no
more when a cancel is being run. It also takes the op, unlocks and posts in one
step (`CancelAtWorker`), where this module lets the worker in between.

### LinkedRequests

What a ring promises, without any of its machinery: requests are taken in
order, each is answered once, a member of a chain after the one before it, and a
request is cancelled only by the failure of its chain or by a cancel that names
it; a failing member with the skip flag takes its chain along silently.
`KeepsPromise` says that `RingEngine` implements it, with an op that the worker
has finished but not posted counting as answered (`Decided`): the ticket lets
the chain go on from that point.

### FixedFiles

The table of `slip_fixed_*` and the register calls that make it, bound an alloc
range in it and take it away; `slipstream_engine_close` empties it the same way.
`n`, `fixed`, `off`, `len` and `hint` are `fixed_n`, `fixed_files` and the three
`alloc_` fields. An op that makes a descriptor and one that puts it away are one
thread's consecutive steps; between them the descriptor is `fresh`, and the
actions that follow `Make` are the outcomes of `install_direct`: `InstallAlloc`,
`InstallNamed`, `RefuseAlloc` and `RefuseNamed` (which close it), or `HandOver`
when the op named no slot. `AnswerLost` is `HandOver` with a CQE that never comes:
a multishot accept answers through `slip_engine_emit`, which drops an emission
when the CQ is full and the pool empty, and an op with IOSQE_CQE_SKIP_SUCCESS
posts no success. Its descriptor is `leaked`: open, and in no hand. The loop that steps from the hint and jumps back at
the range's end is written as what it reaches: `Probe(t)` is the slot it looks
at after `t` others. `open` is the process's descriptor table, and the OS may
hand out any number that is not in it, so that a second close of a number would
show.

### BufferRing

One provided buffer ring. `bufs` and `tail` are the caller's memory and `head`
the engine's, free-running and `Wrap` (2^16) wide; `hand` is the buffer between
`bufring_take` and what follows it: `Unget`, `EmitFilled` or, when the emission is
dropped, `EmitDropped` for a multishot receive, `CompleteFilled` or, under
IOSQE_CQE_SKIP_SUCCESS, `CompleteSkipped` for an op's own completion. The two in
which no CQE comes put the buffer in `lost`. The caller adds buffers
(`Provide`) at any moment, and has one back once it has read the CQE that names
it. What `CompletionQueue` says about room is here one number, `CqRoom`: the
emissions CQ and carriers hold before one is dropped; `SkipSuccess` says whether
there are receives with the flag. A caller provides no
buffer that it does not have, and no more than the ring has entries, as liburing
asks of it.

### PollSet

What every readiness backend owes the ring: a request waits, and leaves done (at
a moment when its descriptor is ready for it), refused (only when its
descriptor cannot be registered), cancelled, or with the ring.

### Backends

The four readiness backends behind `struct eng_backend`, with the parking of
`engine_posix.c` that drives them; `Init` chooses one for the behaviour, kqueue
twice, as BSD kernels and libkqueue answer an EV_ADD of a knote that is there
differently. `table` is what a backend believes (`interest`, `armed_read` and
`armed_write`, `rd` and `wr`), `chain` the ops behind each side of a descriptor,
`kset` what the kernel really watches of the file that is open now. `Open`,
`ProgramCloses` and `RingCloses` (IORING_OP_CLOSE) are where the two part: the
kernel drops a closed descriptor and nobody tells the table.

`TryWouldBlock`, `Park`, `Retry` and `CancelParked` are the submitter's steps;
`Park` calls the backend through `Registered`, which names its arm (`EpollArm`
with its two tries, `KqueueArm` with EV_DELETE and a second EV_ADD,
`DispatchArm`, `SelectArm`) as a new row and a new kernel set. `WaitEpoll`,
`WaitKqueue` and `WaitSelect` are one step each: the kernel's answer and the
handing over of chains do not interleave with anything that matters. dispatch is
in pieces: `HandlerBegins`, `HandlerReports`, `CancelHandlerBegins` and
`CancelHandlerEnds` run on the serial queue, `SubmitBlocking` and `PoolDone` on
the pool, `Poke` anywhere, each followed by its `Signal` after the unlock, and
`WaitDispatch`, `Barrier` and `Collect` are the places where `dsp_wait` can be
overtaken. `CloseRing`, `CloseLooks` and `CloseSync` are `close_ring`.

Peers make a descriptor ready and take readiness away between any two steps; the
kernel may refuse a new registration once while an op is being parked
(`KernelFills`).

### Watch

`slipstream_inotify.c` where there is no inotify. A behaviour has one arm:
`vnode` (BSD, macOS: a note that something changed, then a comparison of two
scans) or `changes` (Windows: completions that name what changed).

| code | `vnode` | `changes` |
| --- | --- | --- |
| `add_watch` | `AddLook`, `LookAt`, `Register`; `NewMask` | `AddWatch`; `NewMask` |
| `read` with something queued | `ReadRecords` | `ReadRecords` |
| `read` with an empty queue, `take_events` | `Take`, then per watch `StartLook`, `LookAt`, `Translate` | `Drain`, then per completion of a watch's own read `Completion` or `ReadFails`, of the read above `UpCompletion`, `UpMisses` or `UpFails`; `PortEmpty` |
| `check_gone` | | `CheckGone` |
| `rm_watch`, `close`, `init1` | `RmWatch`, `Close`, `Init1` | the same |

`scan` is a step per name (`LookAt`), as other programs act between its `lstat`
calls; `Differences` is `directory_changed` after it, with what it says of a name
that stayed (`InPlace`), left (`Departure`) and is new (`Arrival`); `Emit` and
`EmitMasked` are `emit` and `emit_masked`, and `EmitAll` is a call of the latter
for each record. `Hears` is one notification reaching a read that waits. `q` is the queue with `qlen` and `overflowed`; its
`gap` and `lost`, `view`, `ended` and `silent` are history: what a reader who keeps
a listing from the records has by now, which watches it has been told are over,
and which ended without a word. A read in flight, on the directory or on the one
above, may fail at any time. `World` is what other programs do: create (with any inode number that is
free), delete, rename onto a free or a taken name, write, remove the directory and
make it again. A record is a kind, a name and a cookie, and its size counts in
headers. Whether a file's times or size changed since the last look is left open.

### The proofs

`CompletionQueueProofs`, `FixedFilesProofs`, `BufferRingProofs`,
`RingEngineProofs`, `BackendsProofs` and `WatchProofs` extend the modules they
are named for; `RingAnswersProofs` goes on from `RingEngineProofs` to what the
caller sees.
`SharedLemmas` holds what they need of data: masked counters and their wrap,
sequences without repetition, least elements. See *Proofs* below. The `MC...`
modules hold what TLC needs and nothing of the system: scripts, symmetry.

## Runs

| run | instance | shows |
| --- | --- | --- |
| `cq` | 2 ops, 2 entries, counters modulo 4, 7 completions | no entry overrun, none published before it is written, every completion in one place, backlog in order, ops in one place; all completions arrive |
| `ring_safety` | 2 ops, 2 entries, nine scripts of 3 or 4 SQEs, 1 emission, 1 spurious wakeup | ops in one place, a stalled queue has an owner, one stall at a time, one final CQE a request, chains in order, `LinkedRequests` implemented |
| `ring_liveness` | three scripts of 3 SQEs, the same bounds | no deadlock, every request answered |
| `ring_lost_wakeup` | a linked file op and a follower | **violated**: enter sleeps with a runnable queue |
| `ring_ticket_early` | the same | **violated**: a follower runs before its predecessor's CQE is posted |
| `ring_cancel_queued` | 3 ops; a cancel that names a linked op queued behind an unlinked one | **violated**: the unlinked one is cancelled |
| `worker_cancel_all` | 4 ops, 2 files, 4 SQEs, cancels with and without CANCEL_ALL | **violated**: a request is cancelled twice |
| `fixed_files` | 4 descriptors, tables of 1 to 4 slots, every alloc range | no descriptor has two owners or is closed twice, none leaks but with its CQE; the search misses no free slot; no install replaces |
| `buffer_ring` | 4 buffers, 4 entries, counters modulo 8, room for 2 CQEs, receives that skip theirs | each buffer in one place, or its CQE never came; a rewind gives back what was taken |
| `backends` | each backend, 2 ops, 1 socket; select also with a number past FD_SETSIZE | chains hold the parked ops and no other; the kernel watches for every parked op; one knock for news and none without; nothing runs in freed state; `PollSet` implemented; what is ready is answered, and nobody is reported to for ever |
| `watch` | both arms, a directory and one file in it watched, 2 names, 2 inodes, 3 changes, queue of 5 headers | the records replay to what is there; IGNORED ends a watch, once, and always; the halves of a rename belong together; a loss is told; what is gone is found out |
| `buffer_dropped` | the same with room for 1 CQE and no receive that skips its own | **violated**: a dropped emission takes its buffer along |

**Bounds.** Two CQ entries and two ops are the smallest ring in which there is
both a first and a last entry, an op that is freed and handed out again while a
pointer to it is compared, and a pool that is empty in the middle of a batch.
Seven completions take both counters round their wrap of 4 nearly twice and
overfill CQ and backlog together. One emission and one spurious wakeup are each
enough to meet every state of the rest of the ring once. Four slots and four
descriptors give a range with slots before, inside and after it, a hint in each
of these places, and a full table with nothing left to hand out. Four buffers
fill a ring of four, whose counters then differ by its length, half their wrap;
with room for two CQEs some buffers wait to be read while others are dropped.
The scripts of
`ring_safety` put each kind at the head, in the middle and at the end of a
chain. They leave out two shapes that break `ChainOrder` and `KeepsPromise` by
themselves, a refused MSG_RING at the head of a chain and a cancel that reaches
a linked op in the queue (`ring_cancel_queued`); `ring_liveness` leaves out linked
file ops, which enter may sleep through. For the same reason `ring_safety` runs
without a deadlock check: the sleep of `ring_lost_wakeup` is a deadlock. The
other passing runs check for it. `OpSymmetry` permutes the ops of the pool,
which nothing tells apart; the liveness run does without.

In `backends` one descriptor is enough for what goes wrong between a table row
and the kernel: a number that comes back, two ops on the same or opposite
sides, a row that is idle. Two descriptors meet only on the ready list; that
instance was run by hand (2.6 million states, no violation) and is too long to keep.
Two ops fill both sides, or one side twice, and let one be at the pool
while the other is parked. In `watch` two names and two inodes give a rename, a
rename onto a taken name, a replaced file and a freed inode number that comes
back under the other name; three changes allow one before, during and after a
look, and a directory that is emptied, removed and made again. A queue of five
headers holds two or three records, so that it overflows with and without room
for the overflow record; the caller's buffer of three takes one or two of them.
Two calls of add_watch are two watches, or a watch and a second mask or a second
watch of the same path after its first ended. Cookies wrap at 2. `changes` and
`asked` start over with each `Init1`.

**Fairness.** In `ring_liveness`: the thread inside enter and the worker take their next step: both
are threads the OS schedules. The OS makes every parked descriptor ready in the
end; without that a request may rightly stay parked for ever. The caller comes
back to enter with `min_complete` of one or more again and again (enter without
a count neither settles nor waits), its deadlines do not all expire before the
wait has begun, and it reads the CQ; all three are strong fairness, as the
caller does other things in between. A caller without a deadline asks for no
more than what it has submitted can answer.

In `backends` the program goes on waiting on the ring, whatever else it does in
between (strong fairness of `Wait`), and finishes what it began (`Park`,
`Retry`, `Collect`: weak). The serial queue is first in, first out: no source
keeps another, or the barrier that `dsp_wait` puts in the queue, out for ever
(strong, for each handler and for `Barrier`), and a handler ends. A thread that
has unlocked goes on to signal. Nothing is assumed of peers, of other ops or of
the kernel's memory. In `watch` the caller goes on reading (weak fairness of its
own steps) until it closes the instance, which it never need do.

## What is found

- **Lost wakeup** (`ring_lost_wakeup`). enter's loop runs `process_queue` and
  then `settle_worker_ticket`. The wait before it drained the worker's poke, so
  when the settle releases the queue and the count is still short, enter sleeps
  with work to do and nobody to wake it. Two SQEs are enough: a linked OPENAT of
  a FIFO and a NOP, `enter(2, 2)`.
- **Ticket before post** (`ring_ticket_early`). The ticket and the post are two
  lock sections, so the op behind a settled ticket need not be posted, and a
  chain's CQEs can come out of order.
- **MSG_RING in a chain** (no run). A message that is refused does not set
  `chain_failed` (`slipstream_engine.c:359`), so its chain goes on.
- **Cancel of a queued linked op** (`ring_cancel_queued`). The chain it marks
  failed is whatever comes next.
- **CANCEL_ALL at the worker's queue** (`worker_cancel_all`). The walk unlocks to
  post a target and goes on from the link it had, which may be inside an op the
  worker has freed since. With a queue of X and T, of which T is named, it then
  follows the free list from X to T and answers T again. Without CANCEL_ALL the
  walk ends at its target, and the same instance shows no violation.
- **Buffer of a dropped emission** (`buffer_dropped`). `slip_engine_emit` counts
  an emission it has no place for in `overflow` and forgets it. If a multishot
  receive had put a provided buffer in it, the buffer is in nobody's hands any
  more, where the comment on `bufring_unget` (`engine_posix.c:63`) wants no entry
  taken without a CQE. `slip_engine_post` does the same under
  IOSQE_CQE_SKIP_SUCCESS (`slipstream_engine.c:217`), whatever the room:
  `EachBufferAccounted` counts both, and `NoBufferLost` assumes neither.
- **Descriptor of a dropped emission** (no run). What a multishot accept has
  accepted leaks when its emission is dropped (`engine_posix.c:268`), or when an
  accept or socket op with IOSQE_CQE_SKIP_SUCCESS names no slot.
  `EachDescriptorOnce` says that descriptors leak in no other way.
- **No slot is replaced** (no run). The header says that "an occupied explicit slot
  is replaced and the old descriptor closed, the kernel's update semantics"
  (`engine_internal.h:233-236`); `slip_fixed_install` answers -EBUSY, "refused until
  someone needs it" (`slipstream_engine.c:277-280`). `NoneReplaced` states the
  second.
- **Direct open** (no run). The comment at `engine_posix.c:73-75` counts open among
  the ops that may put their descriptor into the table; the worker runs `openat`
  without looking at `file_index` (`engine_posix.c:773` and `:813`), and the caller
  gets a plain number.
- **-EALREADY is never given** (no run). `cancel_matching` gives it while
  `blocking` names an op (`engine_posix.c:1004`), but a cancel only runs while `blocking`
  is NULL. An op inside the worker is answered -ENOENT like one that is not
  there, where the comment at `engine_posix.c:946-948` and `TASKS.md:179-180` tell
  the two apart. `LinkedRequests` takes any answer of a cancel.

One thing is as the code means it and easily taken for an error: room that appears
between the drain and the second test goes to the completion being placed, ahead
of older ones in the backlog (`slipstream_engine.c:219`). No order is promised
there, and `BacklogInOrder` is about the backlog alone.

The passing runs of the backends and of file watching state what holds; the
following they leave out, because the code does not give it. Each exclusion is
visible in the property that has it.

Backends (`Due`, `ReportedToNobody`, `NewsKnocks`):

- A poll that asks for both directions is filed on the out side only (epoll,
  kqueue, dispatch), so a descriptor that becomes readable and never writable
  does not wake it, or, when another op keeps the in side registered, only by
  chance.
- Once a descriptor that an op is parked on is closed, select fails with EBADF
  on every wait, which is taken for EINTR: all parked ops stall.
- `forget` empties the chains, but the ops stay in `waiting[]` with nobody to
  wake them (`orphan`); cancel and close still find them.
- `dsp_done` takes itself off `live` under the lock and then signals twice
  without it (`engine_dispatch.c:312`); a close that looks between may free the
  semaphores first. The model ends a pool op at its unlock and does not follow
  those two signals past the close.

File watching, on `EVFILT_VNODE`:

- A directory found empty compares as unreadable (`slipstream_inotify.c:299`):
  the last deletion is not reported until something else appears.
- What changes between the first scan and EV_ADD in `add_watch` is in no note
  (`missed`); it comes out with the next change.
- A run of losses that begins when the queue is full to the last byte has no
  overflow record (`gap = "full"`).
- The scan goes by path: an ended watch whose directory was made again is
  scanned in the new one, and `add_watch` of that path answers the old wd.

On Windows:

- A watch of a file survives the file: it says DELETE_SELF and IGNORED, and may
  say them again (`IgnoredOnceLast` leaves file watches out). If its directory
  is removed and made again with the file in it, the watch stays on the old
  handle for good (`GoneIsTold`).
- A completion with no bytes means that changes were dropped; no overflow record
  is made. From the read above, it may hide the end of the watch (`UpMisses`),
  which then `check_gone` finds.
- When the read on the directory above fails, the watch is forgotten without
  DELETE_SELF or IGNORED (`slipstream_inotify.c:954`), though for the watch's own
  read the comment at `:970-971` says "inotify says DELETE_SELF and then IGNORED,
  and forgets the watch". `IgnoredTold` leaves these watches out (`silent`).
- `open_cookie` is the instance's, not the watch's: with a file watched too, or a
  second directory, a rename's second half can carry another rename's cookie.
  `CookiesPair` leaves the first out; the second cannot come up with the one
  directory of `Watch`.

In a part without a model: closing signals can join a pump that sits in a
write to a full pipe (`slipstream_signal.c:285` and `:330`).

## Proofs

Each component's proof has an inductive invariant, `IInv`, and as a rule one
lemma an action. The properties follow from it, for every value of the constants
that the named assumptions allow. TLC finds every invariant used here (`IInv`,
and `HistoryInv`, `Covered`, `Answers` and `CInv` where there is one; for file
watching the five named below) true on the instance of the component's run, so
that none of them holds for want of states.

### Completion queue

`CompletionQueueProofs`, for every pool, every CQ size and every wrap that is a
multiple of it:

- `TypeCorrect`: the state keeps its shape.
- `CqNeverOverrun`: the CQ never holds more than its entries.
- `PoolConserved`: every op is free, in flight, in the hand of the lock's
  holder, or in the backlog, and only in one of them; the backlog holds none
  twice.
- `FifoAcrossTheWrap`: what the caller has read, and what it may read, is what was
  posted, in that order, also where the counters come round.
- `BacklogFifo`: completions wait in the backlog in the order they happened. It
  says nothing of the CQ, which a newer one may enter first.
- `NothingLostOrDoubled`: each completion is with the caller, in the CQ, in the
  backlog, under way, or counted in `overflow`, and in one of these only.

They assume what `CqAssumption` and `WrapAssumption` say: at least one entry, a
pool of as many ops, a wrap of more than that many that the number of entries
divides. The inductive invariant joins the first three with `HandInv`, which
says what the lock's holder has with it: a post or a skip has an op until it is
placed, an emission and a settle have none. Without it, releasing "the op in
hand" could put nothing or somebody's op on the free list. `Written` says that
between the two stores of `post_locked` the entry at the tail holds what is being
posted, and that there is still room for it: the second store publishes that
entry and no other. The bound is inductive only because `CqRoom` is tested under the lock and the one party
without the lock can but make room. `FifoAcrossTheWrap` rests on two facts about
masked counters: counters less than a ring's length apart select different
entries, and a counter that has come round selects the entry it would have
selected anyway.

### Fixed files

`FixedFilesProofs`, for every table size and every set of descriptors:

- `TypeCorrect`: the alloc range lies in the table, the hint not past its end.
- `DescriptorsConserved`: an open descriptor is in one slot, with the caller, on
  its way, or one whose CQE never came, and only in one of these; what they hold
  is open. So leaks are confined to lost CQEs; that there are none is not so.
- `EnfileMeansFull`: the search probes slots of its range only and fails only
  when none of them is free, wherever the hint was left.
- `InstallsReplaceNone`: no step puts a descriptor over another, the header's
  comment notwithstanding.

They assume `FixedAssumption`: tables are not empty, and -1 is no descriptor.
Here the type and the conservation are inductive together: a close is right
because the number it closes is open and in no second place. The search
needs the type alone: `ProbeReachesAll` names, for a slot of the range, the
probe that meets it, its distance from the start or, for a slot before the
start, that distance plus the range's length.

### Buffer rings

`BufferRingProofs`, for every ring, every counter width and every number of
buffers the ring can hold (`BufferAssumption`):

- `TypeCorrect`; `NeverOverrun`: tail is never more than the ring's length ahead
  of head.
- `RewindGivesBack`: `bufring_unget` exposes the buffer that was taken, whatever
  the caller has provided in between.
- `NoBufferTwice`: no buffer is in two places, with or without room for CQEs.
- `BuffersAccounted`: every buffer is in one place, or in none and its CQE never
  came.
- `NoBufferLost`: every buffer is in one place, *if* `CqRoom` is no less than the
  number of buffers and no receive skips its CQE. `buffer_dropped` shows that the
  first condition is needed.

`Apart`, the part of the invariant about places, numbers the buffers in the
ring by their distance from head and not by counter values. So it says the same
before and after a counter wraps, and the masks come in only where one entry is
written or read. That the caller may always provide what it has is a count: the
buffers are no more than the entries, and those it holds are not in the ring.

### Ring engine

`RingEngineProofs`, for every pool, every CQ size and every set of scripts
(`RingAssumption`: a pool of as many ops as the CQ has entries, as setup makes
it):

- `TypeCorrect`.
- `NoOpLostOrTwice`: every op is on the free list or in one queue, hand or
  place, and in only one.
- `StallIsOwned`: a queue that is stopped waits for an op that is somewhere on
  its way, or for a ticket that is up.
- `OneStall`: at most one linked op is pending, and a ticket names it: none is
  left over to release a later stall that has the same op.

The invariant has seven parts. `Types` bounds the variables; `PoolOK` says of
CQ, backlog and free list what posting relies on; `Lists`, that no queue holds
an op twice; `Control`, what the place of each thread says of the op in its hand;
`Apart`, that the homes of ops are disjoint and cover the pool; `Numbered`, that
ops in flight carry different requests, taken and unanswered; `StallInv`, that
the linked op in flight is the one the queue waits for. None is inductive
alone: `Numbered` keeps a post from answering twice but needs `Apart`, `Apart`
needs `PoolOK` for the op that carries an emission and `Control` for the op a
thread holds, and `StallInv` needs both to know that the op behind a ticket is
not pending again under a later request - the comparison of a pointer with an op
that may have been freed and handed out anew.

`RingAnswersProofs`, under the same assumption:

- `EveryAnswerOnce`: a request that ended with a CQE has one final CQE, with the
  caller, in the CQ or in the backlog; any other has none.
- `ChainsInOrder`: a member of a chain begins only when the one before it has
  succeeded.
- `PromiseKept`: the engine implements `LinkedRequests`, step by step.

The first goes by the *line*, the CQ with the backlog behind it: draining does
not change it, so that only posting and reading need an argument. The other two
assume `Orderly` of every script: no refused MSG_RING has the link flag, and no
cancel names a member of a chain submitted after it. These are the two cases
under *What is found* in which the code does break a chain; nothing else is
excluded, and every script of `ring_safety` and `ring_liveness` is orderly. Their
invariant `CInv` adds that requests leave the queue in order, so that at most one
linked request stands at the front: gone from the queue, with its follower still
there. It is in the engine's hand, or awaited, or answered, and if answered then
the chain's standing (`chain_failed`, or the ticket's word while one is up) is
what it ended with. From there `process_queue` runs or cancels the follower.

### Backends

`BackendsProofs`, for every set of ops and descriptors and every backend
(`BackendsAssumption`):

- `TypeCorrect`.
- `WakeupsNameTheirWaiters`: chains hold the parked ops and no other.
- `KernelWatchesWaiters`: the kernel watches for each parked op, `forget`'s
  orphans apart. (select has no chains and no registrations: this and the one
  before are about the other three.)
- `OneSignalPerKnock`, `NewsIsKnocked`: a knock at dispatch's door is one signal,
  owed, raised or taken, and there is a knock whenever something is to collect.
- `NothingRunsFreed`: in a ring that is freed no handler runs or is to run, the
  kernel watches nothing, and no op is out.
- `EachBackendIsAPollSet`: every step is a step of `PollSet` or a stutter.

What makes it inductive is what a row of the table may say (`RowInv`). A row
without waiters may be about a file that is long closed, and may say anything; a
row with waiters covers their sides and lies within what the kernel watches. An
arm that forgets idle rows first (epoll, kqueue) may thus go by the rest, and can
fail only when the kernel is full: for a row with waiters a MOD finds its
registration, as a parked op's descriptor is open (`OpenInv`) and the kernel
drops only what is closed. dispatch keeps its rows exact. `AtTheDoor` says where
a knock is: with a thread that owes the signal, on the semaphore, or with the
waiter coming in. `EndInv` follows the close: ops first, then sources, then the
pool and its handlers. `BackendsAssumption` also says that `Nothing`, the mark for an
empty place, is neither a request nor a handler.

### File watching

`WatchProofs`, for both arms, every set of names and inodes, every size of the
queue, of the caller's buffer and of the kernel's, every number of watches
(`WatchAssumption`: no name twice in a directory, `None` is nothing else, cookies
wrap at two or later):

- `TypeCorrect`: with it, that `qlen` is the size of what is queued and never
  more than the maximum.
- `LossTold`: what is lost is announced, or the queue was full to the last byte.
- `EndTold`: IGNORED comes for every watch that is forgotten, unless the queue had
  no room or the read on the directory above failed.
- `EndOnceLast`: it comes once, and no record of the watch after it, a file's
  watch on Windows apart.
- `UpToDateAtRest`: a look that takes one name after the other misses nothing
  that no note tells of, but for an emptied directory and for a change between
  the first look and EV_ADD.
- `ListingRetold`: unless records or notifications were lost, the records still
  to be read make of the caller's listing the one the arm last saw, and on
  Windows, with what the kernel still holds, the one that is there.
- `HalvesTogether`: the halves of a rename are neighbours with one cookie; on
  Windows when only the directory is watched.

Nearly every step here is a fold: over the names of a directory, the records of a
call, the notifications of a completion, the watches that are gone. What a fold
keeps is what its step keeps, and that is an induction over the sequence.
The provers take no operator for a parameter, so the lemmas are stated for a fold
whose step is a function (`Folded`), the induction for a set of sequences
(`SeqInduction`), and every fold of `Watch` is shown to be an instance of it
(`UsedFolds`, `EmitAllFolds`, ...).

The invariants; the later ones rest on `TypeInv`, `ListingInv` on `PlaceInv` too
and `PairInv` on `ListingInv`:

- `TypeInv`: types, and what each phase of the caller's thread leaves empty.
- `PlaceInv`: where the records of a watch are. No record is of a watch that
  never was, a watch in the table has no IGNORED behind it, none of its records
  follows IGNORED, and a watch that is neither in the table nor told of has lost
  records or ended silently. Without the first, the next wd could have records already.
- `LookInv`: a look under way. A name that it has passed is as it was found, or
  the watch has a note of a change since, so that another look will follow.
- `ListingInv`: the listing. `Differences` makes of the names it had the names it
  found, in three passes: what stayed keeps the listing, each name that left is
  taken out and what it was renamed to put in, each that is new and not yet
  landed on is put in (`StaysRetold`, `LeavesRetold`, `ArrivesRetold`). On
  Windows a notification does to the listing what the record it becomes will do,
  and a read with nothing completed has nothing held.
- `PairInv`: the halves of a rename. In the queue they are neighbours, in the
  notifications of a completion too, and a completion begins with a second half
  only if the first is the last record queued and the instance's open cookie is
  its cookie. This is where one watch of the one directory is needed: with a file
  watched too its translation would come between them.

### Only model-checked

- Liveness: `EveryCompletionReaped`, `EveryRequestAnswered`, `ReadyIsAnswered`,
  `QuietsDown`, `GoneIsTold`. Fairness goes through ENABLED, which TLAPS does not
  treat.
- `WorkerQueue`, which is there for what goes wrong.

## Plan

1. `RingPair`: MSG_RING between two rings, close while a message is on its way,
   close with ops parked, queued and at the worker.

## What is not modelled

- The contents of buffers, addresses, and results beyond success and failure;
  what single opcodes do in `slip_posix_try` beyond how they end.
- Setup, mmap and close of a ring, and of register what is not about files and
  buffer rings; what becomes of an op that was parked with a fixed file whose
  slot is closed under it, which the code leaves to the caller.
- The failure of thread creation, which `ThreadStarts` allows for but no run
  turns on.
- Backends: more than 64 events in one wait, POLLPRI, duplicated descriptors,
  failed allocations, a multishot op that parks itself again, the slices a
  dispatch_io channel delivers. While the ring is open, cancel handlers of
  stopped sources are not followed; those still to run when it closes are any
  set.
- Watches: sub-directories (IN_ISDIR and the names remembered for it), moving a
  watched directory, ATTRIB (which takes the path of MODIFY), hard links, more
  than 32 kevents at once, failures of open and of allocation. Completions of
  different watches come in any order, where the port keeps theirs. A handle that
  GetFileInformationByHandleEx cannot ask (`check_gone` then goes by the name
  alone). On Linux
  the calls pass through to inotify, elsewhere they answer ENOSYS: neither has
  state.
- iocp: completions come from the OS rather than from a retry, and the code is
  the calls; what Windows makes of them would be most of a model.
- Signals: one flag, one pipe, one thread; the deadlock above is plain to see in
  the text and the rest is the OS's.
- The syscall switch, temporary files, thread wrappers and the mruby glue keep
  no state of interest.
