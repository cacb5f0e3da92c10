-------------------------------- MODULE PollSet --------------------------------
(***************************************************************************)
(* What every readiness backend promises the ring, whichever of them is    *)
(* behind struct eng_backend (src/src/engine_internal.h): a request that   *)
(* would block waits with its descriptor, and leaves only                  *)
(*   - done, at a moment when the descriptor was ready for it,             *)
(*   - refused, when the descriptor could not be watched just then,        *)
(*   - cancelled by the caller, or dropped with the ring.                  *)
(***************************************************************************)
CONSTANTS Op, Fd, Nothing

VARIABLES
  waits,     \* what each request waits for, [fd, want], or Nothing
  last,      \* the answer given in this step, if one was
  rdy,       \* what each descriptor is ready for
  room,      \* the descriptors that could be registered now
  closing    \* the ring is going

vars == <<waits, last, rdy, room, closing>>

IsReady(q) == q.want \cap rdy[q.fd] # {} \/ "err" \in rdy[q.fd]

Init ==
  /\ waits = [o \in Op |-> Nothing]
  /\ last = "none"
  /\ rdy = [f \in Fd |-> {}]
  /\ room \subseteq Fd
  /\ closing = FALSE

\* A request that was tried and would block.
Park(o, q) ==
  /\ waits[o] = Nothing
  /\ closing = FALSE
  /\ ~IsReady(q)
  /\ waits' = [waits EXCEPT ![o] = q]
  /\ last' = "none"
  /\ UNCHANGED <<rdy, room, closing>>

Leave(o, answer) ==
  /\ waits[o] # Nothing
  /\ waits' = [waits EXCEPT ![o] = Nothing]
  /\ last' = answer
  /\ UNCHANGED closing

\* Its operation went through, and may have used up what it waited for.
Answer(o) ==
  /\ Leave(o, "ok")
  /\ IsReady(waits[o])
  /\ rdy'[waits[o].fd] \subseteq rdy[waits[o].fd]
  /\ \A f \in Fd \ {waits[o].fd} : rdy'[f] = rdy[f]

Refuse(o) ==
  /\ Leave(o, "ebusy")
  /\ waits[o].fd \notin room
  /\ UNCHANGED rdy

Cancel(o) ==
  /\ Leave(o, "ecanceled")
  /\ UNCHANGED rdy

CloseRing ==
  /\ ~closing /\ closing'
  /\ waits' = [o \in Op |-> Nothing]
  /\ last' = "none"

\* Peers, and the program that opens and closes descriptors.
World == last' = "none" /\ UNCHANGED <<waits, closing>>

Next ==
  \/ \E o \in Op : Answer(o) \/ Refuse(o) \/ Cancel(o)
  \/ \E o \in Op, f \in Fd, w \in SUBSET {"in", "out"} : Park(o, [fd |-> f, want |-> w])
  \/ CloseRing
  \/ World

Spec == Init /\ [][Next]_vars
=============================================================================
