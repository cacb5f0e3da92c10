------------------------------ MODULE BufferRing ------------------------------
(***************************************************************************)
(* One provided-buffer ring (IORING_REGISTER_PBUF_RING): the entries and   *)
(* the tail live in the caller's memory, the engine keeps a head           *)
(* (bufring_take and bufring_unget in src/src/engine_posix.c, struct       *)
(* slip_bufring in src/src/engine_internal.h).  Both are free-running      *)
(* 16-bit counters, masked on use.                                         *)
(*                                                                         *)
(* A receive takes a buffer before it knows that anything will come.  If   *)
(* nothing does, the buffer goes back by rewinding the head, while the     *)
(* caller may be adding buffers at the tail from another thread.  If       *)
(* something does, the buffer travels in a CQE, and comes back when the    *)
(* caller has read it - if there is a CQE: an emission of a multishot      *)
(* receive needs room in the CQ or a carrier from the pool                 *)
(* (slip_engine_emit), and a completion that succeeds under                *)
(* IOSQE_CQE_SKIP_SUCCESS posts nothing (slip_engine_post).                *)
(***************************************************************************)
EXTENDS Integers, Sequences, FiniteSets

CONSTANTS
  Bid,      \* the caller's buffers
  Entries,  \* entries of the ring, a power of two
  Wrap,     \* 2^16: where the counters come round
  CqRoom,   \* emissions that CQ and carriers hold before one is dropped
  SkipSuccess,  \* some receives carry IOSQE_CQE_SKIP_SUCCESS
  None      \* no buffer

\* At most 2^15 entries: a full ring must not look like an empty one.
ASSUME BufferAssumption ==
  /\ Entries \in Nat \ {0} /\ Wrap \in Nat
  /\ Wrap % Entries = 0 /\ Wrap > Entries
  /\ IsFiniteSet(Bid) /\ Cardinality(Bid) <= Entries
  /\ CqRoom \in Nat
  /\ SkipSuccess \in BOOLEAN
  /\ None \notin Bid

VARIABLES
  bufs,        \* the entries, in the caller's memory
  head, tail,  \* consumed by the engine, provided by the caller
  hand,        \* the buffer of the receive that is running
  cqes,        \* buffers in CQEs the caller has not read
  caller,      \* buffers the caller may fill and add
  lost         \* history: buffers whose CQE was dropped or skipped

vars == <<bufs, head, tail, hand, cqes, caller, lost>>

SuccNoWrap(c) == c + 1   \* mutant: a counter that does not wrap

Succ(c) == (c + 1) % Wrap
Pred(c) == (c + Wrap - 1) % Wrap
Slot(c) == c % Entries

Init ==
  /\ bufs = [s \in 0..(Entries - 1) |-> None]
  /\ head = 0 /\ tail = 0
  /\ hand = None
  /\ cqes = <<>>
  /\ caller = Bid
  /\ lost = {}

-----------------------------------------------------------------------------
\* The caller adds a buffer: the entry first, then the tail.
Provide(b) ==
  /\ b \in caller
  /\ caller' = caller \ {b}
  /\ bufs' = [bufs EXCEPT ![Slot(tail)] = b]
  /\ tail' = Succ(tail)
  /\ UNCHANGED <<head, hand, cqes, lost>>

\* Mutant of Take: the head moves before the entry is read.
TakeAfter ==
  /\ hand = None
  /\ head # tail
  /\ hand' = bufs[Slot(Succ(head))]
  /\ head' = Succ(head)
  /\ UNCHANGED <<bufs, tail, cqes, caller, lost>>

\* bufring_take.  An empty ring ends the receive with -ENOBUFS.
Take ==
  /\ hand = None
  /\ head # tail
  /\ hand' = bufs[Slot(head)]
  /\ head' = Succ(head)
  /\ UNCHANGED <<bufs, tail, cqes, caller, lost>>

\* Mutant of Unget: the buffer is not given back.
UngetForgotten ==
  /\ hand # None
  /\ hand' = None
  /\ UNCHANGED <<bufs, head, tail, cqes, caller, lost>>

\* bufring_unget: nothing came, or the buffer is too small for a header.
Unget ==
  /\ hand # None
  /\ head' = Pred(head)
  /\ hand' = None
  /\ UNCHANGED <<bufs, tail, cqes, caller, lost>>

\* A multishot receive emits what came: the CQE carries the buffer.
EmitFilled ==
  /\ hand # None
  /\ Len(cqes) < CqRoom
  /\ cqes' = Append(cqes, hand)
  /\ hand' = None
  /\ UNCHANGED <<bufs, head, tail, caller, lost>>

\* Without room and without a carrier the emission is dropped, and the buffer
\* in it with it: the caller is never told.
EmitDropped ==
  /\ hand # None
  /\ Len(cqes) >= CqRoom
  /\ lost' = lost \cup {hand}
  /\ hand' = None
  /\ UNCHANGED <<bufs, head, tail, cqes, caller>>

\* The op's own completion carries the buffer: a single receive, and the end of
\* a multishot recvmsg.  It has its own op to wait in the backlog with.
CompleteFilled ==
  /\ hand # None
  /\ cqes' = Append(cqes, hand)
  /\ hand' = None
  /\ UNCHANGED <<bufs, head, tail, caller, lost>>

\* The same completion of an op with IOSQE_CQE_SKIP_SUCCESS: it succeeded, so
\* nothing is posted, whatever the room.
CompleteSkipped ==
  /\ SkipSuccess
  /\ hand # None
  /\ lost' = lost \cup {hand}
  /\ hand' = None
  /\ UNCHANGED <<bufs, head, tail, cqes, caller>>

\* The caller reads a CQE, and has the buffer back.
ReadCqe ==
  /\ cqes # <<>>
  /\ caller' = caller \cup {Head(cqes)}
  /\ cqes' = Tail(cqes)
  /\ UNCHANGED <<bufs, head, tail, hand, lost>>

\* Offsets of the buffers that wait between head and tail.
Provided == 0..(((tail + Wrap - head) % Wrap) - 1)
WaitingAt(i) == bufs[Slot(head + i)]

\* IORING_UNREGISTER_PBUF_RING and a new registration of the same memory, which
\* the caller initialises again, with every buffer that is in no unread CQE.
Reregister ==
  /\ hand = None
  /\ caller' = caller \cup {WaitingAt(i) : i \in Provided} \cup lost
  /\ lost' = {}
  /\ head' = 0 /\ tail' = 0
  /\ UNCHANGED <<bufs, hand, cqes>>

Next ==
  \/ \E b \in Bid : Provide(b)
  \/ Take \/ Unget
  \/ EmitFilled \/ EmitDropped
  \/ CompleteFilled \/ CompleteSkipped
  \/ ReadCqe
  \/ Reregister

Spec == Init /\ [][Next]_vars

-----------------------------------------------------------------------------
TypeOK ==
  /\ bufs \in [0..(Entries - 1) -> Bid \cup {None}]
  /\ head \in 0..(Wrap - 1) /\ tail \in 0..(Wrap - 1)
  /\ hand \in Bid \cup {None}
  /\ cqes \in Seq(Bid)
  /\ caller \subseteq Bid
  /\ lost \subseteq Bid

(***************************************************************************)
(* How often a buffer is with the caller, provided, being filled, or in a  *)
(* CQE the caller has not read.                                            *)
(***************************************************************************)
Places(b) ==
  (IF b \in caller THEN 1 ELSE 0)
  + Cardinality({i \in Provided : WaitingAt(i) = b})
  + (IF b = hand THEN 1 ELSE 0)
  + Cardinality({i \in DOMAIN cqes : cqes[i] = b})

(***************************************************************************)
(* Every buffer is in one of these places, once, or its CQE never came:    *)
(* take, rewind, wrap and the caller's own writes put none in two places,  *)
(* and only a dropped emission (slip_engine_emit) or a skipped success     *)
(* (slip_engine_post) takes one away - and such a buffer does not turn up  *)
(* again by itself.                                                        *)
(***************************************************************************)
EachBufferAccounted == \A b \in Bid : Places(b) = IF b \in lost THEN 0 ELSE 1

(***************************************************************************)
(* And none is lost to the caller at all: "an entry taken without a CQE    *)
(* would be one the caller never learns to refill" (bufring_unget's        *)
(* comment).  That needs room for a CQE of every buffer, and no receive    *)
(* that skips its CQE.                                                     *)
(***************************************************************************)
EachBufferOnce == \A b \in Bid : Places(b) = 1

(***************************************************************************)
(* Rewinding gives back the very buffer that was taken: the caller cannot  *)
(* have come round to its entry in the meantime.                           *)
(***************************************************************************)
UngetRestores == hand # None => bufs[Slot(Pred(head))] = hand
=============================================================================
