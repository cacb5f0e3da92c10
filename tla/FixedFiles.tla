------------------------------ MODULE FixedFiles ------------------------------
(***************************************************************************)
(* The fixed file table of a ring (src/src/slipstream_engine.c): slots     *)
(* that hold real descriptors, the range from which an op that asks for    *)
(* "any slot" gets one, and the hint where the next search of that range   *)
(* begins.  The ops that make descriptors put them in or hand them to the  *)
(* caller, and close what the table refuses (install_direct in             *)
(* src/src/engine_posix.c); a direct close takes one out.  What an op did  *)
(* with its descriptor it says in a CQE, and that one may never come: an   *)
(* emission of a multishot accept is dropped when the CQ is full and the   *)
(* pool empty, and an op with IOSQE_CQE_SKIP_SUCCESS posts none.           *)
(*                                                                         *)
(* All of it runs on the engine's thread, one op at a time: the hazards    *)
(* are in long sequences of legal calls, above all a hint left behind by   *)
(* an earlier range.                                                       *)
(***************************************************************************)
EXTENDS Integers

CONSTANTS
  Fd,        \* descriptor numbers the OS may hand out
  MaxSlots,  \* bound: the largest table registered
  Empty      \* -1: a slot that holds nothing

ASSUME FixedAssumption == MaxSlots \in Nat \ {0} /\ Empty \notin Fd

VARIABLES
  n,         \* fixed_n, 0 while no table is registered
  fixed,     \* the slots
  off, len,  \* alloc_off, alloc_len
  hint,      \* alloc_hint
  open,      \* descriptors open in the process
  held,      \* those of them whose number the caller was given
  fresh,     \* the one an op has just made, Empty otherwise
  leaked     \* history: descriptors whose number was in a CQE that never came

vars == <<n, fixed, off, len, hint, open, held, fresh, leaked>>

Registered == n > 0
End == off + len
Idle == fresh = Empty
InRange(s) == off <= s /\ s < End
Free(s) == fixed[s] = Empty

Init ==
  /\ n = 0 /\ fixed = [s \in {} |-> Empty]
  /\ off = 0 /\ len = 0 /\ hint = 0
  /\ open = {} /\ held = {} /\ fresh = Empty /\ leaked = {}

-----------------------------------------------------------------------------
\* IORING_REGISTER_FILES2, sparse.
RegisterFiles(k) ==
  /\ Idle
  /\ ~Registered
  /\ n' = k
  /\ fixed' = [s \in 0..(k - 1) |-> Empty]
  /\ off' = 0 /\ len' = k /\ hint' = 0
  /\ UNCHANGED <<open, held, fresh, leaked>>

InTable == {fixed[s] : s \in DOMAIN fixed} \ {Empty}

\* IORING_UNREGISTER_FILES, and what slipstream_engine_close does of it.
UnregisterFiles ==
  /\ Idle
  /\ Registered
  /\ open' = open \ InTable
  /\ n' = 0 /\ fixed' = [s \in {} |-> Empty]
  /\ off' = 0 /\ len' = 0 /\ hint' = 0
  /\ UNCHANGED <<held, fresh, leaked>>

\* Mutant of AllocRange: the table's end is not looked at.
AllocRangePastEnd(o, l) ==
  /\ Idle
  /\ Registered
  /\ off' = o /\ len' = l /\ hint' = o
  /\ UNCHANGED <<n, fixed, open, held, fresh, leaked>>

\* IORING_REGISTER_FILE_ALLOC_RANGE: an empty range is accepted too.
AllocRange(o, l) ==
  /\ Idle
  /\ Registered
  /\ o <= n /\ l <= n - o
  /\ off' = o /\ len' = l /\ hint' = o
  /\ UNCHANGED <<n, fixed, open, held, fresh, leaked>>

(***************************************************************************)
(* slip_fixed_install with IORING_FILE_INDEX_ALLOC probes len slots, from  *)
(* the hint or, if that is not in the range, from the range's beginning,   *)
(* and goes back to the beginning at the range's end.                      *)
(***************************************************************************)
Start == IF InRange(hint) THEN hint ELSE off

\* Mutant of Probe: past the end the search goes on from slot 0.
ProbeFromZero(t) == IF Start + t < End THEN Start + t ELSE Start + t - End

\* The slot probed after t others, t < len: the search comes round once.
Probe(t) == IF Start + t < End THEN Start + t ELSE Start + t - len

Hits == {t \in 0..(len - 1) : Free(Probe(t))}

\* An op (accept, once or multishot, and socket) has made a descriptor; what
\* becomes of it is next.  Open makes some too, but its file_index is not read.
Make(fd) ==
  /\ Idle
  /\ fd \notin open
  /\ open' = open \cup {fd}
  /\ fresh' = fd
  /\ UNCHANGED <<n, fixed, off, len, hint, held, leaked>>

Place(s) ==
  /\ fixed' = [fixed EXCEPT ![s] = fresh]
  /\ fresh' = Empty
  /\ UNCHANGED <<n, off, len, open, held, leaked>>

\* The op asked for any slot.
InstallAlloc ==
  /\ ~Idle
  /\ Registered
  /\ \E t \in Hits :
       /\ \A u \in Hits : t <= u
       /\ Place(Probe(t))
       /\ hint' = Probe(t) + 1

\* Mutant of InstallNamed: an occupied slot is taken over.
InstallNamedOver(s) ==
  /\ ~Idle
  /\ s \in DOMAIN fixed
  /\ Place(s)
  /\ UNCHANGED hint

\* The op named slot s.  The hint stays, though it may be the slot just taken.
InstallNamed(s) ==
  /\ ~Idle
  /\ s \in DOMAIN fixed
  /\ Free(s)
  /\ Place(s)
  /\ UNCHANGED hint

CloseFresh ==
  /\ ~Idle
  /\ open' = open \ {fresh}
  /\ fresh' = Empty
  /\ UNCHANGED <<n, fixed, off, len, hint, held, leaked>>

\* install_direct closes what the table does not take: -ENXIO without a table,
\* -ENFILE with the range full,
RefuseAlloc ==
  /\ Registered => Hits = {}
  /\ CloseFresh

\* -EBADF for a slot past the table, -EBUSY for an occupied one.
RefuseNamed(s) ==
  /\ s \in DOMAIN fixed => ~Free(s)
  /\ CloseFresh

\* The op has no file_index: its answer is the number.
HandOver ==
  /\ ~Idle
  /\ held' = held \cup {fresh}
  /\ fresh' = Empty
  /\ UNCHANGED <<n, fixed, off, len, hint, open, leaked>>

\* Or would be, but the CQE never comes: slip_engine_emit found neither room nor a
\* carrier, or slip_engine_post a success that is to be skipped.  Nobody closes
\* the descriptor.  (The number of a slot may be lost the same way; what is in
\* the slot unregister still closes.)
AnswerLost ==
  /\ ~Idle
  /\ leaked' = leaked \cup {fresh}
  /\ fresh' = Empty
  /\ UNCHANGED <<n, fixed, off, len, hint, open, held>>

\* Mutant of CloseDirect: the slot keeps the descriptor that was closed.
CloseDirectKeeps(s) ==
  /\ Idle
  /\ s \in DOMAIN fixed
  /\ ~Free(s)
  /\ open' = open \ {fixed[s]}
  /\ hint' = IF off <= s /\ s < hint THEN s ELSE hint
  /\ UNCHANGED <<n, fixed, off, len, held, fresh, leaked>>

\* IORING_OP_CLOSE of a slot: looked up, cleared (slip_fixed_clear), closed.
CloseDirect(s) ==
  /\ Idle
  /\ s \in DOMAIN fixed
  /\ ~Free(s)
  /\ fixed' = [fixed EXCEPT ![s] = Empty]
  /\ open' = open \ {fixed[s]}
  /\ hint' = IF off <= s /\ s < hint THEN s ELSE hint
  /\ UNCHANGED <<n, off, len, held, fresh, leaked>>

\* IORING_OP_CLOSE of a descriptor the caller holds.
ClosePlain(fd) ==
  /\ Idle
  /\ fd \in held
  /\ held' = held \ {fd}
  /\ open' = open \ {fd}
  /\ UNCHANGED <<n, fixed, off, len, hint, fresh, leaked>>

Next ==
  \/ \E k \in 1..MaxSlots : RegisterFiles(k)
  \/ UnregisterFiles
  \/ \E o, l \in 0..MaxSlots : AllocRange(o, l)
  \/ \E fd \in Fd : Make(fd) \/ ClosePlain(fd)
  \/ InstallAlloc \/ RefuseAlloc \/ HandOver \/ AnswerLost
  \/ \E s \in 0..MaxSlots : InstallNamed(s) \/ RefuseNamed(s) \/ CloseDirect(s)

Spec == Init /\ [][Next]_vars

-----------------------------------------------------------------------------
(***************************************************************************)
(* The shape of the table, and that the alloc range lies within it: every  *)
(* probe of slip_fixed_install reads a slot that exists.                   *)
(***************************************************************************)
TypeOK ==
  /\ n \in 0..MaxSlots
  /\ fixed \in [0..(n - 1) -> Fd \cup {Empty}]
  /\ off \in Nat /\ len \in Nat /\ off + len <= n
  /\ hint \in 0..n
  /\ open \subseteq Fd
  /\ held \subseteq Fd
  /\ fresh \in Fd \cup {Empty}
  /\ leaked \subseteq Fd

(***************************************************************************)
(* An open descriptor is in one slot, with the caller or on its way from   *)
(* the op that made it, or it is one of those whose CQE never came, and it *)
(* is in no second place; and what they hold is open.  So a descriptor     *)
(* leaks with its CQE and in no other way, and none is closed twice - the  *)
(* second close would hit whoever got the number since (install_direct,    *)
(* the close ops, unregister).                                             *)
(***************************************************************************)
Fresh == {fresh} \ {Empty}

EachDescriptorOnce ==
  /\ open = InTable \cup held \cup Fresh \cup leaked
  /\ InTable \cap held = {}
  /\ Fresh \cap (InTable \cup held) = {}
  /\ leaked \cap (InTable \cup held \cup Fresh) = {}
  /\ \A s, t \in DOMAIN fixed : s # t /\ ~Free(s) => fixed[s] # fixed[t]

(***************************************************************************)
(* "The alloc range is full - the kernel's word": the search fails only    *)
(* when no slot of the range is free, and finds one of the range else,     *)
(* wherever the hint has been left.                                        *)
(***************************************************************************)
SearchIsComplete ==
  /\ \A t \in 0..(len - 1) : InRange(Probe(t))
  /\ (\E s \in DOMAIN fixed : InRange(s) /\ Free(s)) => Hits # {}

(***************************************************************************)
(* A slot changes hands only by being emptied first: slip_fixed_install    *)
(* refuses an occupied one with -EBUSY, and so never drops the descriptor  *)
(* in it, which it could not close.  The comment at the head of            *)
(* slip_fixed_install (src/src/engine_internal.h:233) promises otherwise:  *)
(* "an occupied explicit slot is replaced and the old descriptor closed".  *)
(* The code does not keep that promise; this is what it does instead.      *)
(***************************************************************************)
NoneReplaced ==
  [][\A s \in DOMAIN fixed \cap DOMAIN fixed' :
       ~Free(s) => fixed'[s] \in {fixed[s], Empty}]_vars
=============================================================================
