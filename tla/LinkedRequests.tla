--------------------------- MODULE LinkedRequests ----------------------------
(***************************************************************************)
(* What a ring promises of the requests it takes, with no queue, worker or *)
(* backend in it: they are taken in order, each is answered at most once,  *)
(* a member of a link chain is answered only after the one before it, and  *)
(* the failure of a member - and nothing else but a cancel that names it - *)
(* cancels what follows in its chain (io_uring_enter(2), IOSQE_IO_LINK;    *)
(* the skip_success scenarios of src/test/parity.c).                       *)
(***************************************************************************)
EXTENDS Naturals, Sequences

VARIABLES
  script,     \* the requests: [link, skip, names, ...]
  taken,      \* how many have been taken
  result,     \* how each was answered, "none" before it is
  delivered   \* the requests whose answer has been put before the caller

vars == <<script, taken, result, delivered>>

Answers == {"ok", "err", "enoent", "ealready", "canceled", "silent", "quiet"}

Succeeded(i) == result[i] \in {"ok", "silent"}

\* i is held back by, and shares the fate of, the request before it.
Follows(i) == i > 1 /\ script[i - 1].link

\* i failed of itself or by a cancel that named it; its followers go with it.
FailedItself(i) ==
  /\ result[i] # "none"
  /\ ~Succeeded(i)
  /\ ~(Follows(i) /\ ~Succeeded(i - 1))

\* How the failure of request i, which others follow, ends them.
FateAfter(i) ==
  IF result[i] = "quiet" \/ (FailedItself(i) /\ script[i].skip) THEN "quiet" ELSE "canceled"

Init ==
  /\ taken = 0
  /\ result = [i \in DOMAIN script |-> "none"]
  /\ delivered = {}

Take ==
  /\ taken < Len(script)
  /\ taken' = taken + 1
  /\ UNCHANGED <<script, result, delivered>>

MayAnswer(i, res) ==
  IF Follows(i) /\ ~Succeeded(i - 1)
  THEN res = FateAfter(i - 1)
  ELSE /\ res # "quiet"
       /\ (res = "silent") <=> (res \in {"ok", "silent"} /\ script[i].skip)
       /\ res = "canceled" => \E c \in 1..taken : i \in script[c].names

Answer(i, res) ==
  /\ i \in 1..taken
  /\ result[i] = "none"
  /\ Follows(i) => result[i - 1] # "none"
  /\ MayAnswer(i, res)
  /\ result' = [result EXCEPT ![i] = res]

\* Answers reach the caller some time after they are given, and stay there.
Deliver ==
  /\ delivered \subseteq delivered'
  /\ \A i \in delivered' : result'[i] \notin {"none", "silent", "quiet"}

Next ==
  \/ Take
  \/ /\ (\E i \in DOMAIN script, res \in Answers : Answer(i, res)) \/ UNCHANGED result
     /\ Deliver
     /\ UNCHANGED <<script, taken>>

Spec == Init /\ [][Next]_vars
=============================================================================
