----------------------------- MODULE MCRingEngine -----------------------------
(* RingEngine on small instances: what the caller submits.                    *)
EXTENDS RingEngine

OpSymmetry == Permutations(Op)

Plain(k) == [kind |-> k, link |-> FALSE, skip |-> FALSE, names |-> {}, all |-> FALSE]
Link(s) == [s EXCEPT !.link = TRUE]
Skip(s) == [s EXCEPT !.skip = TRUE]
Cancel(ns, all) == [Plain("cancel") EXCEPT !.names = ns, !.all = all]

\* Chains: a failing, a succeeding, a parking head; flags as in parity.c.
SafetyScripts ==
  { <<Link(Plain("io")), Link(Plain("io")), Plain("nop")>>,
    <<Link(Skip(Plain("io"))), Link(Plain("nop")), Skip(Plain("nop")), Plain("nop")>>,
    <<Link(Plain("file")), Link(Plain("io")), Plain("nop")>>,
    <<Link(Skip(Plain("file"))), Plain("file"), Plain("io")>>,
    <<Plain("file"), Link(Plain("file")), Plain("file")>>,
    <<Plain("multi"), Link(Plain("bad")), Plain("nop"), Plain("nop")>>,
    <<Plain("io"), Plain("file"), Cancel({1, 2}, TRUE), Plain("msg")>>,
    <<Plain("io"), Cancel({1, 3}, FALSE), Plain("nop")>>,
    <<Link(Plain("msg")), Plain("badmsg"), Link(Cancel({9}, FALSE)), Plain("nop")>> }

\* Without a linked op for the worker, which enter may sleep through.
LivenessScripts ==
  { <<Link(Plain("io")), Plain("nop"), Plain("file")>>,
    <<Plain("file"), Link(Skip(Plain("io"))), Plain("nop")>>,
    <<Plain("multi"), Plain("file"), Cancel({1, 2}, TRUE)>> }

\* Linked ops at the head of a chain, run by the worker.
WorkerChains ==
  { <<Link(Plain("file")), Plain("nop")>>, <<Link(Plain("file")), Link(Plain("io")), Plain("nop")>> }

\* A cancel that reaches a linked op still queued, past an op it does not name.
QueuedCancels == { <<Cancel({3}, FALSE), Plain("io"), Link(Plain("nop")), Plain("nop")>> }
=============================================================================
