----------------------------- MODULE MCWorkerQueue -----------------------------
(* WorkerQueue on a pool of four ops.                                         *)
EXTENDS WorkerQueue

CONSTANTS o1, o2, o3, o4
MCPool == <<o1, o2, o3, o4>>
=============================================================================
