----------------------------- MODULE MCFixedFiles -----------------------------
(* FixedFiles on a small instance.                                          *)
EXTENDS FixedFiles, TLC

FdSymmetry == Permutations(Fd)
=============================================================================
