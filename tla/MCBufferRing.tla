----------------------------- MODULE MCBufferRing -----------------------------
(* BufferRing on a small instance.                                          *)
EXTENDS BufferRing, TLC

BidSymmetry == Permutations(Bid)
=============================================================================
