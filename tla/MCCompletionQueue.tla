-------------------------- MODULE MCCompletionQueue --------------------------
(* CompletionQueue on a small instance.                                     *)
EXTENDS CompletionQueue, TLC

=============================================================================
