----------------------------- MODULE MCReplyChain -----------------------------
(* Instances of ReplyChain for TLC. *)
EXTENDS ReplyChain, TLC

Symmetry == Permutations(Task)
=============================================================================
