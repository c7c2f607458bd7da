----------------------------- MODULE MCLoopGuard -----------------------------
(* Instances of LoopGuard for TLC. *)
EXTENDS LoopGuard, TLC

Symmetry == Permutations(Msg)
=============================================================================
