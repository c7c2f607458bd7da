----------------------------- MODULE MCOutbound -----------------------------
(* Instances of Outbound for TLC. *)
EXTENDS Outbound, TLC

Symmetry == Permutations(Task) \cup Permutations(Target)
=============================================================================
