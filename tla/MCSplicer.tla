----------------------------- MODULE MCSplicer -----------------------------
(* Instances of KernelSplicer for TLC. *)
EXTENDS SplicerInv, TLC

\* The threads of a kind are only compared with each other.
Symmetry == Permutations(Runners) \cup Permutations(Hosts)
=============================================================================
