---------------------------- MODULE MCActivation ----------------------------
(* Activation with processes and contents that TLC may exchange. *)
EXTENDS Activation, TLC

Symmetry == Permutations(Procs) \cup Permutations(Contents)

=============================================================================
