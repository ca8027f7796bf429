---------------------------- MODULE MCInterviews ----------------------------
(* Instances of Interviews for the model checker. *)
EXTENDS Interviews, TLC

Symmetry == Permutations(Tab)

=============================================================================
