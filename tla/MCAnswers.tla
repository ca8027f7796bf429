----------------------------- MODULE MCAnswers -----------------------------
(* Instances of Answers for the model checker. *)
EXTENDS Answers, TLC

Symmetry == Permutations(Worker)

============================================================================
