------------------------------ MODULE MCPlans ------------------------------
(* Instances of Plans for the model checker. *)
EXTENDS Plans

PaidTiers == { "starter", "growth" }

============================================================================
