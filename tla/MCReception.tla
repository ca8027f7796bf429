----------------------------- MODULE MCReception -----------------------------
(***************************************************************************)
(* Small instances of Reception for TLC.                                   *)
(***************************************************************************)
EXTENDS Reception, TLC

CONSTANTS r1, r2, checkup, cleaning, phone, k1, k2, a1, a2

\* The customer picks the first of the list, the model passes an exact time, or
\* the call leaves the slot to what was chosen before.
Asks ==
  { [ option |-> 1, starts_at |-> None, service_id |-> None ],
    [ option |-> 0, starts_at |-> 2, service_id |-> None ],
    [ option |-> 0, starts_at |-> None, service_id |-> None ] }

Symmetries ==
  Permutations(Run) \cup Permutations(Service) \cup Permutations(Token) \cup Permutations(Appointment)

===============================================================================
