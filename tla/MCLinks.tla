------------------------------- MODULE MCLinks -------------------------------
(***************************************************************************)
(* A small instance of Links for TLC: two links of one workspace and one   *)
(* of another.                                                             *)
(***************************************************************************)
EXTENDS Links, TLC

CONSTANTS here, there, w1, w2, m1

HomeOf == [ l \in Link |-> IF l < 3 THEN here ELSE there ]

Workers == Permutations(Worker)

===============================================================================
