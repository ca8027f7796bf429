----------------------------- MODULE MCReminders -----------------------------
(***************************************************************************)
(* Small instances of Reminders for TLC.                                   *)
(***************************************************************************)
EXTENDS Reminders

CONSTANTS w1, w2, d1, a1, a2

==============================================================================
