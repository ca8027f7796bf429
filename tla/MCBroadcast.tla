----------------------------- MODULE MCBroadcast -----------------------------
(***************************************************************************)
(* Small instances of Broadcast for TLC.                                   *)
(***************************************************************************)
EXTENDS Broadcast

CONSTANTS w1, w2, d1, h1

==============================================================================
