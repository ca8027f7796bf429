------------------------------- MODULE MCInbox -------------------------------
(***************************************************************************)
(* Small instances of Inbox for TLC: one conversation.                     *)
(***************************************************************************)
EXTENDS Inbox

CONSTANTS s1, s2, h1, h2, r1, d1, t1, m1, m2

OneThread == [ m \in Msg |-> t1 ]

==============================================================================
