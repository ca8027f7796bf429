------------------------------ MODULE MCBooking ------------------------------
(***************************************************************************)
(* Small instances of Booking for TLC: services, resource teams, and who   *)
(* performs which operations.                                              *)
(***************************************************************************)
EXTENDS Booking

CONSTANTS p1, p2, x1, x2, short, long, k1

\* The short service takes one slot; the long one takes two and a buffer.
MCDuration == [ s \in Service |-> IF s = short THEN 1 ELSE 2 ]
MCBefore   == [ s \in Service |-> 0 ]
MCAfter    == [ s \in Service |-> IF s = short THEN 0 ELSE 1 ]

\* One role any resource fills; one role for each resource.
Either == [ s \in Service |-> { {x} : x \in Resource } ]
Both   == [ s \in Service |-> { Resource } ]

FrontDesk == [ p \in Proc |-> IF p = p1
                 THEN { "book", "confirm", "drop", "transition", "reschedule", "details" }
                 ELSE { "hold", "book", "confirm", "drop" } ]
Everyone  == [ p \in Proc |-> IF p = p1 THEN { "book", "hold", "transition" }
                                        ELSE { "reschedule", "sweep" } ]

TwoEach == [ p \in Proc |-> 2 ]
FewEach == [ p \in Proc |-> IF p = p1 THEN 2 ELSE 1 ]

==============================================================================
