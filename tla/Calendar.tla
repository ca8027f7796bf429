------------------------------- MODULE Calendar -------------------------------
(***************************************************************************)
(* What the reservation table promises the rest of the system, with no     *)
(* transaction, lock or hold in sight: a set of exclusive claims.  A step  *)
(* gives some claims back and makes new ones, all of them in the same      *)
(* window, one on each of the resources that it needs; a claim is never    *)
(* edited, and one that was given back never returns.                      *)
(***************************************************************************)
EXTENDS Integers

CONSTANTS RowId, Resource
VARIABLES claims, spent

Overlap(a, b) == a.start < b.end /\ b.start < a.end

Disjoint(S) ==
  \A c, d \in S : c # d /\ c.resource = d.resource => ~Overlap(c.window, d.window)

Ids(S) == { c.id : c \in S }

Init == claims = {} /\ spent = {}

\* One step of the calendar, seen from its two states.
Change ==
  LET made == claims' \ claims
      gone == claims \ claims'
  IN  /\ Ids(made) \cap (spent \cup Ids(claims)) = {}
      /\ \A c, d \in made : c.window = d.window /\ (c.resource = d.resource => c = d)
      /\ Disjoint(claims')
      /\ spent' = spent \cup Ids(gone)

Next == Change

Spec == Init /\ [][Next]_<< claims, spent >>

==============================================================================
