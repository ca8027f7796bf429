-------------------------------- MODULE Table --------------------------------
(***************************************************************************)
(* One PostgreSQL table under READ COMMITTED, as the repositories use it.  *)
(* A row has the version the last commit left (rows) and, while a session  *)
(* holds its row lock, the version that session has written and not yet    *)
(* committed (draft).  Null is a row that does not exist.                  *)
(*                                                                         *)
(* External: the database is not in the repository.  No engine option sets *)
(* an isolation level, so every session runs at PostgreSQL's default.      *)
(***************************************************************************)
CONSTANTS Id, Session, Null
VARIABLES rows, draft, lock

Empty ==
  /\ rows  = [ id \in Id |-> Null ]
  /\ draft = [ id \in Id |-> Null ]
  /\ lock  = [ id \in Id |-> Null ]

\* What a statement of session s reads: its own writes, else what is committed.
Seen(s, id) == IF lock[id] = s THEN draft[id] ELSE rows[id]

\* s may write the row without waiting for another session's transaction.
Lockable(s, id) == lock[id] \in { s, Null }

\* s writes new[id] to each of ids and holds their locks until it ends.
Put(s, ids, new) ==
  /\ draft' = [ id \in Id |-> IF id \in ids THEN new[id] ELSE draft[id] ]
  /\ lock'  = [ id \in Id |-> IF id \in ids THEN s ELSE lock[id] ]
  /\ UNCHANGED rows

Unlock(s) ==
  /\ draft' = [ id \in Id |-> IF lock[id] = s THEN Null ELSE draft[id] ]
  /\ lock'  = [ id \in Id |-> IF lock[id] = s THEN Null ELSE lock[id] ]

Commit(s) ==
  /\ rows' = [ id \in Id |-> IF lock[id] = s THEN draft[id] ELSE rows[id] ]
  /\ Unlock(s)

Rollback(s) ==
  /\ Unlock(s)
  /\ UNCHANGED rows

==============================================================================
