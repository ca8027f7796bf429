---------------------------- MODULE RemindersProofs ----------------------------
(***************************************************************************)
(* Type correctness of the reminder sweep, the mutual exclusion of its     *)
(* ticks, that only customers who were told are marked, and that every     *)
(* reminder but the first is paid for by a fault or an edit.               *)
(***************************************************************************)
EXTENDS Reminders, FiniteSetTheorems, TLAPS

\* What each process has in its memory at each stage, and what a lock implies.
Shape ==
  /\ \A w \in Worker :
       /\ pc[w] \in { "idle", "list", "next", "send", "mark" }
       /\ pc[w] \in { "send", "mark" } => current[w] \in Appt /\ copy[w] \in Row
  /\ \A d \in Desk :
       /\ pc[d] \in { "idle", "write", "commit" }
       /\ pc[d] # "idle" => current[d] \in Appt /\ copy[d] \in Row
  /\ \A a \in Appt : apptsLock[a] # Null => apptsDraft[a] \in Row

\* A mark on any version of a row, committed, drafted or in a desk's memory,
\* and the intent to mark one, belong to a customer who was told.
Told ==
  /\ \A a \in Phone : apptsLock[a] # Null /\ apptsDraft[a].reminded # Null => told[a] # << >>
  /\ \A d \in Desk : pc[d] # "idle" /\ current[d] \in Phone /\ copy[d].reminded # Null
                       => told[current[d]] # << >>
  /\ \A w \in Worker : pc[w] = "mark" /\ current[w] \in Phone => told[current[w]] # << >>

Inv == TypeOK /\ Shape /\ OneTick /\ Told /\ MarkMeansTold

LEMMA InitInv == Init => Inv
  BY NullAssumption, ConstantAssumption
  DEF Init, Inv, TypeOK, Shape, OneTick, Told, MarkMeansTold, Row, Session, Status

\* The messages a customer has received are never taken back.
LEMMA TellGrows ==
  ASSUME TypeOK, NEW w \in Worker, current[w] \in Appt, copy[w] \in Row, Tell(w)
  PROVE  /\ told' \in [ Appt -> Seq(Nat) ]
         /\ told'[current[w]] # << >>
         /\ \A a \in Appt : told[a] # << >> => told'[a] # << >>
<1>1. copy[w].start \in Nat
  BY DEF Row
<1>2. \A s \in Seq(Nat), n \in Nat : Append(s, n) \in Seq(Nat) /\ Append(s, n) # << >>
  <2> TAKE s \in Seq(Nat), n \in Nat
  <2>1. Append(s, n) \in Seq(Nat) /\ Len(Append(s, n)) = Len(s) + 1 /\ Len(s) \in Nat
    OBVIOUS
  <2>2. Len(<< >>) = 0
    OBVIOUS
  <2> QED
    BY <2>1, <2>2
<1> QED
  BY <1>1, <1>2 DEF Tell, TypeOK

\* An edit of a row is a row, with the mark it had.
LEMMA EditionsType ==
  ASSUME NEW u \in Row, NEW v \in Editions(u)
  PROVE  v \in Row /\ v.reminded = u.reminded
<1>1. CASE v = u
  BY <1>1
<1>2. ASSUME NEW s \in Status, v = [ u EXCEPT !.status = s ]
      PROVE  v \in Row /\ v.reminded = u.reminded
  BY <1>2 DEF Row
<1>3. ASSUME NEW s \in Nat, v = [ u EXCEPT !.start = s ]
      PROVE  v \in Row /\ v.reminded = u.reminded
  BY <1>3 DEF Row
<1> QED
  BY <1>1, <1>2, <1>3, ConstantAssumption DEF Editions

\* The type invariant is preserved.
LEMMA TypeStep == Inv /\ [Next]_vars => TypeOK'
<1> SUFFICES ASSUME Inv, [Next]_vars PROVE TypeOK'
  OBVIOUS
<1> USE NullAssumption, ConstantAssumption
<1>1. ASSUME NEW w \in Worker, Wake(w) PROVE TypeOK'
  BY <1>1 DEF Wake, Inv, TypeOK, Goto, table, Session
<1>2. ASSUME NEW w \in Worker, List(w) PROVE TypeOK'
  <2>1. PICK B \in SUBSET Appt :
          batch' = [ batch EXCEPT ![w] = { << a, appts[a] >> : a \in B } ]
    BY <1>2 DEF List
  <2>2. { << a, appts[a] >> : a \in B } \subseteq Appt \X Row
    BY DEF Inv, TypeOK
  <2> QED
    BY <1>2, <2>1, <2>2 DEF List, Inv, TypeOK, Goto, table, Session
<1>3. ASSUME NEW w \in Worker, Take(w) PROVE TypeOK'
  <2>1. PICK e \in batch[w] : /\ batch' = [ batch EXCEPT ![w] = @ \ {e} ]
                              /\ Hold(w, e[1], e[2])
                              /\ Goto(w, IF e[1] \in Phone THEN "send" ELSE "mark")
    BY <1>3 DEF Take
  <2>2. e \in Appt \X Row
    BY DEF Inv, TypeOK
  <2> QED
    BY <1>3, <2>1, <2>2 DEF Take, Inv, TypeOK, Goto, Hold, table, Session
<1>4. ASSUME NEW w \in Worker, Delivered(w) PROVE TypeOK'
  <2>1. current[w] \in Appt /\ copy[w] \in Row /\ Tell(w)
    BY <1>4 DEF Delivered, Inv, Shape
  <2>2. told' \in [ Appt -> Seq(Nat) ]
    BY <2>1, TellGrows DEF Inv
  <2> QED
    BY <1>4, <2>2 DEF Delivered, Inv, TypeOK, Goto, table, Session
<1>5. ASSUME NEW w \in Worker, Failed(w) PROVE TypeOK'
  BY <1>5 DEF Failed, AfterFailure, Inv, TypeOK, Goto, table, Session
<1>6. ASSUME NEW w \in Worker, AnswerLost(w) PROVE TypeOK'
  <2>1. current[w] \in Appt /\ copy[w] \in Row /\ Tell(w)
    BY <1>6 DEF AnswerLost, Inv, Shape
  <2>2. told' \in [ Appt -> Seq(Nat) ]
    BY <2>1, TellGrows DEF Inv
  <2> QED
    BY <1>6, <2>2 DEF AnswerLost, AfterFailure, Inv, TypeOK, Goto, table, Session
<1>7. ASSUME NEW w \in Worker, Mark(w) PROVE TypeOK'
  <2>1. current[w] \in Appt /\ appts[current[w]] \in Row /\ moment[w] \in Nat
    BY <1>7 DEF Mark, Inv, TypeOK, Shape
  <2>2. Marked(appts[current[w]], moment[w]) \in Row
    BY <2>1 DEF Marked, Row
  <2>3. appts' \in [ Appt -> Row ]
    BY <1>7, <2>1, <2>2 DEF Mark, Inv, TypeOK
  <2> QED
    BY <1>7, <2>3 DEF Mark, Inv, TypeOK, Goto, Session
<1>8. ASSUME NEW w \in Worker, Finish(w) PROVE TypeOK'
  BY <1>8 DEF Finish, Handed, Forget, Inv, TypeOK, Goto, table, Session
<1>9. ASSUME NEW w \in Worker, Crash(w) PROVE TypeOK'
  BY <1>9 DEF Crash, Handed, Forget, Inv, TypeOK, Goto, table, Session
<1>10. ASSUME NEW d \in Desk, Read(d) PROVE TypeOK'
  <2>1. PICK a \in Appt : \E v \in Editions(appts[a]) : Hold(d, a, v)
    BY <1>10 DEF Read
  <2>2. PICK v \in Editions(appts[a]) : Hold(d, a, v)
    BY <2>1
  <2>3. v \in Row
    BY <2>2, EditionsType DEF Inv, TypeOK
  <2> QED
    BY <1>10, <2>2, <2>3 DEF Read, Hold, Inv, TypeOK, Goto, table, Session
<1>11. ASSUME NEW d \in Desk, Write(d) PROVE TypeOK'
  <2>1. current[d] \in Appt /\ copy[d] \in Row
    BY <1>11 DEF Write, Inv, Shape
  <2> QED
    BY <1>11, <2>1 DEF Write, A!Put, Inv, TypeOK, Goto, Session
<1>12. ASSUME NEW d \in Desk, Commit(d) PROVE TypeOK'
  <2>1. appts' \in [ Appt -> Row ]
    BY <1>12 DEF Commit, A!Commit, Inv, TypeOK, Shape
  <2> QED
    BY <1>12, <2>1 DEF Commit, A!Commit, A!Unlock, Forget, Inv, TypeOK, Goto, Session
<1>13. ASSUME NEW d \in Desk, Abort(d) PROVE TypeOK'
  BY <1>13 DEF Abort, A!Rollback, A!Unlock, Forget, Inv, TypeOK, Goto, Session
<1>14. ASSUME Tick PROVE TypeOK'
  BY <1>14 DEF Tick, Inv, TypeOK, table
<1>15. ASSUME UNCHANGED vars PROVE TypeOK'
  BY <1>15 DEF vars, table, Inv, TypeOK
<1> QED
  BY <1>1, <1>2, <1>3, <1>4, <1>5, <1>6, <1>7, <1>8, <1>9, <1>10, <1>11, <1>12,
     <1>13, <1>14, <1>15 DEF Next, Statement

\* What a process has in its memory stays as its stage requires.
LEMMA ShapeStep == Inv /\ [Next]_vars => Shape'
<1> SUFFICES ASSUME Inv, [Next]_vars PROVE Shape'
  OBVIOUS
<1> USE NullAssumption, ConstantAssumption
<1>1. ASSUME NEW w \in Worker, Wake(w) PROVE Shape'
  BY <1>1 DEF Wake, Inv, TypeOK, Shape, Goto, table, Session
<1>2. ASSUME NEW w \in Worker, List(w) PROVE Shape'
  BY <1>2 DEF List, Inv, TypeOK, Shape, Goto, table, Session
<1>3. ASSUME NEW w \in Worker, Take(w) PROVE Shape'
  <2>1. PICK e \in batch[w] : /\ Hold(w, e[1], e[2])
                              /\ Goto(w, IF e[1] \in Phone THEN "send" ELSE "mark")
    BY <1>3 DEF Take
  <2>2. e[1] \in Appt /\ e[2] \in Row
    BY DEF Inv, TypeOK
  <2> QED
    BY <1>3, <2>1, <2>2 DEF Take, Inv, TypeOK, Shape, Goto, Hold, table, Session
<1>4. ASSUME NEW w \in Worker, Delivered(w) PROVE Shape'
  BY <1>4 DEF Delivered, Inv, TypeOK, Shape, Goto, table, Session
<1>5. ASSUME NEW w \in Worker, Failed(w) PROVE Shape'
  BY <1>5 DEF Failed, AfterFailure, Inv, TypeOK, Shape, Goto, table, Session
<1>6. ASSUME NEW w \in Worker, AnswerLost(w) PROVE Shape'
  BY <1>6 DEF AnswerLost, AfterFailure, Inv, TypeOK, Shape, Goto, table, Session
<1>7. ASSUME NEW w \in Worker, Mark(w) PROVE Shape'
  BY <1>7 DEF Mark, Inv, TypeOK, Shape, Goto, Session
<1>8. ASSUME NEW w \in Worker, Finish(w) PROVE Shape'
  BY <1>8 DEF Finish, Forget, Inv, TypeOK, Shape, Goto, table, Session
<1>9. ASSUME NEW w \in Worker, Crash(w) PROVE Shape'
  BY <1>9 DEF Crash, Forget, Inv, TypeOK, Shape, Goto, table, Session
<1>10. ASSUME NEW d \in Desk, Read(d) PROVE Shape'
  <2>1. PICK a \in Appt : \E v \in Editions(appts[a]) : Hold(d, a, v)
    BY <1>10 DEF Read
  <2>2. PICK v \in Editions(appts[a]) : Hold(d, a, v)
    BY <2>1
  <2>3. v \in Row
    BY <2>2, EditionsType DEF Inv, TypeOK
  <2> QED
    BY <1>10, <2>2, <2>3 DEF Read, Hold, Inv, TypeOK, Shape, Goto, table, Session
<1>11. ASSUME NEW d \in Desk, Write(d) PROVE Shape'
  <2>1. current[d] \in Appt /\ copy[d] \in Row
    BY <1>11 DEF Write, Inv, Shape
  <2> QED
    BY <1>11, <2>1 DEF Write, A!Put, Inv, TypeOK, Shape, Goto, Session
<1>12. ASSUME NEW d \in Desk, Commit(d) PROVE Shape'
  BY <1>12 DEF Commit, A!Commit, A!Unlock, Forget, Inv, TypeOK, Shape, Goto, Session
<1>13. ASSUME NEW d \in Desk, Abort(d) PROVE Shape'
  BY <1>13 DEF Abort, A!Rollback, A!Unlock, Forget, Inv, TypeOK, Shape, Goto, Session
<1>14. ASSUME Tick PROVE Shape'
  BY <1>14 DEF Tick, Inv, Shape, table
<1>15. ASSUME UNCHANGED vars PROVE Shape'
  BY <1>15 DEF vars, table, Inv, Shape
<1> QED
  BY <1>1, <1>2, <1>3, <1>4, <1>5, <1>6, <1>7, <1>8, <1>9, <1>10, <1>11, <1>12,
     <1>13, <1>14, <1>15 DEF Next, Statement

\* A tick starts with the lease, and only the holder gives the lease up.
LEMMA LeaseStep == Inv /\ [Next]_vars => OneTick'
<1> SUFFICES ASSUME Inv, [Next]_vars, NEW v \in Worker, pc'[v] # "idle"
             PROVE  lease' = v
  BY DEF OneTick
<1> USE NullAssumption, ConstantAssumption
<1>1. ASSUME NEW w \in Worker, Wake(w) PROVE lease' = v
  BY <1>1 DEF Wake, Free, Inv, OneTick, TypeOK, Goto, Session
<1>2. ASSUME NEW w \in Worker,
             List(w) \/ Take(w) \/ Delivered(w) \/ Failed(w) \/ AnswerLost(w) \/ Mark(w)
      PROVE lease' = v
  BY <1>2 DEF List, Take, Delivered, Failed, AnswerLost, Mark, AfterFailure,
     Inv, OneTick, TypeOK, Goto, Session
<1>3. ASSUME NEW w \in Worker, Finish(w) \/ Crash(w) PROVE lease' = v
  BY <1>3 DEF Finish, Crash, Handed, Inv, OneTick, TypeOK, Goto, Session
<1>4. ASSUME NEW d \in Desk, Read(d) \/ Write(d) \/ Commit(d) \/ Abort(d)
      PROVE lease' = v
  BY <1>4 DEF Read, Write, Commit, Abort, Inv, OneTick, TypeOK, Goto, Session
<1>5. ASSUME Tick \/ UNCHANGED vars PROVE lease' = v
  BY <1>5 DEF Tick, vars, Inv, OneTick
<1> QED
  BY <1>1, <1>2, <1>3, <1>4, <1>5 DEF Next, Statement

\* Every version of a row that carries a mark is of a customer who was told.
LEMMA ToldStep == Inv /\ [Next]_vars => Told' /\ MarkMeansTold'
<1> SUFFICES ASSUME Inv, [Next]_vars PROVE Told' /\ MarkMeansTold'
  OBVIOUS
<1> USE NullAssumption, ConstantAssumption
<1> DEFINE Goal == Told' /\ MarkMeansTold'
<1>1. ASSUME NEW w \in Worker, Wake(w) PROVE Goal
  BY <1>1 DEF Wake, Inv, TypeOK, Told, MarkMeansTold, Goto, table, Session
<1>2. ASSUME NEW w \in Worker, List(w) PROVE Goal
  BY <1>2 DEF List, Inv, TypeOK, Told, MarkMeansTold, Goto, table, Session
<1>3. ASSUME NEW w \in Worker, Take(w) PROVE Goal
  <2>1. PICK e \in batch[w] : /\ Hold(w, e[1], e[2])
                              /\ Goto(w, IF e[1] \in Phone THEN "send" ELSE "mark")
    BY <1>3 DEF Take
  <2> QED
    BY <1>3, <2>1 DEF Take, Inv, TypeOK, Told, MarkMeansTold, Goto, Hold, table, Session
<1>4. ASSUME NEW w \in Worker, Delivered(w) PROVE Goal
  <2>1. current[w] \in Appt /\ copy[w] \in Row /\ Tell(w)
    BY <1>4 DEF Delivered, Inv, Shape
  <2>2. /\ told'[current[w]] # << >>
        /\ \A a \in Appt : told[a] # << >> => told'[a] # << >>
    BY <2>1, TellGrows DEF Inv
  <2>3. Told'
    BY <1>4, <2>2 DEF Delivered, Inv, TypeOK, Shape, Told, Goto, table, Session
  <2>4. MarkMeansTold'
    BY <1>4, <2>2 DEF Delivered, Inv, MarkMeansTold, table
  <2> QED
    BY <2>3, <2>4
<1>5. ASSUME NEW w \in Worker, Failed(w) PROVE Goal
  BY <1>5 DEF Failed, AfterFailure, Inv, TypeOK, Told, MarkMeansTold, Goto, table, Session
<1>6. ASSUME NEW w \in Worker, AnswerLost(w) PROVE Goal
  <2>1. current[w] \in Appt /\ copy[w] \in Row /\ Tell(w)
    BY <1>6 DEF AnswerLost, Inv, Shape
  <2>2. \A a \in Appt : told[a] # << >> => told'[a] # << >>
    BY <2>1, TellGrows DEF Inv
  <2>3. Told'
    BY <1>6, <2>2 DEF AnswerLost, AfterFailure, Inv, TypeOK, Shape, Told, Goto, table, Session
  <2>4. MarkMeansTold'
    BY <1>6, <2>2 DEF AnswerLost, Inv, MarkMeansTold, table
  <2> QED
    BY <2>3, <2>4
<1>7. ASSUME NEW w \in Worker, Mark(w) PROVE Goal
  <2>1. current[w] \in Phone => told[current[w]] # << >>
    BY <1>7 DEF Mark, Inv, Told
  <2>2. \A a \in Appt : a # current[w] => appts'[a] = appts[a]
    BY <1>7 DEF Mark, Inv, TypeOK
  <2>3. Told'
    BY <1>7 DEF Mark, Inv, TypeOK, Told, Goto, Session
  <2>4. MarkMeansTold'
    BY <1>7, <2>1, <2>2 DEF Mark, Inv, MarkMeansTold
  <2> QED
    BY <2>3, <2>4
<1>8. ASSUME NEW w \in Worker, Finish(w) \/ Crash(w) PROVE Goal
  BY <1>8 DEF Finish, Crash, Forget, Inv, TypeOK, Told, MarkMeansTold, Goto, table, Session
<1>9. ASSUME NEW d \in Desk, Read(d) PROVE Goal
  <2>1. PICK a \in Appt : \E v \in Editions(appts[a]) : Hold(d, a, v)
    BY <1>9 DEF Read
  <2>2. PICK v \in Editions(appts[a]) : Hold(d, a, v)
    BY <2>1
  <2>3. v.reminded = appts[a].reminded
    BY <2>2, EditionsType DEF Inv, TypeOK
  <2>4. MarkMeansTold'
    BY <1>9 DEF Read, Inv, MarkMeansTold, table
  <2>5. current' = [ current EXCEPT ![d] = a ] /\ copy' = [ copy EXCEPT ![d] = v ]
    BY <2>2 DEF Hold
  <2>6. Told'
    BY <1>9, <2>3, <2>5 DEF Read, Inv, TypeOK, Told, MarkMeansTold, Goto, table, Session
  <2> QED
    BY <2>4, <2>6
<1>10. ASSUME NEW d \in Desk, Write(d) PROVE Goal
  <2>1. current[d] \in Appt /\ copy[d] \in Row
    BY <1>10 DEF Write, Inv, Shape
  <2>2. current[d] \in Phone /\ copy[d].reminded # Null => told[current[d]] # << >>
    BY <1>10 DEF Write, Inv, Told
  <2>3. Told'
    BY <1>10, <2>1, <2>2 DEF Write, A!Put, Inv, TypeOK, Told, Goto, Session
  <2>4. MarkMeansTold'
    BY <1>10 DEF Write, A!Put, Inv, MarkMeansTold
  <2> QED
    BY <2>3, <2>4
<1>11. ASSUME NEW d \in Desk, Commit(d) PROVE Goal
  <2>1. Told'
    BY <1>11 DEF Commit, A!Commit, A!Unlock, Forget, Inv, TypeOK, Told, Goto, Session
  <2>2. MarkMeansTold'
    BY <1>11 DEF Commit, A!Commit, Inv, TypeOK, Told, MarkMeansTold
  <2> QED
    BY <2>1, <2>2
<1>12. ASSUME NEW d \in Desk, Abort(d) PROVE Goal
  BY <1>12 DEF Abort, A!Rollback, A!Unlock, Forget, Inv, TypeOK, Told, MarkMeansTold,
     Goto, Session
<1>13. ASSUME Tick PROVE Goal
  BY <1>13 DEF Tick, Inv, Told, MarkMeansTold, table
<1>14. ASSUME UNCHANGED vars PROVE Goal
  BY <1>14 DEF vars, table, Inv, Told, MarkMeansTold
<1> QED
  BY <1>1, <1>2, <1>3, <1>4, <1>5, <1>6, <1>7, <1>8, <1>9, <1>10, <1>11, <1>12,
     <1>13, <1>14 DEF Next, Statement

\* The inductive invariant of the reminder sweep.
THEOREM Invariant == Spec => []Inv
<1>1. Inv /\ [Next]_vars => Inv'
  BY TypeStep, ShapeStep, LeaseStep, ToldStep DEF Inv
<1> QED
  BY InitInv, <1>1, PTL DEF Spec

\* Every reachable state is of its type, for any number of processes,
\* appointments and faults.
THEOREM TypeCorrect == Spec => []TypeOK
<1>1. Inv => TypeOK
  BY DEF Inv
<1> QED
  BY <1>1, Invariant, PTL

\* The advisory lock keeps ticks apart: at most one process is in one.
THEOREM LeaseExcludes == Spec => []OneTick
<1>1. Inv => OneTick
  BY DEF Inv
<1> QED
  BY <1>1, Invariant, PTL

\* A marked appointment is one whose customer was told, if there is a phone
\* number to tell: no stale copy, crash or failure marks anybody else's.
THEOREM MarksAreTrue == Spec => []MarkMeansTold
<1>1. Inv => MarkMeansTold
  BY DEF Inv
<1> QED
  BY <1>1, Invariant, PTL

------------------------------------------------------------------------------
(***************************************************************************)
(* How often a customer is reminded.  The proof counts what may still cost *)
(* a customer a message: the sweep, while the row is unmarked or the tick  *)
(* under way is on its way to it, and each desk whose copy of the row is   *)
(* unmarked, for its commit can take a mark away again.                    *)
(***************************************************************************)

\* A tick is on its way to telling the customer of a.
Ahead(a) ==
  \E w \in Worker : \/ \E e \in batch[w] : e[1] = a
                    \/ pc[w] = "send" /\ current[w] = a

\* The sweep may yet tell the customer of a, unless the tick is at its mark.
Pending(a) ==
  /\ \A w \in Worker : ~(pc[w] = "mark" /\ current[w] = a)
  /\ appts[a].reminded = Null \/ Ahead(a)

\* Desk d is about to write an unmarked copy of a.
Stale(d, a) == pc[d] # "idle" /\ current[d] = a /\ copy[d].reminded = Null

\* What may still cost the customer of a a message: the sweep, as Null, and
\* the desks with a stale copy.
Owing(a) ==
  { x \in Desk \cup {Null} : IF x = Null THEN Pending(a) ELSE Stale(x, a) }

\* A tick has each appointment ahead of it once, and not the one it is at.
Batches ==
  \A w \in Worker :
    /\ pc[w] \in { "idle", "list" } => batch[w] = {}
    /\ \A e, f \in batch[w] : e[1] = f[1] => e = f
    /\ pc[w] \in { "send", "mark" } => \A e \in batch[w] : e[1] # current[w]

\* A row is locked by a desk between its write and its commit, and drafted
\* from that desk's copy.
Drafts ==
  \A a \in Appt : apptsLock[a] # Null =>
    /\ pc[apptsLock[a]] = "commit"
    /\ current[apptsLock[a]] = a
    /\ apptsDraft[a] = copy[apptsLock[a]]

\* What was sent, and what may still be, is within what has been paid for.
Covered ==
  \A a \in Appt :
    Len(told[a]) + Cardinality(Owing(a)) <= 1 + faults + Cardinality(Edits)

Account == Inv /\ Batches /\ Drafts /\ Covered

\* What may cost a customer a message is finite, and so are the edits.
LEMMA Countable ==
  /\ \A a : IsFiniteSet(Owing(a)) /\ Cardinality(Owing(a)) \in Nat
  /\ IsFiniteSet(Edits) /\ Cardinality(Edits) \in Nat
<1>1. IsFiniteSet(Desk \cup {Null})
  BY ConstantAssumption, FS_AddElement
<1>2. \A a : Owing(a) \in SUBSET (Desk \cup {Null})
  BY DEF Owing
<1>3. \A a : IsFiniteSet(Owing(a))
  BY <1>1, <1>2, FS_Subset
<1>4. IsFiniteSet(1..MaxEdits)
  BY ConstantAssumption, FS_Interval
<1>5. IsFiniteSet(Desk \X (1..MaxEdits))
  BY <1>4, ConstantAssumption, FS_Product
<1>6. Edits \in SUBSET (Desk \X (1..MaxEdits))
  BY DEF Edits
<1>7. IsFiniteSet(Edits)
  BY <1>5, <1>6, FS_Subset
<1> QED
  BY <1>3, <1>7, FS_CardinalityType

\* The same in the next state.
LEMMA CountableNext ==
  /\ \A a : IsFiniteSet(Owing(a)') /\ Cardinality(Owing(a)') \in Nat
  /\ IsFiniteSet(Edits') /\ Cardinality(Edits') \in Nat
<1>1. IsFiniteSet(Desk \cup {Null})
  BY ConstantAssumption, FS_AddElement
<1>2. \A a : Owing(a)' \in SUBSET (Desk \cup {Null})
  BY DEF Owing
<1>3. \A a : IsFiniteSet(Owing(a)')
  BY <1>1, <1>2, FS_Subset
<1>4. IsFiniteSet(1..MaxEdits)
  BY ConstantAssumption, FS_Interval
<1>5. IsFiniteSet(Desk \X (1..MaxEdits))
  BY <1>4, ConstantAssumption, FS_Product
<1>6. Edits' \in SUBSET (Desk \X (1..MaxEdits))
  BY DEF Edits
<1>7. IsFiniteSet(Edits')
  BY <1>5, <1>6, FS_Subset
<1> QED
  BY <1>3, <1>7, FS_CardinalityType

\* A row read is due only while it is unmarked, and a batch names it once.
LEMMA BatchesStep == Inv /\ Batches /\ [Next]_vars => Batches'
<1> SUFFICES ASSUME Inv, Batches, [Next]_vars PROVE Batches'
  OBVIOUS
<1> USE NullAssumption, ConstantAssumption
<1>1. ASSUME NEW w \in Worker, Wake(w) PROVE Batches'
  BY <1>1 DEF Wake, Inv, TypeOK, Batches, Goto, Session
<1>2. ASSUME NEW w \in Worker, List(w) PROVE Batches'
  <2>1. PICK B \in SUBSET Appt :
          batch' = [ batch EXCEPT ![w] = { << a, appts[a] >> : a \in B } ]
    BY <1>2 DEF List
  <2>2. \A e, f \in { << a, appts[a] >> : a \in B } : e[1] = f[1] => e = f
    OBVIOUS
  <2>3. /\ batch'[w] = { << a, appts[a] >> : a \in B }
        /\ \A v \in Worker : v # w => batch'[v] = batch[v] /\ pc'[v] = pc[v]
        /\ pc'[w] = "next"
        /\ current' = current
    BY <1>2, <2>1 DEF List, Goto, Inv, TypeOK, Session
  <2> QED
    BY <2>2, <2>3 DEF Batches
<1>3. ASSUME NEW w \in Worker, Take(w) PROVE Batches'
  <2>1. PICK e \in batch[w] : /\ batch' = [ batch EXCEPT ![w] = @ \ {e} ]
                              /\ Hold(w, e[1], e[2])
                              /\ Goto(w, IF e[1] \in Phone THEN "send" ELSE "mark")
    BY <1>3 DEF Take
  <2>2. /\ batch'[w] = batch[w] \ {e}
        /\ \A v \in Worker : v # w => /\ batch'[v] = batch[v] /\ pc'[v] = pc[v]
                                      /\ current'[v] = current[v]
        /\ pc'[w] \in { "send", "mark" }
        /\ current'[w] = e[1]
    BY <2>1 DEF Goto, Hold, Inv, TypeOK, Session
  <2> QED
    BY <2>2 DEF Batches
<1>4. ASSUME NEW w \in Worker,
             Delivered(w) \/ Failed(w) \/ AnswerLost(w) \/ Mark(w)
      PROVE  Batches'
  BY <1>4 DEF Delivered, Failed, AnswerLost, Mark, AfterFailure, Inv, TypeOK, Batches,
     Goto, Session
<1>5. ASSUME NEW w \in Worker, Finish(w) \/ Crash(w) PROVE Batches'
  <2>1. /\ batch'[w] = {}
        /\ \A v \in Worker : v # w => /\ batch'[v] = batch[v] /\ pc'[v] = pc[v]
                                      /\ current'[v] = current[v]
        /\ pc'[w] = "idle"
    BY <1>5 DEF Finish, Crash, Forget, Goto, Inv, TypeOK, Session
  <2> QED
    BY <2>1 DEF Batches
<1>6. ASSUME NEW d \in Desk, Read(d) \/ Write(d) \/ Commit(d) \/ Abort(d)
      PROVE  Batches'
  <2>1. \A v \in Worker : /\ batch'[v] = batch[v] /\ pc'[v] = pc[v]
                          /\ current'[v] = current[v]
    BY <1>6 DEF Read, Write, Commit, Abort, Forget, Hold, Goto, Inv, TypeOK, Session
  <2> QED
    BY <2>1 DEF Batches
<1>7. ASSUME Tick \/ UNCHANGED vars PROVE Batches'
  BY <1>7 DEF Tick, vars, Batches
<1> QED
  BY <1>1, <1>2, <1>3, <1>4, <1>5, <1>6, <1>7 DEF Next, Statement

\* A lock is a desk's, from its write of the row to the end of its edit.
LEMMA DraftsStep == Inv /\ Drafts /\ [Next]_vars => Drafts'
<1> SUFFICES ASSUME Inv, Drafts, [Next]_vars, NEW a \in Appt, apptsLock'[a] # Null
             PROVE  /\ pc'[apptsLock'[a]] = "commit"
                    /\ current'[apptsLock'[a]] = a
                    /\ apptsDraft'[a] = copy'[apptsLock'[a]]
  BY DEF Drafts
<1> DEFINE Kept == /\ pc'[apptsLock'[a]] = "commit"
                   /\ current'[apptsLock'[a]] = a
                   /\ apptsDraft'[a] = copy'[apptsLock'[a]]
<1>0. /\ apptsLock[a] \in Desk \cup {Null}
      /\ apptsLock[a] # Null => /\ pc[apptsLock[a]] = "commit"
                               /\ current[apptsLock[a]] = a
                               /\ apptsDraft[a] = copy[apptsLock[a]]
  BY DEF Drafts, Inv, TypeOK
<1> USE NullAssumption, ConstantAssumption
<1>1. ASSUME NEW w \in Worker,
             Wake(w) \/ List(w) \/ Take(w) \/ Delivered(w) \/ Failed(w)
               \/ AnswerLost(w) \/ Mark(w) \/ Finish(w) \/ Crash(w)
      PROVE  Kept
  <2>1. /\ \A d \in Desk : /\ pc'[d] = pc[d] /\ current'[d] = current[d]
                           /\ copy'[d] = copy[d]
        /\ apptsLock' = apptsLock /\ apptsDraft' = apptsDraft
    BY <1>1 DEF Wake, List, Take, Delivered, Failed, AnswerLost, Mark, Finish, Crash,
       Forget, Hold, Goto, Inv, TypeOK, Session, table
  <2> QED
    BY <1>0, <2>1
<1>2. ASSUME NEW d \in Desk, Read(d) PROVE Kept
  <2>1. /\ \A b \in Desk : b # d => /\ pc'[b] = pc[b] /\ current'[b] = current[b]
                                    /\ copy'[b] = copy[b]
        /\ apptsLock' = apptsLock /\ apptsDraft' = apptsDraft
        /\ pc[d] = "idle"
    BY <1>2 DEF Read, Hold, Goto, Inv, TypeOK, Session, table
  <2> QED
    BY <1>0, <2>1
<1>3. ASSUME NEW d \in Desk, Write(d) PROVE Kept
  <2>1. /\ \A b \in Desk : b # d => pc'[b] = pc[b]
        /\ pc[d] = "write" /\ pc'[d] = "commit"
        /\ current' = current /\ copy' = copy
    BY <1>3 DEF Write, Goto, Inv, TypeOK, Session
  <2>2. /\ apptsLock'[a] = IF a = current[d] THEN d ELSE apptsLock[a]
        /\ apptsDraft'[a] = IF a = current[d] THEN copy[d] ELSE apptsDraft[a]
    BY <1>3 DEF Write, A!Put
  <2> QED
    BY <1>0, <2>1, <2>2
<1>4. ASSUME NEW d \in Desk, Commit(d) \/ Abort(d) PROVE Kept
  <2>1. \A b \in Desk : b # d => /\ pc'[b] = pc[b] /\ current'[b] = current[b]
                                 /\ copy'[b] = copy[b]
    BY <1>4 DEF Commit, Abort, Forget, Goto, Inv, TypeOK, Session
  <2>2. /\ apptsLock'[a] = IF apptsLock[a] = d THEN Null ELSE apptsLock[a]
        /\ apptsLock[a] # d => apptsDraft'[a] = apptsDraft[a]
    BY <1>4 DEF Commit, Abort, A!Commit, A!Rollback, A!Unlock
  <2> QED
    BY <1>0, <2>1, <2>2
<1>5. ASSUME Tick \/ UNCHANGED vars PROVE Kept
  BY <1>0, <1>5 DEF Tick, vars, table
<1> QED
  BY <1>1, <1>2, <1>3, <1>4, <1>5 DEF Next, Statement

\* Only reading a row makes a desk's copy of it: every other step leaves a
\* desk with the stale copies it had, or with fewer.
LEMMA StaleKept ==
  ASSUME Inv, NEW a \in Appt, NEW d \in Desk, [Next]_vars, ~Read(d)
  PROVE  Stale(d, a)' => Stale(d, a)
<1> USE NullAssumption, ConstantAssumption
<1>1. ASSUME NEW w \in Worker,
             Wake(w) \/ List(w) \/ Take(w) \/ Delivered(w) \/ Failed(w)
               \/ AnswerLost(w) \/ Mark(w) \/ Finish(w) \/ Crash(w)
      PROVE  pc'[d] = pc[d] /\ current'[d] = current[d] /\ copy'[d] = copy[d]
  BY <1>1 DEF Wake, List, Take, Delivered, Failed, AnswerLost, Mark, Finish, Crash,
     Forget, Hold, Goto, Inv, TypeOK, Session, table
<1>2. ASSUME NEW b \in Desk, b # d, Read(b) \/ Write(b) \/ Commit(b) \/ Abort(b)
      PROVE  pc'[d] = pc[d] /\ current'[d] = current[d] /\ copy'[d] = copy[d]
  BY <1>2 DEF Read, Write, Commit, Abort, Forget, Hold, Goto, Inv, TypeOK, Session
<1>3. CASE Write(d)
  BY <1>3 DEF Write, Goto, Inv, TypeOK, Session, Stale
<1>4. CASE Commit(d) \/ Abort(d)
  BY <1>4 DEF Commit, Abort, Goto, Inv, TypeOK, Session, Stale
<1>5. CASE Tick \/ UNCHANGED vars
  BY <1>5 DEF Tick, vars, Stale
<1> QED
  BY <1>1, <1>2, <1>3, <1>4, <1>5 DEF Next, Statement, Stale

\* A step that writes no unmarked row back, and is not a crash, gives the
\* sweep no new cause to tell a customer.
LEMMA PendingKept ==
  ASSUME Inv, Batches, Drafts, NEW a \in Appt, [Next]_vars,
         \A w \in Worker : ~Crash(w),
         \A d \in Desk : Commit(d) => ~Stale(d, a)
  PROVE  Pending(a)' => Pending(a)
<1> USE NullAssumption, ConstantAssumption
<1>1. ASSUME NEW w \in Worker, Wake(w) PROVE Pending(a)' => Pending(a)
  BY <1>1 DEF Wake, Inv, TypeOK, Pending, Ahead, Goto, table, Session
<1>2. ASSUME NEW w \in Worker, List(w) PROVE Pending(a)' => Pending(a)
  <2>1. PICK B \in SUBSET { b \in Appt : apptsLock[b] = Null /\ Due(appts[b], moment[w]) } :
          batch' = [ batch EXCEPT ![w] = { << b, appts[b] >> : b \in B } ]
    BY <1>2 DEF List
  <2>2. /\ batch'[w] = { << b, appts[b] >> : b \in B }
        /\ \A v \in Worker : v # w => batch'[v] = batch[v] /\ pc'[v] = pc[v]
        /\ pc[w] = "list" /\ pc'[w] = "next"
        /\ current' = current /\ appts' = appts
    BY <1>2, <2>1 DEF List, Goto, Inv, TypeOK, Session, table
  <2>3. \A e \in batch'[w] : e[1] = a => appts[a].reminded = Null
    BY <2>1, <2>2 DEF Due
  <2>4. Ahead(a)' => Ahead(a) \/ appts[a].reminded = Null
    BY <2>2, <2>3 DEF Ahead
  <2> QED
    BY <2>2, <2>4 DEF Pending
<1>3. ASSUME NEW w \in Worker, Take(w) PROVE Pending(a)' => Pending(a)
  <2>1. PICK e \in batch[w] : /\ batch' = [ batch EXCEPT ![w] = @ \ {e} ]
                              /\ Hold(w, e[1], e[2])
                              /\ Goto(w, IF e[1] \in Phone THEN "send" ELSE "mark")
    BY <1>3 DEF Take
  <2>2. /\ batch'[w] = batch[w] \ {e}
        /\ \A v \in Worker : v # w => /\ batch'[v] = batch[v] /\ pc'[v] = pc[v]
                                      /\ current'[v] = current[v]
        /\ pc[w] = "next"
        /\ current'[w] = e[1]
        /\ appts' = appts
    BY <1>3, <2>1 DEF Take, Goto, Hold, Inv, TypeOK, Session, table
  <2>3. Ahead(a)' => Ahead(a)
    BY <2>2 DEF Ahead
  <2> QED
    BY <2>2, <2>3 DEF Pending
<1>4. ASSUME NEW w \in Worker, Delivered(w) \/ Failed(w) \/ AnswerLost(w) \/ Finish(w)
      PROVE  Pending(a)' => Pending(a)
  <2>1. /\ batch' = batch /\ appts' = appts
        /\ \A v \in Worker : v # w => pc'[v] = pc[v] /\ current'[v] = current[v]
        /\ pc[w] # "mark" /\ pc'[w] # "send"
    BY <1>4 DEF Delivered, Failed, AnswerLost, Finish, AfterFailure, Forget, Goto,
       Inv, TypeOK, Session, table
  <2> QED
    BY <2>1 DEF Pending, Ahead
<1>5. ASSUME NEW w \in Worker, Mark(w) PROVE Pending(a)' => Pending(a)
  <2>1. /\ batch' = batch /\ current' = current
        /\ \A v \in Worker : v # w => pc'[v] = pc[v]
        /\ pc[w] = "mark" /\ pc'[w] = "next"
        /\ current[w] \in Appt
    BY <1>5 DEF Mark, Goto, Inv, TypeOK, Shape, Session
  <2>2. Ahead(a)' => Ahead(a)
    BY <2>1 DEF Ahead
  <2>3. CASE a # current[w]
    <3>1. appts'[a] = appts[a]
      BY <1>5, <2>3 DEF Mark, Inv, TypeOK
    <3> QED
      BY <2>1, <2>2, <2>3, <3>1 DEF Pending
  <2>4. CASE a = current[w]
    <3>1. appts'[a].reminded = moment[w] /\ moment[w] # Null
      BY <1>5, <2>4 DEF Mark, Marked, Inv, TypeOK, Row
    <3>2. \A v \in Worker : v # w => pc[v] = "idle" /\ batch[v] = {}
      BY <2>1 DEF Inv, OneTick, Batches
    <3>3. \A e \in batch[w] : e[1] # a
      BY <2>1, <2>4 DEF Batches
    <3>4. ~Ahead(a)'
      BY <2>1, <3>2, <3>3 DEF Ahead
    <3> QED
      BY <3>1, <3>4 DEF Pending
  <2> QED
    BY <2>3, <2>4
<1>6. ASSUME NEW d \in Desk, Read(d) \/ Write(d) \/ Abort(d)
      PROVE  Pending(a)' => Pending(a)
  <2>1. /\ batch' = batch /\ appts' = appts
        /\ \A v \in Worker : pc'[v] = pc[v] /\ current'[v] = current[v]
    BY <1>6 DEF Read, Write, Abort, A!Put, A!Rollback, Forget, Hold, Goto,
       Inv, TypeOK, Session, table
  <2> QED
    BY <2>1 DEF Pending, Ahead
<1>7. ASSUME NEW d \in Desk, Commit(d) PROVE Pending(a)' => Pending(a)
  <2>1. /\ batch' = batch
        /\ \A v \in Worker : pc'[v] = pc[v] /\ current'[v] = current[v]
    BY <1>7 DEF Commit, Forget, Goto, Inv, TypeOK, Session
  <2>2. /\ apptsLock[a] # d => appts'[a] = appts[a]
        /\ apptsLock[a] = d => appts'[a] = apptsDraft[a]
    BY <1>7 DEF Commit, A!Commit
  <2>3. apptsLock[a] = d => apptsDraft[a].reminded # Null
    BY <1>7 DEF Drafts, Stale, Commit
  <2> QED
    BY <2>1, <2>2, <2>3 DEF Pending, Ahead
<1>8. CASE Tick \/ UNCHANGED vars
  BY <1>8 DEF Tick, vars, table, Pending, Ahead
<1> QED
  BY <1>1, <1>2, <1>3, <1>4, <1>5, <1>6, <1>7, <1>8 DEF Next, Statement

\* A message is one more on its customer's thread, and none on another's.
LEMMA TellOnce ==
  ASSUME TypeOK, NEW w \in Worker, current[w] \in Appt, copy[w] \in Row, Tell(w)
  PROVE  /\ Len(told'[current[w]]) = Len(told[current[w]]) + 1
         /\ \A a \in Appt : a # current[w] => told'[a] = told[a]
<1>1. \A s \in Seq(Nat), n \in Nat : Len(Append(s, n)) = Len(s) + 1
  OBVIOUS
<1>2. copy[w].start \in Nat
  BY DEF Row
<1> QED
  BY <1>1, <1>2 DEF Tell, TypeOK

\* An edit begun is one more edit, and no other step begins one.
LEMMA EditsStep ==
  ASSUME Inv, [Next]_vars
  PROVE  /\ Edits \subseteq Edits'
         /\ \A d \in Desk : Read(d) => Cardinality(Edits') >= Cardinality(Edits) + 1
<1> USE ConstantAssumption
<1>1. ASSUME NEW d \in Desk, Read(d)
      PROVE  /\ Edits \subseteq Edits'
             /\ Cardinality(Edits') >= Cardinality(Edits) + 1
  <2> DEFINE new == << d, edits[d] + 1 >>
  <2>1. /\ edits[d] \in Nat /\ edits[d] < MaxEdits
        /\ edits' = [ edits EXCEPT ![d] = @ + 1 ]
        /\ edits \in [ Desk -> 0..MaxEdits ]
    BY <1>1 DEF Read, Inv, TypeOK
  <2>2. \A e \in Desk \X (1..MaxEdits) : e[2] <= edits[e[1]] => e[2] <= edits'[e[1]]
    BY <2>1
  <2>3. Edits \subseteq Edits'
    BY <2>2 DEF Edits
  <2>4. new \in Edits' /\ new \notin Edits
    BY <2>1 DEF Edits
  <2>5. /\ IsFiniteSet(Edits \cup {new})
        /\ Cardinality(Edits \cup {new}) = Cardinality(Edits) + 1
    BY <2>4, Countable, FS_AddElement
  <2>6. Edits \cup {new} \in SUBSET Edits'
    BY <2>3, <2>4
  <2>7. Cardinality(Edits \cup {new}) <= Cardinality(Edits')
    BY <2>6, CountableNext, FS_Subset
  <2> QED
    BY <2>3, <2>5, <2>7, Countable, CountableNext
<1>2. CASE \A d \in Desk : ~Read(d)
  <2>1. edits' = edits
    BY <1>2 DEF Next, Statement, vars, Wake, List, Take, Delivered, Failed, AnswerLost,
       Mark, Finish, Crash, Write, Commit, Abort, Tick
  <2> QED
    BY <1>2, <2>1 DEF Edits
<1> QED
  BY <1>1, <1>2

\* What may still cost a message is no more than it was, when neither the
\* sweep nor a desk has a new cause.
LEMMA OwingKept ==
  ASSUME NEW a \in Appt, Pending(a)' => Pending(a),
         \A d \in Desk : Stale(d, a)' => Stale(d, a)
  PROVE  /\ Owing(a)' \subseteq Owing(a)
         /\ Cardinality(Owing(a)') <= Cardinality(Owing(a))
<1>1. Owing(a)' \in SUBSET Owing(a)
  BY DEF Owing
<1> QED
  BY <1>1, Countable, FS_Subset

\* One more cause is one more message that may follow.
LEMMA OwingOne ==
  ASSUME NEW a \in Appt, NEW x, Owing(a)' \subseteq Owing(a) \cup {x}
  PROVE  Cardinality(Owing(a)') <= Cardinality(Owing(a)) + 1
<1>0. IsFiniteSet(Owing(a)) /\ Cardinality(Owing(a)) \in Nat
  BY Countable
<1>1. /\ IsFiniteSet(Owing(a) \cup {x})
      /\ Cardinality(Owing(a) \cup {x}) <= Cardinality(Owing(a)) + 1
      /\ Cardinality(Owing(a) \cup {x}) \in Nat
  BY <1>0, FS_AddElement
<1>2. Owing(a)' \in SUBSET (Owing(a) \cup {x})
  OBVIOUS
<1>3. Cardinality(Owing(a)') <= Cardinality(Owing(a) \cup {x})
  BY <1>1, <1>2, FS_Subset
<1> QED
  BY <1>1, <1>3, Countable, CountableNext

\* A cause that goes is a message less that may follow, even if the sweep
\* takes its place or takes its own turn.
LEMMA OwingLess ==
  ASSUME NEW a \in Appt, NEW x \in Owing(a), Owing(a)' \subseteq Owing(a) \ {x}
  PROVE  Cardinality(Owing(a)') + 1 <= Cardinality(Owing(a))
<1>1. /\ IsFiniteSet(Owing(a) \ {x})
      /\ Cardinality(Owing(a) \ {x}) = Cardinality(Owing(a)) - 1
  BY Countable, FS_RemoveElement
<1>2. Owing(a)' \in SUBSET (Owing(a) \ {x})
  OBVIOUS
<1>3. Cardinality(Owing(a)') <= Cardinality(Owing(a) \ {x})
  BY <1>1, <1>2, FS_Subset
<1> QED
  BY <1>1, <1>3, Countable, CountableNext

\* Every step pays for the message it sends or makes possible.
LEMMA CoveredStep == Account /\ [Next]_vars => Covered'
<1> SUFFICES ASSUME Account, [Next]_vars, NEW a \in Appt
             PROVE  Len(told'[a]) + Cardinality(Owing(a)')
                      <= 1 + faults' + Cardinality(Edits')
  BY DEF Covered
<1> DEFINE Sent == Len(told[a])
           Owed == Cardinality(Owing(a))
           Begun == Cardinality(Edits)
           Goal == Len(told'[a]) + Cardinality(Owing(a)')
                     <= 1 + faults' + Cardinality(Edits')
<1> USE NullAssumption, ConstantAssumption
<1>0. Inv /\ Batches /\ Drafts /\ Inv'
  BY TypeStep, ShapeStep, LeaseStep, ToldStep DEF Account, Inv
<1>1. /\ Sent \in Nat /\ Owed \in Nat /\ Begun \in Nat /\ faults \in Nat
      /\ Sent + Owed <= 1 + faults + Begun
      /\ Len(told'[a]) \in Nat /\ Cardinality(Owing(a)') \in Nat
      /\ Cardinality(Edits') \in Nat /\ faults' \in Nat
  BY <1>0, Countable, CountableNext DEF Account, Covered, Inv, TypeOK
<1>2. Begun <= Cardinality(Edits')
  BY <1>0, EditsStep, CountableNext, FS_Subset
<1>3. ASSUME NEW w \in Worker,
             Wake(w) \/ List(w) \/ Take(w) \/ Failed(w) \/ Mark(w) \/ Finish(w)
      PROVE  Goal
  <2>1. /\ told' = told /\ faults' = faults
        /\ \A v \in Worker : ~Crash(v)
        /\ \A d \in Desk : ~Commit(d) /\ ~Read(d)
    BY <1>0, <1>3 DEF Wake, List, Take, Failed, Mark, Finish, Crash, Commit, Read, Goto,
       Inv, TypeOK, Session
  <2>2. Cardinality(Owing(a)') <= Owed
    BY <1>0, <2>1, PendingKept, StaleKept, OwingKept
  <2> QED
    BY <1>1, <1>2, <2>1, <2>2
<1>4. ASSUME NEW w \in Worker, Delivered(w) \/ AnswerLost(w), a # current[w]
      PROVE  Goal
  <2>1. /\ told'[a] = told[a] /\ faults' >= faults
        /\ \A v \in Worker : ~Crash(v)
        /\ \A d \in Desk : ~Commit(d) /\ ~Read(d)
    <3>1. current[w] \in Appt /\ copy[w] \in Row /\ Tell(w)
      BY <1>0, <1>4 DEF Delivered, AnswerLost, Inv, Shape
    <3>2. told'[a] = told[a]
      BY <1>0, <1>4, <3>1, TellOnce DEF Inv
    <3>3. ASSUME NEW v \in Worker, Crash(v) PROVE FALSE
      <4>1. pc'[v] = "idle" /\ pc[v] # "idle"
        BY <1>0, <3>3 DEF Crash, Goto, Inv, TypeOK, Session
      <4>2. pc'[w] # "idle" /\ pc[w] # "idle"
        BY <1>0, <1>4 DEF Delivered, AnswerLost, AfterFailure, Goto, Inv, TypeOK, Session
      <4> QED
        BY <1>0, <4>1, <4>2 DEF Inv, OneTick
    <3>4. faults' >= faults
      BY <1>1, <1>4 DEF Delivered, AnswerLost
    <3>5. ASSUME NEW d \in Desk, Commit(d) \/ Read(d) PROVE FALSE
      <4>1. pc'[d] # pc[d]
        BY <1>0, <3>5 DEF Commit, Read, Goto, Inv, TypeOK, Session
      <4> QED
        BY <1>0, <1>4, <4>1 DEF Delivered, AnswerLost, Goto, Inv, TypeOK, Session
    <3> QED
      BY <3>2, <3>3, <3>4, <3>5
  <2>2. Cardinality(Owing(a)') <= Owed
    BY <1>0, <2>1, PendingKept, StaleKept, OwingKept
  <2> QED
    BY <1>1, <1>2, <2>1, <2>2
<1>5. ASSUME NEW w \in Worker, Delivered(w), a = current[w] PROVE Goal
  <2>1. Len(told'[a]) = Sent + 1
    <3>1. current[w] \in Appt /\ copy[w] \in Row /\ Tell(w)
      BY <1>0, <1>5 DEF Delivered, Inv, Shape
    <3> QED
      BY <1>0, <1>5, <3>1, TellOnce DEF Inv
  <2>2. Pending(a)
    <3>1. \A v \in Worker : v # w => pc[v] = "idle"
      BY <1>0, <1>5 DEF Delivered, Inv, OneTick
    <3> QED
      BY <1>5, <3>1 DEF Delivered, Pending, Ahead
  <2>3. ~Pending(a)'
    <3>1. pc'[w] = "mark" /\ current'[w] = a
      BY <1>0, <1>5 DEF Delivered, Goto, Inv, TypeOK, Session
    <3> QED
      BY <3>1 DEF Pending
  <2>4. \A d \in Desk : Stale(d, a)' => Stale(d, a)
    <3>1. \A d \in Desk : ~Read(d)
      BY <1>0, <1>5 DEF Delivered, Read, Goto, Inv, TypeOK, Session
    <3> QED
      BY <1>0, <3>1, StaleKept
  <2>5. Null \in Owing(a) /\ Owing(a)' \subseteq Owing(a) \ {Null}
    BY <2>2, <2>3, <2>4 DEF Owing
  <2>6. Cardinality(Owing(a)') + 1 <= Owed
    BY <2>5, OwingLess
  <2>7. faults' = faults
    BY <1>5 DEF Delivered
  <2> QED
    BY <1>1, <1>2, <2>1, <2>6, <2>7
<1>6. ASSUME NEW w \in Worker, AnswerLost(w), a = current[w] PROVE Goal
  <2>1. Len(told'[a]) = Sent + 1
    <3>1. current[w] \in Appt /\ copy[w] \in Row /\ Tell(w)
      BY <1>0, <1>6 DEF AnswerLost, Inv, Shape
    <3> QED
      BY <1>0, <1>6, <3>1, TellOnce DEF Inv
  <2>2. /\ faults' = faults + 1
        /\ \A v \in Worker : ~Crash(v)
        /\ \A d \in Desk : ~Commit(d) /\ ~Read(d)
    BY <1>0, <1>6 DEF AnswerLost, AfterFailure, Tell, Crash, Commit, Read, Goto, Inv,
       TypeOK, Shape, Session
  <2>3. Cardinality(Owing(a)') <= Owed
    BY <1>0, <2>2, PendingKept, StaleKept, OwingKept
  <2> QED
    BY <1>1, <1>2, <2>1, <2>2, <2>3
<1>7. ASSUME NEW w \in Worker, Crash(w) PROVE Goal
  <2>1. told' = told /\ faults' = faults + 1
    BY <1>7 DEF Crash
  <2>2. \A d \in Desk : ~Read(d)
    BY <1>0, <1>7 DEF Crash, Read, Goto, Inv, TypeOK, Session
  <2>3. \A d \in Desk : Stale(d, a)' => Stale(d, a)
    BY <1>0, <2>2, StaleKept
  <2>4. Owing(a)' \subseteq Owing(a) \cup {Null}
    BY <2>3 DEF Owing
  <2>5. Cardinality(Owing(a)') <= Owed + 1
    BY <2>4, OwingOne
  <2> QED
    BY <1>1, <1>2, <2>1, <2>5
<1>8. ASSUME NEW d \in Desk, Read(d) PROVE Goal
  <2>1. /\ told' = told /\ faults' = faults
        /\ \A v \in Worker : ~Crash(v)
        /\ \A b \in Desk : ~Commit(b)
        /\ \A b \in Desk : b # d => ~Read(b)
    BY <1>0, <1>8 DEF Read, Crash, Commit, Goto, Inv, TypeOK, Session
  <2>2. Pending(a)' => Pending(a)
    BY <1>0, <2>1, PendingKept
  <2>3. \A b \in Desk : b # d => (Stale(b, a)' => Stale(b, a))
    BY <1>0, <2>1, StaleKept
  <2>4. Owing(a)' \subseteq Owing(a) \cup {d}
    BY <2>2, <2>3 DEF Owing
  <2>5. Cardinality(Owing(a)') <= Owed + 1
    BY <2>4, OwingOne
  <2>6. Cardinality(Edits') >= Begun + 1
    BY <1>0, <1>8, EditsStep
  <2> QED
    BY <1>1, <2>1, <2>5, <2>6
<1>9. ASSUME NEW d \in Desk, Commit(d) PROVE Goal
  <2>1. /\ told' = told /\ faults' = faults
        /\ \A v \in Worker : ~Crash(v)
        /\ \A b \in Desk : ~Read(b)
        /\ \A b \in Desk : b # d => ~Commit(b)
        /\ pc'[d] = "idle"
    BY <1>0, <1>9 DEF Read, Crash, Commit, Goto, Inv, TypeOK, Session
  <2>2. \A b \in Desk : Stale(b, a)' => Stale(b, a)
    BY <1>0, <2>1, StaleKept
  <2>3. CASE ~Stale(d, a)
    <3>1. Pending(a)' => Pending(a)
      BY <1>0, <2>1, <2>3, PendingKept
    <3> QED
      BY <1>1, <1>2, <2>1, <2>2, <3>1, OwingKept
  <2>4. CASE Stale(d, a)
    <3> DEFINE rest == Owing(a) \ {d}
    <3>1. d \in Owing(a) /\ d \notin Owing(a)'
      BY <2>1, <2>4 DEF Owing, Stale
    <3>2. /\ IsFiniteSet(rest)
          /\ Cardinality(rest) \in Nat
          /\ Cardinality(rest) = Owed - 1
      BY <3>1, Countable, FS_RemoveElement, FS_CardinalityType
    <3> HIDE DEF rest
    <3>3. /\ IsFiniteSet(rest \cup {Null})
          /\ Cardinality(rest \cup {Null}) <= Cardinality(rest) + 1
      BY <3>2, FS_AddElement
    <3>4. Owing(a)' \in SUBSET (rest \cup {Null})
      BY <2>2, <3>1 DEF Owing, rest
    <3>5. Cardinality(Owing(a)') <= Cardinality(rest \cup {Null})
      BY <3>3, <3>4, FS_Subset
    <3>6. Cardinality(rest \cup {Null}) \in Nat
      BY <3>3, FS_CardinalityType
    <3>7. Cardinality(Owing(a)') <= Owed
      BY <1>1, <3>2, <3>3, <3>5, <3>6
    <3> QED
      BY <1>1, <1>2, <2>1, <3>7
  <2> QED
    BY <2>3, <2>4
<1>10. ASSUME NEW d \in Desk, Write(d) \/ Abort(d) PROVE Goal
  <2>1. /\ told' = told /\ faults' = faults
        /\ \A v \in Worker : ~Crash(v)
        /\ \A b \in Desk : ~Read(b)
    BY <1>0, <1>10 DEF Write, Abort, Read, Crash, Goto, Inv, TypeOK, Session
  <2>2. \A b \in Desk : Stale(b, a)' => Stale(b, a)
    BY <1>0, <2>1, StaleKept
  <2>3. Pending(a)' => Pending(a)
    <3>1. /\ batch' = batch /\ appts' = appts
          /\ \A v \in Worker : pc'[v] = pc[v] /\ current'[v] = current[v]
      BY <1>0, <1>10 DEF Write, Abort, A!Put, A!Rollback, Forget, Goto,
         Inv, TypeOK, Session, table
    <3> QED
      BY <3>1 DEF Pending, Ahead
  <2> QED
    BY <1>1, <1>2, <2>1, <2>2, <2>3, OwingKept
<1>11. CASE Tick \/ UNCHANGED vars
  <2>1. told' = told /\ faults' = faults
    BY <1>11 DEF Tick, vars
  <2>2. Owing(a)' = Owing(a)
    BY <1>11 DEF Tick, vars, table, Owing, Pending, Ahead, Stale
  <2> QED
    BY <1>1, <1>2, <2>1, <2>2
<1> QED
  BY <1>3, <1>4, <1>5, <1>6, <1>7, <1>8, <1>9, <1>10, <1>11 DEF Next, Statement

\* The first message is the one the sweep owes every customer at the start.
LEMMA InitAccount == Init => Account
<1> SUFFICES ASSUME Init PROVE Batches /\ Drafts /\ Covered
  BY InitInv DEF Account
<1>1. Batches /\ Drafts
  BY DEF Init, Batches, Drafts, Session
<1>2. ASSUME NEW a \in Appt
      PROVE  Len(told[a]) + Cardinality(Owing(a)) <= 1 + faults + Cardinality(Edits)
  <2>1. Owing(a) \in SUBSET {Null}
    BY DEF Init, Owing, Stale, Session
  <2>2. Cardinality(Owing(a)) <= 1
    <3>1. IsFiniteSet({Null}) /\ Cardinality({Null}) = 1
      BY FS_Singleton
    <3>2. Cardinality(Owing(a)) <= Cardinality({Null})
      BY <2>1, <3>1, FS_Subset
    <3> QED
      BY <3>1, <3>2
  <2>3. told[a] = << >> /\ faults = 0
    BY DEF Init
  <2>4. Len(told[a]) = 0
    BY <2>3
  <2> QED
    BY <2>2, <2>3, <2>4, Countable
<1> QED
  BY <1>1, <1>2 DEF Covered

\* The inductive invariant of the account.
THEOREM AccountInvariant == Spec => []Account
<1>1. Account /\ [Next]_vars => Account'
  BY TypeStep, ShapeStep, LeaseStep, ToldStep, BatchesStep, DraftsStep, CoveredStep
  DEF Account, Inv
<1> QED
  BY InitAccount, <1>1, PTL DEF Spec

\* Each customer gets one reminder, and one more at most for each crash, each
\* lost answer and each edit: the workers alone remind nobody twice.
THEOREM RemindersArePaid == Spec => []Paid
<1>1. Account => Paid
  <2> SUFFICES ASSUME Account, NEW a \in Appt
               PROVE  Len(told[a]) <= 1 + faults + Cardinality(Edits)
    BY DEF Paid
  <2>1. Len(told[a]) + Cardinality(Owing(a)) <= 1 + faults + Cardinality(Edits)
    BY DEF Account, Covered
  <2>2. Len(told[a]) \in Nat /\ faults \in Nat
    BY DEF Account, Inv, TypeOK
  <2> QED
    BY <2>1, <2>2, Countable
<1> QED
  BY <1>1, AccountInvariant, PTL

================================================================================
