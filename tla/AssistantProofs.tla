---------------------------- MODULE AssistantProofs ----------------------------
(***************************************************************************)
(* Theorems about the assistant that a business has on WhatsApp.  Inbox:   *)
(* types, the bound on the follow-ups a contact gets, that each message is *)
(* answered once, and that no follow-up goes out on a thread last written  *)
(* by an answer, a takeover or a sign-off.  Reception: types, that a hold  *)
(* is only ever booked for the service it was taken for, and that one ask  *)
(* makes one appointment.                                                  *)
(***************************************************************************)
EXTENDS Inbox, Reception, FiniteSetTheorems, TLAPS

-----------------------------------------------------------------------------
(* Inbox *)


\* What each session has in its memory at each stage.
Memory ==
  /\ \A s \in Sweeper : pc[s] \in { "idle", "sweeping", "locked", "sent" }
  /\ \A h \in Hook :
       /\ pc[h] \in { "idle", "storing" }
       /\ pc[h] = "idle" => news[h] = Null
       /\ pc[h] # "idle" => news[h] \in Msg /\ at[h] = On[news[h]] /\ copy[h] \in Row
  /\ \A r \in Replier :
       /\ pc[r] \in { "idle", "answering", "noting", "writing" }
       /\ pc[r] = "idle" => news[r] = Null
       /\ pc[r] # "idle" => news[r] \in Msg /\ at[r] \in Thread
       /\ pc[r] = "writing" => copy[r] \in Row
  /\ \A d \in Desk :
       /\ pc[d] \in { "idle", "sending", "editing" }
       /\ pc[d] # "idle" => at[d] \in Thread /\ copy[d] \in Row /\ op[d] \in Ops

\* A locked row is the copy its sweep decides by, and that copy is due.
Locks ==
  /\ \A t \in Thread :
       lock[t] # Null => at[lock[t]] = t /\ pc[lock[t]] \in { "locked", "sent" }
  /\ \A s \in Sweeper :
       pc[s] \in { "locked", "sent" } =>
         /\ at[s] \in Thread /\ lock[at[s]] = s
         /\ copy[s] = row[at[s]] /\ FollowUpDue(copy[s])

\* What the last write of a row says of the row.
Quiet ==
  \A t \in Thread :
    /\ last[t] \in { "in", "signoff", "stop" } => row[t].awaiting = "no"
    /\ last[t] = "takeover" => ~row[t].auto

\* Whether the follow-up of thread t is out and not yet on the row.
InFlight(t) == lock[t] # Null /\ pc[lock[t]] = "sent"

\* Every follow-up sent is on the row, or accounted for.
Balanced(t) ==
  nudged[t] <= row[t].sent + undone[t] + unrecorded[t] + (IF InFlight(t) THEN 1 ELSE 0)

Accounted == \A t \in Thread : Balanced(t)

\* A message is on its way, or in one hook, or stored; and once stored its
\* answer is scheduled, or in one slot, or sent.
OneAnswer ==
  \A m \in Msg :
    /\ wire[m] = 0 \/ \A h \in Hook : news[h] # m
    /\ \A h, k \in Hook : news[h] = m /\ news[k] = m => h = k
    /\ \A h \in Hook : news[h] = m => m \notin stored
    /\ m \notin stored => queue[m] = 0 /\ answers[m] = 0 /\ \A r \in Replier : news[r] # m
    /\ queue[m] <= 1
    /\ queue[m] = 1 => answers[m] = 0 /\ \A r \in Replier : news[r] # m
    /\ \A r, q \in Replier : news[r] = m /\ news[q] = m => r = q
    /\ \A r \in Replier : news[r] = m /\ pc[r] = "answering" => answers[m] = 0
    /\ answers[m] <= 1

Inv == TypeOK /\ Memory /\ Locks /\ Quiet /\ Accounted

USE ConstantAssumption, NullAssumption DEF Session, Goto

LEMMA InitInv == Init => Inv
<1> SUFFICES ASSUME Init PROVE Inv
  OBVIOUS
<1>1. Opened \subseteq Row
  BY DEF Opened, Row
<1>2. row \in [ Thread -> Row ]
  BY <1>1 DEF Init
<1>3. TypeOK
  BY <1>2 DEF Init, TypeOK
<1>4. Memory
  BY DEF Init, Memory
<1>5. Locks
  BY DEF Init, Locks
<1>6. Quiet
  BY DEF Init, Quiet
<1>7. Accounted
  BY <1>2 DEF Init, Accounted, Balanced, InFlight, Row
<1> QED
  BY <1>3, <1>4, <1>5, <1>6, <1>7 DEF Inv

\* What the entity and the desk make of a row is a row; only an answer and a
\* follow-up change how many were sent.
LEMMA RowFacts ==
  ASSUME NEW c \in Row
  PROVE  /\ Heard(c) \in Row /\ Said(c) \in Row /\ Stopped(c) \in Row
         /\ Heard(c).awaiting = "no" /\ Stopped(c).awaiting = "no"
         /\ Said(c).sent = c.sent /\ Stopped(c).sent = c.sent
         /\ FollowUpDue(c) => Recorded(c) \in Row /\ Recorded(c).sent = c.sent + 1
         /\ IsFinal(c) => Recorded(c).awaiting = "no"
         /\ \A o \in Ops : Edited(o, c) \in Row /\ Edited(o, c).sent = c.sent
         /\ ~Edited("takeover", c).auto
<1>0. c.auto \in BOOLEAN /\ c.sent \in 0 .. MaxFollowUps + 1
  BY DEF Row
<1>1. Heard(c) \in Row /\ Heard(c).awaiting = "no"
  <2>1. 0 \in 0 .. MaxFollowUps + 1
    OBVIOUS
  <2> QED
    BY <1>0, <2>1 DEF Row, Heard
<1>2. Said(c) \in Row /\ Said(c).sent = c.sent
  BY DEF Row, Said
<1>3. Stopped(c) \in Row /\ Stopped(c).sent = c.sent /\ Stopped(c).awaiting = "no"
  BY DEF Row, Stopped
<1>4. FollowUpDue(c) => Recorded(c) \in Row /\ Recorded(c).sent = c.sent + 1
  <2> SUFFICES ASSUME FollowUpDue(c) PROVE Recorded(c) \in Row /\ Recorded(c).sent = c.sent + 1
    OBVIOUS
  <2>1. c.sent + 1 \in 0 .. MaxFollowUps + 1
    BY <1>0 DEF FollowUpDue
  <2> QED
    BY <1>0, <2>1 DEF Row, Recorded
<1>5. IsFinal(c) => Recorded(c).awaiting = "no"
  BY DEF Row, Recorded
<1>6. ASSUME NEW o \in Ops PROVE Edited(o, c) \in Row /\ Edited(o, c).sent = c.sent
  <2>1. CASE o = "send"
    BY <1>2, <2>1 DEF Edited
  <2>2. CASE o = "edit"
    BY <2>2 DEF Edited
  <2>3. CASE o = "takeover"
    BY <2>3 DEF Edited, Row
  <2>4. CASE o = "handback"
    BY <2>4 DEF Edited, Row
  <2> QED
    BY <2>1, <2>2, <2>3, <2>4
<1>7. ~Edited("takeover", c).auto
  BY DEF Edited, Row
<1> QED
  BY <1>1, <1>2, <1>3, <1>4, <1>5, <1>6, <1>7

\* What a write takes off the row is a number, and the difference.
LEMMA LostFacts ==
  ASSUME TypeOK, NEW t \in Thread, NEW c \in Row
  PROVE  Lost(t, c) \in Nat /\ row[t].sent <= c.sent + Lost(t, c)
<1>1. row[t].sent \in Nat /\ c.sent \in Nat
  BY DEF TypeOK, Row
<1> QED
  BY <1>1 DEF Lost

\* The type invariant is preserved.
LEMMA TypeStep == Inv /\ [Next]_vars => TypeOK'
<1> SUFFICES ASSUME Inv, [Next]_vars PROVE TypeOK'
  OBVIOUS
<1>1. ASSUME NEW t \in Thread, Elapse(t) PROVE TypeOK'
  <2>1. [ row[t] EXCEPT !.awaiting = "overdue" ] \in Row
    <3>1. row[t] \in Row
      BY DEF Inv, TypeOK
    <3> QED
      BY <3>1 DEF Row
  <2>2. row' \in [ Thread -> Row ]
    BY <1>1, <2>1 DEF Elapse, Inv, TypeOK
  <2> QED
    BY <1>1, <2>2 DEF Elapse, Inv, TypeOK, mail, past, mind
<1>2. ASSUME NEW s \in Sweeper, ListDue(s) PROVE TypeOK'
  BY <1>2 DEF ListDue, Due, Inv, TypeOK, mail, past, mind
<1>3. ASSUME NEW s \in Sweeper, NEW t \in Thread, LockForFollowUp(s, t) PROVE TypeOK'
  <2>1. CASE Skipped(t) \/ ~StillDue(t)
    BY <1>3, <2>1 DEF LockForFollowUp, Resume, Inv, TypeOK, mail, past, mind
  <2>2. CASE ~(Skipped(t) \/ ~StillDue(t))
    <3>1. row[t] \in Row
      BY DEF Inv, TypeOK
    <3>2. copy' \in [ Session -> Row \cup { Null } ]
      BY <1>3, <2>2, <3>1 DEF LockForFollowUp, Inv, TypeOK
    <3>3. lock' \in [ Thread -> Sweeper \cup { Null } ] /\ at' \in [ Session -> Thread \cup { Null } ]
      BY <1>3, <2>2 DEF LockForFollowUp, Inv, TypeOK
    <3>4. pc' = [ pc EXCEPT ![s] = "locked" ]
      BY <1>3, <2>2 DEF LockForFollowUp
    <3> QED
      BY <1>3, <2>2, <3>2, <3>3, <3>4 DEF LockForFollowUp, Inv, TypeOK, mail, past
  <2> QED
    BY <1>3, <2>1, <2>2
<1>4. ASSUME NEW s \in Sweeper, Nudge(s) PROVE TypeOK'
  <2>1. at[s] \in Thread
    BY <1>4 DEF Nudge, Inv, TypeOK, Memory, Locks
  <2> QED
    BY <1>4, <2>1 DEF Nudge, Inv, TypeOK, mail, past, mind
<1>5. ASSUME NEW s \in Sweeper, NudgeFailed(s) PROVE TypeOK'
  <2>1. at[s] \in Thread
    BY <1>5 DEF NudgeFailed, Inv, TypeOK, Memory, Locks
  <2> QED
    BY <1>5, <2>1 DEF NudgeFailed, Resume, Inv, TypeOK, mail, past, mind
<1>6. ASSUME NEW s \in Sweeper, NudgeRefused(s) PROVE TypeOK'
  <2>1. at[s] \in Thread /\ copy[s] \in Row /\ Stopped(copy[s]) \in Row
    BY <1>6, RowFacts DEF NudgeRefused, Inv, TypeOK, Memory, Locks
  <2> QED
    BY <1>6, <2>1 DEF NudgeRefused, WriteRow, Resume, Inv, TypeOK, mail, past, mind
<1>7. ASSUME NEW s \in Sweeper, RecordFollowUp(s) PROVE TypeOK'
  <2>1. at[s] \in Thread /\ copy[s] \in Row /\ Recorded(copy[s]) \in Row
    BY <1>7, RowFacts DEF RecordFollowUp, Inv, TypeOK, Memory, Locks
  <2> QED
    BY <1>7, <2>1 DEF RecordFollowUp, WriteRow, Resume, Inv, TypeOK, mail, past, mind
<1>8. ASSUME NEW m \in Msg, Arrive(m) PROVE TypeOK'
  BY <1>8 DEF Arrive, Inv, TypeOK, mail, past, mind
<1>9. ASSUME NEW m \in Msg, Redeliver(m) PROVE TypeOK'
  BY <1>9 DEF Redeliver, Faulty, Inv, TypeOK, mail, past, mind
<1>10. ASSUME NEW h \in Hook, NEW m \in Msg, Receive(h, m) PROVE TypeOK'
  BY <1>10 DEF Receive, MessageExists, Inv, TypeOK, mail, past, mind
<1>11. ASSUME NEW h \in Hook, StoreInbound(h) PROVE TypeOK'
  <2>1. at[h] \in Thread /\ copy[h] \in Row /\ Heard(copy[h]) \in Row
    BY <1>11, RowFacts DEF StoreInbound, Inv, TypeOK, Memory, Locks
  <2> QED
    <3>1. news[h] \in Msg
      BY <1>11 DEF StoreInbound, Inv, Memory
    <3>2. queue' \in [ Msg -> Nat ] /\ stored' \subseteq Msg
      BY <1>11, <3>1 DEF StoreInbound, Inv, TypeOK
    <3> QED
      BY <1>11, <2>1, <3>2 DEF StoreInbound, WriteRow, Done, Inv, TypeOK, mail, past, mind
<1>12. ASSUME NEW h \in Hook, StoreTyped(h) PROVE TypeOK'
  <2>1. at[h] \in Thread /\ copy[h] \in Row /\ Said(copy[h]) \in Row
    BY <1>12, RowFacts DEF StoreTyped, Inv, TypeOK, Memory, Locks
  <2>3. Lost(at[h], Said(copy[h])) \in Nat /\ row[at[h]].sent <= Said(copy[h]).sent + Lost(at[h], Said(copy[h]))
    BY <2>1, LostFacts DEF Inv
  <2> QED
    BY <1>12, <2>1, <2>3 DEF StoreTyped, WriteRow, Done, Inv, TypeOK, mail, past, mind
<1>13. ASSUME NEW r \in Replier, NEW m \in Msg, BeginReply(r, m) PROVE TypeOK'
  BY <1>13 DEF BeginReply, Inv, TypeOK, mail, past, mind
<1>14. ASSUME NEW r \in Replier, SendReply(r) PROVE TypeOK'
  <2>1. news[r] \in Msg /\ at[r] \in Thread
    BY <1>14 DEF SendReply, Inv, Memory
  <2> QED
    BY <1>14, <2>1 DEF SendReply, Inv, TypeOK, mail, past, mind
<1>15. ASSUME NEW r \in Replier, ReplyFailed(r) PROVE TypeOK'
  BY <1>15 DEF ReplyFailed, Done, Faulty, Inv, TypeOK, mail, past, mind
<1>16. ASSUME NEW r \in Replier, ReadToNote(r) PROVE TypeOK'
  <2>1. at[r] \in Thread /\ row[at[r]] \in Row
    BY <1>16 DEF ReadToNote, Inv, TypeOK, Memory
  <2> QED
    BY <1>16, <2>1 DEF ReadToNote, Inv, TypeOK, mail, past, mind
<1>17. ASSUME NEW r \in Replier, NoteReply(r) PROVE TypeOK'
  <2>1. at[r] \in Thread /\ copy[r] \in Row /\ Said(copy[r]) \in Row
    BY <1>17, RowFacts DEF NoteReply, Inv, TypeOK, Memory, Locks
  <2>3. Lost(at[r], Said(copy[r])) \in Nat /\ row[at[r]].sent <= Said(copy[r]).sent + Lost(at[r], Said(copy[r]))
    BY <2>1, LostFacts DEF Inv
  <2> QED
    BY <1>17, <2>1, <2>3 DEF NoteReply, WriteRow, Done, Inv, TypeOK, mail, past, mind
<1>18. ASSUME NEW d \in Desk, NEW t \in Thread, NEW o \in Ops, AskDesk(d, t, o) PROVE TypeOK'
  BY <1>18 DEF AskDesk, Inv, TypeOK, mail, past, mind
<1>19. ASSUME NEW d \in Desk, SendByHand(d) PROVE TypeOK'
  BY <1>19 DEF SendByHand, Inv, TypeOK, mail, past, mind
<1>20. ASSUME NEW d \in Desk, SendRefused(d) PROVE TypeOK'
  BY <1>20 DEF SendRefused, Done, Inv, TypeOK, mail, past, mind
<1>21. ASSUME NEW d \in Desk, UpdateConversation(d) PROVE TypeOK'
  <2>2. op[d] \in Ops
    BY <1>21 DEF UpdateConversation, Inv, Memory
  <2>1. at[d] \in Thread /\ copy[d] \in Row /\ Edited(op[d], copy[d]) \in Row
    BY <1>21, RowFacts DEF UpdateConversation, Inv, TypeOK, Memory, Locks
  <2>3. Lost(at[d], Edited(op[d], copy[d])) \in Nat /\ row[at[d]].sent <= Edited(op[d], copy[d]).sent + Lost(at[d], Edited(op[d], copy[d]))
    BY <2>1, LostFacts DEF Inv
  <2> QED
    <3>1. (IF op[d] = "send" THEN "out" ELSE op[d]) \in { "out", "edit", "takeover", "handback" }
      BY <2>2
    <3>2. last' \in [ Thread -> { "in", "out", "nudge", "signoff", "stop",
                                  "edit", "takeover", "handback" } ]
      BY <1>21, <2>1, <3>1 DEF UpdateConversation, WriteRow, Inv, TypeOK
    <3>3. undone' \in [ Thread -> Nat ]
      BY <1>21, <2>1, <2>3 DEF UpdateConversation, Inv, TypeOK
    <3>4. row' \in [ Thread -> Row ] /\ lock' \in [ Thread -> Sweeper \cup { Null } ]
      BY <1>21, <2>1 DEF UpdateConversation, WriteRow, Inv, TypeOK
    <3> QED
      BY <1>21, <3>2, <3>3, <3>4 DEF UpdateConversation, Done, Inv, TypeOK, mail
<1>22. ASSUME NEW s \in Session, Crash(s) PROVE TypeOK'
  BY <1>22 DEF Crash, Done, Faulty, Inv, TypeOK, mail, past, mind
<1>23. ASSUME UNCHANGED vars PROVE TypeOK'
  BY <1>23 DEF vars, mind, mail, past, Inv, TypeOK, mail, past, mind
<1> QED
  BY <1>1, <1>2, <1>3, <1>4, <1>5, <1>6, <1>7, <1>8, <1>9, <1>10, <1>11,
     <1>12, <1>13, <1>14, <1>15, <1>16, <1>17, <1>18, <1>19, <1>20, <1>21,
     <1>22, <1>23
     DEF Next, Sweep, Handle, Reply, Serve

\* Every session keeps what its stage says.
LEMMA MemoryStep == Inv /\ [Next]_vars => Memory'
<1> SUFFICES ASSUME Inv, [Next]_vars PROVE Memory'
  OBVIOUS
<1>1. ASSUME NEW t \in Thread, Elapse(t) PROVE Memory'
  BY <1>1 DEF Elapse, Inv, TypeOK, Memory, mail, past, mind
<1>2. ASSUME NEW s \in Sweeper, ListDue(s) PROVE Memory'
  BY <1>2 DEF ListDue, Inv, TypeOK, Memory, mail, past, mind
<1>3. ASSUME NEW s \in Sweeper, NEW t \in Thread, LockForFollowUp(s, t) PROVE Memory'
  <2>1. CASE Skipped(t) \/ ~StillDue(t)
    BY <1>3, <2>1 DEF LockForFollowUp, Resume, Inv, TypeOK, Memory, mail, past, mind
  <2>2. CASE ~(Skipped(t) \/ ~StillDue(t))
    <3>1. row[t] \in Row
      BY DEF Inv, TypeOK
    <3> QED
      BY <1>3, <2>2, <3>1 DEF LockForFollowUp, Inv, TypeOK, Memory, mail, past, mind
  <2> QED
    BY <2>1, <2>2
<1>4. ASSUME NEW s \in Sweeper, Nudge(s) PROVE Memory'
  BY <1>4 DEF Nudge, Inv, TypeOK, Memory, mail, past, mind
<1>5. ASSUME NEW s \in Sweeper, NudgeFailed(s) PROVE Memory'
  BY <1>5 DEF NudgeFailed, Resume, Inv, TypeOK, Memory, mail, past, mind
<1>6. ASSUME NEW s \in Sweeper, NudgeRefused(s) PROVE Memory'
  <2>1. at[s] \in Thread /\ copy[s] \in Row /\ Stopped(copy[s]) \in Row
    BY <1>6, RowFacts DEF NudgeRefused, Inv, TypeOK, Memory, Locks
  <2> QED
    BY <1>6, <2>1 DEF NudgeRefused, WriteRow, Resume, Inv, TypeOK, Memory, mail, past, mind
<1>7. ASSUME NEW s \in Sweeper, RecordFollowUp(s) PROVE Memory'
  <2>1. at[s] \in Thread /\ copy[s] \in Row /\ Recorded(copy[s]) \in Row
    BY <1>7, RowFacts DEF RecordFollowUp, Inv, TypeOK, Memory, Locks
  <2> QED
    BY <1>7, <2>1 DEF RecordFollowUp, WriteRow, Resume, Inv, TypeOK, Memory, mail, past, mind
<1>8. ASSUME NEW m \in Msg, Arrive(m) PROVE Memory'
  BY <1>8 DEF Arrive, Inv, TypeOK, Memory, mail, past, mind
<1>9. ASSUME NEW m \in Msg, Redeliver(m) PROVE Memory'
  BY <1>9 DEF Redeliver, Faulty, Inv, TypeOK, Memory, mail, past, mind
<1>10. ASSUME NEW h \in Hook, NEW m \in Msg, Receive(h, m) PROVE Memory'
  BY <1>10 DEF Receive, MessageExists, Inv, TypeOK, Memory, mail, past, mind
<1>11. ASSUME NEW h \in Hook, StoreInbound(h) PROVE Memory'
  <2>1. at[h] \in Thread /\ copy[h] \in Row /\ Heard(copy[h]) \in Row
    BY <1>11, RowFacts DEF StoreInbound, Inv, TypeOK, Memory, Locks
  <2> QED
    BY <1>11, <2>1 DEF StoreInbound, WriteRow, Done, Inv, TypeOK, Memory, mail, past, mind
<1>12. ASSUME NEW h \in Hook, StoreTyped(h) PROVE Memory'
  <2>1. at[h] \in Thread /\ copy[h] \in Row /\ Said(copy[h]) \in Row
    BY <1>12, RowFacts DEF StoreTyped, Inv, TypeOK, Memory, Locks
  <2> QED
    BY <1>12, <2>1 DEF StoreTyped, WriteRow, Done, Inv, TypeOK, Memory, mail, past, mind
<1>13. ASSUME NEW r \in Replier, NEW m \in Msg, BeginReply(r, m) PROVE Memory'
  BY <1>13 DEF BeginReply, Inv, TypeOK, Memory, mail, past, mind
<1>14. ASSUME NEW r \in Replier, SendReply(r) PROVE Memory'
  BY <1>14 DEF SendReply, Inv, TypeOK, Memory, mail, past, mind
<1>15. ASSUME NEW r \in Replier, ReplyFailed(r) PROVE Memory'
  BY <1>15 DEF ReplyFailed, Done, Faulty, Inv, TypeOK, Memory, mail, past, mind
<1>16. ASSUME NEW r \in Replier, ReadToNote(r) PROVE Memory'
  BY <1>16 DEF ReadToNote, Inv, TypeOK, Memory, mail, past, mind
<1>17. ASSUME NEW r \in Replier, NoteReply(r) PROVE Memory'
  <2>1. at[r] \in Thread /\ copy[r] \in Row /\ Said(copy[r]) \in Row
    BY <1>17, RowFacts DEF NoteReply, Inv, TypeOK, Memory, Locks
  <2> QED
    BY <1>17, <2>1 DEF NoteReply, WriteRow, Done, Inv, TypeOK, Memory, mail, past, mind
<1>18. ASSUME NEW d \in Desk, NEW t \in Thread, NEW o \in Ops, AskDesk(d, t, o) PROVE Memory'
  BY <1>18 DEF AskDesk, Inv, TypeOK, Memory, mail, past, mind
<1>19. ASSUME NEW d \in Desk, SendByHand(d) PROVE Memory'
  BY <1>19 DEF SendByHand, Inv, TypeOK, Memory, mail, past, mind
<1>20. ASSUME NEW d \in Desk, SendRefused(d) PROVE Memory'
  BY <1>20 DEF SendRefused, Done, Inv, TypeOK, Memory, mail, past, mind
<1>21. ASSUME NEW d \in Desk, UpdateConversation(d) PROVE Memory'
  <2>1. at[d] \in Thread /\ copy[d] \in Row /\ Edited(op[d], copy[d]) \in Row
    BY <1>21, RowFacts DEF UpdateConversation, Inv, TypeOK, Memory, Locks
  <2> QED
    BY <1>21, <2>1 DEF UpdateConversation, WriteRow, Done, Inv, TypeOK, Memory, mail, past, mind
<1>22. ASSUME NEW s \in Session, Crash(s) PROVE Memory'
  BY <1>22 DEF Crash, Done, Faulty, Inv, TypeOK, Memory, mail, past, mind
<1>23. ASSUME UNCHANGED vars PROVE Memory'
  BY <1>23 DEF vars, mind, mail, past, Inv, TypeOK, Memory, mail, past, mind
<1> QED
  BY <1>1, <1>2, <1>3, <1>4, <1>5, <1>6, <1>7, <1>8, <1>9, <1>10, <1>11,
     <1>12, <1>13, <1>14, <1>15, <1>16, <1>17, <1>18, <1>19, <1>20, <1>21,
     <1>22, <1>23
     DEF Next, Sweep, Handle, Reply, Serve

\* A locked row stays as it is.
LEMMA LocksStep == Inv /\ [Next]_vars => Locks'
<1> SUFFICES ASSUME Inv, [Next]_vars PROVE Locks'
  OBVIOUS
<1>1. ASSUME NEW t \in Thread, Elapse(t) PROVE Locks'
  BY <1>1 DEF Elapse, Inv, TypeOK, Memory, Locks, FollowUpDue, mail, past, mind
<1>2. ASSUME NEW s \in Sweeper, ListDue(s) PROVE Locks'
  BY <1>2 DEF ListDue, Inv, TypeOK, Memory, Locks, FollowUpDue, mail, past, mind
<1>3. ASSUME NEW s \in Sweeper, NEW t \in Thread, LockForFollowUp(s, t) PROVE Locks'
  BY <1>3 DEF LockForFollowUp, Resume, Skipped, StillDue, Inv, TypeOK, Memory, Locks, FollowUpDue, mail, past, mind
<1>4. ASSUME NEW s \in Sweeper, Nudge(s) PROVE Locks'
  BY <1>4 DEF Nudge, Inv, TypeOK, Memory, Locks, FollowUpDue, mail, past, mind
<1>5. ASSUME NEW s \in Sweeper, NudgeFailed(s) PROVE Locks'
  BY <1>5 DEF NudgeFailed, Resume, Inv, TypeOK, Memory, Locks, FollowUpDue, mail, past, mind
<1>6. ASSUME NEW s \in Sweeper, NudgeRefused(s) PROVE Locks'
  <2>1. at[s] \in Thread /\ copy[s] \in Row /\ Stopped(copy[s]) \in Row
    BY <1>6, RowFacts DEF NudgeRefused, Inv, TypeOK, Memory, Locks
  <2> QED
    BY <1>6, <2>1 DEF NudgeRefused, WriteRow, Resume, Inv, TypeOK, Memory, Locks, FollowUpDue, mail, past, mind
<1>7. ASSUME NEW s \in Sweeper, RecordFollowUp(s) PROVE Locks'
  <2>1. at[s] \in Thread /\ copy[s] \in Row /\ Recorded(copy[s]) \in Row
    BY <1>7, RowFacts DEF RecordFollowUp, Inv, TypeOK, Memory, Locks
  <2> QED
    BY <1>7, <2>1 DEF RecordFollowUp, WriteRow, Resume, Inv, TypeOK, Memory, Locks, FollowUpDue, mail, past, mind
<1>8. ASSUME NEW m \in Msg, Arrive(m) PROVE Locks'
  BY <1>8 DEF Arrive, Inv, TypeOK, Memory, Locks, FollowUpDue, mail, past, mind
<1>9. ASSUME NEW m \in Msg, Redeliver(m) PROVE Locks'
  BY <1>9 DEF Redeliver, Faulty, Inv, TypeOK, Memory, Locks, FollowUpDue, mail, past, mind
<1>10. ASSUME NEW h \in Hook, NEW m \in Msg, Receive(h, m) PROVE Locks'
  BY <1>10 DEF Receive, MessageExists, Inv, TypeOK, Memory, Locks, FollowUpDue, mail, past, mind
<1>11. ASSUME NEW h \in Hook, StoreInbound(h) PROVE Locks'
  <2>1. at[h] \in Thread /\ copy[h] \in Row /\ Heard(copy[h]) \in Row
    BY <1>11, RowFacts DEF StoreInbound, Inv, TypeOK, Memory, Locks
  <2> QED
    BY <1>11, <2>1 DEF StoreInbound, WriteRow, Done, Inv, TypeOK, Memory, Locks, FollowUpDue, mail, past, mind
<1>12. ASSUME NEW h \in Hook, StoreTyped(h) PROVE Locks'
  <2>1. at[h] \in Thread /\ copy[h] \in Row /\ Said(copy[h]) \in Row
    BY <1>12, RowFacts DEF StoreTyped, Inv, TypeOK, Memory, Locks
  <2> QED
    BY <1>12, <2>1 DEF StoreTyped, WriteRow, Done, Inv, TypeOK, Memory, Locks, FollowUpDue, mail, past, mind
<1>13. ASSUME NEW r \in Replier, NEW m \in Msg, BeginReply(r, m) PROVE Locks'
  BY <1>13 DEF BeginReply, Inv, TypeOK, Memory, Locks, FollowUpDue, mail, past, mind
<1>14. ASSUME NEW r \in Replier, SendReply(r) PROVE Locks'
  BY <1>14 DEF SendReply, Inv, TypeOK, Memory, Locks, FollowUpDue, mail, past, mind
<1>15. ASSUME NEW r \in Replier, ReplyFailed(r) PROVE Locks'
  BY <1>15 DEF ReplyFailed, Done, Faulty, Inv, TypeOK, Memory, Locks, FollowUpDue, mail, past, mind
<1>16. ASSUME NEW r \in Replier, ReadToNote(r) PROVE Locks'
  BY <1>16 DEF ReadToNote, Inv, TypeOK, Memory, Locks, FollowUpDue, mail, past, mind
<1>17. ASSUME NEW r \in Replier, NoteReply(r) PROVE Locks'
  <2>1. at[r] \in Thread /\ copy[r] \in Row /\ Said(copy[r]) \in Row
    BY <1>17, RowFacts DEF NoteReply, Inv, TypeOK, Memory, Locks
  <2> QED
    BY <1>17, <2>1 DEF NoteReply, WriteRow, Done, Inv, TypeOK, Memory, Locks, FollowUpDue, mail, past, mind
<1>18. ASSUME NEW d \in Desk, NEW t \in Thread, NEW o \in Ops, AskDesk(d, t, o) PROVE Locks'
  BY <1>18 DEF AskDesk, Inv, TypeOK, Memory, Locks, FollowUpDue, mail, past, mind
<1>19. ASSUME NEW d \in Desk, SendByHand(d) PROVE Locks'
  BY <1>19 DEF SendByHand, Inv, TypeOK, Memory, Locks, FollowUpDue, mail, past, mind
<1>20. ASSUME NEW d \in Desk, SendRefused(d) PROVE Locks'
  BY <1>20 DEF SendRefused, Done, Inv, TypeOK, Memory, Locks, FollowUpDue, mail, past, mind
<1>21. ASSUME NEW d \in Desk, UpdateConversation(d) PROVE Locks'
  <2>1. at[d] \in Thread /\ copy[d] \in Row /\ Edited(op[d], copy[d]) \in Row
    BY <1>21, RowFacts DEF UpdateConversation, Inv, TypeOK, Memory, Locks
  <2> QED
    BY <1>21, <2>1 DEF UpdateConversation, WriteRow, Done, Inv, TypeOK, Memory, Locks, FollowUpDue, mail, past, mind
<1>22. ASSUME NEW s \in Session, Crash(s) PROVE Locks'
  BY <1>22 DEF Crash, Done, Faulty, Inv, TypeOK, Memory, Locks, FollowUpDue, mail, past, mind
<1>23. ASSUME UNCHANGED vars PROVE Locks'
  BY <1>23 DEF vars, mind, mail, past, Inv, TypeOK, Memory, Locks, FollowUpDue, mail, past, mind
<1> QED
  BY <1>1, <1>2, <1>3, <1>4, <1>5, <1>6, <1>7, <1>8, <1>9, <1>10, <1>11,
     <1>12, <1>13, <1>14, <1>15, <1>16, <1>17, <1>18, <1>19, <1>20, <1>21,
     <1>22, <1>23
     DEF Next, Sweep, Handle, Reply, Serve

\* The last write still describes the row.
LEMMA QuietStep == Inv /\ [Next]_vars => Quiet'
<1> SUFFICES ASSUME Inv, [Next]_vars PROVE Quiet'
  OBVIOUS
<1>1. ASSUME NEW t \in Thread, Elapse(t) PROVE Quiet'
  BY <1>1 DEF Elapse, Inv, TypeOK, Memory, Quiet, mail, past, mind
<1>2. ASSUME NEW s \in Sweeper, ListDue(s) PROVE Quiet'
  BY <1>2 DEF ListDue, Inv, TypeOK, Memory, Quiet, mail, past, mind
<1>3. ASSUME NEW s \in Sweeper, NEW t \in Thread, LockForFollowUp(s, t) PROVE Quiet'
  BY <1>3 DEF LockForFollowUp, Resume, Skipped, StillDue, Inv, TypeOK, Memory, Quiet, mail, past, mind
<1>4. ASSUME NEW s \in Sweeper, Nudge(s) PROVE Quiet'
  BY <1>4 DEF Nudge, Inv, TypeOK, Memory, Quiet, mail, past, mind
<1>5. ASSUME NEW s \in Sweeper, NudgeFailed(s) PROVE Quiet'
  BY <1>5 DEF NudgeFailed, Resume, Inv, TypeOK, Memory, Quiet, mail, past, mind
<1>6. ASSUME NEW s \in Sweeper, NudgeRefused(s) PROVE Quiet'
  <2>1. at[s] \in Thread /\ copy[s] \in Row /\ Stopped(copy[s]) \in Row
    BY <1>6, RowFacts DEF NudgeRefused, Inv, TypeOK, Memory, Locks
  <2>2. Stopped(copy[s]).awaiting = "no" /\ Stopped(copy[s]).sent = row[at[s]].sent
    BY <1>6, <2>1, RowFacts DEF NudgeRefused, Inv, Memory, Locks
  <2> QED
    BY <1>6, <2>1, <2>2 DEF NudgeRefused, WriteRow, Resume, Inv, TypeOK, Memory, Quiet, mail, past, mind
<1>7. ASSUME NEW s \in Sweeper, RecordFollowUp(s) PROVE Quiet'
  <2>1. at[s] \in Thread /\ copy[s] \in Row /\ Recorded(copy[s]) \in Row
    BY <1>7, RowFacts DEF RecordFollowUp, Inv, TypeOK, Memory, Locks
  <2>2. (IsFinal(copy[s]) => Recorded(copy[s]).awaiting = "no") /\ Recorded(copy[s]).sent = row[at[s]].sent + 1
    BY <1>7, <2>1, RowFacts DEF RecordFollowUp, Inv, Memory, Locks
  <2> QED
    BY <1>7, <2>1, <2>2 DEF RecordFollowUp, WriteRow, Resume, Inv, TypeOK, Memory, Quiet, mail, past, mind
<1>8. ASSUME NEW m \in Msg, Arrive(m) PROVE Quiet'
  BY <1>8 DEF Arrive, Inv, TypeOK, Memory, Quiet, mail, past, mind
<1>9. ASSUME NEW m \in Msg, Redeliver(m) PROVE Quiet'
  BY <1>9 DEF Redeliver, Faulty, Inv, TypeOK, Memory, Quiet, mail, past, mind
<1>10. ASSUME NEW h \in Hook, NEW m \in Msg, Receive(h, m) PROVE Quiet'
  BY <1>10 DEF Receive, MessageExists, Inv, TypeOK, Memory, Quiet, mail, past, mind
<1>11. ASSUME NEW h \in Hook, StoreInbound(h) PROVE Quiet'
  <2>1. at[h] \in Thread /\ copy[h] \in Row /\ Heard(copy[h]) \in Row
    BY <1>11, RowFacts DEF StoreInbound, Inv, TypeOK, Memory, Locks
  <2>2. Heard(copy[h]).awaiting = "no"
    BY <1>11, <2>1, RowFacts DEF StoreInbound, Inv, Memory, Locks
  <2> QED
    BY <1>11, <2>1, <2>2 DEF StoreInbound, WriteRow, Done, Inv, TypeOK, Memory, Quiet, mail, past, mind
<1>12. ASSUME NEW h \in Hook, StoreTyped(h) PROVE Quiet'
  <2>1. at[h] \in Thread /\ copy[h] \in Row /\ Said(copy[h]) \in Row
    BY <1>12, RowFacts DEF StoreTyped, Inv, TypeOK, Memory, Locks
  <2> QED
    BY <1>12, <2>1 DEF StoreTyped, WriteRow, Done, Inv, TypeOK, Memory, Quiet, mail, past, mind
<1>13. ASSUME NEW r \in Replier, NEW m \in Msg, BeginReply(r, m) PROVE Quiet'
  BY <1>13 DEF BeginReply, Inv, TypeOK, Memory, Quiet, mail, past, mind
<1>14. ASSUME NEW r \in Replier, SendReply(r) PROVE Quiet'
  BY <1>14 DEF SendReply, Inv, TypeOK, Memory, Quiet, mail, past, mind
<1>15. ASSUME NEW r \in Replier, ReplyFailed(r) PROVE Quiet'
  BY <1>15 DEF ReplyFailed, Done, Faulty, Inv, TypeOK, Memory, Quiet, mail, past, mind
<1>16. ASSUME NEW r \in Replier, ReadToNote(r) PROVE Quiet'
  BY <1>16 DEF ReadToNote, Inv, TypeOK, Memory, Quiet, mail, past, mind
<1>17. ASSUME NEW r \in Replier, NoteReply(r) PROVE Quiet'
  <2>1. at[r] \in Thread /\ copy[r] \in Row /\ Said(copy[r]) \in Row
    BY <1>17, RowFacts DEF NoteReply, Inv, TypeOK, Memory, Locks
  <2> QED
    BY <1>17, <2>1 DEF NoteReply, WriteRow, Done, Inv, TypeOK, Memory, Quiet, mail, past, mind
<1>18. ASSUME NEW d \in Desk, NEW t \in Thread, NEW o \in Ops, AskDesk(d, t, o) PROVE Quiet'
  BY <1>18 DEF AskDesk, Inv, TypeOK, Memory, Quiet, mail, past, mind
<1>19. ASSUME NEW d \in Desk, SendByHand(d) PROVE Quiet'
  BY <1>19 DEF SendByHand, Inv, TypeOK, Memory, Quiet, mail, past, mind
<1>20. ASSUME NEW d \in Desk, SendRefused(d) PROVE Quiet'
  BY <1>20 DEF SendRefused, Done, Inv, TypeOK, Memory, Quiet, mail, past, mind
<1>21. ASSUME NEW d \in Desk, UpdateConversation(d) PROVE Quiet'
  <2>1. at[d] \in Thread /\ copy[d] \in Row /\ Edited(op[d], copy[d]) \in Row
    BY <1>21, RowFacts DEF UpdateConversation, Inv, TypeOK, Memory, Locks
  <2>2. op[d] = "takeover" => ~Edited(op[d], copy[d]).auto
    BY <1>21, <2>1, RowFacts DEF UpdateConversation, Inv, Memory, Locks
  <2> QED
    BY <1>21, <2>1, <2>2 DEF UpdateConversation, WriteRow, Done, Inv, TypeOK, Memory, Quiet, mail, past, mind
<1>22. ASSUME NEW s \in Session, Crash(s) PROVE Quiet'
  BY <1>22 DEF Crash, Done, Faulty, Inv, TypeOK, Memory, Quiet, mail, past, mind
<1>23. ASSUME UNCHANGED vars PROVE Quiet'
  BY <1>23 DEF vars, mind, mail, past, Inv, TypeOK, Memory, Quiet, mail, past, mind
<1> QED
  BY <1>1, <1>2, <1>3, <1>4, <1>5, <1>6, <1>7, <1>8, <1>9, <1>10, <1>11,
     <1>12, <1>13, <1>14, <1>15, <1>16, <1>17, <1>18, <1>19, <1>20, <1>21,
     <1>22, <1>23
     DEF Next, Sweep, Handle, Reply, Serve

\* The follow-ups stay accounted for.
LEMMA AccountedStep == Inv /\ [Next]_vars => Accounted'
<1> SUFFICES ASSUME Inv, [Next]_vars PROVE Accounted'
  OBVIOUS
<1>1. ASSUME NEW t \in Thread, Elapse(t) PROVE Accounted'
  BY <1>1 DEF Elapse, Inv, TypeOK, Memory, Locks, Accounted, Balanced, InFlight, mail, past, mind
<1>2. ASSUME NEW s \in Sweeper, ListDue(s) PROVE Accounted'
  BY <1>2 DEF ListDue, Inv, TypeOK, Memory, Locks, Accounted, Balanced, InFlight, mail, past, mind
<1>3. ASSUME NEW s \in Sweeper, NEW t \in Thread, LockForFollowUp(s, t) PROVE Accounted'
  <2>1. SUFFICES ASSUME NEW u \in Thread PROVE Balanced(u)'
    BY DEF Accounted
  <2>2. InFlight(u)' <=> InFlight(u)
    <3>1. CASE Skipped(t) \/ ~StillDue(t)
      BY <1>3, <3>1 DEF LockForFollowUp, Resume, InFlight, Inv, TypeOK, Locks
    <3>2. CASE ~(Skipped(t) \/ ~StillDue(t))
      BY <1>3, <3>2 DEF LockForFollowUp, Skipped, InFlight, Inv, TypeOK, Locks
    <3> QED
      BY <3>1, <3>2
  <2> QED
    BY <1>3, <2>2 DEF LockForFollowUp, past, Balanced, Inv, Accounted
<1>4. ASSUME NEW s \in Sweeper, Nudge(s) PROVE Accounted'
  <2>1. at[s] \in Thread /\ lock[at[s]] = s /\ pc[s] = "locked"
    BY <1>4 DEF Nudge, Inv, Locks
  <2>2. SUFFICES ASSUME NEW u \in Thread PROVE Balanced(u)'
    BY DEF Accounted
  <2>3. nudged[u] \in Nat /\ undone[u] \in Nat /\ unrecorded[u] \in Nat
        /\ row[u].sent \in Nat /\ Balanced(u)
    BY DEF Inv, TypeOK, Row, Accounted
  <2>4. CASE u = at[s]
    <3>1. nudged'[u] = nudged[u] + 1 /\ ~InFlight(u) /\ InFlight(u)'
      BY <1>4, <2>1, <2>4 DEF Nudge, InFlight, Inv, TypeOK
    <3> QED
      BY <1>4, <2>3, <3>1 DEF Nudge, Balanced
  <2>5. CASE u # at[s]
    <3>1. nudged'[u] = nudged[u] /\ (InFlight(u)' <=> InFlight(u))
      BY <1>4, <2>1, <2>5 DEF Nudge, InFlight, Inv, TypeOK, Locks
    <3> QED
      BY <1>4, <2>3, <3>1 DEF Nudge, Balanced
  <2> QED
    BY <2>4, <2>5
<1>5. ASSUME NEW s \in Sweeper, NudgeFailed(s) PROVE Accounted'
  BY <1>5 DEF NudgeFailed, Resume, Inv, TypeOK, Memory, Locks, Accounted, Balanced, InFlight, mail, past, mind
<1>6. ASSUME NEW s \in Sweeper, NudgeRefused(s) PROVE Accounted'
  <2>1. at[s] \in Thread /\ copy[s] \in Row /\ Stopped(copy[s]) \in Row
    BY <1>6, RowFacts DEF NudgeRefused, Inv, TypeOK, Memory, Locks
  <2>2. Stopped(copy[s]).sent = row[at[s]].sent
    BY <1>6, <2>1, RowFacts DEF NudgeRefused, Inv, Memory, Locks
  <2>4. SUFFICES ASSUME NEW u \in Thread PROVE Balanced(u)'
    BY DEF Accounted
  <2>5. /\ nudged[u] \in Nat /\ undone[u] \in Nat /\ unrecorded[u] \in Nat
        /\ row[u].sent \in Nat /\ Balanced(u)
    BY DEF Inv, TypeOK, Row, Accounted
  <2>6. CASE u = at[s]
    <3>1. row'[u] = Stopped(copy[s]) /\ lock'[u] = Null
      BY <1>6, <2>1, <2>6 DEF NudgeRefused, WriteRow, Resume, Inv, TypeOK
    <3>2. nudged'[u] = nudged[u] /\ unrecorded'[u] = unrecorded[u] /\ undone'[u] = undone[u]
      BY <1>6, <2>1, <2>6 DEF NudgeRefused, WriteRow, Resume, Inv, TypeOK
    <3>3. ~InFlight(u)
      BY <1>6, <2>1, <2>6 DEF NudgeRefused, WriteRow, Resume, InFlight, Inv, TypeOK, Locks
    <3> QED
      BY <2>1, <2>2, <2>5, <2>6, <3>1, <3>2, <3>3 DEF Balanced, InFlight, Row
  <2>7. CASE u # at[s]
    <3>1. /\ row'[u] = row[u] /\ lock'[u] = lock[u]
          /\ nudged'[u] = nudged[u] /\ undone'[u] = undone[u] /\ unrecorded'[u] = unrecorded[u]
      BY <1>6, <2>1, <2>7 DEF NudgeRefused, WriteRow, Resume, Inv, TypeOK
    <3>2. InFlight(u)' <=> InFlight(u)
      BY <1>6, <2>1, <2>7, <3>1 DEF NudgeRefused, WriteRow, Resume, InFlight, Inv, TypeOK, Locks
    <3> QED
      BY <2>5, <3>1, <3>2 DEF Balanced
  <2> QED
    BY <2>6, <2>7
<1>7. ASSUME NEW s \in Sweeper, RecordFollowUp(s) PROVE Accounted'
  <2>1. at[s] \in Thread /\ copy[s] \in Row /\ Recorded(copy[s]) \in Row
    BY <1>7, RowFacts DEF RecordFollowUp, Inv, TypeOK, Memory, Locks
  <2>2. Recorded(copy[s]).sent = row[at[s]].sent + 1
    BY <1>7, <2>1, RowFacts DEF RecordFollowUp, Inv, Memory, Locks
  <2>4. SUFFICES ASSUME NEW u \in Thread PROVE Balanced(u)'
    BY DEF Accounted
  <2>5. /\ nudged[u] \in Nat /\ undone[u] \in Nat /\ unrecorded[u] \in Nat
        /\ row[u].sent \in Nat /\ Balanced(u)
    BY DEF Inv, TypeOK, Row, Accounted
  <2>6. CASE u = at[s]
    <3>1. row'[u] = Recorded(copy[s]) /\ lock'[u] = Null
      BY <1>7, <2>1, <2>6 DEF RecordFollowUp, WriteRow, Resume, Inv, TypeOK
    <3>2. nudged'[u] = nudged[u] /\ unrecorded'[u] = unrecorded[u] /\ undone'[u] = undone[u]
      BY <1>7, <2>1, <2>6 DEF RecordFollowUp, WriteRow, Resume, Inv, TypeOK, Locks
    <3>3. InFlight(u)
      BY <1>7, <2>1, <2>6 DEF RecordFollowUp, WriteRow, Resume, InFlight, Inv, TypeOK, Locks
    <3> QED
      BY <2>1, <2>2, <2>5, <2>6, <3>1, <3>2, <3>3 DEF Balanced, InFlight, Row
  <2>7. CASE u # at[s]
    <3>1. /\ row'[u] = row[u] /\ lock'[u] = lock[u]
          /\ nudged'[u] = nudged[u] /\ undone'[u] = undone[u] /\ unrecorded'[u] = unrecorded[u]
      BY <1>7, <2>1, <2>7 DEF RecordFollowUp, WriteRow, Resume, Inv, TypeOK
    <3>2. InFlight(u)' <=> InFlight(u)
      BY <1>7, <2>1, <2>7, <3>1 DEF RecordFollowUp, WriteRow, Resume, InFlight, Inv, TypeOK, Locks
    <3> QED
      BY <2>5, <3>1, <3>2 DEF Balanced
  <2> QED
    BY <2>6, <2>7
<1>8. ASSUME NEW m \in Msg, Arrive(m) PROVE Accounted'
  BY <1>8 DEF Arrive, Inv, TypeOK, Memory, Locks, Accounted, Balanced, InFlight, mail, past, mind
<1>9. ASSUME NEW m \in Msg, Redeliver(m) PROVE Accounted'
  BY <1>9 DEF Redeliver, Faulty, Inv, TypeOK, Memory, Locks, Accounted, Balanced, InFlight, mail, past, mind
<1>10. ASSUME NEW h \in Hook, NEW m \in Msg, Receive(h, m) PROVE Accounted'
  BY <1>10 DEF Receive, MessageExists, Inv, TypeOK, Memory, Locks, Accounted, Balanced, InFlight, mail, past, mind
<1>11. ASSUME NEW h \in Hook, StoreInbound(h) PROVE Accounted'
  <2>1. at[h] \in Thread /\ copy[h] \in Row /\ Heard(copy[h]) \in Row
    BY <1>11, RowFacts DEF StoreInbound, Inv, TypeOK, Memory, Locks
  <2>2. TRUE
    BY <1>11, <2>1, RowFacts DEF StoreInbound, Inv, Memory, Locks
  <2>4. SUFFICES ASSUME NEW u \in Thread PROVE Balanced(u)'
    BY DEF Accounted
  <2>5. /\ nudged[u] \in Nat /\ undone[u] \in Nat /\ unrecorded[u] \in Nat
        /\ row[u].sent \in Nat /\ Balanced(u)
    BY DEF Inv, TypeOK, Row, Accounted
  <2>6. CASE u = at[h]
    <3>1. row'[u] = Heard(copy[h]) /\ lock'[u] = Null
      BY <1>11, <2>1, <2>6 DEF StoreInbound, WriteRow, Done, Inv, TypeOK
    <3>2. nudged'[u] = 0 /\ undone'[u] = 0 /\ unrecorded'[u] = 0
      BY <1>11, <2>1, <2>6 DEF StoreInbound, WriteRow, Done, Inv, TypeOK
    <3>3. ~InFlight(u)
      BY <1>11, <2>1, <2>6 DEF StoreInbound, WriteRow, Done, InFlight, Inv, TypeOK, Locks
    <3> QED
      BY <2>1, <2>2, <2>5, <2>6, <3>1, <3>2, <3>3 DEF Balanced, InFlight, Row
  <2>7. CASE u # at[h]
    <3>1. /\ row'[u] = row[u] /\ lock'[u] = lock[u]
          /\ nudged'[u] = nudged[u] /\ undone'[u] = undone[u] /\ unrecorded'[u] = unrecorded[u]
      BY <1>11, <2>1, <2>7 DEF StoreInbound, WriteRow, Done, Inv, TypeOK
    <3>2. InFlight(u)' <=> InFlight(u)
      BY <1>11, <2>1, <2>7, <3>1 DEF StoreInbound, WriteRow, Done, InFlight, Inv, TypeOK, Locks
    <3> QED
      BY <2>5, <3>1, <3>2 DEF Balanced
  <2> QED
    BY <2>6, <2>7
<1>12. ASSUME NEW h \in Hook, StoreTyped(h) PROVE Accounted'
  <2>1. at[h] \in Thread /\ copy[h] \in Row /\ Said(copy[h]) \in Row
    BY <1>12, RowFacts DEF StoreTyped, Inv, TypeOK, Memory, Locks
  <2>2. Lost(at[h], Said(copy[h])) \in Nat /\ row[at[h]].sent <= Said(copy[h]).sent + Lost(at[h], Said(copy[h]))
    BY <1>12, <2>1, LostFacts DEF StoreTyped, Inv, Memory, Locks
  <2>4. SUFFICES ASSUME NEW u \in Thread PROVE Balanced(u)'
    BY DEF Accounted
  <2>5. /\ nudged[u] \in Nat /\ undone[u] \in Nat /\ unrecorded[u] \in Nat
        /\ row[u].sent \in Nat /\ Balanced(u)
    BY DEF Inv, TypeOK, Row, Accounted
  <2>6. CASE u = at[h]
    <3>1. row'[u] = Said(copy[h]) /\ lock'[u] = Null
      BY <1>12, <2>1, <2>6 DEF StoreTyped, WriteRow, Done, Inv, TypeOK
    <3>2. nudged'[u] = nudged[u] /\ unrecorded'[u] = unrecorded[u] /\ undone'[u] = undone[u] + Lost(u, Said(copy[h]))
      BY <1>12, <2>1, <2>6 DEF StoreTyped, WriteRow, Done, Inv, TypeOK
    <3>3. ~InFlight(u)
      BY <1>12, <2>1, <2>6 DEF StoreTyped, WriteRow, Done, InFlight, Inv, TypeOK, Locks
    <3> QED
      BY <2>1, <2>2, <2>5, <2>6, <3>1, <3>2, <3>3 DEF Balanced, InFlight, Row
  <2>7. CASE u # at[h]
    <3>1. /\ row'[u] = row[u] /\ lock'[u] = lock[u]
          /\ nudged'[u] = nudged[u] /\ undone'[u] = undone[u] /\ unrecorded'[u] = unrecorded[u]
      BY <1>12, <2>1, <2>7 DEF StoreTyped, WriteRow, Done, Inv, TypeOK
    <3>2. InFlight(u)' <=> InFlight(u)
      BY <1>12, <2>1, <2>7, <3>1 DEF StoreTyped, WriteRow, Done, InFlight, Inv, TypeOK, Locks
    <3> QED
      BY <2>5, <3>1, <3>2 DEF Balanced
  <2> QED
    BY <2>6, <2>7
<1>13. ASSUME NEW r \in Replier, NEW m \in Msg, BeginReply(r, m) PROVE Accounted'
  BY <1>13 DEF BeginReply, Inv, TypeOK, Memory, Locks, Accounted, Balanced, InFlight, mail, past, mind
<1>14. ASSUME NEW r \in Replier, SendReply(r) PROVE Accounted'
  BY <1>14 DEF SendReply, Inv, TypeOK, Memory, Locks, Accounted, Balanced, InFlight, mail, past, mind
<1>15. ASSUME NEW r \in Replier, ReplyFailed(r) PROVE Accounted'
  BY <1>15 DEF ReplyFailed, Done, Faulty, Inv, TypeOK, Memory, Locks, Accounted, Balanced, InFlight, mail, past, mind
<1>16. ASSUME NEW r \in Replier, ReadToNote(r) PROVE Accounted'
  BY <1>16 DEF ReadToNote, Inv, TypeOK, Memory, Locks, Accounted, Balanced, InFlight, mail, past, mind
<1>17. ASSUME NEW r \in Replier, NoteReply(r) PROVE Accounted'
  <2>1. at[r] \in Thread /\ copy[r] \in Row /\ Said(copy[r]) \in Row
    BY <1>17, RowFacts DEF NoteReply, Inv, TypeOK, Memory, Locks
  <2>2. Lost(at[r], Said(copy[r])) \in Nat /\ row[at[r]].sent <= Said(copy[r]).sent + Lost(at[r], Said(copy[r]))
    BY <1>17, <2>1, LostFacts DEF NoteReply, Inv, Memory, Locks
  <2>4. SUFFICES ASSUME NEW u \in Thread PROVE Balanced(u)'
    BY DEF Accounted
  <2>5. /\ nudged[u] \in Nat /\ undone[u] \in Nat /\ unrecorded[u] \in Nat
        /\ row[u].sent \in Nat /\ Balanced(u)
    BY DEF Inv, TypeOK, Row, Accounted
  <2>6. CASE u = at[r]
    <3>1. row'[u] = Said(copy[r]) /\ lock'[u] = Null
      BY <1>17, <2>1, <2>6 DEF NoteReply, WriteRow, Done, Inv, TypeOK
    <3>2. nudged'[u] = nudged[u] /\ unrecorded'[u] = unrecorded[u] /\ undone'[u] = undone[u] + Lost(u, Said(copy[r]))
      BY <1>17, <2>1, <2>6 DEF NoteReply, WriteRow, Done, Inv, TypeOK
    <3>3. ~InFlight(u)
      BY <1>17, <2>1, <2>6 DEF NoteReply, WriteRow, Done, InFlight, Inv, TypeOK, Locks
    <3> QED
      BY <2>1, <2>2, <2>5, <2>6, <3>1, <3>2, <3>3 DEF Balanced, InFlight, Row
  <2>7. CASE u # at[r]
    <3>1. /\ row'[u] = row[u] /\ lock'[u] = lock[u]
          /\ nudged'[u] = nudged[u] /\ undone'[u] = undone[u] /\ unrecorded'[u] = unrecorded[u]
      BY <1>17, <2>1, <2>7 DEF NoteReply, WriteRow, Done, Inv, TypeOK
    <3>2. InFlight(u)' <=> InFlight(u)
      BY <1>17, <2>1, <2>7, <3>1 DEF NoteReply, WriteRow, Done, InFlight, Inv, TypeOK, Locks
    <3> QED
      BY <2>5, <3>1, <3>2 DEF Balanced
  <2> QED
    BY <2>6, <2>7
<1>18. ASSUME NEW d \in Desk, NEW t \in Thread, NEW o \in Ops, AskDesk(d, t, o) PROVE Accounted'
  BY <1>18 DEF AskDesk, Inv, TypeOK, Memory, Locks, Accounted, Balanced, InFlight, mail, past, mind
<1>19. ASSUME NEW d \in Desk, SendByHand(d) PROVE Accounted'
  BY <1>19 DEF SendByHand, Inv, TypeOK, Memory, Locks, Accounted, Balanced, InFlight, mail, past, mind
<1>20. ASSUME NEW d \in Desk, SendRefused(d) PROVE Accounted'
  BY <1>20 DEF SendRefused, Done, Inv, TypeOK, Memory, Locks, Accounted, Balanced, InFlight, mail, past, mind
<1>21. ASSUME NEW d \in Desk, UpdateConversation(d) PROVE Accounted'
  <2>1. at[d] \in Thread /\ copy[d] \in Row /\ Edited(op[d], copy[d]) \in Row
    BY <1>21, RowFacts DEF UpdateConversation, Inv, TypeOK, Memory, Locks
  <2>2. Lost(at[d], Edited(op[d], copy[d])) \in Nat /\ row[at[d]].sent <= Edited(op[d], copy[d]).sent + Lost(at[d], Edited(op[d], copy[d]))
    BY <1>21, <2>1, LostFacts DEF UpdateConversation, Inv, Memory, Locks
  <2>4. SUFFICES ASSUME NEW u \in Thread PROVE Balanced(u)'
    BY DEF Accounted
  <2>5. /\ nudged[u] \in Nat /\ undone[u] \in Nat /\ unrecorded[u] \in Nat
        /\ row[u].sent \in Nat /\ Balanced(u)
    BY DEF Inv, TypeOK, Row, Accounted
  <2>6. CASE u = at[d]
    <3>1. row'[u] = Edited(op[d], copy[d]) /\ lock'[u] = Null
      BY <1>21, <2>1, <2>6 DEF UpdateConversation, WriteRow, Done, Inv, TypeOK
    <3>2. nudged'[u] = nudged[u] /\ unrecorded'[u] = unrecorded[u] /\ undone'[u] = undone[u] + Lost(u, Edited(op[d], copy[d]))
      BY <1>21, <2>1, <2>6 DEF UpdateConversation, WriteRow, Done, Inv, TypeOK
    <3>3. ~InFlight(u)
      BY <1>21, <2>1, <2>6 DEF UpdateConversation, WriteRow, Done, InFlight, Inv, TypeOK, Locks
    <3> QED
      BY <2>1, <2>2, <2>5, <2>6, <3>1, <3>2, <3>3 DEF Balanced, InFlight, Row
  <2>7. CASE u # at[d]
    <3>1. /\ row'[u] = row[u] /\ lock'[u] = lock[u]
          /\ nudged'[u] = nudged[u] /\ undone'[u] = undone[u] /\ unrecorded'[u] = unrecorded[u]
      BY <1>21, <2>1, <2>7 DEF UpdateConversation, WriteRow, Done, Inv, TypeOK
    <3>2. InFlight(u)' <=> InFlight(u)
      BY <1>21, <2>1, <2>7, <3>1 DEF UpdateConversation, WriteRow, Done, InFlight, Inv, TypeOK, Locks
    <3> QED
      BY <2>5, <3>1, <3>2 DEF Balanced
  <2> QED
    BY <2>6, <2>7
<1>22. ASSUME NEW s \in Session, Crash(s) PROVE Accounted'
  <2>1. SUFFICES ASSUME NEW u \in Thread PROVE Balanced(u)'
    BY DEF Accounted
  <2>2. nudged[u] \in Nat /\ undone[u] \in Nat /\ unrecorded[u] \in Nat
        /\ row[u].sent \in Nat /\ Balanced(u)
    BY DEF Inv, TypeOK, Row, Accounted
  <2>3. CASE lock[u] = s
    <3>1. InFlight(u) => unrecorded'[u] = unrecorded[u] + 1
      BY <1>22, <2>3 DEF Crash, InFlight, Inv, Locks
    <3>2. unrecorded'[u] \in Nat /\ unrecorded'[u] >= unrecorded[u] /\ ~InFlight(u)'
      BY <1>22, <2>2, <2>3 DEF Crash, InFlight
    <3> QED
      BY <1>22, <2>2, <3>1, <3>2 DEF Crash, Balanced
  <2>4. CASE lock[u] # s
    <3>1. lock'[u] = lock[u] /\ (InFlight(u)' <=> InFlight(u))
      BY <1>22, <2>4 DEF Crash, Done, InFlight, Inv, TypeOK, Locks
    <3>2. unrecorded'[u] \in Nat /\ unrecorded'[u] >= unrecorded[u]
      BY <1>22, <2>2 DEF Crash
    <3> QED
      BY <1>22, <2>2, <3>1, <3>2 DEF Crash, Balanced
  <2> QED
    BY <2>3, <2>4
<1>23. ASSUME UNCHANGED vars PROVE Accounted'
  BY <1>23 DEF vars, mind, mail, past, Inv, TypeOK, Memory, Locks, Accounted, Balanced, InFlight, mail, past, mind
<1> QED
  BY <1>1, <1>2, <1>3, <1>4, <1>5, <1>6, <1>7, <1>8, <1>9, <1>10, <1>11,
     <1>12, <1>13, <1>14, <1>15, <1>16, <1>17, <1>18, <1>19, <1>20, <1>21,
     <1>22, <1>23
     DEF Next, Sweep, Handle, Reply, Serve

\* Only a sweep's send adds to the follow-ups of a thread.
LEMMA OnlyNudges ==
  ASSUME Inv, Next, NEW t \in Thread, nudged'[t] > nudged[t]
  PROVE  \E s \in Sweeper : Nudge(s) /\ at[s] = t
<1>1. CASE \E s \in Sweeper : Nudge(s)
  <2>1. PICK s \in Sweeper : Nudge(s)
    BY <1>1
  <2>2. CASE at[s] # t
    BY <2>1, <2>2 DEF Nudge, Inv, TypeOK
  <2> QED
    BY <2>1, <2>2
<1>2. CASE \E h \in Hook : StoreInbound(h)
  BY <1>2 DEF StoreInbound, Inv, TypeOK
<1>3. CASE ~(\E s \in Sweeper : Nudge(s)) /\ ~(\E h \in Hook : StoreInbound(h))
  <2>1. nudged' = nudged
    BY <1>3 DEF Next, Sweep, Handle, Reply, Serve, past, Elapse, ListDue, LockForFollowUp,
       NudgeFailed, NudgeRefused, RecordFollowUp, Arrive, Redeliver, Receive, StoreTyped,
       BeginReply, SendReply, ReplyFailed, ReadToNote, NoteReply, AskDesk, SendByHand,
       SendRefused, UpdateConversation, Crash
  <2> QED
    BY <2>1 DEF Inv, TypeOK
<1> QED
  BY <1>1, <1>2, <1>3

\* A message keeps one place.
LEMMA OneAnswerStep == Inv /\ OneAnswer /\ ~Overlap /\ [Next]_vars => OneAnswer'
<1> SUFFICES ASSUME Inv /\ OneAnswer /\ ~Overlap, [Next]_vars PROVE OneAnswer'
  OBVIOUS
<1>1. ASSUME NEW t \in Thread, Elapse(t) PROVE OneAnswer'
  BY <1>1 DEF Elapse, Inv, TypeOK, Memory, OneAnswer, mail, past, mind
<1>2. ASSUME NEW s \in Sweeper, ListDue(s) PROVE OneAnswer'
  BY <1>2 DEF ListDue, Inv, TypeOK, Memory, OneAnswer, mail, past, mind
<1>3. ASSUME NEW s \in Sweeper, NEW t \in Thread, LockForFollowUp(s, t) PROVE OneAnswer'
  BY <1>3 DEF LockForFollowUp, Resume, Skipped, StillDue, Inv, TypeOK, Memory, OneAnswer, mail, past, mind
<1>4. ASSUME NEW s \in Sweeper, Nudge(s) PROVE OneAnswer'
  BY <1>4 DEF Nudge, Inv, TypeOK, Memory, OneAnswer, mail, past, mind
<1>5. ASSUME NEW s \in Sweeper, NudgeFailed(s) PROVE OneAnswer'
  BY <1>5 DEF NudgeFailed, Resume, Inv, TypeOK, Memory, OneAnswer, mail, past, mind
<1>6. ASSUME NEW s \in Sweeper, NudgeRefused(s) PROVE OneAnswer'
  <2>1. at[s] \in Thread /\ copy[s] \in Row /\ Stopped(copy[s]) \in Row
    BY <1>6, RowFacts DEF NudgeRefused, Inv, TypeOK, Memory, Locks
  <2> QED
    BY <1>6, <2>1 DEF NudgeRefused, WriteRow, Resume, Inv, TypeOK, Memory, OneAnswer, mail, past, mind
<1>7. ASSUME NEW s \in Sweeper, RecordFollowUp(s) PROVE OneAnswer'
  <2>1. at[s] \in Thread /\ copy[s] \in Row /\ Recorded(copy[s]) \in Row
    BY <1>7, RowFacts DEF RecordFollowUp, Inv, TypeOK, Memory, Locks
  <2> QED
    BY <1>7, <2>1 DEF RecordFollowUp, WriteRow, Resume, Inv, TypeOK, Memory, OneAnswer, mail, past, mind
<1>8. ASSUME NEW m \in Msg, Arrive(m) PROVE OneAnswer'
  BY <1>8 DEF Arrive, Inv, TypeOK, Memory, OneAnswer, mail, past, mind
<1>9. ASSUME NEW m \in Msg, Redeliver(m) PROVE OneAnswer'
  <2>1. \A h \in Hook : news[h] # m
    BY <1>9 DEF Redeliver
  <2>2. \A n \in Msg : n # m => wire'[n] = wire[n]
    BY <1>9 DEF Redeliver, Inv, TypeOK
  <2> QED
    BY <1>9, <2>1, <2>2 DEF Redeliver, OneAnswer, mind
<1>10. ASSUME NEW h \in Hook, NEW m \in Msg, Receive(h, m) PROVE OneAnswer'
  <2>1. \A k \in Hook : news[k] # m
    BY <1>10 DEF Receive, OneAnswer
  <2>2. /\ wire'[m] = 0
        /\ \A n \in Msg : n # m => wire'[n] = wire[n]
    BY <1>10 DEF Receive, Inv, TypeOK
  <2>3. /\ UNCHANGED << stored, queue, answers >>
        /\ \A r \in Replier : news'[r] = news[r] /\ pc'[r] = pc[r]
        /\ \A k \in Hook : k # h => news'[k] = news[k]
        /\ news'[h] = news[h] \/ (news'[h] = m /\ m \notin stored)
    BY <1>10 DEF Receive, MessageExists, Inv, TypeOK
  <2>4. ASSUME NEW n \in Msg
        PROVE  /\ wire'[n] = 0 \/ \A k \in Hook : news'[k] # n
               /\ \A g, k \in Hook : news'[g] = n /\ news'[k] = n => g = k
               /\ \A k \in Hook : news'[k] = n => n \notin stored'
    <3>1. CASE n = m
      BY <2>1, <2>2, <2>3, <3>1
    <3>2. CASE n # m
      <4>1. \A k \in Hook : news'[k] = n => news[k] = n
        BY <2>3, <3>2
      <4> QED
        BY <2>2, <2>3, <3>2, <4>1 DEF OneAnswer
    <3> QED
      BY <3>1, <3>2
  <2> QED
    BY <2>3, <2>4 DEF OneAnswer
<1>11. ASSUME NEW h \in Hook, StoreInbound(h) PROVE OneAnswer'
  <2>1. at[h] \in Thread /\ copy[h] \in Row /\ Heard(copy[h]) \in Row
    BY <1>11, RowFacts DEF StoreInbound, Inv, TypeOK, Memory, Locks
  <2> QED
    BY <1>11, <2>1 DEF StoreInbound, WriteRow, Done, Inv, TypeOK, Memory, OneAnswer, mail, past, mind
<1>12. ASSUME NEW h \in Hook, StoreTyped(h) PROVE OneAnswer'
  <2>1. at[h] \in Thread /\ copy[h] \in Row /\ Said(copy[h]) \in Row
    BY <1>12, RowFacts DEF StoreTyped, Inv, TypeOK, Memory, Locks
  <2> QED
    BY <1>12, <2>1 DEF StoreTyped, WriteRow, Done, Inv, TypeOK, Memory, OneAnswer, mail, past, mind
<1>13. ASSUME NEW r \in Replier, NEW m \in Msg, BeginReply(r, m) PROVE OneAnswer'
  BY <1>13 DEF BeginReply, Inv, TypeOK, Memory, OneAnswer, mail, past, mind
<1>14. ASSUME NEW r \in Replier, SendReply(r) PROVE OneAnswer'
  BY <1>14 DEF SendReply, Inv, TypeOK, Memory, OneAnswer, mail, past, mind
<1>15. ASSUME NEW r \in Replier, ReplyFailed(r) PROVE OneAnswer'
  BY <1>15 DEF ReplyFailed, Done, Faulty, Inv, TypeOK, Memory, OneAnswer, mail, past, mind
<1>16. ASSUME NEW r \in Replier, ReadToNote(r) PROVE OneAnswer'
  BY <1>16 DEF ReadToNote, Inv, TypeOK, Memory, OneAnswer, mail, past, mind
<1>17. ASSUME NEW r \in Replier, NoteReply(r) PROVE OneAnswer'
  <2>1. at[r] \in Thread /\ copy[r] \in Row /\ Said(copy[r]) \in Row
    BY <1>17, RowFacts DEF NoteReply, Inv, TypeOK, Memory, Locks
  <2> QED
    BY <1>17, <2>1 DEF NoteReply, WriteRow, Done, Inv, TypeOK, Memory, OneAnswer, mail, past, mind
<1>18. ASSUME NEW d \in Desk, NEW t \in Thread, NEW o \in Ops, AskDesk(d, t, o) PROVE OneAnswer'
  BY <1>18 DEF AskDesk, Inv, TypeOK, Memory, OneAnswer, mail, past, mind
<1>19. ASSUME NEW d \in Desk, SendByHand(d) PROVE OneAnswer'
  BY <1>19 DEF SendByHand, Inv, TypeOK, Memory, OneAnswer, mail, past, mind
<1>20. ASSUME NEW d \in Desk, SendRefused(d) PROVE OneAnswer'
  BY <1>20 DEF SendRefused, Done, Inv, TypeOK, Memory, OneAnswer, mail, past, mind
<1>21. ASSUME NEW d \in Desk, UpdateConversation(d) PROVE OneAnswer'
  <2>1. at[d] \in Thread /\ copy[d] \in Row /\ Edited(op[d], copy[d]) \in Row
    BY <1>21, RowFacts DEF UpdateConversation, Inv, TypeOK, Memory, Locks
  <2> QED
    BY <1>21, <2>1 DEF UpdateConversation, WriteRow, Done, Inv, TypeOK, Memory, OneAnswer, mail, past, mind
<1>22. ASSUME NEW s \in Session, Crash(s) PROVE OneAnswer'
  BY <1>22 DEF Crash, Done, Faulty, Inv, TypeOK, Memory, OneAnswer, mail, past, mind
<1>23. ASSUME UNCHANGED vars PROVE OneAnswer'
  BY <1>23 DEF vars, mind, mail, past, Inv, TypeOK, Memory, OneAnswer, mail, past, mind
<1> QED
  BY <1>1, <1>2, <1>3, <1>4, <1>5, <1>6, <1>7, <1>8, <1>9, <1>10, <1>11,
     <1>12, <1>13, <1>14, <1>15, <1>16, <1>17, <1>18, <1>19, <1>20, <1>21,
     <1>22, <1>23
     DEF Next, Sweep, Handle, Reply, Serve

\* The inductive invariant of the inbox.
THEOREM Invariant == Spec => []Inv
<1>1. Inv /\ [Next]_vars => Inv'
  BY TypeStep, MemoryStep, LocksStep, QuietStep, AccountedStep DEF Inv
<1> QED
  BY InitInv, <1>1, PTL DEF Spec

\* Every reachable state is of its type, for any number of sessions, threads
\* and messages.
THEOREM TypeCorrect == Spec => []TypeOK
<1>1. Inv => TypeOK
  BY DEF Inv
<1> QED
  BY <1>1, Invariant, PTL

\* However many sweeps run at once, a contact gets no more follow-ups than the
\* ladder has, but for those an older copy or a crash took off the row.
THEOREM LadderHolds == Spec => []LadderBounded
<1>1. Inv => LadderBounded
  <2> SUFFICES ASSUME Inv, NEW t \in Thread
               PROVE  nudged[t] <= MaxFollowUps + 1 + undone[t] + unrecorded[t]
    BY DEF LadderBounded
  <2>1. /\ nudged[t] \in Nat /\ undone[t] \in Nat /\ unrecorded[t] \in Nat
        /\ row[t].sent \in 0 .. MaxFollowUps + 1
        /\ nudged[t] <= row[t].sent + undone[t] + unrecorded[t]
                          + (IF InFlight(t) THEN 1 ELSE 0)
    BY DEF Inv, TypeOK, Row, Accounted, Balanced
  <2>2. InFlight(t) => row[t].sent <= MaxFollowUps
    BY DEF InFlight, Inv, TypeOK, Locks, FollowUpDue
  <2> QED
    BY <2>1, <2>2
<1> QED
  BY <1>1, Invariant, PTL

\* No follow-up goes out on a thread last written by the contact's answer, a
\* takeover, a sign-off or the end of the ladder.
THEOREM NothingUnwanted == Spec => NeverUnwanted
<1>1. Inv /\ [Next]_vars =>
        [ \A t \in Thread :
            nudged'[t] > nudged[t] => last[t] \in { "out", "nudge", "edit", "handback" } ]_vars
  <2> SUFFICES ASSUME Inv, Next, NEW t \in Thread, nudged'[t] > nudged[t]
               PROVE  last[t] \in { "out", "nudge", "edit", "handback" }
    OBVIOUS
  <2>1. PICK s \in Sweeper : Nudge(s) /\ at[s] = t
    BY OnlyNudges
  <2>2. FollowUpDue(row[t])
    BY <2>1 DEF Nudge, Inv, Locks
  <2> QED
    BY <2>2 DEF FollowUpDue, Inv, Quiet, TypeOK
<1> QED
  BY <1>1, Invariant, PTL DEF Spec, NeverUnwanted

\* Where an event is not redelivered while it is being handled, no message is
\* answered twice.
THEOREM AnsweredAtMostOnce == ~Overlap => (Spec => []AnsweredOnce)
<1> SUFFICES ASSUME ~Overlap PROVE Spec => []AnsweredOnce
  OBVIOUS
<1>1. Init => OneAnswer
  BY DEF Init, OneAnswer
<1>2. Inv /\ OneAnswer /\ [Next]_vars => OneAnswer'
  BY OneAnswerStep
<1>3. OneAnswer => AnsweredOnce
  BY DEF OneAnswer, AnsweredOnce
<1> QED
  BY <1>1, <1>2, <1>3, Invariant, PTL DEF Spec

-----------------------------------------------------------------------------
(* Reception *)


\* The token a slate names was taken for the service the slate names.
Matches(s) ==
  s.token # None => hold[s.token] # None /\ hold[s.token].service = s.service

Slates ==
  /\ Matches(saved)
  /\ \A r \in Run : slate[r] # None => Matches(slate[r])

Sources ==
  \A a \in Appointment :
    appointment[a] # None /\ appointment[a].from # None =>
      /\ hold[appointment[a].from] # None
      /\ appointment[a].service = hold[appointment[a].from].service

\* An appointment without its key stands next to a dead one that has it, and a
\* key is given once.
Keys ==
  /\ \A a \in Appointment :
       appointment[a] # None /\ ~appointment[a].keyed =>
         \E c \in Appointment : /\ appointment[c] # None /\ appointment[c].keyed
                                /\ ~appointment[c].standing
                                /\ appointment[c].asked = appointment[a].asked
  /\ \A a, b \in Appointment :
       /\ appointment[a] # None /\ appointment[a].keyed
       /\ appointment[b] # None /\ appointment[b].keyed
       /\ appointment[a].asked = appointment[b].asked
       => a = b

USE ReceptionAssumption, NoneAssumption

-----------------------------------------------------------------------------
(* What the operators on a slate return. *)

LEMMA ResolveType ==
  ASSUME NEW s \in Slate, NEW n \in Nat
  PROVE  Resolve(s, n) \in Time \cup { None }
<1> DEFINE options == FreshOptions(s)
           hits == { t \in options : Cardinality({ u \in options : u <= t }) = n }
<1>1. options \subseteq Time
  BY DEF FreshOptions, Slate
<1>2. CASE hits = {}
  BY <1>2 DEF Resolve
<1>3. CASE hits # {}
  <2>1. PICK t \in hits : TRUE
    BY <1>3
  <2>2. (CHOOSE x \in hits : TRUE) \in hits
    BY <2>1
  <2> QED
    BY <1>1, <1>3, <2>2 DEF Resolve
<1> QED
  BY <1>2, <1>3

LEMMA TargetType ==
  ASSUME NEW s \in Slate, NEW ask \in Ask
  PROVE  /\ Option(s, ask) \in Time \cup { None }
         /\ StartsAt(s, ask) \in Time \cup { None }
         /\ ServiceOf(s, ask) \in Service \cup { None }
<1>1. ask.option \in Nat /\ ask.starts_at \in Time \cup { None }
      /\ ask.service_id \in Service \cup { None }
  OBVIOUS
<1>2. Option(s, ask) \in Time \cup { None }
  BY <1>1, ResolveType DEF Option, Slate
<1> QED
  BY <1>1, <1>2 DEF StartsAt, ServiceOf, Slate

LEMMA ToldType ==
  ASSUME NEW s \in Slate, NEW ask \in Ask, NEW c \in Contact \cup { None }
  PROVE  /\ Told(s, ask, c) \in Slate
         /\ Told(s, ask, c).token = s.token /\ Told(s, ask, c).service = s.service
<1>1. Remembered(s, c) \in Slate /\ Remembered(s, c).token = s.token
      /\ Remembered(s, c).service = s.service
  BY DEF Remembered, Slate
<1> QED
  BY <1>1, TargetType DEF Told, Chosen, Slate

LEMMA ConcludedType ==
  ASSUME NEW s \in Slate
  PROVE  Concluded(s) \in Slate /\ Concluded(s).token = None
BY DEF Concluded, Slate

LEMMA OfferedType ==
  ASSUME NEW s \in Slate, NEW v \in Service, NEW O \in SUBSET Time, now \in Nat
  PROVE  /\ Offered(s, v, O) \in Slate
         /\ Offered(s, v, O).token # None =>
              Offered(s, v, O).token = s.token /\ s.service = v
         /\ Offered(s, v, O).service = v
BY DEF Offered, Slate

LEMMA KeyType ==
  ASSUME NEW s \in Slate, NEW ask \in Ask, NEW c \in Contact \cup { None },
         Complete(KeyOf(s, ask, c))
  PROVE  KeyOf(s, ask, c) \in Key
<1>1. Remembered(s, c).contact \in Contact \cup { None }
  BY DEF Remembered, Slate
<1> QED
  BY <1>1, TargetType DEF KeyOf, Complete, Key

LEMMA BookableBound ==
  ASSUME ReceptionTypeOK, NEW t \in Time, NEW b, Bookable(t, b)
  PROVE  others[t] + 1 \in 0 .. Seats
<1>1. Cardinality({ k \in Token : LiveHold(k) /\ hold[k].starts = t }) \in Nat
  BY FS_Subset, FS_CardinalityType
<1>2. Cardinality({ a \in Appointment \ { b } :
                      Standing(a) /\ appointment[a].starts = t }) \in Nat
  <2>1. IsFiniteSet(Appointment \ { b })
    BY FS_Subset
  <2> QED
    BY <2>1, FS_Subset, FS_CardinalityType
<1> QED
  BY <1>1, <1>2 DEF Bookable, Left, ReceptionTypeOK

-----------------------------------------------------------------------------
(* Types. *)

\* A run has a slate from its first step to its last.
SlateKept == \A r \in Run : Running(r) <=> slate[r] # None

Typing == ReceptionTypeOK /\ SlateKept

LEMMA SlateOfRun == ASSUME Typing, NEW r \in Run, Running(r) PROVE slate[r] \in Slate
BY DEF Typing, ReceptionTypeOK, SlateKept

LEMMA InitType == ReceptionInit => Typing
<1> SUFFICES ASSUME ReceptionInit PROVE Typing
  OBVIOUS
<1>1. Blank \in Slate
  BY DEF Blank, Slate
<1>2. ReceptionTypeOK
  BY <1>1 DEF ReceptionInit, ReceptionTypeOK
<1>3. SlateKept
  BY DEF ReceptionInit, SlateKept, Running
<1> QED
  BY <1>2, <1>3 DEF Typing

\* A step of a run, given what it leaves of the slate, the holds and the
\* appointments.
LEMMA StepType ==
  ASSUME Typing, NEW r \in Run, NEW s \in Slate, Step(r, s),
         hold' \in [ Token -> Hold \cup { None } ],
         appointment' \in [ Appointment -> Booked \cup { None } ]
  PROVE  Typing'
<1>1. steps[r] \in 0 .. MaxSteps /\ steps[r] - 1 \in 0 .. MaxSteps
  BY DEF Step, Running, Typing, ReceptionTypeOK
<1> QED
  BY <1>1, NoneAssumption DEF Step, Typing, ReceptionTypeOK, SlateKept, Running

LEMMA FreedType ==
  ASSUME Typing, NEW a \in Appointment, Standing(a)
  PROVE  [ appointment EXCEPT ![a].standing = FALSE ]
           \in [ Appointment -> Booked \cup { None } ]
<1>1. appointment[a] \in Booked
  BY DEF Standing, Typing, ReceptionTypeOK
<1>2. [ appointment[a] EXCEPT !.standing = FALSE ] \in Booked
  BY <1>1 DEF Booked
<1> QED
  BY <1>2 DEF Typing, ReceptionTypeOK

LEMMA NextType == Typing /\ [ReceptionNext]_receptionVars => Typing'
<1> SUFFICES ASSUME Typing, [ReceptionNext]_receptionVars PROVE Typing'
  OBVIOUS
<1>1. ASSUME NEW r \in Run, Begin(r) PROVE Typing'
  BY <1>1 DEF Begin, Typing, ReceptionTypeOK, SlateKept, Running, calendar
<1>2. ASSUME NEW r \in Run, NEW v \in Service, NEW w \in Window,
             FindAvailableSlots(r, v, w)
      PROVE  Typing'
  <2>1. slate[r] \in Slate /\ now \in Nat
    BY <1>2, SlateOfRun DEF FindAvailableSlots, Typing, ReceptionTypeOK, Step
  <2>2. Earliest(MaxOffered, { t \in w : Bookable(t, None) }) \in SUBSET Time
    BY DEF Earliest
  <2>3. Offered(slate[r], v, Earliest(MaxOffered, { t \in w : Bookable(t, None) })) \in Slate
    BY <2>1, <2>2, OfferedType
  <2>4. hold' = hold /\ appointment' = appointment
    BY <1>2 DEF FindAvailableSlots
  <2> QED
    BY <1>2, <2>3, <2>4, StepType DEF FindAvailableSlots, Typing, ReceptionTypeOK
<1>3. ASSUME NEW r \in Run, NEW ask \in Ask, CreateSlotHold(r, ask) PROVE Typing'
  <2>1. slate[r] \in Slate /\ now \in Nat
    BY <1>3, SlateOfRun DEF CreateSlotHold, Typing, ReceptionTypeOK
  <2>2. PICK k \in Token :
          /\ hold[k] = None
          /\ hold' = [ hold EXCEPT ![k] =
               [ service |-> ServiceOf(slate[r], ask), starts |-> StartsAt(slate[r], ask),
                 until |-> now + HoldTTL, spent |-> FALSE ] ]
          /\ Step(r, [ Chosen(slate[r], Option(slate[r], ask)) EXCEPT !.token = k ])
    BY <1>3 DEF CreateSlotHold
  <2>3. [ service |-> ServiceOf(slate[r], ask), starts |-> StartsAt(slate[r], ask),
          until |-> now + HoldTTL, spent |-> FALSE ] \in Hold
    BY <1>3, <2>1, TargetType DEF CreateSlotHold, Hold
  <2>4. [ Chosen(slate[r], Option(slate[r], ask)) EXCEPT !.token = k ] \in Slate
    BY <2>1, TargetType DEF Chosen, Slate
  <2>5. appointment' = appointment
    BY <1>3 DEF CreateSlotHold
  <2>6. hold' \in [ Token -> Hold \cup { None } ]
    <3> DEFINE new == [ service |-> ServiceOf(slate[r], ask),
                        starts |-> StartsAt(slate[r], ask),
                        until |-> now + HoldTTL, spent |-> FALSE ]
    <3>1. new \in Hold /\ hold' = [ hold EXCEPT ![k] = new ]
      BY <2>2, <2>3
    <3> HIDE DEF new
    <3> QED
      BY <3>1 DEF Typing, ReceptionTypeOK
  <2> DEFINE s == [ Chosen(slate[r], Option(slate[r], ask)) EXCEPT !.token = k ]
  <2>7. s \in Slate /\ Step(r, s)
    BY <2>2, <2>4
  <2>8. appointment' \in [ Appointment -> Booked \cup { None } ]
    BY <2>5 DEF Typing, ReceptionTypeOK
  <2> HIDE DEF s
  <2> QED
    BY <2>6, <2>7, <2>8, StepType
<1>4. ASSUME NEW r \in Run, NEW ask \in Ask, NEW c \in Contact \cup { None },
             AlreadyBooked(r, ask, c)
      PROVE  Typing'
  <2>1. slate[r] \in Slate
    BY <1>4, SlateOfRun DEF AlreadyBooked
  <2>2. Concluded(Told(slate[r], ask, c)) \in Slate
    BY <2>1, ToldType, ConcludedType
  <2> QED
    BY <1>4, <2>2, StepType DEF AlreadyBooked, Typing, ReceptionTypeOK
<1>5. ASSUME NEW r \in Run, NEW ask \in Ask, NEW c \in Contact \cup { None },
             BookAppointment(r, ask, c)
      PROVE  Typing'
  <2> DEFINE key == KeyOf(slate[r], ask, c)
             k == LiveToken(slate[r])
  <2>1. slate[r] \in Slate
    BY <1>5, SlateOfRun DEF BookAppointment
  <2>2. Concluded(Told(slate[r], ask, c)) \in Slate
    BY <2>1, ToldType, ConcludedType
  <2>3. key \in Key /\ key.service \in Service /\ key.starts \in Time
    BY <1>5, <2>1, KeyType DEF BookAppointment, Key
  <2>4. k \in Token \cup { None } /\ (k # None => hold[k] \in Hold)
    BY <2>1 DEF LiveToken, Slate, Typing, ReceptionTypeOK
  <2>5. hold' \in [ Token -> Hold \cup { None } ]
    BY <1>5, <2>4 DEF BookAppointment, Typing, ReceptionTypeOK, Hold
  <2>6. PICK a \in Appointment :
          /\ appointment' = [ appointment EXCEPT ![a] =
               [ service |-> key.service, standing |-> TRUE,
                 starts |-> IF k = None THEN key.starts ELSE hold[k].starts,
                 asked |-> key, keyed |-> UnderKey(key) = {}, from |-> k ] ]
          /\ Step(r, Concluded(Told(slate[r], ask, c)))
    BY <1>5 DEF BookAppointment
  <2>7. [ service |-> key.service, standing |-> TRUE,
          starts |-> IF k = None THEN key.starts ELSE hold[k].starts,
          asked |-> key, keyed |-> UnderKey(key) = {}, from |-> k ] \in Booked
    <3>1. (IF k = None THEN key.starts ELSE hold[k].starts) \in Time
      BY <2>3, <2>4 DEF Hold
    <3>2. (UnderKey(key) = {}) \in BOOLEAN
      OBVIOUS
    <3> HIDE DEF key, k
    <3> QED
      BY <2>3, <2>4, <3>1, <3>2 DEF Booked
  <2>8. appointment' \in [ Appointment -> Booked \cup { None } ]
    <3> HIDE DEF key, k
    <3> QED
      BY <2>6, <2>7 DEF Typing, ReceptionTypeOK
  <2> QED
    BY <2>2, <2>5, <2>6, <2>8, StepType
<1>6. ASSUME NEW r \in Run, NEW ask \in Ask, NEW c \in Contact \cup { None },
             BookRefused(r, ask, c)
      PROVE  Typing'
  <2>1. slate[r] \in Slate
    BY <1>6, SlateOfRun DEF BookRefused
  <2>2. Told(slate[r], ask, c) \in Slate
    BY <2>1, ToldType
  <2> QED
    BY <1>6, <2>2, StepType DEF BookRefused, Typing, ReceptionTypeOK
<1>7. ASSUME NEW r \in Run, NEW a \in Appointment, CancelAppointment(r, a) PROVE Typing'
  <2>1. slate[r] \in Slate
    BY <1>7, SlateOfRun DEF CancelAppointment
  <2>2. appointment' \in [ Appointment -> Booked \cup { None } ]
    BY <1>7, FreedType DEF CancelAppointment, Upcoming
  <2> QED
    BY <1>7, <2>1, <2>2, StepType DEF CancelAppointment, Typing, ReceptionTypeOK
<1>8. ASSUME NEW r \in Run, NEW a \in Appointment, NEW ask \in Ask,
             RescheduleAppointment(r, a, ask)
      PROVE  Typing'
  <2>1. slate[r] \in Slate
    BY <1>8, SlateOfRun DEF RescheduleAppointment
  <2>2. StartsAt(slate[r], ask) \in Time
    BY <1>8, <2>1, TargetType DEF RescheduleAppointment
  <2>3. appointment' \in [ Appointment -> Booked \cup { None } ]
    <3>1. appointment[a] \in Booked
      BY <1>8 DEF RescheduleAppointment, Upcoming, Standing, Typing, ReceptionTypeOK
    <3>2. [ appointment[a] EXCEPT !.starts = StartsAt(slate[r], ask) ] \in Booked
      BY <2>2, <3>1 DEF Booked
    <3> QED
      BY <1>8, <3>2 DEF RescheduleAppointment, Typing, ReceptionTypeOK
  <2>4. Concluded(slate[r]) \in Slate
    BY <2>1, ConcludedType
  <2> QED
    BY <1>8, <2>3, <2>4, StepType DEF RescheduleAppointment, Typing, ReceptionTypeOK
<1>9. ASSUME NEW r \in Run, PersistAnswer(r) PROVE Typing'
  <2>1. slate[r] \in Slate
    BY <1>9, SlateOfRun DEF PersistAnswer
  <2> QED
    BY <1>9, <2>1 DEF PersistAnswer, Ended, Typing, ReceptionTypeOK, SlateKept, Running, calendar
<1>10. ASSUME NEW r \in Run, RunLost(r) PROVE Typing'
  BY <1>10 DEF RunLost, Ended, Typing, ReceptionTypeOK, SlateKept, Running, calendar
<1>11. ASSUME NEW t \in Time, OthersMove(t) PROVE Typing'
  <2>1. others' \in [ Time -> 0 .. Seats ]
    <3>1. others \in [ Time -> 0 .. Seats ] /\ Seats \in Nat
      BY ReceptionAssumption DEF Typing, ReceptionTypeOK
    <3>2. CASE Bookable(t, None) /\ others' = [ others EXCEPT ![t] = @ + 1 ]
      <4>1. others[t] + 1 \in 0 .. Seats
        BY <3>2, BookableBound DEF Typing
      <4> QED
        BY <3>1, <3>2, <4>1
    <3>3. CASE others[t] > 0 /\ others' = [ others EXCEPT ![t] = @ - 1 ]
      <4>1. others[t] - 1 \in 0 .. Seats
        BY <3>1, <3>3
      <4> QED
        BY <3>1, <3>3, <4>1
    <3> QED
      BY <1>11, <3>2, <3>3 DEF OthersMove
  <2>2. stirs' \in 0 .. MaxStirs
    BY <1>11 DEF OthersMove, Stir, Typing, ReceptionTypeOK
  <2>3. UNCHANGED << now, hold, appointment, saved, slate, loaded, steps, enabled, turns >>
    BY <1>11 DEF OthersMove, talk
  <2>4. ReceptionTypeOK'
    BY <2>1, <2>2, <2>3 DEF Typing, ReceptionTypeOK
  <2>5. SlateKept'
    BY <2>3 DEF Typing, SlateKept, Running
  <2> QED
    BY <2>4, <2>5 DEF Typing
<1>12. ASSUME NEW a \in Appointment, DeskCancels(a) PROVE Typing'
  <2>1. appointment' \in [ Appointment -> Booked \cup { None } ]
    BY <1>12, FreedType DEF DeskCancels
  <2> QED
    BY <1>12, <2>1 DEF DeskCancels, Stir, Typing, ReceptionTypeOK, SlateKept, Running, talk
<1>13. ASSUME Permit PROVE Typing'
  BY <1>13 DEF Permit, Stir, Typing, ReceptionTypeOK, SlateKept, Running, calendar, talk
<1>14. ASSUME Tick PROVE Typing'
  BY <1>14 DEF Tick, Typing, ReceptionTypeOK, SlateKept, Running, calendar, talk
<1>15. ASSUME UNCHANGED receptionVars PROVE Typing'
  BY <1>15 DEF receptionVars, Typing, ReceptionTypeOK, SlateKept, Running, calendar, talk
<1> QED
  BY <1>1, <1>2, <1>3, <1>4, <1>5, <1>6, <1>7, <1>8, <1>9, <1>10, <1>11, <1>12,
     <1>13, <1>14, <1>15 DEF ReceptionNext, Calls

\* Every state is of its type: the calendar, the holds, the appointments, and
\* the slate wherever it is kept.
THEOREM ReceptionTypeCorrect == ReceptionSpec => []ReceptionTypeOK
<1>1. ReceptionInit => Typing
  BY InitType
<1>2. Typing /\ [ReceptionNext]_receptionVars => Typing'
  BY NextType
<1>3. Typing => ReceptionTypeOK
  BY DEF Typing
<1> QED
  BY <1>1, <1>2, <1>3, PTL DEF ReceptionSpec

-----------------------------------------------------------------------------
(* A hold is booked for the service it was taken for. *)

Held == Slates /\ Sources

\* Holds are never taken back, so what was said of one stays true.
LEMMA HeldStep ==
  ASSUME Typing, Held, NEW r \in Run, NEW s \in Slate, Step(r, s),
         \A k \in Token :
           hold[k] # None => hold'[k] # None /\ hold'[k].service = hold[k].service,
         s.token # None => hold'[s.token] # None /\ hold'[s.token].service = s.service,
         Sources'
  PROVE  Held'
<1>1. saved' = saved /\ saved \in Slate
  BY DEF Step, Typing, ReceptionTypeOK
<1>2. Matches(saved)'
  BY <1>1 DEF Held, Slates, Matches, Slate
<1>3. ASSUME NEW q \in Run, slate'[q] # None PROVE Matches(slate[q])'
  <2>1. CASE q = r
    <3>1. slate'[q] = s
      BY <2>1 DEF Step, Typing, ReceptionTypeOK
    <3> QED
      BY <3>1 DEF Matches
  <2>2. CASE q # r
    <3>1. slate'[q] = slate[q] /\ slate[q] \in Slate
      BY <1>3, <2>2 DEF Step, Typing, ReceptionTypeOK
    <3> QED
      BY <1>3, <3>1 DEF Held, Slates, Matches, Slate
  <2> QED
    BY <2>1, <2>2
<1> QED
  BY <1>2, <1>3 DEF Held, Slates

\* What a step that leaves the holds and the appointments owes to Held.
LEMMA HeldKept ==
  ASSUME Typing, Held, NEW r \in Run, NEW s \in Slate, Step(r, s),
         UNCHANGED << hold, appointment >>, Matches(s)
  PROVE  Held'
<1>1. Sources'
  BY DEF Held, Sources
<1> QED
  BY <1>1, HeldStep DEF Matches

LEMMA FreedSource ==
  ASSUME Typing, Sources, NEW a \in Appointment, Standing(a), hold' = hold,
         appointment' = [ appointment EXCEPT ![a].standing = FALSE ]
  PROVE  Sources'
<1>1. appointment[a] \in Booked
  BY DEF Standing, Typing, ReceptionTypeOK
<1>2. \A b \in Appointment : appointment'[b] # None /\ appointment'[b].from # None =>
          /\ appointment[b] # None /\ appointment'[b].from = appointment[b].from
          /\ appointment'[b].service = appointment[b].service
  BY <1>1 DEF Standing, Typing, ReceptionTypeOK, Booked
<1> QED
  BY <1>2 DEF Sources

LEMMA NextHeld ==
  ASSUME \A ask \in Ask : ask.service_id = None
  PROVE  Typing /\ Held /\ [ReceptionNext]_receptionVars => Held'
<1> SUFFICES ASSUME Typing, Held, [ReceptionNext]_receptionVars PROVE Held'
  OBVIOUS
<1>0. \A r \in Run : Running(r) => slate[r] \in Slate /\ Matches(slate[r])
  BY SlateOfRun DEF Held, Slates, Typing, SlateKept
<1>1. ASSUME NEW r \in Run, Begin(r) PROVE Held'
  BY <1>1 DEF Begin, calendar, Typing, ReceptionTypeOK, Held, Slates, Sources, Matches
<1>2. ASSUME NEW r \in Run, NEW v \in Service, NEW w \in Window,
             FindAvailableSlots(r, v, w)
      PROVE  Held'
  <2> DEFINE O == Earliest(MaxOffered, { t \in w : Bookable(t, None) })
  <2>1. slate[r] \in Slate /\ Matches(slate[r]) /\ now \in Nat
    BY <1>0, <1>2 DEF FindAvailableSlots, Typing, ReceptionTypeOK, Step
  <2>2. O \in SUBSET Time
    BY DEF Earliest
  <2>3. Step(r, Offered(slate[r], v, O)) /\ hold' = hold /\ appointment' = appointment
    BY <1>2 DEF FindAvailableSlots
  <2> HIDE DEF O
  <2>4. Offered(slate[r], v, O) \in Slate /\ Matches(Offered(slate[r], v, O))
    BY <2>1, <2>2, OfferedType DEF Matches
  <2> QED
    BY <2>3, <2>4, HeldKept
<1>3. ASSUME NEW r \in Run, NEW ask \in Ask, CreateSlotHold(r, ask) PROVE Held'
  <2>1. slate[r] \in Slate /\ Matches(slate[r])
    BY <1>0, <1>3 DEF CreateSlotHold
  <2>2. PICK k \in Token :
          /\ hold[k] = None
          /\ hold' = [ hold EXCEPT ![k] =
               [ service |-> ServiceOf(slate[r], ask), starts |-> StartsAt(slate[r], ask),
                 until |-> now + HoldTTL, spent |-> FALSE ] ]
          /\ Step(r, [ Chosen(slate[r], Option(slate[r], ask)) EXCEPT !.token = k ])
    BY <1>3 DEF CreateSlotHold
  <2> DEFINE s == [ Chosen(slate[r], Option(slate[r], ask)) EXCEPT !.token = k ]
             new == [ service |-> ServiceOf(slate[r], ask),
                      starts |-> StartsAt(slate[r], ask),
                      until |-> now + HoldTTL, spent |-> FALSE ]
  <2>3. s \in Slate /\ s.token = k /\ s.service = slate[r].service
    BY <2>1, TargetType DEF Chosen, Slate
  <2>4. new.service = slate[r].service /\ new \in Hold
    <3>1. now \in Nat /\ ServiceOf(slate[r], ask) = slate[r].service
      BY DEF ServiceOf, Typing, ReceptionTypeOK
    <3> QED
      BY <1>3, <2>1, <3>1, TargetType DEF CreateSlotHold, Hold
  <2>5. hold' = [ hold EXCEPT ![k] = new ] /\ Step(r, s) /\ appointment' = appointment
    BY <1>3, <2>2 DEF CreateSlotHold
  <2> HIDE DEF s, new
  <2>6. /\ hold'[k] = new /\ new # None
        /\ \A j \in Token : j # k => hold'[j] = hold[j]
    BY <2>4, <2>5 DEF Typing, ReceptionTypeOK
  <2>7. \A j \in Token :
          hold[j] # None => hold'[j] # None /\ hold'[j].service = hold[j].service
    BY <2>2, <2>6
  <2>8. Sources'
    BY <2>5, <2>7 DEF Held, Sources, Typing, ReceptionTypeOK, Booked
  <2> QED
    BY <2>3, <2>4, <2>5, <2>6, <2>7, <2>8, HeldStep
<1>4. ASSUME NEW r \in Run, NEW ask \in Ask, NEW c \in Contact \cup { None },
             AlreadyBooked(r, ask, c)
      PROVE  Held'
  <2>1. slate[r] \in Slate
    BY <1>0, <1>4 DEF AlreadyBooked
  <2>2. Concluded(Told(slate[r], ask, c)) \in Slate
        /\ Matches(Concluded(Told(slate[r], ask, c)))
    BY <2>1, ToldType, ConcludedType DEF Matches
  <2> QED
    BY <1>4, <2>2, HeldKept DEF AlreadyBooked
<1>5. ASSUME NEW r \in Run, NEW ask \in Ask, NEW c \in Contact \cup { None },
             BookAppointment(r, ask, c)
      PROVE  Held'
  <2> DEFINE key == KeyOf(slate[r], ask, c)
             k == LiveToken(slate[r])
             s == Concluded(Told(slate[r], ask, c))
  <2>1. slate[r] \in Slate /\ Matches(slate[r])
    BY <1>0, <1>5 DEF BookAppointment
  <2>2. s \in Slate /\ s.token = None
    BY <2>1, ToldType, ConcludedType
  <2>3. key.service = slate[r].service
    BY DEF KeyOf, ServiceOf
  <2>4. k # None => k \in Token /\ hold[k] \in Hold /\ hold[k].service = key.service
    BY <2>1, <2>3 DEF LiveToken, Slate, Matches, Typing, ReceptionTypeOK
  <2>5. hold' = IF k = None THEN hold ELSE [ hold EXCEPT ![k].spent = TRUE ]
    BY <1>5 DEF BookAppointment
  <2>6. PICK a \in Appointment :
          /\ appointment' = [ appointment EXCEPT ![a] =
               [ service |-> key.service, standing |-> TRUE,
                 starts |-> IF k = None THEN key.starts ELSE hold[k].starts,
                 asked |-> key, keyed |-> UnderKey(key) = {}, from |-> k ] ]
          /\ Step(r, s)
    BY <1>5 DEF BookAppointment
  <2> HIDE DEF key, k, s
  <2>7. \A j \in Token :
          hold[j] # None => hold'[j] # None /\ hold'[j].service = hold[j].service
    <3> SUFFICES ASSUME NEW j \in Token, hold[j] # None
                 PROVE  hold'[j] # None /\ hold'[j].service = hold[j].service
      OBVIOUS
    <3>1. CASE k # None /\ j = k
      <4>1. hold'[j] = [ hold[j] EXCEPT !.spent = TRUE ] /\ hold[j] \in Hold
        BY <2>4, <2>5, <3>1 DEF Typing, ReceptionTypeOK
      <4>2. hold'[j] \in Hold /\ hold'[j].service = hold[j].service
        BY <4>1 DEF Hold
      <4> QED
        BY <4>2
    <3>2. CASE ~(k # None /\ j = k)
      BY <2>4, <2>5, <3>2 DEF Typing, ReceptionTypeOK
    <3> QED
      BY <3>1, <3>2
  <2>8. /\ appointment'[a].service = key.service /\ appointment'[a].from = k
        /\ \A b \in Appointment : b # a => appointment'[b] = appointment[b]
    BY <2>6 DEF Typing, ReceptionTypeOK
  <2>9. Sources'
    <3> SUFFICES ASSUME NEW b \in Appointment,
                        appointment'[b] # None, appointment'[b].from # None
                 PROVE  /\ hold'[appointment'[b].from] # None
                        /\ appointment'[b].service = hold'[appointment'[b].from].service
      BY DEF Sources
    <3>1. CASE b = a
      <4>1. k # None /\ hold[k] # None
        BY <2>4, <2>8, <3>1
      <4> QED
        BY <2>4, <2>7, <2>8, <3>1, <4>1
    <3>2. CASE b # a
      <4>1. appointment[b] \in Booked /\ appointment'[b] = appointment[b]
        BY <2>8, <3>2 DEF Typing, ReceptionTypeOK
      <4> QED
        BY <2>7, <4>1 DEF Held, Sources, Booked
    <3> QED
      BY <3>1, <3>2
  <2> QED
    BY <2>2, <2>6, <2>7, <2>9, HeldStep
<1>6. ASSUME NEW r \in Run, NEW ask \in Ask, NEW c \in Contact \cup { None },
             BookRefused(r, ask, c)
      PROVE  Held'
  <2>1. slate[r] \in Slate /\ Matches(slate[r])
    BY <1>0, <1>6 DEF BookRefused
  <2>2. Told(slate[r], ask, c) \in Slate /\ Matches(Told(slate[r], ask, c))
    BY <2>1, ToldType DEF Matches
  <2> QED
    BY <1>6, <2>2, HeldKept DEF BookRefused
<1>7. ASSUME NEW r \in Run, NEW a \in Appointment, CancelAppointment(r, a) PROVE Held'
  <2>1. slate[r] \in Slate /\ Matches(slate[r])
    BY <1>0, <1>7 DEF CancelAppointment
  <2>2. Sources'
    BY <1>7, FreedSource DEF CancelAppointment, Upcoming, Held
  <2> QED
    BY <1>7, <2>1, <2>2, HeldStep DEF CancelAppointment, Matches
<1>8. ASSUME NEW r \in Run, NEW a \in Appointment, NEW ask \in Ask,
             RescheduleAppointment(r, a, ask)
      PROVE  Held'
  <2>1. slate[r] \in Slate /\ hold' = hold
    BY <1>0, <1>8 DEF RescheduleAppointment
  <2>2. Concluded(slate[r]) \in Slate /\ Concluded(slate[r]).token = None
    BY <2>1, ConcludedType
  <2>3. \A b \in Appointment : appointment'[b] # None /\ appointment'[b].from # None =>
          /\ appointment[b] # None /\ appointment'[b].from = appointment[b].from
          /\ appointment'[b].service = appointment[b].service
    <3>1. appointment[a] \in Booked
      BY <1>8 DEF RescheduleAppointment, Upcoming, Standing, Typing, ReceptionTypeOK
    <3> QED
      BY <1>8, <3>1 DEF RescheduleAppointment, Typing, ReceptionTypeOK, Booked
  <2>4. Sources'
    BY <2>1, <2>3 DEF Held, Sources
  <2> QED
    BY <1>8, <2>1, <2>2, <2>4, HeldStep DEF RescheduleAppointment
<1>9. ASSUME NEW r \in Run, PersistAnswer(r) PROVE Held'
  <2>1. slate[r] \in Slate /\ Matches(slate[r])
    BY <1>0, <1>9 DEF PersistAnswer
  <2> QED
    BY <1>9, <2>1 DEF PersistAnswer, Ended, calendar, Typing, ReceptionTypeOK, Held, Slates, Sources, Matches
<1>10. ASSUME NEW r \in Run, RunLost(r) PROVE Held'
  BY <1>10 DEF RunLost, Ended, calendar, Typing, ReceptionTypeOK, Held, Slates, Sources, Matches
<1>11. ASSUME NEW t \in Time, OthersMove(t) PROVE Held'
  BY <1>11 DEF OthersMove, talk, Held, Slates, Sources, Matches
<1>12. ASSUME NEW a \in Appointment, DeskCancels(a) PROVE Held'
  <2>1. Sources'
    BY <1>12, FreedSource DEF DeskCancels, Held
  <2> QED
    BY <1>12, <2>1 DEF DeskCancels, talk, Held, Slates, Matches
<1>13. ASSUME Permit PROVE Held'
  BY <1>13 DEF Permit, calendar, talk, Held, Slates, Sources, Matches
<1>14. ASSUME Tick PROVE Held'
  BY <1>14 DEF Tick, calendar, talk, Held, Slates, Sources, Matches
<1>15. ASSUME UNCHANGED receptionVars PROVE Held'
  BY <1>15 DEF receptionVars, calendar, talk, Held, Slates, Sources, Matches
<1> QED
  BY <1>1, <1>2, <1>3, <1>4, <1>5, <1>6, <1>7, <1>8, <1>9, <1>10, <1>11, <1>12,
     <1>13, <1>14, <1>15 DEF ReceptionNext, Calls

\* As long as the calls leave the service to the slate, no appointment is made
\* from a hold that was taken for another service, whatever the runs do.
THEOREM BookedForItsService ==
  ASSUME \A ask \in Ask : ask.service_id = None
  PROVE  ReceptionSpec => []HeldForService
<1>1. ReceptionInit => Held
  BY DEF ReceptionInit, Blank, Held, Slates, Sources, Matches
<1>2. Typing /\ Held /\ [ReceptionNext]_receptionVars => Held'
  BY NextHeld
<1>3. Held => HeldForService
  BY DEF Held, Sources, HeldForService
<1> QED
  BY <1>1, <1>2, <1>3, InitType, NextType, PTL DEF ReceptionSpec

-----------------------------------------------------------------------------
(* One ask makes one appointment. *)

\* A step that makes no appointment keeps what each one was asked for, its key,
\* and that it is over if it is.
Frozen ==
  \A a \in Appointment :
    /\ appointment'[a] # None <=> appointment[a] # None
    /\ appointment[a] # None =>
         /\ appointment'[a].asked = appointment[a].asked
         /\ appointment'[a].keyed = appointment[a].keyed
         /\ ~appointment[a].standing => ~appointment'[a].standing

LEMMA FrozenKeys == ASSUME Keys, Frozen PROVE Keys'
<1>1. ASSUME NEW a \in Appointment, appointment'[a] # None, ~appointment'[a].keyed
      PROVE  \E c \in Appointment : /\ appointment'[c] # None /\ appointment'[c].keyed
                                    /\ ~appointment'[c].standing
                                    /\ appointment'[c].asked = appointment'[a].asked
  <2>1. appointment[a] # None /\ ~appointment[a].keyed
    BY <1>1 DEF Frozen
  <2>2. PICK c \in Appointment : /\ appointment[c] # None /\ appointment[c].keyed
                                 /\ ~appointment[c].standing
                                 /\ appointment[c].asked = appointment[a].asked
    BY <2>1 DEF Keys
  <2>3. /\ appointment'[c] # None /\ appointment'[c].keyed
        /\ ~appointment'[c].standing
        /\ appointment'[c].asked = appointment'[a].asked
    BY <2>1, <2>2 DEF Frozen
  <2> QED
    BY <2>3
<1>2. ASSUME NEW a \in Appointment, NEW b \in Appointment,
             appointment'[a] # None, appointment'[a].keyed,
             appointment'[b] # None, appointment'[b].keyed,
             appointment'[a].asked = appointment'[b].asked
      PROVE  a = b
  <2>1. /\ appointment[a] # None /\ appointment[a].keyed
        /\ appointment[b] # None /\ appointment[b].keyed
        /\ appointment[a].asked = appointment[b].asked
    BY <1>2 DEF Frozen
  <2> QED
    BY <2>1 DEF Keys
<1> QED
  BY <1>1, <1>2 DEF Keys

LEMMA FreedFrozen ==
  ASSUME Typing, NEW a \in Appointment, Standing(a),
         appointment' = [ appointment EXCEPT ![a].standing = FALSE ]
  PROVE  Frozen
<1> DEFINE freed == [ appointment[a] EXCEPT !.standing = FALSE ]
<1>1. appointment[a] \in Booked /\ appointment[a] # None
  BY DEF Standing, Typing, ReceptionTypeOK
<1>2. freed \in Booked /\ ~freed.standing
  BY <1>1 DEF Booked
<1>3. freed.asked = appointment[a].asked /\ freed.keyed = appointment[a].keyed
  BY <1>1 DEF Booked
<1>4. freed # None
  BY <1>2, NoneAssumption
<1>5. appointment'[a] = freed
  BY DEF Typing, ReceptionTypeOK
<1>6. ASSUME NEW b \in Appointment, b # a PROVE appointment'[b] = appointment[b]
  BY <1>6 DEF Typing, ReceptionTypeOK
<1> HIDE DEF freed
<1>7. SUFFICES ASSUME NEW b \in Appointment
      PROVE  /\ appointment'[b] # None <=> appointment[b] # None
             /\ appointment[b] # None =>
                  /\ appointment'[b].asked = appointment[b].asked
                  /\ appointment'[b].keyed = appointment[b].keyed
                  /\ ~appointment[b].standing => ~appointment'[b].standing
  BY DEF Frozen
<1>8. CASE b = a
  BY <1>1, <1>2, <1>3, <1>4, <1>5, <1>8
<1>9. CASE b # a
  BY <1>6, <1>9
<1> QED
  BY <1>8, <1>9

LEMMA BookKeys ==
  ASSUME Typing, Keys, NEW r \in Run, NEW ask \in Ask, NEW c \in Contact \cup { None },
         BookAppointment(r, ask, c)
  PROVE  Keys'
<1> DEFINE key == KeyOf(slate[r], ask, c)
           k == LiveToken(slate[r])
           new == [ service |-> key.service, standing |-> TRUE,
                    starts |-> IF k = None THEN key.starts ELSE hold[k].starts,
                    asked |-> key, keyed |-> UnderKey(key) = {}, from |-> k ]
<1>1. \A a \in UnderKey(key) : ~Standing(a)
  BY DEF BookAppointment
<1>2. PICK a \in Appointment :
        appointment[a] = None /\ appointment' = [ appointment EXCEPT ![a] = new ]
  BY DEF BookAppointment
<1>3. /\ new.asked = key /\ new.keyed = (UnderKey(key) = {})
      /\ new # None
  <2>1. new.asked = key /\ new.keyed = (UnderKey(key) = {})
    OBVIOUS
  <2>2. new \in Booked
    <3>1. slate[r] \in Slate
      BY SlateOfRun DEF BookAppointment
    <3>2. key \in Key /\ key.service \in Service /\ key.starts \in Time
      BY <3>1, KeyType DEF BookAppointment, Key
    <3>3. k \in Token \cup { None } /\ (k # None => hold[k] \in Hold)
      BY <3>1 DEF LiveToken, Slate, Typing, ReceptionTypeOK
    <3>4. (IF k = None THEN key.starts ELSE hold[k].starts) \in Time
      BY <3>2, <3>3 DEF Hold
    <3>5. (UnderKey(key) = {}) \in BOOLEAN
      OBVIOUS
    <3> HIDE DEF key, k
    <3> QED
      BY <3>2, <3>3, <3>4, <3>5 DEF Booked
  <2> QED
    BY <2>1, <2>2
<1>4. /\ appointment'[a] = new
      /\ \A b \in Appointment : b # a => appointment'[b] = appointment[b]
  BY <1>2 DEF Typing, ReceptionTypeOK
<1> HIDE DEF key, k, new
<1>5. \A b \in Appointment :
        b \in UnderKey(key) <=> /\ appointment[b] # None /\ appointment[b].keyed
                               /\ appointment[b].asked = key
  BY DEF UnderKey
<1>6. ASSUME NEW b \in Appointment, appointment'[b] # None, ~appointment'[b].keyed
      PROVE  \E d \in Appointment : /\ appointment'[d] # None /\ appointment'[d].keyed
                                    /\ ~appointment'[d].standing
                                    /\ appointment'[d].asked = appointment'[b].asked
  <2>1. CASE b = a
    <3>1. PICK d \in UnderKey(key) : TRUE
      <4>1. ~new.keyed
        BY <1>4, <1>6, <2>1
      <4>2. UnderKey(key) # {}
        BY <1>3, <4>1
      <4>3. QED BY <4>2
    <3>2. d \in Appointment /\ d # a /\ ~Standing(d)
      BY <1>1, <1>2, <3>1 DEF UnderKey
    <3>3. /\ appointment[d] # None /\ appointment[d].keyed
          /\ appointment[d].asked = key /\ ~appointment[d].standing
      BY <1>5, <3>1, <3>2 DEF Standing
    <3> QED
      BY <1>3, <1>4, <2>1, <3>2, <3>3
  <2>2. CASE b # a
    <3>1. PICK d \in Appointment : /\ appointment[d] # None /\ appointment[d].keyed
                                   /\ ~appointment[d].standing
                                   /\ appointment[d].asked = appointment[b].asked
      BY <1>4, <1>6, <2>2 DEF Keys
    <3> QED
      BY <1>2, <1>4, <2>2, <3>1
  <2> QED
    BY <2>1, <2>2
<1>7. ASSUME NEW b \in Appointment, NEW d \in Appointment,
             appointment'[b] # None, appointment'[b].keyed,
             appointment'[d] # None, appointment'[d].keyed,
             appointment'[b].asked = appointment'[d].asked
      PROVE  b = d
  <2>1. CASE b # a /\ d # a
    BY <1>4, <1>7, <2>1 DEF Keys
  <2>2. CASE b = a /\ d # a
    <3>1. UnderKey(key) = {} /\ appointment'[a].asked = key
      BY <1>3, <1>4, <1>7, <2>2
    <3>2. appointment[d] # None /\ appointment[d].keyed /\ appointment[d].asked = key
      BY <1>4, <1>7, <2>2, <3>1
    <3> QED
      BY <1>5, <3>1, <3>2
  <2>3. CASE b # a /\ d = a
    <3>1. UnderKey(key) = {} /\ appointment'[a].asked = key
      BY <1>3, <1>4, <1>7, <2>3
    <3>2. appointment[b] # None /\ appointment[b].keyed /\ appointment[b].asked = key
      BY <1>4, <1>7, <2>3, <3>1
    <3> QED
      BY <1>5, <3>1, <3>2
  <2> QED
    BY <2>1, <2>2, <2>3
<1> QED
  BY <1>6, <1>7 DEF Keys

LEMMA NextKeys == Typing /\ Keys /\ [ReceptionNext]_receptionVars => Keys'
<1> SUFFICES ASSUME Typing, Keys, [ReceptionNext]_receptionVars PROVE Keys'
  OBVIOUS
<1>1. CASE appointment' = appointment
  BY <1>1, FrozenKeys DEF Frozen
<1>2. ASSUME NEW r \in Run, NEW ask \in Ask, NEW c \in Contact \cup { None },
             BookAppointment(r, ask, c)
      PROVE  Keys'
  BY <1>2, BookKeys
<1>3. ASSUME NEW r \in Run, NEW a \in Appointment, CancelAppointment(r, a) PROVE Keys'
  BY <1>3, FreedFrozen, FrozenKeys DEF CancelAppointment, Upcoming
<1>4. ASSUME NEW r \in Run, NEW a \in Appointment, NEW ask \in Ask,
             RescheduleAppointment(r, a, ask)
      PROVE  Keys'
  <2>1. appointment[a] \in Booked
    BY <1>4 DEF RescheduleAppointment, Upcoming, Standing, Typing, ReceptionTypeOK
  <2>2. StartsAt(slate[r], ask) \in Time
    BY <1>4, SlateOfRun, TargetType DEF RescheduleAppointment
  <2>3. [ appointment[a] EXCEPT !.starts = StartsAt(slate[r], ask) ] \in Booked
    BY <2>1, <2>2 DEF Booked
  <2>4. Frozen
    <3> DEFINE new == [ appointment[a] EXCEPT !.starts = StartsAt(slate[r], ask) ]
    <3>1. /\ new.asked = appointment[a].asked /\ new.keyed = appointment[a].keyed
          /\ new.standing = appointment[a].standing /\ new # None
      BY <2>1, <2>3 DEF Booked
    <3>2. appointment' = [ appointment EXCEPT ![a] = new ]
      BY <1>4 DEF RescheduleAppointment
    <3> HIDE DEF new
    <3>3. appointment'[a] = new /\ \A b \in Appointment : b # a => appointment'[b] = appointment[b]
      BY <3>2 DEF Typing, ReceptionTypeOK
    <3> QED
      BY <2>1, <3>1, <3>3 DEF Frozen
  <2> QED
    BY <2>4, FrozenKeys
<1>5. ASSUME NEW a \in Appointment, DeskCancels(a) PROVE Keys'
  BY <1>5, FreedFrozen, FrozenKeys DEF DeskCancels
<1>6. \/ appointment' = appointment
      \/ \E r \in Run, ask \in Ask, c \in Contact \cup { None } : BookAppointment(r, ask, c)
      \/ \E r \in Run, a \in Appointment : CancelAppointment(r, a)
      \/ \E r \in Run, a \in Appointment, ask \in Ask : RescheduleAppointment(r, a, ask)
      \/ \E a \in Appointment : DeskCancels(a)
  BY DEF ReceptionNext, Calls, receptionVars, calendar, Begin, FindAvailableSlots, CreateSlotHold,
     AlreadyBooked, BookRefused, PersistAnswer, RunLost, Ended, OthersMove, Permit, Tick
<1> QED
  BY <1>1, <1>2, <1>3, <1>4, <1>5, <1>6

LEMMA KeysSuffice == ASSUME Keys PROVE AskedOnceBookedOnce
<1> SUFFICES ASSUME NEW a \in Appointment, NEW b \in Appointment, a # b,
                    Standing(a), Standing(b),
                    appointment[a].asked = appointment[b].asked
             PROVE  \E c \in Appointment : /\ appointment[c] # None /\ ~Standing(c)
                                           /\ appointment[c].asked = appointment[a].asked
  BY DEF AskedOnceBookedOnce
<1>1. appointment[a] # None /\ appointment[b] # None
  BY DEF Standing
<1>2. ~appointment[a].keyed \/ ~appointment[b].keyed
  BY <1>1 DEF Keys
<1>3. PICK c \in Appointment : /\ appointment[c] # None /\ ~appointment[c].standing
                               /\ appointment[c].asked = appointment[a].asked
  BY <1>1, <1>2 DEF Keys
<1> QED
  BY <1>3 DEF Standing

\* For any number of overlapping runs, lost answers and stale slates, a second
\* appointment for the same ask stands only next to one that was cancelled.
THEOREM OneAskOneBooking == ReceptionSpec => []AskedOnceBookedOnce
<1>1. ReceptionInit => Keys
  BY DEF ReceptionInit, Keys
<1>2. Typing /\ Keys /\ [ReceptionNext]_receptionVars => Keys'
  BY NextKeys
<1>3. Keys => AskedOnceBookedOnce
  BY KeysSuffice
<1> QED
  BY <1>1, <1>2, <1>3, InitType, NextType, PTL DEF ReceptionSpec

=============================================================================
