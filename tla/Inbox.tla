-------------------------------- MODULE Inbox --------------------------------
(***************************************************************************)
(* The conversations of one business number: the follow-up sweep, which    *)
(* nudges a contact who has gone quiet, a last time with a sign-off; the   *)
(* hooks that store what contacts write and what is typed on the phone;    *)
(* the repliers that answer; and the desk, where operators write by hand,  *)
(* edit the thread, take it over and hand it back.                         *)
(*                                                                         *)
(* Only the sweep locks a conversation before it reads it.  Everyone else  *)
(* reads a copy and later writes every column of it, so a column another   *)
(* session changed in between goes back to what it was.                    *)
(*                                                                         *)
(* Left out: the columns that steer nothing here (counts, tags, contact    *)
(* card) and the sweep's order and batch limit.  Time is the quiet window  *)
(* elapsing; a tick that outlasts the window may nudge a thread that fell  *)
(* due after the tick began, which the code leaves to the next.            *)
(***************************************************************************)
EXTENDS Integers, FiniteSets

CONSTANTS
  Sweeper,    \* the background sweeps; the lease is meant to leave one
  Hook,       \* the handlers of inbound events
  Replier,    \* the slots of the reply bulkhead
  Desk,       \* the request handlers of the inbox
  Thread,
  Msg,        \* the messages that contacts and the phone's owner may write
  On,         \* the thread of each
  Typed,      \* those typed by the owner, on the phone
  Ops,        \* what the desk is asked
  MaxFollowUps,
  Overlap,    \* whether an event is redelivered while it is being handled
  Null,
  Budget,     \* bound: the requests of one desk
  MaxFaults   \* bound: crashes, failed replies and redeliveries

Session == Sweeper \cup Hook \cup Replier \cup Desk

ASSUME ConstantAssumption ==
  /\ Sweeper \cap (Hook \cup Replier \cup Desk) = {}
  /\ Hook \cap (Replier \cup Desk) = {} /\ Replier \cap Desk = {}
  /\ On \in [ Msg -> Thread ] /\ Typed \subseteq Msg
  /\ Ops \subseteq { "send", "edit", "takeover", "handback" }
  /\ MaxFollowUps \in Nat /\ Overlap \in BOOLEAN
  /\ Budget \in Nat /\ MaxFaults \in Nat
  /\ Null \notin Session \cup Thread \cup Msg \cup Ops

VARIABLES
  row,        \* the whatsapp_conversations table
  lock,       \* the session that holds each row locked, or Null
  pc,
  at,         \* the thread a session is working on
  copy,       \* the row in a session's memory
  batch,      \* the due threads a sweep has not done with
  news,       \* the message a hook or a replier is handling
  op,         \* what a desk was asked
  wire,       \* how many deliveries of each message are under way
  queue,      \* how many answers to each message are scheduled and not begun
  stored,     \* the messages in chat_messages
  asked, faults,
  answers,    \* how many answers to each message were sent
  nudged,     \* follow-ups sent on each thread since its contact last wrote
  undone,     \* of these, how many an older copy has taken off the row again
  unrecorded, \* of these, how many a crash kept off the row
  last,       \* the last write to each row
  spoke       \* whether the contact has written since we last sent anything

mail == << wire, queue, stored, answers >>
past == << nudged, undone, unrecorded, last, spoke >>
mind == << pc, at, copy, batch, news, op >>
vars == << row, lock, mind, mail, asked, faults, past >>

\* The conversation.  awaiting is awaiting_reply_since: not set, set within the
\* window, or before it.
Row == [ auto : BOOLEAN, awaiting : { "no", "waiting", "overdue" },
         sent : 0 .. MaxFollowUps + 1 ]

ASSUME NullAssumption == Null \notin Row /\ Null # 0

\* A thread opened by a campaign: one whose replies are answered, or a notice.
Opened == { [ auto |-> TRUE, awaiting |-> "waiting", sent |-> 0 ],
            [ auto |-> FALSE, awaiting |-> "no", sent |-> 0 ] }

Init ==
  /\ row \in [ Thread -> Opened ]
  /\ lock = [ t \in Thread |-> Null ]
  /\ pc = [ s \in Session |-> "idle" ]
  /\ at = [ s \in Session |-> Null ]
  /\ copy = [ s \in Session |-> Null ]
  /\ batch = [ s \in Sweeper |-> {} ]
  /\ news = [ s \in Hook \cup Replier |-> Null ]
  /\ op = [ d \in Desk |-> Null ]
  /\ wire = [ m \in Msg |-> Null ]
  /\ queue = [ m \in Msg |-> 0 ]
  /\ stored = {}
  /\ asked = [ d \in Desk |-> 0 ]
  /\ faults = 0
  /\ answers = [ m \in Msg |-> 0 ]
  /\ nudged = [ t \in Thread |-> 0 ]
  /\ undone = [ t \in Thread |-> 0 ]
  /\ unrecorded = [ t \in Thread |-> 0 ]
  /\ last = [ t \in Thread |-> "out" ]
  /\ spoke = [ t \in Thread |-> FALSE ]

Goto(s, stage) == pc' = [ pc EXCEPT ![s] = stage ]

Faulty == faults < MaxFaults /\ faults' = faults + 1

------------------------------------------------------------------------------
(* The conversation entity *)

\* note_message, of what the contact wrote
Heard(c) == [ auto |-> c.auto, awaiting |-> "no", sent |-> 0 ]

\* note_message, of what we wrote: start_waiting leaves the ladder where it is.
Said(c) == [ c EXCEPT !.awaiting = "waiting" ]

FollowUpDue(c) == c.awaiting = "overdue" /\ c.auto /\ c.sent <= MaxFollowUps

IsFinal(c) == c.sent >= MaxFollowUps

\* record_follow_up, after note_message
Recorded(c) ==
  [ auto |-> c.auto, awaiting |-> IF IsFinal(c) THEN "no" ELSE "waiting",
    sent |-> c.sent + 1 ]

\* Fault: only logged.
StoppedNever(c) == c

\* stop_waiting
Stopped(c) == [ c EXCEPT !.awaiting = "no" ]

\* What the desk does to its copy.
Edited(o, c) ==
  CASE o = "send"     -> Said(c)
    [] o = "takeover" -> [ c EXCEPT !.auto = FALSE ]
    [] o = "handback" -> [ c EXCEPT !.auto = TRUE ]
    [] OTHER          -> c

------------------------------------------------------------------------------
(* Statements *)

\* The window closes on a thread that is waiting.
Elapse(t) ==
  /\ row[t].awaiting = "waiting"
  /\ row' = [ row EXCEPT ![t].awaiting = "overdue" ]
  /\ UNCHANGED << lock, mind, mail, asked, faults, past >>

\* An UPDATE of thread t with every column of c, and the commit; it waits for
\* whoever holds the row.  kind is what the writer is about.
WriteRow(s, t, c, kind) ==
  /\ lock[t] \in { Null, s }
  /\ row' = [ row EXCEPT ![t] = c ]
  /\ lock' = [ lock EXCEPT ![t] = Null ]
  /\ last' = [ last EXCEPT ![t] = kind ]

\* The follow-ups c takes off the row of t.
Lost(t, c) == IF c.sent < row[t].sent THEN row[t].sent - c.sent ELSE 0

\* Nothing is left in memory of session s.
Done(s) ==
  /\ Goto(s, "idle")
  /\ at' = [ at EXCEPT ![s] = Null ]
  /\ copy' = [ copy EXCEPT ![s] = Null ]

------------------------------------------------------------------------------
(* SendFollowUps *)

Due == { t \in Thread : FollowUpDue(row[t]) /\ lock[t] = Null }

\* execute: list_due_follow_ups skips what is locked, and commits.
ListDue(s) ==
  /\ pc[s] = "idle" /\ Due # {}
  /\ batch' = [ batch EXCEPT ![s] = Due ]
  /\ Goto(s, "sweeping")
  /\ UNCHANGED << row, lock, at, copy, news, op, mail, asked, faults, past >>

\* Fault: the row is read without its lock.
SkippedNever(t) == FALSE

\* lock_for_follow_up finds the row locked by somebody else.
Skipped(t) == lock[t] # Null

\* Fault: what the batch said is taken to hold.
StillDueTrusted(t) == TRUE

\* The check that is made again, on the row just locked.
StillDue(t) == FollowUpDue(row[t])

\* On to the rest of the batch, or to the end of the tick.
Resume(s, t) ==
  /\ batch' = [ batch EXCEPT ![s] = @ \ { t } ]
  /\ Goto(s, IF batch[s] = { t } THEN "idle" ELSE "sweeping")
  /\ at' = [ at EXCEPT ![s] = Null ]
  /\ copy' = [ copy EXCEPT ![s] = Null ]

\* _send_one, up to the send.
LockForFollowUp(s, t) ==
  /\ pc[s] = "sweeping" /\ t \in batch[s]
  /\ IF Skipped(t) \/ ~StillDue(t)
     THEN /\ Resume(s, t)
          /\ UNCHANGED lock
     ELSE /\ lock' = [ lock EXCEPT ![t] = s ]
          /\ at' = [ at EXCEPT ![s] = t ]
          /\ copy' = [ copy EXCEPT ![s] = row[t] ]
          /\ Goto(s, "locked")
          /\ UNCHANGED batch
  /\ UNCHANGED << row, news, op, mail, asked, faults, past >>

\* The message is out.
Nudge(s) ==
  /\ pc[s] = "locked"
  /\ nudged' = [ nudged EXCEPT ![at[s]] = @ + 1 ]
  /\ spoke' = [ spoke EXCEPT ![at[s]] = FALSE ]
  /\ Goto(s, "sent")
  /\ UNCHANGED << row, lock, at, copy, batch, news, op, mail, asked, faults,
                  undone, unrecorded, last >>

\* A failure that may pass: the transaction is rolled back, and a later sweep
\* tries again, however often it failed before.
NudgeFailed(s) ==
  /\ pc[s] = "locked"
  /\ lock' = [ lock EXCEPT ![at[s]] = Null ]
  /\ Resume(s, at[s])
  /\ UNCHANGED << row, news, op, mail, asked, faults, past >>

\* The number is gone, or another session answers for it.
NudgeRefused(s) ==
  /\ pc[s] = "locked"
  /\ WriteRow(s, at[s], Stopped(copy[s]), "stop")
  /\ Resume(s, at[s])
  /\ UNCHANGED << news, op, mail, asked, faults, nudged, undone, unrecorded, spoke >>

RecordFollowUp(s) ==
  /\ pc[s] = "sent"
  /\ WriteRow(s, at[s], Recorded(copy[s]), IF IsFinal(copy[s]) THEN "signoff" ELSE "nudge")
  /\ Resume(s, at[s])
  /\ UNCHANGED << news, op, mail, asked, faults, nudged, undone, unrecorded, spoke >>

------------------------------------------------------------------------------
(* bridge_events and the Cloud API webhook *)

\* Somebody writes message m.
Arrive(m) ==
  /\ wire[m] = Null
  /\ wire' = [ wire EXCEPT ![m] = 1 ]
  /\ UNCHANGED << row, lock, mind, queue, stored, answers, asked, faults, past >>

\* The sender got no answer and delivers m again.
Redeliver(m) ==
  /\ wire[m] = 0 /\ Faulty
  /\ Overlap \/ \A h \in Hook : news[h] # m
  /\ wire' = [ wire EXCEPT ![m] = 1 ]
  /\ UNCHANGED << row, lock, mind, queue, stored, answers, asked, past >>

\* Fault: the provider's message id is not looked up.
MessageUnknown(m) == FALSE

MessageExists(m) == m \in stored

\* _ensure_conversation, and message_exists of _store_message.
Receive(h, m) ==
  /\ pc[h] = "idle" /\ wire[m] \notin { Null, 0 }
  /\ wire' = [ wire EXCEPT ![m] = @ - 1 ]
  /\ IF MessageExists(m)
     THEN UNCHANGED << pc, at, copy, news >>
     ELSE /\ news' = [ news EXCEPT ![h] = m ]
          /\ at' = [ at EXCEPT ![h] = On[m] ]
          /\ copy' = [ copy EXCEPT ![h] = row[On[m]] ]
          /\ Goto(h, "storing")
  /\ UNCHANGED << row, lock, batch, op, queue, stored, answers, asked, faults, past >>

\* What the contact wrote is stored, and answered if the copy says so, the
\* message is fresh, an assistant is attached and this session speaks for the
\* number.
StoreInbound(h) ==
  LET m == news[h] t == at[h] IN
  /\ pc[h] = "storing" /\ m \notin Typed
  /\ WriteRow(h, t, Heard(copy[h]), "in")
  /\ stored' = stored \cup { m }
  /\ \/ copy[h].auto /\ queue' = [ queue EXCEPT ![m] = @ + 1 ]
     \/ queue' = queue
  /\ nudged' = [ nudged EXCEPT ![t] = 0 ]
  /\ undone' = [ undone EXCEPT ![t] = 0 ]
  /\ unrecorded' = [ unrecorded EXCEPT ![t] = 0 ]
  /\ spoke' = [ spoke EXCEPT ![t] = TRUE ]
  /\ news' = [ news EXCEPT ![h] = Null ]
  /\ Done(h)
  /\ UNCHANGED << batch, op, wire, answers, asked, faults >>

\* What was typed on the phone is stored and never answered.
StoreTyped(h) ==
  LET m == news[h] t == at[h] IN
  /\ pc[h] = "storing" /\ m \in Typed
  /\ WriteRow(h, t, Said(copy[h]), "out")
  /\ undone' = [ undone EXCEPT ![t] = @ + Lost(t, Said(copy[h])) ]
  /\ stored' = stored \cup { m }
  /\ spoke' = [ spoke EXCEPT ![t] = FALSE ]
  /\ news' = [ news EXCEPT ![h] = Null ]
  /\ Done(h)
  /\ UNCHANGED << batch, op, wire, queue, answers, asked, faults, nudged, unrecorded >>

------------------------------------------------------------------------------
(* _generate_and_send_reply, within the bulkhead *)

BeginReply(r, m) ==
  /\ pc[r] = "idle" /\ queue[m] > 0
  /\ queue' = [ queue EXCEPT ![m] = @ - 1 ]
  /\ news' = [ news EXCEPT ![r] = m ]
  /\ at' = [ at EXCEPT ![r] = On[m] ]
  /\ Goto(r, "answering")
  /\ UNCHANGED << row, lock, copy, batch, op, wire, stored, answers, asked, faults, past >>

SendReply(r) ==
  /\ pc[r] = "answering"
  /\ answers' = [ answers EXCEPT ![news[r]] = @ + 1 ]
  /\ spoke' = [ spoke EXCEPT ![at[r]] = FALSE ]
  /\ Goto(r, "noting")
  /\ UNCHANGED << row, lock, at, copy, batch, news, op, wire, queue, stored, asked, faults,
                  nudged, undone, unrecorded, last >>

\* Nothing reached the contact, and the thread is left alone.
ReplyFailed(r) ==
  /\ pc[r] = "answering" /\ Faulty
  /\ news' = [ news EXCEPT ![r] = Null ]
  /\ Done(r)
  /\ UNCHANGED << row, lock, batch, op, mail, asked, past >>

ReadToNote(r) ==
  /\ pc[r] = "noting"
  /\ copy' = [ copy EXCEPT ![r] = row[at[r]] ]
  /\ Goto(r, "writing")
  /\ UNCHANGED << row, lock, at, batch, news, op, mail, asked, faults, past >>

NoteReply(r) ==
  /\ pc[r] = "writing"
  /\ WriteRow(r, at[r], Said(copy[r]), "out")
  /\ undone' = [ undone EXCEPT ![at[r]] = @ + Lost(at[r], Said(copy[r])) ]
  /\ news' = [ news EXCEPT ![r] = Null ]
  /\ Done(r)
  /\ UNCHANGED << batch, op, mail, asked, faults, nudged, unrecorded, spoke >>

------------------------------------------------------------------------------
(* send_conversation_message and update_conversation *)

AskDesk(d, t, o) ==
  /\ pc[d] = "idle" /\ asked[d] < Budget
  /\ asked' = [ asked EXCEPT ![d] = @ + 1 ]
  /\ op' = [ op EXCEPT ![d] = o ]
  /\ at' = [ at EXCEPT ![d] = t ]
  /\ copy' = [ copy EXCEPT ![d] = row[t] ]
  /\ Goto(d, IF o = "send" THEN "sending" ELSE "editing")
  /\ UNCHANGED << row, lock, batch, news, mail, faults, past >>

SendByHand(d) ==
  /\ pc[d] = "sending"
  /\ spoke' = [ spoke EXCEPT ![at[d]] = FALSE ]
  /\ Goto(d, "editing")
  /\ UNCHANGED << row, lock, at, copy, batch, news, op, mail, asked, faults,
                  nudged, undone, unrecorded, last >>

\* The request is refused: the number is not linked, or the bridge says no.
SendRefused(d) ==
  /\ pc[d] = "sending"
  /\ op' = [ op EXCEPT ![d] = Null ]
  /\ Done(d)
  /\ UNCHANGED << row, lock, batch, news, mail, asked, faults, past >>

UpdateConversation(d) ==
  LET c == Edited(op[d], copy[d]) IN
  /\ pc[d] = "editing"
  /\ WriteRow(d, at[d], c, IF op[d] = "send" THEN "out" ELSE op[d])
  /\ undone' = [ undone EXCEPT ![at[d]] = @ + Lost(at[d], c) ]
  /\ op' = [ op EXCEPT ![d] = Null ]
  /\ Done(d)
  /\ UNCHANGED << batch, news, mail, asked, faults, nudged, unrecorded, spoke >>

------------------------------------------------------------------------------
\* A session ends where it stands: its transaction is rolled back, and what it
\* was handling is forgotten.
Crash(s) ==
  /\ pc[s] # "idle" /\ Faulty
  /\ lock' = [ t \in Thread |-> IF lock[t] = s THEN Null ELSE lock[t] ]
  /\ unrecorded' = [ t \in Thread |->
       IF pc[s] = "sent" /\ at[s] = t THEN unrecorded[t] + 1 ELSE unrecorded[t] ]
  /\ batch' = [ q \in Sweeper |-> IF q = s THEN {} ELSE batch[q] ]
  /\ news' = [ q \in Hook \cup Replier |-> IF q = s THEN Null ELSE news[q] ]
  /\ op' = [ d \in Desk |-> IF d = s THEN Null ELSE op[d] ]
  /\ Done(s)
  /\ UNCHANGED << row, mail, asked, nudged, undone, last, spoke >>

\* Steps a running session takes by itself.
Sweep(s) ==
  \/ ListDue(s) \/ Nudge(s) \/ NudgeFailed(s) \/ NudgeRefused(s)
  \/ RecordFollowUp(s)
  \/ \E t \in Thread : LockForFollowUp(s, t)

Handle(h) == StoreInbound(h) \/ StoreTyped(h) \/ \E m \in Msg : Receive(h, m)

Reply(r) ==
  \/ SendReply(r) \/ ReplyFailed(r) \/ ReadToNote(r) \/ NoteReply(r)
  \/ \E m \in Msg : BeginReply(r, m)

Serve(d) == SendByHand(d) \/ SendRefused(d) \/ UpdateConversation(d)

Next ==
  \/ \E t \in Thread : Elapse(t)
  \/ \E s \in Sweeper : Sweep(s)
  \/ \E m \in Msg : Arrive(m) \/ Redeliver(m)
  \/ \E h \in Hook : Handle(h)
  \/ \E r \in Replier : Reply(r)
  \/ \E d \in Desk : Serve(d) \/ \E t \in Thread, o \in Ops : AskDesk(d, t, o)
  \/ \E s \in Session : Crash(s)

Spec == Init /\ [][Next]_vars

\* What comes of a follow-up that is tried: it is out, or refused for good.
Settled(s) == Nudge(s) \/ NudgeRefused(s)

\* The loop ticks for ever, the event loop runs what is scheduled, time passes;
\* nobody has to write, to ask or to fail.  And a transport assumption: a follow-up
\* that is tried again and again does not fail in passing every time.  Without it
\* every sweep tries again for ever, and the thread stays due.
FairSpec ==
  /\ Spec
  /\ \A t \in Thread : WF_vars(Elapse(t))
  /\ \A s \in Sweeper : WF_vars(Sweep(s))
  /\ \A s \in Sweeper, t \in Thread : SF_vars(at[s] = t /\ Settled(s))
  /\ \A h \in Hook : WF_vars(Handle(h))
  /\ \A r \in Replier : WF_vars(Reply(r))
  /\ \A d \in Desk : WF_vars(Serve(d))

------------------------------------------------------------------------------
(* Properties *)

\* The shape of the tables and of what each session keeps in memory.
TypeOK ==
  /\ row \in [ Thread -> Row ]
  /\ lock \in [ Thread -> Sweeper \cup { Null } ]
  /\ pc \in [ Session -> { "idle", "sweeping", "locked", "sent", "storing",
                           "answering", "noting", "writing", "sending", "editing" } ]
  /\ at \in [ Session -> Thread \cup { Null } ]
  /\ copy \in [ Session -> Row \cup { Null } ]
  /\ batch \in [ Sweeper -> SUBSET Thread ]
  /\ news \in [ Hook \cup Replier -> Msg \cup { Null } ]
  /\ op \in [ Desk -> Ops \cup { Null } ]
  /\ wire \in [ Msg -> { Null, 0, 1 } ]
  /\ queue \in [ Msg -> Nat ] /\ answers \in [ Msg -> Nat ]
  /\ stored \subseteq Msg
  /\ asked \in [ Desk -> 0 .. Budget ] /\ faults \in 0 .. MaxFaults
  /\ nudged \in [ Thread -> Nat ]
  /\ undone \in [ Thread -> Nat ]
  /\ unrecorded \in [ Thread -> Nat ]
  /\ last \in [ Thread -> { "in", "out", "nudge", "signoff", "stop",
                            "edit", "takeover", "handback" } ]
  /\ spoke \in [ Thread -> BOOLEAN ]

\* Two sweeps on one contact send no more than the ladder has: since the
\* contact last wrote, every follow-up sent is on the row, or was taken off it
\* by an older copy, or its sweep died between the send and the commit.
LadderBounded ==
  \A t \in Thread : nudged[t] <= MaxFollowUps + 1 + undone[t] + unrecorded[t]

\* A message is answered at most once, however often it is delivered.
AnsweredOnce == \A m \in Msg : answers[m] <= 1

\* A follow-up never goes out on a row whose last write is the contact's
\* answer, a takeover, a sign-off or the end of the ladder, whatever the sweep
\* read before.
NeverUnwanted ==
  [][ \A t \in Thread :
        nudged'[t] > nudged[t] => last[t] \in { "out", "nudge", "edit", "handback" } ]_vars

\* No thread is due for ever whose transport delivers or refuses in the end,
\* however often it fails before: it is nudged, and let go by an answer, a
\* takeover, the sign-off, or because nobody may nudge it.
LadderEnds == \A t \in Thread : <>[]~FollowUpDue(row[t])

==============================================================================
