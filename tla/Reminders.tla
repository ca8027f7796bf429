------------------------------ MODULE Reminders ------------------------------
(***************************************************************************)
(* The reminder sweep: worker processes that take turns under an advisory  *)
(* lock, read the appointments that start soon, and for each one send a    *)
(* message, then mark the row; and the desk, whose edits write the whole   *)
(* row back from a copy.  A message cannot be unsent: told is what each    *)
(* customer has received.                                                  *)
(*                                                                         *)
(* Left out: the note of the message on the customer's thread, a           *)
(* transaction between the send and the mark whose failure is a Crash      *)
(* there, and the loss of the lock's own connection in the middle of a     *)
(* tick that goes on.                                                      *)
(***************************************************************************)
EXTENDS Integers, FiniteSets, Sequences, Lifecycle

CONSTANTS
  Worker,     \* the processes that run the reminder loop
  Desk,       \* the request handlers that edit appointments
  Appt, Null,
  Phone,      \* the appointments whose customer left a phone number
  Lead,       \* minutes before the start at which a reminder is due
  Limit,      \* batch_limit: the rows one tick reads
  Start,      \* the start times appointments are booked for and moved to
  Targets,    \* the statuses a transition may ask for
  MaxClock,   \* bound: the last minute
  MaxEdits,   \* bound: the edits of one desk
  MaxFaults   \* bound: the crashes and the lost answers

ASSUME NullAssumption == Null \notin Worker \cup Desk \cup Appt \cup Nat

ASSUME ConstantAssumption ==
  /\ Worker \cap Desk = {}
  /\ IsFiniteSet(Desk)
  /\ Phone \subseteq Appt
  /\ Lead \in Nat /\ Limit \in Nat \ {0}
  /\ Start \subseteq Nat
  /\ Targets \subseteq Status
  /\ MaxClock \in Nat /\ MaxEdits \in Nat /\ MaxFaults \in Nat

VARIABLES
  clock,
  appts, apptsDraft, apptsLock,   \* the appointments table
  lease,      \* the process that holds the advisory lock
  pc,
  moment,     \* the instant a worker's tick captured
  batch,      \* the due appointments a tick has read and not handled yet
  copy,       \* the row in a process's memory
  current,    \* the appointment a process is at
  told,       \* for each appointment, the start times its customer was told
  edits, faults

table == << appts, apptsDraft, apptsLock >>
vars  == << clock, table, lease, pc, moment, batch, copy, current, told,
            edits, faults >>

Session == Worker \cup Desk

A == INSTANCE Table WITH Id <- Appt, Session <- Session,
                         rows <- appts, draft <- apptsDraft, lock <- apptsLock

Row == [ start : Nat, status : Status, reminded : Nat \cup {Null} ]

ASSUME RowAssumption == Null \notin Row

\* needs_reminder: unmarked, live, within the lead time, and not yet started.
Due(v, t) ==
  /\ v.reminded = Null
  /\ v.status \notin Terminal
  /\ t < v.start
  /\ v.start <= t + Lead

Init ==
  /\ clock = 0
  /\ appts \in [ Appt -> { [ start |-> s, status |-> "confirmed", reminded |-> Null ] :
                             s \in Start } ]
  /\ apptsDraft = [ a \in Appt |-> Null ]
  /\ apptsLock = [ a \in Appt |-> Null ]
  /\ lease = Null
  /\ pc = [ s \in Session |-> "idle" ]
  /\ moment = [ w \in Worker |-> 0 ]
  /\ batch = [ w \in Worker |-> {} ]
  /\ copy = [ s \in Session |-> Null ]
  /\ current = [ s \in Session |-> Null ]
  /\ told = [ a \in Appt |-> << >> ]
  /\ edits = [ d \in Desk |-> 0 ]
  /\ faults = 0

Goto(s, stage) == pc' = [ pc EXCEPT ![s] = stage ]

Forget(s) ==
  /\ current' = [ current EXCEPT ![s] = Null ]
  /\ copy' = [ copy EXCEPT ![s] = Null ]

\* A process turns to appointment a, with v its row in memory.
Hold(s, a, v) ==
  /\ current' = [ current EXCEPT ![s] = a ]
  /\ copy' = [ copy EXCEPT ![s] = v ]

------------------------------------------------------------------------------
(* The sweep *)

\* Fault: the lock is asked for and the answer ignored.
FreeAlways == TRUE

\* pg_try_advisory_lock succeeds.
Free == lease = Null

\* The lease is taken and the tick captures its instant.  A worker that does
\* not get the lease skips its tick, which changes nothing.
Wake(w) ==
  /\ pc[w] = "idle"
  /\ Free
  /\ lease' = w
  /\ moment' = [ moment EXCEPT ![w] = clock ]
  /\ Goto(w, "list")
  /\ UNCHANGED << clock, table, batch, copy, current, told, edits, faults >>

\* list_due_reminders: the soonest due rows nobody has locked, up to the limit.
List(w) ==
  /\ pc[w] = "list"
  /\ LET due == { a \in Appt : apptsLock[a] = Null /\ Due(appts[a], moment[w]) }
     IN  \E B \in SUBSET due :
           /\ Cardinality(B) <= Limit
           /\ B # due => Cardinality(B) = Limit
           /\ \A a \in B, b \in due \ B : appts[a].start <= appts[b].start
           /\ batch' = [ batch EXCEPT ![w] = { << a, appts[a] >> : a \in B } ]
  /\ Goto(w, "next")
  /\ UNCHANGED << clock, table, lease, moment, copy, current, told, edits, faults >>

\* The next appointment of the batch, soonest first; one without a phone
\* number is marked at once, so that the sweep stops considering it.
Take(w) ==
  /\ pc[w] = "next"
  /\ \E e \in batch[w] :
       /\ \A f \in batch[w] : e[2].start <= f[2].start
       /\ batch' = [ batch EXCEPT ![w] = @ \ {e} ]
       /\ Hold(w, e[1], e[2])
       /\ Goto(w, IF e[1] \in Phone THEN "send" ELSE "mark")
  /\ UNCHANGED << clock, table, lease, moment, told, edits, faults >>

Tell(w) ==
  told' = [ told EXCEPT ![current[w]] = Append(@, copy[w].start) ]

Delivered(w) ==
  /\ pc[w] = "send"
  /\ Tell(w)
  /\ Goto(w, "mark")
  /\ UNCHANGED << clock, table, lease, moment, batch, copy, current, edits, faults >>

\* Fault: the row is marked whatever the transport answers.
AfterFailureMarked == "mark"

\* A failed send leaves the row unmarked, for the next tick to retry.
AfterFailure == "next"

Failed(w) ==
  /\ pc[w] = "send"
  /\ Goto(w, AfterFailure)
  /\ UNCHANGED << clock, table, lease, moment, batch, copy, current, told,
                  edits, faults >>

\* The transport delivers and its answer times out: the sweep sees a failure.
AnswerLost(w) ==
  /\ pc[w] = "send"
  /\ faults < MaxFaults
  /\ faults' = faults + 1
  /\ Tell(w)
  /\ Goto(w, AfterFailure)
  /\ UNCHANGED << clock, table, lease, moment, batch, copy, current, edits >>

\* mark_reminded: the mark is the instant of the tick.
Marked(v, t) == [ v EXCEPT !.reminded = t ]

\* mark_reminder_sent: a transaction that writes this one column of the row,
\* whatever the rest of it has become.
Mark(w) ==
  /\ pc[w] = "mark"
  /\ A!Lockable(w, current[w])
  /\ appts' = [ appts EXCEPT ![current[w]] = Marked(@, moment[w]) ]
  /\ Goto(w, "next")
  /\ UNCHANGED << clock, apptsDraft, apptsLock, lease, moment, batch, copy,
                  current, told, edits, faults >>

\* Fault: a tick that ends leaves its lock behind.
LeftLease(w) == lease

\* What is left of the lease when w's tick is over, or its connection gone.
Handed(w) == IF lease = w THEN Null ELSE lease

Finish(w) ==
  /\ pc[w] = "next"
  /\ batch[w] = {}
  /\ lease' = Handed(w)
  /\ Goto(w, "idle")
  /\ Forget(w)
  /\ UNCHANGED << clock, table, moment, batch, told, edits, faults >>

\* A redeploy, or an exception that ends the tick.
Crash(w) ==
  /\ pc[w] # "idle"
  /\ faults < MaxFaults
  /\ faults' = faults + 1
  /\ lease' = Handed(w)
  /\ batch' = [ batch EXCEPT ![w] = {} ]
  /\ Goto(w, "idle")
  /\ Forget(w)
  /\ UNCHANGED << clock, table, moment, told, edits >>

------------------------------------------------------------------------------
(* The desk *)

\* What an edit makes of the row it read: new details, another status, or
\* another time.  None of them touches the mark.
Editions(v) ==
  { v }
  \cup { [ v EXCEPT !.status = s ] : s \in { t \in Targets : CanTransition(v.status, t) } }
  \cup { [ v EXCEPT !.start = s ] :
           s \in { t \in Start : v.status \notin Terminal /\ t >= clock /\ t # v.start } }

Read(d) ==
  /\ pc[d] = "idle"
  /\ edits[d] < MaxEdits
  /\ edits' = [ edits EXCEPT ![d] = @ + 1 ]
  /\ \E a \in Appt : \E v \in Editions(appts[a]) : Hold(d, a, v)
  /\ Goto(d, "write")
  /\ UNCHANGED << clock, table, lease, moment, batch, told, faults >>

\* appointments.update: every column, the mark included, from the copy.
Write(d) ==
  /\ pc[d] = "write"
  /\ A!Lockable(d, current[d])
  /\ A!Put(d, { current[d] }, [ a \in { current[d] } |-> copy[d] ])
  /\ Goto(d, "commit")
  /\ UNCHANGED << clock, lease, moment, batch, copy, current, told, edits, faults >>

Commit(d) ==
  /\ pc[d] = "commit"
  /\ A!Commit(d)
  /\ Goto(d, "idle")
  /\ Forget(d)
  /\ UNCHANGED << clock, lease, moment, batch, told, edits, faults >>

\* The request fails, at any point before its commit.
Abort(d) ==
  /\ pc[d] # "idle"
  /\ A!Rollback(d)
  /\ Goto(d, "idle")
  /\ Forget(d)
  /\ UNCHANGED << clock, lease, moment, batch, told, edits, faults >>

Tick ==
  /\ clock < MaxClock
  /\ clock' = clock + 1
  /\ UNCHANGED << table, lease, pc, moment, batch, copy, current, told, edits,
                  faults >>

Statement(w) == List(w) \/ Take(w) \/ Delivered(w) \/ Failed(w) \/ Mark(w) \/ Finish(w)

Next ==
  \/ \E w \in Worker : Wake(w) \/ Statement(w) \/ AnswerLost(w) \/ Crash(w)
  \/ \E d \in Desk : Read(d) \/ Write(d) \/ Commit(d) \/ Abort(d)
  \/ Tick

Spec == Init /\ [][Next]_vars

\* The loop of every process wakes up again, a statement that was started
\* ends, and a transport that is tried for the same customer again and again
\* delivers once.  Time owes nothing: an appointment may start first.
Fairness ==
  /\ \A w \in Worker :
       /\ WF_vars(Wake(w))
       /\ WF_vars(Statement(w))
       /\ \A a \in Appt : SF_vars(Delivered(w) /\ current[w] = a)
  /\ \A d \in Desk : WF_vars(Write(d) \/ Commit(d) \/ Abort(d))

FairSpec == Spec /\ Fairness

------------------------------------------------------------------------------
(* Properties *)

\* The state is of its type.
TypeOK ==
  /\ clock \in 0..MaxClock
  /\ appts \in [ Appt -> Row ]
  /\ apptsDraft \in [ Appt -> Row \cup {Null} ]
  /\ apptsLock \in [ Appt -> Desk \cup {Null} ]
  /\ lease \in Worker \cup {Null}
  /\ pc \in [ Session -> { "idle", "list", "next", "send", "mark", "write", "commit" } ]
  /\ moment \in [ Worker -> 0..MaxClock ]
  /\ batch \in [ Worker -> SUBSET (Appt \X Row) ]
  /\ copy \in [ Session -> Row \cup {Null} ]
  /\ current \in [ Session -> Appt \cup {Null} ]
  /\ told \in [ Appt -> Seq(Nat) ]
  /\ edits \in [ Desk -> 0..MaxEdits ]
  /\ faults \in 0..MaxFaults

\* "Written after a successful send": a marked row belongs to a customer who
\* was told, or who cannot be, through every crash and every edit that writes
\* an old copy of the row back.
MarkMeansTold ==
  \A a \in Phone : appts[a].reminded # Null => told[a] # << >>

\* The edits begun so far, each by its desk and its number there.
Edits == { e \in Desk \X (1..MaxEdits) : e[2] <= edits[e[1]] }

\* Every message but the first is paid for by a fault, or by an edit that may
\* have written an unmarked copy back: workers alone never remind twice.
Paid == \A a \in Appt : Len(told[a]) <= 1 + faults + Cardinality(Edits)

\* One process at a time is in a tick.
OneTick == \A w \in Worker : pc[w] # "idle" => lease = w

\* A due customer with a phone number is told, unless the appointment starts,
\* ends or is moved first: no crash, lost answer or lock stops the reminders.
Reminded ==
  \A a \in Phone :
    Due(appts[a], clock) ~> told[a] # << >> \/ ~Due(appts[a], clock)

==============================================================================
