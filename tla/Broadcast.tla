------------------------------ MODULE Broadcast ------------------------------
(***************************************************************************)
(* One campaign over a business number: senders that claim one contact at  *)
(* a time, message it and record the outcome; the desk, which starts,      *)
(* pauses and completes the campaign, retries its failed contacts and adds *)
(* new ones; and hooks, the webhook handlers that record receipts and      *)
(* replies.  A message cannot be unsent: told is what each contact has     *)
(* received.                                                               *)
(*                                                                         *)
(* The repositories keep no reference to the row they loaded, and          *)
(* SQLAlchemy's identity map is weak, so an update first reads the row     *)
(* again (base) and then writes the columns in which the copy a handler    *)
(* read earlier differs from it (Merged).                                  *)
(*                                                                         *)
(* Left out: a campaign sent from a personal account, which gets no        *)
(* receipts; the delivered, read and replied counts, rebuilt like sent;    *)
(* deleting the campaign, or its number, which deletes it.                 *)
(***************************************************************************)
EXTENDS Integers, FiniteSets

CONSTANTS
  Worker,     \* the background runs of SendBroadcast
  Desk,       \* the request handlers of the campaign's controls
  Hook,       \* the webhook handlers
  Contact,    \* the numbers a contact list may hold, in the order of its rows
  Listed,     \* the contacts on the campaign when it is created
  Ops,        \* the controls the desk uses
  Receipts,   \* the statuses the provider reports
  Null,
  Budget,     \* bound: the requests of one desk
  MaxNews,    \* bound: the receipts and replies of one hook
  MaxFaults   \* bound: the crashes and the lost answers

ASSUME ConstantAssumption ==
  /\ Worker \cap Desk = {} /\ Worker \cap Hook = {} /\ Desk \cap Hook = {}
  /\ IsFiniteSet(Contact) /\ Contact \subseteq Nat
  /\ Listed \subseteq Contact
  /\ Ops \subseteq { "start", "pause", "complete", "retry", "add" }
  /\ Receipts \subseteq { "sent", "delivered", "read", "failed" }
  /\ Budget \in Nat /\ MaxNews \in Nat /\ MaxFaults \in Nat

VARIABLES
  campaign,             \* the campaign's committed row
  rows, draft, lock,    \* the broadcast_recipients table
  pc,
  op,       \* what a desk was asked
  news,     \* the receipt or the reply a hook is handling
  copy,     \* the campaign in a process's memory
  base,     \* the row its update has read again
  mine,     \* the recipient in a hook's memory
  runs,     \* the background runs scheduled and not begun
  asked, faults,
  told,     \* the messages each contact has received
  due,      \* the messages each contact had a cause to receive
  late,     \* the messages since the campaign was halted, if it was; 2 is many
  closed    \* the campaign was once completed by hand

table == << rows, draft, lock >>
past  == << told, due, late, closed >>
vars  == << campaign, table, pc, op, news, copy, base, mine, runs, asked, faults, past >>

Session == Worker \cup Desk \cup Hook

R == INSTANCE Table WITH Id <- Contact

\* _STATUS_RANK, and with it the statuses of a recipient.
Rank == [ pending |-> 0, sent |-> 1, delivered |-> 2, read |-> 3, replied |-> 4, failed |-> 5 ]

\* A recipient.  sid is the provider's message id (the number of that message
\* among the contact's, 0 for none); thread, whether a conversation exists.
Row == [ status : DOMAIN Rank, sid : Nat, attempts : Nat, thread : BOOLEAN ]

Campaign == [ status : { "queued", "sending", "paused", "completed" },
              total : Nat, sent : Nat, failed : Nat ]

ASSUME NullAssumption ==
  /\ Null \notin Session \cup Contact \cup Nat
  /\ Null \notin Row /\ Null \notin Campaign

Fresh == [ status |-> "pending", sid |-> 0, attempts |-> 0, thread |-> FALSE ]

Init ==
  /\ campaign = [ status |-> "queued", total |-> Cardinality(Listed),
                  sent |-> 0, failed |-> 0 ]
  /\ rows = [ r \in Contact |-> IF r \in Listed THEN Fresh ELSE Null ]
  /\ draft = [ r \in Contact |-> Null ]
  /\ lock = [ r \in Contact |-> Null ]
  /\ pc = [ s \in Session |-> "idle" ]
  /\ op = [ d \in Desk |-> Null ]
  /\ news = [ h \in Hook |-> Null ]
  /\ copy = [ s \in Session |-> Null ]
  /\ base = [ s \in Session |-> Null ]
  /\ mine = [ h \in Hook |-> Null ]
  /\ runs = 0
  /\ asked = [ s \in Desk \cup Hook |-> 0 ]
  /\ faults = 0
  /\ told = [ r \in Contact |-> 0 ]
  /\ due = [ r \in Contact |-> 1 ]
  /\ late = Null
  /\ closed = FALSE

Goto(s, stage) == pc' = [ pc EXCEPT ![s] = stage ]

\* What an UPDATE makes of version v, when the copy c differs from what was
\* read again, b, in some columns.
Merged(v, b, c) == [ f \in DOMAIN v |-> IF c[f] # b[f] THEN c[f] ELSE v[f] ]

\* The recipients a statement of session s reads.
List(s) == [ r \in { q \in Contact : R!Seen(s, q) # Null } |-> R!Seen(s, r) ]

\* The contacts whose row session s has locked.
Held(s) == { r \in Contact : lock[r] = s }

------------------------------------------------------------------------------
(* The campaign entity *)

\* Broadcast.start
Started(c) ==
  IF c.status \in { "queued", "paused" } THEN [ c EXCEPT !.status = "sending" ] ELSE c

\* Broadcast.pause
Paused(c) ==
  IF c.status = "sending" THEN [ c EXCEPT !.status = "paused" ] ELSE c

\* Broadcast.complete
Completed(c) == [ c EXCEPT !.status = "completed" ]

\* Fault: a contact counts as sent from its first rank on.
RecountedFromZero(c, list) ==
  [ c EXCEPT !.total = Cardinality(DOMAIN list),
             !.sent = Cardinality({ r \in DOMAIN list : list[r].status # "failed" }),
             !.failed = Cardinality({ r \in DOMAIN list : list[r].status = "failed" }) ]

\* recompute_counts: failed recipients were not reached, whatever came before.
Recounted(c, list) ==
  [ c EXCEPT !.total = Cardinality(DOMAIN list),
             !.sent = Cardinality({ r \in DOMAIN list :
                        list[r].status # "failed" /\ Rank[list[r].status] >= Rank["sent"] }),
             !.failed = Cardinality({ r \in DOMAIN list : list[r].status = "failed" }) ]

\* Fault: whoever finds nothing to claim closes the campaign.
IsFinishedAlways(list) == TRUE

IsFinished(list) == \A r \in DOMAIN list : list[r].status # "pending"

\* record_send_outcome
Recorded(c, ok) ==
  IF ok THEN [ c EXCEPT !.sent = @ + 1 ] ELSE [ c EXCEPT !.failed = @ + 1 ]

------------------------------------------------------------------------------
(* What every handler does with the campaign it read *)

\* list_for_broadcast and recompute_counts; a sender that finds the list
\* finished also completes the campaign.
Count(s) ==
  /\ pc[s] = "count"
  /\ LET counted == Recounted(copy[s], List(s))
     IN  copy' = [ copy EXCEPT ![s] =
                     IF s \in Worker /\ IsFinished(List(s)) THEN Completed(counted)
                                                            ELSE counted ]
  /\ Goto(s, "save")
  /\ UNCHANGED << campaign, table, op, news, base, mine, runs, asked, faults, past >>

\* broadcasts.update reads the row again.
Save(s) ==
  /\ pc[s] = "save"
  /\ base' = [ base EXCEPT ![s] = campaign ]
  /\ Goto(s, "commit")
  /\ UNCHANGED << campaign, table, op, news, copy, mine, runs, asked, faults, past >>

Forget(s) ==
  /\ copy' = [ copy EXCEPT ![s] = Null ]
  /\ base' = [ base EXCEPT ![s] = Null ]

\* The UPDATE of the campaign and the COMMIT after it: every handler writes
\* the campaign last, so it waits for no other row while it has this one.
Committed(s) ==
  /\ pc[s] = "commit"
  /\ campaign' = Merged(campaign, base[s], copy[s])
  /\ R!Commit(s)
  /\ Forget(s)

------------------------------------------------------------------------------
(* The sender: SendBroadcast.execute *)

\* The campaign is read; unless it accepts sends, the run ends.
Load(w) ==
  /\ \/ /\ campaign.status = "sending"
        /\ copy' = [ copy EXCEPT ![w] = campaign ]
        /\ Goto(w, "claim")
     \/ /\ campaign.status # "sending"
        /\ Goto(w, "idle")
        /\ UNCHANGED copy
  /\ UNCHANGED << campaign, table, op, news, base, mine, asked, faults, past >>

Begin(w) ==
  /\ pc[w] = "idle"
  /\ runs > 0
  /\ runs' = runs - 1
  /\ Load(w)

\* The sender comes back from the pause between two contacts.
Again(w) ==
  /\ pc[w] = "load"
  /\ Load(w)
  /\ UNCHANGED runs

\* Fault: the rows other senders have locked are not skipped.
ClaimableLocked(r) == rows[r] # Null /\ rows[r].status = "pending"

Claimable(r) == rows[r] # Null /\ rows[r].status = "pending" /\ lock[r] = Null

\* claim_pending: FOR UPDATE SKIP LOCKED, the oldest row first.
Claim(w) ==
  /\ pc[w] = "claim"
  /\ \/ \E r \in Contact :
          /\ Claimable(r)
          /\ \A q \in Contact : Claimable(q) => r <= q
          /\ R!Put(w, {r}, rows)
          /\ Goto(w, "send")
     \/ /\ \A r \in Contact : ~Claimable(r)
        /\ Goto(w, "count")
        /\ UNCHANGED table
  /\ UNCHANGED << campaign, op, news, copy, base, mine, runs, asked, faults, past >>

\* mark_sent, and the conversation the message opens.
MarkedSent(v, n) ==
  [ status |-> "sent", sid |-> n, attempts |-> v.attempts + 1, thread |-> TRUE ]

MarkedFailed(v) == [ v EXCEPT !.status = "failed", !.attempts = @ + 1 ]

\* The sender records an outcome, in the row and in its copy of the campaign.
Outcomes(w, r, v) ==
  /\ pc[w] = "send"
  /\ R!Put(w, {r}, [ q \in {r} |-> v ])
  /\ copy' = [ copy EXCEPT ![w] = Recorded(@, v.status # "failed") ]
  /\ Goto(w, "save")
  /\ UNCHANGED << campaign, op, news, base, mine, runs, asked, due, closed >>

Tell(r) ==
  /\ told' = [ told EXCEPT ![r] = @ + 1 ]
  /\ late' = IF late \in { Null, 2 } THEN late ELSE late + 1

Accepted(w) ==
  \E r \in Held(w) :
    /\ Outcomes(w, r, MarkedSent(draft[r], told[r] + 1))
    /\ Tell(r)
    /\ UNCHANGED faults

Rejected(w) ==
  \E r \in Held(w) :
    /\ Outcomes(w, r, MarkedFailed(draft[r]))
    /\ UNCHANGED << faults, told, late >>

\* The provider delivers and its answer times out: the sender sees a failure.
AnswerLost(w) ==
  \E r \in Held(w) :
    /\ faults < MaxFaults
    /\ faults' = faults + 1
    /\ Outcomes(w, r, MarkedFailed(draft[r]))
    /\ Tell(r)

\* One contact is recorded and the sender goes on, or it has closed up.
Record(w) ==
  /\ Committed(w)
  /\ Goto(w, IF Held(w) = {} THEN "idle" ELSE "load")
  /\ UNCHANGED << op, news, mine, runs, asked, faults, past >>

------------------------------------------------------------------------------
(* The desk *)

Request(d, o) ==
  /\ pc[d] = "idle"
  /\ o \in Ops
  /\ asked[d] < Budget
  /\ asked' = [ asked EXCEPT ![d] = @ + 1 ]
  /\ op' = [ op EXCEPT ![d] = o ]

\* start, pause and complete change the status of the copy they read.
Control(d, o, c) ==
  /\ Request(d, o)
  /\ copy' = [ copy EXCEPT ![d] = c ]
  /\ Goto(d, "save")
  /\ UNCHANGED << campaign, table, news, base, mine, runs, faults, past >>

Start(d) ==
  /\ campaign.total # 0
  /\ campaign.status # "completed"
  /\ Control(d, "start", Started(campaign))

Pause(d) == Control(d, "pause", Paused(campaign))

Complete(d) == Control(d, "complete", Completed(campaign))

Retry(d) ==
  /\ Request(d, "retry")
  /\ copy' = [ copy EXCEPT ![d] = campaign ]
  /\ Goto(d, "reset")
  /\ UNCHANGED << campaign, table, news, base, mine, runs, faults, past >>

\* reset_failed: one UPDATE that puts every failed recipient back in the queue.
\* If there was one, the campaign starts.
Reset(d) ==
  /\ pc[d] = "reset"
  /\ LET failed == { r \in Contact : rows[r] # Null /\ rows[r].status = "failed" }
     IN  /\ \A r \in failed : R!Lockable(d, r)
         /\ R!Put(d, failed, [ r \in failed |-> [ rows[r] EXCEPT !.status = "pending", !.sid = 0 ] ])
         /\ copy' = [ copy EXCEPT ![d] = IF failed = {} THEN @ ELSE Started(@) ]
  /\ Goto(d, "count")
  /\ UNCHANGED << campaign, op, news, base, mine, runs, asked, faults, past >>

\* AddBroadcastRecipients: a number that is on the campaign is not added again.
Add(d) ==
  /\ Request(d, "add")
  /\ \E r \in Contact :
       /\ \A q \in Contact : rows[q] = Null => r <= q
       /\ \/ /\ rows[r] = Null
             /\ R!Lockable(d, r)
             /\ R!Put(d, {r}, [ q \in {r} |-> Fresh ])
          \/ /\ rows[r] # Null
             /\ UNCHANGED table
  /\ copy' = [ copy EXCEPT ![d] = campaign ]
  /\ Goto(d, "count")
  /\ UNCHANGED << campaign, news, base, mine, runs, faults, past >>

\* Fault: only a retry schedules a run.
ResumesOnRetry(d) == op[d] = "retry" /\ Held(d) # {}

\* start, and a retry that requeued someone, schedule a background run.
Resumes(d) == op[d] = "start" \/ (op[d] = "retry" /\ Held(d) # {})

Halts(d) ==
  op[d] \in { "pause", "complete" } /\ campaign'.status \in { "paused", "completed" }

\* The commit of a control, and the run scheduled after the response.
Settle(d) ==
  /\ Committed(d)
  /\ runs' = IF Resumes(d) THEN runs + 1 ELSE runs
  /\ due' = [ r \in Contact |->
                IF op[d] = "retry" /\ lock[r] = d THEN due[r] + 1 ELSE due[r] ]
  /\ late' = CASE Resumes(d) -> Null
               [] Halts(d) /\ late = Null -> 0
               [] OTHER -> late
  /\ closed' = (closed \/ op[d] = "complete")
  /\ op' = [ op EXCEPT ![d] = Null ]
  /\ Goto(d, "idle")
  /\ UNCHANGED << news, mine, asked, faults, told >>

------------------------------------------------------------------------------
(* The hooks *)

\* mark_undeliverable, and advance_to, which never moves a recipient back.
Advanced(v, status) ==
  IF status = "failed" \/ Rank[status] > Rank[v.status]
  THEN [ v EXCEPT !.status = status ] ELSE v

\* A hook has recipient v of contact r in memory.
Hold(h, r, status, v) ==
  /\ news' = [ news EXCEPT ![h] = [ to |-> r, as |-> status ] ]
  /\ mine' = [ mine EXCEPT ![h] = v ]

\* A receipt arrives: in any order, again, or late.  The first transaction of
\* advance_delivery_status finds the recipient by the message id; a receipt of
\* a message whose sender has not committed, or that a retry has wiped, finds
\* none and is dropped.
Receipt(h) ==
  /\ pc[h] = "idle"
  /\ asked[h] < MaxNews
  /\ asked' = [ asked EXCEPT ![h] = @ + 1 ]
  /\ \E r \in Contact, status \in Receipts :
       /\ rows[r] # Null /\ rows[r].sid # 0
       /\ Hold(h, r, status, Null)
  /\ Goto(h, "fetch")
  /\ UNCHANGED << campaign, table, op, copy, base, runs, faults, past >>

\* The second transaction reads the recipient again and moves it on.
Fetch(h) ==
  /\ pc[h] = "fetch"
  /\ LET r == news[h].to
         v == Advanced(rows[r], news[h].as)
     IN  \/ /\ v # rows[r] \/ news[h].as = "failed"
            /\ Hold(h, r, news[h].as, v)
            /\ Goto(h, "reread")
         \/ /\ v = rows[r] /\ news[h].as # "failed"
            /\ news' = [ news EXCEPT ![h] = Null ]
            /\ Goto(h, "idle")
            /\ UNCHANGED mine
  /\ UNCHANGED << campaign, table, op, copy, base, runs, asked, faults, past >>

\* mark_replied: an inbound message on the conversation of a recipient.
Reply(h) ==
  /\ pc[h] = "idle"
  /\ asked[h] < MaxNews
  /\ asked' = [ asked EXCEPT ![h] = @ + 1 ]
  /\ \E r \in Contact :
       /\ rows[r] # Null /\ rows[r].thread
       /\ Advanced(rows[r], "replied") # rows[r]
       /\ Hold(h, r, "replied", Advanced(rows[r], "replied"))
  /\ Goto(h, "reread")
  /\ UNCHANGED << campaign, table, op, copy, base, runs, faults, past >>

\* broadcast_recipients.update reads the row again...
Reread(h) ==
  /\ pc[h] = "reread"
  /\ base' = [ base EXCEPT ![h] = rows[news[h].to] ]
  /\ Goto(h, "flush")
  /\ UNCHANGED << campaign, table, op, news, copy, mine, runs, asked, faults, past >>

\* ... and the next query flushes it: an UPDATE, which waits for a sender that
\* has the row.  That query is the one that reads the campaign.
Flush(h) ==
  /\ pc[h] = "flush"
  /\ LET r == news[h].to
     IN  /\ R!Lockable(h, r)
         /\ R!Put(h, {r}, [ q \in {r} |-> Merged(rows[r], base[h], mine[h]) ])
  /\ copy' = [ copy EXCEPT ![h] = campaign ]
  /\ base' = [ base EXCEPT ![h] = Null ]
  /\ mine' = [ mine EXCEPT ![h] = Null ]
  /\ Goto(h, "count")
  /\ UNCHANGED << campaign, op, news, runs, asked, faults, past >>

Post(h) ==
  /\ Committed(h)
  /\ news' = [ news EXCEPT ![h] = Null ]
  /\ Goto(h, "idle")
  /\ UNCHANGED << op, mine, runs, asked, faults, past >>

------------------------------------------------------------------------------
(* Failures *)

\* A redeploy, or an exception: the transaction is rolled back.  A sender that
\* had handed its message over leaves a contact who may have received it in
\* the queue.
Crash(s) ==
  /\ pc[s] # "idle"
  /\ faults < MaxFaults
  /\ faults' = faults + 1
  /\ R!Rollback(s)
  /\ Forget(s)
  /\ Goto(s, "idle")
  /\ due' = [ r \in Contact |->
                IF lock[r] = s /\ s \in Worker /\ pc[s] # "send" THEN due[r] + 1 ELSE due[r] ]
  /\ op' = [ d \in Desk |-> IF d = s THEN Null ELSE op[d] ]
  /\ news' = [ h \in Hook |-> IF h = s THEN Null ELSE news[h] ]
  /\ mine' = [ h \in Hook |-> IF h = s THEN Null ELSE mine[h] ]
  /\ UNCHANGED << campaign, runs, asked, told, late, closed >>

\* A run that was scheduled is gone with its process.
RunLost ==
  /\ runs > 0
  /\ faults < MaxFaults
  /\ runs' = runs - 1
  /\ faults' = faults + 1
  /\ UNCHANGED << campaign, table, pc, op, news, copy, base, mine, asked, past >>

------------------------------------------------------------------------------
Working(w) ==
  \/ Begin(w) \/ Again(w) \/ Claim(w) \/ Accepted(w) \/ Rejected(w)
  \/ Count(w) \/ Save(w) \/ Record(w)

Controlling(d) == Reset(d) \/ Count(d) \/ Save(d) \/ Settle(d)

Hooking(h) == Fetch(h) \/ Reread(h) \/ Flush(h) \/ Count(h) \/ Save(h) \/ Post(h)

Next ==
  \/ \E w \in Worker : Working(w) \/ AnswerLost(w)
  \/ \E d \in Desk :
       Start(d) \/ Pause(d) \/ Complete(d) \/ Retry(d) \/ Add(d) \/ Controlling(d)
  \/ \E h \in Hook : Receipt(h) \/ Reply(h) \/ Hooking(h)
  \/ \E s \in Session : Crash(s)
  \/ RunLost

Spec == Init /\ [][Next]_vars

\* A statement that was sent is answered, a scheduled run begins, and a send
\* returns.  Nobody has to use a control, and no receipt has to arrive.
Fairness ==
  /\ \A w \in Worker : WF_vars(Working(w))
  /\ \A d \in Desk : WF_vars(Controlling(d))
  /\ \A h \in Hook : WF_vars(Hooking(h))

FairSpec == Spec /\ Fairness

------------------------------------------------------------------------------
(* Properties *)

\* The state is of its type.
TypeOK ==
  /\ campaign \in Campaign
  /\ rows \in [ Contact -> Row \cup {Null} ]
  /\ draft \in [ Contact -> Row \cup {Null} ]
  /\ lock \in [ Contact -> Session \cup {Null} ]
  /\ pc \in [ Session -> { "idle", "load", "claim", "send", "reset", "fetch", "reread",
                           "flush", "count", "save", "commit" } ]
  /\ op \in [ Desk -> Ops \cup {Null} ]
  /\ news \in [ Hook -> [ to : Contact, as : Receipts \cup {"replied"} ] \cup {Null} ]
  /\ copy \in [ Session -> Campaign \cup {Null} ]
  /\ base \in [ Session -> Campaign \cup Row \cup {Null} ]
  /\ mine \in [ Hook -> Row \cup {Null} ]
  /\ runs \in Nat
  /\ asked \in [ Desk \cup Hook -> Nat ]
  /\ faults \in 0..MaxFaults
  /\ told \in [ Contact -> Nat ]
  /\ due \in [ Contact -> Nat ]
  /\ late \in 0..2 \cup {Null}
  /\ closed \in BOOLEAN

\* claim_pending: no "two workers messaging the same person twice".  Every
\* message a contact receives but the first has a cause: a retry that requeued
\* the contact, or a crash between its send and its commit.
MessagedOnce == \A r \in Contact : told[r] <= due[r]

\* When a sender has completed the campaign, there was an attempt for every
\* contact it was created with: a row that another sender has locked, and may
\* roll back, does not count as done.
NobodyForgotten ==
  campaign.status = "completed" /\ ~closed
    => \A r \in Listed : rows[r].attempts > 0

\* The messages received so far, each by its contact and its number there.
Messages == UNION { {r} \X (1..told[r]) : r \in Contact }

\* "a receipt that arrives twice cannot inflate the campaign's totals": the
\* campaign never claims to have sent more messages than were received, with
\* all the old copies that are written back.
NotInflated == campaign.sent <= Cardinality(Messages)

\* While a campaign is sending, nobody has halted it and nothing has crashed,
\* every contact it was created with is attempted: the senders do not leave
\* one behind when they skip each other's rows and stop.
Worked ==
  \A r \in Listed :
    campaign.status = "sending" /\ late = Null /\ faults = 0
      ~> rows[r].attempts > 0 \/ campaign.status # "sending" \/ late # Null \/ faults > 0

==============================================================================
