# A verification of Evara

Evara is a multi-tenant back office for assistants that talk to customers over
WhatsApp, the web and the phone: they answer from uploaded documents, book
appointments, follow up, send campaigns and run interviews. It is a FastAPI
application (`src/src`) over PostgreSQL, with a Node sidecar for personal
WhatsApp accounts and several web processes, each of which also runs the
background loops.

This directory holds TLA+ models of the parts whose correctness depends on the
order in which concurrent requests, loops and failures meet in the database,
the TLC configurations that check them, and proofs that TLAPS checks.

- [Inventory](#inventory)
- [Modules](#modules)
- [Booking](#booking)
- [Reminders](#reminders)
- [Broadcasts](#broadcasts)
- [Inbox and follow-ups](#inbox-and-follow-ups)
- [Ingestion](#ingestion)
- [Reception](#reception)
- [Slots](#slots)
- [Links](#links)
- [Answers](#answers)
- [Interviews](#interviews)
- [Plans](#plans)
- [What is proved](#what-is-proved)
- [Not modelled](#not-modelled)
- [What is left](#what-is-left)
- [Running it](#running-it)

## Inventory

The layers are the usual ones: `interfaces/` calls use cases in `application/`,
which work on entities of `domain/` through repositories of `infrastructure/`
inside a unit of work, one database transaction that is rolled back unless it
is committed (`infrastructure/persistence/unit_of_work.py`). Components interact
through tables, through row and advisory locks, and through events the unit of
work publishes after a commit. There is no queue and no shared memory between
processes. No engine option sets an isolation level, so every transaction runs
at READ COMMITTED; `appointments.get` and its siblings take no row lock.

| Component | State | Operations | Hard behaviour | What makes it correct | Status |
|---|---|---|---|---|---|
| Booking engine (`use_cases/appointments.py`, `use_cases/availability.py`, `scheduling_repositories.py`) | `appointments`, `resource_reservations` (live rows guarded by an exclusion constraint) | hold, book, confirm, drop, transition, reschedule, edit, sweep | statements of several transactions interleave; holds expire; retries; deadlocks; crashes | no overlap, appointments backed by reservations and reservations by appointments, idempotent retries, every request answered | modelled, checked, safety proved |
| Availability engine (`domain/scheduling/availability.py`) | none, pure | weekly rules to UTC intervals, subtract busy time, grid, rank | daylight saving, buffers, window edges | an offered slot can be booked; every free slot is offered | modelled (`Slots`), checked and proved against a minute-by-minute reading of the rules |
| Reminders (`use_cases/appointment_reminders.py`, loop and lease in `interfaces/api/app.py`) | `reminder_sent_at`, an advisory lock | tick: lease, list, send, mark | a send cannot be undone; crash between send and mark; stale copies | never unmarked without cause, never marked untold, due customers told | modelled, checked, proved in part |
| Follow-ups (`use_cases/follow_up.py`) | `awaiting_reply_since`, `followups_sent` | nudge ladder, inbound reply resets it | send inside a row lock, whole-row updates by the reply path | no nudge on a row that says the contact answered, ladder bounded and ends | modelled (`Inbox`), checked, safety proved |
| Broadcasts (`use_cases/broadcast.py`, `domain/broadcast`, `routers/broadcasts.py`) | campaign status and counters, recipient queue | claim, send, record; start, pause, complete, retry, add; receipts and replies | concurrent senders, crash after send, whole-row updates from old copies, retry of a finished campaign | no message without a cause, nobody forgotten, a pause holds, counters claim no more than was sent | modelled, checked, messages and completeness proved (a pause that holds is a known limit) |
| Ingestion (`use_cases/ingest_document.py`, `domain/document`) | document status, chunks | upload, parse, chunk, embed, resume | restart in the middle, two runs of one document | ready means exactly its chunks, every document ends, the limit holds up to the requests at once | modelled (`Ingestion`), checked, safety proved |
| Unit of work, interview batches (`unit_of_work.py`, `use_cases/interview_batch.py`) | a session and an event buffer per object | enter, exit, commit, rollback | one object entered by concurrent tasks | writes commit in their own scope, events only of commits | transactions only |
| Answering and the daily allowance (`routers/chat.py`, `routers/public.py`, `use_cases/ask_chatbot.py`, `run_agent.py`, `front_office.py`) | `chat_messages`, `usage_counters` | admit, generate, store, greet, apologise | check then act around a slow model; a stream whose reader leaves; the endpoint and its use case both store | a day passes its allowance by one answer of each request at most; a conversation has each message once, and no answer without one | modelled (`Answers`), checked, proved |
| Interviews (`routers/interviews.py`, `use_cases/finalize_interview.py`, `domain/interview`) | the row of an interview: status, question, transcript, scores | greet, respond, refuse, finalize | a copy carried across a slow model, overlapping requests, a candidate who leaves at the end | no question skipped, a whole report, nothing left unfinalized | modelled (`Interviews`), checked, proved |
| Billing (`use_cases/billing.py`, `domain/billing`) | subscription, ceilings on the tenant's row, billing lines | consult, count and create, change plan, cancel; a period ends | ceilings written from a subscription read earlier; nobody is called when a period ends | the ceilings come to be those of the live plan | modelled (`Plans`), checked |
| WhatsApp threads (`routers/whatsapp_web.py`, `routers/whatsapp_cloud.py`) | conversation row, messages | inbound event, reply, write by hand, edit, take over, hand back | redelivery, answers that fail, whole-row updates from old copies | a message is answered once, whatever is delivered | modelled (`Inbox`), checked, proved |
| WhatsApp links (`domain/whatsapp_web`, `routers/whatsapp_web.py`) and their bridge (`whatsapp-bridge/src`) | row of a link, credentials, socket, notifications under way | create, scan, connect, drop, revoke, restart, absorb, sever, merge, unlink, refresh, attach | one handset linked twice, overlapping handlers, lost or late notifications, crash half-way | one row per number and workspace, one workspace per number, one voice, no history across workspaces | modelled (`Links`), checked, safety proved |
| Front office and scheduling tools (`use_cases/front_office.py`, `application/agent/loop.py`, `infrastructure/agent/scheduling_tools.py`, `domain/scheduling/slate.py`) | the slate of a conversation (`booking_state`), holds, appointments | search, hold, book, cancel, move, called in any order | runs that overlap or are lost, a stale slate, a slot named in three ways, a repeated call | asked once booked once, a hold serves its own service | modelled (`Reception`), checked, proved |
| Hiring agent (`hiring_agent/services`) | one row of a run, a lock in the memory of a process | plan, run a step, pause, approve, reject, resume | requests of two processes, a decision sent twice, crash between steps | no step lost or run unapproved | not modelled: see [below](#not-modelled) |
| Everything else (retrieval, language models, post-call, onboarding, sign-in, voice, storage, HTTP, frontend) | records, or none of its own | one request, one transaction or one external call | none that spans processes | | not modelled: see [below](#not-modelled) |

The hazards of the code, each at its line, with the properties that watch it,
are listed in `PROJECT.json`.

## Modules

```
Lifecycle            statuses of an appointment and their legal moves (data)
Table                one SQL table under READ COMMITTED: committed version, draft, row lock
Booking              extends Lifecycle, instantiates Table twice, and Calendar
Calendar             the abstract specification: a set of exclusive claims
MCBooking            small instances of Booking
BookingProofs        theorems about Booking
Reminders            extends Lifecycle, instantiates Table
MCReminders          small instances of Reminders
RemindersProofs      theorems about Reminders
Broadcast            instantiates Table
MCBroadcast          small instances of Broadcast
BroadcastProofs      theorems about Broadcast
Inbox                one number's conversations: sweep, hooks, repliers, desk
MCInbox              a small instance
Ingestion            the documents of a tenant and the runs that ingest them
MCIngestion, IngestionProofs
Reception            the assistant that books: slate, tools, runs
MCReception          a small instance
AssistantProofs      theorems about Inbox and about Reception
Slots                the availability engine, and what holds and bookings accept
MCSlots              a small world for Slots: a branch, two resources, a visitor
SlotsProofs          theorems about Slots
Links                the WhatsApp links of one handset, the bridge and its events
MCLinks, LinksProofs
Answers              the endpoints that answer, their messages and the day's tokens
MCAnswers            a small instance
Interviews           an interview that a language model conducts
MCInterviews         a small instance
ConversationProofs   theorems about Answers and about Interviews
Plans                the plan of a workspace and the ceilings it writes
MCPlans              a small instance
```

The models meet where the code does. `Booking` runs the statements of holds and
bookings on two `Table`s and implements `Calendar`; `Reception` is written over that
abstract calendar (a time has seats, a claim takes one or is refused); `Slots`
answers the question `Booking` and `Reception` ask of it; `Links` decides which link
of a handset answers, which `Inbox` assumes of its one number; `Broadcast` and
`Inbox` share the tables of a conversation and model the columns each steers by.
`Answers` is the outside of every request that asks a model: `Reception` is what
happens inside one that books, `Inbox` what happens around one that came by a channel.
Its allowance is one of the ceilings that `Plans` writes, the limit of `Ingestion`
another.

`Table` is external: it says what PostgreSQL does, as far as the code depends on
it. A session reads the last committed version of a row, or its own draft; a
write takes the row lock and keeps it until commit or rollback.

A comment that begins with "Fault" introduces an operator no specification
uses. It is what a plausible bug in the code would make of the operator below
it, and it is there to show that the properties notice (`mutants` in
`PROJECT.json`).

## Booking

### State and actions

A process is one request handler, or the sweep loop, with its own session. `pc`
is the SQL statement it is at, or the reply its last caller got (`ok`,
`replayed`, `conflict`, `invalid`, `error`, `idle`); `req`, `now`, `team`, `copy`
are the locals of the use case. One action is one statement with the Python
between it and the next, so other processes run between any two statements,
which is where `await` gives way in the code.

| Use case | Actions in order |
|---|---|
| `HoldSlot` | `ResolveSlot`, purge (`Find`, `Update`), `Reserve`, `Commit` |
| `BookAppointment`, no hold | `Replay`, `ResolveSlot`, `Insert`, purge, `Reserve`, `Commit` |
| `BookAppointment` with a hold token | `Replay`, `Lookup`, `Insert`, convert (`Find`, `Update`), `Commit` |
| release a hold | drop (`Find`, `Update`), `Commit` |
| `TransitionAppointment` | `Read`, `Write`, release (`Find`, `Update`) if the status gives the slot back, `Commit` |
| `RescheduleAppointment` | `Read`, release, `ResolveSlot`, purge, `Reserve`, `Write`, `Commit` |
| `UpdateAppointmentDetails` | `Read`, `Write`, `Commit` |
| `ExpireSlotHolds` | sweep (`Find`, `Update`), `Commit` |

- An UPDATE is two actions. `Find` takes the snapshot and selects the rows;
  `Update` waits until no other session locks them, evaluates the WHERE again on
  their newest versions, and writes. The second evaluation is what READ
  COMMITTED does, and the one UPDATE that escapes it is the sweep's: its WHERE
  is `id IN (subquery)`, and the subquery is not run again (`StillMatches`).
- `Reserve` is the INSERT under the exclusion constraint: rows that are settled
  and in the way refuse it (`Refused`), rows of open transactions make it wait
  (`Waits`). All of a slot's rows are inserted in one action. Two sessions that
  insert for the same time at once wait for each other and one is killed; that
  outcome is `Colliding`, a conflict, which is what `reserve` makes of it.
- `Deadlock` is PostgreSQL's detection: a session of a cycle of waits dies.
  `reserve` turns that into a conflict; elsewhere it is a server error.
- `Crash` ends a request at any statement: a redeploy, or a connection that goes
  away. Nothing but the tables survives, and a crash undoes the drafts.
- `uuid4` and tokens never repeat, so they are named by their maker and its
  request number; an expired instant is a number of minutes.

Left out of the data: customer details, the tenant (every statement has the
same tenant), notes and history rows, the wording of replies. The availability
engine is reduced to the question `resolve_slot` asks of it for one start time:
the teams nobody is seen to occupy. The window that `resolve_slot` loads, one
minute around the appointment without its buffers, is kept (`LoadWindow`).

### Properties

Safety:

- `NoOverlap`: no resource is claimed twice for overlapping time.
- `Exclusive`: the engine implements `Calendar`. Its commits are legal changes of
  a set of disjoint claims: all new claims of one commit are in one window, a
  claim is never edited, and one given back never returns. The mapping takes the
  live committed rows for the claims and the released ones for the spent ids.
- `NoDoubleBooking`: the customers' view, over appointments, not reservations.
- `Backed` and `NoStray`: an appointment that occupies its slot has a reservation
  on each of its resources around its time, and a booked reservation belongs to
  such an appointment.
- `OneBookingPerKey`: a request that names a key books nothing more while the
  appointment that holds the key stands, over races, retries and crashes. Once that
  appointment is over every retry of the key books again, as the code says it should.
- `NoGap`: the time of a confirmed hold is never free on the way.

Liveness: `Answered` (every request ends, whatever locks it meets) and
`HoldsEnd` (an expired hold is released or has been confirmed).

### Runs and bounds

| Run | Instance | Shows |
|---|---|---|
| `desk` | a desk that books, confirms, drops, changes status, reschedules and edits, and a caller that holds, books, confirms and drops, two requests each, on a service that needs both of two resources, starts 3 and 4, one key, clock 0..1, TTL 1 | `NoDoubleBooking`, `OneBookingPerKey`, `Backed`, `NoStray`, `NoGap` |
| `contention` | a caller with two requests and a process that reschedules once and sweeps, starts 3, 4, 6 and a service of two slots with a buffer | `NoOverlap`, `Exclusive`, `Answered`, `HoldsEnd` |

`Budget` bounds the requests of a process (the sweep has none), `MaxClock` the
clock. Two processes suffice for every pairwise race of statements, which is
the only kind the tables allow: a row has one lock, and a waiter looks at the
newest version when it gets it. Starts 3 and 4 are adjacent for the short service
(half-open intervals touch) and overlap for the long one; TTL 1 with clock 0..1
reaches the instant of expiry, at which purge, convert and lookup disagree about
nothing but the order. `SUBSET Proc` in `Deadlock` covers all cycles of the instance.

The instances keep apart what is known to disagree: in `desk` one process changes
appointments and nothing sweeps; in `contention` the sweep meets holds nobody
confirms. Known limits, which larger instances of the same module show:

- the sweep selects expired holds in a subquery that is not run again, so a hold
  that is confirmed between its two halves is released although it is booked by then
  (`Backed` fails);
- two desks that change the status of one appointment both read a status they may
  leave, and the later write wins over a terminal one;
- two reschedules of one appointment each release what they see and claim their
  own window; one claim is left that nothing will release (`NoStray` fails);
- with two services whose teams share one of two resources, a booking of the one that
  purges what has expired releases part of a hold of the other while it is being
  confirmed, and leaves that appointment on the rest of its team, because
  `BookAppointment` only refuses a conversion of nothing (`Backed` fails);
- a hold confirmed with another service than its own takes that service's length
  inside a block cut for the first (`NoStray` fails);
- staff may create an appointment with a status that is over
  (`CreateAppointmentRequest.status` of `interfaces/api/schemas.py` admits it), and it
  gets reservations that nothing gives back (`NoStray` fails).

### Fairness

`FairSpec` assumes: the clock goes on; a process whose statement can proceed
proceeds, or is killed by deadlock detection (weak fairness of
`Statement \/ Deadlock`: the event loop resumes a coroutine whose query has
answered, and PostgreSQL looks for cycles); the sweep loop wakes up again and is
not killed in the middle of every tick (weak fairness of its start, strong
fairness of its statements, which its rows' locks may disable now and then). No
fairness of clients: nobody has to send a request, confirm a hold, or not crash.

## Reminders

A worker is a process that runs `_reminder_loop`; a desk is a request that edits
an appointment. `Wake` takes the advisory lock (`lease`) and captures the
instant of the tick; `List` reads the soonest due rows nobody has locked, up to
`Limit`; `Take` turns to the next; the send is `Delivered`, `Failed` (the row
stays unmarked and the next tick retries) or `AnswerLost` (the bridge delivers
and its answer times out); `Mark` writes the one column; `Finish` gives the lock
back. `Crash` ends a tick anywhere and the lock dies with the connection. A desk
reads a row without a lock (`Read`), writes every column of its copy back
(`Write`), and commits. `told` is what each customer has received.

Bounds: the edits of a desk (`MaxEdits`), crashes and lost answers (`MaxFaults`),
the clock (`MaxClock`). The run has two workers, one desk, two appointments, one
of them without a phone number, and a batch limit of one, so that a tick leaves
work to the next.

- `MarkMeansTold`: a marked row is of a customer who was told (or has no phone).
- `Paid`: a customer gets one message, and one more at most for each fault and
  each edit. In particular two workers alone never remind twice.
- `OneTick` (proved, not a run): at most one worker is in a tick.
- `Reminded`: a due customer is told, unless the appointment starts, ends or
  moves first. Fairness: loops wake up, started statements end, and a transport
  that is tried for the same customer again and again delivers once. The clock
  has no fairness, so a behaviour in which time stands still until the sweep is
  through counts, and the property is not met by waiting for the start.

Known limit: without any fault a customer may be reminded twice. The edit of an
appointment writes back a copy that was read before the mark, which is why `Paid`
counts edits.

Left out: the loss of the lock's connection while its tick goes on, the note of
the message on the customer's thread (its failure is a `Crash` before `Mark`),
changes of the phone number. Two things the model shows and no document settles:
a tick sends from the copies it read, so a customer may be reminded of an
appointment that was cancelled or has begun since; and a reschedule keeps the
mark, so a customer who was reminded of the old time hears nothing of the new.

## Broadcasts

### State and actions

A campaign has one row (`campaign`: status and counters) and a recipient row per
contact (`rows`, a `Table`). Three kinds of process work on it.

| Process | Code | Actions in order |
|---|---|---|
| Worker | `_run_send`, `SendBroadcast.execute` | `Begin` or `Again`, `Claim`, one of `Accepted`, `Rejected`, `AnswerLost`, `Save`, `Record`; when nothing can be claimed `Count`, `Save`, `Record` |
| Desk | `start`, `pause`, `complete` | `Start`, `Pause` or `Complete`, `Save`, `Settle` |
| Desk | `retry-failed` | `Retry`, `Reset`, `Count`, `Save`, `Settle` |
| Desk | `recipients` | `Add`, `Count`, `Save`, `Settle` |
| Hook | `advance_delivery_status` | `Receipt`, `Fetch`, `Reread`, `Flush`, `Count`, `Save`, `Post` |
| Hook | `mark_replied` | `Reply`, `Reread`, `Flush`, `Count`, `Save`, `Post` |

- `Claim` is `FOR UPDATE SKIP LOCKED` with a limit of one; the worker keeps the
  lock through the send and until `Record` commits.
- A repository turns a row into an entity and keeps no reference to the row.
  SQLAlchemy's identity map is weak, so the row object is gone when `update` asks
  the session for it: the row is read again (`base`), the entity's columns are
  assigned to it, and the UPDATE writes the columns that differ from what was
  read again (`Merged`). That is why an old copy overwrites exactly what has
  changed since it was read, and why two old copies lose each other's counts.
- The campaign is written last by every handler, in the flush of its commit, so
  the UPDATE and the commit are one action (`Committed`) and no process waits for
  another row while it holds the campaign's.
- A recipient's UPDATE by a hook is sent by the next query of the session
  (autoflush) and waits for the sender that has the row (`Flush`).
- `runs` counts the background tasks that a start or a retry has scheduled and
  that have not begun; they live in a process and are lost with it (`RunLost`).
  `list_active`, which would find campaigns to resume, has no caller.
- `told`, `due` and `late` are history: what each contact has received, what it
  had a cause to receive, and the messages since a halt.

Left out: campaigns of a personal account, which get no receipts; the
delivered, read and replied counts, which `recompute_counts` rebuilds as it
rebuilds `sent`; the deletion of the campaign or of its number; a process with
two uses of one unit of work; manual messages, which touch neither table.

### Properties

- `MessagedOnce`: a contact receives one message, one more for each retry that
  requeued it, and one more for each crash between its send and its commit.
- `NobodyForgotten`: when a sender completes the campaign, every contact it was
  created with has been attempted, although senders skip what others have locked.
- `NotInflated`: `sent` never exceeds the messages that were received, whatever
  copies are written back.
- `Worked` (liveness): while a campaign is sending, is not halted and nothing has
  crashed, every contact it was created with is attempted. Fairness: a statement
  that was sent is answered, a scheduled run begins, a send returns (weak fairness
  of each process's own steps). Nobody has to press a control or send a receipt.

### Runs and bounds

| Run | Instance | Shows |
|---|---|---|
| `campaign` | two workers, a desk with two requests, a hook with two events, one contact listed and one to add, receipts `delivered` and `failed`, one fault | `MessagedOnce`, `NobodyForgotten`, `NotInflated`, `Worked` |

Two workers, one desk and one hook give every pair of handlers that can race for
a row; with one fault either a crash, a lost run or a lost answer happens at any
point. An instance with two listed contacts and all receipts has been run once to
its end (1.7 million states, no error); it takes longer than a regular run may.
`Budget`, `MaxNews` and `MaxFaults` are the bounds.

Known limits. A pause or a close that is committed during a send is overwritten by
the copy the sender read before it, and the campaign goes on (one worker and one
desk suffice, no fault), although `routers/broadcasts.py:420` promises that "at most
one more message can still land". A retry on a completed campaign puts its failed
contacts back in the queue of a campaign that `start()` leaves completed, where no
sender takes them up. With two hooks, two receipts that read the recipient before
either writes can move it back in the funnel. A receipt that overlaps a control
can undo it, as a sender does. Contacts added while the last sender
closes the campaign stay pending in it. A campaign whose sender died stays
`sending` until start is pressed again, which is why `Worked` speaks of a campaign
without a fault.

## Inbox and follow-ups

### State and actions

One business number. `row` is the conversation as it steers the ladder: whether the
assistant replies (`auto`), how long the contact has been silent (`awaiting`: no,
within the window, overdue) and how many follow-ups were sent. Four kinds of session
work on it:

| Session | Code | Actions in order |
|---|---|---|
| Sweeper | `SendDueFollowUps`, `_follow_up_loop` | `ListDue`, `Resume`, `LockForFollowUp`, one of `Nudge`, `NudgeFailed`, `NudgeRefused`, then `RecordFollowUp` |
| Hook | `bridge_events`, the cloud webhook | `Receive`, `StoreInbound` or `StoreTyped` |
| Replier | `_reply_to_message` behind the bulkhead | `BeginReply`, `SendReply` or `ReplyFailed`, `ReadToNote`, `NoteReply` |
| Desk | `send_conversation_message`, `update_conversation` | `AskDesk`, `SendByHand`, `SendRefused` or `UpdateConversation` |

`Elapse` is the quiet window running out; `Arrive` and `Redeliver` are the transport;
`Crash` ends a session anywhere. Only the sweep locks the row before it reads it
(`lock_for_follow_up`, SKIP LOCKED) and asks again whether the thread is due; all
others write every column of a copy they read earlier (`WriteRow`), so `undone` and
`unrecorded` count what an old copy or a crash took off the ladder.

### Properties and run

- `LadderBounded`: since a contact last wrote, no more follow-ups than the ladder has,
  except as many as an old copy took off the row or a crash kept off it.
- `AnsweredOnce`: one answer per message, for events delivered one after the other.
- `NeverUnwanted`: a follow-up never goes out on a row whose last write is the
  contact's answer, a takeover, a sign-off or the end of the ladder.
- `LadderEnds` (liveness): no thread is due for ever whose transport delivers or refuses
  in the end. Fairness: time passes, the loop ticks, the event loop resumes what was
  scheduled; nobody has to write or ask. A send may fail for a moment as often as it likes
  (`NudgeFailed`, which no bound limits); that it is taken or refused for good at last
  (`Settled`) is an assumption on the transport, strong fairness per sweep and thread.

`inbox`: two sweeps (the lease is meant to leave one), one hook, one replier, one desk
with one request, one thread, a message of the contact and one typed on the phone,
a ladder of one follow-up and the sign-off, one fault (a crash, a failed reply or a
second delivery). Two sweeps on one thread give
every race for the row lock; the third writer is a hook, a replier or the desk.

Known limits. With `Overlap` an event is redelivered while its first delivery is still
open; both handlers see no stored message and it is answered twice, which is why
`AnsweredOnce` is stated for `~Overlap`. A contact who has just answered may still be
nudged: a noted reply or an operator's edit writes back a copy from before the
answer, and the row then says the contact is silent (`NeverUnwanted` speaks of what
the row says). An answer whose send fails is not tried again. And a thread whose transport
fails for ever, without saying that it is for good, is due for ever: "a number that is
unreachable for good keeps failing", says `follow_up.py` (lines 134-139) of its own, and
leaves it to every next sweep. `LadderEnds` promises nothing of such a thread.

## Ingestion

`Caller` is a request handler, `Run` a background task, `Process` a web process of which
`Host` says which handlers and tasks are its own; the sweep of its lifespan is a session
of that process too. A request counts and inserts (`Count`, `Insert`, `Put` or `ReadPasted`),
completes an upload or retries (`Reenter`, `Mark`), or deletes (`DeleteObject`,
`DeleteRow`). A run `Begin`s a document that its process has scheduled, then `Claim`,
`Parse`, `Chunk`, `Split`, `Clear`, `Add` per batch, `Finish`; an error in any step
(`StepFails`) goes to `Fail`, which the database may refuse (`FailLost`). `Crash` takes one
process down with its tasks and what it has scheduled; `ListResumable`, `Resume` and
`Booted` are its startup, which takes no lease and asks nobody: a process that starts
while another serves lists what the other is ingesting and ingests it again. Each step
writes the run's copy in a transaction of its own (`Update` touches rows that are still
there only).

- `LimitHolds`: requests at once may pass the limit together, by one less than there
  are and by no more.
- `ReadyExact`: a ready document has every chunk of its text once, whatever failed, was
  cut short or was done twice before, if no other run had the document when the last run
  of it began (`together` names those where one had).
- `GoneIsGone`: a deleted document and its chunks never come back.
- `Settles` (liveness): every document leaves the pipeline, or the database refused
  the note of its failure. Fairness: tasks are resumed, scheduled runs begin, a process
  that went down is started again.

`ingestion`: two processes, each with one caller and one task, so that the startup of
either meets the requests, the runs and the startup of the other; three documents, one
without text, one of two batches and one of a single one; a limit of one, three requests,
and one fault: a step that fails, a failure that is not noted, or a process that goes
down.

Known limits. Two runs of one document at once (a request that schedules it twice, or the
startup of a second process or of the next deployment while the first still ingests it)
clear its chunks and add theirs in any order, and the document may be ready with chunks
twice or missing: nothing in `ingest_document.py` tells the second run of the first, and
`app.py` (lines 126-138) sweeps in every process. `ReadyExact` leaves those documents out;
the next run that has one to itself puts it right.

The repository's README says the sweep "continues from the last completed
step", but a document that was cut short in or after chunking is marked failed by the
resumed run with no step failing: `_TRANSITIONS` has no way back to parsing. `Settles`
is met by that failure, and a retry by hand ingests the document from the start.

## Reception

The conversation with an assistant that books. A run (`AskFrontOffice.execute`) loads
the slate (`Begin`), makes at most `MaxSteps` tool calls (`FindAvailableSlots`,
`CreateSlotHold`, `BookAppointment`, `CancelAppointment`, `RescheduleAppointment`) and
saves the slate with its answer (`PersistAnswer`) over whatever another run saved, or
is `RunLost` with what its tools committed. The language model is nondeterminism: any
call, in any order, naming a slot by its number, by its time, or not at all. Other
customers, the desk, the owner's permission and the clock move in between (`Stir`).

- `AskedOnceBookedOnce`: two standing appointments asked for in the same words exist
  only if a third, asked for in the same words, was cancelled: the key that
  `book_appointment` derives survives retries, lost runs and slates that overwrite
  each other.
- `HeldForService`: "they chose 2" is never carried to another service: an appointment
  from a hold is for the service held (`Offered` forgets choice and hold when the
  service changes). It speaks of calls that leave the service to the slate, as every call
  of the run does; one that names a service itself has its way
  (`scheduling_tools.py`, lines 250-253 and 308-311), whatever the slate holds.

`reception`: two runs, two messages, two services, two times, one contact, one hold, two
appointments, two seats, three calls per run, and two changes by others. One hold
and two appointments are what the properties relate; with fewer than three calls a
search, a hold and a booking do not fit in one run.

Known limit. The live hold of a conversation is converted whatever time the call names
(`Complete`): after a change of mind the customer gets the time that was held.

## Slots

The availability engine as a function of what the repositories hold. `ComputeSlots` is
`compute_slots`: weekly rules become intervals of each owner's local days
(`RuleWindows`, with the clock change of its zone), intervals that overlap or touch
become one (`Merge`: a window opens where no earlier interval reaches, `Openings`, and
takes in all that follow until the next one opens, `Group`), the branch's hours meet the
range, the grid is laid (`Grid`), and each start gets the first free candidate of each
role (`PickResources`), a preferred one first. `Loaded` is the part of the world each
question loads; `FindAvailability` asks over a range, `ResolveSlot` about one start,
within one minute of it. Rules and blocks come and go, a resource is deactivated and comes
back (`active`; to the engine the same as a move to another branch), holds expire,
bookings stay; `Unclaimed` is the exclusion constraint.

The loops of the code are sets here, without a recursive operator, so that they can be
reasoned about: `_merge`'s sweep over sorted intervals is the set of its openings, and the
team that `_pick_resources` builds role by role is the one function in which each role has
the first of its candidates that is free and not chosen for an earlier role.

- `OfferedRight`: what a search returns the rules in force allow, read minute by minute
  on the clock of their owner (`Opens`), and it is on the grid of the opening hours; and it
  returns every such start, where the limit does not cut it short, everyone works in one
  zone, no candidate may fill two roles and every role has somebody (`Staffed`). The
  reference has no part of the engine in it: a rule holds for a day if it is in force at
  any minute of that (`RuleOpens`), which the engine decides by one instant. Grid and
  completeness are those of rules that begin with a day (`WholeDays`, see below).
- `ClaimsAreSound`: a claim that is made is in the working hours of its team, clear of
  every block and of every other live claim in the whole world, and not only in what was
  loaded around it.
- `OfferedIsHeld`: without buffers and in one zone a slot that is offered can be held, as
  offered.

Two assumptions on the clocks stand beside these, and `MCSlots` assumes them of its
world (`ClocksAssumption`). `PlainHours`: no hours begin or end at a reading that a clock
skips or shows twice. Hours that do begin or end by the offset that `zoneinfo` picks, as
the comment of `_windows_for` says, and the minutes between are then not those a clock
on the wall would show. `SteadyDays`: a clock changes within a day, or goes forward at the
end of one. It leaves out the
zones that turn back from midnight into the evening before, or that jump over a midnight
from some minutes before it: there a stretch of open minutes may be of two days.

`slots`: days of six minutes and weeks of two, in which the branch's clock goes forward
once; two touching halves of a day, one of them in force until the middle of it; a rule
of the branch that begins at midnight, one of the nurse that begins in the middle of a
day; a visitor from a zone behind, a doctor who may be deactivated, a service with a
buffer, one with two roles that share a candidate; searches on the grid of one minute and
of two, one with a preferred nurse, one cut short by its limit. Intervals, grid and zones
only compare and add, so minutes stand for any unit; two weekdays and one change give
each kind of day next to each other.

Known limits, which the preconditions above name. A hold may take another team than
the search offered when buffers or leave reach outside the one-minute window that
`resolve_slot` loads, although `availability.py` says a hold takes what was offered. A
resource in a zone whose local day lies outside the days of the branch is not offered on
its hours there. Two roles that share candidates are filled greedily, so a team that
exists may be missed. `FindAvailability` loads only what overlaps its range, so a buffer
that reaches past the range may hide a claim; the exclusion constraint refuses the hold.
A preferred resource that is not active is no preference. And a role nobody is there for is
not asked for at all (`Roles`): `domain/scheduling/availability.py` says, lines 108-110,
that "a role with no candidates makes the whole service unbookable", but
`load_availability_inputs` makes an entry only for a candidate it finds active and of the
branch, so a service whose only room is deactivated is offered without a room, and one
that has nobody left with an empty team, whose hold reserves nothing. `Teams` states
what the code does, so a slot with such a team counts as allowed; `OfferedRight` asks no
service to be offered that lacks somebody for a role (`Staffed`), which the comment and the
tests of the engine rule out. Last, a rule that begins in the middle of a day is not
applied to that day: `_rule_applies_on` compares the start of the day with `effective_from`
(line 157), while the comment on the comparison (lines 154-155) says it is made "so a rule
that begins mid-day still applies to that day". Without `WholeDays`, `OfferedRight` fails in
the instance of the run with the rule of the nurse. A rule that ends in the middle of a day
applies to all of it, in the code as in the reference.

## Links

### State and actions

One handset, its companion devices in one workspace or in two. `row` is the
`whatsapp_web_sessions` table reduced to status, whether the number is known, the order
of `linked_at`, and whether an assistant is attached; `socket` and `creds` are the
bridge's; `notes` are the notifications under way, a set, so they arrive in any order.

| Who | Code | Actions |
|---|---|---|
| Bridge | `sessions.js`, `index.js` | `QrOffered`, `Scanned`, `Dropped`, `Reconnected`, `Revoked`, `Received`, `Restarted`, `GivenUp` (no attempt was answered) |
| Worker, a message | `bridge_events` | `Inbound`, `Store`, `Decide` |
| Worker, an event | `bridge_events` | `Event`, `Write`; for `linked` `Event`, `Mark`, `ListTwins`, per twin `Absorb`, `LogOut`, `Remove`, then `ListCollisions`, per collision `LogOut`, `Remove`, then `Write` |
| Worker, the desk | `unlink`, `merge_duplicate_numbers` | `Unlink` or `MergeDuplicates`, the steps of `Retire`, `Finish` |
| Desk | `create_session`, `refresh_qr`, `attach_assistant` | `Create`, `Refresh`, `Attach` |

Each action of a worker is one transaction, or one call to the bridge that may not be
reached. `Update` writes every column of the copy the handler has carried since it
began, to a row that is still there; `Undoes` notes a copy that takes a number away or
says linked of a link that is not. `Crash` loses all that is under way.

### Properties and run

- `TenantsApart`: what is stored under a link arrived on a link of its own workspace.
- `Reconciled`: when the handlers are done, a workspace has one row for the number and
  no two workspaces are connected to it, unless a handler was lost half-way or an old
  copy undid what another had written.
- `OneVoice`: a message that arrived on links the rows say are connected, with no
  row changed since, is answered at most once, and is answered if the link made last
  received it and has an assistant. The code decides at the moment of sending, so this
  holds for collisions that are already in the table; `Init` has them in any number.

`links`: two links of one workspace and one of another, two workers, one message, three
steps from outside (`MaxStirs`): the shortest histories in which two scans or a scan, a
drop and a reconnection race. Two workers are symmetric. `TypeOK` is proved and is not a
run of its own.

Known limits, all reachable in the model and excused by `slipped` or `calm`. Two links of
one workspace that are connected at the same moment absorb each other and both rows go;
their threads are left without an owner. A mere reconnection of an older link severs the
newer link of another workspace, although the code reasons from a scan. A message that
is handled late writes `linked` back over a link that was logged out meanwhile. A
message that is stored between the reassignment of threads and the deletion of the old row stays under
an owner that is gone. The newest linked row mutes the others while its socket is down.

## Answers

A worker is a process's place for one request. A request `Arrive`s as one of eight
kinds, which differ in who stores the message and who reads the allowance:

| Kind | Endpoint | Admission | Cut short by its reader |
|---|---|---|---|
| `chatbot` | `ask` | `AskChatbot` | no |
| `agent` | the agent endpoint | `RunAgent` | no |
| `booking`, `bookingStream` | `ask`, `ask_stream` | `AskFrontOffice` | the stream, at every step |
| `stream` | `ask_stream`, `ask_public_stream` | `AskStream` | while the model speaks |
| `publicBooking` | `ask_public_stream` | `AskPublicStream` stores, `AskFrontOffice` admits again | at every step |
| `relay` | a channel's webhook | `StoreInbound` stores, `AskChatbot` or `AskFrontOffice` admits | no |
| `greeting` | `greet`, `greet_public` | `Greet`, for a session without messages | while the model speaks |

Then `Generate` or `GenerationFails`, and `StoreAnswer`, which adds the answer and its
tokens in one transaction; a relay that is refused or fails apologises (`Excuse`).
`Disconnect` is the reader's, `Crash` the process's, `Midnight` the counter's. What an
answer costs is any number up to `MaxCost`.

- `QuotaBounded`: a day passes its allowance by less than one answer of each request
  that may be served at once.
- `TurnsAreWhole`: whichever endpoint and use case share a request, its session has its
  message once and one answer at most, after the message.

`answers`: two workers with two requests each of every kind, one session, an allowance of
two and answers of at most one token, one midnight, one crash. Both properties compare two
requests at a time (or a request with its own past), and an allowance of two lets one
request begin before and one after the other was counted.

Known limits: two greetings that are asked for at once are both stored, as both find the
session empty; a message that arrives while a greeting is spoken precedes it.

## Interviews

The candidate's page sends a `Greeting`, then answers: `Respond` takes one down and moves
on if a question is left, `RespondBlocked` takes down one the guard refuses. A request
carries the copy it read (`Loads`) through the model's turn (`Ask`, `Close`, or
`CutShort`), and writes it back: `Reread` and `Save` are `interviews.update`, which writes
the columns that differ (`Merged`). After the last turn `Finalize` scores the transcript,
`Report` makes a document of the scores and keeps it (`stored`), and the row is updated
once more, all in the same shielded stretch. `put`, `answered` and `rushed` are history.

- `NothingSkipped`: an interview is completed only after every question was put to the
  candidate and answered, however its requests overlap, fail or overwrite each other.
- `ReportComplete`: for a candidate who waits for each answer, the transcript has every
  question in order, each followed by its answer, the scores are of that transcript, and
  the document that is kept is of those scores.
- `FinishedIsFinalized`: once the last turn is saved the interview does not stay in
  progress, unless a process died or the candidate did not wait. A reader who leaves after
  the save cannot split the two. One who leaves while the closing turn is still streamed
  leaves nothing saved and nothing to finalize, although the opening comment of
  `finalize_interview.py` (lines 3-6) sounds as if the end were safe from there on.
- `InterviewTypeOK`: among the types, that the index is always that of a question.

The names that `Answers` has too begin with `Interview`, since `ConversationProofs` extends both.

`interviews`: two requests at a time, five in all, three questions, one crash. Five
requests are the least that conduct such an interview with one to spare for a refused
answer, an overlap or a retry.

Known limits, which `rushed` excuses: of two answers that overlap one is lost from the
transcript; an answer that is still being served when the interview is completed writes
its `in_progress` back over it; and a
crash between the last turn and the finalization leaves the interview in progress, with a
closing turn and nothing that would finalize it.

## Plans

`sub` is the subscription of a workspace, `limits` names the plan whose ceilings stand on
the tenant's row, `lines` are the billing lines. A request reads the subscription
(`Arrive`), and then either reconciles (`Reconcile`, committed by `CommitOverview` or
`CommitAssistant`, or rolled back where `Count` finds no room), or upserts (`Reselect`,
`CommitPlan`, `CommitCancel`). `Lapse` is the end of a paid period. What a second read of
the row in one session finds (`Again`) depends on whether the first row object is still
alive in the identity map, and is left open.

- `Converges` (liveness): "the limits converge whenever entitlements are consulted"
  (`billing.py`). However consults, purchases and lapses overlap, if the workspace keeps
  consulting its entitlements its ceilings come to be, and stay, those of its live plan.
  Fairness: a request that was taken is served. Nobody has to ask for anything.

`plans`: two requests at once, three that change something and any number that consult,
two paid tiers beside the free one, room for one assistant. Three changes are a purchase,
another and a cancellation, with a lapse between any two.

Known limits. A consultation that read the subscription before a purchase writes the
earlier plan's ceilings over those just bought, and they stay until the next one. The count
of assistants is taken without a lock, so requests at once may pass the ceiling together,
although `ensure_can_create_assistant` says the count "will be true" at the insert. And
"authenticating an API key" (`billing.py`, lines 91-93) consults nothing: no code of that
path calls `reconcile_tenant_limits`, so a workspace of which only keys are used keeps the
ceilings of a plan that has lapsed. A
cancellation that overlaps a purchase may write back the tier it read, and with it the
plan that was left.

## What is proved

For every value of the constants that satisfies the named assumptions of the
modules (natural numbers, `Null` outside the other sets, teams and durations of
each service): any number of processes, resources, services and requests.

- `BookingProofs!TypeCorrect`, `Spec => []TypeOK`.
- `BookingProofs!Exclusion`, `Spec => []NoOverlap`.
- `BookingProofs!Refinement`, `Spec => Exclusive`: each step of the engine is a
  step of `Calendar` or a stutter.
- `BookingProofs!ConfirmedInPlace`, `Spec => NoGap`.
- `BookingProofs!RetriesBookOnce`, `Spec /\ []Undisturbed => []OneBookingPerKey`.
- `BookingProofs!NothingStrays`, `Spec /\ []Orderly => []NoStray`.
- `BookingProofs!BookingsAreBacked` and `NobodyIsDoubleBooked`,
  `Spec /\ []Orderly /\ []Whole /\ []Fresh => []Backed`, and the same for `NoDoubleBooking`.
- `RemindersProofs!TypeCorrect`, `LeaseExcludes` (`OneTick`), `MarksAreTrue`
  (`MarkMeansTold`) and `RemindersArePaid` (`Paid`), for any number of workers, desks,
  appointments and faults.
- `BroadcastProofs!TypeCorrect`, `EveryMessageHasACause` (`MessagedOnce`),
  `EveryoneIsAttempted` (`NobodyForgotten`) and `CountsAreHonest` (`NotInflated`), for any number of senders, desks, hooks,
  contacts and faults.
- `AssistantProofs!TypeCorrect`, `LadderHolds` (`LadderBounded`), `NothingUnwanted`
  (`NeverUnwanted`), and `AnsweredAtMostOnce` (`AnsweredOnce`, under `~Overlap`).
- `IngestionProofs!TypeCorrect`, `LimitKept` (`LimitHolds`), `DeletedForGood`
  (`GoneIsGone`) and `ReadyIsExact` (`ReadyExact`).
- `AssistantProofs!ReceptionTypeCorrect`, `OneAskOneBooking` (`AskedOnceBookedOnce`), and
  `BookedForItsService` (`HeldForService`, if every call leaves the service to the slate).
- `ConversationProofs!TypeCorrect`, `AllowanceHolds` (`QuotaBounded`) and
  `ConversationsAreWhole` (`TurnsAreWhole`), for any number of requests, sessions, kinds and days.
- `ConversationProofs!InterviewTypeCorrect`, `NoQuestionIsSkipped` (`NothingSkipped`),
  `LastTurnIsFinalized` (`FinishedIsFinalized`) and `ReportIsWhole` (`ReportComplete`), for
  any number of overlapping requests, questions and crashes.
- `SlotsProofs!TypeCorrect`, `ClaimsSound` (`ClaimsAreSound`, under `PlainHours`),
  `OfferedHeld` (`OfferedIsHeld`) and `OfferedIsRight` (`OfferedRight`, both under `PlainHours`
  and `SteadyDays`), for any number of rules, blocks, resources, services and requests, zones,
  lengths of a day and grids.
- `LinksProofs!TypeCorrect`, `StaysInWorkspace` (`TenantsApart`), `HandsetIsReconciled`
  (`Reconciled`) and `LastLinkAnswers` (`OneVoice`), for any number of links, numbers,
  workspaces, handlers and messages.

**Why the booking invariant is what it is.** `NoOverlap` speaks of committed
rows and is not inductive: two open transactions might each hold a draft that
overlaps the other's. `Inv` is

- `TypeInv`: the type; what each stage finds in the memory of its process
  (`Shape`); that a locked row has a draft and that nothing is locked at rest
  (`Locked`); that the rows an open UPDATE waits for exist (`Found`);
- `Made`: the number in a row's name is that of the request that made it, and
  until that request has committed only its maker has the row, so a process that
  is about to insert meets none of its own rows from before;
- `Apart`: no two rows clash, whichever open transactions commit. It compares
  the committed versions, the newest versions, and the committed version of one
  row with the newest of the other when different sessions (or none) hold them.
  The same session's two rows are excused from the last, because it commits or
  drops its drafts together.

`Reserve` keeps `Apart` because it looks at what is settled and waits for what is
not; `Update` because what it writes clashes with nothing that the version before
did not clash with; `Commit` and `GiveUp` because each moves one session's drafts
as a whole. The refinement adds `Steady`, about drafts: a draft of a committed row
stays in its place and stays released if it was; a draft of a new row is a live
claim on the window its session asked for, and no UPDATE of that session follows.
That is why a claim is never edited, a spent id never comes back, and the claims
of one commit share their window. `NoGap` adds `InPlace`: a draft that makes a committed
hold the booking was written on a live hold, and nothing but the commit of its session
follows.

`OneBookingPerKey` stands on the unique index and on the answer of `Replay`, and the second
is as old as the transaction: it found the key's appointment over, and books without a key
some statements later. So `Ledger` says that what is over stays over. A draft of a committed
appointment, and the copy its editor carries, keep its key and do not bring it back
(`Written`, `Carried`); whatever carries no key although its client sent one stands beside an
appointment that is over and has that key (`Titles`); no two versions, committed or not,
carry the same (`Unique`). A copy that was read before a cancellation and is written after it
does bring the appointment back, with the key a second booking was made around: that is a
known limit, and `Undisturbed` is the theorem's hypothesis against it and against nothing
else: no request releases an appointment while another is in the middle of changing the
same one. Desks that work on different appointments, and overlapping edits that release
nothing, satisfy it, as does the `desk` run, in which one process edits.

`NoStray`, `Backed` and `NoDoubleBooking` relate the two tables, and the code keeps them
together only at a commit: before it, a request has statements on one table behind it and on
the other ahead. `Kept` and `Sound` say, for each process by itself, what it has in its hands
and has still to do. `Kept` is what keeps a booked row from being left behind: the committed
rows of one request have one window and expire together (`Named`, `Together`); what a request
drafts is released, its own hold, or a place with room for its appointment (`Drafts`); the
appointment it has inserted or written stands where it is going (`Inserted`, `Copied`,
`Edit`); a confirmation holds the resources and the time of its hold (`Grasped`); and one
that moves or releases an appointment has found all its booked rows and then released them
(`Cleared`). `Sound` is the other way: a confirmation has a row of its hold for each of its
team and its UPDATE finds them (`Gathered`), whoever is about to commit a booking or a move
has a live row for each of its team (`Provided`), and nobody takes booked time except from
the appointment it moves or releases (`Takes`). `NoDoubleBooking` then follows from `Backed`
and `Apart`: the reservations of two such appointments would clash.

All three are false of the code without hypotheses, and each hypothesis is one of the known
limits of [Booking](#runs-and-bounds) turned round, so the theorems say that nothing else
leads there. `Orderly` is three of them: while a request moves or releases an appointment no
other is in the middle of changing it (`Unhurried`), a hold is confirmed for a service that
fits in it (`Fitting`), and nothing is booked with a status that is over (`Opened`). `Backed`
needs two more: while a hold is being confirmed none of its rows lapses without the others
(`Whole`), and the rows a sweep has found are not booked by the time it writes (`Fresh`).
Every state of the `desk` instance meets all five, and none can be dropped: in instances that
break one of them and keep the others (a booking made as cancelled, a long service on a short
hold, two reschedules of one appointment, two services whose teams overlap in part, a sweep
beside a confirmation) TLC finds `NoStray`, or for the last two `Backed`, violated.

**Why the reminders invariant is what it is.** A mark can be written by the
sweep, or come back with a desk's old copy. So `Told` says of every version of a
row, committed, drafted or in memory, that a mark on it is of a customer who was
told, and of a worker at `mark` that it has told the customer it is about to mark.
`Paid` bounds the messages that were sent, and what has to be counted with them is what may
still cost one (`Owing`): the sweep, while the row is unmarked or its tick has the customer
ahead of it, and each desk with an unmarked copy in hand. Messages and debts together stay
within one, the faults and the edits begun (`Covered`): sending moves one from the debts to
the messages, an edit that is begun adds itself to both sides, and a desk that writes its
copy back passes its debt on to the sweep. `Edits` is the set of edits begun, so that the sum
over desks is a cardinality.

**Why the broadcasts invariant is what it is.** `MessagedOnce` is kept by a send
only if the contact was still owed a message when it was claimed. `Owed` says so of
every contact whose committed row waits and whose message is not in flight (`told`
below `due`), and of every session with a lock what it is about to commit: a
sender's draft does not wait once the message is out, a desk's draft waits only
where a retry put it back, which adds to `due`, and a hook's draft waits only if the
committed row does (`MergedRow`: the copy of a hook that updates never waits, so
what it writes cannot put a contact back). `Stages` and `Locks` say what each process has in
memory and that a sender has one row at most. `NobodyForgotten` needs `Traces`: a row that
shows an outcome was attempted, in each of its versions, and an attempt is never taken back;
and a copy of the campaign that says `completed`, in the memory of any session, was made
when everyone listed had been attempted, or by the desk that closed the campaign.
`NotInflated` is `Within` of the campaign's row and of every copy a session has of it: what
was received only grows, so a copy that was within stays so until it is written back. What a
receipt or a reply adds to is a row that shows a message, in whichever version, and such a
row is of a contact who received one (`RowGenuine`). The sum over contacts is the cardinality
of the set of messages.

**Inbox.** A follow-up is sent under the row lock, so the invariant (`Memory`, `Locks`)
says what a sweep that holds the lock knows: the row is as it read it, because every other
writer waits, and is due. `Accounted` says that `nudged` is at most what the row shows plus
what old copies and crashes took off it; every write keeps that, and only a sweep at
`locked` adds to `nudged`. For `AnsweredOnce` each message has one token (`OneAnswer`): on
its way, in a hook, in the queue, in a replier, or answered; without overlapping
deliveries no step makes a second.

**Ingestion.** `LimitHolds` counts the callers that have counted and not inserted: the
invariant (`Room`) bounds documents plus those callers, except the one that counted last,
which is a cardinality argument over callers. `ReadyExact` needs that a document outside
`together` is in the hands of one run at most (`Single`: of any task or startup sweep of any
process), that its chunks are those of the batches before `next`, once (`Progress`), and
that nothing else writes them. A run that begins decides whether its document is one of
those, and if it is, finds it in nobody's hands. Both stand on `Shelves` and `Memory`, what
each run and caller holds, and `Bare`, that nothing is left of a document that is gone.

**Reception.** `Matches` and `Slates` say that a slate's token was taken for the slate's
service, of slates that are saved, in memory or loaded, so that an old slate that comes
back brings no other; `Keys`, that a key is given once, and that an unkeyed appointment
stands only beside a keyed one that is dead.

**Answers.** The counter alone is not inductive: what may still be added matters. With
`Admitted` the requests that were let in and have not stored their answer,
`used[day] + MaxCost * |Admitted| < Quota + MaxCost * |Worker|`. A request is let in while
`used[day] < Quota`, and then the others are fewer than the workers; an answer moves what
it cost from the second summand to the first; at midnight the first is zero. `TurnsAreWhole` needs what each request has said so far
(`Tale`, `Past`): its message stands once from the commit that stored it, and its answer
only after.

**Links.** `TenantsApart` is inductive only with what a handler holds in its hands:
what is still to absorb is of the keeper's workspace (`AtHome`) until it is removed, a
message at `store` arrived on the link it is stored under, and a notification of a
message names a link that heard it. Severing never moves threads, so it needs nothing
of the sort; a desk's unlinking holds one link and no keeper.

`Reconciled` is false of most states on the way, so the invariant (`Folded`) says who will
mend them: while nothing has slipped, two rows of one number in a workspace, or two
workspaces connected to one, are a pair in the hands of a handler that will absorb or sever
one of them. A row says it is linked before its handler lists the twins, so of two scans the
later lists the earlier; what a list holds leaves it only when the twin is gone, and an old
copy that is written back either changes neither number nor status or sets `slipped`.
When the handlers are quiet no hands are left, hence no pair.

`OneVoice` decides by `linked_at`, and its invariant (`Voiced`) says first that no two links
share one (`Dates`, also of the copies handlers carry). While a message is calm each link
that heard it is one thing only: a notification, a handler before its decision, or done; the
rows are those the message arrived on; so what has been said is one exactly when the handler
of the newest connected link has decided, and each other decides for silence.

**Interviews.** A copy of the row outlives the row it was read from, so what is true of the
row has to be true of every copy. `Reached` is what an index says: the questions up to it
were put, and those before it answered; a status that ends the interview says all were
(`Earned`). Since `Merged` takes each column from the copy or from the row, a save keeps it
whichever wins. The other two hold until something is rushed, that is while the candidate
waits: then one request at a time is served (`Serial`), the row is what its copy was read
from, and the merge is the copy. `Finishing` names the request that completes the interview,
so between the last turn and the finalization someone is under way who owes it. `Sound` says
of a transcript that is not rushed which turn stands at each place, `Between` how far a copy
may be ahead of the row, and `Ample` counts the kept turns, which is how the report is known
to be long enough without filtering a sequence.

**The availability engine.** The state invariant is small: the type, finitely many rules,
and whole numbers for expiries. The work is in what the engine computes.

- A window is a union. A finite set of whole numbers has a least and a greatest element
  (`HasLeast`, by a well-founded argument over its finite subsets), so every interval of a
  set belongs to the group of some opening, and a group has an end: `Merge` covers a minute
  exactly when one of its intervals does, and two of its windows never touch.
- A rule is its minutes (`HoursCover`): with plain hours, the instants between those where
  its hours begin and end are those whose reading is within the hours. Hence a window of
  opening hours is a stretch of minutes to which the engine applies a rule, and a grid that
  starts where the window starts is one that starts where the branch opens.
- A rule that is applied is in force, at the instant by which the engine judges: that
  instant is of the day in question (`DayHasIt`), since with plain hours no clock jumps a
  whole day (`JumpIsShort`). That carries soundness over to the reference (`EngineIsRight`).
  The other way a rule must begin with a day: the instant comes before every minute of the
  day (`DayBeginsThere`), so before one at which the rule is in force, and days do not go
  back, so the rule's begin is not between the two (`OpenedIsApplied`).
- There is at most one team (`OnePick`): by strong induction over the roles, the first free
  candidate that was not chosen for an earlier role is determined. Two questions that find
  the same candidates free therefore name the same team (`SamePick`), and where no two roles
  share a candidate, a team exists as soon as each role has somebody (`SomePick`).
- What was loaded is enough (`LoadedIsEnough`): a block or claim that overlaps an appointment
  overlaps the minute or more that was loaded around it. A buffer may reach further, which is
  why `ClaimsAreSound` speaks of blocks for the visit and of claims, which the constraint
  checks again, for the whole window.
- Days only go forward (`DaysGoOn`), so a minute between two others is of a day between
  theirs, and the days the engine expands hold all it must. An open stretch is of one
  day, its end too (`OpenStretch`), since no hours reach midnight, and the branch is closed
  before a window begins (`ClosedBefore`); so the wide question of a search and the narrow
  one of a hold see one and the same opening.
- Nothing is cut off: the narrow question has room for three starts and its limit is 64; of the
  wide one the limit leaves nothing out when fewer were found.

Only model-checked: liveness (`Answered`, `HoldsEnd`, `Reminded`, `Worked`, `LadderEnds`,
`Settles`, `Converges`), which needs fairness and `ENABLED` and is out of reach of the
prover's backends. Every safety property of a run is stated by a theorem, some under the
named conditions above.

## Not modelled

- Interview batches and the unit of work they share (`interview_batch.py`,
  `unit_of_work.py`): candidates run concurrently on one session object, and what goes
  wrong is inside SQLAlchemy's session (autobegin, a shared transaction, the event
  buffer, which a rollback does not clear). A model would be one of that library, not of
  this code.
- The hiring agent (`hiring_agent/services`): an executor takes the steps of a plan one by
  one, saves the whole run after each, and pauses for a human. Its lock is one of the
  process, and `/resume` takes none, so requests of two processes, or a decision taken
  twice, can meet on one run. That is worth a model, which is not written yet.
- Retrieval, language models, voice, storage, e-mail and calendars: adapters of
  external services with retries; no state of their own that a later step reads.
- Assistant generation, onboarding, post-call summaries: a sequence of
  calls for one request; nothing runs beside it on the same rows.
- Tenants, teams, sign-in, platform administration, HTTP, middleware, frontend: one
  transaction per request, validation and layout.

The Python and JavaScript of these parts is most of the repository's lines; the models
cover the parts in which order, failure and time decide what is right.

## What is left

A component wanted: the hiring agent, with two processes, decisions sent twice, and crashes
between the steps.

Larger models wanted: `Links` joined with `Inbox`, so that a thread moves while it is
being answered; campaigns of a personal account, whose sender is a link; `Plans` joined
with `Answers` and `Ingestion`, whose limits it moves while they are counted against.

## Running it

```
tlc -workers 2 -config Desk.cfg MCBooking
tlapm BookingProofs.tla
```

`ingestion` takes about two minutes, `slots`, `links`, `reception` and `inbox` a little
more than one, `desk`, `contention` and `campaign` about one, the other runs less; the
proofs take a few minutes each.
`CHECK_DEADLOCK FALSE` stands in every configuration but those of `MCBooking`: those
bounded systems stop when clock, requests and faults are spent and nothing is left to do.
`Booking` has a `Done` step for the same situation instead.
