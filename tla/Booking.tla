------------------------------- MODULE Booking -------------------------------
(***************************************************************************)
(* The write side of the scheduling engine: slot holds, bookings, status   *)
(* changes, reschedules and the expiry sweep, each a transaction of several *)
(* SQL statements on the tables resource_reservations (resv) and           *)
(* appointments (appts).                                                   *)
(*                                                                         *)
(* A process is one request handler, or the sweep loop, with a session of  *)
(* its own.  One action is one statement, together with the Python between *)
(* it and the next statement; what other processes do falls in between.    *)
(* An UPDATE is two actions: the statement takes its snapshot and finds    *)
(* its rows (targets), then, once no other session locks them, it rechecks *)
(* its WHERE on their newest versions and writes: what PostgreSQL does at  *)
(* READ COMMITTED.                                                         *)
(***************************************************************************)
EXTENDS Integers, FiniteSets, Lifecycle

CONSTANTS
  Proc,          \* the request handlers and the sweep loop
  Resource, Service,
  Key,           \* idempotency keys a client sends
  Null,
  Duration, Before, After,  \* minutes of each service, and its two buffers
  Teams,         \* for each service, the resource sets that fill its roles
  Start,         \* the start times requests ask for
  TTL,           \* minutes a hold lasts
  Opening,       \* the statuses a booking may be created with
  Targets,       \* the statuses a transition may ask for
  Allowed,       \* the operations each process performs
  Budget,        \* bound: the requests one process handles (the sweep: no bound)
  MaxClock       \* bound: the last minute

Op == { "hold", "book", "confirm", "drop", "transition", "reschedule",
        "details", "sweep" }

ASSUME NullAssumption ==
  Null \notin Proc \cup Resource \cup Service \cup Key \cup Status \cup Op

ASSUME ServiceAssumption ==
  /\ Duration \in [ Service -> Nat \ {0} ]
  /\ Before \in [ Service -> Nat ]
  /\ After \in [ Service -> Nat ]
  /\ Teams \in [ Service -> SUBSET SUBSET Resource ]

ASSUME RequestAssumption ==
  /\ Start \subseteq Nat
  /\ Opening \subseteq Status
  /\ Targets \subseteq Status
  /\ Allowed \in [ Proc -> SUBSET Op ]

ASSUME BoundAssumption == TTL \in Nat /\ Budget \in [ Proc -> Nat ] /\ MaxClock \in Nat

\* uuid4 and token_urlsafe never repeat: a name is its maker's request number.
ApptId == UNION { {p} \X (1..Budget[p]) : p \in Proc }
Token  == ApptId
RowId  == UNION { {p} \X (1..Budget[p]) \X Resource : p \in Proc }

VARIABLES
  clock,
  resv, resvDraft, resvLock,       \* resource_reservations
  appts, apptsDraft, apptsLock,    \* appointments
  pc,        \* the statement a process is at, or how its last request ended
  serial,    \* the number of requests it has begun
  req,       \* the request it is handling
  now,       \* the instant its use case captured
  targets,   \* the rows its open UPDATE waits to write, Null if none is open
  team,      \* slot.resource_ids
  copy       \* the Appointment object in its memory

resvVars  == << resv, resvDraft, resvLock >>
apptVars  == << appts, apptsDraft, apptsLock >>
local     == << serial, req, now, targets, team, copy >>
vars      == << clock, resvVars, apptVars, pc, local >>

R == INSTANCE Table WITH Id <- RowId, Session <- Proc,
                         rows <- resv, draft <- resvDraft, lock <- resvLock
A == INSTANCE Table WITH Id <- ApptId, Session <- Proc,
                         rows <- appts, draft <- apptsDraft, lock <- apptsLock

------------------------------------------------------------------------------
(* Rows *)

Interval == [ start : Int, end : Int ]

\* Fault: an off-by-one at the start.
OverlapsLate(a, b) == a.start + 1 < b.end /\ b.start < a.end

\* Half-open: an appointment ending at 3pm and one starting at 3pm do not clash.
Overlaps(a, b) == a.start < b.end /\ b.start < a.end

Reservation ==
  [ kind : { "hold", "booking" }, resource : Resource, window : Interval,
    appt : ApptId \cup {Null}, token : Token \cup {Null},
    expires : Nat \cup {Null}, released : BOOLEAN ]

Appointment ==
  [ service : Service, start : Int, end : Int, team : SUBSET Resource,
    status : Status, key : Key \cup {Null}, asked : Key \cup {Null} ]

\* Null is no row.
ASSUME RowAssumption == Null \notin Reservation /\ Null \notin Appointment

Live(v) == v # Null /\ ~v.released

\* The pair the exclusion constraint forbids.
Clash(v, w) ==
  Live(v) /\ Live(w) /\ v.resource = w.resource /\ Overlaps(v.window, w.window)

Hold(v) == Live(v) /\ v.kind = "hold"

\* Fault: an off-by-one.
ExpiredLate(v, t) == Hold(v) /\ v.expires < t

Expired(v, t) == Hold(v) /\ v.expires <= t

\* The interval a booking of s at t reserves: the appointment and its buffers.
ReservationWindow(s, t) ==
  [ start |-> t - Before[s], end |-> t + Duration[s] + After[s] ]

------------------------------------------------------------------------------
(* Requests *)

Request ==
  [ op : Op \cup {Null}, service : Service \cup {Null}, start : Int,
    token : Token \cup {Null}, appt : ApptId \cup {Null},
    status : Status \cup {Null}, key : Key \cup {Null}, asked : Key \cup {Null} ]

Ask(op, service, start, token, appt, status, key) ==
  [ op |-> op, service |-> service, start |-> start, token |-> token,
    appt |-> appt, status |-> status, key |-> key, asked |-> key ]

Blank == Ask(Null, Null, 0, Null, Null, Null, Null)

\* The tokens and the ids clients have been given.
Issued == { resv[r].token : r \in { x \in RowId : resv[x] # Null } } \ {Null}
Booked == { a \in ApptId : appts[a] # Null }

Requests ==
  { Ask("hold", s, t, Null, Null, Null, Null) : s \in Service, t \in Start }
  \cup
  { Ask("book", s, t, Null, Null, o, k) :
      s \in Service, t \in Start, o \in Opening, k \in Key \cup {Null} }
  \cup
  { Ask("confirm", s, 0, n, Null, o, k) :
      s \in Service, n \in Issued, o \in Opening, k \in Key \cup {Null} }
  \cup
  { Ask("drop", Null, 0, n, Null, Null, Null) : n \in Issued }
  \cup
  { Ask("transition", Null, 0, Null, a, s, Null) : a \in Booked, s \in Targets }
  \cup
  { Ask("reschedule", Null, t, Null, a, Null, Null) : a \in Booked, t \in Start }
  \cup
  { Ask("details", Null, 0, Null, a, Null, Null) : a \in Booked }
  \cup
  { Ask("sweep", Null, 0, Null, Null, Null, Null) }

\* The pc of a process between requests: what its last caller was told.
Rest == { "idle", "ok", "replayed", "conflict", "invalid", "error" }

Updates == { "purge", "convert", "release", "drop", "sweep" }

Stage == Updates \cup
  { "replay", "lookup", "resolve", "insert", "reserve", "read", "write", "commit" }

First(op) ==
  CASE op \in { "hold" } -> "resolve"
    [] op \in { "book", "confirm" } -> "replay"
    [] op \in { "transition", "reschedule", "details" } -> "read"
    [] op = "drop" -> "drop"
    [] op = "sweep" -> "sweep"

Init ==
  /\ clock = 0
  /\ R!Empty
  /\ A!Empty
  /\ pc = [ p \in Proc |-> "idle" ]
  /\ serial = [ p \in Proc |-> 0 ]
  /\ req = [ p \in Proc |-> Blank ]
  /\ now = [ p \in Proc |-> 0 ]
  /\ targets = [ p \in Proc |-> Null ]
  /\ team = [ p \in Proc |-> {} ]
  /\ copy = [ p \in Proc |-> Null ]

Goto(p, stage) == pc' = [ pc EXCEPT ![p] = stage ]

\* The use case returns or raises: its memory is gone.
Forget(p) ==
  /\ req' = [ req EXCEPT ![p] = Blank ]
  /\ now' = [ now EXCEPT ![p] = 0 ]
  /\ targets' = [ targets EXCEPT ![p] = Null ]
  /\ team' = [ team EXCEPT ![p] = {} ]
  /\ copy' = [ copy EXCEPT ![p] = Null ]
  /\ UNCHANGED serial

\* The unit of work closes without a commit, and the caller is told reply.
GiveUp(p, reply) ==
  /\ Goto(p, reply)
  /\ Forget(p)
  /\ R!Rollback(p)
  /\ A!Rollback(p)
  /\ UNCHANGED clock

Begin(p) ==
  /\ pc[p] \in Rest
  /\ \E r \in Requests :
       /\ r.op \in Allowed[p]
       /\ r.op # "sweep" => serial[p] < Budget[p]
       /\ req' = [ req EXCEPT ![p] = r ]
       /\ serial' = [ serial EXCEPT ![p] = IF r.op = "sweep" THEN @ ELSE @ + 1 ]
       /\ Goto(p, First(r.op))
  /\ now' = [ now EXCEPT ![p] = clock ]
  /\ UNCHANGED << clock, resvVars, apptVars, targets, team, copy >>

------------------------------------------------------------------------------
(* Reads *)

\* get_by_idempotency_key: a live booking under the key is the answer; a dead
\* one has spent the key, so the booking goes ahead without one.
Replay(p) ==
  /\ pc[p] = "replay"
  /\ LET prior == { a \in ApptId : /\ A!Seen(p, a) # Null
                                   /\ A!Seen(p, a).key = req[p].key
                                   /\ req[p].key # Null }
         alive == { a \in prior : Occupies(A!Seen(p, a).status) }
     IN  \/ /\ alive # {}
            /\ GiveUp(p, "replayed")
         \/ /\ alive = {}
            /\ req' = [ req EXCEPT ![p].key = IF prior = {} THEN @ ELSE Null ]
            /\ Goto(p, IF req[p].op = "book" THEN "resolve" ELSE "lookup")
            /\ UNCHANGED << clock, resvVars, apptVars, serial, now, targets,
                            team, copy >>

\* hold_by_token: the live rows of the hold that have not expired.
Lookup(p) ==
  /\ pc[p] = "lookup"
  /\ LET held == { R!Seen(p, r) : r \in { x \in RowId :
                     /\ Hold(R!Seen(p, x))
                     /\ R!Seen(p, x).token = req[p].token
                     /\ ~Expired(R!Seen(p, x), now[p]) } }
     IN  \/ /\ held = {}
            /\ GiveUp(p, "conflict")
         \/ \E h \in held :
              /\ team' = [ team EXCEPT ![p] = { v.resource : v \in held } ]
              /\ req' = [ req EXCEPT ![p].start =
                                       h.window.start + Before[req[p].service] ]
              /\ Goto(p, "insert")
              /\ UNCHANGED << clock, resvVars, apptVars, serial, now, targets,
                              copy >>

\* The service and the time a slot is resolved for.
Wanted(p) == IF req[p].op = "reschedule" THEN copy[p].service ELSE req[p].service

\* busy_intervals over the minute around the appointment: all that resolve_slot
\* loads, although the engine then tests the buffers too.
LoadWindow(p) ==
  [ start |-> req[p].start - 1, end |-> req[p].start + Duration[Wanted(p)] + 1 ]

Busy(p, x) ==
  { R!Seen(p, r).window : r \in { y \in RowId :
      LET v == R!Seen(p, y)
      IN  Live(v) /\ v.resource = x /\ ~Expired(v, now[p])
          /\ Overlaps(v.window, LoadWindow(p)) } }

\* The engine's answer for one start time: the teams nobody is seen to occupy,
\* none for a time already past.
Offered(p) ==
  { t \in Teams[Wanted(p)] :
      /\ req[p].start >= now[p]
      /\ \A x \in t : \A b \in Busy(p, x) :
           ~Overlaps(b, ReservationWindow(Wanted(p), req[p].start)) }

ResolveSlot(p) ==
  /\ pc[p] = "resolve"
  /\ \/ /\ Offered(p) = {}
        /\ GiveUp(p, "conflict")
     \/ \E t \in Offered(p) :
          /\ team' = [ team EXCEPT ![p] = t ]
          /\ Goto(p, IF req[p].op = "book" THEN "insert" ELSE "purge")
          /\ UNCHANGED << clock, resvVars, apptVars, serial, req, now, targets,
                          copy >>

\* What transition_to and a reschedule refuse, given the copy v they read.
TransitionRefused(p, v) ==
  req[p].op = "transition" /\ ~CanTransition(v.status, req[p].status)

RescheduleRefused(p, v) ==
  req[p].op = "reschedule" /\ (v.status \in Terminal \/ v.start = req[p].start)

\* appointments.get, then what the use case decides from the copy it read.
Read(p) ==
  /\ pc[p] = "read"
  /\ LET v == A!Seen(p, req[p].appt)
         refused == TransitionRefused(p, v) \/ RescheduleRefused(p, v)
     IN  \/ /\ refused
            /\ GiveUp(p, "invalid")
         \/ /\ ~refused
            /\ copy' = [ copy EXCEPT ![p] =
                 IF req[p].op = "transition"
                 THEN [ v EXCEPT !.status = req[p].status ] ELSE v ]
            /\ Goto(p, IF req[p].op = "reschedule" THEN "release" ELSE "write")
            /\ UNCHANGED << clock, resvVars, apptVars, serial, req, now, targets,
                            team >>

------------------------------------------------------------------------------
(* Writes *)

\* Fault: no unique index.
KeyTakenNever(p) == {}

\* uq_appointments_idempotency_key: the committed rows that carry the key, and
\* those an open transaction may still add.
KeyTaken(p) ==
  { a \in ApptId : /\ req[p].key # Null
                   /\ appts[a] # Null
                   /\ appts[a].key = req[p].key }

KeyRacing(p) ==
  { a \in ApptId : /\ req[p].key # Null
                   /\ ~A!Lockable(p, a)
                   /\ apptsDraft[a].key = req[p].key }

\* INSERT INTO appointments: waits for an uncommitted row with the same key,
\* and fails on a committed one; nothing catches that IntegrityError.
Insert(p) ==
  /\ pc[p] = "insert"
  /\ LET made == [ service |-> req[p].service, start |-> req[p].start,
                   end |-> req[p].start + Duration[req[p].service],
                   team |-> team[p], status |-> req[p].status,
                   key |-> req[p].key, asked |-> req[p].asked ]
         id == << p, serial[p] >>
     IN  \/ /\ KeyTaken(p) # {}
            /\ GiveUp(p, "error")
         \/ /\ KeyTaken(p) \cup KeyRacing(p) = {}
            /\ A!Put(p, {id}, [ a \in {id} |-> made ])
            /\ req' = [ req EXCEPT ![p].appt = id ]
            /\ copy' = [ copy EXCEPT ![p] = made ]
            /\ Goto(p, IF req[p].op = "book" THEN "purge" ELSE "convert")
            /\ UNCHANGED << clock, resvVars, serial, now, targets, team >>

\* The WHERE of each UPDATE: purge_expired_holds, convert_hold and release_hold,
\* release_for_appointment, sweep_expired.
Purged(p, v) == Expired(v, now[p]) /\ v.resource \in team[p]
OfToken(p, v) == Hold(v) /\ v.token = req[p].token
OfAppointment(p, v) == Live(v) /\ v.appt = req[p].appt
Swept(p, v) == Expired(v, now[p])

Matches(p, v) ==
  CASE pc[p] = "purge"   -> Purged(p, v)
    [] pc[p] \in { "convert", "drop" } -> OfToken(p, v)
    [] pc[p] = "release" -> OfAppointment(p, v)
    [] pc[p] = "sweep"   -> Swept(p, v)

\* Fault: a row that changed while the statement waited is not looked at again.
StillMatchesAlways(p, v) == v # Null

\* What it tests again on a row it waited for.  The sweep's WHERE is only
\* "id IN (subquery)", and the subquery keeps its old answer.
StillMatches(p, v) == pc[p] = "sweep" \/ Matches(p, v)

\* Fault: the hold is released and is to be booked afresh.
UpdatedReleased(p, v) ==
  [ v EXCEPT !.kind = IF pc[p] = "convert" THEN "booking" ELSE @,
             !.released = TRUE ]

\* What it sets: converted holds become the booking, all others are released.
Updated(p, v) ==
  IF pc[p] = "convert"
  THEN [ v EXCEPT !.kind = "booking", !.appt = req[p].appt, !.token = Null,
                  !.expires = Null ]
  ELSE [ v EXCEPT !.released = TRUE ]

Following(p) ==
  CASE pc[p] = "purge" -> "reserve"
    [] pc[p] = "release" /\ req[p].op = "reschedule" -> "resolve"
    [] OTHER -> "commit"

Find(p) ==
  /\ pc[p] \in Updates
  /\ targets[p] = Null
  /\ targets' = [ targets EXCEPT ![p] =
                    { r \in RowId : Matches(p, R!Seen(p, r)) } ]
  /\ UNCHANGED << clock, resvVars, apptVars, pc, serial, req, now, team, copy >>

Update(p) ==
  /\ pc[p] \in Updates
  /\ targets[p] # Null
  /\ \A r \in targets[p] : R!Lockable(p, r)
  /\ LET hit == { r \in targets[p] : StillMatches(p, R!Seen(p, r)) }
     IN  \/ /\ pc[p] = "convert" /\ hit = {}
            /\ GiveUp(p, "conflict")
         \/ /\ ~(pc[p] = "convert" /\ hit = {})
            /\ R!Put(p, hit, [ r \in hit |-> Updated(p, R!Seen(p, r)) ])
            /\ targets' = [ targets EXCEPT ![p] = Null ]
            /\ Goto(p, Following(p))
            /\ UNCHANGED << clock, apptVars, serial, req, now, team, copy >>

\* The rows reserve inserts, one per resource of the slot.
NewRows(p) ==
  [ r \in { << p, serial[p], x >> : x \in team[p] } |->
      [ kind |-> IF req[p].op = "hold" THEN "hold" ELSE "booking",
        resource |-> r[3],
        window |-> ReservationWindow(Wanted(p), req[p].start),
        appt |-> req[p].appt,
        token |-> IF req[p].op = "hold" THEN << p, serial[p] >> ELSE Null,
        expires |-> IF req[p].op = "hold" THEN now[p] + TTL ELSE Null,
        released |-> FALSE ] ]

\* Faults: what others claimed is not looked at.
RefusedNever(p, v) == FALSE
WaitsNever(p, v) == {}

\* The exclusion constraint: what is settled and in the way refuses the row ...
Refused(p, v) == \E r \in RowId : R!Lockable(p, r) /\ Clash(v, R!Seen(p, r))

\* ... and what another open transaction may leave in the way makes it wait.
Waits(p, v) ==
  { r \in RowId : /\ ~R!Lockable(p, r)
                  /\ Clash(v, resv[r]) \/ Clash(v, resvDraft[r]) }

\* Two sessions that insert for the same time at once each wait for the other's
\* row, and the database kills one of them.
Colliding(p) ==
  \E q \in Proc \ {p} :
    /\ pc[q] = "reserve"
    /\ \E r \in DOMAIN NewRows(p), s \in DOMAIN NewRows(q) :
         Clash(NewRows(p)[r], NewRows(q)[s])

\* reserve: all of the slot's rows, in a savepoint, or a ConflictError.
Reserve(p) ==
  /\ pc[p] = "reserve"
  /\ LET new == NewRows(p)
         ids == DOMAIN new
     IN  \/ /\ Colliding(p) \/ \E r \in ids : Refused(p, new[r])
            /\ GiveUp(p, "conflict")
         \/ /\ \A r \in ids : ~Refused(p, new[r]) /\ Waits(p, new[r]) = {}
            /\ R!Put(p, ids, new)
            /\ Goto(p, IF req[p].op = "reschedule" THEN "write" ELSE "commit")
            /\ UNCHANGED << clock, apptVars, local >>

\* The object a use case hands to appointments.update.
Edited(p) ==
  IF req[p].op = "reschedule"
  THEN [ copy[p] EXCEPT !.start = req[p].start,
                        !.end = req[p].start + Duration[copy[p].service],
                        !.team = team[p] ]
  ELSE copy[p]

\* Fault: a cancelled appointment keeps its time.
HandsBackNever(p) == FALSE

\* A transition to a status that does not occupy its slot hands the time back.
HandsBack(p) == req[p].op = "transition" /\ ~Occupies(copy[p].status)

\* appointments.update: every column of the row, from the copy read earlier.
Write(p) ==
  /\ pc[p] = "write"
  /\ A!Lockable(p, req[p].appt)
  /\ A!Put(p, { req[p].appt }, [ a \in { req[p].appt } |-> Edited(p) ])
  /\ Goto(p, IF HandsBack(p) THEN "release" ELSE "commit")
  /\ UNCHANGED << clock, resvVars, local >>

Commit(p) ==
  /\ pc[p] = "commit"
  /\ R!Commit(p)
  /\ A!Commit(p)
  /\ Goto(p, "ok")
  /\ Forget(p)
  /\ UNCHANGED clock

------------------------------------------------------------------------------
(* Failures and time *)

\* The sessions whose end the current statement of p waits for.
WaitsFor(p) ==
  CASE pc[p] \in Updates /\ targets[p] # Null ->
         { resvLock[r] : r \in { x \in targets[p] : ~R!Lockable(p, x) } }
    [] pc[p] = "reserve" ->
         UNION { { resvLock[r] : r \in Waits(p, v) } :
                   v \in { NewRows(p)[x] : x \in DOMAIN NewRows(p) } }
    [] pc[p] = "insert" ->
         { apptsLock[a] : a \in KeyRacing(p) }
    [] pc[p] = "write" -> { apptsLock[req[p].appt] } \ { p, Null }
    [] OTHER -> {}

\* Fault: nobody looks for cycles.
DeadlockUndetected(p) == FALSE

\* PostgreSQL kills one session of a cycle.  Only reserve turns the 40P01 into
\* a ConflictError; raised by any other statement it is a server error.
Deadlock(p) ==
  /\ \E S \in SUBSET Proc :
       /\ p \in S
       /\ \A q \in S : WaitsFor(q) \cap S # {} /\ \E o \in S : q \in WaitsFor(o)
  /\ GiveUp(p, IF pc[p] = "reserve" THEN "conflict" ELSE "error")

\* The process is redeployed, or its connection or its caller goes away.
Crash(p) ==
  /\ pc[p] \notin Rest
  /\ GiveUp(p, "idle")

Tick ==
  /\ clock < MaxClock
  /\ clock' = clock + 1
  /\ UNCHANGED << resvVars, apptVars, pc, local >>

\* Every process has used its budget: the bounded system stops here.
Done ==
  /\ \A p \in Proc : pc[p] \in Rest
  /\ clock = MaxClock
  /\ UNCHANGED vars

Statement(p) ==
  \/ Replay(p) \/ Lookup(p) \/ ResolveSlot(p) \/ Read(p)
  \/ Insert(p) \/ Find(p) \/ Update(p) \/ Reserve(p) \/ Write(p) \/ Commit(p)

Next ==
  \/ \E p \in Proc : Begin(p) \/ Statement(p) \/ Deadlock(p) \/ Crash(p)
  \/ Tick
  \/ Done

Spec == Init /\ [][Next]_vars

\* The sweep loop wakes up for another tick.
BeginSweep(p) == Begin(p) /\ req'[p].op = "sweep"

\* The event loop resumes a coroutine whose statement has answered, and the
\* database looks for deadlocks.  The sweep wakes up for as long as the
\* application lives, and is not killed in the middle of every tick.
Fairness ==
  /\ WF_vars(Tick)
  /\ \A p \in Proc : WF_vars(Statement(p) \/ Deadlock(p))
  /\ \A p \in { q \in Proc : "sweep" \in Allowed[q] } :
       /\ WF_vars(BeginSweep(p))
       /\ SF_vars(Find(p)) /\ SF_vars(Update(p)) /\ SF_vars(Commit(p))

FairSpec == Spec /\ Fairness

------------------------------------------------------------------------------
(* Properties *)

\* Every table holds rows of its type, and every process is between requests
\* or at a statement.
TypeOK ==
  /\ clock \in 0..MaxClock
  /\ resv \in [ RowId -> Reservation \cup {Null} ]
  /\ resvDraft \in [ RowId -> Reservation \cup {Null} ]
  /\ resvLock \in [ RowId -> Proc \cup {Null} ]
  /\ appts \in [ ApptId -> Appointment \cup {Null} ]
  /\ apptsDraft \in [ ApptId -> Appointment \cup {Null} ]
  /\ apptsLock \in [ ApptId -> Proc \cup {Null} ]
  /\ pc \in [ Proc -> Rest \cup Stage ]
  /\ serial \in [ Proc -> Nat ] /\ \A p \in Proc : serial[p] <= Budget[p]
  /\ req \in [ Proc -> Request ]
  /\ now \in [ Proc -> 0..MaxClock ]
  /\ targets \in [ Proc -> (SUBSET RowId) \cup {Null} ]
  /\ team \in [ Proc -> SUBSET Resource ]
  /\ copy \in [ Proc -> Appointment \cup {Null} ]

\* No resource is claimed twice for overlapping time: the promise of the
\* exclusion constraint, kept through savepoints, conversions and releases
\* that are still uncommitted when the next claim is made.
NoOverlap ==
  \A r, s \in RowId : r # s => ~Clash(resv[r], resv[s])

Standing(a) == appts[a] # Null /\ Occupies(appts[a].status)

Covers(w, a) == w.start <= appts[a].start /\ appts[a].end <= w.end

\* The reservations of appointment a, in force and in the right place.
Backing(a, x) ==
  { r \in RowId : /\ Live(resv[r])
                  /\ resv[r].kind = "booking"
                  /\ resv[r].appt = a
                  /\ resv[r].resource = x
                  /\ Covers(resv[r].window, a) }

\* "Neither can survive without the other", one way: an appointment that
\* occupies its slot has each resource it names reserved around its time.
Backed ==
  \A a \in ApptId : Standing(a) => \A x \in appts[a].team : Backing(a, x) # {}

\* The other way: booked time belongs to an appointment that still occupies it,
\* so no slot "stays dead forever".
NoStray ==
  \A r \in RowId : Live(resv[r]) /\ resv[r].kind = "booking" =>
    LET a == resv[r].appt
    IN  Standing(a) /\ resv[r].resource \in appts[a].team /\ Covers(resv[r].window, a)

\* No two customers are promised the same resource at the same time.
NoDoubleBooking ==
  \A a, b \in ApptId :
    a # b /\ Standing(a) /\ Standing(b) /\ appts[a].team \cap appts[b].team # {}
      => ~Overlaps(appts[a], appts[b])

\* "A retried POST cannot create a second booking": one standing appointment
\* for each idempotency key clients have sent, unless the one that holds the key
\* is over, after which a retry books without a key.
OneBookingPerKey ==
  \A a, b \in ApptId :
    /\ a # b /\ Standing(a) /\ Standing(b)
    /\ appts[a].asked # Null /\ appts[a].asked = appts[b].asked
    => \E c \in Booked : appts[c].key = appts[a].asked /\ ~Standing(c)

\* A hold is converted in place: the row that becomes a booking was live up to
\* that commit and is live after it, so its time is never free in between.
NoGap ==
  [][ \A r \in RowId :
        resv[r] # Null /\ resv[r].kind = "hold" /\ resv'[r].kind = "booking"
          => Live(resv[r]) /\ Live(resv'[r]) ]_vars

\* Every request is answered, whatever locks it meets on its way.
Answered == \A p \in Proc : pc[p] \notin Rest ~> pc[p] \in Rest

\* An abandoned hold gives its time back: once it has expired the sweep
\* releases it, unless it became a booking before that.
HoldsEnd ==
  \A r \in RowId :
    Hold(resv[r]) /\ resv[r].expires <= MaxClock ~> ~Hold(resv[r])

\* What the reservations promise whoever reads the calendar.
Claim(r) == [ id |-> r, resource |-> resv[r].resource, window |-> resv[r].window ]
Claims == { Claim(r) : r \in { x \in RowId : Live(resv[x]) } }
Spent == { r \in RowId : resv[r] # Null /\ ~Live(resv[r]) }

C == INSTANCE Calendar WITH claims <- Claims, spent <- Spent

\* Every behaviour of the booking engine is one of an exclusive calendar.
Exclusive == C!Spec

==============================================================================
