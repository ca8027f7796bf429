-------------------------------- MODULE Slots --------------------------------
(***************************************************************************)
(* The availability engine: which start times of a service are bookable,   *)
(* and with whom.  A branch and each resource have weekly hours in the     *)
(* wall-clock time of a zone, blocked periods, and time that is claimed    *)
(* already.  A search asks the engine about a range of time on a coarse    *)
(* grid; a hold or a booking asks it again about one start, on a grid of   *)
(* one minute and with only what it loads around that start, and claims    *)
(* the team that this second answer names.                                 *)
(*                                                                         *)
(* Time is a number of minutes; a day has DayLength of them.  The state is *)
(* what the repositories hold; the engine is a function of it.  How the    *)
(* claims of two callers interleave is the subject of module Booking, so a *)
(* hold is one step here.  A resource may be deactivated, and so may be    *)
(* moved to another branch, which is the same to the engine.  Left out:    *)
(* inactive services, and optional roles, which are never looked at.       *)
(***************************************************************************)
EXTENDS Integers, FiniteSets, Sequences, SequencesExt, FiniteSetsExt

CONSTANTS
  Branch, Resource,
  Service,      \* records: duration, buffers, notice, horizon and the candidates of each role
  Rule,         \* the weekly rules an owner may have
  Block,        \* the blocked periods an owner may have
  Request,      \* the searches: service, range, granularity, limit and preferred resource
  Leaver,       \* the resources that may be deactivated
  Start,        \* the starts a caller may ask to hold
  Preference,   \* the resources a caller may ask for, and None
  Zone,         \* Branch and each resource: the offset before and after its clock changes
  DayLength, WeekLength,
  MaxQuery,     \* MAX_QUERY_DAYS, in minutes
  HoldTTL,
  None,
  Horizon,      \* bound: the clock
  MaxRules, MaxBlocks, MaxClaims   \* bounds: what is in force at one time

Owner == { Branch } \cup Resource

ASSUME ConstantAssumption ==
  /\ DayLength \in Nat \ {0} /\ WeekLength \in Nat \ {0}
  /\ MaxQuery \in Nat /\ HoldTTL \in Nat /\ Horizon \in Nat
  /\ None \notin Resource /\ Preference \subseteq Resource \cup { None }
  /\ Leaver \subseteq Resource /\ Start \subseteq Int
  /\ \A rule \in Rule : /\ rule.owner \in Owner /\ rule.weekday \in 0 .. WeekLength - 1
                        /\ rule.start_time \in Nat /\ rule.end_time \in Nat
                        /\ rule.start_time < rule.end_time /\ rule.end_time < DayLength
                        /\ rule.from = None \/ rule.from \in Int
                        /\ rule.until = None \/ rule.until \in Int
  /\ \A b \in Block : b.owner \in Owner /\ b.start \in Int /\ b.end \in Int /\ b.start < b.end
  /\ \A s \in Service : /\ s.duration \in Nat \ {0} /\ s.duration < MaxQuery
                        /\ s.before \in Nat /\ s.after \in Nat
                        /\ s.notice \in Nat /\ s.horizon \in Nat
                        /\ s.candidates \in Seq(Seq(Resource))
  /\ \A q \in Request : /\ q.service \in Service /\ q.range.start \in Int /\ q.range.end \in Int
                        /\ q.step \in Nat \ {0} /\ q.limit \in Nat \ {0}
                        /\ q.preferred \in Resource \cup { None }
  /\ \A o \in Owner : Zone[o].before \in Int /\ Zone[o].after \in Int /\ Zone[o].change \in Int

VARIABLES
  now,
  active,       \* the resources that work here
  rules,        \* the rules in force
  blocks,       \* the blocked periods
  claims        \* holds and bookings: service, start, team and, of a hold, when it expires

vars == << now, active, rules, blocks, claims >>

-----------------------------------------------------------------------------
(* Intervals, half-open. *)

Span(a, b) == [ start |-> a, end |-> b ]

Overlaps(i, j) == i.start < j.end /\ j.start < i.end

Covers(i, j) == i.start <= j.start /\ j.end <= i.end

\* FAULT: windows that only touch are not joined.
OpeningsApart(S) ==
  { i.start : i \in { i \in S : \A j \in S : j.start < i.start => j.end <= i.start } }

\* In the order of their starts, a window opens with an interval that no earlier one
\* reaches, and takes in those that follow until the next opens.
Openings(S) ==
  { i.start : i \in { i \in S : \A j \in S : j.start < i.start => j.end < i.start } }

Group(S, a) == { j \in S : j.start >= a /\ \A b \in Openings(S) : b <= j.start => b <= a }

\* _merge: overlapping and adjacent intervals become one.
Merge(S) == { Span(a, Max({ j.end : j \in Group(S, a) })) : a \in Openings(S) }

Intersect(left, right) ==
  { i \in { Span(Max({ l.start, r.start }), Min({ l.end, r.end })) :
              l \in left, r \in right } : i.start < i.end }

-----------------------------------------------------------------------------
(* Zones, as zoneinfo resolves them: one change of the clock. *)

LocalDay(z, t) == (t + (IF t < z.change THEN z.before ELSE z.after)) \div DayLength

\* A reading that occurs twice is the first of the two; one that is skipped
\* counts with the offset before the change.
Instant(z, day, minute) ==
  LET reading == day * DayLength + minute
  IN IF reading - z.before < z.change \/ reading - z.after < z.change
     THEN reading - z.before ELSE reading - z.after

\* _rule_applies_on.
RuleAppliesOn(rule, day, z) ==
  LET day_start == Instant(z, day, 0)
  IN /\ rule.weekday = day % WeekLength
     /\ rule.from # None => day_start >= rule.from
     /\ rule.until # None => day_start < rule.until

\* What each rule opens on each day, if anything.
RuleWindows(owned, days, z) ==
  LET Window(rule, day) == Span(Instant(z, day, rule.start_time), Instant(z, day, rule.end_time))
  IN { i \in { Window(p[1], p[2]) : p \in { p \in owned \X days : RuleAppliesOn(p[1], p[2], z) } } :
         i.end > i.start }

\* _windows_for.
WindowsFor(owned, days, z) == Merge(RuleWindows(owned, days, z))

-----------------------------------------------------------------------------
(* The engine, on what was loaded: inputs.rules, inputs.blocks, inputs.claims. *)

Appointment(service, t) == Span(t, t + service.duration)

\* reservation_window: the buffers extend the claim, not the appointment.
ReservationWindow(service, t) == Span(t - service.before, t + service.duration + service.after)

Owned(S, o) == { x \in S : x.owner = o }

\* FAULT: the leave of a resource is not looked at.
ResourceFreeOnLeave(r, block, inputs, windows) ==
  /\ \E w \in windows : Covers(w, block)
  /\ \A c \in inputs.claims :
       r \in ToSet(c.team) => ~Overlaps(ReservationWindow(c.service, c.starts_at), block)

\* _resource_free.
ResourceFree(r, block, inputs, windows) ==
  /\ \E w \in windows : Covers(w, block)
  /\ \A b \in Owned(inputs.blocks, r) : ~Overlaps(b, block)
  /\ \A c \in inputs.claims :
       r \in ToSet(c.team) => ~Overlaps(ReservationWindow(c.service, c.starts_at), block)

\* candidates_by_role has the roles for which somebody is there.
Roles(service, present) ==
  { n \in DOMAIN service.candidates : ToSet(service.candidates[n]) \cap present # {} }

\* A resource that is preferred is the only candidate of the roles it can fill.
Ordered(candidates, present, preferred) ==
  IF preferred \in ToSet(candidates) \cap present THEN << preferred >> ELSE candidates

\* r is the first of ordered that is among the free ones.
IsFirst(r, ordered, free) ==
  \E k \in DOMAIN ordered :
    /\ r = ordered[k] /\ r \in free
    /\ \A l \in DOMAIN ordered : l < k => ordered[l] \notin free

FreeResources(block, inputs, windows) ==
  { r \in inputs.active : ResourceFree(r, block, inputs, windows[r]) }

\* FAULT: a resource that is in the team already may fill another role.
PickResourcesTwice(service, block, inputs, windows, preferred) ==
  { team \in [ Roles(service, inputs.active) -> inputs.active ] :
      \A n \in DOMAIN team :
        IsFirst(team[n], Ordered(service.candidates[n], inputs.active, preferred),
                FreeResources(block, inputs, windows)) }

\* _pick_resources: the team that has for each role in turn the first candidate that
\* is free and was not chosen before; no team, if there is a role that has none.
PickResources(service, block, inputs, windows, preferred) ==
  { team \in [ Roles(service, inputs.active) -> inputs.active ] :
      \A n \in DOMAIN team :
        IsFirst(team[n], Ordered(service.candidates[n], inputs.active, preferred),
                FreeResources(block, inputs, windows)
                  \ { team[m] : m \in { m \in DOMAIN team : m < n } }) }

\* The starts that a window of opening hours puts on the grid.
Grid(w, earliest, latest, service, step) ==
  { t \in Max({ w.start, earliest }) .. Min({ w.end, latest }) - service.duration :
      (t - w.start) % step = 0 }

Earliest(request) == Max({ request.range.start, now + request.service.notice })

Latest(request) ==
  Min({ request.range.end, now + request.service.horizon, Earliest(request) + MaxQuery })

\* _local_days, of the branch.
Days(request) ==
  LocalDay(Zone[Branch], Earliest(request)) .. LocalDay(Zone[Branch], Latest(request))

LocationWindows(request, inputs) ==
  WindowsFor(Owned(inputs.rules, Branch), Days(request), Zone[Branch])

\* A resource without rules of its own keeps the hours of the branch.
ResourceWindows(r, location, request, inputs) ==
  LET own == Owned(inputs.rules, r)
  IN IF own = {} THEN location
     ELSE Intersect(location, WindowsFor(own, Days(request), Zone[r]))

\* compute_slots, before the limit.
AllSlots(request, inputs) ==
  LET service == request.service
      location == LocationWindows(request, inputs)
      windows == [ r \in Resource |-> ResourceWindows(r, location, request, inputs) ]
      starts == { t \in UNION { Grid(w, Earliest(request), Latest(request), service, request.step) :
                                  w \in location } :
                    \A b \in Owned(inputs.blocks, Branch) :
                      ~Overlaps(b, ReservationWindow(service, t)) }
  IN UNION { { [ starts_at |-> t, team |-> team ] :
                 team \in PickResources(service, ReservationWindow(service, t), inputs, windows,
                                        request.preferred) } : t \in starts }

\* compute_slots: the first of them.
ComputeSlots(request, inputs) ==
  LET slots == AllSlots(request, inputs)
  IN { s \in slots :
         Cardinality({ u \in slots : u.starts_at < s.starts_at }) < request.limit }

Live(c) == c.until = None \/ c.until > now

\* load_availability_inputs: the blocks and the live claims that overlap the range.
Loaded(range) ==
  [ active |-> active,
    rules |-> rules,
    blocks |-> { b \in blocks : Overlaps(b, range) },
    claims |-> { c \in claims :
                   Live(c) /\ Overlaps(ReservationWindow(c.service, c.starts_at), range) } ]

FindAvailability(request) == ComputeSlots(request, Loaded(request.range))

\* FAULT: the preference for a resource is not passed on.
ResolveSlotAnyone(service, t, preferred) ==
  LET range == Span(t - 1, t + service.duration + 1)
      request == [ service |-> service, range |-> range, step |-> 1, limit |-> 64,
                   preferred |-> None ]
  IN { s \in ComputeSlots(request, Loaded(range)) : s.starts_at = t }

\* resolve_slot: the engine's verdict on one start, or nothing.
ResolveSlot(service, t, preferred) ==
  LET range == Span(t - 1, t + service.duration + 1)
      request == [ service |-> service, range |-> range, step |-> 1, limit |-> 64,
                   preferred |-> preferred ]
  IN { s \in ComputeSlots(request, Loaded(range)) : s.starts_at = t }

\* The exclusion constraint on reservations.
Unclaimed(service, s) ==
  \A c \in claims :
    Live(c) /\ ToSet(c.team) \cap ToSet(s.team) # {}
      => ~Overlaps(ReservationWindow(c.service, c.starts_at),
                   ReservationWindow(service, s.starts_at))

-----------------------------------------------------------------------------
Init == now = 0 /\ active = Resource /\ rules = {} /\ blocks = {} /\ claims = {}

AddRule(rule) ==
  /\ rule \notin rules /\ Cardinality(rules) < MaxRules
  /\ rules' = rules \cup { rule }
  /\ UNCHANGED << now, active, blocks, claims >>

DeleteRule(rule) ==
  /\ rule \in rules /\ rules' = rules \ { rule }
  /\ UNCHANGED << now, active, blocks, claims >>

AddBlock(b) ==
  /\ b \notin blocks /\ Cardinality(blocks) < MaxBlocks
  /\ blocks' = blocks \cup { b }
  /\ UNCHANGED << now, active, rules, claims >>

DeleteBlock(b) ==
  /\ b \in blocks /\ blocks' = blocks \ { b }
  /\ UNCHANGED << now, active, rules, claims >>

\* What is claimed for it stays.
Deactivate(r) ==
  /\ r \in active /\ active' = active \ { r }
  /\ UNCHANGED << now, rules, blocks, claims >>

Activate(r) ==
  /\ r \notin active /\ active' = active \cup { r }
  /\ UNCHANGED << now, rules, blocks, claims >>

\* HoldSlot, or BookAppointment without a hold, in which case nothing expires.
\* The expired holds of the team are purged, and with them of anybody.
Claims(service, t, preferred, until) ==
  \E s \in ResolveSlot(service, t, preferred) :
    /\ Unclaimed(service, s) /\ Cardinality({ c \in claims : Live(c) }) < MaxClaims
    /\ claims' = { c \in claims : Live(c) } \cup
         { [ service |-> service, starts_at |-> t, team |-> s.team, until |-> until ] }
    /\ UNCHANGED << now, active, rules, blocks >>

HoldSlot(service, t, preferred) == Claims(service, t, preferred, now + HoldTTL)

Book(service, t, preferred) == Claims(service, t, preferred, None)

\* A hold is given back, or a booking is cancelled.
Release(c) ==
  /\ c \in claims /\ claims' = claims \ { c }
  /\ UNCHANGED << now, active, rules, blocks >>

Tick ==
  /\ now < Horizon /\ now' = now + 1
  /\ UNCHANGED << active, rules, blocks, claims >>

Next ==
  \/ \E rule \in Rule : AddRule(rule) \/ DeleteRule(rule)
  \/ \E b \in Block : AddBlock(b) \/ DeleteBlock(b)
  \/ \E r \in Leaver : Deactivate(r) \/ Activate(r)
  \/ \E service \in Service, t \in Start, preferred \in Preference :
       HoldSlot(service, t, preferred) \/ Book(service, t, preferred)
  \/ \E c \in claims : Release(c)
  \/ Tick

Spec == Init /\ [][Next]_vars

-----------------------------------------------------------------------------
(* The reference: what the owner's rules say of one minute. *)

Reading(z, t) == t + (IF t < z.change THEN z.before ELSE z.after)

InForce(rule, t) ==
  /\ rule.from # None => t >= rule.from
  /\ rule.until # None => t < rule.until

\* "A rule that begins mid-day still applies to that day": a rule holds for a day if it
\* is in force at any minute of it.  The longest day has less than twice the minutes of
\* a day.
RuleOpens(rule, z, t) ==
  /\ rule.weekday = LocalDay(z, t) % WeekLength
  /\ rule.start_time <= Reading(z, t) % DayLength
  /\ Reading(z, t) % DayLength < rule.end_time
  /\ \E u \in t - 2 * DayLength .. t + 2 * DayLength :
       LocalDay(z, u) = LocalDay(z, t) /\ InForce(rule, u)

Opens(o, t) == \E rule \in Owned(rules, o) : RuleOpens(rule, Zone[o], t)

Works(r, t) == Opens(Branch, t) /\ (Owned(rules, r) = {} \/ Opens(r, t))

Minutes(i) == i.start .. i.end - 1

Blocked(o, t, B) == \E b \in Owned(B, o) : t \in Minutes(b)

Taken(r, t, C) ==
  \E c \in C : r \in ToSet(c.team) /\ t \in Minutes(ReservationWindow(c.service, c.starts_at))

\* Minute by minute the branch is not blocked and each of the team is at work and free.
Serves(team, i, B, C) ==
  \A t \in Minutes(i) :
    /\ ~Blocked(Branch, t, B)
    /\ \A n \in DOMAIN team :
         Works(team[n], t) /\ ~Blocked(team[n], t, B) /\ ~Taken(team[n], t, C)

OpenFor(i) == \A t \in Minutes(i) : Opens(Branch, t)

\* A team with one candidate of each role that anybody is there for, nobody twice.
Teams(service, present, preferred) ==
  { team \in [ Roles(service, present) -> present ] :
      /\ IsInjective(team)
      /\ \A n \in DOMAIN team :
           LET fit == ToSet(service.candidates[n])
           IN team[n] \in fit /\ (preferred \in fit \cap present => team[n] = preferred) }

\* On the grid of the opening hours that t is in, which are of one day.
OnGrid(t, step) ==
  \E opening \in t - 2 * DayLength .. t :
    /\ (t - opening) % step = 0
    /\ ~Opens(Branch, opening - 1) /\ \A u \in opening .. t : Opens(Branch, u)

\* Within the range, with notice, and before the horizon or the end of a query.
Permitted(request, t) ==
  LET earliest == now + request.service.notice
      end == t + request.service.duration
  IN /\ t >= request.range.start /\ t >= earliest
     /\ end <= request.range.end /\ end <= now + request.service.horizon
     /\ end <= request.range.start + MaxQuery \/ end <= earliest + MaxQuery

\* All that work in the zone of the branch: the days the engine expands are theirs too.
SameZone(service) ==
  \A n \in DOMAIN service.candidates :
    \A r \in ToSet(service.candidates[n]) : Zone[r] = Zone[Branch]

OneRoleEach(service) ==
  \A m, n \in DOMAIN service.candidates :
    m # n => ToSet(service.candidates[m]) \cap ToSet(service.candidates[n]) = {}

\* Somebody is there for each role: without, the service is not bookable, says the
\* engine's own comment, but roles that nobody fills never reach the engine.
Staffed(service) == Roles(service, active) = DOMAIN service.candidates

Staff(service) == UNION { ToSet(service.candidates[n]) : n \in DOMAIN service.candidates }

\* The rules of some owners begin with a day: one that begins within a day is not
\* applied to that day, against the comment of _rule_applies_on.
WholeDays(owners) ==
  \A rule \in rules :
    rule.owner \in owners /\ rule.from # None =>
      LocalDay(Zone[rule.owner], rule.from) # LocalDay(Zone[rule.owner], rule.from - 1)

\* The readings that a clock jumps over, and those it shows twice: no hours begin or
\* end at one.  Hours that do begin and end by the rule of Instant, and the minutes
\* between are then not always those whose reading is within the hours.
PlainHours ==
  \A rule \in Rule :
    LET z == Zone[rule.owner]
        before == z.change + z.before
        after == z.change + z.after
    IN \A reading \in (before + 1 .. after - 1) \cup (after + 1 .. before - 1) :
         reading % DayLength \notin { rule.start_time, rule.end_time }

\* A clock changes within a day, or goes forward at the end of one.
SteadyDays ==
  \A o \in Owner :
    LET last == Zone[o].change - 1 + Zone[o].before
        first == Zone[o].change + Zone[o].after
    IN \/ last \div DayLength = first \div DayLength
       \/ (last + 1) % DayLength = 0 /\ first > last

TypeOK ==
  /\ now \in 0 .. Horizon /\ active \subseteq Resource
  /\ rules \subseteq Rule /\ blocks \subseteq Block
  /\ \A c \in claims : /\ c.service \in Service /\ c.starts_at \in Start
                       /\ \E present \in SUBSET Resource :
                            c.team \in Teams(c.service, present, None)
                       /\ c.until = None \/ c.until <= now + HoldTTL

\* What a search returns the rules allow, read minute by minute on the clock of their
\* owner: open, within notice and horizon, free, served, and on the grid of the opening
\* hours.  And it returns every such start, where the limit does not cut it short, all
\* work in the zone of the branch, no candidate fits two roles and every role has
\* somebody.  The grid and the completeness are those of rules that begin with a day.
OfferedRight ==
  \A q \in Request :
    LET found == FindAvailability(q)
        inputs == Loaded(q.range)
        teams == Teams(q.service, active, q.preferred)
        Allowed(t) == Permitted(q, t) /\ OpenFor(Appointment(q.service, t))
        Served(t, team) ==
          Serves(team, ReservationWindow(q.service, t), inputs.blocks, inputs.claims)
    IN /\ \A s \in found :
            /\ Allowed(s.starts_at) /\ s.team \in teams /\ Served(s.starts_at, s.team)
            /\ WholeDays({ Branch }) => OnGrid(s.starts_at, q.step)
       /\ /\ WholeDays({ Branch } \cup Staff(q.service)) /\ SameZone(q.service)
          /\ OneRoleEach(q.service) /\ Staffed(q.service) /\ Cardinality(found) < q.limit
          => \A t \in (q.range.start .. q.range.end - 1) \ { s.starts_at : s \in found } :
               ~ /\ Allowed(t) /\ OnGrid(t, q.step)
                 /\ \E team \in teams : Served(t, team)

\* What is claimed was bookable in the whole world, not only in what was loaded:
\* a claim that is made is for an appointment in the working hours of its team,
\* clear of every block, and its window clear of every other live claim.
ClaimsAreSound ==
  [][ \A c \in claims' \ claims :
        LET others == { d \in claims : Live(d) }
            visit == Appointment(c.service, c.starts_at)
        IN /\ OpenFor(visit) /\ Serves(c.team, visit, blocks, others)
           /\ \A n \in DOMAIN c.team :
                \A t \in Minutes(ReservationWindow(c.service, c.starts_at)) :
                  ~Taken(c.team[n], t, others) ]_vars

\* Without buffers and in one zone, a slot that is offered is there to be taken:
\* with nothing changed since, the narrow question finds the same slot with the
\* same team, and the constraint accepts it.
OfferedIsHeld ==
  \A q \in Request :
    SameZone(q.service) /\ q.service.before = 0 /\ q.service.after = 0 =>
      \A s \in FindAvailability(q) :
        ResolveSlot(q.service, s.starts_at, q.preferred) = { s } /\ Unclaimed(q.service, s)

=============================================================================
