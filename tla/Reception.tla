------------------------------ MODULE Reception ------------------------------
(***************************************************************************)
(* The assistant that takes bookings: one conversation, and the runs that  *)
(* answer its messages.  A run loads the conversation's slate (what was    *)
(* offered, chosen and held), lets a language model call the scheduling    *)
(* tools a bounded number of times, and saves the slate with its answer.   *)
(* The tools commit as they go; the slate is saved once, at the end, over  *)
(* whatever another run saved meanwhile, and not at all if the run is      *)
(* lost.  The model's calls are any calls: it may look up, hold, book,     *)
(* move and cancel in any order, and name the slot in any way it is given. *)
(*                                                                         *)
(* The calendar is the abstract one that module Booking implements: a time *)
(* has seats, and a claim takes one or is refused.  Left out: wording,     *)
(* the search of documents, a branch apart from its service, a preferred   *)
(* resource, and a hold token the model passes by itself (the tools tell   *)
(* it not to).                                                             *)
(***************************************************************************)
EXTENDS Integers, FiniteSets

CONSTANTS
  Run,          \* the handlers that may answer this conversation
  Service,      \* what can be booked, and where
  Time,         \* the instants that have slots
  Contact,      \* who the customer may say they are: a name and a phone or an e-mail
  Ask,          \* the ways a tool call may name a slot
  Window,       \* the spans of time a search may ask for
  Token, Appointment,
  Seats,        \* how many may be served at one time
  MaxOffered,   \* MAX_OFFERED_OPTIONS
  OfferTTL, HoldTTL,
  MaxSteps,     \* the tool calls of one run
  None,
  Horizon,      \* bound: the clock
  MaxTurns,     \* bound: the messages of the customer
  MaxStirs      \* bound: what others do meanwhile

ASSUME ReceptionAssumption ==
  /\ Time \subseteq Nat \ {0} /\ None \notin Time \cup Service \cup Contact \cup Token
  /\ None \notin Appointment /\ None # 0
  /\ Window \subseteq SUBSET Time
  /\ IsFiniteSet(Token) /\ IsFiniteSet(Appointment)
  /\ Seats \in Nat /\ MaxOffered \in Nat /\ OfferTTL \in Nat /\ HoldTTL \in Nat
  /\ MaxSteps \in Nat /\ Horizon \in Nat /\ MaxTurns \in Nat /\ MaxStirs \in Nat
  /\ Ask \subseteq [ option : 0 .. MaxOffered, starts_at : Time \cup { None },
                     service_id : Service \cup { None } ]

VARIABLES
  now,
  others,       \* the seats that other customers have at each time
  hold,         \* the holds this conversation has taken
  appointment,  \* the appointments it has made
  saved,        \* chat_sessions.booking_state
  slate,        \* the slate in the memory of a run
  loaded,       \* what that run loaded
  steps,        \* the calls a run may still make; None when it is not running
  enabled,      \* whether the assistant is allowed to book
  turns,        \* the messages that have arrived
  stirs         \* how often others have changed something

calendar == << others, hold, appointment >>
talk == << slate, loaded, steps >>
receptionVars == << now, calendar, saved, talk, enabled, turns, stirs >>

Key == [ service : Service, starts : Time, contact : Contact ]

\* A hold: its service and time, when it expires, and whether it was converted.
Hold == [ service : Service, starts : Time, until : Nat, spent : BOOLEAN ]

\* An appointment: asked is what the call that made it asked for, keyed whether
\* it carries the idempotency key of that call, and from the hold it came from.
Booked == [ service : Service, starts : Time, standing : BOOLEAN,
            asked : Key, keyed : BOOLEAN, from : Token \cup { None } ]

Slate == [ service : Service \cup { None }, options : SUBSET Time, offered_at : Nat,
           chosen : Time \cup { None }, token : Token \cup { None },
           contact : Contact \cup { None } ]

ASSUME NoneAssumption == None \notin Slate \cup Hold \cup Booked /\ None \notin Nat

Blank == [ service |-> None, options |-> {}, offered_at |-> 0, chosen |-> None,
           token |-> None, contact |-> None ]

-----------------------------------------------------------------------------
(* The calendar. *)

LiveHold(k) == hold[k] # None /\ ~hold[k].spent /\ hold[k].until > now

Standing(a) == appointment[a] # None /\ appointment[a].standing

\* The seats that are left at t when appointment b, if any, gives its own back.
Left(t, b) ==
  Seats - others[t]
        - Cardinality({ k \in Token : LiveHold(k) /\ hold[k].starts = t })
        - Cardinality({ a \in Appointment \ { b } :
                          Standing(a) /\ appointment[a].starts = t })

\* The engine's verdict on one time.
Bookable(t, b) == t > now /\ Left(t, b) > 0

Earliest(n, S) == { t \in S : Cardinality({ u \in S : u < t }) < n }

-----------------------------------------------------------------------------
(* The slate. *)

\* FAULT: a change of service keeps the hold when the time is still on offer.
OfferedKeeping(s, service, options) ==
  LET kept == s.chosen = None \/ s.chosen \in options
  IN [ s EXCEPT !.service = service, !.options = options, !.offered_at = now,
                !.chosen = IF kept THEN @ ELSE None,
                !.token = IF kept THEN @ ELSE None ]

\* offer: a choice and a hold survive only for the same service, and only while
\* the time chosen is still on the list.
Offered(s, service, options) ==
  LET kept == service = s.service /\ (s.chosen = None \/ s.chosen \in options)
  IN [ s EXCEPT !.service = service, !.options = options, !.offered_at = now,
                !.chosen = IF kept THEN @ ELSE None,
                !.token = IF kept THEN @ ELSE None ]

Chosen(s, t) == IF t = None THEN s ELSE [ s EXCEPT !.chosen = t ]

\* A detail that was given stays given.
Remembered(s, contact) == IF contact = None THEN s ELSE [ s EXCEPT !.contact = contact ]

\* Everything about making the appointment is over; who the customer is stays.
Concluded(s) ==
  [ s EXCEPT !.options = {}, !.offered_at = 0, !.chosen = None, !.token = None ]

FreshOptions(s) == IF now - s.offered_at > OfferTTL THEN {} ELSE s.options

LiveToken(s) ==
  IF s.token # None /\ hold[s.token] # None /\ hold[s.token].until > now
  THEN s.token ELSE None

\* The n-th of the list, or None.
Resolve(s, n) ==
  LET options == FreshOptions(s)
      hits == { t \in options : Cardinality({ u \in options : u <= t }) = n }
  IN IF hits = {} THEN None ELSE CHOOSE t \in hits : TRUE

Unreadable(s, ask) == ask.option # 0 /\ Resolve(s, ask.option) = None

\* The option a call is about: the number the customer replied with, a time on
\* the list, or the one chosen earlier.
Option(s, ask) ==
  IF ask.option # 0 THEN Resolve(s, ask.option)
  ELSE IF ask.starts_at = None THEN s.chosen
  ELSE IF ask.starts_at \in FreshOptions(s) THEN ask.starts_at ELSE None

StartsAt(s, ask) == IF Option(s, ask) = None THEN ask.starts_at ELSE Option(s, ask)

ServiceOf(s, ask) == IF ask.service_id = None THEN s.service ELSE ask.service_id

-----------------------------------------------------------------------------
ReceptionInit ==
  /\ now = 0
  /\ others = [ t \in Time |-> 0 ]
  /\ hold = [ k \in Token |-> None ]
  /\ appointment = [ a \in Appointment |-> None ]
  /\ saved = Blank
  /\ slate = [ r \in Run |-> None ]
  /\ loaded = [ r \in Run |-> None ]
  /\ steps = [ r \in Run |-> None ]
  /\ enabled = TRUE
  /\ turns = 0 /\ stirs = 0

Running(r) == steps[r] # None

\* A message arrives: the run loads the slate.
Begin(r) ==
  /\ ~Running(r) /\ turns < MaxTurns
  /\ turns' = turns + 1
  /\ steps' = [ steps EXCEPT ![r] = MaxSteps ]
  /\ loaded' = [ loaded EXCEPT ![r] = saved ]
  /\ slate' = [ slate EXCEPT ![r] = saved ]
  /\ UNCHANGED << now, calendar, saved, enabled, stirs >>

\* One step of the loop, in which a tool leaves the slate as s.  A step that
\* changes nothing (an answer of the model that cannot be read, an unknown tool,
\* a tool that only reads, that raises or that may not be used) only leaves fewer
\* of them, and a run may end at any step anyway.
Step(r, s) ==
  /\ Running(r) /\ steps[r] > 0
  /\ steps' = [ steps EXCEPT ![r] = @ - 1 ]
  /\ slate' = [ slate EXCEPT ![r] = s ]
  /\ UNCHANGED << now, others, saved, loaded, enabled, turns, stirs >>

FindAvailableSlots(r, service, window) ==
  LET free == { t \in window : Bookable(t, None) }
  IN /\ enabled /\ free # {}
     /\ Step(r, Offered(slate[r], service, Earliest(MaxOffered, free)))
     /\ UNCHANGED << hold, appointment >>

CreateSlotHold(r, ask) ==
  LET s == slate[r]
      t == StartsAt(s, ask)
      service == ServiceOf(s, ask)
  IN /\ enabled /\ Running(r) /\ ~Unreadable(s, ask)
     /\ t # None /\ service # None /\ Bookable(t, None)
     /\ \E k \in Token :
          /\ hold[k] = None
          /\ hold' = [ hold EXCEPT ![k] = [ service |-> service, starts |-> t,
                                            until |-> now + HoldTTL, spent |-> FALSE ] ]
          /\ Step(r, [ Chosen(s, Option(s, ask)) EXCEPT !.token = k ])
     /\ UNCHANGED appointment

\* What the slate knows once the model has called book_appointment.
Told(s, ask, contact) == Chosen(Remembered(s, contact), Option(s, ask))

KeyOf(s, ask, contact) ==
  [ service |-> ServiceOf(s, ask), starts |-> StartsAt(s, ask),
    contact |-> Remembered(s, contact).contact ]

Complete(key) == None \notin { key.service, key.starts, key.contact }

\* FAULT: the idempotency key is stored and never looked up.
UnderNoKey(key) == {}

\* get_by_idempotency_key.
UnderKey(key) ==
  { a \in Appointment : appointment[a] # None /\ appointment[a].keyed
                        /\ appointment[a].asked = key }

\* The booking the key already stands for is the answer.
AlreadyBooked(r, ask, contact) ==
  LET s == slate[r]
  IN /\ enabled /\ Running(r) /\ ~Unreadable(s, ask) /\ Complete(KeyOf(s, ask, contact))
     /\ \E a \in UnderKey(KeyOf(s, ask, contact)) :
          Standing(a)
     /\ Step(r, Concluded(Told(s, ask, contact)))
     /\ UNCHANGED << hold, appointment >>

\* Without a live hold the time is asked of the engine; with one, the hold is
\* converted, whatever time and service the call asks for.  The key of a dead
\* appointment is not used again.
BookAppointment(r, ask, contact) ==
  LET s == slate[r]
      key == KeyOf(s, ask, contact)
      k == LiveToken(s)
  IN /\ enabled /\ Running(r) /\ ~Unreadable(s, ask) /\ Complete(KeyOf(s, ask, contact))
     /\ \A a \in UnderKey(key) : ~Standing(a)
     /\ IF k = None THEN Bookable(key.starts, None) ELSE ~hold[k].spent
     /\ hold' = IF k = None THEN hold ELSE [ hold EXCEPT ![k].spent = TRUE ]
     /\ \E a \in Appointment :
          /\ appointment[a] = None
          /\ appointment' = [ appointment EXCEPT ![a] =
               [ service |-> key.service, standing |-> TRUE,
                 starts |-> IF k = None THEN key.starts ELSE hold[k].starts,
                 asked |-> key, keyed |-> UnderKey(key) = {}, from |-> k ] ]
          /\ Step(r, Concluded(Told(s, ask, contact)))

\* Something is missing, the time or the hold is gone, or the claim is lost to
\* another caller: what the call told the slate stays.
BookRefused(r, ask, contact) ==
  /\ enabled /\ Running(r) /\ ~Unreadable(slate[r], ask)
  /\ Told(slate[r], ask, contact) # slate[r]
  /\ Step(r, Told(slate[r], ask, contact))
  /\ UNCHANGED << hold, appointment >>

\* A reference is looked up among the coming appointments that stand.
Upcoming(a) == Standing(a) /\ appointment[a].starts >= now

CancelAppointment(r, a) ==
  /\ enabled /\ Running(r) /\ Upcoming(a)
  /\ appointment' = [ appointment EXCEPT ![a].standing = FALSE ]
  /\ Step(r, slate[r])
  /\ UNCHANGED hold

RescheduleAppointment(r, a, ask) ==
  LET s == slate[r]
      t == StartsAt(s, ask)
  IN /\ enabled /\ Running(r) /\ Upcoming(a) /\ ~Unreadable(s, ask)
     /\ t # None /\ Bookable(t, a)
     /\ appointment' = [ appointment EXCEPT ![a] = [ @ EXCEPT !.starts = t ] ]
     /\ Step(r, Concluded(s))
     /\ UNCHANGED hold

Calls(r) ==
  \/ \E service \in Service, window \in Window : FindAvailableSlots(r, service, window)
  \/ \E ask \in Ask : CreateSlotHold(r, ask)
  \/ \E ask \in Ask, contact \in Contact \cup { None } :
       \/ AlreadyBooked(r, ask, contact)
       \/ BookAppointment(r, ask, contact)
       \/ BookRefused(r, ask, contact)
  \/ \E a \in Appointment : CancelAppointment(r, a)
  \/ \E a \in Appointment, ask \in Ask : RescheduleAppointment(r, a, ask)

Ended(r) ==
  /\ steps' = [ steps EXCEPT ![r] = None ]
  /\ slate' = [ slate EXCEPT ![r] = None ]
  /\ loaded' = [ loaded EXCEPT ![r] = None ]
  /\ UNCHANGED << now, calendar, enabled, turns, stirs >>

\* The answer, and with it the slate if the run changed it.
PersistAnswer(r) ==
  /\ Running(r)
  /\ saved' = IF slate[r] = loaded[r] THEN saved ELSE slate[r]
  /\ Ended(r)

\* The language model fails, or the process goes down.
RunLost(r) == Running(r) /\ Ended(r) /\ UNCHANGED saved

Stir == stirs < MaxStirs /\ stirs' = stirs + 1

\* Other customers book and give back; the desk cancels; the owner changes what
\* the assistant may do; time passes.
OthersMove(t) ==
  /\ Stir
  /\ \/ Bookable(t, None) /\ others' = [ others EXCEPT ![t] = @ + 1 ]
     \/ others[t] > 0 /\ others' = [ others EXCEPT ![t] = @ - 1 ]
  /\ UNCHANGED << now, hold, appointment, saved, talk, enabled, turns >>

DeskCancels(a) ==
  /\ Stir /\ Standing(a)
  /\ appointment' = [ appointment EXCEPT ![a].standing = FALSE ]
  /\ UNCHANGED << now, others, hold, saved, talk, enabled, turns >>

Permit ==
  /\ Stir
  /\ enabled' = ~enabled
  /\ UNCHANGED << now, calendar, saved, talk, turns >>

Tick ==
  /\ now < Horizon /\ now' = now + 1
  /\ UNCHANGED << calendar, saved, talk, enabled, turns, stirs >>

ReceptionNext ==
  \/ \E r \in Run : Begin(r) \/ Calls(r) \/ PersistAnswer(r) \/ RunLost(r)
  \/ \E t \in Time : OthersMove(t)
  \/ \E a \in Appointment : DeskCancels(a)
  \/ Permit \/ Tick

ReceptionSpec == ReceptionInit /\ [][ReceptionNext]_receptionVars

-----------------------------------------------------------------------------
ReceptionTypeOK ==
  /\ now \in 0 .. Horizon
  /\ others \in [ Time -> 0 .. Seats ]
  /\ hold \in [ Token -> Hold \cup { None } ]
  /\ appointment \in [ Appointment -> Booked \cup { None } ]
  /\ saved \in Slate
  /\ slate \in [ Run -> Slate \cup { None } ]
  /\ loaded \in [ Run -> Slate \cup { None } ]
  /\ steps \in [ Run -> 0 .. MaxSteps \cup { None } ]
  /\ enabled \in BOOLEAN
  /\ turns \in 0 .. MaxTurns /\ stirs \in 0 .. MaxStirs

\* However runs overlap, fail and save over each other, asking twice for the
\* same service, time and contact makes a second standing appointment only once
\* one that was asked for in these words has been cancelled.
AskedOnceBookedOnce ==
  \A a, b \in Appointment :
    a # b /\ Standing(a) /\ Standing(b) /\ appointment[a].asked = appointment[b].asked
      => \E c \in Appointment : /\ appointment[c] # None /\ ~Standing(c)
                                /\ appointment[c].asked = appointment[a].asked

\* "They chose 2" is never carried over to another service: an appointment made
\* from a hold is for the service whose time was held.  (For calls that leave
\* the service to the slate, which is how the tools ask to be called.)
HeldForService ==
  \A a \in Appointment :
    appointment[a] # None /\ appointment[a].from # None
      => appointment[a].service = hold[appointment[a].from].service

=============================================================================
