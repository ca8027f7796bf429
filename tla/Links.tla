-------------------------------- MODULE Links --------------------------------
(***************************************************************************)
(* The personal WhatsApp links of one handset.  A workspace scans a QR and *)
(* becomes a companion device of the phone; the phone may have several, in *)
(* one workspace or in two, and each receives every message.  The bridge   *)
(* keeps a socket for each link and reports what happens to it; the API    *)
(* keeps a row for each, folds the older link of a workspace into the one  *)
(* that was just linked, severs the links of other workspaces, and lets    *)
(* only the link that was made last answer.                                *)
(*                                                                         *)
(* A handler reads a copy of its link's row, and each of its later         *)
(* transactions writes every column of that copy.  The handlers of two     *)
(* notifications overlap, in any order: the bridge tries a notification    *)
(* again until the API answers, or gives up.                               *)
(*                                                                         *)
(* Left out: other handsets, which match no number here; the columns that  *)
(* steer nothing (QR, names, errors); messages that are sent by the owner, *)
(* stale or in a thread that is taken over, and redeliveries (see Inbox);  *)
(* the assistant a thread keeps from a campaign, which answers where the   *)
(* link has none.                                                          *)
(***************************************************************************)
EXTENDS Integers, FiniteSets

CONSTANTS
  Link,        \* the rows, numbered in the order of created_at
  Tenant,
  Home,        \* the workspace of each
  Worker,      \* the handlers of the API
  Message,     \* what a contact writes to the handset
  MaxSessions, \* _MAX_SESSIONS_PER_TENANT
  None,
  MaxStirs     \* bound: what happens outside the API

ASSUME ConstantAssumption ==
  /\ IsFiniteSet(Link) /\ Link \subseteq Nat /\ Home \in [ Link -> Tenant ]
  /\ MaxSessions \in Nat \ {0} /\ MaxStirs \in Nat

VARIABLES
  row,      \* the whatsapp_web_sessions table
  ever,     \* the links that were created
  thread,   \* of each owner of threads: the messages stored under it
  socket,   \* the bridge's socket of each link
  creds,    \* the links whose credentials are stored
  notes,    \* the notifications under way: a link, and a kind or a message
  work,     \* what each worker is at
  clock,    \* the last linked_at that was given
  heard,    \* the links each message arrived on
  voices,   \* how many answers each message was given
  stirs,
  calm,     \* the messages since whose arrival no row changed and nothing was lost
  slipped   \* a handler was lost half-way, or an old copy undid what others wrote

bridge == << socket, creds >>
vars == << row, ever, thread, socket, creds, notes, work, clock, heard, voices, stirs, calm,
           slipped >>

Status == { "pending", "awaiting_scan", "linked", "disconnected", "logged_out", "failed" }

\* number: the handset's number is known; bot: an assistant is attached.
Row == [ status : Status, number : BOOLEAN, linked_at : Nat, bot : BOOLEAN ]

ASSUME NoneAssumption == None \notin Link /\ None \notin Message /\ None \notin Row

Fresh == [ status |-> "pending", number |-> FALSE, linked_at |-> 0, bot |-> FALSE ]

Exists == { l \in Link : row[l] # None }

\* todo: the links still to absorb or to sever, with what was read of them;
\* desk: what is done was asked for by a person, and not by an event.
Idle == [ pc |-> "idle", link |-> None, copy |-> None, msg |-> None, todo |-> {}, desk |-> FALSE ]

At(w, pc) == work[w].pc = pc

-----------------------------------------------------------------------------
(* The aggregate: what an event makes of a row. *)

OfferQr(r) == [ r EXCEPT !.status = "awaiting_scan" ]

MarkLinked(r, now) == [ r EXCEPT !.status = "linked", !.number = TRUE, !.linked_at = now ]

MarkDisconnected(r) == [ r EXCEPT !.status = IF r.linked_at > 0 THEN "disconnected" ELSE "failed" ]

MarkLoggedOut(r) == [ r EXCEPT !.status = "logged_out" ]

MarkFailed(r) == [ r EXCEPT !.status = "failed" ]

ObserveTraffic(r) ==
  IF r.status = "disconnected" /\ r.linked_at > 0 THEN [ r EXCEPT !.status = "linked" ] ELSE r

After(r, kind) ==
  CASE kind = "qr" -> OfferQr(r)
    [] kind = "linked" -> MarkLinked(r, clock + 1)
    [] kind = "disconnected" -> MarkDisconnected(r)
    [] kind = "logged_out" -> MarkLoggedOut(r)
    [] kind = "failed" -> MarkFailed(r)

\* The links of a table that a query for the handset's number returns.
Numbered == { l \in Exists : row[l].number }

LinkedToNumber(tenant) == { l \in Numbered : Home[l] = tenant }

LinkedAnywhere == { l \in Numbered : row[l].status = "linked" }

\* FAULT: only the links of the same workspace are asked about.
SpeaksAtHome(l, copy) ==
  copy.number => \A k \in LinkedToNumber(Home[l]) \ {l} :
                   row[k].status = "linked" => row[k].linked_at < copy.linked_at

\* _speaks_for_number, answering_session: the link made last, among those that
\* are linked and the one the message came in on.
Speaks(l, copy) ==
  copy.number => \A k \in LinkedAnywhere \ {l} : row[k].linked_at < copy.linked_at

-----------------------------------------------------------------------------
(* Writing a row. *)

Table(newrow) ==
  /\ row' = newrow
  /\ calm' = IF newrow = row THEN calm ELSE {}

\* A copy that takes the number away again, or says linked of a link that is not.
Undoes(l, copy) ==
  /\ row[l] # None
  /\ \/ row[l].number /\ ~copy.number
     \/ copy.status = "linked" /\ row[l].status # "linked"

\* WhatsAppWebSessionRepositoryImpl.update: every column, of a row that is there.
Update(l, copy) == Table(IF row[l] = None THEN row ELSE [ row EXCEPT ![l] = copy ])

Delete(l) == Table([ row EXCEPT ![l] = None ]) /\ creds' = creds \ {l}

Goes(w, step) == work' = [ work EXCEPT ![w] = step ]

-----------------------------------------------------------------------------
(* The bridge: one socket for each session. *)

Stir == stirs < MaxStirs /\ stirs' = stirs + 1

Notify(l, kind) == notes' = notes \cup { [ link |-> l, kind |-> kind, msg |-> None ] }

\* With stored credentials a socket connects; without, it offers a QR.
Started(l) == [ socket EXCEPT ![l] = IF l \in creds THEN "down" ELSE "pairing" ]

\* stop with keepAuth false.
LoggedOut(l) == [ socket EXCEPT ![l] = "none" ]

\* Only an open connection can tell WhatsApp, and then forgets its credentials.
Forgotten(l) == IF socket[l] = "open" THEN {l} ELSE {}

\* A QR is rendered, or cannot be.
QrOffered(l) ==
  /\ socket[l] = "pairing" /\ Stir
  /\ \E kind \in { "qr", "failed" } : Notify(l, kind)
  /\ UNCHANGED << row, ever, thread, bridge, work, clock, heard, voices, calm, slipped >>

Scanned(l) ==
  /\ socket[l] = "pairing" /\ Stir /\ Notify(l, "linked")
  /\ socket' = [ socket EXCEPT ![l] = "open" ] /\ creds' = creds \cup ({l} \cap Exists)
  /\ UNCHANGED << row, ever, thread, work, clock, heard, voices, calm, slipped >>

\* A connection is closed, times out while it pairs, or cannot be made again.
Dropped(l) ==
  /\ socket[l] # "none" /\ Stir /\ Notify(l, "disconnected")
  /\ socket' = [ socket EXCEPT ![l] = "down" ]
  /\ UNCHANGED << row, ever, thread, creds, work, clock, heard, voices, calm, slipped >>

\* The reconnect timer: whoever reconnects is reported as linked.
Reconnected(l) ==
  /\ socket[l] = "down" /\ Stir
  /\ IF l \in creds
     THEN socket' = [ socket EXCEPT ![l] = "open" ] /\ Notify(l, "linked")
     ELSE socket' = [ socket EXCEPT ![l] = "pairing" ] /\ UNCHANGED notes
  /\ UNCHANGED << row, ever, thread, creds, work, clock, heard, voices, calm, slipped >>

\* The user removes the device on the phone.
Revoked(l) ==
  /\ socket[l] \in { "open", "down" } /\ Stir /\ Notify(l, "logged_out")
  /\ socket' = [ socket EXCEPT ![l] = "none" ] /\ creds' = creds \ {l}
  /\ UNCHANGED << row, ever, thread, work, clock, heard, voices, calm, slipped >>

\* The bridge restarts, and restores what the rows say was linked.
Restarted ==
  /\ Stir
  /\ socket' = [ l \in Link |->
       IF l \in Exists /\ row[l].status \in { "linked", "disconnected" } /\ row[l].linked_at > 0
       THEN Started(l)[l] ELSE "none" ]
  /\ UNCHANGED << row, ever, thread, creds, notes, work, clock, heard, voices, calm, slipped >>

\* A contact writes to the handset; every open link receives it.
Received(m) ==
  /\ heard[m] = {} /\ Stir
  /\ LET open == { l \in Link : socket[l] = "open" }
     IN /\ open # {}
        /\ heard' = [ heard EXCEPT ![m] = open ]
        /\ notes' = notes \cup { [ link |-> l, kind |-> "message", msg |-> m ] : l \in open }
        /\ calm' = IF open \subseteq LinkedAnywhere THEN calm \cup {m} ELSE calm
  /\ UNCHANGED << row, ever, thread, bridge, work, clock, voices, slipped >>

\* The API answers none of the attempts.
GivenUp(n) ==
  /\ n \in notes /\ Stir
  /\ notes' = notes \ {n} /\ calm' = calm \ { n.msg }
  /\ UNCHANGED << row, ever, thread, bridge, work, clock, heard, voices, slipped >>

-----------------------------------------------------------------------------
(* bridge_events. *)

\* A session without a row is stopped.
UnknownSession(w, n) ==
  /\ At(w, "idle") /\ n \in notes /\ row[n.link] = None
  /\ notes' = notes \ {n} /\ socket' = LoggedOut(n.link)
  /\ calm' = calm \ { n.msg }
  /\ UNCHANGED << row, ever, thread, creds, work, clock, heard, voices, stirs, slipped >>

Inbound(w, n) ==
  /\ At(w, "idle") /\ n \in notes /\ n.kind = "message" /\ row[n.link] # None
  /\ notes' = notes \ {n}
  /\ Goes(w, [ Idle EXCEPT !.pc = "store", !.link = n.link, !.msg = n.msg,
                           !.copy = ObserveTraffic(row[n.link]) ])
  /\ UNCHANGED << row, ever, thread, bridge, clock, heard, voices, stirs, calm, slipped >>

Event(w, n) ==
  /\ At(w, "idle") /\ n \in notes /\ n.kind # "message" /\ row[n.link] # None
  /\ notes' = notes \ {n}
  /\ clock' = IF n.kind = "linked" THEN clock + 1 ELSE clock
  /\ Goes(w, [ Idle EXCEPT !.pc = IF n.kind = "linked" THEN "mark" ELSE "write",
                           !.link = n.link, !.copy = After(row[n.link], n.kind) ])
  /\ UNCHANGED << row, ever, thread, bridge, heard, voices, stirs, calm, slipped >>

\* Store first, decide second.
Store(w) ==
  LET s == work[w]
  IN /\ At(w, "store")
     /\ Update(s.link, s.copy) /\ slipped' = (slipped \/ Undoes(s.link, s.copy))
     /\ thread' = [ thread EXCEPT ![s.link] = @ \cup { s.msg } ]
     /\ Goes(w, [ s EXCEPT !.pc = "decide" ])
     /\ UNCHANGED << ever, bridge, notes, clock, heard, voices, stirs >>

Decide(w) ==
  LET s == work[w]
  IN /\ At(w, "decide")
     /\ voices' = [ voices EXCEPT ![s.msg] = @ + IF s.copy.bot /\ Speaks(s.link, s.copy)
                                                 THEN 1 ELSE 0 ]
     /\ Goes(w, Idle)
     /\ UNCHANGED << row, ever, thread, bridge, notes, clock, heard, stirs, calm, slipped >>

\* Written before the twins are looked for, so that they can find it too.
Mark(w) ==
  LET s == work[w]
  IN /\ At(w, "mark") /\ Update(s.link, s.copy)
     /\ Goes(w, [ s EXCEPT !.pc = "list" ])
     /\ UNCHANGED << ever, thread, bridge, notes, clock, heard, voices, stirs, slipped >>

\* FAULT: only twins that are connected are absorbed.
TwinsLinked(l) == (LinkedToNumber(Home[l]) \cap LinkedAnywhere) \ {l}

\* FAULT: the twins are looked for in every workspace.
TwinsAnywhere(l) == Numbered \ {l}

Twins(l) == LinkedToNumber(Home[l]) \ {l}

ListTwins(w) ==
  LET s == work[w]
  IN /\ At(w, "list")
     /\ Goes(w, [ s EXCEPT !.pc = "absorb",
                           !.todo = { [ link |-> k, bot |-> row[k].bot ] : k \in Twins(s.link) } ])
     /\ UNCHANGED << row, ever, thread, bridge, notes, clock, heard, voices, stirs, calm, slipped >>

\* The twins are taken newest first.
Newest(todo) == { t \in todo : \A u \in todo : u.link <= t.link }

\* reassign_owner.
Reassigned(from, to) ==
  [ thread EXCEPT ![to] = @ \cup thread[from], ![from] = {} ]

\* _absorb_session: the threads and, where the keeper has none, the assistant move.
Absorb(w) ==
  LET s == work[w]
  IN /\ At(w, "absorb")
     /\ \E stale \in Newest(s.todo) :
          LET carries == stale.bot /\ ~s.copy.bot
              keeper == IF carries THEN [ s.copy EXCEPT !.bot = TRUE ] ELSE s.copy
          IN /\ thread' = Reassigned(stale.link, s.link)
             /\ IF carries THEN Update(s.link, keeper) ELSE UNCHANGED << row, calm >>
             /\ slipped' = (slipped \/ (carries /\ Undoes(s.link, keeper)))
             /\ Goes(w, [ s EXCEPT !.pc = "retire", !.copy = keeper ])
     /\ UNCHANGED << ever, bridge, notes, clock, heard, voices, stirs >>

\* The bridge logs the link out, or cannot be reached.
LogOut(w, from, to) ==
  LET s == work[w]
  IN /\ At(w, from)
     /\ \E other \in Newest(s.todo), reached \in BOOLEAN :
          IF reached
          THEN socket' = LoggedOut(other.link) /\ creds' = creds \ Forgotten(other.link)
          ELSE UNCHANGED bridge
     /\ Goes(w, [ s EXCEPT !.pc = to ])
     /\ UNCHANGED << row, ever, thread, notes, clock, heard, voices, stirs, calm, slipped >>

Remove(w, from, to) ==
  LET s == work[w]
  IN /\ At(w, from)
     /\ \E other \in Newest(s.todo) :
          Delete(other.link) /\ Goes(w, [ s EXCEPT !.pc = to, !.todo = @ \ {other} ])
     /\ UNCHANGED << ever, thread, socket, notes, clock, heard, voices, stirs, slipped >>

Retire(w) == LogOut(w, "retire", "remove") \/ Remove(w, "remove", "absorb")

\* Links of other workspaces that are connected to the handset.
Collisions(l) == { k \in LinkedAnywhere : Home[k] # Home[l] }

ListCollisions(w) ==
  LET s == work[w]
  IN /\ At(w, "absorb") /\ s.todo = {} /\ ~s.desk
     /\ Goes(w, [ s EXCEPT !.pc = "sever",
                    !.todo = { [ link |-> k, bot |-> FALSE ] : k \in Collisions(s.link) } ])
     /\ UNCHANGED << row, ever, thread, bridge, notes, clock, heard, voices, stirs, calm, slipped >>

\* _sever_cross_tenant_collisions.
Sever(w) == LogOut(w, "sever", "drop") \/ Remove(w, "drop", "sever")

\* The last write of every event but a message.
Write(w) ==
  LET s == work[w]
  IN /\ At(w, "write") \/ (At(w, "sever") /\ s.todo = {})
     /\ Update(s.link, s.copy) /\ slipped' = (slipped \/ Undoes(s.link, s.copy))
     /\ Goes(w, Idle)
     /\ UNCHANGED << ever, thread, bridge, notes, clock, heard, voices, stirs >>

-----------------------------------------------------------------------------
(* The desk. *)

\* create_session: the bridge starts pairing, or does not answer.
Create(l) ==
  /\ l \notin ever /\ \A k \in Link \ ever : Home[k] = Home[l] => l <= k
  /\ Cardinality({ k \in Exists : Home[k] = Home[l] }) < MaxSessions /\ Stir
  /\ ever' = ever \cup {l}
  /\ \E ok \in BOOLEAN :
       /\ Table([ row EXCEPT ![l] = IF ok THEN Fresh ELSE MarkFailed(Fresh) ])
       /\ socket' = IF ok THEN Started(l) ELSE socket
  /\ UNCHANGED << thread, creds, notes, work, clock, heard, voices, slipped >>

\* refresh_qr.
Refresh(l) ==
  /\ l \in Exists /\ row[l].status # "linked" /\ Stir
  /\ socket' = Started(l)
  /\ UNCHANGED << row, ever, thread, creds, notes, work, clock, heard, voices, calm, slipped >>

\* attach_assistant, or detach: one transaction, which writes this column only.
Attach(l, bot) ==
  /\ l \in Exists /\ row[l].bot # bot /\ Stir
  /\ Table([ row EXCEPT ![l].bot = bot ])
  /\ UNCHANGED << ever, thread, bridge, notes, work, clock, heard, voices, slipped >>

\* unlink: logged out, then deleted.
Unlink(w, l) ==
  /\ At(w, "idle") /\ l \in Exists /\ Stir
  /\ Goes(w, [ Idle EXCEPT !.pc = "retire", !.desk = TRUE,
                           !.todo = { [ link |-> l, bot |-> FALSE ] } ])
  /\ UNCHANGED << row, ever, thread, bridge, notes, clock, heard, voices, calm, slipped >>

\* merge_duplicate_numbers: the newest row of the number absorbs the others.
MergeDuplicates(w, tenant) ==
  LET group == LinkedToNumber(tenant)
  IN /\ At(w, "idle") /\ Cardinality(group) > 1 /\ Stir
     /\ \E keeper \in group :
          /\ \A k \in group : k <= keeper
          /\ Goes(w, [ Idle EXCEPT !.pc = "absorb", !.link = keeper, !.copy = row[keeper],
                         !.desk = TRUE,
                         !.todo = { [ link |-> k, bot |-> row[k].bot ] : k \in group \ {keeper} } ])
     /\ UNCHANGED << row, ever, thread, bridge, notes, clock, heard, voices, calm, slipped >>

Finish(w) ==
  /\ At(w, "absorb") /\ work[w].todo = {} /\ work[w].desk
  /\ Goes(w, Idle)
  /\ UNCHANGED << row, ever, thread, bridge, notes, clock, heard, voices, stirs, calm, slipped >>

\* The API goes down with all it was at.
Crash ==
  /\ \E w \in Worker : ~At(w, "idle")
  /\ Stir
  /\ work' = [ w \in Worker |-> Idle ] /\ slipped' = TRUE /\ calm' = {}
  /\ UNCHANGED << row, ever, thread, bridge, notes, clock, heard, voices >>

-----------------------------------------------------------------------------
\* Some links are waiting for their QR to be scanned, others are connected and
\* have an assistant: in any number, as those from before the reconciliation may be.
Init ==
  \E waiting, linked \in SUBSET Link :
    /\ waiting \cap linked = {} /\ ever = waiting \cup linked
    /\ \A l \in ever, k \in Link : Home[k] = Home[l] /\ k < l => k \in ever
    /\ row = [ l \in Link |->
         IF l \in waiting THEN Fresh
         ELSE IF l \notin linked THEN None
         ELSE [ MarkLinked(Fresh, Cardinality({ k \in linked : k <= l })) EXCEPT !.bot = TRUE ] ]
    /\ socket = [ l \in Link |->
         IF l \in waiting THEN "pairing" ELSE IF l \in linked THEN "open" ELSE "none" ]
    /\ creds = linked /\ clock = Cardinality(linked) /\ slipped = (Cardinality(linked) > 1)
    /\ thread = [ l \in Link |-> {} ] /\ notes = {}
    /\ work = [ w \in Worker |-> Idle ]
    /\ stirs = 0 /\ calm = {}
    /\ heard = [ m \in Message |-> {} ] /\ voices = [ m \in Message |-> 0 ]

Bridge ==
  \/ \E l \in Link : \/ QrOffered(l) \/ Scanned(l) \/ Dropped(l) \/ Reconnected(l) \/ Revoked(l)
  \/ \E m \in Message : Received(m)
  \/ \E n \in notes : GivenUp(n)
  \/ Restarted

Handler(w) ==
  \/ \E n \in notes : UnknownSession(w, n) \/ Inbound(w, n) \/ Event(w, n)
  \/ Store(w) \/ Decide(w)
  \/ Mark(w) \/ ListTwins(w) \/ Absorb(w) \/ Retire(w)
  \/ ListCollisions(w) \/ Sever(w) \/ Write(w) \/ Finish(w)

Operator ==
  \/ \E l \in Link : Create(l) \/ Refresh(l) \/ \E bot \in BOOLEAN : Attach(l, bot)
  \/ \E w \in Worker, l \in Link : Unlink(w, l)
  \/ \E w \in Worker, tenant \in Tenant : MergeDuplicates(w, tenant)

Next == Bridge \/ (\E w \in Worker : Handler(w)) \/ Operator \/ Crash

Spec == Init /\ [][Next]_vars

-----------------------------------------------------------------------------
TypeOK ==
  /\ row \in [ Link -> Row \cup { None } ] /\ clock \in Nat
  /\ creds \subseteq Exists /\ Exists \subseteq ever /\ ever \subseteq Link
  /\ \A l \in Exists : row[l].number => row[l].linked_at > 0
  /\ thread \in [ Link -> SUBSET Message ] /\ heard \in [ Message -> SUBSET Link ]
  /\ socket \in [ Link -> { "none", "pairing", "open", "down" } ]
  /\ \A n \in notes : n.link \in ever
  /\ \A w \in Worker :
       /\ \A t \in work[w].todo : t.link \in ever
       /\ work[w].link # None => work[w].link \in ever /\ work[w].copy \in Row

\* Folding twins together and severing collisions never carries a message out
\* of its workspace: what is stored under a link arrived on a link of its own
\* workspace.
TenantsApart ==
  \A l \in Link : \A m \in thread[l] : \E k \in heard[m] : Home[k] = Home[l]

\* Nobody is in the middle of a link or of a merge.
Quiet == \A w \in Worker : work[w].pc \in { "idle", "store", "decide", "write" }

\* However the links of a handset are made, dropped and made again, and however
\* their handlers overlap: once these are done, a workspace has one row for the
\* number, and no two workspaces are connected to it - unless a handler was lost
\* half-way or an old copy undid what another had written.
Reconciled ==
  Quiet /\ ~slipped =>
    /\ \A l, k \in Numbered : Home[l] = Home[k] => l = k
    /\ \A l, k \in LinkedAnywhere : l = k

\* A message that arrived on links the rows say are connected, and while no row
\* has changed since, is answered at most once; and when all its handlers are
\* done it was answered, if the link made last received it and has an assistant.
OneVoice ==
  \A m \in calm :
    /\ voices[m] <= 1
    /\ (\A n \in notes : n.msg # m) /\ (\A w \in Worker : work[w].msg # m) =>
         \A l \in heard[m] :
           row[l].bot /\ (\A k \in LinkedAnywhere : row[k].linked_at <= row[l].linked_at)
             => voices[m] = 1

==============================================================================
