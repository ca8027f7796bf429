----------------------------- MODULE LinksProofs -----------------------------
(***************************************************************************)
(* Proofs about Links: types; that what a workspace was sent stays in it,  *)
(* however its links are folded together, severed and removed; that what   *)
(* is left of the links of a handset is one row of a workspace and one     *)
(* connection; and that of the links a message arrived on one answers.     *)
(***************************************************************************)
EXTENDS Links, FiniteSetTheorems, TLAPS

USE ConstantAssumption, NoneAssumption

\* A row, or a copy of one: a number is known of links that were made only.
Good(r) == r \in Row /\ (r.number => r.linked_at > 0)

Rows ==
  /\ row \in [ Link -> Row \cup { None } ] /\ \A l \in Exists : Good(row[l])
  /\ creds \subseteq Exists /\ Exists \subseteq ever /\ ever \subseteq Link

Tables ==
  /\ clock \in Nat
  /\ thread \in [ Link -> SUBSET Message ] /\ heard \in [ Message -> SUBSET Link ]

\* There is a socket for links that were created only.
Sockets ==
  /\ socket \in [ Link -> { "none", "pairing", "open", "down" } ]
  /\ \A l \in Link : socket[l] # "none" => l \in ever

Twin == [ link : Link, bot : BOOLEAN ]

Pc ==
  { "idle", "store", "decide", "mark", "list", "absorb", "retire", "remove", "sever", "drop",
    "write" }

Step ==
  [ pc : Pc, link : Link \cup { None }, copy : Row \cup { None },
    msg : Message \cup { None }, todo : SUBSET Twin, desk : BOOLEAN ]

\* All that is left to fold in is of the keeper's workspace.
AtHome(s) == s.link # None /\ \A t \in s.todo : Home[t.link] = Home[s.link]

\* What a handler knows at each step.
Fine(s) ==
  /\ s \in Step
  /\ \A t \in s.todo : t.link \in ever
  /\ s.link # None => s.link \in ever /\ Good(s.copy)
  /\ s.pc \in { "store", "decide", "mark", "list", "write", "sever", "drop" } => s.link # None
  /\ s.pc \in { "store", "decide" } => s.msg \in Message /\ s.link \in heard[s.msg]
  /\ s.pc = "absorb" => AtHome(s) \/ (s.todo = {} /\ s.desk)
  /\ s.pc \in { "retire", "remove" } => AtHome(s) \/ (s.desk /\ \E t \in Twin : s.todo = {t})

Works == work \in [ Worker -> Step ] /\ \A w \in Worker : Fine(work[w])

\* What the bridge reports.
Kinds == { "qr", "linked", "disconnected", "logged_out", "failed" }

Noted(n) ==
  /\ n.link \in ever
  /\ n.kind = "message" => n.msg \in Message /\ n.link \in heard[n.msg]

Notes ==
  /\ notes \subseteq [ link : Link, kind : Kinds \cup { "message" }, msg : Message \cup { None } ]
  /\ \A n \in notes : Noted(n)

IInv == Rows /\ Tables /\ Sockets /\ Works /\ Notes /\ TenantsApart

-----------------------------------------------------------------------------
(* The operations on a row. *)

\* A copy that differs in its status, or says when it was linked.
LEMMA StatusGood ==
  ASSUME NEW r, Good(r), NEW st \in Status
  PROVE  Good([ r EXCEPT !.status = st ])
<1>1. r \in [ status : Status, number : BOOLEAN, linked_at : Nat, bot : BOOLEAN ]
  BY DEF Good, Row
<1> DEFINE q == [ r EXCEPT !.status = st ]
<1>2. q \in Row
  BY <1>1 DEF Row
<1>3. q.number = r.number /\ q.linked_at = r.linked_at
  BY <1>1
<1> QED
  BY <1>2, <1>3 DEF Good

LEMMA LinkedGood ==
  ASSUME NEW r, Good(r), NEW now \in Nat, now > 0
  PROVE  Good(MarkLinked(r, now))
<1>1. r \in [ status : Status, number : BOOLEAN, linked_at : Nat, bot : BOOLEAN ]
  BY DEF Good, Row
<1> DEFINE q == [ r EXCEPT !.status = "linked", !.number = TRUE, !.linked_at = now ]
<1>2. q \in Row
  BY <1>1 DEF Row, Status
<1>3. q.linked_at = now
  BY <1>1
<1> QED
  BY <1>2, <1>3 DEF Good, MarkLinked

LEMMA BotGood ==
  ASSUME NEW r, Good(r), NEW bot \in BOOLEAN
  PROVE  Good([ r EXCEPT !.bot = bot ])
<1>1. r \in [ status : Status, number : BOOLEAN, linked_at : Nat, bot : BOOLEAN ]
  BY DEF Good, Row
<1> DEFINE q == [ r EXCEPT !.bot = bot ]
<1>2. q \in Row
  BY <1>1 DEF Row
<1>3. q.number = r.number /\ q.linked_at = r.linked_at
  BY <1>1
<1> QED
  BY <1>2, <1>3 DEF Good

LEMMA AfterGood ==
  ASSUME NEW r, Good(r), clock \in Nat, NEW kind \in Kinds
  PROVE  Good(After(r, kind))
<1>0. clock + 1 \in Nat /\ clock + 1 > 0
  OBVIOUS
<1>1. CASE kind = "qr"
  <2>1. After(r, kind) = [ r EXCEPT !.status = "awaiting_scan" ]
    BY <1>1 DEF After, OfferQr
  <2> QED
    BY <2>1, StatusGood DEF Status
<1>2. CASE kind = "linked"
  <2>1. After(r, kind) = MarkLinked(r, clock + 1)
    BY <1>2 DEF After
  <2> QED
    BY <1>0, <2>1, LinkedGood
<1>3. CASE kind = "disconnected"
  <2> DEFINE st == IF r.linked_at > 0 THEN "disconnected" ELSE "failed"
  <2>1. After(r, kind) = [ r EXCEPT !.status = st ]
    BY <1>3 DEF After, MarkDisconnected
  <2>2. st \in Status
    BY DEF Status
  <2> HIDE DEF st
  <2> QED
    BY <2>1, <2>2, StatusGood
<1>4. CASE kind = "logged_out"
  <2>1. After(r, kind) = [ r EXCEPT !.status = "logged_out" ]
    BY <1>4 DEF After, MarkLoggedOut
  <2> QED
    BY <2>1, StatusGood DEF Status
<1>5. CASE kind = "failed"
  <2>1. After(r, kind) = [ r EXCEPT !.status = "failed" ]
    BY <1>5 DEF After, MarkFailed
  <2> QED
    BY <2>1, StatusGood DEF Status
<1> QED
  BY <1>1, <1>2, <1>3, <1>4, <1>5 DEF Kinds

LEMMA ObservedGood ==
  ASSUME NEW r, Good(r)
  PROVE  Good(ObserveTraffic(r))
BY StatusGood DEF ObserveTraffic, Status

LEMMA UpdateRows ==
  ASSUME Rows, NEW l \in Link, NEW r, Good(r), Update(l, r), UNCHANGED << creds, ever >>
  PROVE  Rows'
<1>1. r \in Row /\ r # None
  BY DEF Good
<1>2. CASE row[l] = None
  BY <1>2 DEF Rows, Update, Table, Exists, Good
<1>3. CASE row[l] # None
  <2>1. row' = [ row EXCEPT ![l] = r ]
    BY <1>3 DEF Update, Table
  <2>2. row' \in [ Link -> Row \cup { None } ]
    BY <1>1, <2>1 DEF Rows
  <2>3. Exists' = Exists
    BY <1>1, <1>3, <2>1 DEF Rows, Exists
  <2>4. \A k \in Exists' : Good(row[k])'
    BY <2>1, <2>3 DEF Rows, Exists, Good
  <2> QED
    BY <2>2, <2>3, <2>4 DEF Rows
<1> QED
  BY <1>2, <1>3

LEMMA DeleteRows ==
  ASSUME Rows, NEW l \in Link, Delete(l), UNCHANGED ever
  PROVE  Rows'
<1>1. row' = [ row EXCEPT ![l] = None ] /\ creds' = creds \ {l}
  BY DEF Delete, Table
<1>2. Exists' = Exists \ {l}
  BY <1>1 DEF Rows, Exists
<1>3. \A k \in Exists' : Good(row[k])'
  BY <1>1, <1>2 DEF Rows, Exists, Good
<1> QED
  BY <1>1, <1>2, <1>3 DEF Rows

\* Nothing a handler knows is forgotten.
LEMMA FineStays ==
  ASSUME NEW s, Fine(s), ever \subseteq ever', Tables,
         \A m \in Message : heard[m] \subseteq heard'[m]
  PROVE  Fine(s)'
BY DEF Fine, AtHome, Good, Tables

LEMMA WorksStay ==
  ASSUME Works, Tables, ever \subseteq ever', UNCHANGED work,
         \A m \in Message : heard[m] \subseteq heard'[m]
  PROVE  Works'
BY FineStays DEF Works

LEMMA WorksGo ==
  ASSUME Works, Tables, UNCHANGED << ever, heard >>, NEW w \in Worker, NEW s, Fine(s), Goes(w, s)
  PROVE  Works'
<1>1. work' = [ work EXCEPT ![w] = s ]
  BY DEF Goes
<1>2. s \in Step
  BY DEF Fine
<1>3. work' \in [ Worker -> Step ]
  BY <1>1, <1>2 DEF Works
<1>4. ASSUME NEW v \in Worker PROVE Fine(work[v])'
  <2>1. Fine(work'[v])
    BY <1>1, <1>3 DEF Works
  <2> QED
    BY <2>1 DEF Fine, AtHome, Good
<1> QED
  BY <1>3, <1>4 DEF Works

LEMMA NotesStay ==
  ASSUME Notes, Tables, ever \subseteq ever', notes' \subseteq notes,
         \A m \in Message : heard[m] \subseteq heard'[m]
  PROVE  Notes'
<1>1. ASSUME NEW n \in notes' PROVE Noted(n)'
  <2>1. Noted(n) /\ (n.kind = "message" => n.msg \in Message)
    BY DEF Notes, Noted
  <2> QED
    BY <2>1 DEF Noted
<1> QED
  BY <1>1 DEF Notes

LEMMA IdleFine == Fine(Idle) /\ Idle.msg = None
<1>1. Idle \in Step
  BY DEF Idle, Step, Pc
<1>2. Idle.pc = "idle" /\ Idle.link = None /\ Idle.todo = {} /\ Idle.msg = None
  BY DEF Idle
<1> QED
  BY <1>1, <1>2 DEF Fine

LEMMA ApartStays ==
  ASSUME TenantsApart, Tables, UNCHANGED thread,
         \A m \in Message : heard[m] \subseteq heard'[m]
  PROVE  TenantsApart'
BY DEF TenantsApart, Tables

-----------------------------------------------------------------------------
(* The bridge. *)

\* A step that touches sockets, credentials and notifications only.
LEMMA BridgeStep ==
  ASSUME IInv, UNCHANGED << row, ever, thread, heard, work, clock >>,
         creds' \subseteq Exists, Sockets', Notes'
  PROVE  IInv'
<1>1. Rows'
  BY DEF IInv, Rows, Exists, Good
<1>2. Tables' /\ TenantsApart'
  BY DEF IInv, Tables, TenantsApart
<1>3. Works'
  BY WorksStay DEF IInv, Tables
<1> QED
  BY <1>1, <1>2, <1>3 DEF IInv

\* The notifications stay, but for some.
LEMMA NotesGone ==
  ASSUME Notes, UNCHANGED << ever, heard >>, notes' \subseteq notes
  PROVE  Notes'
BY DEF Notes, Noted

\* An event of a link that was created is reported.
LEMMA NotesGrow ==
  ASSUME Notes, UNCHANGED << ever, heard >>, NEW l \in ever, l \in Link,
         NEW kind \in Kinds, Notify(l, kind)
  PROVE  Notes'
<1> DEFINE n == [ link |-> l, kind |-> kind, msg |-> None ]
<1>1. n \in [ link : Link, kind : Kinds \cup { "message" }, msg : Message \cup { None } ]
  OBVIOUS
<1>2. n.link \in ever /\ n.kind # "message"
  BY DEF Kinds
<1>3. Noted(n)
  BY <1>2 DEF Noted
<1>4. notes' = notes \cup {n}
  BY DEF Notify
<1> HIDE DEF n
<1>5. \A o \in notes' : Noted(o)
  BY <1>3, <1>4 DEF Notes
<1> QED
  BY <1>1, <1>4, <1>5 DEF Notes, Noted

LEMMA SocketSet ==
  ASSUME Sockets, UNCHANGED ever, NEW l \in Link, NEW st \in { "none", "pairing", "open", "down" },
         st # "none" => l \in ever, socket' = [ socket EXCEPT ![l] = st ]
  PROVE  Sockets'
BY DEF Sockets

\* A socket that is started, of a link that was created by now.
LEMMA StartedSockets ==
  ASSUME Sockets, NEW l \in Link, ever \subseteq ever', l \in ever', socket' = Started(l)
  PROVE  Sockets'
<1> DEFINE st == IF l \in creds THEN "down" ELSE "pairing"
<1>1. st \in { "none", "pairing", "open", "down" }
  OBVIOUS
<1>2. socket' = [ socket EXCEPT ![l] = st ]
  BY DEF Started
<1> HIDE DEF st
<1> QED
  BY <1>1, <1>2 DEF Sockets

LEMMA BridgeKeeps ==
  ASSUME IInv, NEW l \in Link,
         QrOffered(l) \/ Scanned(l) \/ Dropped(l) \/ Reconnected(l) \/ Revoked(l)
  PROVE  IInv'
<1> USE DEF Kinds
<1>0. creds \subseteq Exists /\ Sockets /\ Notes
  BY DEF IInv, Rows
<1>1. CASE QrOffered(l)
  <2>1. l \in ever
    BY <1>0, <1>1 DEF QrOffered, Sockets
  <2>2. PICK kind \in { "qr", "failed" } : Notify(l, kind)
    BY <1>1 DEF QrOffered
  <2>3. Notes'
    BY <1>0, <1>1, <2>1, <2>2, NotesGrow DEF QrOffered
  <2>4. Sockets' /\ creds' = creds
    BY <1>0, <1>1 DEF QrOffered, bridge, Sockets
  <2> QED
    BY <1>0, <1>1, <2>3, <2>4, BridgeStep DEF QrOffered
<1>2. CASE Scanned(l)
  <2>1. l \in ever
    BY <1>0, <1>2 DEF Scanned, Sockets
  <2>2. Notes'
    BY <1>0, <1>2, <2>1, NotesGrow DEF Scanned
  <2>3. Sockets'
    BY <1>0, <1>2, <2>1, SocketSet DEF Scanned
  <2>4. creds' \subseteq Exists
    BY <1>0, <1>2 DEF Scanned
  <2> QED
    BY <1>2, <2>2, <2>3, <2>4, BridgeStep DEF Scanned
<1>3. CASE Dropped(l)
  <2>1. l \in ever
    BY <1>0, <1>3 DEF Dropped, Sockets
  <2>2. Notes'
    BY <1>0, <1>3, <2>1, NotesGrow DEF Dropped
  <2>3. Sockets'
    BY <1>0, <1>3, <2>1, SocketSet DEF Dropped
  <2> QED
    BY <1>0, <1>3, <2>2, <2>3, BridgeStep DEF Dropped
<1>4. CASE Reconnected(l)
  <2>1. l \in ever
    BY <1>0, <1>4 DEF Reconnected, Sockets
  <2>2. Notes'
    BY <1>0, <1>4, <2>1, NotesGrow, NotesGone DEF Reconnected
  <2>3. Sockets'
    BY <1>0, <1>4, <2>1, SocketSet DEF Reconnected
  <2> QED
    BY <1>0, <1>4, <2>2, <2>3, BridgeStep DEF Reconnected
<1>5. CASE Revoked(l)
  <2>1. l \in ever
    BY <1>0, <1>5 DEF Revoked, Sockets
  <2>2. Notes'
    BY <1>0, <1>5, <2>1, NotesGrow DEF Revoked
  <2>3. Sockets'
    BY <1>0, <1>5, <2>1, SocketSet DEF Revoked
  <2>4. creds' \subseteq Exists
    BY <1>0, <1>5 DEF Revoked
  <2> QED
    BY <1>5, <2>2, <2>3, <2>4, BridgeStep DEF Revoked
<1> QED
  BY <1>1, <1>2, <1>3, <1>4, <1>5

LEMMA RestartedKeeps ==
  ASSUME IInv, Restarted
  PROVE  IInv'
<1>0. creds \subseteq Exists /\ Exists \subseteq ever /\ Sockets /\ Notes
  BY DEF IInv, Rows
<1>1. \A l \in Link : Started(l)[l] \in { "down", "pairing" }
  BY <1>0 DEF Started, Sockets
<1>2. Sockets'
  BY <1>0, <1>1 DEF Restarted, Sockets
<1>3. Notes'
  BY <1>0, NotesGone DEF Restarted
<1> QED
  BY <1>0, <1>2, <1>3, BridgeStep DEF Restarted

LEMMA GivenUpKeeps ==
  ASSUME IInv, NEW n, GivenUp(n)
  PROVE  IInv'
<1>1. Notes'
  BY NotesGone DEF IInv, GivenUp
<1>2. Sockets' /\ creds' \subseteq Exists
  BY DEF IInv, Sockets, Rows, GivenUp, bridge
<1> QED
  BY <1>1, <1>2, BridgeStep DEF GivenUp

LEMMA UnknownSessionKeeps ==
  ASSUME IInv, NEW w \in Worker, NEW n, UnknownSession(w, n)
  PROVE  IInv'
<1>1. n.link \in Link
  BY DEF IInv, Notes, UnknownSession
<1>2. Notes'
  BY NotesGone DEF IInv, UnknownSession
<1>3. Sockets'
  BY <1>1, SocketSet DEF IInv, UnknownSession, LoggedOut
<1>4. creds' \subseteq Exists
  BY DEF IInv, Rows, UnknownSession
<1> QED
  BY <1>2, <1>3, <1>4, BridgeStep DEF UnknownSession

LEMMA RefreshKeeps ==
  ASSUME IInv, NEW l \in Link, Refresh(l)
  PROVE  IInv'
<1>0. l \in ever
  BY DEF IInv, Rows, Refresh
<1>1. Sockets'
  BY <1>0, StartedSockets DEF IInv, Refresh
<1>2. Notes' /\ creds' \subseteq Exists
  BY NotesGone DEF IInv, Rows, Refresh
<1> QED
  BY <1>1, <1>2, BridgeStep DEF Refresh

\* A message reaches links that are open.
LEMMA ReceivedKeeps ==
  ASSUME IInv, NEW m \in Message, Received(m)
  PROVE  IInv'
<1> DEFINE open == { l \in Link : socket[l] = "open" }
           heads == { [ link |-> l, kind |-> "message", msg |-> m ] : l \in open }
<1>1. heard' = [ heard EXCEPT ![m] = open ] /\ notes' = notes \cup heads /\ heard[m] = {}
  BY DEF Received
<1>2. UNCHANGED << row, ever, thread, socket, creds, work, clock >>
  BY DEF Received, bridge
<1>3. open \subseteq ever /\ open \subseteq Link
  BY DEF IInv, Sockets
<1>4. \A n \in heads : n.link \in open /\ n.kind = "message" /\ n.msg = m
  OBVIOUS
<1>5. heads \subseteq [ link : Link, kind : Kinds \cup { "message" }, msg : Message \cup { None } ]
  BY <1>3
<1> HIDE DEF open, heads
<1>6. heard' \in [ Message -> SUBSET Link ] /\ heard'[m] = open
  BY <1>1, <1>3 DEF IInv, Tables
<1>7. \A k \in Message : heard[k] \subseteq heard'[k]
  BY <1>1 DEF IInv, Tables
<1>8. Rows' /\ Sockets'
  BY <1>2 DEF IInv, Rows, Sockets, Exists, Good
<1>9. Tables'
  BY <1>2, <1>6 DEF IInv, Tables
<1>10. Works'
  BY <1>2, <1>7, WorksStay DEF IInv
<1>11. TenantsApart'
  BY <1>2, <1>7, ApartStays DEF IInv
<1>12. ASSUME NEW n \in notes' PROVE Noted(n)'
  <2>1. CASE n \in heads
    BY <1>2, <1>3, <1>4, <1>6, <2>1 DEF Noted
  <2>2. CASE n \in notes
    <3>1. Noted(n)
      BY <2>2 DEF IInv, Notes
    <3> QED
      BY <1>2, <1>7, <3>1 DEF Noted
  <2> QED
    BY <1>1, <2>1, <2>2
<1>13. Notes'
  BY <1>1, <1>5, <1>12 DEF IInv, Notes
<1> QED
  BY <1>8, <1>9, <1>10, <1>11, <1>13 DEF IInv

-----------------------------------------------------------------------------
(* The handlers. *)

\* A step of a handler that changes, beyond its own state, rows and sockets only.
LEMMA HandlerStep ==
  ASSUME IInv, NEW w \in Worker, NEW s, Fine(s), Goes(w, s),
         UNCHANGED << ever, heard, thread >>, clock' \in Nat, notes' \subseteq notes,
         Rows', Sockets'
  PROVE  IInv'
<1>1. Tables' /\ TenantsApart'
  BY DEF IInv, Tables, TenantsApart
<1>2. Works'
  BY WorksGo DEF IInv
<1>3. Notes'
  BY NotesGone DEF IInv
<1> QED
  BY <1>1, <1>2, <1>3 DEF IInv

LEMMA RowsStay ==
  ASSUME IInv, UNCHANGED << row, ever, creds >>
  PROVE  Rows'
BY DEF IInv, Rows, Exists, Good

LEMMA SocketsStay ==
  ASSUME IInv, UNCHANGED << socket, ever >>
  PROVE  Sockets'
BY DEF IInv, Sockets

LEMMA InboundKeeps ==
  ASSUME IInv, NEW w \in Worker, NEW n, Inbound(w, n)
  PROVE  IInv'
<1> DEFINE c == ObserveTraffic(row[n.link])
           s == [ Idle EXCEPT !.pc = "store", !.link = n.link, !.msg = n.msg, !.copy = c ]
<1>1. n.link \in Link /\ n.link \in ever /\ n.msg \in Message /\ n.link \in heard[n.msg]
  BY DEF IInv, Notes, Noted, Inbound
<1>2. Good(c)
  BY <1>1, ObservedGood DEF IInv, Rows, Exists, Inbound
<1>3. Goes(w, s)
  BY DEF Inbound
<1> HIDE DEF c
<1>4. /\ s.pc = "store" /\ s.link = n.link /\ s.msg = n.msg /\ s.copy = c /\ s.todo = {}
      /\ s \in Step
  BY <1>1, <1>2 DEF Idle, Step, Pc, Good
<1> HIDE DEF s
<1>5. Fine(s)
  BY <1>1, <1>2, <1>4 DEF Fine
<1>6. Rows' /\ Sockets'
  BY RowsStay, SocketsStay DEF Inbound, bridge
<1> QED
  BY <1>3, <1>5, <1>6, HandlerStep DEF Inbound, IInv, Tables

LEMMA EventKeeps ==
  ASSUME IInv, NEW w \in Worker, NEW n, Event(w, n)
  PROVE  IInv'
<1> DEFINE c == After(row[n.link], n.kind)
           pc == IF n.kind = "linked" THEN "mark" ELSE "write"
           s == [ Idle EXCEPT !.pc = pc, !.link = n.link, !.copy = c ]
<1>1. n.link \in Link /\ n.link \in ever /\ n.kind \in Kinds /\ clock \in Nat
  BY DEF IInv, Notes, Noted, Event, Tables
<1>2. Good(c)
  BY <1>1, AfterGood DEF IInv, Rows, Exists, Event
<1>3. Goes(w, s) /\ pc \in { "mark", "write" } /\ clock' \in Nat
  BY <1>1 DEF Event
<1> HIDE DEF c, pc
<1>4. /\ s.pc = pc /\ s.link = n.link /\ s.copy = c /\ s.todo = {}
      /\ s \in Step
  BY <1>1, <1>2, <1>3 DEF Idle, Step, Pc, Good
<1> HIDE DEF s
<1>5. Fine(s)
  BY <1>1, <1>2, <1>3, <1>4 DEF Fine
<1>6. Rows' /\ Sockets'
  BY RowsStay, SocketsStay DEF Event, bridge
<1> QED
  BY <1>3, <1>5, <1>6, HandlerStep DEF Event

\* A handler goes on with what it has read.
LEMMA FineNext ==
  ASSUME NEW s, Fine(s), NEW pc \in { "decide", "list", "sever", "drop" },
         s.link # None, pc = "decide" => s.pc = "store"
  PROVE  Fine([ s EXCEPT !.pc = pc ])
<1> DEFINE q == [ s EXCEPT !.pc = pc ]
<1>1. s \in Step
  BY DEF Fine
<1>2. /\ q \in Step /\ q.pc = pc /\ q.link = s.link /\ q.copy = s.copy /\ q.msg = s.msg
      /\ q.todo = s.todo /\ q.desk = s.desk
  BY <1>1 DEF Step, Pc
<1> HIDE DEF q
<1>3. Fine(q)
  BY <1>2 DEF Fine
<1> QED
  BY <1>3 DEF q

LEMMA StoreKeeps ==
  ASSUME IInv, NEW w \in Worker, Store(w)
  PROVE  IInv'
<1> DEFINE s == work[w]
<1>1. Fine(s) /\ s.pc = "store"
  BY DEF IInv, Works, Store, At
<1>2. s.link \in Link /\ Good(s.copy) /\ s.msg \in Message /\ s.link \in heard[s.msg]
  BY <1>1 DEF Fine, Step
<1>3. Rows'
  BY <1>2, UpdateRows DEF IInv, Store, bridge
<1>4. Works'
  <2>1. Goes(w, [ s EXCEPT !.pc = "decide" ])
    BY DEF Store
  <2>2. s.link # None
    BY <1>2
  <2>3. Fine([ s EXCEPT !.pc = "decide" ])
    BY <1>1, <2>2, FineNext
  <2> HIDE DEF s
  <2> QED
    BY <2>1, <2>3, WorksGo DEF Store, IInv
<1>5. thread' = [ thread EXCEPT ![s.link] = @ \cup { s.msg } ] /\ UNCHANGED << clock, heard >>
  BY DEF Store
<1> HIDE DEF s
<1>6. Tables'
  BY <1>2, <1>5 DEF IInv, Tables
<1>7. TenantsApart'
  BY <1>2, <1>5 DEF IInv, Tables, TenantsApart
<1>8. Sockets' /\ Notes'
  BY SocketsStay, NotesGone DEF IInv, Store, bridge
<1> QED
  BY <1>3, <1>4, <1>6, <1>7, <1>8 DEF IInv

\* A handler that is done.
LEMMA DoneKeeps ==
  ASSUME IInv, NEW w \in Worker, Decide(w) \/ Finish(w)
  PROVE  IInv'
<1>1. Goes(w, Idle) /\ UNCHANGED << row, ever, thread, socket, creds, notes, clock, heard >>
  BY DEF Decide, Finish, bridge
<1>2. Rows' /\ Sockets' /\ clock' \in Nat
  BY <1>1, RowsStay, SocketsStay DEF IInv, Tables
<1> QED
  BY <1>1, <1>2, IdleFine, HandlerStep

LEMMA WriteKeeps ==
  ASSUME IInv, NEW w \in Worker, Write(w)
  PROVE  IInv'
<1> DEFINE s == work[w]
<1>1. Fine(s) /\ s.pc \in { "write", "sever" }
  BY DEF IInv, Works, Write, At
<1>2. s.link \in Link /\ Good(s.copy)
  BY <1>1 DEF Fine, Step
<1>3. Rows'
  BY <1>2, UpdateRows DEF IInv, Write, bridge
<1>4. Sockets' /\ clock' \in Nat
  BY SocketsStay DEF IInv, Tables, Write, bridge
<1> QED
  BY <1>3, <1>4, IdleFine, HandlerStep DEF Write

LEMMA MarkKeeps ==
  ASSUME IInv, NEW w \in Worker, Mark(w)
  PROVE  IInv'
<1> DEFINE s == work[w]
<1>1. Fine(s) /\ s.pc = "mark"
  BY DEF IInv, Works, Mark, At
<1>2. s.link \in Link /\ Good(s.copy) /\ s.link # None
  BY <1>1 DEF Fine, Step
<1>3. Rows'
  BY <1>2, UpdateRows DEF IInv, Mark, bridge
<1>4. Sockets' /\ clock' \in Nat
  BY SocketsStay DEF IInv, Tables, Mark, bridge
<1>5. Goes(w, [ s EXCEPT !.pc = "list" ])
  BY DEF Mark
<1>6. Fine([ s EXCEPT !.pc = "list" ])
  BY <1>1, <1>2, FineNext
<1> HIDE DEF s
<1> QED
  BY <1>3, <1>4, <1>5, <1>6, HandlerStep DEF Mark

-----------------------------------------------------------------------------
(* Folding links together and severing them. *)

\* What a handler took of the links it has to deal with.
LEMMA TodoTwins ==
  ASSUME IInv, NEW K \in SUBSET Exists, NEW todo,
         \/ todo = { [ link |-> k, bot |-> row[k].bot ] : k \in K }
         \/ todo = { [ link |-> k, bot |-> FALSE ] : k \in K }
  PROVE  todo \subseteq Twin /\ \A t \in todo : t.link \in ever /\ t.link \in K
<1>1. \A k \in K : k \in Link /\ k \in ever /\ row[k].bot \in BOOLEAN
  BY DEF IInv, Rows, Exists, Good, Row
<1>2. ASSUME NEW t \in todo PROVE t \in Twin /\ t.link \in ever /\ t.link \in K
  <2>1. PICK k \in K : t = [ link |-> k, bot |-> row[k].bot ] \/ t = [ link |-> k, bot |-> FALSE ]
    BY <1>2
  <2>2. t.link = k
    BY <2>1
  <2>3. PICK b \in BOOLEAN : t = [ link |-> k, bot |-> b ]
    BY <1>1, <2>1
  <2>4. k \in Link
    BY <1>1
  <2> QED
    BY <1>1, <2>2, <2>3, <2>4 DEF Twin
<1> QED
  BY <1>2

LEMMA ListTwinsKeeps ==
  ASSUME IInv, NEW w \in Worker, ListTwins(w)
  PROVE  IInv'
<1> DEFINE s == work[w]
           todo == { [ link |-> k, bot |-> row[k].bot ] : k \in Twins(s.link) }
           q == [ s EXCEPT !.pc = "absorb", !.todo = todo ]
<1>1. Fine(s) /\ s.pc = "list"
  BY DEF IInv, Works, ListTwins, At
<1>2. Goes(w, q)
  BY DEF ListTwins
<1>3. Twins(s.link) \subseteq Exists /\ \A k \in Twins(s.link) : Home[k] = Home[s.link]
  BY DEF Twins, LinkedToNumber, Numbered
<1>4. todo \subseteq Twin /\ \A t \in todo : t.link \in ever /\ Home[t.link] = Home[s.link]
  BY <1>3, TodoTwins
<1> HIDE DEF s, todo
<1>5. /\ q \in Step /\ q.pc = "absorb" /\ q.todo = todo /\ q.link = s.link /\ q.copy = s.copy
  BY <1>1, <1>4 DEF Fine, Step, Pc
<1> HIDE DEF q
<1>6. Fine(q)
  BY <1>1, <1>4, <1>5 DEF Fine, AtHome
<1>7. Rows' /\ Sockets' /\ clock' \in Nat
  BY RowsStay, SocketsStay DEF ListTwins, bridge, IInv, Tables
<1> QED
  BY <1>2, <1>6, <1>7, HandlerStep DEF ListTwins

LEMMA ListCollisionsKeeps ==
  ASSUME IInv, NEW w \in Worker, ListCollisions(w)
  PROVE  IInv'
<1> DEFINE s == work[w]
           todo == { [ link |-> k, bot |-> FALSE ] : k \in Collisions(s.link) }
           q == [ s EXCEPT !.pc = "sever", !.todo = todo ]
<1>1. Fine(s) /\ s.pc = "absorb" /\ ~s.desk
  BY DEF IInv, Works, ListCollisions, At
<1>2. Goes(w, q)
  BY DEF ListCollisions
<1>3. Collisions(s.link) \subseteq Exists
  BY DEF Collisions, LinkedAnywhere, Numbered
<1>4. todo \subseteq Twin /\ \A t \in todo : t.link \in ever
  BY <1>3, TodoTwins
<1> HIDE DEF s, todo
<1>5. /\ q \in Step /\ q.pc = "sever" /\ q.todo = todo /\ q.link = s.link /\ q.copy = s.copy
      /\ s.link # None
  BY <1>1, <1>4 DEF Fine, Step, Pc, AtHome
<1> HIDE DEF q
<1>6. Fine(q)
  BY <1>1, <1>4, <1>5 DEF Fine
<1>7. Rows' /\ Sockets' /\ clock' \in Nat
  BY RowsStay, SocketsStay DEF ListCollisions, bridge, IInv, Tables
<1> QED
  BY <1>2, <1>6, <1>7, HandlerStep DEF ListCollisions

LEMMA AbsorbKeeps ==
  ASSUME IInv, NEW w \in Worker, Absorb(w)
  PROVE  IInv'
<1> DEFINE s == work[w]
<1>1. Fine(s) /\ s.pc = "absorb"
  BY DEF IInv, Works, Absorb, At
<1>2. PICK stale \in Newest(s.todo) :
        LET carries == stale.bot /\ ~s.copy.bot
            keeper == IF carries THEN [ s.copy EXCEPT !.bot = TRUE ] ELSE s.copy
        IN /\ thread' = Reassigned(stale.link, s.link)
           /\ IF carries THEN Update(s.link, keeper) ELSE UNCHANGED << row, calm >>
           /\ Goes(w, [ s EXCEPT !.pc = "retire", !.copy = keeper ])
  BY DEF Absorb
<1> DEFINE carries == stale.bot /\ ~s.copy.bot
           keeper == IF carries THEN [ s.copy EXCEPT !.bot = TRUE ] ELSE s.copy
           q == [ s EXCEPT !.pc = "retire", !.copy = keeper ]
<1>3. UNCHANGED << ever, socket, creds, notes, clock, heard >>
  BY DEF Absorb, bridge
<1> HIDE DEF s
<1>4. stale \in s.todo /\ stale.link \in Link
  BY <1>1 DEF Newest, Fine, Step, Twin
<1>5. AtHome(s) /\ s.link \in Link /\ Home[stale.link] = Home[s.link] /\ Good(s.copy)
  BY <1>1, <1>4 DEF Fine, AtHome, Step
<1>6. Good(keeper)
  BY <1>5, BotGood
<1>7. /\ thread' = Reassigned(stale.link, s.link) /\ Goes(w, q)
      /\ IF carries THEN Update(s.link, keeper) ELSE UNCHANGED << row, calm >>
  BY <1>2
<1> HIDE DEF keeper
<1>8. /\ q \in Step /\ q.pc = "retire" /\ q.todo = s.todo /\ q.link = s.link /\ q.copy = keeper
      /\ q.msg = s.msg /\ q.desk = s.desk
  BY <1>1, <1>6 DEF Fine, Step, Pc, Good
<1> HIDE DEF q, carries
<1>9. Fine(q)
  BY <1>1, <1>5, <1>6, <1>8 DEF Fine, AtHome
<1>10. Rows'
  BY <1>3, <1>5, <1>6, <1>7, UpdateRows, RowsStay DEF IInv
<1>11. Works'
  BY <1>3, <1>7, <1>9, WorksGo DEF IInv
<1>12. Sockets' /\ Notes'
  BY <1>3, SocketsStay, NotesGone DEF IInv
<1>13. thread \in [ Link -> SUBSET Message ]
  BY DEF IInv, Tables
<1>14. /\ thread' \in [ Link -> SUBSET Message ]
       /\ \A l \in Link : thread'[l] \subseteq thread[l] \cup IF l = s.link THEN thread[stale.link]
                                                                           ELSE {}
  BY <1>4, <1>5, <1>7, <1>13 DEF Reassigned
<1>15. Tables'
  BY <1>3, <1>14 DEF IInv, Tables
<1>16. TenantsApart'
  BY <1>3, <1>4, <1>5, <1>14 DEF IInv, TenantsApart
<1> QED
  BY <1>10, <1>11, <1>12, <1>15, <1>16 DEF IInv

\* A link is logged out of the bridge, whatever it was singled out for.
LEMMA LogOutKeeps ==
  ASSUME IInv, NEW w \in Worker,
         LogOut(w, "retire", "remove") \/ LogOut(w, "sever", "drop")
  PROVE  IInv'
<1> DEFINE s == work[w]
<1>1. PICK to \in { "remove", "drop" } :
        LogOut(w, IF to = "remove" THEN "retire" ELSE "sever", to)
  OBVIOUS
<1>2. Fine(s) /\ s.pc = IF to = "remove" THEN "retire" ELSE "sever"
  BY <1>1 DEF IInv, Works, LogOut, At
<1>3. PICK other \in Newest(s.todo), reached \in BOOLEAN :
        /\ socket' = IF reached THEN LoggedOut(other.link) ELSE socket
        /\ creds' \subseteq creds
  BY <1>1 DEF LogOut, bridge
<1>4. Goes(w, [ s EXCEPT !.pc = to ])
      /\ UNCHANGED << row, ever, thread, notes, clock, heard >>
  BY <1>1 DEF LogOut
<1> DEFINE q == [ s EXCEPT !.pc = to ]
<1> HIDE DEF s
<1>5. other.link \in Link
  BY <1>2 DEF Newest, Fine, Step, Twin
<1>6. Sockets'
  BY <1>3, <1>4, <1>5, SocketSet, SocketsStay DEF LoggedOut, IInv
<1>7. /\ q \in Step /\ q.pc = to /\ q.todo = s.todo /\ q.link = s.link /\ q.copy = s.copy
      /\ q.msg = s.msg /\ q.desk = s.desk
  BY <1>2 DEF Fine, Step, Pc
<1> HIDE DEF q
<1>8. Fine(q)
  BY <1>2, <1>7 DEF Fine, AtHome
<1>9. Goes(w, q)
  BY <1>4 DEF q
<1>10. Rows' /\ clock' \in Nat
  BY <1>3, <1>4 DEF IInv, Rows, Exists, Good, Tables
<1> QED
  BY <1>4, <1>6, <1>8, <1>9, <1>10, HandlerStep

LEMMA RemoveKeeps ==
  ASSUME IInv, NEW w \in Worker,
         Remove(w, "remove", "absorb") \/ Remove(w, "drop", "sever")
  PROVE  IInv'
<1> DEFINE s == work[w]
<1>1. PICK to \in { "absorb", "sever" } :
        Remove(w, IF to = "absorb" THEN "remove" ELSE "drop", to)
  OBVIOUS
<1>2. Fine(s) /\ s.pc = IF to = "absorb" THEN "remove" ELSE "drop"
  BY <1>1 DEF IInv, Works, Remove, At
<1>3. PICK other \in Newest(s.todo) :
        Delete(other.link) /\ Goes(w, [ s EXCEPT !.pc = to, !.todo = @ \ {other} ])
  BY <1>1 DEF Remove
<1>4. UNCHANGED << ever, thread, socket, notes, clock, heard >>
  BY <1>1 DEF Remove
<1> DEFINE q == [ s EXCEPT !.pc = to, !.todo = @ \ {other} ]
<1>5. Goes(w, q)
  BY <1>3
<1> HIDE DEF s
<1>6. other.link \in Link /\ other \in s.todo
  BY <1>2 DEF Newest, Fine, Step, Twin
<1>7. Rows'
  BY <1>3, <1>4, <1>6, DeleteRows DEF IInv
<1>8. /\ q \in Step /\ q.pc = to /\ q.todo = s.todo \ {other} /\ q.link = s.link
      /\ q.copy = s.copy /\ q.msg = s.msg /\ q.desk = s.desk
  BY <1>2 DEF Fine, Step, Pc
<1> HIDE DEF q
<1>9. Fine(q)
  <2>1. CASE to = "absorb"
    <3>1. AtHome(s) \/ (s.desk /\ s.todo \ {other} = {})
      BY <1>2, <1>6, <2>1 DEF Fine
    <3>2. AtHome(q) \/ (q.todo = {} /\ q.desk)
      BY <1>8, <3>1 DEF AtHome
    <3> QED
      BY <1>2, <1>8, <2>1, <3>2 DEF Fine
  <2>2. CASE to = "sever"
    BY <1>2, <1>8, <2>2 DEF Fine
  <2> QED
    BY <2>1, <2>2
<1>10. Sockets' /\ clock' \in Nat
  BY <1>4, SocketsStay DEF IInv, Tables
<1> QED
  BY <1>4, <1>5, <1>7, <1>9, <1>10, HandlerStep

-----------------------------------------------------------------------------
(* The desk, and what brings everything down. *)

LEMMA CreateKeeps ==
  ASSUME IInv, NEW l \in Link, Create(l)
  PROVE  IInv'
<1>1. PICK ok \in BOOLEAN :
        /\ Table([ row EXCEPT ![l] = IF ok THEN Fresh ELSE MarkFailed(Fresh) ])
        /\ socket' = IF ok THEN Started(l) ELSE socket
  BY DEF Create
<1> DEFINE r == IF ok THEN Fresh ELSE MarkFailed(Fresh)
<1>2. Good(Fresh)
  BY DEF Good, Fresh, Row, Status
<1>3. Good(r) /\ r # None
  BY <1>2, StatusGood DEF MarkFailed, Status, Good
<1>4. row' = [ row EXCEPT ![l] = r ]
  BY <1>1 DEF Table
<1> HIDE DEF r
<1>5. ever' = ever \cup {l} /\ UNCHANGED << thread, creds, notes, work, clock, heard >>
  BY DEF Create
<1>6. Rows'
  <2>1. row' \in [ Link -> Row \cup { None } ]
    BY <1>3, <1>4 DEF IInv, Rows, Good
  <2>2. Exists' = Exists \cup {l}
    BY <1>3, <1>4 DEF IInv, Rows, Exists
  <2>3. \A k \in Exists' : Good(row[k])'
    BY <1>3, <1>4, <2>2 DEF IInv, Rows, Exists, Good
  <2> QED
    BY <1>5, <2>1, <2>2, <2>3 DEF IInv, Rows
<1>7. Sockets'
  BY <1>1, <1>5, StartedSockets DEF IInv, Sockets
<1>8. Tables' /\ TenantsApart'
  BY <1>5 DEF IInv, Tables, TenantsApart
<1>9. Works'
  BY <1>5, WorksStay DEF IInv, Tables
<1>10. Notes'
  BY <1>5 DEF IInv, Notes, Noted
<1> QED
  BY <1>6, <1>7, <1>8, <1>9, <1>10 DEF IInv

LEMMA AttachKeeps ==
  ASSUME IInv, NEW l \in Link, NEW bot \in BOOLEAN, Attach(l, bot)
  PROVE  IInv'
<1>1. l \in Exists /\ row' = [ row EXCEPT ![l].bot = bot ]
  BY DEF Attach, Table
<1>2. UNCHANGED << ever, thread, socket, creds, notes, work, clock, heard >>
  BY DEF Attach, bridge
<1> DEFINE r == [ row[l] EXCEPT !.bot = bot ]
<1>3. Good(r) /\ r # None
  BY <1>1, BotGood DEF IInv, Rows, Good
<1>4. row' = [ row EXCEPT ![l] = r ]
  BY <1>1
<1> HIDE DEF r
<1>5. Rows'
  <2>1. row' \in [ Link -> Row \cup { None } ]
    BY <1>3, <1>4 DEF IInv, Rows, Good
  <2>2. Exists' = Exists
    BY <1>1, <1>3, <1>4 DEF IInv, Rows, Exists
  <2>3. \A k \in Exists' : Good(row[k])'
    BY <1>3, <1>4, <2>2 DEF IInv, Rows, Exists, Good
  <2> QED
    BY <1>2, <2>1, <2>2, <2>3 DEF IInv, Rows
<1>6. Sockets' /\ Notes'
  BY <1>2, SocketsStay, NotesGone DEF IInv
<1>7. Tables' /\ TenantsApart'
  BY <1>2 DEF IInv, Tables, TenantsApart
<1>8. Works'
  BY <1>2, WorksStay DEF IInv, Tables
<1> QED
  BY <1>5, <1>6, <1>7, <1>8 DEF IInv

LEMMA UnlinkKeeps ==
  ASSUME IInv, NEW w \in Worker, NEW l \in Link, Unlink(w, l)
  PROVE  IInv'
<1> DEFINE t == [ link |-> l, bot |-> FALSE ]
           s == [ Idle EXCEPT !.pc = "retire", !.desk = TRUE, !.todo = {t} ]
<1>1. Goes(w, s)
  BY DEF Unlink
<1>2. t \in Twin /\ t.link \in ever
  BY DEF Twin, Unlink, IInv, Rows
<1> HIDE DEF t
<1>3. s \in Step /\ s.pc = "retire" /\ s.todo = {t} /\ s.link = None /\ s.desk
  BY <1>2 DEF Idle, Step, Pc
<1> HIDE DEF s
<1>4. Fine(s)
  BY <1>2, <1>3 DEF Fine
<1>5. Rows' /\ Sockets' /\ clock' \in Nat
  BY RowsStay, SocketsStay DEF IInv, Tables, Unlink, bridge
<1> QED
  BY <1>1, <1>4, <1>5, HandlerStep DEF Unlink

LEMMA MergeKeeps ==
  ASSUME IInv, NEW w \in Worker, NEW tenant \in Tenant, MergeDuplicates(w, tenant)
  PROVE  IInv'
<1> DEFINE group == LinkedToNumber(tenant)
<1>1. PICK keeper \in group :
        Goes(w, [ Idle EXCEPT !.pc = "absorb", !.link = keeper, !.copy = row[keeper],
                    !.desk = TRUE,
                    !.todo = { [ link |-> k, bot |-> row[k].bot ] : k \in group \ {keeper} } ])
  BY DEF MergeDuplicates
<1> DEFINE todo == { [ link |-> k, bot |-> row[k].bot ] : k \in group \ {keeper} }
           s == [ Idle EXCEPT !.pc = "absorb", !.link = keeper, !.copy = row[keeper],
                              !.desk = TRUE, !.todo = todo ]
<1>2. Goes(w, s)
  BY <1>1
<1>3. group \subseteq Exists /\ \A k \in group : Home[k] = tenant
  BY DEF LinkedToNumber, Numbered
<1>4. keeper \in Link /\ keeper \in ever /\ Good(row[keeper])
  BY <1>3 DEF IInv, Rows, Exists
<1>5. todo \subseteq Twin /\ \A t \in todo : t.link \in ever /\ Home[t.link] = Home[keeper]
  <2> DEFINE K == group \ {keeper}
  <2>0. K \in SUBSET Exists
    BY <1>3
  <2> HIDE DEF group
  <2>1. todo = { [ link |-> k, bot |-> row[k].bot ] : k \in K }
    OBVIOUS
  <2> HIDE DEF K, todo
  <2>2. todo \subseteq Twin /\ \A t \in todo : t.link \in ever /\ t.link \in K
    BY <2>0, <2>1, TodoTwins
  <2> QED
    BY <1>3, <2>2 DEF K
<1> HIDE DEF group, todo
<1>6. /\ s \in Step /\ s.pc = "absorb" /\ s.link = keeper /\ s.copy = row[keeper]
      /\ s.todo = todo /\ s.desk
  BY <1>4, <1>5 DEF Idle, Step, Pc, Good
<1> HIDE DEF s
<1>7. Fine(s)
  BY <1>4, <1>5, <1>6 DEF Fine, AtHome
<1>8. Rows' /\ Sockets' /\ clock' \in Nat
  BY RowsStay, SocketsStay DEF IInv, Tables, MergeDuplicates, bridge
<1> QED
  BY <1>2, <1>7, <1>8, HandlerStep DEF MergeDuplicates

LEMMA CrashKeeps ==
  ASSUME IInv, Crash
  PROVE  IInv'
<1>1. UNCHANGED << row, ever, thread, socket, creds, notes, clock, heard >>
      /\ work' = [ w \in Worker |-> Idle ]
  BY DEF Crash, bridge
<1>2. Works'
  <2>1. Idle \in Step /\ Fine(Idle)
    BY IdleFine DEF Fine
  <2>2. Fine(Idle)'
    BY <2>1, <1>1 DEF Fine, AtHome, Good
  <2>3. \A w \in Worker : work'[w] = Idle
    BY <1>1
  <2>4. work' \in [ Worker -> Step ]
    BY <1>1, <2>1
  <2>5. ASSUME NEW w \in Worker PROVE Fine(work[w])'
    BY <1>1, <2>1, <2>3 DEF Fine, AtHome, Good
  <2> QED
    BY <2>4, <2>5 DEF Works
<1>3. Rows' /\ Sockets' /\ Notes'
  BY <1>1, RowsStay, SocketsStay, NotesGone DEF IInv
<1>4. Tables' /\ TenantsApart'
  BY <1>1 DEF IInv, Tables, TenantsApart
<1> QED
  BY <1>2, <1>3, <1>4 DEF IInv

-----------------------------------------------------------------------------
LEMMA InitHolds ==
  ASSUME Init
  PROVE  IInv
<1>1. PICK waiting \in SUBSET Link, linked \in SUBSET Link :
        /\ waiting \cap linked = {} /\ ever = waiting \cup linked
        /\ row = [ l \in Link |->
             IF l \in waiting THEN Fresh
             ELSE IF l \notin linked THEN None
             ELSE [ MarkLinked(Fresh, Cardinality({ k \in linked : k <= l })) EXCEPT !.bot = TRUE ] ]
        /\ socket = [ l \in Link |->
             IF l \in waiting THEN "pairing" ELSE IF l \in linked THEN "open" ELSE "none" ]
        /\ creds = linked /\ clock = Cardinality(linked)
  BY DEF Init
<1>2. /\ thread = [ l \in Link |-> {} ] /\ notes = {} /\ work = [ w \in Worker |-> Idle ]
      /\ heard = [ m \in Message |-> {} ]
  BY DEF Init
<1>3. Good(Fresh)
  BY DEF Good, Fresh, Row, Status
<1>4. ASSUME NEW l \in linked
      PROVE  Good([ MarkLinked(Fresh, Cardinality({ k \in linked : k <= l })) EXCEPT !.bot = TRUE ])
  <2> DEFINE S == { k \in linked : k <= l }
  <2>1. l \in S
    <3>1. l \in Nat
      BY <1>1
    <3> QED
      BY <3>1
  <2>2. IsFiniteSet(S)
    BY <1>1, FS_Subset
  <2>3. Cardinality(S) \in Nat /\ Cardinality(S) > 0
    BY <2>1, <2>2, FS_CardinalityType, FS_EmptySet
  <2> HIDE DEF S
  <2>4. Good(MarkLinked(Fresh, Cardinality(S)))
    BY <1>3, <2>3, LinkedGood
  <2> QED
    BY <2>4, BotGood DEF S
<1>5. Rows
  <2> DEFINE made(l) == [ MarkLinked(Fresh, Cardinality({ k \in linked : k <= l })) EXCEPT !.bot = TRUE ]
  <2>1. \A l \in linked : Good(made(l)) /\ made(l) # None
    BY <1>4 DEF Good
  <2>2. \A l \in Link : row[l] = IF l \in waiting THEN Fresh
                                 ELSE IF l \notin linked THEN None ELSE made(l)
    BY <1>1
  <2>3. row = [ l \in Link |-> row[l] ]
    BY <1>1
  <2> HIDE DEF made
  <2>4. Fresh \in Row /\ Fresh # None
    BY <1>3 DEF Good
  <2>5. Exists = ever
    BY <1>1, <2>1, <2>2, <2>4 DEF Exists
  <2>6. \A l \in Exists : Good(row[l])
    BY <1>1, <1>3, <2>1, <2>2, <2>5
  <2>7. \A l \in Link : row[l] \in Row \cup { None }
    BY <2>1, <2>2, <2>4 DEF Good
  <2>8. row \in [ Link -> Row \cup { None } ]
    BY <2>3, <2>7
  <2> QED
    BY <1>1, <2>5, <2>6, <2>8 DEF Rows
<1>6. Sockets
  BY <1>1 DEF Sockets
<1>7. Tables
  <2>1. IsFiniteSet(linked)
    BY <1>1, FS_Subset
  <2> QED
    BY <1>1, <1>2, <2>1, FS_CardinalityType DEF Tables
<1>8. Works
  BY <1>2, IdleFine DEF Works, Fine
<1>9. Notes /\ TenantsApart
  BY <1>2 DEF Notes, TenantsApart
<1> QED
  BY <1>5, <1>6, <1>7, <1>8, <1>9 DEF IInv

LEMMA BridgeActs ==
  ASSUME IInv, Bridge
  PROVE  IInv'
BY BridgeKeeps, ReceivedKeeps, GivenUpKeeps, RestartedKeeps DEF Bridge

LEMMA HandlerActs ==
  ASSUME IInv, NEW w \in Worker, Handler(w)
  PROVE  IInv'
<1>1. CASE \E n \in notes : UnknownSession(w, n) \/ Inbound(w, n) \/ Event(w, n)
  BY <1>1, UnknownSessionKeeps, InboundKeeps, EventKeeps
<1>2. CASE Store(w) \/ Decide(w) \/ Mark(w) \/ Write(w) \/ Finish(w)
  BY <1>2, StoreKeeps, DoneKeeps, MarkKeeps, WriteKeeps
<1>3. CASE ListTwins(w) \/ Absorb(w) \/ ListCollisions(w)
  BY <1>3, ListTwinsKeeps, AbsorbKeeps, ListCollisionsKeeps
<1>4. CASE Retire(w) \/ Sever(w)
  BY <1>4, LogOutKeeps, RemoveKeeps DEF Retire, Sever
<1> QED
  BY <1>1, <1>2, <1>3, <1>4 DEF Handler

LEMMA OperatorActs ==
  ASSUME IInv, Operator
  PROVE  IInv'
BY CreateKeeps, RefreshKeeps, AttachKeeps, UnlinkKeeps, MergeKeeps DEF Operator

LEMMA NothingMoves ==
  ASSUME IInv, UNCHANGED vars
  PROVE  IInv'
<1>1. UNCHANGED << row, ever, thread, socket, creds, notes, work, clock, heard >>
  BY DEF vars, bridge
<1>2. Sockets' /\ Notes' /\ creds' \subseteq Exists
  BY <1>1, SocketsStay, NotesGone DEF IInv, Rows
<1> QED
  BY <1>1, <1>2, BridgeStep

\* What the proofs rest on: what each handler knows at each of its steps.
THEOREM Invariance == Spec => []IInv
<1>1. Init => IInv
  BY InitHolds
<1>2. IInv /\ [Next]_vars => IInv'
  BY BridgeActs, HandlerActs, OperatorActs, CrashKeeps, NothingMoves DEF Next
<1> QED
  BY <1>1, <1>2, PTL DEF Spec

\* The types, with what relates the rows, the stored credentials, the
\* notifications and what the handlers hold in their hands.
THEOREM TypeCorrect == Spec => []TypeOK
<1>1. IInv => TypeOK
  <2> SUFFICES ASSUME IInv PROVE TypeOK
    OBVIOUS
  <2>1. \A l \in Exists : row[l].number => row[l].linked_at > 0
    BY DEF IInv, Rows, Good
  <2>2. \A n \in notes : n.link \in ever
    BY DEF IInv, Notes, Noted
  <2>3. ASSUME NEW w \in Worker
        PROVE  /\ \A t \in work[w].todo : t.link \in ever
               /\ work[w].link # None => work[w].link \in ever /\ work[w].copy \in Row
    BY DEF IInv, Works, Fine, Good
  <2> QED
    BY <2>1, <2>2, <2>3 DEF IInv, Rows, Tables, Sockets, TypeOK
<1> QED
  BY <1>1, Invariance, PTL

\* bridge_events, _absorb_session, _sever_cross_tenant_collisions: however many
\* links and handlers there are, no message is stored under a workspace that
\* none of its links received.
THEOREM StaysInWorkspace == Spec => []TenantsApart
<1>1. IInv => TenantsApart
  BY DEF IInv
<1> QED
  BY <1>1, Invariance, PTL

-----------------------------------------------------------------------------
(* Folding and severing.                                                   *)
(*                                                                         *)
(* While nothing has slipped, two rows of the number in one workspace, or  *)
(* two connected ones in two, are always in the hands of a handler that    *)
(* will remove one of them: a link is written before its twins are looked  *)
(* for, so that of two handlers the later one finds what the other wrote.  *)

\* Handler s has link k among those it still has to deal with.
Meets(s, k) == \E t \in s.todo : t.link = k

\* It folds k into l, or is about to look for what to fold.
Folds(s, l, k) ==
  /\ s.link = l
  /\ s.pc = "list" \/ (s.pc \in { "absorb", "retire", "remove" } /\ Meets(s, k))

\* It severs k, which collides with l, or is about to look for what collides.
Severs(s, l, k) ==
  /\ s.link = l /\ ~s.desk
  /\ s.pc \in { "list", "absorb", "retire", "remove" } \/ (s.pc \in { "sever", "drop" } /\ Meets(s, k))

\* What it takes for known of the number is what the table says of its link.
Knows(s, table) ==
  /\ s.pc = "mark" => s.copy.number
  /\ s.pc \in { "mark", "list", "sever", "drop" } => ~s.desk
  /\ s.pc \notin { "idle", "mark" } /\ s.link # None /\ s.copy.number /\ table[s.link] # None
       => table[s.link].number

Held ==
  /\ \A w \in Worker : Knows(work[w], row)
  /\ \A l, k \in Numbered : l # k /\ Home[l] = Home[k] =>
       \E w \in Worker : Folds(work[w], l, k) \/ Folds(work[w], k, l)
  /\ \A l, k \in LinkedAnywhere : Home[l] # Home[k] =>
       \E w \in Worker : Severs(work[w], l, k) \/ Severs(work[w], k, l)

Folded == ~slipped => Held

\* A step after which no row has got the number and none has become connected.
Tame ==
  \A k \in Link : row'[k] # None =>
    /\ row[k] # None /\ (row'[k].number <=> row[k].number)
    /\ row'[k].number /\ row'[k].status = "linked" => row[k].status = "linked"

\* What a handler had in hand it has still: of the links numbered and connected.
Covers(s, q, numbered, connected) ==
  /\ \A l, k \in numbered : l # k /\ Home[l] = Home[k] /\ Folds(s, l, k) => Folds(q, l, k)
  /\ \A l, k \in connected : Home[l] # Home[k] /\ Severs(s, l, k) => Severs(q, l, k)

LEMMA TameTables ==
  ASSUME Tame
  PROVE  Numbered' \subseteq Numbered /\ LinkedAnywhere' \subseteq LinkedAnywhere
BY DEF Tame, Numbered, LinkedAnywhere, Exists

LEMMA TameKnows ==
  ASSUME Tame, NEW s, s.link \in Link \cup { None }, Knows(s, row)
  PROVE  Knows(s, row')
BY DEF Tame, Knows

\* A step of one handler, after which the table has no new twins.
LEMMA TameStep ==
  ASSUME IInv, Held, Tame, NEW w \in Worker, NEW q, Goes(w, q), Knows(q, row'),
         Covers(work[w], q, Numbered', LinkedAnywhere')
  PROVE  Held'
<1>1. work \in [ Worker -> Step ] /\ work' = [ work EXCEPT ![w] = q ]
  BY DEF IInv, Works, Goes
<1>2. \A v \in Worker : v # w => work'[v] = work[v]
  BY <1>1
<1>3. work'[w] = q
  BY <1>1
<1>4. ASSUME NEW v \in Worker PROVE Knows(work'[v], row')
  <2>1. CASE v = w
    BY <1>3, <2>1
  <2>2. CASE v # w
    <3>1. work[v].link \in Link \cup { None } /\ Knows(work[v], row)
      BY <1>1 DEF Step, Held
    <3> QED
      BY <1>2, <2>2, <3>1, TameKnows
  <2> QED
    BY <2>1, <2>2
<1>5. ASSUME NEW l \in Numbered', NEW k \in Numbered', l # k, Home[l] = Home[k]
      PROVE  \E v \in Worker : Folds(work'[v], l, k) \/ Folds(work'[v], k, l)
  <2>1. PICK v \in Worker : Folds(work[v], l, k) \/ Folds(work[v], k, l)
    BY <1>5, TameTables DEF Held
  <2>2. Folds(work'[v], l, k) \/ Folds(work'[v], k, l)
    <3>1. CASE v = w
      BY <1>3, <1>5, <2>1, <3>1 DEF Covers
    <3>2. CASE v # w
      BY <1>2, <2>1, <3>2
    <3> QED
      BY <3>1, <3>2
  <2> QED
    BY <2>2
<1>6. ASSUME NEW l \in LinkedAnywhere', NEW k \in LinkedAnywhere', Home[l] # Home[k]
      PROVE  \E v \in Worker : Severs(work'[v], l, k) \/ Severs(work'[v], k, l)
  <2>1. PICK v \in Worker : Severs(work[v], l, k) \/ Severs(work[v], k, l)
    BY <1>6, TameTables DEF Held
  <2>2. Severs(work'[v], l, k) \/ Severs(work'[v], k, l)
    <3>1. CASE v = w
      BY <1>3, <1>6, <2>1, <3>1 DEF Covers
    <3>2. CASE v # w
      BY <1>2, <2>1, <3>2
    <3> QED
      BY <3>1, <3>2
  <2> QED
    BY <2>2
<1> QED
  BY <1>4, <1>5, <1>6 DEF Held

\* A step of nobody.
LEMMA TameIdle ==
  ASSUME IInv, Held, Tame, UNCHANGED work
  PROVE  Held'
<1>1. \A w \in Worker : work'[w] = work[w] /\ work[w].link \in Link \cup { None }
  BY DEF IInv, Works, Step
<1>2. \A w \in Worker : Knows(work'[w], row')
  BY <1>1, TameKnows DEF Held
<1> QED
  BY <1>2, TameTables DEF Held

LEMMA SameTame ==
  ASSUME UNCHANGED row
  PROVE  Tame
BY DEF Tame

LEMMA UpdateTame ==
  ASSUME IInv, NEW l \in Link, NEW c, Good(c), Update(l, c), ~Undoes(l, c),
         c.number /\ row[l] # None => row[l].number
  PROVE  Tame /\ (row'[l] # None => row'[l] = c)
<1>1. c # None /\ c \in Row
  BY DEF Good
<1>2. CASE row[l] = None
  BY <1>2, SameTame DEF Update, Table
<1>3. CASE row[l] # None
  <2>1. row' = [ row EXCEPT ![l] = c ]
    BY <1>3 DEF Update, Table
  <2>2. row'[l] = c /\ \A k \in Link : k # l => row'[k] = row[k]
    BY <2>1 DEF IInv, Rows
  <2>3. (c.number <=> row[l].number) /\ (c.status = "linked" => row[l].status = "linked")
    <3>1. row[l] \in Row
      BY <1>3 DEF IInv, Rows
    <3>2. c.number \in BOOLEAN /\ row[l].number \in BOOLEAN
      BY <1>1, <3>1 DEF Row
    <3> QED
      BY <1>3, <3>2 DEF Undoes
  <2> QED
    BY <1>3, <2>2, <2>3 DEF Tame
<1> QED
  BY <1>2, <1>3

LEMMA DeleteTame ==
  ASSUME IInv, NEW l \in Link, Delete(l)
  PROVE  Tame /\ row'[l] = None
BY DEF Delete, Table, IInv, Rows, Tame

LEMMA IdleCovers ==
  /\ \A s, N, L : s.pc \in { "idle", "mark", "store", "decide", "write" } => \A q : Covers(s, q, N, L)
  /\ \A table : Knows(Idle, table)
BY DEF Covers, Folds, Severs, Knows, Idle

\* Whoever only moves on, with the same links to deal with.
LEMMA SameCovers ==
  ASSUME NEW s, NEW q, q.link = s.link, q.desk = s.desk, q.todo = s.todo, NEW N, NEW L,
         \/ s.pc \in { "absorb", "retire" } /\ q.pc \in { "retire", "remove" }
         \/ s.pc = "sever" /\ q.pc = "drop"
  PROVE  Covers(s, q, N, L)
BY DEF Covers, Folds, Severs, Meets

-----------------------------------------------------------------------------
(* The steps. *)

LEMMA BridgeHeld ==
  ASSUME IInv, Held, UNCHANGED << row, work >>
  PROVE  Held'
BY SameTame, TameIdle

LEMMA InboundHeld ==
  ASSUME IInv, Held, NEW w \in Worker, NEW n, Inbound(w, n)
  PROVE  Held'
<1> DEFINE c == ObserveTraffic(row[n.link])
           q == [ Idle EXCEPT !.pc = "store", !.link = n.link, !.msg = n.msg, !.copy = c ]
<1>1. n.link \in Link /\ row[n.link] # None /\ work[w].pc = "idle" /\ row' = row /\ Goes(w, q)
  BY DEF IInv, Notes, Inbound, At
<1>2. c.number = row[n.link].number
  <2>1. row[n.link] \in Row
    BY <1>1 DEF IInv, Rows
  <2> QED
    BY <2>1 DEF ObserveTraffic, Row
<1> HIDE DEF c
<1>3. q.pc = "store" /\ q.link = n.link /\ q.copy = c
  BY DEF Idle
<1> HIDE DEF q
<1>4. Knows(q, row')
  BY <1>1, <1>2, <1>3 DEF Knows
<1>5. Covers(work[w], q, Numbered', LinkedAnywhere')
  BY <1>1, IdleCovers
<1> QED
  BY <1>1, <1>4, <1>5, SameTame, TameStep

LEMMA AfterNumber ==
  ASSUME NEW r \in Row, NEW kind \in Kinds
  PROVE  IF kind = "linked" THEN After(r, kind).number ELSE After(r, kind).number = r.number
<1>1. CASE kind = "linked"
  <2>1. After(r, kind) = [ r EXCEPT !.status = "linked", !.number = TRUE, !.linked_at = clock + 1 ]
    BY <1>1 DEF After, MarkLinked
  <2> QED
    BY <1>1, <2>1 DEF Row
<1>2. CASE kind # "linked"
  <2>1. \E st \in Status : After(r, kind) = [ r EXCEPT !.status = st ]
    BY <1>2 DEF After, OfferQr, MarkDisconnected, MarkLoggedOut, MarkFailed, Kinds, Status
  <2> QED
    BY <1>2, <2>1 DEF Row
<1> QED
  BY <1>1, <1>2

LEMMA EventHeld ==
  ASSUME IInv, Held, NEW w \in Worker, NEW n, Event(w, n)
  PROVE  Held'
<1> DEFINE c == After(row[n.link], n.kind)
           pc == IF n.kind = "linked" THEN "mark" ELSE "write"
           q == [ Idle EXCEPT !.pc = pc, !.link = n.link, !.copy = c ]
<1>1. /\ n.link \in Link /\ row[n.link] # None /\ work[w].pc = "idle" /\ row' = row /\ Goes(w, q)
      /\ n.kind \in Kinds
  BY DEF IInv, Notes, Event, At
<1>2. IF pc = "mark" THEN c.number ELSE c.number = row[n.link].number
  <2>1. row[n.link] \in Row
    BY <1>1 DEF IInv, Rows
  <2> QED
    BY <1>1, <2>1, AfterNumber
<1>3. pc \in { "mark", "write" }
  OBVIOUS
<1> HIDE DEF c, pc
<1>4. q.pc = pc /\ q.link = n.link /\ q.copy = c /\ q.desk = FALSE
  BY DEF Idle
<1> HIDE DEF q
<1>5. Knows(q, row')
  BY <1>1, <1>2, <1>3, <1>4 DEF Knows
<1>6. Covers(work[w], q, Numbered', LinkedAnywhere')
  BY <1>1, IdleCovers
<1> QED
  BY <1>1, <1>5, <1>6, SameTame, TameStep

LEMMA DecideHeld ==
  ASSUME IInv, Held, NEW w \in Worker, Decide(w)
  PROVE  Held'
<1>1. work[w].pc = "decide" /\ row' = row /\ Goes(w, Idle)
  BY DEF Decide, At
<1> QED
  BY <1>1, IdleCovers, SameTame, TameStep

\* What a handler writes back brings in no twin: its number was read.
LEMMA WriteTame ==
  ASSUME IInv, Held, NEW w \in Worker, work[w].pc \in { "store", "write", "sever" },
         Update(work[w].link, work[w].copy), ~Undoes(work[w].link, work[w].copy)
  PROVE  Tame /\ (row'[work[w].link] # None => row'[work[w].link] = work[w].copy)
<1> DEFINE s == work[w]
<1>1. Fine(s) /\ Knows(s, row)
  BY DEF IInv, Works, Held
<1> HIDE DEF s
<1>2. s.pc \in { "store", "write", "sever" } /\ Update(s.link, s.copy) /\ ~Undoes(s.link, s.copy)
  BY DEF s
<1>3. s.link \in Link /\ s.link # None /\ Good(s.copy)
  BY <1>1, <1>2 DEF Fine, Step
<1>4. s.copy.number /\ row[s.link] # None => row[s.link].number
  BY <1>1, <1>2, <1>3 DEF Knows
<1>5. Tame /\ (row'[s.link] # None => row'[s.link] = s.copy)
  BY <1>2, <1>3, <1>4, UpdateTame
<1> QED
  BY <1>5 DEF s

LEMMA StoreHeld ==
  ASSUME IInv, Held, NEW w \in Worker, Store(w), ~slipped'
  PROVE  Held'
<1> DEFINE s == work[w]
           q == [ s EXCEPT !.pc = "decide" ]
<1>1. /\ s.pc = "store" /\ Update(s.link, s.copy) /\ ~Undoes(s.link, s.copy) /\ Goes(w, q)
      /\ s \in Step
  BY DEF Store, At, IInv, Works
<1>2. Tame /\ (row'[s.link] # None => row'[s.link] = s.copy)
  BY <1>1, WriteTame
<1> HIDE DEF s
<1>3. q.pc = "decide" /\ q.link = s.link /\ q.copy = s.copy
  BY <1>1 DEF Step
<1> HIDE DEF q
<1>4. Knows(q, row')
  BY <1>2, <1>3 DEF Knows
<1>5. Covers(s, q, Numbered', LinkedAnywhere')
  BY <1>1, IdleCovers
<1> QED
  BY <1>1, <1>2, <1>4, <1>5, TameStep DEF s

LEMMA WriteHeld ==
  ASSUME IInv, Held, NEW w \in Worker, Write(w), ~slipped'
  PROVE  Held'
<1> DEFINE s == work[w]
<1>1. /\ s.pc = "write" \/ (s.pc = "sever" /\ s.todo = {})
      /\ Update(s.link, s.copy) /\ ~Undoes(s.link, s.copy) /\ Goes(w, Idle)
  BY DEF Write, At
<1>2. Tame
  BY <1>1, WriteTame
<1>3. Covers(s, Idle, Numbered', LinkedAnywhere')
  <2> HIDE DEF s
  <2>1. CASE s.pc = "write"
    BY <2>1, IdleCovers
  <2>2. CASE s.pc = "sever" /\ s.todo = {}
    BY <2>2 DEF Covers, Folds, Severs, Meets
  <2> QED
    BY <1>1, <2>1, <2>2
<1> QED
  BY <1>1, <1>2, <1>3, IdleCovers, TameStep

\* The one step by which a row comes to know the number, or a link to be
\* connected: the handler that takes it has the twins and collisions to look for.
LEMMA MarkHeld ==
  ASSUME IInv, Held, NEW w \in Worker, Mark(w)
  PROVE  Held'
<1> DEFINE s == work[w]
           q == [ s EXCEPT !.pc = "list" ]
<1>1. /\ s.pc = "mark" /\ Update(s.link, s.copy) /\ Goes(w, q) /\ Fine(s) /\ Knows(s, row)
      /\ work' = [ work EXCEPT ![w] = q ] /\ work \in [ Worker -> Step ]
  BY DEF Mark, At, IInv, Works, Held, Goes
<1> HIDE DEF s
<1>2. /\ s.link \in Link /\ s.link # None /\ Good(s.copy) /\ s.copy.number /\ ~s.desk
  BY <1>1 DEF Fine, Step, Knows
<1>3. q.pc = "list" /\ q.link = s.link /\ q.copy = s.copy /\ q.desk = s.desk
  BY <1>1 DEF Fine, Step
<1> HIDE DEF q
<1>4. /\ \A k \in Link : k # s.link => row'[k] = row[k]
      /\ row'[s.link] # None => row'[s.link] = s.copy /\ row[s.link] # None
  BY <1>1, <1>2 DEF Update, Table, IInv, Rows
<1>5. work'[w] = q /\ \A v \in Worker : v # w => work'[v] = work[v]
  BY <1>1
<1>6. ASSUME NEW v \in Worker PROVE Knows(work'[v], row')
  <2>1. CASE v = w
    BY <1>2, <1>3, <1>4, <1>5, <2>1 DEF Knows
  <2>2. CASE v # w
    <3> DEFINE o == work[v]
    <3>1. o.link \in Link \cup { None } /\ Knows(o, row)
      BY <1>1 DEF Step, Held
    <3> HIDE DEF o
    <3>2. Knows(o, row')
      BY <1>2, <1>4, <3>1 DEF Knows
    <3> QED
      BY <1>5, <2>2, <3>2 DEF o
  <2> QED
    BY <2>1, <2>2
<1>7. \A l, k : (l = s.link => Folds(q, l, k) /\ Severs(q, l, k))
  BY <1>2, <1>3 DEF Folds, Severs
<1>8. /\ \A k \in Numbered' : k = s.link \/ k \in Numbered
      /\ \A k \in LinkedAnywhere' : k = s.link \/ k \in LinkedAnywhere
  BY <1>4 DEF Numbered, LinkedAnywhere, Exists
<1>9. \A l, k : ~Folds(s, l, k) /\ ~Severs(s, l, k)
  BY <1>1 DEF Folds, Severs
<1>10. s = work[w]
  BY DEF s
<1>11. ASSUME NEW l \in Numbered', NEW k \in Numbered', l # k, Home[l] = Home[k]
       PROVE  \E v \in Worker : Folds(work'[v], l, k) \/ Folds(work'[v], k, l)
  <2>1. CASE l = s.link \/ k = s.link
    BY <1>5, <1>7, <2>1
  <2>2. CASE l # s.link /\ k # s.link
    <3>1. PICK v \in Worker : Folds(work[v], l, k) \/ Folds(work[v], k, l)
      BY <1>8, <1>11, <2>2 DEF Held
    <3>2. v # w
      BY <1>9, <1>10, <3>1
    <3> QED
      BY <1>5, <3>1, <3>2
  <2> QED
    BY <2>1, <2>2
<1>12. ASSUME NEW l \in LinkedAnywhere', NEW k \in LinkedAnywhere', Home[l] # Home[k]
       PROVE  \E v \in Worker : Severs(work'[v], l, k) \/ Severs(work'[v], k, l)
  <2>1. CASE l = s.link \/ k = s.link
    BY <1>5, <1>7, <2>1
  <2>2. CASE l # s.link /\ k # s.link
    <3>1. PICK v \in Worker : Severs(work[v], l, k) \/ Severs(work[v], k, l)
      BY <1>8, <1>12, <2>2 DEF Held
    <3>2. v # w
      BY <1>9, <1>10, <3>1
    <3> QED
      BY <1>5, <3>1, <3>2
  <2> QED
    BY <2>1, <2>2
<1> QED
  BY <1>6, <1>11, <1>12 DEF Held

\* Every twin the table has by then is listed.
LEMMA ListTwinsHeld ==
  ASSUME IInv, Held, NEW w \in Worker, ListTwins(w)
  PROVE  Held'
<1> DEFINE s == work[w]
           todo == { [ link |-> k, bot |-> row[k].bot ] : k \in Twins(s.link) }
           q == [ s EXCEPT !.pc = "absorb", !.todo = todo ]
<1>1. s.pc = "list" /\ Goes(w, q) /\ s \in Step /\ Knows(s, row) /\ row' = row
  BY DEF ListTwins, At, IInv, Works, Held
<1>2. \A k \in Twins(s.link) : \E t \in todo : t.link = k
  <2> TAKE k \in Twins(s.link)
  <2> WITNESS [ link |-> k, bot |-> row[k].bot ] \in todo
  <2> QED
    OBVIOUS
<1> HIDE DEF s, todo
<1>3. q.pc = "absorb" /\ q.link = s.link /\ q.copy = s.copy /\ q.desk = s.desk /\ q.todo = todo
  BY <1>1 DEF Step
<1> HIDE DEF q
<1>4. Knows(q, row')
  BY <1>1, <1>3 DEF Knows
<1>5. Numbered' = Numbered
  BY <1>1 DEF Numbered, Exists
<1>6. Covers(s, q, Numbered', LinkedAnywhere')
  <2>1. ASSUME NEW l \in Numbered, NEW k \in Numbered, l # k, Home[l] = Home[k], Folds(s, l, k)
        PROVE  Folds(q, l, k)
    <3>1. s.link = l
      BY <2>1 DEF Folds
    <3>2. k \in Twins(s.link)
      BY <2>1, <3>1 DEF Twins, LinkedToNumber
    <3> QED
      BY <1>2, <1>3, <3>1, <3>2 DEF Folds, Meets
  <2>2. \A l, k : Severs(s, l, k) => Severs(q, l, k)
    BY <1>1, <1>3 DEF Severs
  <2> QED
    BY <1>5, <2>1, <2>2 DEF Covers
<1> QED
  BY <1>1, <1>4, <1>6, SameTame, TameStep DEF s

LEMMA ListCollisionsHeld ==
  ASSUME IInv, Held, NEW w \in Worker, ListCollisions(w)
  PROVE  Held'
<1> DEFINE s == work[w]
           todo == { [ link |-> k, bot |-> FALSE ] : k \in Collisions(s.link) }
           q == [ s EXCEPT !.pc = "sever", !.todo = todo ]
<1>1. /\ s.pc = "absorb" /\ ~s.desk /\ s.todo = {} /\ Goes(w, q) /\ s \in Step /\ Knows(s, row)
      /\ row' = row
  BY DEF ListCollisions, At, IInv, Works, Held
<1>2. \A k \in Collisions(s.link) : \E t \in todo : t.link = k
  <2> TAKE k \in Collisions(s.link)
  <2> WITNESS [ link |-> k, bot |-> FALSE ] \in todo
  <2> QED
    OBVIOUS
<1> HIDE DEF s, todo
<1>3. q.pc = "sever" /\ q.link = s.link /\ q.copy = s.copy /\ q.desk = s.desk /\ q.todo = todo
  BY <1>1 DEF Step
<1> HIDE DEF q
<1>4. Knows(q, row')
  BY <1>1, <1>3 DEF Knows
<1>5. LinkedAnywhere' = LinkedAnywhere
  BY <1>1 DEF LinkedAnywhere, Numbered, Exists
<1>6. Covers(s, q, Numbered', LinkedAnywhere')
  <2>1. \A l, k : ~Folds(s, l, k)
    BY <1>1 DEF Folds, Meets
  <2>2. ASSUME NEW l \in LinkedAnywhere, NEW k \in LinkedAnywhere, Home[l] # Home[k],
               Severs(s, l, k)
        PROVE  Severs(q, l, k)
    <3>1. s.link = l
      BY <2>2 DEF Severs
    <3>2. k \in Collisions(s.link)
      BY <2>2, <3>1 DEF Collisions
    <3> QED
      BY <1>1, <1>2, <1>3, <3>1, <3>2 DEF Severs, Meets
  <2> QED
    BY <1>5, <2>1, <2>2 DEF Covers
<1> QED
  BY <1>1, <1>4, <1>6, SameTame, TameStep DEF s

LEMMA AbsorbHeld ==
  ASSUME IInv, Held, NEW w \in Worker, Absorb(w), ~slipped'
  PROVE  Held'
<1> DEFINE s == work[w]
<1>1. Fine(s) /\ Knows(s, row) /\ s.pc = "absorb"
  BY DEF IInv, Works, Held, Absorb, At
<1>2. PICK stale \in Newest(s.todo) :
        LET carries == stale.bot /\ ~s.copy.bot
            keeper == IF carries THEN [ s.copy EXCEPT !.bot = TRUE ] ELSE s.copy
        IN /\ IF carries THEN Update(s.link, keeper) ELSE UNCHANGED << row, calm >>
           /\ slipped' = (slipped \/ (carries /\ Undoes(s.link, keeper)))
           /\ Goes(w, [ s EXCEPT !.pc = "retire", !.copy = keeper ])
  BY DEF Absorb
<1> DEFINE carries == stale.bot /\ ~s.copy.bot
           keeper == IF carries THEN [ s.copy EXCEPT !.bot = TRUE ] ELSE s.copy
           q == [ s EXCEPT !.pc = "retire", !.copy = keeper ]
<1>3. s = work[w]
  OBVIOUS
<1> HIDE DEF s
<1>4. stale \in s.todo /\ s.link \in Link /\ s.link # None /\ Good(s.copy) /\ s.copy \in Row
  BY <1>1 DEF Newest, Fine, AtHome, Step, Good
<1>5. Good(keeper) /\ keeper.number = s.copy.number
  <2>1. [ s.copy EXCEPT !.bot = TRUE ].number = s.copy.number
    BY <1>4 DEF Row
  <2> QED
    BY <1>4, <2>1, BotGood
<1>6. /\ Goes(w, q)
      /\ IF carries THEN Update(s.link, keeper) /\ ~Undoes(s.link, keeper) ELSE row' = row
  BY <1>2
<1> HIDE DEF keeper, carries
<1>7. /\ q.pc = "retire" /\ q.todo = s.todo /\ q.link = s.link /\ q.copy = keeper /\ q.desk = s.desk
  BY <1>1 DEF Fine, Step
<1> HIDE DEF q
<1>8. keeper.number /\ row[s.link] # None => row[s.link].number
  BY <1>1, <1>4, <1>5 DEF Knows
<1>9. Tame
  BY <1>4, <1>5, <1>6, <1>8, UpdateTame, SameTame
<1>10. keeper.number /\ row'[s.link] # None => row'[s.link].number
  BY <1>4, <1>8, <1>9 DEF Tame
<1>11. Knows(q, row')
  BY <1>7, <1>10 DEF Knows
<1>12. Covers(s, q, Numbered', LinkedAnywhere')
  BY <1>1, <1>7, SameCovers
<1> QED
  BY <1>3, <1>6, <1>9, <1>11, <1>12, TameStep

LEMMA LogOutHeld ==
  ASSUME IInv, Held, NEW w \in Worker,
         LogOut(w, "retire", "remove") \/ LogOut(w, "sever", "drop")
  PROVE  Held'
<1> DEFINE s == work[w]
<1>1. PICK to \in { "remove", "drop" } :
        LogOut(w, IF to = "remove" THEN "retire" ELSE "sever", to)
  OBVIOUS
<1> DEFINE q == [ s EXCEPT !.pc = to ]
<1>2. /\ s \in Step /\ Knows(s, row) /\ s.pc = IF to = "remove" THEN "retire" ELSE "sever"
      /\ Goes(w, q) /\ row' = row
  BY <1>1 DEF IInv, Works, Held, LogOut, At
<1>3. s = work[w]
  OBVIOUS
<1> HIDE DEF s
<1>4. q.pc = to /\ q.todo = s.todo /\ q.link = s.link /\ q.copy = s.copy /\ q.desk = s.desk
  BY <1>2 DEF Step
<1> HIDE DEF q
<1>5. Knows(q, row')
  BY <1>2, <1>4 DEF Knows
<1>6. Covers(s, q, Numbered', LinkedAnywhere')
  BY <1>2, <1>4, SameCovers
<1> QED
  BY <1>2, <1>3, <1>5, <1>6, SameTame, TameStep

\* A link that is done with has no row any more.
LEMMA RemoveHeld ==
  ASSUME IInv, Held, NEW w \in Worker,
         Remove(w, "remove", "absorb") \/ Remove(w, "drop", "sever")
  PROVE  Held'
<1> DEFINE s == work[w]
<1>1. PICK to \in { "absorb", "sever" } :
        Remove(w, IF to = "absorb" THEN "remove" ELSE "drop", to)
  OBVIOUS
<1>2. Fine(s) /\ Knows(s, row) /\ s.pc = IF to = "absorb" THEN "remove" ELSE "drop"
  BY <1>1 DEF IInv, Works, Held, Remove, At
<1>3. PICK other \in Newest(s.todo) :
        Delete(other.link) /\ Goes(w, [ s EXCEPT !.pc = to, !.todo = @ \ {other} ])
  BY <1>1 DEF Remove
<1> DEFINE q == [ s EXCEPT !.pc = to, !.todo = @ \ {other} ]
<1>4. Goes(w, q) /\ s = work[w]
  BY <1>3
<1> HIDE DEF s
<1>5. other.link \in Link /\ other \in s.todo
  BY <1>2 DEF Newest, Fine, Step, Twin
<1>6. Tame /\ row'[other.link] = None
  BY <1>3, <1>5, DeleteTame
<1>7. /\ q.pc = to /\ q.todo = s.todo \ {other} /\ q.link = s.link /\ q.copy = s.copy
      /\ q.desk = s.desk
  BY <1>2 DEF Fine, Step
<1> HIDE DEF q
<1>8. s.link \in Link \cup { None }
  BY <1>2 DEF Fine, Step
<1>9. Knows(q, row')
  <2>1. Knows(s, row')
    BY <1>2, <1>6, <1>8, TameKnows
  <2> QED
    BY <1>2, <1>7, <2>1 DEF Knows
<1>10. \A k \in Numbered' : Meets(s, k) => Meets(q, k)
  BY <1>6, <1>7 DEF Numbered, Exists, Meets
<1>11. LinkedAnywhere' \subseteq Numbered'
  BY DEF LinkedAnywhere
<1>12. Covers(s, q, Numbered', LinkedAnywhere')
  BY <1>2, <1>7, <1>10, <1>11 DEF Covers, Folds, Severs
<1> QED
  BY <1>4, <1>6, <1>9, <1>12, TameStep

LEMMA FinishHeld ==
  ASSUME IInv, Held, NEW w \in Worker, Finish(w)
  PROVE  Held'
<1> DEFINE s == work[w]
<1>1. s.pc = "absorb" /\ s.todo = {} /\ s.desk /\ row' = row /\ Goes(w, Idle)
  BY DEF Finish, At
<1>2. Covers(s, Idle, Numbered', LinkedAnywhere')
  <2> HIDE DEF s
  <2> QED
    BY <1>1 DEF Covers, Folds, Severs, Meets
<1> QED
  BY <1>1, <1>2, IdleCovers, SameTame, TameStep

\* No handler is at work on a link that did not exist.
LEMMA CreateHeld ==
  ASSUME IInv, Held, NEW l \in Link, Create(l)
  PROVE  Held'
<1>1. PICK ok \in BOOLEAN :
        Table([ row EXCEPT ![l] = IF ok THEN Fresh ELSE MarkFailed(Fresh) ])
  BY DEF Create
<1> DEFINE r == IF ok THEN Fresh ELSE MarkFailed(Fresh)
<1>2. r.number = FALSE
  BY DEF Fresh, MarkFailed
<1>3. row' = [ row EXCEPT ![l] = r ]
  BY <1>1 DEF Table
<1> HIDE DEF r
<1>4. row'[l] = r /\ \A k \in Link : k # l => row'[k] = row[k]
  BY <1>3 DEF IInv, Rows
<1>5. l \notin ever /\ UNCHANGED work
  BY DEF Create
<1>6. Numbered' \subseteq Numbered /\ LinkedAnywhere' \subseteq LinkedAnywhere
  BY <1>2, <1>4 DEF Numbered, LinkedAnywhere, Exists
<1>7. ASSUME NEW v \in Worker PROVE Knows(work[v], row')
  <2>1. /\ Knows(work[v], row) /\ work[v].link # l
        /\ work[v].link \in Link \cup { None }
    BY <1>5 DEF Held, IInv, Works, Fine, Step
  <2> QED
    BY <1>4, <2>1 DEF Knows
<1> QED
  BY <1>5, <1>6, <1>7 DEF Held

LEMMA AttachHeld ==
  ASSUME IInv, Held, NEW l \in Link, NEW bot \in BOOLEAN, Attach(l, bot)
  PROVE  Held'
<1>1. l \in Exists /\ row' = [ row EXCEPT ![l].bot = bot ] /\ UNCHANGED work
  BY DEF Attach, Table
<1> DEFINE r == [ row[l] EXCEPT !.bot = bot ]
<1>2. row[l] # None /\ row[l] \in Row
  BY <1>1 DEF IInv, Rows, Exists
<1>3. r.number = row[l].number /\ r.status = row[l].status
  BY <1>2 DEF Row
<1>4. row' = [ row EXCEPT ![l] = r ]
  BY <1>1
<1> HIDE DEF r
<1>5. row'[l] = r /\ \A k \in Link : k # l => row'[k] = row[k]
  BY <1>4 DEF IInv, Rows
<1>6. Tame
  BY <1>2, <1>3, <1>5 DEF Tame
<1> QED
  BY <1>1, <1>6, TameIdle

LEMMA UnlinkHeld ==
  ASSUME IInv, Held, NEW w \in Worker, NEW l \in Link, Unlink(w, l)
  PROVE  Held'
<1> DEFINE t == [ link |-> l, bot |-> FALSE ]
           q == [ Idle EXCEPT !.pc = "retire", !.desk = TRUE, !.todo = {t} ]
<1>1. Goes(w, q) /\ work[w].pc = "idle" /\ row' = row
  BY DEF Unlink, At
<1>2. q.pc = "retire" /\ q.link = None
  BY DEF Idle
<1> HIDE DEF q
<1>3. Knows(q, row')
  BY <1>2 DEF Knows
<1> QED
  BY <1>1, <1>3, IdleCovers, SameTame, TameStep

LEMMA MergeHeld ==
  ASSUME IInv, Held, NEW w \in Worker, NEW tenant \in Tenant, MergeDuplicates(w, tenant)
  PROVE  Held'
<1> DEFINE group == LinkedToNumber(tenant)
<1>1. PICK keeper \in group :
        Goes(w, [ Idle EXCEPT !.pc = "absorb", !.link = keeper, !.copy = row[keeper],
                    !.desk = TRUE,
                    !.todo = { [ link |-> k, bot |-> row[k].bot ] : k \in group \ {keeper} } ])
  BY DEF MergeDuplicates
<1> DEFINE todo == { [ link |-> k, bot |-> row[k].bot ] : k \in group \ {keeper} }
           q == [ Idle EXCEPT !.pc = "absorb", !.link = keeper, !.copy = row[keeper],
                              !.desk = TRUE, !.todo = todo ]
<1>2. Goes(w, q) /\ work[w].pc = "idle" /\ row' = row
  BY <1>1 DEF MergeDuplicates, At
<1> HIDE DEF todo
<1>3. q.pc = "absorb" /\ q.link = keeper /\ q.copy = row[keeper]
  BY DEF Idle
<1> HIDE DEF q
<1>4. Knows(q, row')
  BY <1>2, <1>3 DEF Knows
<1> QED
  BY <1>2, <1>4, IdleCovers, SameTame, TameStep

-----------------------------------------------------------------------------
LEMMA HandlerHeld ==
  ASSUME IInv, Held, NEW w \in Worker, Handler(w), ~slipped'
  PROVE  Held'
<1>1. CASE \E n \in notes : UnknownSession(w, n) \/ Inbound(w, n) \/ Event(w, n)
  <2>1. ASSUME NEW n \in notes, UnknownSession(w, n) PROVE Held'
    BY <2>1, BridgeHeld DEF UnknownSession
  <2> QED
    BY <1>1, <2>1, InboundHeld, EventHeld
<1>2. CASE Store(w) \/ Decide(w) \/ Mark(w) \/ Write(w) \/ Finish(w)
  BY <1>2, StoreHeld, DecideHeld, MarkHeld, WriteHeld, FinishHeld
<1>3. CASE ListTwins(w) \/ Absorb(w) \/ ListCollisions(w)
  BY <1>3, ListTwinsHeld, AbsorbHeld, ListCollisionsHeld
<1>4. CASE Retire(w) \/ Sever(w)
  BY <1>4, LogOutHeld, RemoveHeld DEF Retire, Sever
<1> QED
  BY <1>1, <1>2, <1>3, <1>4 DEF Handler

LEMMA BridgeUntouched ==
  ASSUME Bridge
  PROVE  UNCHANGED << row, work, slipped >>
BY DEF Bridge, QrOffered, Scanned, Dropped, Reconnected, Revoked, Received, GivenUp, Restarted

LEMMA OperatorHeld ==
  ASSUME IInv, Held, Operator
  PROVE  Held'
<1>1. ASSUME NEW l \in Link, Refresh(l) PROVE Held'
  BY <1>1, BridgeHeld DEF Refresh
<1> QED
  BY <1>1, CreateHeld, AttachHeld, UnlinkHeld, MergeHeld DEF Operator

\* What has slipped stays so.
LEMMA SlippedStays ==
  ASSUME [Next]_vars, slipped
  PROVE  slipped'
<1>1. CASE Bridge \/ UNCHANGED vars
  BY <1>1, BridgeUntouched DEF vars
<1>2. ASSUME NEW w \in Worker, Handler(w) PROVE slipped'
  BY <1>2 DEF Handler, UnknownSession, Inbound, Event, Store, Decide, Mark, ListTwins, Absorb,
              Retire, LogOut, Remove, ListCollisions, Sever, Write, Finish
<1>3. CASE Operator \/ Crash
  BY <1>3 DEF Operator, Create, Refresh, Attach, Unlink, MergeDuplicates, Crash
<1> QED
  BY <1>1, <1>2, <1>3 DEF Next

LEMMA FoldedStep ==
  ASSUME IInv, Folded, [Next]_vars
  PROVE  Folded'
<1> SUFFICES ASSUME ~slipped' PROVE Held'
  BY DEF Folded
<1>1. Held
  BY SlippedStays DEF Folded
<1>2. CASE Bridge \/ UNCHANGED vars
  BY <1>1, <1>2, BridgeUntouched, BridgeHeld DEF vars
<1>3. ASSUME NEW w \in Worker, Handler(w) PROVE Held'
  BY <1>1, <1>3, HandlerHeld
<1>4. CASE Operator
  BY <1>1, <1>4, OperatorHeld
<1>5. CASE Crash
  BY <1>5 DEF Crash
<1> QED
  BY <1>2, <1>3, <1>4, <1>5 DEF Next

LEMMA InitFolded ==
  ASSUME Init
  PROVE  Folded
<1> SUFFICES ASSUME ~slipped PROVE Held
  BY DEF Folded
<1>1. PICK waiting \in SUBSET Link, linked \in SUBSET Link :
        /\ row = [ l \in Link |->
             IF l \in waiting THEN Fresh
             ELSE IF l \notin linked THEN None
             ELSE [ MarkLinked(Fresh, Cardinality({ k \in linked : k <= l })) EXCEPT !.bot = TRUE ] ]
        /\ slipped = (Cardinality(linked) > 1)
  BY DEF Init
<1>2. Numbered \subseteq linked
  BY <1>1 DEF Numbered, Exists, Fresh
<1>3. \A l, k \in linked : l = k
  <2>1. IsFiniteSet(linked)
    BY <1>1, FS_Subset
  <2>2. ~(Cardinality(linked) > 1) /\ Cardinality(linked) \in Nat
    BY <1>1, <2>1, FS_CardinalityType
  <2>3. CASE Cardinality(linked) = 0
    BY <2>1, <2>3, FS_EmptySet
  <2>4. CASE Cardinality(linked) = 1
    BY <2>1, <2>4, FS_Singleton
  <2> QED
    BY <2>2, <2>3, <2>4
<1>4. LinkedAnywhere \subseteq Numbered
  BY DEF LinkedAnywhere
<1>5. \A w \in Worker : Knows(work[w], row)
  BY IdleCovers DEF Init
<1> QED
  BY <1>2, <1>3, <1>4, <1>5 DEF Held

\* As long as nothing has slipped, a handler has every pair of rows in hand
\* that are one too many.
THEOREM FoldInvariant == Spec => []Folded
<1>1. Init => Folded
  BY InitFolded
<1>2. IInv /\ Folded /\ [Next]_vars => Folded'
  BY FoldedStep
<1> QED
  BY <1>1, <1>2, Invariance, PTL DEF Spec

\* bridge_events, merge_duplicate_numbers: whatever links are made, however many
\* handlers overlap: when these are done, a workspace has one row of the number
\* and one link is connected to it, unless a handler was lost or undid a write.
THEOREM HandsetIsReconciled == Spec => []Reconciled
<1>1. Folded => Reconciled
  <2> SUFFICES ASSUME Held, Quiet
               PROVE  /\ \A l, k \in Numbered : Home[l] = Home[k] => l = k
                      /\ \A l, k \in LinkedAnywhere : l = k
    BY DEF Folded, Reconciled
  <2>1. \A w \in Worker, l, k \in Link : ~Folds(work[w], l, k) /\ ~Severs(work[w], l, k)
    BY DEF Quiet, Folds, Severs
  <2>2. LinkedAnywhere \subseteq Numbered /\ Numbered \subseteq Link
    BY DEF LinkedAnywhere, Numbered, Exists
  <2>3. \A l, k \in Numbered : Home[l] = Home[k] => l = k
    BY <2>1, <2>2 DEF Held
  <2>4. \A l, k \in LinkedAnywhere : Home[l] = Home[k]
    BY <2>1, <2>2 DEF Held
  <2> QED
    BY <2>2, <2>3, <2>4
<1> QED
  BY <1>1, FoldInvariant, PTL

-----------------------------------------------------------------------------
(* Who answers.                                                            *)
(*                                                                         *)
(* Links are made at different times, so that among those connected one    *)
(* speaks for the number; and what each of them received is in one place,  *)
(* a notification or a handler, until it is decided.                       *)

\* A link was made at t: so its row says, or a copy of it.
Dated(l, t) ==
  /\ t > 0
  /\ \/ row[l] # None /\ row[l].linked_at = t
     \/ \E w \in Worker : work[w].link = l /\ work[w].copy.linked_at = t

Dates ==
  \A l \in Link, t \in Nat : Dated(l, t) => t <= clock /\ \A k \in Link : Dated(k, t) => k = l

\* A date that l was given already.
Old(l, t) == t = 0 \/ (t \in Nat /\ Dated(l, t))

LEMMA RowOld ==
  ASSUME IInv, NEW l \in Link, row[l] # None
  PROVE  Old(l, row[l].linked_at)
<1>1. row[l].linked_at \in Nat
  BY DEF IInv, Rows, Row
<1> QED
  BY <1>1 DEF Old, Dated

LEMMA CopyOld ==
  ASSUME IInv, NEW w \in Worker, work[w].link # None
  PROVE  Old(work[w].link, work[w].copy.linked_at)
<1>1. work[w].copy.linked_at \in Nat
  BY DEF IInv, Works, Fine, Good, Row
<1> QED
  BY <1>1 DEF Old, Dated

LEMMA UpdateOld ==
  ASSUME IInv, NEW l \in Link, NEW c, Good(c), Update(l, c), Old(l, c.linked_at)
  PROVE  \A k \in Link : row'[k] # None => Old(k, row'[k].linked_at)
<1> TAKE k \in Link
<1> HAVE row'[k] # None
<1>1. row'[k] = row[k] \/ (k = l /\ row'[k] = c)
  BY DEF Update, Table, IInv, Rows
<1> QED
  BY <1>1, RowOld

LEMMA DeleteOld ==
  ASSUME IInv, NEW l \in Link, Delete(l)
  PROVE  \A k \in Link : row'[k] # None => Old(k, row'[k].linked_at)
<1> TAKE k \in Link
<1> HAVE row'[k] # None
<1>1. row'[k] = row[k]
  BY DEF Delete, Table, IInv, Rows
<1> QED
  BY <1>1, RowOld

LEMMA SameOld ==
  ASSUME IInv, UNCHANGED row
  PROVE  \A k \in Link : row'[k] # None => Old(k, row'[k].linked_at)
BY RowOld

\* A step that gives no link a date it had not, but one that is made now.
LEMMA DatesGo ==
  ASSUME IInv, Dates, NEW w \in Worker, NEW q, Goes(w, q),
         \A k \in Link : row'[k] # None => Old(k, row'[k].linked_at),
         \/ clock' = clock /\ (q.link # None => Old(q.link, q.copy.linked_at))
         \/ clock' = clock + 1 /\ (Old(q.link, q.copy.linked_at) \/ q.copy.linked_at = clock + 1)
  PROVE  Dates'
<1>1. work \in [ Worker -> Step ] /\ work' = [ work EXCEPT ![w] = q ] /\ clock \in Nat
  BY DEF IInv, Works, Goes, Tables
<1> DEFINE new(l, t) == clock' = clock + 1 /\ t = clock + 1 /\ l = q.link
<1>2. ASSUME NEW l \in Link, NEW t \in Nat, Dated(l, t)'
      PROVE  Dated(l, t) \/ new(l, t)
  <2>1. t > 0
    BY <1>2 DEF Dated
  <2>2. CASE row'[l] # None /\ row'[l].linked_at = t
    <3>1. Old(l, row'[l].linked_at)
      BY <2>2
    <3>2. Dated(l, t)
      BY <2>1, <2>2, <3>1 DEF Old
    <3> QED
      BY <3>2
  <2>3. ASSUME NEW v \in Worker, work'[v].link = l, work'[v].copy.linked_at = t
        PROVE  Dated(l, t) \/ new(l, t)
    <3>1. CASE v = w
      <4>1. work'[v] = q
        BY <1>1, <3>1
      <4> QED
        BY <2>1, <2>3, <4>1 DEF Old
    <3>2. CASE v # w
      <4>1. work'[v] = work[v]
        BY <1>1, <3>2
      <4> QED
        BY <2>1, <2>3, <4>1 DEF Dated
    <3> QED
      BY <3>1, <3>2
  <2> QED
    BY <1>2, <2>2, <2>3 DEF Dated
<1>3. clock' \in { clock, clock + 1 }
  OBVIOUS
<1> SUFFICES ASSUME NEW l \in Link, NEW t \in Nat, Dated(l, t)'
             PROVE  t <= clock' /\ \A k \in Link : Dated(k, t)' => k = l
  BY DEF Dates
<1>4. Dated(l, t) \/ new(l, t)
  BY <1>2
<1>5. Dated(l, t) => t <= clock
  BY DEF Dates
<1>6. t <= clock'
  BY <1>1, <1>3, <1>4, <1>5
<1>7. ASSUME NEW k \in Link, Dated(k, t)' PROVE k = l
  <2>1. Dated(k, t) \/ new(k, t)
    BY <1>2, <1>7
  <2>2. Dated(k, t) => t <= clock
    BY DEF Dates
  <2>3. CASE new(l, t) \/ new(k, t)
    BY <1>1, <1>4, <1>5, <2>1, <2>2, <2>3
  <2>4. CASE ~new(l, t) /\ ~new(k, t)
    BY <1>4, <2>1, <2>4 DEF Dates
  <2> QED
    BY <2>3, <2>4
<1> QED
  BY <1>6, <1>7

\* A step of no handler.
LEMMA DatesStay ==
  ASSUME IInv, Dates, UNCHANGED clock,
         \A w \in Worker : work'[w] = work[w] \/ work'[w] = Idle,
         \A k \in Link : row'[k] # None => Old(k, row'[k].linked_at)
  PROVE  Dates'
<1>1. ASSUME NEW l \in Link, NEW t \in Nat, Dated(l, t)' PROVE Dated(l, t)
  <2>1. t > 0
    BY <1>1 DEF Dated
  <2>2. CASE row'[l] # None /\ row'[l].linked_at = t
    BY <2>1, <2>2 DEF Old
  <2>3. ASSUME NEW v \in Worker, work'[v].link = l, work'[v].copy.linked_at = t
        PROVE  Dated(l, t)
    BY <2>1, <2>3, IdleFine DEF Dated, Idle
  <2> QED
    BY <1>1, <2>2, <2>3 DEF Dated
<1> QED
  BY <1>1 DEF Dates

-----------------------------------------------------------------------------
\* Only messages are carried as messages, and those that arrived.
Carried ==
  /\ \A n \in notes : n.msg # None => n.kind = "message"
  /\ \A w \in Worker : work[w].msg # None => work[w].pc \in { "store", "decide" }
  /\ voices \in [ Message -> Nat ] /\ calm \subseteq Message
  /\ \A m \in Message : heard[m] = {} => voices[m] = 0 /\ m \notin calm

\* What link l received of m is still to be handled.
Pending(l, m) ==
  \/ \E n \in notes : n.msg = m /\ n.link = l
  \/ \E w \in Worker : work[w].msg = m /\ work[w].link = l

\* It has an assistant, and was made last of those that are connected.
Voice(l) == row[l].bot /\ \A k \in LinkedAnywhere \ {l} : row[k].linked_at < row[l].linked_at

\* A message since whose arrival no row has changed: each handler of it has the
\* row as it is, and it is answered when the one link that speaks is done.
Heeded(m) ==
  /\ heard[m] \subseteq LinkedAnywhere
  /\ \A w \in Worker : work[w].msg = m =>
       /\ work[w].copy = row[work[w].link]
       /\ \A v \in Worker : work[v].msg = m /\ work[v].link = work[w].link => v = w
       /\ \A n \in notes : n.msg = m => n.link # work[w].link
  /\ voices[m] = IF \E l \in heard[m] : Voice(l) /\ ~Pending(l, m) THEN 1 ELSE 0

Heeds == Carried /\ \A m \in calm : Heeded(m)

\* A step that is about no message, or after which none is calm.
Quietly ==
  /\ \A w \in Worker :
       work'[w] = work[w] \/ (work'[w].msg = None /\ (work[w].msg = None \/ calm' = {}))
  /\ \A n \in notes' : n \in notes \/ n.msg = None
  /\ \A n \in notes : n \in notes' \/ n.msg \notin calm'
  /\ UNCHANGED << heard, voices >>
  /\ calm' \subseteq calm /\ (calm' = {} \/ row' = row)

\* What is said of a message depends on its notifications, its handlers, the
\* rows and its answers.
LEMMA HeededStays ==
  ASSUME NEW m \in Message, Heeded(m), UNCHANGED row, heard'[m] = heard[m], voices'[m] = voices[m],
         \A n : n.msg = m => (n \in notes' <=> n \in notes),
         \A w \in Worker :
           \/ work'[w].msg = work[w].msg /\ work'[w].link = work[w].link /\ work'[w].copy = work[w].copy
           \/ work'[w].msg # m /\ work[w].msg # m
  PROVE  Heeded(m)'
<1>1. LinkedAnywhere' = LinkedAnywhere
  BY DEF LinkedAnywhere, Numbered, Exists
<1>2. \A l : Voice(l)' = Voice(l)
  BY <1>1 DEF Voice
<1>3. \A l : Pending(l, m)' <=> Pending(l, m)
  BY DEF Pending
<1>4. /\ heard'[m] \subseteq LinkedAnywhere'
      /\ \A w \in Worker : work'[w].msg = m =>
           /\ work'[w].copy = row'[work'[w].link]
           /\ \A v \in Worker : work'[v].msg = m /\ work'[v].link = work'[w].link => v = w
           /\ \A n \in notes' : n.msg = m => n.link # work'[w].link
  BY <1>1 DEF Heeded
<1>5. voices'[m] = IF \E l \in heard'[m] : Voice(l)' /\ ~Pending(l, m)' THEN 1 ELSE 0
  BY <1>2, <1>3 DEF Heeded
<1> QED
  BY <1>4, <1>5 DEF Heeded

LEMMA QuietStep ==
  ASSUME Heeds, Quietly
  PROVE  Heeds'
<1>1. Carried'
  <2>1. \A n \in notes' : n.msg # None => n.kind = "message"
    BY DEF Heeds, Carried, Quietly
  <2>2. \A w \in Worker : work'[w].msg # None => work'[w].pc \in { "store", "decide" }
    BY DEF Heeds, Carried, Quietly
  <2> QED
    BY <2>1, <2>2 DEF Heeds, Carried, Quietly
<1>2. ASSUME NEW m \in calm' PROVE Heeded(m)'
  <2>1. m \in Message /\ m # None /\ Heeded(m)
    BY DEF Heeds, Carried, Quietly
  <2>2. UNCHANGED << row, heard, voices >>
    BY DEF Quietly
  <2>3. \A n : n.msg = m => (n \in notes' <=> n \in notes)
    BY <2>1 DEF Quietly
  <2>4. \A w \in Worker : work'[w] = work[w] \/ (work'[w].msg # m /\ work[w].msg # m)
    BY <2>1 DEF Quietly
  <2> QED
    BY <2>1, <2>2, <2>3, <2>4, HeededStays
<1> QED
  BY <1>1, <1>2 DEF Heeds

\* A handler of anything but a message goes on.
LEMMA QuietWork ==
  ASSUME IInv, Heeds, NEW w \in Worker, NEW q, Goes(w, q), q.msg = None,
         work[w].pc \notin { "store", "decide" },
         \A n \in notes' : n \in notes, \A n \in notes : n \in notes' \/ n.kind # "message",
         UNCHANGED << heard, voices >>, calm' \subseteq calm, calm' = {} \/ row' = row
  PROVE  Heeds'
<1>1. work' = [ work EXCEPT ![w] = q ] /\ work \in [ Worker -> Step ]
  BY DEF Goes, IInv, Works
<1>2. work[w].msg = None
  BY DEF Heeds, Carried
<1>3. \A v \in Worker : work'[v] = work[v] \/ (work'[v].msg = None /\ work[v].msg = None)
  BY <1>1, <1>2
<1>4. \A n \in notes : n \in notes' \/ n.msg \notin calm'
  BY DEF Heeds, Carried
<1> QED
  BY <1>3, <1>4, QuietStep DEF Quietly

LEMMA TableCalm ==
  ASSUME NEW new, Table(new)
  PROVE  calm' \subseteq calm /\ (calm' = {} \/ row' = row)
BY DEF Table

LEMMA UpdateCalm ==
  ASSUME NEW l, NEW c, Update(l, c)
  PROVE  calm' \subseteq calm /\ (calm' = {} \/ row' = row)
BY TableCalm DEF Update

LEMMA DeleteCalm ==
  ASSUME NEW l, Delete(l)
  PROVE  calm' \subseteq calm /\ (calm' = {} \/ row' = row)
BY TableCalm DEF Delete

-----------------------------------------------------------------------------
(* The steps that carry a message. *)

Voiced == Dates /\ Heeds

LEMMA ReceivedVoiced ==
  ASSUME IInv, Voiced, NEW m \in Message, Received(m)
  PROVE  Voiced'
<1> DEFINE open == { l \in Link : socket[l] = "open" }
           heads == { [ link |-> l, kind |-> "message", msg |-> m ] : l \in open }
<1>1. /\ heard' = [ heard EXCEPT ![m] = open ] /\ notes' = notes \cup heads /\ heard[m] = {}
      /\ calm' = (IF open \subseteq LinkedAnywhere THEN calm \cup {m} ELSE calm) /\ open # {}
      /\ UNCHANGED << row, work, clock, voices >>
  BY DEF Received
<1>2. \A l \in open : \E n \in heads : n.msg = m /\ n.link = l
  <2> TAKE l \in open
  <2> WITNESS [ link |-> l, kind |-> "message", msg |-> m ] \in heads
  <2> QED
    OBVIOUS
<1>3. \A n \in heads : n.msg = m /\ n.kind = "message"
  OBVIOUS
<1> HIDE DEF open, heads
<1>4. Dates'
  BY <1>1, DatesStay, SameOld DEF Voiced
<1>5. heard \in [ Message -> SUBSET Link ] /\ m # None
  BY DEF IInv, Tables
<1>6. heard'[m] = open /\ \A o \in Message : o # m => heard'[o] = heard[o]
  BY <1>1, <1>5
<1>7. \A w \in Worker : work[w].msg # m
  BY <1>1, <1>5 DEF Voiced, Heeds, Carried, IInv, Works, Fine
<1>8. voices[m] = 0 /\ m \notin calm
  BY <1>1 DEF Voiced, Heeds, Carried
<1>9. Carried'
  <2>1. \A n \in notes' : n.msg # None => n.kind = "message"
    BY <1>1, <1>3 DEF Voiced, Heeds, Carried
  <2>2. \A o \in Message : heard'[o] = {} => voices'[o] = 0 /\ o \notin calm'
    BY <1>1, <1>6 DEF Voiced, Heeds, Carried
  <2> QED
    BY <1>1, <2>1, <2>2 DEF Voiced, Heeds, Carried
<1>10. ASSUME NEW o \in calm' PROVE Heeded(o)'
  <2>1. CASE o = m
    <3>1. open \subseteq LinkedAnywhere
      BY <1>1, <1>8, <2>1
    <3>2. LinkedAnywhere' = LinkedAnywhere
      BY <1>1 DEF LinkedAnywhere, Numbered, Exists
    <3>3. \A l \in heard'[m] : Pending(l, m)'
      BY <1>1, <1>2, <1>6 DEF Pending
    <3>4. voices'[m] = IF \E l \in heard'[m] : Voice(l)' /\ ~Pending(l, m)' THEN 1 ELSE 0
      BY <1>1, <1>8, <3>3
    <3>5. heard'[m] \subseteq LinkedAnywhere' /\ \A w \in Worker : work'[w].msg # m
      BY <1>1, <1>6, <1>7, <3>1, <3>2
    <3> QED
      BY <2>1, <3>4, <3>5 DEF Heeded
  <2>2. CASE o # m
    <3>1. o \in calm /\ o \in Message
      BY <1>1, <2>2 DEF Voiced, Heeds, Carried
    <3>2. \A n : n.msg = o => (n \in notes' <=> n \in notes)
      BY <1>1, <1>3, <2>2
    <3> QED
      BY <1>1, <1>6, <2>2, <3>1, <3>2, HeededStays DEF Voiced, Heeds
  <2> QED
    BY <2>1, <2>2
<1> QED
  BY <1>4, <1>9, <1>10 DEF Voiced, Heeds

\* The handler takes the place of the notification.
LEMMA InboundVoiced ==
  ASSUME IInv, Voiced, NEW w \in Worker, NEW n, Inbound(w, n)
  PROVE  Voiced'
<1> DEFINE c == ObserveTraffic(row[n.link])
           q == [ Idle EXCEPT !.pc = "store", !.link = n.link, !.msg = n.msg, !.copy = c ]
           m == n.msg
<1>1. /\ n \in notes /\ n.kind = "message" /\ n.link \in Link /\ row[n.link] # None
      /\ work[w].pc = "idle" /\ Goes(w, q) /\ notes' = notes \ {n}
      /\ UNCHANGED << row, clock, heard, voices, calm >>
      /\ m \in Message /\ n.link \in heard[m]
  BY DEF IInv, Notes, Noted, Inbound, At
<1>2. c.linked_at = row[n.link].linked_at /\ (row[n.link].status = "linked" => c = row[n.link])
  <2>1. row[n.link] \in Row
    BY <1>1 DEF IInv, Rows
  <2> QED
    BY <2>1 DEF ObserveTraffic, Row
<1> HIDE DEF c
<1>3. q.pc = "store" /\ q.link = n.link /\ q.copy = c /\ q.msg = m
  BY DEF Idle
<1> HIDE DEF q
<1>4. work' = [ work EXCEPT ![w] = q ] /\ work \in [ Worker -> Step ] /\ work[w].msg = None
  BY <1>1 DEF Goes, IInv, Works, Voiced, Heeds, Carried
<1>5. work'[w] = q /\ \A v \in Worker : v # w => work'[v] = work[v]
  BY <1>4
<1>6. Dates'
  BY <1>1, <1>2, <1>3, DatesGo, SameOld, RowOld DEF Voiced
<1>7. m # None /\ \A o \in notes : o.msg = m /\ o.link = n.link => o = n
  <2>1. m # None
    BY <1>1
  <2>2. ASSUME NEW o \in notes, o.msg = m, o.link = n.link PROVE o = n
    <3>1. o.kind = "message"
      BY <2>1, <2>2 DEF Voiced, Heeds, Carried
    <3>2. /\ o \in [ link : Link, kind : Kinds \cup { "message" }, msg : Message \cup { None } ]
          /\ n \in [ link : Link, kind : Kinds \cup { "message" }, msg : Message \cup { None } ]
      BY <1>1 DEF IInv, Notes
    <3> QED
      BY <1>1, <2>2, <3>1, <3>2
  <2> QED
    BY <2>1, <2>2
<1>8. Carried'
  <2>1. \A v \in Worker : work'[v].msg # None => work'[v].pc \in { "store", "decide" }
    BY <1>3, <1>5 DEF Voiced, Heeds, Carried
  <2> QED
    BY <1>1, <2>1 DEF Voiced, Heeds, Carried
<1>9. ASSUME NEW o \in calm' PROVE Heeded(o)'
  <2>1. o \in calm /\ o \in Message /\ Heeded(o)
    BY <1>1 DEF Voiced, Heeds, Carried
  <2>2. CASE o # m
    <3>1. \A p : p.msg = o => (p \in notes' <=> p \in notes)
      BY <1>1, <2>2
    <3>2. \A v \in Worker : work'[v] = work[v] \/ (work'[v].msg # o /\ work[v].msg # o)
      BY <1>3, <1>4, <1>5, <2>1, <2>2
    <3> QED
      BY <1>1, <2>1, <3>1, <3>2, HeededStays
  <2>3. CASE o = m
    <3>1. LinkedAnywhere' = LinkedAnywhere /\ \A l : Voice(l)' = Voice(l)
      BY <1>1 DEF LinkedAnywhere, Numbered, Exists, Voice
    <3>2. heard[m] \subseteq LinkedAnywhere /\ row[n.link].status = "linked"
      BY <1>1, <2>1, <2>3 DEF Heeded, LinkedAnywhere
    <3>3. c = row[n.link]
      BY <1>2, <3>2
    <3>4. \A v \in Worker : v # w /\ work[v].msg = m => work[v].link # n.link
      BY <1>1, <2>1, <2>3 DEF Heeded
    <3>5. ASSUME NEW v \in Worker, work'[v].msg = m
          PROVE  /\ work'[v].copy = row'[work'[v].link]
                 /\ \A u \in Worker : work'[u].msg = m /\ work'[u].link = work'[v].link => u = v
                 /\ \A p \in notes' : p.msg = m => p.link # work'[v].link
      <4>1. CASE v = w
        BY <1>1, <1>3, <1>5, <1>7, <3>3, <3>4, <4>1
      <4>2. CASE v # w
        BY <1>1, <1>3, <1>5, <2>1, <2>3, <3>4, <3>5, <4>2 DEF Heeded
      <4> QED
        BY <4>1, <4>2
    <3>6. \A l : Pending(l, m)' <=> Pending(l, m)
      <4> TAKE l
      <4>1. CASE l = n.link
        BY <1>1, <1>3, <1>5, <4>1 DEF Pending
      <4>2. CASE l # n.link
        <5>1. \A p : p.link = l => (p \in notes' <=> p \in notes)
          BY <1>1, <4>2
        <5>2. \A v \in Worker : (work'[v].msg = m /\ work'[v].link = l)
                                  <=> (work[v].msg = m /\ work[v].link = l)
          BY <1>3, <1>4, <1>5, <1>7, <4>2
        <5> QED
          BY <5>1, <5>2 DEF Pending
      <4> QED
        BY <4>1, <4>2
    <3>7. voices'[m] = IF \E l \in heard'[m] : Voice(l)' /\ ~Pending(l, m)' THEN 1 ELSE 0
      BY <1>1, <2>1, <2>3, <3>1, <3>6 DEF Heeded
    <3>8. heard'[m] \subseteq LinkedAnywhere'
      BY <1>1, <3>1, <3>2
    <3>9. Heeded(m)'
      BY <3>5, <3>7, <3>8 DEF Heeded
    <3> QED
      BY <2>3, <3>9
  <2> QED
    BY <2>2, <2>3
<1> QED
  BY <1>6, <1>8, <1>9 DEF Voiced, Heeds

LEMMA StoreVoiced ==
  ASSUME IInv, Voiced, NEW w \in Worker, Store(w)
  PROVE  Voiced'
<1> DEFINE s == work[w]
           q == [ s EXCEPT !.pc = "decide" ]
<1>1. /\ Fine(s) /\ s.pc = "store" /\ Update(s.link, s.copy) /\ Goes(w, q)
      /\ UNCHANGED << notes, clock, heard, voices >>
  BY DEF IInv, Works, Store, At
<1>2. s.link # None => Old(s.link, s.copy.linked_at)
  BY CopyOld
<1>3. s = work[w]
  OBVIOUS
<1> HIDE DEF s
<1>4. s.link \in Link /\ s.link # None /\ Good(s.copy) /\ s \in Step
  BY <1>1 DEF Fine, Step
<1>5. q.pc = "decide" /\ q.link = s.link /\ q.copy = s.copy /\ q.msg = s.msg
  BY <1>4 DEF Step
<1> HIDE DEF q
<1>6. Dates'
  BY <1>1, <1>2, <1>4, <1>5, UpdateOld, DatesGo DEF Voiced
<1>7. work' = [ work EXCEPT ![w] = q ] /\ work \in [ Worker -> Step ]
  BY <1>1 DEF Goes, IInv, Works
<1>8. \A v \in Worker : work'[v].msg = work[v].msg /\ work'[v].link = work[v].link
                        /\ work'[v].copy = work[v].copy /\ (v = w \/ work'[v] = work[v])
  BY <1>3, <1>5, <1>7
<1>9. calm' \subseteq calm /\ (calm' = {} \/ row' = row)
  BY <1>1, UpdateCalm
<1>10. Carried'
  <2>1. \A v \in Worker : work'[v].msg # None => work'[v].pc \in { "store", "decide" }
    BY <1>5, <1>7, <1>8 DEF Voiced, Heeds, Carried
  <2> QED
    BY <1>1, <1>9, <2>1 DEF Voiced, Heeds, Carried
<1>11. ASSUME NEW m \in calm' PROVE Heeded(m)'
  <2>1. m \in Message /\ Heeded(m)
    BY <1>9 DEF Voiced, Heeds, Carried
  <2> QED
    BY <1>1, <1>8, <1>9, <2>1, HeededStays
<1> QED
  BY <1>6, <1>10, <1>11 DEF Voiced, Heeds

\* Two links that are connected cannot both have been made last.
LEMMA OneSpeaks ==
  ASSUME IInv, NEW l \in LinkedAnywhere, NEW k \in LinkedAnywhere, Voice(l), Voice(k)
  PROVE  l = k
<1>1. row[l].linked_at \in Nat /\ row[k].linked_at \in Nat
  BY DEF LinkedAnywhere, Numbered, Exists, IInv, Rows, Row
<1> QED
  BY <1>1 DEF Voice

LEMMA DecideVoiced ==
  ASSUME IInv, Voiced, NEW w \in Worker, Decide(w)
  PROVE  Voiced'
<1>1. /\ Fine(work[w]) /\ work[w].pc = "decide" /\ Goes(w, Idle)
      /\ UNCHANGED << row, notes, clock, heard, calm >>
  BY DEF IInv, Works, Decide, At
<1>2. PICK m \in Message, l \in Link : m = work[w].msg /\ l = work[w].link
  BY <1>1 DEF Fine, Step
<1> DEFINE speaks == work[w].copy.bot /\ Speaks(l, work[w].copy)
           voice == IF speaks THEN 1 ELSE 0
<1>3. m # None /\ l \in heard[m] /\ voices \in [ Message -> Nat ]
  BY <1>1, <1>2 DEF Fine, Voiced, Heeds, Carried
<1>4. work' = [ work EXCEPT ![w] = Idle ] /\ work \in [ Worker -> Step ]
  BY <1>1 DEF Goes, IInv, Works
<1>5. work'[w] = Idle /\ \A v \in Worker : v # w => work'[v] = work[v]
  BY <1>4
<1>6. Dates'
  BY <1>1, <1>5, DatesStay, SameOld DEF Voiced
<1>7. voices' = [ voices EXCEPT ![m] = @ + voice ] /\ voice \in { 0, 1 }
  BY <1>2 DEF Decide
<1>8. speaks <=> voice = 1
  OBVIOUS
<1> HIDE DEF voice
<1>9. voices'[m] = voices[m] + voice /\ \A o \in Message : o # m => voices'[o] = voices[o]
  BY <1>3, <1>7
<1>10. Carried'
  <2>1. voices' \in [ Message -> Nat ]
    BY <1>3, <1>7
  <2>2. \A v \in Worker : work'[v].msg # None => work'[v].pc \in { "store", "decide" }
    BY <1>5, IdleFine DEF Voiced, Heeds, Carried
  <2>3. \A o \in Message : heard'[o] = {} => voices'[o] = 0 /\ o \notin calm'
    BY <1>1, <1>3, <1>9 DEF Voiced, Heeds, Carried
  <2> QED
    BY <1>1, <2>1, <2>2, <2>3 DEF Voiced, Heeds, Carried
<1>11. ASSUME NEW o \in calm' PROVE Heeded(o)'
  <2>1. o \in Message /\ Heeded(o) /\ o # None
    BY <1>1 DEF Voiced, Heeds, Carried
  <2>2. CASE o # m
    <3>1. \A v \in Worker : work'[v] = work[v] \/ (work'[v].msg # o /\ work[v].msg # o)
      BY <1>2, <1>5, <2>1, <2>2, IdleFine
    <3> QED
      BY <1>1, <1>9, <2>1, <2>2, <3>1, HeededStays
  <2>3. CASE o = m
    <3>1. LinkedAnywhere' = LinkedAnywhere
      BY <1>1 DEF LinkedAnywhere, Numbered, Exists
    <3>2. /\ heard[m] \subseteq LinkedAnywhere /\ work[w].copy = row[l] /\ l \in LinkedAnywhere
          /\ \A v \in Worker : work[v].msg = m /\ work[v].link = l => v = w
          /\ \A n \in notes : n.msg = m => n.link # l
      BY <1>2, <1>3, <2>1, <2>3 DEF Heeded
    <3>3. speaks <=> Voice(l)
      <4>1. row[l].number
        BY <3>2 DEF LinkedAnywhere, Numbered
      <4> QED
        BY <3>2, <4>1 DEF Speaks, Voice
    <3>4. Pending(l, m) /\ ~Pending(l, m)'
      <4>1. Pending(l, m)
        BY <1>2 DEF Pending
      <4>2. \A n \in notes' : ~(n.msg = m /\ n.link = l)
        BY <1>1, <3>2
      <4>3. \A v \in Worker : ~(work'[v].msg = m /\ work'[v].link = l)
        BY <1>3, <1>5, <3>2, IdleFine
      <4> QED
        BY <4>1, <4>2, <4>3 DEF Pending
    <3>5. ASSUME NEW k, k # l PROVE Pending(k, m)' <=> Pending(k, m)
      <4>1. \A v \in Worker : (work'[v].msg = m /\ work'[v].link = k)
                                <=> (work[v].msg = m /\ work[v].link = k)
        BY <1>2, <1>3, <1>5, <3>5, IdleFine
      <4> QED
        BY <1>1, <4>1 DEF Pending
    <3>6. \A k : Voice(k)' <=> Voice(k)
      BY <1>1, <3>1 DEF Voice
    <3>7. voices'[m] = IF \E k \in heard'[m] : Voice(k)' /\ ~Pending(k, m)' THEN 1 ELSE 0
      <4>1. CASE speaks
        <5>1. voices[m] = 0
          BY <2>1, <2>3, <3>2, <3>3, <3>4, <4>1, OneSpeaks DEF Heeded
        <5>2. l \in heard'[m] /\ Voice(l)' /\ ~Pending(l, m)'
          BY <1>1, <1>3, <3>3, <3>4, <3>6, <4>1
        <5> QED
          BY <1>8, <1>9, <4>1, <5>1, <5>2
      <4>2. CASE ~speaks
        <5>1. voices'[m] = voices[m]
          BY <1>3, <1>7, <1>8, <1>9, <4>2
        <5>2. (\E k \in heard'[m] : Voice(k)' /\ ~Pending(k, m)')
                <=> (\E k \in heard[m] : Voice(k) /\ ~Pending(k, m))
          BY <1>1, <3>3, <3>4, <3>5, <3>6, <4>2
        <5> QED
          BY <2>1, <2>3, <5>1, <5>2 DEF Heeded
      <4> QED
        BY <4>1, <4>2
    <3>8. \A v \in Worker : work'[v].msg = m =>
            /\ work'[v].copy = row'[work'[v].link]
            /\ \A u \in Worker : work'[u].msg = m /\ work'[u].link = work'[v].link => u = v
            /\ \A n \in notes' : n.msg = m => n.link # work'[v].link
      <4> TAKE v \in Worker
      <4> HAVE work'[v].msg = m
      <4>1. v # w /\ work'[v] = work[v] /\ work[v].msg = m
        BY <1>3, <1>5, IdleFine
      <4>2. \A u \in Worker : work'[u].msg = m => u # w /\ work'[u] = work[u]
        BY <1>3, <1>5, IdleFine
      <4> QED
        BY <1>1, <2>1, <2>3, <4>1, <4>2 DEF Heeded
    <3>9. heard'[m] \subseteq LinkedAnywhere'
      BY <1>1, <3>1, <3>2
    <3>10. Heeded(m)'
      BY <3>7, <3>8, <3>9 DEF Heeded
    <3> QED
      BY <2>3, <3>10
  <2> QED
    BY <2>2, <2>3
<1> QED
  BY <1>6, <1>10, <1>11 DEF Voiced, Heeds

-----------------------------------------------------------------------------
(* The steps that carry none. *)

\* What a step leaves of the rows has dates that were given.
RowsDated == \A k \in Link : row'[k] # None => Old(k, row'[k].linked_at)

CalmOrSame == calm' \subseteq calm /\ (calm' = {} \/ row' = row)

\* A handler of an event takes one step with what it has in hand.
LEMMA WorkVoiced ==
  ASSUME IInv, Voiced, NEW w \in Worker, NEW q, Goes(w, q), RowsDated, CalmOrSame,
         work[w].pc \notin { "store", "decide" },
         q.msg = work[w].msg, q.link = work[w].link,
         q.link # None => q.copy.linked_at = work[w].copy.linked_at,
         UNCHANGED << clock, notes, heard, voices >>
  PROVE  Voiced'
<1>1. work[w].msg = None
  BY DEF Voiced, Heeds, Carried
<1>2. q.link # None => Old(q.link, q.copy.linked_at)
  BY CopyOld
<1>3. Dates'
  BY <1>2, DatesGo DEF Voiced, RowsDated
<1>4. Heeds'
  BY <1>1, QuietWork DEF Voiced, CalmOrSame
<1> QED
  BY <1>3, <1>4 DEF Voiced

\* A handler is done, or takes up something that is no message.
LEMMA TurnVoiced ==
  ASSUME IInv, Voiced, NEW w \in Worker, NEW q, Goes(w, q), RowsDated, CalmOrSame,
         work[w].pc \notin { "store", "decide" }, q.msg = None,
         q.link # None => Old(q.link, q.copy.linked_at),
         UNCHANGED << clock, notes, heard, voices >>
  PROVE  Voiced'
<1>1. Dates'
  BY DatesGo DEF Voiced, RowsDated
<1>2. Heeds'
  BY QuietWork DEF Voiced, CalmOrSame
<1> QED
  BY <1>1, <1>2 DEF Voiced

\* Nobody steps.
LEMMA StillVoiced ==
  ASSUME IInv, Voiced, UNCHANGED << work, clock, heard, voices >>, RowsDated, CalmOrSame,
         \A n \in notes' : n \in notes \/ n.msg = None,
         \A n \in notes : n \in notes' \/ n.msg \notin calm'
  PROVE  Voiced'
<1>1. Dates'
  BY DatesStay DEF Voiced, RowsDated
<1>2. Heeds'
  BY QuietStep DEF Voiced, CalmOrSame, Quietly
<1> QED
  BY <1>1, <1>2 DEF Voiced

LEMMA SameRows ==
  ASSUME IInv, UNCHANGED << row, calm >>
  PROVE  RowsDated /\ CalmOrSame
BY SameOld DEF RowsDated, CalmOrSame

LEMMA UpdatedRows ==
  ASSUME IInv, NEW l \in Link, NEW c, Good(c), Update(l, c), Old(l, c.linked_at)
  PROVE  RowsDated /\ CalmOrSame
BY UpdateOld, UpdateCalm DEF RowsDated, CalmOrSame

LEMMA BridgeVoiced ==
  ASSUME IInv, Voiced, Bridge
  PROVE  Voiced'
<1>1. ASSUME NEW l \in Link,
             QrOffered(l) \/ Scanned(l) \/ Dropped(l) \/ Reconnected(l) \/ Revoked(l)
      PROVE  Voiced'
  <2>1. UNCHANGED << row, calm, work, clock, heard, voices >>
    BY <1>1 DEF QrOffered, Scanned, Dropped, Reconnected, Revoked
  <2>2. notes' = notes \/ \E kind : Notify(l, kind)
    BY <1>1 DEF QrOffered, Scanned, Dropped, Reconnected, Revoked
  <2>3. /\ \A n \in notes' : n \in notes \/ n.msg = None
        /\ notes \subseteq notes'
    BY <2>2 DEF Notify
  <2> QED
    BY <2>1, <2>3, SameRows, StillVoiced
<1>2. ASSUME NEW n, GivenUp(n) PROVE Voiced'
  <2>1. RowsDated /\ CalmOrSame
    BY <1>2, SameOld DEF GivenUp, RowsDated, CalmOrSame
  <2> QED
    BY <1>2, <2>1, StillVoiced DEF GivenUp
<1>3. CASE Restarted
  BY <1>3, SameRows, StillVoiced DEF Restarted
<1> QED
  BY <1>1, <1>2, <1>3, ReceivedVoiced DEF Bridge

LEMMA UnknownSessionVoiced ==
  ASSUME IInv, Voiced, NEW w \in Worker, NEW n, UnknownSession(w, n)
  PROVE  Voiced'
<1>1. RowsDated /\ CalmOrSame
  BY SameOld DEF UnknownSession, RowsDated, CalmOrSame
<1> QED
  BY <1>1, StillVoiced DEF UnknownSession

LEMMA AfterMade ==
  ASSUME NEW r \in Row, NEW kind \in Kinds
  PROVE  IF kind = "linked" THEN After(r, kind).linked_at = clock + 1
                            ELSE After(r, kind).linked_at = r.linked_at
<1>1. CASE kind = "linked"
  <2>1. After(r, kind) = [ r EXCEPT !.status = "linked", !.number = TRUE, !.linked_at = clock + 1 ]
    BY <1>1 DEF After, MarkLinked
  <2> QED
    BY <1>1, <2>1 DEF Row
<1>2. CASE kind # "linked"
  <2>1. \E st \in Status : After(r, kind) = [ r EXCEPT !.status = st ]
    BY <1>2 DEF After, OfferQr, MarkDisconnected, MarkLoggedOut, MarkFailed, Kinds, Status
  <2> QED
    BY <1>2, <2>1 DEF Row
<1> QED
  BY <1>1, <1>2

LEMMA EventVoiced ==
  ASSUME IInv, Voiced, NEW w \in Worker, NEW n, Event(w, n)
  PROVE  Voiced'
<1> DEFINE c == After(row[n.link], n.kind)
           pc == IF n.kind = "linked" THEN "mark" ELSE "write"
           q == [ Idle EXCEPT !.pc = pc, !.link = n.link, !.copy = c ]
<1>1. /\ n.link \in Link /\ row[n.link] # None /\ work[w].pc = "idle" /\ Goes(w, q)
      /\ n.kind \in Kinds /\ n.kind # "message" /\ notes' = notes \ {n}
      /\ clock' = (IF n.kind = "linked" THEN clock + 1 ELSE clock)
      /\ UNCHANGED << row, heard, voices, calm >>
  BY DEF IInv, Notes, Event, At
<1>2. IF n.kind = "linked" THEN c.linked_at = clock + 1 ELSE c.linked_at = row[n.link].linked_at
  <2>1. row[n.link] \in Row
    BY <1>1 DEF IInv, Rows
  <2> QED
    BY <1>1, <2>1, AfterMade
<1> HIDE DEF c, pc
<1>3. q.link = n.link /\ q.copy = c /\ q.msg = None
  BY DEF Idle
<1> HIDE DEF q
<1>4. Old(n.link, row[n.link].linked_at)
  BY <1>1, RowOld
<1>5. Dates'
  <2>1. \A k \in Link : row'[k] # None => Old(k, row'[k].linked_at)
    BY <1>1, SameOld
  <2>2. CASE n.kind = "linked"
    <3>1. clock' = clock + 1 /\ q.copy.linked_at = clock + 1
      BY <1>1, <1>2, <1>3, <2>2
    <3> QED
      BY <1>1, <2>1, <3>1, DatesGo DEF Voiced
  <2>3. CASE n.kind # "linked"
    <3>1. clock' = clock /\ Old(q.link, q.copy.linked_at)
      BY <1>1, <1>2, <1>3, <1>4, <2>3
    <3> QED
      BY <1>1, <2>1, <3>1, DatesGo DEF Voiced
  <2> QED
    BY <2>2, <2>3
<1>6. Heeds'
  BY <1>1, <1>3, QuietWork DEF Voiced
<1> QED
  BY <1>5, <1>6 DEF Voiced

LEMMA MarkVoiced ==
  ASSUME IInv, Voiced, NEW w \in Worker, Mark(w)
  PROVE  Voiced'
<1> DEFINE s == work[w]
           q == [ s EXCEPT !.pc = "list" ]
<1>1. /\ Fine(s) /\ s.pc = "mark" /\ Update(s.link, s.copy) /\ Goes(w, q)
      /\ UNCHANGED << notes, clock, heard, voices >>
  BY DEF IInv, Works, Mark, At
<1>2. s.link \in Link /\ s.link # None /\ Good(s.copy) /\ s \in Step
  BY <1>1 DEF Fine, Step
<1>3. Old(s.link, s.copy.linked_at)
  BY <1>2, CopyOld
<1>4. RowsDated /\ CalmOrSame
  BY <1>1, <1>2, <1>3, UpdatedRows
<1>5. s = work[w]
  OBVIOUS
<1> HIDE DEF s
<1>6. q.link = s.link /\ q.copy = s.copy /\ q.msg = s.msg
  BY <1>2 DEF Step
<1> HIDE DEF q
<1> QED
  BY <1>1, <1>4, <1>5, <1>6, WorkVoiced

LEMMA WriteVoiced ==
  ASSUME IInv, Voiced, NEW w \in Worker, Write(w)
  PROVE  Voiced'
<1> DEFINE s == work[w]
<1>1. /\ Fine(s) /\ s.pc \in { "write", "sever" } /\ Update(s.link, s.copy) /\ Goes(w, Idle)
      /\ UNCHANGED << notes, clock, heard, voices >>
  BY DEF IInv, Works, Write, At
<1>2. s.link \in Link /\ s.link # None /\ Good(s.copy) /\ s \in Step
  BY <1>1 DEF Fine, Step
<1>3. Old(s.link, s.copy.linked_at)
  BY <1>2, CopyOld
<1>4. RowsDated /\ CalmOrSame
  BY <1>1, <1>2, <1>3, UpdatedRows
<1>5. Idle.link = None /\ Idle.msg = None
  BY DEF Idle
<1> QED
  BY <1>1, <1>4, <1>5, TurnVoiced

LEMMA ListVoiced ==
  ASSUME IInv, Voiced, NEW w \in Worker, ListTwins(w) \/ ListCollisions(w)
  PROVE  Voiced'
<1>1. PICK todo, pc : Goes(w, [ work[w] EXCEPT !.pc = pc, !.todo = todo ])
  BY DEF ListTwins, ListCollisions
<1> DEFINE s == work[w]
           q == [ s EXCEPT !.pc = pc, !.todo = todo ]
<1>2. /\ s \in Step /\ s.pc \notin { "store", "decide" } /\ Goes(w, q)
      /\ UNCHANGED << row, calm, notes, clock, heard, voices >>
  BY <1>1 DEF IInv, Works, ListTwins, ListCollisions, At
<1>3. s = work[w]
  OBVIOUS
<1> HIDE DEF s
<1>4. q.link = s.link /\ q.copy = s.copy /\ q.msg = s.msg
  BY <1>2 DEF Step
<1> HIDE DEF q
<1> QED
  BY <1>2, <1>3, <1>4, SameRows, WorkVoiced

LEMMA AbsorbVoiced ==
  ASSUME IInv, Voiced, NEW w \in Worker, Absorb(w)
  PROVE  Voiced'
<1> DEFINE s == work[w]
<1>1. /\ Fine(s) /\ s.pc = "absorb" /\ s = work[w]
      /\ UNCHANGED << notes, clock, heard, voices >>
  BY DEF IInv, Works, Absorb, At
<1>2. PICK stale \in Newest(s.todo) :
        LET carries == stale.bot /\ ~s.copy.bot
            keeper == IF carries THEN [ s.copy EXCEPT !.bot = TRUE ] ELSE s.copy
        IN /\ IF carries THEN Update(s.link, keeper) ELSE UNCHANGED << row, calm >>
           /\ Goes(w, [ s EXCEPT !.pc = "retire", !.copy = keeper ])
  BY DEF Absorb
<1> DEFINE carries == stale.bot /\ ~s.copy.bot
           keeper == IF carries THEN [ s.copy EXCEPT !.bot = TRUE ] ELSE s.copy
           q == [ s EXCEPT !.pc = "retire", !.copy = keeper ]
<1> HIDE DEF s
<1>3. s.link \in Link /\ s.link # None /\ Good(s.copy) /\ s.copy \in Row /\ s \in Step
  BY <1>1, <1>2 DEF Newest, Fine, AtHome, Step, Good
<1>4. Good(keeper) /\ keeper.linked_at = s.copy.linked_at
  <2>1. [ s.copy EXCEPT !.bot = TRUE ].linked_at = s.copy.linked_at
    BY <1>3 DEF Row
  <2> QED
    BY <1>3, <2>1, BotGood
<1>5. /\ Goes(w, q)
      /\ IF carries THEN Update(s.link, keeper) ELSE UNCHANGED << row, calm >>
  BY <1>2
<1> HIDE DEF keeper, carries
<1>6. q.link = s.link /\ q.copy = keeper /\ q.msg = s.msg
  BY <1>3 DEF Step
<1> HIDE DEF q
<1>7. Old(s.link, keeper.linked_at)
  BY <1>1, <1>3, <1>4, CopyOld
<1>8. RowsDated /\ CalmOrSame
  BY <1>3, <1>4, <1>5, <1>7, UpdatedRows, SameRows
<1> QED
  BY <1>1, <1>4, <1>5, <1>6, <1>8, WorkVoiced

LEMMA LogOutVoiced ==
  ASSUME IInv, Voiced, NEW w \in Worker,
         LogOut(w, "retire", "remove") \/ LogOut(w, "sever", "drop")
  PROVE  Voiced'
<1>1. PICK to : Goes(w, [ work[w] EXCEPT !.pc = to ])
  BY DEF LogOut
<1> DEFINE s == work[w]
           q == [ s EXCEPT !.pc = to ]
<1>2. /\ s \in Step /\ s.pc \notin { "store", "decide" } /\ Goes(w, q)
      /\ UNCHANGED << row, calm, notes, clock, heard, voices >>
  BY <1>1 DEF IInv, Works, LogOut, At
<1>3. s = work[w]
  OBVIOUS
<1> HIDE DEF s
<1>4. q.link = s.link /\ q.copy = s.copy /\ q.msg = s.msg
  BY <1>2 DEF Step
<1> HIDE DEF q
<1> QED
  BY <1>2, <1>3, <1>4, SameRows, WorkVoiced

LEMMA RemoveVoiced ==
  ASSUME IInv, Voiced, NEW w \in Worker,
         Remove(w, "remove", "absorb") \/ Remove(w, "drop", "sever")
  PROVE  Voiced'
<1>0. PICK to \in { "absorb", "sever" } :
        Remove(w, IF to = "absorb" THEN "remove" ELSE "drop", to)
  OBVIOUS
<1>1. PICK other \in Newest(work[w].todo) :
        Delete(other.link) /\ Goes(w, [ work[w] EXCEPT !.pc = to, !.todo = @ \ {other} ])
  BY <1>0 DEF Remove
<1> DEFINE s == work[w]
           q == [ s EXCEPT !.pc = to, !.todo = @ \ {other} ]
<1>2. /\ Fine(s) /\ s \in Step /\ s.pc \notin { "store", "decide" } /\ Goes(w, q)
      /\ UNCHANGED << notes, clock, heard, voices >>
  BY <1>0, <1>1 DEF IInv, Works, Remove, At
<1>3. s = work[w]
  OBVIOUS
<1> HIDE DEF s
<1>4. other.link \in Link
  BY <1>1, <1>2, <1>3 DEF Newest, Step, Twin
<1>5. RowsDated /\ CalmOrSame
  BY <1>1, <1>4, DeleteOld, DeleteCalm DEF RowsDated, CalmOrSame
<1>6. q.link = s.link /\ q.copy = s.copy /\ q.msg = s.msg
  BY <1>2 DEF Step
<1> HIDE DEF q
<1> QED
  BY <1>2, <1>3, <1>5, <1>6, WorkVoiced

LEMMA FinishVoiced ==
  ASSUME IInv, Voiced, NEW w \in Worker, Finish(w)
  PROVE  Voiced'
<1>1. /\ work[w].pc = "absorb" /\ Goes(w, Idle)
      /\ UNCHANGED << row, calm, notes, clock, heard, voices >>
  BY DEF Finish, At
<1>2. Idle.link = None /\ Idle.msg = None
  BY DEF Idle
<1> QED
  BY <1>1, <1>2, SameRows, TurnVoiced

LEMMA DeskVoiced ==
  ASSUME IInv, Voiced, NEW l \in Link,
         Create(l) \/ Refresh(l) \/ \E bot \in BOOLEAN : Attach(l, bot)
  PROVE  Voiced'
<1>1. CASE Refresh(l)
  BY <1>1, SameRows, StillVoiced DEF Refresh
<1>2. CASE Create(l)
  <2>1. PICK ok \in BOOLEAN :
          Table([ row EXCEPT ![l] = IF ok THEN Fresh ELSE MarkFailed(Fresh) ])
    BY <1>2 DEF Create
  <2> DEFINE r == IF ok THEN Fresh ELSE MarkFailed(Fresh)
  <2>2. r.linked_at = 0
    BY DEF Fresh, MarkFailed
  <2>3. Table([ row EXCEPT ![l] = r ])
    BY <2>1
  <2> HIDE DEF r
  <2>4. row'[l] = r /\ \A k \in Link : k # l => row'[k] = row[k]
    BY <2>3 DEF Table, IInv, Rows
  <2>5. RowsDated
    <3> SUFFICES ASSUME NEW k \in Link, row'[k] # None PROVE Old(k, row'[k].linked_at)
      BY DEF RowsDated
    <3>1. CASE k = l
      BY <2>2, <2>4, <3>1 DEF Old
    <3>2. CASE k # l
      BY <2>4, <3>2, RowOld
    <3> QED
      BY <3>1, <3>2
  <2>6. CalmOrSame
    BY <2>3, TableCalm DEF CalmOrSame
  <2> QED
    BY <1>2, <2>5, <2>6, StillVoiced DEF Create
<1>3. ASSUME NEW bot \in BOOLEAN, Attach(l, bot) PROVE Voiced'
  <2>1. l \in Exists /\ Table([ row EXCEPT ![l].bot = bot ])
    BY <1>3 DEF Attach
  <2> DEFINE r == [ row[l] EXCEPT !.bot = bot ]
  <2>2. row[l] # None /\ row[l] \in Row
    BY <2>1 DEF IInv, Rows, Exists
  <2>3. r.linked_at = row[l].linked_at
    BY <2>2 DEF Row
  <2>4. row' = [ row EXCEPT ![l] = r ]
    BY <2>1 DEF Table
  <2> HIDE DEF r
  <2>5. row'[l] = r /\ \A k \in Link : k # l => row'[k] = row[k]
    BY <2>4 DEF IInv, Rows
  <2>6. RowsDated
    <3> SUFFICES ASSUME NEW k \in Link, row'[k] # None PROVE Old(k, row'[k].linked_at)
      BY DEF RowsDated
    <3>1. CASE k = l
      BY <2>2, <2>3, <2>5, <3>1, RowOld
    <3>2. CASE k # l
      BY <2>5, <3>2, RowOld
    <3> QED
      BY <3>1, <3>2
  <2>7. CalmOrSame
    BY <2>1, TableCalm DEF CalmOrSame
  <2> QED
    BY <1>3, <2>6, <2>7, StillVoiced DEF Attach
<1> QED
  BY <1>1, <1>2, <1>3

LEMMA UnlinkVoiced ==
  ASSUME IInv, Voiced, NEW w \in Worker, NEW l \in Link, Unlink(w, l)
  PROVE  Voiced'
<1> DEFINE q == [ Idle EXCEPT !.pc = "retire", !.desk = TRUE,
                              !.todo = { [ link |-> l, bot |-> FALSE ] } ]
<1>1. Goes(w, q) /\ work[w].pc = "idle" /\ UNCHANGED << row, calm, notes, clock, heard, voices >>
  BY DEF Unlink, At
<1>2. q.link = None /\ q.msg = None
  BY DEF Idle
<1> HIDE DEF q
<1> QED
  BY <1>1, <1>2, SameRows, TurnVoiced

LEMMA MergeVoiced ==
  ASSUME IInv, Voiced, NEW w \in Worker, NEW tenant \in Tenant, MergeDuplicates(w, tenant)
  PROVE  Voiced'
<1>1. PICK keeper \in LinkedToNumber(tenant) : \E todo :
        Goes(w, [ Idle EXCEPT !.pc = "absorb", !.link = keeper, !.copy = row[keeper],
                    !.desk = TRUE, !.todo = todo ])
  BY DEF MergeDuplicates
<1>0. PICK todo :
        Goes(w, [ Idle EXCEPT !.pc = "absorb", !.link = keeper, !.copy = row[keeper],
                    !.desk = TRUE, !.todo = todo ])
  BY <1>1
<1> DEFINE q == [ Idle EXCEPT !.pc = "absorb", !.link = keeper, !.copy = row[keeper],
                              !.desk = TRUE, !.todo = todo ]
<1>2. Goes(w, q) /\ work[w].pc = "idle" /\ UNCHANGED << row, calm, notes, clock, heard, voices >>
  BY <1>0 DEF MergeDuplicates, At
<1>3. q.link = keeper /\ q.copy = row[keeper] /\ q.msg = None
  BY DEF Idle
<1> HIDE DEF q
<1>4. Old(keeper, row[keeper].linked_at)
  BY RowOld DEF LinkedToNumber, Numbered, Exists
<1> QED
  BY <1>2, <1>3, <1>4, SameRows, TurnVoiced

LEMMA CrashVoiced ==
  ASSUME IInv, Voiced, Crash
  PROVE  Voiced'
<1>1. /\ \A w \in Worker : work'[w] = Idle
      /\ UNCHANGED << row, notes, clock, heard, voices >> /\ calm' = {}
  BY DEF Crash
<1>2. Dates'
  BY <1>1, DatesStay, SameOld DEF Voiced
<1>3. Heeds'
  BY <1>1, IdleFine, QuietStep DEF Voiced, Quietly
<1> QED
  BY <1>2, <1>3 DEF Voiced

LEMMA HandlerVoiced ==
  ASSUME IInv, Voiced, NEW w \in Worker, Handler(w)
  PROVE  Voiced'
<1>1. CASE \E n \in notes : UnknownSession(w, n) \/ Inbound(w, n) \/ Event(w, n)
  BY <1>1, UnknownSessionVoiced, InboundVoiced, EventVoiced
<1>2. CASE Store(w) \/ Decide(w) \/ Mark(w) \/ Write(w) \/ Finish(w)
  BY <1>2, StoreVoiced, DecideVoiced, MarkVoiced, WriteVoiced, FinishVoiced
<1>3. CASE ListTwins(w) \/ Absorb(w) \/ ListCollisions(w)
  BY <1>3, ListVoiced, AbsorbVoiced
<1>4. CASE Retire(w) \/ Sever(w)
  BY <1>4, LogOutVoiced, RemoveVoiced DEF Retire, Sever
<1> QED
  BY <1>1, <1>2, <1>3, <1>4 DEF Handler

LEMMA VoicedStep ==
  ASSUME IInv, Voiced, [Next]_vars
  PROVE  Voiced'
<1>1. CASE Operator
  BY <1>1, DeskVoiced, UnlinkVoiced, MergeVoiced DEF Operator
<1>2. CASE UNCHANGED vars
  BY <1>2, SameRows, StillVoiced DEF vars
<1> QED
  BY <1>1, <1>2, BridgeVoiced, HandlerVoiced, CrashVoiced DEF Next

\* The links there are at the start were made one after the other.
LEMMA InitDates ==
  ASSUME Init
  PROVE  Dates
<1>1. PICK waiting \in SUBSET Link, linked \in SUBSET Link :
        /\ row = [ l \in Link |->
             IF l \in waiting THEN Fresh
             ELSE IF l \notin linked THEN None
             ELSE [ MarkLinked(Fresh, Cardinality({ k \in linked : k <= l })) EXCEPT !.bot = TRUE ] ]
        /\ clock = Cardinality(linked)
  BY DEF Init
<1> DEFINE upto(l) == { k \in linked : k <= l }
<1>2. \A w \in Worker : work[w].link = None
  BY DEF Init, Idle
<1>3. IsFiniteSet(linked) /\ linked \subseteq Nat
  BY <1>1, FS_Subset
<1>4. ASSUME NEW l \in Link, NEW t \in Nat, Dated(l, t)
      PROVE  l \in linked /\ t = Cardinality(upto(l))
  <2>1. t > 0 /\ row[l] # None /\ row[l].linked_at = t
    BY <1>2, <1>4 DEF Dated
  <2>2. l \notin waiting /\ l \in linked
    BY <1>1, <2>1 DEF Fresh
  <2> DEFINE c == Cardinality(upto(l))
  <2>3. row[l] = [ MarkLinked(Fresh, c) EXCEPT !.bot = TRUE ]
    BY <1>1, <2>2
  <2> HIDE DEF c
  <2>4. row[l].linked_at = c
    BY <2>3 DEF MarkLinked, Fresh
  <2> QED
    BY <2>1, <2>2, <2>4 DEF c
<1>5. \A l : upto(l) \subseteq linked
  OBVIOUS
<1>6. ASSUME NEW l \in linked, NEW k \in linked, Cardinality(upto(l)) = Cardinality(upto(k)), k <= l
      PROVE  k = l
  <2>1. ASSUME NEW j \in linked, j <= k PROVE j <= l
    <3>1. j \in Nat /\ k \in Nat /\ l \in Nat
      BY <1>3
    <3> QED
      BY <1>6, <2>1, <3>1
  <2>2. IsFiniteSet(upto(l))
    BY <1>3, <1>5, FS_Subset
  <2>3. l \in upto(l) /\ upto(k) \subseteq upto(l)
    <3>1. l \in Nat
      BY <1>3
    <3>2. l <= l
      BY <3>1
    <3> QED
      BY <2>1, <3>2
  <2> HIDE DEF upto
  <2>4. upto(k) = upto(l)
    BY <1>6, <2>2, <2>3, FS_Subset
  <2>5. l \in upto(k)
    BY <2>3, <2>4
  <2> QED
    BY <1>3, <1>6, <2>5 DEF upto
<1> HIDE DEF upto
<1> SUFFICES ASSUME NEW l \in Link, NEW t \in Nat, Dated(l, t)
             PROVE  t <= clock /\ \A k \in Link : Dated(k, t) => k = l
  BY DEF Dates
<1>7. t <= clock
  BY <1>1, <1>3, <1>4, <1>5, FS_Subset
<1>8. ASSUME NEW k \in Link, Dated(k, t) PROVE k = l
  <2>1. l \in linked /\ k \in linked /\ Cardinality(upto(l)) = Cardinality(upto(k))
    BY <1>4, <1>8
  <2>2. k <= l \/ l <= k
    BY <1>3, <2>1
  <2> QED
    BY <1>6, <2>1, <2>2
<1> QED
  BY <1>7, <1>8

LEMMA InitVoiced ==
  ASSUME Init
  PROVE  Voiced
<1>1. /\ notes = {} /\ work = [ w \in Worker |-> Idle ] /\ calm = {}
      /\ voices = [ m \in Message |-> 0 ]
  BY DEF Init
<1>2. Heeds
  BY <1>1, IdleFine DEF Heeds, Carried
<1> QED
  BY <1>2, InitDates DEF Voiced

\* Who has answered, and who is still to be heard, of each calm message.
THEOREM VoiceInvariant == Spec => []Voiced
<1>1. Init => Voiced
  BY InitVoiced
<1>2. IInv /\ Voiced /\ [Next]_vars => Voiced'
  BY VoicedStep
<1> QED
  BY <1>1, <1>2, Invariance, PTL DEF Spec

\* _speaks_for_number, answering_session: for any number of links and handlers,
\* a message that reached connected links, and since whose arrival no row has
\* changed, is answered once and not twice, when the link made last answers.
THEOREM LastLinkAnswers == Spec => []OneVoice
<1>1. IInv /\ Voiced => OneVoice
  <2> SUFFICES ASSUME IInv, Voiced, NEW m \in calm
               PROVE  /\ voices[m] <= 1
                      /\ (\A n \in notes : n.msg # m) /\ (\A w \in Worker : work[w].msg # m) =>
                           \A l \in heard[m] :
                             row[l].bot /\ (\A k \in LinkedAnywhere : row[k].linked_at <= row[l].linked_at)
                               => voices[m] = 1
    BY DEF OneVoice
  <2>1. Heeded(m)
    BY DEF Voiced, Heeds
  <2>2. voices[m] <= 1
    BY <2>1 DEF Heeded
  <2>3. ASSUME \A n \in notes : n.msg # m, \A w \in Worker : work[w].msg # m,
               NEW l \in heard[m], row[l].bot,
               \A k \in LinkedAnywhere : row[k].linked_at <= row[l].linked_at
        PROVE  voices[m] = 1
    <3>1. ~Pending(l, m) /\ l \in LinkedAnywhere
      BY <2>1, <2>3 DEF Pending, Heeded
    <3>2. \A k \in LinkedAnywhere : k \in Link /\ row[k] # None /\ row[k].linked_at \in Nat
                                    /\ row[k].linked_at > 0
      BY DEF LinkedAnywhere, Numbered, Exists, IInv, Rows, Good, Row
    <3>3. ASSUME NEW k \in LinkedAnywhere, k # l PROVE row[k].linked_at < row[l].linked_at
      <4>1. Dated(k, row[k].linked_at) /\ Dated(l, row[l].linked_at)
        BY <3>1, <3>2 DEF Dated
      <4>2. row[k].linked_at # row[l].linked_at
        BY <3>1, <3>2, <3>3, <4>1 DEF Voiced, Dates
      <4> QED
        BY <2>3, <3>1, <3>2, <4>2
    <3>4. Voice(l)
      BY <2>3, <3>3 DEF Voice
    <3> QED
      BY <2>1, <3>1, <3>4 DEF Heeded
  <2> QED
    BY <2>2, <2>3
<1> QED
  BY <1>1, Invariance, VoiceInvariant, PTL

===============================================================================
