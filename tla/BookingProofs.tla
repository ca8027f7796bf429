---------------------------- MODULE BookingProofs ----------------------------
(***************************************************************************)
(* What holds of Booking for every value of its constants: the types, the  *)
(* exclusion of overlapping reservations, the refinement of Calendar, that *)
(* a hold keeps its time when it is confirmed, and, under hypotheses about *)
(* which requests meet, that a key is booked once, that booked time and    *)
(* appointments belong together, and that nobody is double booked.         *)
(***************************************************************************)
EXTENDS Booking, TLAPS

------------------------------------------------------------------------------
(* The inductive invariant *)

\* A request carries the arguments its operation has, and each operation is
\* only ever at its own statements.
Shape(p) ==
  /\ pc[p] \notin Rest => req[p].op \in Op /\ (req[p].op # "sweep" => serial[p] > 0)
  /\ req[p].op \in { "hold", "book", "confirm" } => req[p].service \in Service
  /\ req[p].op \in { "book", "confirm" } => req[p].status \in Status
  /\ req[p].op = "transition" => req[p].status \in Status
  /\ req[p].op \in { "transition", "reschedule", "details" } =>
       req[p].appt \in ApptId /\ appts[req[p].appt] # Null
  /\ pc[p] = "read" => req[p].op \in { "transition", "reschedule", "details" }
  /\ pc[p] = "write" => req[p].op \in { "transition", "reschedule", "details" }
                        /\ copy[p] \in Appointment
  /\ pc[p] = "resolve" => req[p].op \in { "hold", "book", "reschedule" }
  /\ pc[p] = "purge" => req[p].op \in { "hold", "book", "reschedule" }
  /\ pc[p] = "reserve" => req[p].op \in { "hold", "book", "reschedule" }
  /\ pc[p] \in { "replay", "lookup", "insert" } => req[p].op \in { "book", "confirm" }
  /\ pc[p] = "convert" => req[p].op = "confirm" /\ req[p].appt \in ApptId
  /\ pc[p] = "release" => req[p].op \in { "transition", "reschedule" }
  /\ req[p].op = "reschedule" /\ pc[p] \notin Rest \cup { "read" } =>
       copy[p] \in Appointment

\* A locked row has a version of its session; nothing is locked at rest.
Locked ==
  /\ \A r \in RowId : resvLock[r] # Null =>
       resvDraft[r] # Null /\ pc[resvLock[r]] \notin Rest
  /\ \A a \in ApptId : apptsLock[a] # Null =>
       apptsDraft[a] # Null /\ pc[apptsLock[a]] \notin Rest

\* The rows an open UPDATE has found exist.
Found ==
  \A p \in Proc : targets[p] # Null =>
    \A r \in targets[p] : R!Seen(p, r) # Null

TypeInv == TypeOK /\ (\A p \in Proc : Shape(p)) /\ Locked /\ Found

\* A row's number is that of the request that made it, and it is committed with
\* that request; until then only its maker has it.
Made ==
  \A r \in RowId :
    /\ resv[r] # Null =>
         \/ r[2] < serial[r[1]]
         \/ r[2] = serial[r[1]] /\ (pc[r[1]] \in Rest \/ req[r[1]].op = "sweep")
    /\ resv[r] = Null /\ resvLock[r] # Null =>
         resvLock[r] = r[1] /\ r[2] = serial[r[1]]

\* The version every open transaction would leave if it committed.
Newest(r) == IF resvLock[r] = Null THEN resv[r] ELSE resvDraft[r]

\* No two rows clash, whichever open transactions commit: among the committed
\* versions, among the newest ones, and between the two when another session,
\* or none, holds the row.
Apart ==
  \A r, s \in RowId : r # s =>
    /\ ~Clash(resv[r], resv[s])
    /\ ~Clash(Newest(r), Newest(s))
    /\ resvLock[r] # resvLock[s] => ~Clash(resv[r], Newest(s))

Inv == TypeInv /\ Made /\ Apart

------------------------------------------------------------------------------
(* Rows *)

\* A row's id is its maker, the number of its request, and its resource.
LEMMA RowIds ==
  ASSUME NEW r \in RowId
  PROVE  /\ r[1] \in Proc /\ r[2] \in 1..Budget[r[1]] /\ r[3] \in Resource
         /\ r = << r[1], r[2], r[3] >>
BY DEF RowId

LEMMA MadeRowIds ==
  ASSUME NEW p \in Proc, NEW n \in 1..Budget[p], NEW x \in Resource
  PROVE  << p, n, x >> \in RowId /\ << p, n >> \in ApptId
BY DEF RowId, ApptId

LEMMA ClashSymmetric ==
  ASSUME NEW v, NEW w, Clash(v, w)
  PROVE  Clash(w, v)
BY DEF Clash, Overlaps

------------------------------------------------------------------------------
(* The initial state *)

LEMMA InitInv == Init => Inv
<1> SUFFICES ASSUME Init PROVE Inv
  OBVIOUS
<1> USE NullAssumption, RowAssumption, BoundAssumption DEF Init, R!Empty, A!Empty
<1>1. TypeOK
  BY DEF TypeOK, Rest, Blank, Ask, Request
<1>2. \A p \in Proc : Shape(p)
  BY DEF Shape, Rest, Blank, Ask, Op
<1>3. Locked /\ Found
  BY DEF Locked, Found
<1>4. Made
  BY DEF Made
<1>5. Apart
  BY DEF Apart, Clash, Live, Newest
<1> QED
  BY <1>1, <1>2, <1>3, <1>4, <1>5 DEF Inv, TypeInv

------------------------------------------------------------------------------
(* What each effect on the reservations does to Apart *)

\* An UPDATE that keeps the place of what it touches, or takes it away.
LEMMA UpdateApart ==
  ASSUME TypeOK, Apart, NEW p \in Proc, NEW ids \in SUBSET RowId, NEW new,
         R!Put(p, ids, new),
         \A r \in ids : R!Lockable(p, r),
         \A r \in ids : \A w : Clash(new[r], w) => Clash(R!Seen(p, r), w)
  PROVE  Apart'
<1> SUFFICES ASSUME NEW r \in RowId, NEW s \in RowId, r # s
             PROVE  /\ ~Clash(resv[r], resv[s])'
                    /\ ~Clash(Newest(r), Newest(s))'
                    /\ (resvLock[r] # resvLock[s])' => ~Clash(resv[r], Newest(s))'
  BY DEF Apart
<1>1. /\ resv' = resv
      /\ \A x \in RowId : resvLock'[x] = IF x \in ids THEN p ELSE resvLock[x]
      /\ \A x \in RowId : Newest(x)' = IF x \in ids THEN new[x] ELSE Newest(x)
  BY NullAssumption DEF R!Put, Newest
<1>2. \A x \in ids : R!Seen(p, x) = Newest(x) /\ resvLock[x] \in { p, Null }
  BY NullAssumption DEF R!Lockable, R!Seen, Newest
<1>3. \A x \in RowId : resvLock[x] = Null => Newest(x) = resv[x]
  BY DEF Newest
<1>4. /\ ~Clash(resv[r], resv[s]) /\ ~Clash(resv[s], resv[r])
      /\ ~Clash(Newest(r), Newest(s)) /\ ~Clash(Newest(s), Newest(r))
      /\ resvLock[r] # resvLock[s] => /\ ~Clash(resv[r], Newest(s))
                                     /\ ~Clash(resv[s], Newest(r))
  BY DEF Apart
<1>5. ~Clash(resv[r], resv[s])'
  BY <1>1, <1>4 DEF Clash
<1>6. ~Clash(Newest(r)', Newest(s)')
  <2>1. CASE r \in ids /\ s \in ids
    BY <2>1, <1>1, <1>2, <1>4, ClashSymmetric
  <2>2. CASE r \in ids /\ s \notin ids
    BY <2>2, <1>1, <1>2, <1>4
  <2>3. CASE r \notin ids /\ s \in ids
    BY <2>3, <1>1, <1>2, <1>4, ClashSymmetric
  <2>4. CASE r \notin ids /\ s \notin ids
    BY <2>4, <1>1, <1>4
  <2> QED
    BY <2>1, <2>2, <2>3, <2>4
<1>7. ASSUME resvLock'[r] # resvLock'[s]
      PROVE  ~Clash(resv[r], Newest(s)')
  <2>1. CASE s \in ids
    <3>1. ~Clash(resv[r], Newest(s))
      BY <2>1, <1>1, <1>2, <1>3, <1>4, <1>7
    <3> QED
      BY <3>1, <2>1, <1>1, <1>2, ClashSymmetric
  <2>2. CASE s \notin ids
    <3>1. ~Clash(resv[r], Newest(s))
      BY <2>2, <1>1, <1>2, <1>3, <1>4, <1>7
    <3> QED
      BY <3>1, <2>2, <1>1
  <2> QED
    BY <2>1, <2>2
<1> QED
  BY <1>1, <1>5, <1>6, <1>7 DEF Clash

\* An INSERT the constraint lets through, of rows nobody else has.
LEMMA InsertApart ==
  ASSUME TypeOK, Apart, NEW p \in Proc, NEW ids \in SUBSET RowId, NEW new,
         R!Put(p, ids, new),
         \A r \in ids : R!Lockable(p, r),
         \A r, s \in ids : r # s => ~Clash(new[r], new[s]),
         \A r \in ids : ~Refused(p, new[r]) /\ Waits(p, new[r]) = {}
  PROVE  Apart'
<1> SUFFICES ASSUME NEW r \in RowId, NEW s \in RowId, r # s
             PROVE  /\ ~Clash(resv[r], resv[s])'
                    /\ ~Clash(Newest(r), Newest(s))'
                    /\ (resvLock[r] # resvLock[s])' => ~Clash(resv[r], Newest(s))'
  BY DEF Apart
<1>1. /\ resv' = resv
      /\ \A x \in RowId : resvLock'[x] = IF x \in ids THEN p ELSE resvLock[x]
      /\ \A x \in RowId : Newest(x)' = IF x \in ids THEN new[x] ELSE Newest(x)
  BY NullAssumption DEF R!Put, Newest
<1>2. \A x \in ids : resvLock[x] \in { p, Null }
  BY DEF R!Lockable
<1>3. ASSUME NEW x \in ids, NEW y \in RowId
      PROVE  /\ ~Clash(new[x], Newest(y)) /\ ~Clash(Newest(y), new[x])
             /\ resvLock[y] # p => ~Clash(new[x], resv[y]) /\ ~Clash(resv[y], new[x])
  <2>1. ~Clash(new[x], Newest(y)) /\ (resvLock[y] # p => ~Clash(new[x], resv[y]))
    <3>1. CASE R!Lockable(p, y)
      BY <3>1, NullAssumption DEF Refused, R!Lockable, R!Seen, Newest
    <3>2. CASE ~R!Lockable(p, y)
      BY <3>2, NullAssumption DEF Waits, R!Lockable, Newest
    <3> QED
      BY <3>1, <3>2
  <2> QED
    BY <2>1, ClashSymmetric
<1>4. /\ ~Clash(resv[r], resv[s])
      /\ ~Clash(Newest(r), Newest(s))
      /\ resvLock[r] # resvLock[s] => ~Clash(resv[r], Newest(s))
  BY DEF Apart
<1>5. ~Clash(Newest(r)', Newest(s)')
  BY <1>1, <1>3, <1>4, ClashSymmetric
<1>6. ASSUME resvLock'[r] # resvLock'[s]
      PROVE  ~Clash(resv[r], Newest(s)')
  <2>1. CASE s \in ids
    BY <2>1, <1>1, <1>3, <1>6
  <2>2. CASE s \notin ids
    BY <2>2, <1>1, <1>2, <1>4, <1>6 DEF Newest
  <2> QED
    BY <2>1, <2>2
<1> QED
  BY <1>1, <1>4, <1>5, <1>6 DEF Clash

LEMMA CommitApart ==
  ASSUME TypeOK, Apart, NEW p \in Proc, R!Commit(p)
  PROVE  Apart'
<1> SUFFICES ASSUME NEW r \in RowId, NEW s \in RowId, r # s
             PROVE  /\ ~Clash(resv[r], resv[s])'
                    /\ ~Clash(Newest(r), Newest(s))'
                    /\ (resvLock[r] # resvLock[s])' => ~Clash(resv[r], Newest(s))'
  BY DEF Apart
<1>1. \A x \in RowId :
        /\ resv'[x] = IF resvLock[x] = p THEN Newest(x) ELSE resv[x]
        /\ resvLock'[x] = IF resvLock[x] = p THEN Null ELSE resvLock[x]
        /\ Newest(x)' = Newest(x)
  BY NullAssumption DEF R!Commit, R!Unlock, Newest
<1>2. /\ ~Clash(resv[r], resv[s])
      /\ ~Clash(Newest(r), Newest(s))
      /\ resvLock[r] # resvLock[s] => /\ ~Clash(resv[r], Newest(s))
                                     /\ ~Clash(resv[s], Newest(r))
  BY DEF Apart
<1>3. ~Clash(resv'[r], resv'[s])
  BY <1>1, <1>2, ClashSymmetric
<1>4. resvLock'[r] # resvLock'[s] => ~Clash(resv'[r], Newest(s)')
  BY <1>1, <1>2
<1> QED
  BY <1>1, <1>2, <1>3, <1>4 DEF Clash

LEMMA RollbackApart ==
  ASSUME TypeOK, Apart, NEW p \in Proc, R!Rollback(p)
  PROVE  Apart'
<1> SUFFICES ASSUME NEW r \in RowId, NEW s \in RowId, r # s
             PROVE  /\ ~Clash(resv[r], resv[s])'
                    /\ ~Clash(Newest(r), Newest(s))'
                    /\ (resvLock[r] # resvLock[s])' => ~Clash(resv[r], Newest(s))'
  BY DEF Apart
<1>1. \A x \in RowId :
        /\ resv'[x] = resv[x]
        /\ resvLock'[x] = IF resvLock[x] = p THEN Null ELSE resvLock[x]
        /\ Newest(x)' = IF resvLock[x] = p THEN resv[x] ELSE Newest(x)
  BY NullAssumption DEF R!Rollback, R!Unlock, Newest
<1>2. /\ ~Clash(resv[r], resv[s])
      /\ ~Clash(Newest(r), Newest(s))
      /\ resvLock[r] # resvLock[s] => /\ ~Clash(resv[r], Newest(s))
                                     /\ ~Clash(resv[s], Newest(r))
  BY DEF Apart
<1>3. ~Clash(Newest(r)', Newest(s)')
  BY <1>1, <1>2, ClashSymmetric
<1>4. resvLock'[r] # resvLock'[s] => ~Clash(resv'[r], Newest(s)')
  BY <1>1, <1>2 DEF Newest
<1> QED
  BY <1>1, <1>2, <1>3, <1>4 DEF Clash

LEMMA StutterApart ==
  ASSUME Apart, UNCHANGED resvVars
  PROVE  Apart'
BY DEF Apart, resvVars, Newest, Clash

------------------------------------------------------------------------------
(* What one process does to the invariant of the others *)

\* p changes its own memory; appointments do not disappear.
LEMMA OthersShape ==
  ASSUME NEW p \in Proc, NEW q \in Proc, q # p, TypeOK, Shape(q),
         pc'[q] = pc[q], req'[q] = req[q], serial'[q] = serial[q],
         copy'[q] = copy[q],
         \A a \in ApptId : appts[a] # Null => appts'[a] # Null
  PROVE  Shape(q)'
BY DEF Shape, TypeOK, Request

\* A statement of p, or its end, hides no reservation from another session.
LEMMA OthersSeen ==
  ASSUME TypeOK, Locked, NEW p \in Proc, NEW q \in Proc, q # p, NEW r \in RowId,
         \/ UNCHANGED resvVars
         \/ R!Commit(p)
         \/ R!Rollback(p)
         \/ \E ids \in SUBSET RowId : \E new :
              R!Put(p, ids, new) /\ \A x \in ids : R!Lockable(p, x),
         R!Seen(q, r) # Null
  PROVE  R!Seen(q, r)' # Null
<1>1. CASE UNCHANGED resvVars
  BY <1>1 DEF resvVars, R!Seen
<1>2. CASE R!Commit(p)
  BY <1>2, NullAssumption DEF R!Commit, R!Unlock, R!Seen, Locked, TypeOK
<1>3. CASE R!Rollback(p)
  BY <1>3, NullAssumption DEF R!Rollback, R!Unlock, R!Seen, TypeOK
<1>4. CASE \E ids \in SUBSET RowId : \E new :
              R!Put(p, ids, new) /\ \A x \in ids : R!Lockable(p, x)
  BY <1>4, NullAssumption DEF R!Put, R!Lockable, R!Seen, TypeOK
<1> QED
  BY <1>1, <1>2, <1>3, <1>4

------------------------------------------------------------------------------
(* Types, action by action *)

LEMMA BlankRequest == Blank \in Request
BY DEF Blank, Ask, Request

LEMMA RequestsTyped ==
  ASSUME TypeOK, NEW r \in Requests
  PROVE  /\ r \in Request /\ r.op \in Op
         /\ r.op \in { "hold", "book", "confirm" } => r.service \in Service
         /\ r.op \in { "book", "confirm", "transition" } => r.status \in Status
         /\ r.op \in { "transition", "reschedule", "details" } =>
              r.appt \in ApptId /\ appts[r.appt] # Null
<1>1. /\ Issued \subseteq Token
      /\ \A a \in Booked : a \in ApptId /\ appts[a] # Null
  BY DEF Issued, Booked, TypeOK, Reservation
<1>2. PICK op \in Op, s \in Service \cup {Null}, t \in Start \cup {0},
           n \in Token \cup {Null}, a \in ApptId \cup {Null},
           o \in Status \cup {Null}, k \in Key \cup {Null} :
        /\ r = Ask(op, s, t, n, a, o, k)
        /\ op \in { "hold", "book", "confirm" } => s \in Service
        /\ op \in { "book", "confirm", "transition" } => o \in Status
        /\ op \in { "transition", "reschedule", "details" } =>
             a \in ApptId /\ appts[a] # Null
  <2> USE <1>1, RequestAssumption DEF Op
  <2>1. CASE r \in { Ask("hold", s, t, Null, Null, Null, Null) :
                      s \in Service, t \in Start }
    BY <2>1
  <2>2. CASE r \in { Ask("book", s, t, Null, Null, o, k) :
                s \in Service, t \in Start, o \in Opening, k \in Key \cup {Null} }
    <3> PICK s \in Service, t \in Start, o \in Opening, k \in Key \cup {Null} :
               r = Ask("book", s, t, Null, Null, o, k)
      BY <2>2
    <3> WITNESS "book" \in Op, s \in Service \cup {Null}, t \in Start \cup {0},
                Null \in Token \cup {Null}, Null \in ApptId \cup {Null},
                o \in Status \cup {Null}, k \in Key \cup {Null}
    <3> QED
      OBVIOUS
  <2>3. CASE r \in { Ask("confirm", s, 0, n, Null, o, k) :
               s \in Service, n \in Issued, o \in Opening, k \in Key \cup {Null} }
    BY <2>3
  <2>4. CASE r \in { Ask("drop", Null, 0, n, Null, Null, Null) : n \in Issued }
    BY <2>4
  <2>5. CASE r \in { Ask("transition", Null, 0, Null, a, s, Null) :
                      a \in Booked, s \in Targets }
    BY <2>5
  <2>6. CASE r \in { Ask("reschedule", Null, t, Null, a, Null, Null) :
                      a \in Booked, t \in Start }
    BY <2>6
  <2>7. CASE r \in { Ask("details", Null, 0, Null, a, Null, Null) : a \in Booked }
    <3> PICK a \in Booked : r = Ask("details", Null, 0, Null, a, Null, Null)
      BY <2>7
    <3> WITNESS "details" \in Op, Null \in Service \cup {Null}, 0 \in Start \cup {0},
                Null \in Token \cup {Null}, a \in ApptId \cup {Null},
                Null \in Status \cup {Null}, Null \in Key \cup {Null}
    <3> QED
      OBVIOUS
  <2>8. CASE r = Ask("sweep", Null, 0, Null, Null, Null, Null)
    BY <2>8
  <2> QED
    BY <2>1, <2>2, <2>3, <2>4, <2>5, <2>6, <2>7, <2>8 DEF Requests
<1>3. /\ r.op = op /\ r.service = s /\ r.status = o /\ r.appt = a
      /\ r \in Request
  BY <1>2, RequestAssumption DEF Ask, Request
<1> QED
  BY <1>2, <1>3

\* The parts of TypeOK: the tables, the pcs and the memory of the processes.
TablesOK ==
  /\ resv \in [ RowId -> Reservation \cup {Null} ]
  /\ resvDraft \in [ RowId -> Reservation \cup {Null} ]
  /\ resvLock \in [ RowId -> Proc \cup {Null} ]
  /\ appts \in [ ApptId -> Appointment \cup {Null} ]
  /\ apptsDraft \in [ ApptId -> Appointment \cup {Null} ]
  /\ apptsLock \in [ ApptId -> Proc \cup {Null} ]

MemoryOK ==
  /\ serial \in [ Proc -> Nat ] /\ \A p \in Proc : serial[p] <= Budget[p]
  /\ req \in [ Proc -> Request ]
  /\ now \in [ Proc -> 0..MaxClock ]
  /\ targets \in [ Proc -> (SUBSET RowId) \cup {Null} ]
  /\ team \in [ Proc -> SUBSET Resource ]
  /\ copy \in [ Proc -> Appointment \cup {Null} ]

\* They say together what TypeOK says.
LEMMA TypeParts ==
  TypeOK <=> /\ clock \in 0..MaxClock /\ pc \in [ Proc -> Rest \cup Stage ]
             /\ TablesOK /\ MemoryOK
BY DEF TypeOK, TablesOK, MemoryOK

LEMMA ForgetMemory ==
  ASSUME MemoryOK, NEW p \in Proc, Forget(p)
  PROVE  MemoryOK'
BY BlankRequest, BoundAssumption DEF MemoryOK, Forget

LEMMA EndTables ==
  ASSUME TablesOK, NEW p \in Proc,
         (R!Commit(p) /\ A!Commit(p)) \/ (R!Rollback(p) /\ A!Rollback(p))
  PROVE  TablesOK'
BY DEF TablesOK, R!Commit, A!Commit, R!Rollback, A!Rollback, R!Unlock, A!Unlock

LEMMA GiveUpTypeInv ==
  ASSUME TypeInv, NEW p \in Proc, NEW reply \in Rest, GiveUp(p, reply)
  PROVE  TypeInv'
<1> USE NullAssumption DEF TypeInv
<1>1. TypeOK'
  <2>1. MemoryOK' /\ TablesOK'
    BY TypeParts, ForgetMemory, EndTables DEF GiveUp
  <2> QED
    BY <2>1 DEF TypeOK, TablesOK, MemoryOK, GiveUp, Goto
<1>2. ASSUME NEW q \in Proc PROVE Shape(q)'
  <2>1. CASE q = p
    BY <2>1 DEF Shape, GiveUp, Goto, Forget, Blank, Ask, TypeOK, Rest, Op
  <2>2. CASE q # p
    BY <2>2, OthersShape DEF GiveUp, Goto, Forget, TypeOK, A!Rollback
  <2> QED
    BY <2>1, <2>2
<1>3. Locked'
  BY DEF Locked, GiveUp, Goto, TypeOK, R!Rollback, R!Unlock, A!Rollback, A!Unlock
<1>4. Found'
  <2> SUFFICES ASSUME NEW q \in Proc, targets'[q] # Null, NEW r \in targets'[q]
               PROVE  R!Seen(q, r)' # Null
    BY DEF Found
  <2>1. q # p /\ targets'[q] = targets[q]
    BY DEF GiveUp, Forget, TypeOK
  <2> QED
    BY <2>1, OthersSeen DEF Found, GiveUp, TypeOK
<1> QED
  BY <1>1, <1>2, <1>3, <1>4

LEMMA CommitTypeInv ==
  ASSUME TypeInv, NEW p \in Proc, Commit(p)
  PROVE  TypeInv'
<1> USE NullAssumption DEF TypeInv
<1>1. TypeOK'
  <2>1. MemoryOK' /\ TablesOK'
    <3>1. R!Commit(p) /\ A!Commit(p) /\ Forget(p)
      BY DEF Commit
    <3>2. MemoryOK /\ TablesOK
      BY TypeParts
    <3>3. MemoryOK'
      BY <3>1, <3>2, ForgetMemory
    <3>4. TablesOK'
      BY <3>1, <3>2, EndTables
    <3> QED
      BY <3>3, <3>4
  <2> QED
    BY <2>1 DEF TypeOK, TablesOK, MemoryOK, Commit, Goto, Rest
<1>2. ASSUME NEW q \in Proc PROVE Shape(q)'
  <2>1. CASE q = p
    BY <2>1 DEF Shape, Commit, Goto, Forget, Blank, Ask, TypeOK, Rest, Op
  <2>2. CASE q # p
    BY <2>2, OthersShape DEF Commit, Goto, Forget, TypeOK, A!Commit, Locked
  <2> QED
    BY <2>1, <2>2
<1>3. Locked'
  BY DEF Locked, Commit, Goto, TypeOK, R!Commit, R!Unlock, A!Commit, A!Unlock
<1>4. Found'
  <2> SUFFICES ASSUME NEW q \in Proc, targets'[q] # Null, NEW r \in targets'[q]
               PROVE  R!Seen(q, r)' # Null
    BY DEF Found
  <2>1. q # p /\ targets'[q] = targets[q]
    BY DEF Commit, Forget, TypeOK
  <2> QED
    BY <2>1, OthersSeen DEF Found, Commit, TypeOK
<1> QED
  BY <1>1, <1>2, <1>3, <1>4

LEMMA BeginTypeInv ==
  ASSUME TypeInv, NEW p \in Proc, Begin(p)
  PROVE  TypeInv'
<1> USE NullAssumption DEF TypeInv
<1>1. PICK r \in Requests : /\ r.op \in Allowed[p]
                            /\ r.op # "sweep" => serial[p] < Budget[p]
                            /\ req' = [ req EXCEPT ![p] = r ]
                            /\ serial' = [ serial EXCEPT ![p] =
                                 IF r.op = "sweep" THEN serial[p] ELSE serial[p] + 1 ]
                            /\ Goto(p, First(r.op))
  BY DEF Begin
<1>2. /\ r \in Request /\ r.op \in Op
      /\ r.op \in { "hold", "book", "confirm" } => r.service \in Service
      /\ r.op \in { "book", "confirm", "transition" } => r.status \in Status
      /\ r.op \in { "transition", "reschedule", "details" } =>
           r.appt \in ApptId /\ appts[r.appt] # Null
  BY RequestsTyped
<1>3. /\ First(r.op) \in Stage \ Rest
      /\ First(r.op) = "read" => r.op \in { "transition", "reschedule", "details" }
      /\ First(r.op) = "resolve" => r.op = "hold"
      /\ First(r.op) = "replay" => r.op \in { "book", "confirm" }
      /\ First(r.op) \in { "resolve", "replay", "read", "drop", "sweep" }
      /\ r.op = "reschedule" => First(r.op) = "read"
  BY <1>2 DEF First, Op, Stage, Updates, Rest
<1>4. TypeOK'
  <2>1. serial' \in [ Proc -> Nat ] /\ \A q \in Proc : serial'[q] <= Budget[q]
    <3>1. r.op # "sweep" => serial[p] + 1 <= Budget[p]
      <4>1. serial[p] \in Nat /\ Budget[p] \in Nat
        BY BoundAssumption DEF TypeOK
      <4> QED
        BY <1>1, <4>1
    <3> QED
      BY <1>1, <3>1 DEF TypeOK
  <2>2. MemoryOK'
    BY <1>1, <1>2, <2>1, TypeParts DEF MemoryOK, Begin, TypeOK
  <2>3. TablesOK'
    BY TypeParts DEF TablesOK, Begin, resvVars, apptVars
  <2> QED
    BY <1>1, <1>3, <2>2, <2>3 DEF TypeOK, TablesOK, MemoryOK, Begin, Goto
<1>5. ASSUME NEW q \in Proc PROVE Shape(q)'
  <2>1. CASE q = p
    <3>1. pc'[p] = First(r.op) /\ req'[p] = r /\ appts' = appts
          /\ (r.op # "sweep" => serial'[p] > 0)
      BY <1>1 DEF Goto, TypeOK, Begin, apptVars
    <3> QED
      BY <2>1, <3>1, <1>2, <1>3 DEF Shape, Rest
  <2>2. CASE q # p
    BY <1>1, <2>2, OthersShape DEF Begin, Goto, TypeOK, apptVars
  <2> QED
    BY <2>1, <2>2
<1>6. Locked'
  BY <1>1, <1>3 DEF Locked, Begin, Goto, TypeOK, resvVars, apptVars
<1>7. Found'
  BY DEF Found, Begin, resvVars, R!Seen
<1> QED
  BY <1>4, <1>5, <1>6, <1>7

------------------------------------------------------------------------------
(* Types: the statements *)

\* A statement of p that goes on to another one.
LEMMA StepTypeInv ==
  ASSUME TypeInv, NEW p \in Proc, NEW stage \in Stage, Goto(p, stage),
         UNCHANGED << clock, serial >>,
         TablesOK', MemoryOK', Locked',
         Shape(p)',
         \A q \in Proc \ {p} : /\ req'[q] = req[q] /\ copy'[q] = copy[q]
                                /\ targets'[q] = targets[q],
         \A a \in ApptId : appts[a] # Null => appts'[a] # Null,
         \/ UNCHANGED resvVars
         \/ \E ids \in SUBSET RowId : \E new :
              R!Put(p, ids, new) /\ \A x \in ids : R!Lockable(p, x),
         targets'[p] # Null => \A r \in targets'[p] : R!Seen(p, r)' # Null
  PROVE  TypeInv'
<1>1. TypeOK'
  BY DEF TypeInv, TypeOK, TablesOK, MemoryOK, Goto
<1>2. ASSUME NEW q \in Proc PROVE Shape(q)'
  <2>1. CASE q # p
    BY <2>1, OthersShape DEF TypeInv, Goto, TypeOK
  <2> QED
    BY <2>1
<1>3. Found'
  <2> SUFFICES ASSUME NEW q \in Proc, targets'[q] # Null, NEW r \in targets'[q]
               PROVE  R!Seen(q, r)' # Null
    BY DEF Found
  <2>1. CASE q # p
    <3>1. targets[q] # Null /\ r \in targets[q] /\ r \in RowId
      BY <2>1 DEF TypeInv, TypeOK
    <3>2. R!Seen(q, r) # Null
      BY <3>1 DEF TypeInv, Found
    <3> QED
      BY <2>1, <3>1, <3>2, OthersSeen DEF TypeInv
  <2> QED
    BY <2>1
<1> QED
  BY <1>1, <1>2, <1>3 DEF TypeInv

\* A statement that only reads.
LEMMA ReadTypeInv ==
  ASSUME TypeInv, NEW p \in Proc, NEW stage \in Stage, Goto(p, stage),
         pc[p] \notin Rest,
         UNCHANGED << clock, serial, resvVars, apptVars >>,
         MemoryOK', Shape(p)',
         \A q \in Proc \ {p} : /\ req'[q] = req[q] /\ copy'[q] = copy[q]
                                /\ targets'[q] = targets[q],
         targets'[p] # Null => \A r \in targets'[p] : R!Seen(p, r) # Null
  PROVE  TypeInv'
<1>1. TablesOK'
  BY DEF TypeInv, TypeOK, TablesOK, resvVars, apptVars
<1>2. stage \notin Rest
  BY DEF Stage, Updates, Rest
<1>3. Locked'
  BY <1>2 DEF TypeInv, Locked, TypeOK, Goto, resvVars, apptVars
<1>4. \A r \in RowId : R!Seen(p, r)' = R!Seen(p, r)
  BY DEF R!Seen, resvVars
<1>5. targets'[p] # Null => targets'[p] \subseteq RowId
  BY DEF MemoryOK
<1>6. \A a \in ApptId : appts[a] # Null => appts'[a] # Null
  BY DEF apptVars
<1> QED
  BY <1>1, <1>3, <1>4, <1>5, <1>6, StepTypeInv

LEMMA SeenTyped ==
  ASSUME TypeOK, NEW p \in Proc
  PROVE  /\ \A r \in RowId : R!Seen(p, r) \in Reservation \cup {Null}
         /\ \A a \in ApptId : A!Seen(p, a) \in Appointment \cup {Null}
BY DEF TypeOK, R!Seen, A!Seen

LEMMA ReplayTypeInv ==
  ASSUME TypeInv, NEW p \in Proc, Replay(p)
  PROVE  TypeInv'
<1>1. CASE GiveUp(p, "replayed")
  BY <1>1, GiveUpTypeInv DEF Rest
<1>2. CASE ~GiveUp(p, "replayed")
  <2>1. PICK k \in Key \cup {Null} : req' = [ req EXCEPT ![p].key = k ]
    BY <1>2 DEF Replay, TypeInv, TypeOK, Request
  <2>2. /\ pc[p] = "replay"
        /\ Goto(p, IF req[p].op = "book" THEN "resolve" ELSE "lookup")
        /\ UNCHANGED << clock, resvVars, apptVars, serial, now, targets, team, copy >>
    BY <1>2 DEF Replay
  <2>3. MemoryOK'
    <3>1. [ req[p] EXCEPT !.key = k ] \in Request
      BY DEF TypeInv, TypeOK, Request
    <3> QED
      BY <2>1, <2>2, <3>1 DEF MemoryOK, TypeInv, TypeOK
  <2>4. Shape(p)'
    <3>1. req[p].op \in { "book", "confirm" }
      BY <2>2 DEF TypeInv, Shape
    <3>2. /\ req'[p].op = req[p].op /\ req'[p].service = req[p].service
          /\ req'[p].status = req[p].status
      BY <2>1 DEF TypeInv, TypeOK, Request
    <3>3. pc'[p] = IF req[p].op = "book" THEN "resolve" ELSE "lookup"
      BY <2>2 DEF Goto, TypeInv, TypeOK
    <3> QED
      BY <2>2, <3>1, <3>2, <3>3 DEF TypeInv, Shape, Rest
  <2>5. \A q \in Proc \ {p} : req'[q] = req[q]
    BY <2>1 DEF TypeInv, TypeOK
  <2>6. targets[p] # Null => \A r \in targets[p] : R!Seen(p, r) # Null
    BY DEF TypeInv, Found
  <2>7. pc[p] \notin Rest
    BY <2>2 DEF Rest
  <2>8. (IF req[p].op = "book" THEN "resolve" ELSE "lookup") \in Stage
    BY DEF Stage
  <2> QED
    BY <2>2, <2>3, <2>4, <2>5, <2>6, <2>7, <2>8, ReadTypeInv
<1> QED
  BY <1>1, <1>2

LEMMA LookupTypeInv ==
  ASSUME TypeInv, NEW p \in Proc, Lookup(p)
  PROVE  TypeInv'
<1>1. CASE GiveUp(p, "conflict")
  BY <1>1, GiveUpTypeInv DEF Rest
<1>2. CASE ~GiveUp(p, "conflict")
  <2> DEFINE held == { R!Seen(p, r) : r \in { x \in RowId :
                         /\ Hold(R!Seen(p, x))
                         /\ R!Seen(p, x).token = req[p].token
                         /\ ~Expired(R!Seen(p, x), now[p]) } }
  <2>1. PICK h \in held :
          /\ team' = [ team EXCEPT ![p] = { v.resource : v \in held } ]
          /\ req' = [ req EXCEPT ![p].start =
                                   h.window.start + Before[req[p].service] ]
          /\ Goto(p, "insert")
          /\ UNCHANGED << clock, resvVars, apptVars, serial, now, targets, copy >>
    BY <1>2 DEF Lookup
  <2>2. held \subseteq Reservation
    BY SeenTyped DEF Hold, Live, TypeInv
  <2>3. pc[p] = "lookup" /\ req[p].op \in { "book", "confirm" }
        /\ req[p].service \in Service /\ req[p].status \in Status
    BY DEF Lookup, TypeInv, Shape
  <2>4. MemoryOK'
    <3> DEFINE start == h.window.start + Before[req[p].service]
    <3>1. start \in Int
      BY <2>2, <2>3, ServiceAssumption DEF Reservation, Interval
    <3>2. [ req[p] EXCEPT !.start = start ] \in Request
      <4>1. req[p] \in Request
        BY DEF TypeInv, TypeOK
      <4> HIDE DEF start
      <4> QED
        BY <3>1, <4>1 DEF Request
    <3>3. { v.resource : v \in held } \subseteq Resource
      BY <2>2 DEF Reservation
    <3> HIDE DEF held
    <3> QED
      BY <2>1, <3>2, <3>3 DEF MemoryOK, TypeInv, TypeOK
  <2>5. Shape(p)'
    <3>1. /\ req'[p].op = req[p].op /\ req'[p].service = req[p].service
          /\ req'[p].status = req[p].status
      BY <2>1 DEF TypeInv, TypeOK, Request
    <3>2. pc'[p] = "insert"
      BY <2>1 DEF Goto, TypeInv, TypeOK
    <3> HIDE DEF held
    <3> QED
      BY <2>1, <2>3, <3>1, <3>2 DEF TypeInv, Shape, Rest
  <2>6. \A q \in Proc \ {p} : req'[q] = req[q]
    BY <2>1 DEF TypeInv, TypeOK
  <2>7. targets[p] # Null => \A r \in targets[p] : R!Seen(p, r) # Null
    BY DEF TypeInv, Found
  <2>8. pc[p] \notin Rest /\ "insert" \in Stage
    BY <2>3 DEF Rest, Stage
  <2> HIDE DEF held
  <2> QED
    BY <2>1, <2>4, <2>5, <2>6, <2>7, <2>8, ReadTypeInv
<1> QED
  BY <1>1, <1>2

LEMMA ResolveSlotTypeInv ==
  ASSUME TypeInv, NEW p \in Proc, ResolveSlot(p)
  PROVE  TypeInv'
<1>1. CASE GiveUp(p, "conflict")
  BY <1>1, GiveUpTypeInv DEF Rest
<1>2. CASE ~GiveUp(p, "conflict")
  <2> DEFINE stage == IF req[p].op = "book" THEN "insert" ELSE "purge"
  <2>1. PICK t \in Offered(p) :
          /\ team' = [ team EXCEPT ![p] = t ]
          /\ Goto(p, stage)
          /\ UNCHANGED << clock, resvVars, apptVars, serial, req, now, targets, copy >>
    BY <1>2 DEF ResolveSlot
  <2>2. pc[p] = "resolve" /\ req[p].op \in { "hold", "book", "reschedule" }
    BY DEF ResolveSlot, TypeInv, Shape
  <2>3. MemoryOK'
    <3>1. Wanted(p) \in Service
      BY <2>2 DEF Wanted, TypeInv, Shape, Rest, Appointment
    <3>2. t \subseteq Resource
      BY <3>1, ServiceAssumption DEF Offered
    <3> QED
      BY <2>1, <3>2 DEF MemoryOK, TypeInv, TypeOK
  <2>4. Shape(p)'
    <3>1. pc'[p] = stage
      BY <2>1 DEF Goto, TypeInv, TypeOK
    <3> QED
      BY <2>1, <2>2, <3>1 DEF TypeInv, Shape, Rest, apptVars
  <2>5. targets[p] # Null => \A r \in targets[p] : R!Seen(p, r) # Null
    BY DEF TypeInv, Found
  <2>6. pc[p] \notin Rest /\ stage \in Stage
    BY <2>2 DEF Rest, Stage, Updates
  <2> HIDE DEF stage
  <2> QED
    BY <2>1, <2>3, <2>4, <2>5, <2>6, ReadTypeInv
<1> QED
  BY <1>1, <1>2

LEMMA ReadActionTypeInv ==
  ASSUME TypeInv, NEW p \in Proc, Read(p)
  PROVE  TypeInv'
<1>1. CASE GiveUp(p, "invalid")
  BY <1>1, GiveUpTypeInv DEF Rest
<1>2. CASE ~GiveUp(p, "invalid")
  <2> DEFINE v == A!Seen(p, req[p].appt)
             mine == IF req[p].op = "transition"
                     THEN [ v EXCEPT !.status = req[p].status ] ELSE v
             stage == IF req[p].op = "reschedule" THEN "release" ELSE "write"
  <2>1. /\ pc[p] = "read"
        /\ copy' = [ copy EXCEPT ![p] = mine ]
        /\ Goto(p, stage)
        /\ UNCHANGED << clock, resvVars, apptVars, serial, req, now, targets, team >>
    BY <1>2 DEF Read
  <2>2. /\ req[p].op \in { "transition", "reschedule", "details" }
        /\ req[p].appt \in ApptId /\ appts[req[p].appt] # Null
        /\ req[p].op = "transition" => req[p].status \in Status
    BY <2>1 DEF TypeInv, Shape
  <2>3. v \in Appointment
    <3>1. v # Null
      BY <2>2, NullAssumption DEF TypeInv, Locked, A!Seen
    <3> QED
      BY <2>2, <3>1, SeenTyped DEF TypeInv
  <2>4. mine \in Appointment
    BY <2>2, <2>3 DEF Appointment
  <2> HIDE DEF mine, v
  <2>5. MemoryOK'
    BY <2>1, <2>4 DEF MemoryOK, TypeInv, TypeOK
  <2>6. Shape(p)'
    <3>1. pc'[p] = stage /\ copy'[p] = mine
      BY <2>1 DEF Goto, TypeInv, TypeOK
    <3> QED
      BY <2>1, <2>2, <2>4, <3>1 DEF TypeInv, Shape, Rest, apptVars
  <2>7. targets[p] # Null => \A r \in targets[p] : R!Seen(p, r) # Null
    BY DEF TypeInv, Found
  <2>8. pc[p] \notin Rest /\ stage \in Stage
    BY <2>1 DEF Rest, Stage, Updates
  <2>9. \A q \in Proc \ {p} : copy'[q] = copy[q]
    BY <2>1 DEF TypeInv, TypeOK
  <2> HIDE DEF stage
  <2> QED
    BY <2>1, <2>5, <2>6, <2>7, <2>8, <2>9, ReadTypeInv
<1> QED
  BY <1>1, <1>2

LEMMA FindTypeInv ==
  ASSUME TypeInv, NEW p \in Proc, Find(p)
  PROVE  TypeInv'
<1> DEFINE found == { r \in RowId : Matches(p, R!Seen(p, r)) }
<1>1. /\ pc[p] \in Updates
      /\ targets' = [ targets EXCEPT ![p] = found ]
      /\ UNCHANGED << clock, resvVars, apptVars, pc, serial, req, now, team, copy >>
  BY DEF Find
<1>2. pc[p] \in Stage /\ pc[p] \notin Rest
  BY <1>1 DEF Stage, Updates, Rest
<1>3. \A r \in found : R!Seen(p, r) # Null
  BY <1>1 DEF Matches, Purged, OfToken, OfAppointment, Swept, Updates,
               Expired, Hold, Live
<1>4. found \subseteq RowId
  OBVIOUS
<1> HIDE DEF found
<1>5. MemoryOK'
  BY <1>1, <1>4 DEF MemoryOK, TypeInv, TypeOK
<1>6. Shape(p)'
  BY <1>1 DEF TypeInv, Shape, apptVars
<1>7. Goto(p, pc[p]) /\ targets'[p] = found
      /\ \A q \in Proc \ {p} : targets'[q] = targets[q]
  BY <1>1 DEF Goto, TypeInv, TypeOK
<1> QED
  BY <1>1, <1>2, <1>3, <1>5, <1>6, <1>7, ReadTypeInv

\* A statement that writes reservations keeps the tables' types and locks.
LEMMA PutTables ==
  ASSUME TypeInv, NEW p \in Proc, NEW ids \in SUBSET RowId, NEW new,
         NEW stage \in Stage, pc[p] \notin Rest,
         R!Put(p, ids, new), Goto(p, stage), UNCHANGED apptVars,
         \A r \in ids : new[r] \in Reservation
  PROVE  TablesOK' /\ Locked'
<1>1. TablesOK'
  BY DEF TypeInv, TypeOK, TablesOK, R!Put, apptVars
<1>2. stage \notin Rest
  BY DEF Stage, Updates, Rest
<1>3. \A r \in RowId :
        /\ resvLock'[r] = IF r \in ids THEN p ELSE resvLock[r]
        /\ resvDraft'[r] = IF r \in ids THEN new[r] ELSE resvDraft[r]
  BY DEF R!Put
<1>4. \A r \in RowId : resvLock[r] \in Proc \cup {Null}
  BY DEF TypeInv, TypeOK
<1>5. \A a \in ApptId : apptsLock[a] \in Proc \cup {Null}
  BY DEF TypeInv, TypeOK
<1>6. pc'[p] \notin Rest /\ \A q \in Proc : pc'[q] \in Rest => pc[q] \in Rest
  BY <1>2 DEF Goto, TypeInv, TypeOK
<1>7. \A r \in RowId : resvLock'[r] # Null =>
        resvDraft'[r] # Null /\ pc'[resvLock'[r]] \notin Rest
  BY <1>3, <1>4, <1>6, RowAssumption, NullAssumption DEF TypeInv, Locked
<1>8. \A a \in ApptId : apptsLock'[a] # Null =>
        apptsDraft'[a] # Null /\ pc'[apptsLock'[a]] \notin Rest
  BY <1>5, <1>6, NullAssumption DEF TypeInv, Locked, apptVars
<1> QED
  BY <1>1, <1>7, <1>8 DEF Locked

\* And the same for a statement that writes an appointment.
LEMMA PutApptTables ==
  ASSUME TypeInv, NEW p \in Proc, NEW ids \in SUBSET ApptId, NEW new,
         NEW stage \in Stage, pc[p] \notin Rest,
         A!Put(p, ids, new), Goto(p, stage), UNCHANGED resvVars,
         \A a \in ids : new[a] \in Appointment
  PROVE  /\ TablesOK' /\ Locked' /\ appts' = appts
<1>1. TablesOK'
  BY DEF TypeInv, TypeOK, TablesOK, A!Put, resvVars
<1>2. stage \notin Rest
  BY DEF Stage, Updates, Rest
<1>3. \A a \in ApptId :
        /\ apptsLock'[a] = IF a \in ids THEN p ELSE apptsLock[a]
        /\ apptsDraft'[a] = IF a \in ids THEN new[a] ELSE apptsDraft[a]
  BY DEF A!Put
<1>4. \A r \in RowId : resvLock[r] \in Proc \cup {Null}
  BY DEF TypeInv, TypeOK
<1>5. \A a \in ApptId : apptsLock[a] \in Proc \cup {Null}
  BY DEF TypeInv, TypeOK
<1>6. pc'[p] \notin Rest /\ \A q \in Proc : pc'[q] \in Rest => pc[q] \in Rest
  BY <1>2 DEF Goto, TypeInv, TypeOK
<1> QED
  BY <1>1, <1>3, <1>4, <1>5, <1>6, RowAssumption, NullAssumption
  DEF TypeInv, Locked, resvVars, A!Put

LEMMA InsertTypeInv ==
  ASSUME TypeInv, NEW p \in Proc, Insert(p)
  PROVE  TypeInv'
<1>1. CASE GiveUp(p, "error")
  BY <1>1, GiveUpTypeInv DEF Rest
<1>2. CASE ~GiveUp(p, "error")
  <2> DEFINE made == [ service |-> req[p].service, start |-> req[p].start,
                       end |-> req[p].start + Duration[req[p].service],
                       team |-> team[p], status |-> req[p].status,
                       key |-> req[p].key, asked |-> req[p].asked ]
             id == << p, serial[p] >>
             stage == IF req[p].op = "book" THEN "purge" ELSE "convert"
             new == [ a \in {id} |-> made ]
  <2>1. /\ pc[p] = "insert"
        /\ A!Put(p, {id}, new)
        /\ req' = [ req EXCEPT ![p].appt = id ]
        /\ copy' = [ copy EXCEPT ![p] = made ]
        /\ Goto(p, stage)
        /\ UNCHANGED << clock, resvVars, serial, now, targets, team >>
    BY <1>2 DEF Insert
  <2>2. /\ req[p].op \in { "book", "confirm" } /\ serial[p] > 0
        /\ req[p].service \in Service /\ req[p].status \in Status
    BY <2>1 DEF TypeInv, Shape, Rest
  <2>3. id \in ApptId
    <3>1. serial[p] \in 1..Budget[p]
      BY <2>2, BoundAssumption DEF TypeInv, TypeOK
    <3> QED
      BY <3>1 DEF ApptId
  <2>4. made \in Appointment
    <3>1. req[p].start + Duration[req[p].service] \in Int
      BY <2>2, ServiceAssumption DEF TypeInv, TypeOK, Request
    <3> QED
      BY <2>2, <3>1 DEF TypeInv, TypeOK, Request, Appointment
  <2>5. pc[p] \notin Rest /\ stage \in Stage
    BY <2>1 DEF Rest, Stage, Updates
  <2>6. \A a \in {id} : new[a] \in Appointment
    BY <2>4
  <2> HIDE DEF made, id, stage, new
  <2>7. TablesOK' /\ Locked' /\ appts' = appts
    BY <2>1, <2>3, <2>5, <2>6, PutApptTables
  <2>8. MemoryOK'
    <3>1. [ req[p] EXCEPT !.appt = id ] \in Request
      <4>1. req[p] \in Request
        BY DEF TypeInv, TypeOK
      <4> QED
        BY <2>3, <4>1 DEF Request
    <3> QED
      BY <2>1, <2>4, <3>1 DEF MemoryOK, TypeInv, TypeOK
  <2>9. Shape(p)'
    <3>1. /\ req'[p].op = req[p].op /\ req'[p].service = req[p].service
          /\ req'[p].status = req[p].status /\ req'[p].appt = id
      BY <2>1 DEF TypeInv, TypeOK, Request
    <3>2. pc'[p] = IF req[p].op = "book" THEN "purge" ELSE "convert"
      BY <2>1 DEF Goto, TypeInv, TypeOK, stage
    <3> QED
      BY <2>1, <2>2, <2>3, <3>1, <3>2 DEF TypeInv, Shape, Rest
  <2>10. \A q \in Proc \ {p} : req'[q] = req[q] /\ copy'[q] = copy[q]
    BY <2>1 DEF TypeInv, TypeOK
  <2>11. targets'[p] # Null => \A r \in targets'[p] : R!Seen(p, r)' # Null
    BY <2>1 DEF TypeInv, Found, R!Seen, resvVars
  <2> QED
    BY <2>1, <2>5, <2>7, <2>8, <2>9, <2>10, <2>11, StepTypeInv
<1> QED
  BY <1>1, <1>2

LEMMA WriteTypeInv ==
  ASSUME TypeInv, NEW p \in Proc, Write(p)
  PROVE  TypeInv'
<1> DEFINE id == req[p].appt
           stage == IF HandsBack(p) THEN "release" ELSE "commit"
           new == [ a \in {id} |-> Edited(p) ]
<1>1. /\ pc[p] = "write"
      /\ A!Put(p, {id}, new)
      /\ Goto(p, stage)
      /\ UNCHANGED << clock, resvVars, local >>
  BY DEF Write
<1>2. /\ req[p].op \in { "transition", "reschedule", "details" }
      /\ id \in ApptId /\ copy[p] \in Appointment
  BY <1>1 DEF TypeInv, Shape
<1>3. Edited(p) \in Appointment
  <2>1. /\ req[p].start \in Int /\ team[p] \subseteq Resource
        /\ req[p].start + Duration[copy[p].service] \in Int
    BY <1>2, ServiceAssumption DEF TypeInv, TypeOK, Request, Appointment
  <2> QED
    BY <1>2, <2>1 DEF Edited, Appointment
<1>4. pc[p] \notin Rest /\ stage \in Stage /\ \A a \in {id} : new[a] \in Appointment
  BY <1>1, <1>3 DEF Rest, Stage, Updates
<1>5. TablesOK' /\ Locked' /\ appts' = appts
  <2> HIDE DEF id, stage, new
  <2> QED
    BY <1>1, <1>2, <1>4, PutApptTables
<1>6. MemoryOK'
  BY <1>1 DEF MemoryOK, TypeInv, TypeOK, local
<1>7. Shape(p)'
  <2>1. pc'[p] = stage /\ (stage = "release" => req[p].op = "transition")
    BY <1>1 DEF Goto, TypeInv, TypeOK, HandsBack
  <2>2. stage \in { "release", "commit" }
    OBVIOUS
  <2> HIDE DEF stage
  <2> QED
    BY <1>1, <1>2, <1>5, <2>1, <2>2 DEF TypeInv, Shape, Rest, local
<1>8. targets'[p] # Null => \A r \in targets'[p] : R!Seen(p, r)' # Null
  BY <1>1 DEF TypeInv, Found, R!Seen, resvVars, local
<1> HIDE DEF id, stage, new
<1> QED
  BY <1>1, <1>4, <1>5, <1>6, <1>7, <1>8, StepTypeInv DEF local

------------------------------------------------------------------------------
(* Types: the two statements that write reservations *)

\* What an UPDATE sets is a row, that clashes with nothing its old version did
\* not clash with.
LEMMA UpdatedRow ==
  ASSUME TypeInv, NEW p \in Proc, pc[p] \in Updates, NEW v \in Reservation
  PROVE  /\ Updated(p, v) \in Reservation
         /\ \A w : Clash(Updated(p, v), w) => Clash(v, w)
<1>1. CASE pc[p] = "convert"
  <2> DEFINE u == [ v EXCEPT !.kind = "booking", !.appt = req[p].appt,
                             !.token = Null, !.expires = Null ]
  <2>1. req[p].appt \in ApptId
    BY <1>1 DEF TypeInv, Shape
  <2>2. /\ u \in Reservation
        /\ u.resource = v.resource /\ u.window = v.window /\ u.released = v.released
    BY <2>1 DEF Reservation
  <2>3. Updated(p, v) = u /\ v # Null
    BY <1>1, RowAssumption DEF Updated
  <2> HIDE DEF u
  <2> QED
    BY <2>2, <2>3 DEF Clash, Live
<1>2. CASE pc[p] # "convert"
  <2>1. Updated(p, v) = [ v EXCEPT !.released = TRUE ]
    BY <1>2 DEF Updated
  <2>2. Updated(p, v) \in Reservation /\ Updated(p, v).released
    BY <2>1 DEF Reservation
  <2> QED
    BY <2>2 DEF Clash, Live
<1> QED
  BY <1>1, <1>2

\* An UPDATE that does not give up: the rows it writes, and where it goes.
UpdateStep(p, hit) ==
  /\ pc[p] \in Updates
  /\ targets[p] # Null
  /\ hit \subseteq RowId
  /\ \A r \in targets[p] : StillMatches(p, R!Seen(p, r)) => r \in hit
  /\ \A r \in hit : r \in targets[p] /\ StillMatches(p, R!Seen(p, r))
  /\ \A r \in hit : R!Lockable(p, r) /\ R!Seen(p, r) \in Reservation
  /\ pc[p] = "convert" => hit # {}
  /\ pc[p] = "convert" =>
       \A r \in hit : Hold(R!Seen(p, r)) /\ R!Seen(p, r).token = req[p].token
  /\ R!Put(p, hit, [ r \in hit |-> Updated(p, R!Seen(p, r)) ])
  /\ targets' = [ targets EXCEPT ![p] = Null ]
  /\ Goto(p, Following(p))
  /\ UNCHANGED << clock, apptVars, serial, req, now, team, copy >>

LEMMA UpdateCases ==
  ASSUME TypeInv, NEW p \in Proc, Update(p), ~GiveUp(p, "conflict")
  PROVE  \E hit \in SUBSET RowId : UpdateStep(p, hit)
<1> DEFINE hit == { r \in targets[p] : StillMatches(p, R!Seen(p, r)) }
<1>1. /\ pc[p] \in Updates /\ targets[p] # Null
      /\ \A r \in targets[p] : R!Lockable(p, r)
      /\ R!Put(p, hit, [ r \in hit |-> Updated(p, R!Seen(p, r)) ])
      /\ targets' = [ targets EXCEPT ![p] = Null ]
      /\ Goto(p, Following(p))
      /\ UNCHANGED << clock, apptVars, serial, req, now, team, copy >>
  BY DEF Update
<1>2. targets[p] \subseteq RowId /\ \A r \in targets[p] : R!Seen(p, r) # Null
  BY <1>1 DEF TypeInv, TypeOK, Found
<1>3. hit \subseteq targets[p]
  OBVIOUS
<1>4. \A r \in hit : R!Lockable(p, r) /\ R!Seen(p, r) \in Reservation
  BY <1>1, <1>2, <1>3, SeenTyped DEF TypeInv
<1>5. hit \in SUBSET RowId
  BY <1>2, <1>3
<1>6. pc[p] = "convert" =>
        \A r \in hit : Hold(R!Seen(p, r)) /\ R!Seen(p, r).token = req[p].token
  BY DEF StillMatches, Matches, OfToken
<1>7. /\ \A r \in targets[p] : StillMatches(p, R!Seen(p, r)) => r \in hit
      /\ \A r \in hit : r \in targets[p] /\ StillMatches(p, R!Seen(p, r))
  OBVIOUS
<1>8. pc[p] = "convert" => hit # {}
  BY DEF Update
<1> HIDE DEF hit
<1> QED
  BY <1>1, <1>4, <1>5, <1>6, <1>7, <1>8 DEF UpdateStep

LEMMA UpdateTypeInv ==
  ASSUME TypeInv, NEW p \in Proc, NEW hit \in SUBSET RowId, UpdateStep(p, hit)
  PROVE  TypeInv'
<1> DEFINE new == [ r \in hit |-> Updated(p, R!Seen(p, r)) ]
<1>1. /\ pc[p] \in Updates
      /\ \A r \in hit : R!Lockable(p, r) /\ R!Seen(p, r) \in Reservation
      /\ R!Put(p, hit, new)
      /\ targets' = [ targets EXCEPT ![p] = Null ]
      /\ Goto(p, Following(p))
      /\ UNCHANGED << clock, apptVars, serial, req, now, team, copy >>
  BY DEF UpdateStep
<1>2. \A r \in hit : new[r] \in Reservation
  BY <1>1, UpdatedRow
<1>3. pc[p] \notin Rest /\ Following(p) \in Stage
  BY <1>1 DEF Updates, Stage, Rest, Following
<1> HIDE DEF new
<1>4. TablesOK' /\ Locked'
  BY <1>1, <1>2, <1>3, PutTables
<1>5. MemoryOK'
  BY <1>1 DEF MemoryOK, TypeInv, TypeOK
<1>6. Shape(p)'
  <2>1. pc'[p] = Following(p)
    BY <1>1 DEF Goto, TypeInv, TypeOK
  <2>2. /\ Following(p) \in { "reserve", "resolve", "commit" }
        /\ Following(p) = "reserve" => pc[p] = "purge"
        /\ Following(p) = "resolve" => pc[p] = "release" /\ req[p].op = "reschedule"
    BY DEF Following
  <2>3. pc[p] \notin Rest /\ pc[p] # "read"
    BY <1>1 DEF Updates, Rest
  <2> QED
    BY <1>1, <2>1, <2>2, <2>3 DEF TypeInv, Shape, Rest, apptVars
<1>7. targets'[p] = Null /\ \A q \in Proc \ {p} : targets'[q] = targets[q]
  BY <1>1 DEF TypeInv, TypeOK
<1>8. \A a \in ApptId : appts[a] # Null => appts'[a] # Null
  BY <1>1 DEF apptVars
<1> QED
  BY <1>1, <1>3, <1>4, <1>5, <1>6, <1>7, <1>8, StepTypeInv

\* The rows a reserve would insert: one for each resource of its slot, under
\* its own request's number.
LEMMA NewRowsTyped ==
  ASSUME TypeInv, NEW p \in Proc, pc[p] = "reserve"
  PROVE  /\ DOMAIN NewRows(p) \subseteq RowId
         /\ \A r \in DOMAIN NewRows(p) :
              /\ r[1] = p /\ r[2] = serial[p]
              /\ NewRows(p)[r] \in Reservation
         /\ \A r, s \in DOMAIN NewRows(p) :
              r # s => NewRows(p)[r].resource # NewRows(p)[s].resource
<1> DEFINE Ids == { << p, serial[p], x >> : x \in team[p] }
<1>1. /\ req[p].op \in { "hold", "book", "reschedule" } /\ serial[p] > 0
      /\ req[p] \in Request /\ team[p] \subseteq Resource
  BY DEF TypeInv, TypeOK, Shape, Rest
<1>2. serial[p] \in 1..Budget[p]
  BY <1>1, BoundAssumption DEF TypeInv, TypeOK
<1>3. Ids \subseteq RowId /\ << p, serial[p] >> \in Token
  <2>1. \A x \in team[p] : << p, serial[p], x >> \in RowId
    BY <1>1, <1>2, MadeRowIds
  <2>2. << p, serial[p] >> \in ApptId
    BY <1>2 DEF ApptId
  <2> QED
    BY <2>1, <2>2 DEF Token
<1>4. Wanted(p) \in Service
  BY <1>1 DEF Wanted, TypeInv, Shape, Rest, Appointment
<1>5. ReservationWindow(Wanted(p), req[p].start) \in Interval
  <2>1. /\ req[p].start \in Int /\ Before[Wanted(p)] \in Int
        /\ Duration[Wanted(p)] \in Int /\ After[Wanted(p)] \in Int
    BY <1>1, <1>4, ServiceAssumption DEF Request
  <2> QED
    BY <2>1 DEF ReservationWindow, Interval
<1>6. now[p] + TTL \in Nat
  BY BoundAssumption DEF TypeInv, TypeOK
<1>7. req[p].appt \in ApptId \cup {Null}
  BY <1>1 DEF Request
<1>8. DOMAIN NewRows(p) = Ids
  BY DEF NewRows
<1>9. ASSUME NEW x \in team[p]
      PROVE  /\ NewRows(p)[<< p, serial[p], x >>] \in Reservation
             /\ NewRows(p)[<< p, serial[p], x >>].resource = x
  BY <1>1, <1>3, <1>5, <1>6, <1>7, <1>9 DEF NewRows, Reservation
<1> QED
  BY <1>3, <1>8, <1>9

\* A reserve that goes through.
ReserveStep(p) ==
  /\ pc[p] = "reserve"
  /\ \A r \in DOMAIN NewRows(p) :
       ~Refused(p, NewRows(p)[r]) /\ Waits(p, NewRows(p)[r]) = {}
  /\ R!Put(p, DOMAIN NewRows(p), NewRows(p))
  /\ Goto(p, IF req[p].op = "reschedule" THEN "write" ELSE "commit")
  /\ UNCHANGED << clock, apptVars, local >>

LEMMA ReserveCases ==
  ASSUME NEW p \in Proc, Reserve(p)
  PROVE  GiveUp(p, "conflict") \/ ReserveStep(p)
BY DEF Reserve, ReserveStep

\* Nobody else has the rows a reserve inserts.
LEMMA NewRowsLockable ==
  ASSUME TypeInv, Made, NEW p \in Proc, pc[p] = "reserve",
         NEW r \in DOMAIN NewRows(p)
  PROVE  R!Lockable(p, r) /\ resv[r] = Null
<1>1. r \in RowId /\ r[1] = p /\ r[2] = serial[p] /\ serial[p] \in Nat
  BY NewRowsTyped DEF TypeInv, TypeOK
<1>2. req[p].op \in { "hold", "book", "reschedule" } /\ pc[p] \notin Rest
  BY DEF TypeInv, Shape, Rest
<1>3. resv[r] = Null
  BY <1>1, <1>2 DEF Made
<1> QED
  BY <1>1, <1>3 DEF Made, R!Lockable

LEMMA ReserveTypeInv ==
  ASSUME TypeInv, Made, NEW p \in Proc, ReserveStep(p)
  PROVE  TypeInv'
<1> DEFINE stage == IF req[p].op = "reschedule" THEN "write" ELSE "commit"
<1>1. /\ pc[p] = "reserve"
      /\ R!Put(p, DOMAIN NewRows(p), NewRows(p))
      /\ Goto(p, stage)
      /\ UNCHANGED << clock, apptVars, local >>
  BY DEF ReserveStep
<1>2. /\ DOMAIN NewRows(p) \in SUBSET RowId
      /\ \A r \in DOMAIN NewRows(p) : NewRows(p)[r] \in Reservation
      /\ \A r \in DOMAIN NewRows(p) : R!Lockable(p, r)
  BY <1>1, NewRowsTyped, NewRowsLockable
<1>3. pc[p] \notin Rest /\ stage \in Stage
  BY <1>1 DEF Rest, Stage
<1>4. TablesOK' /\ Locked'
  <2> HIDE DEF stage
  <2> QED
    BY <1>1, <1>2, <1>3, PutTables
<1>5. MemoryOK'
  BY <1>1 DEF MemoryOK, TypeInv, TypeOK, local
<1>6. Shape(p)'
  <2>1. pc'[p] = stage
    BY <1>1 DEF Goto, TypeInv, TypeOK
  <2> QED
    BY <1>1, <2>1 DEF TypeInv, Shape, Rest, local, apptVars
<1>7. targets'[p] # Null => \A r \in targets'[p] : R!Seen(p, r)' # Null
  <2> SUFFICES ASSUME targets[p] # Null, NEW r \in targets[p]
               PROVE  R!Seen(p, r)' # Null
    BY <1>1 DEF local
  <2>1. R!Seen(p, r) # Null /\ r \in RowId
    BY DEF TypeInv, Found, TypeOK
  <2> QED
    BY <1>1, <1>2, <2>1, RowAssumption DEF R!Put, R!Seen
<1>8. \A a \in ApptId : appts[a] # Null => appts'[a] # Null
  BY <1>1 DEF apptVars
<1> HIDE DEF stage
<1> QED
  BY <1>1, <1>2, <1>3, <1>4, <1>5, <1>6, <1>7, <1>8, StepTypeInv DEF local

------------------------------------------------------------------------------
(* Who made which row, action by action *)

\* A statement of p that goes on: it locks only rows that are committed, rows
\* it already has, and rows of its own request.
LEMMA StepMade ==
  ASSUME TypeInv, Made, NEW p \in Proc, pc[p] \notin Rest,
         UNCHANGED << resv, serial >>,
         req'[p].op = req[p].op,
         \A q \in Proc \ {p} : pc'[q] = pc[q] /\ req'[q] = req[q],
         \A r \in RowId : resvLock'[r] # resvLock[r] =>
            resvLock'[r] = p /\ (resv[r] # Null \/ (r[1] = p /\ r[2] = serial[p]))
  PROVE  Made'
<1> SUFFICES ASSUME NEW r \in RowId
             PROVE  /\ resv[r] # Null =>
                         \/ r[2] < serial[r[1]]
                         \/ r[2] = serial[r[1]]
                            /\ (pc'[r[1]] \in Rest \/ req'[r[1]].op = "sweep")
                    /\ resv[r] = Null /\ resvLock'[r] # Null =>
                         resvLock'[r] = r[1] /\ r[2] = serial[r[1]]
  BY DEF Made
<1>1. r[1] \in Proc
  BY RowIds
<1>2. r[1] = p \/ (pc'[r[1]] = pc[r[1]] /\ req'[r[1]] = req[r[1]])
  BY <1>1
<1> QED
  BY <1>1, <1>2 DEF Made

\* A transaction that ends: a row of p is committed with its request.
LEMMA EndMade ==
  ASSUME TypeInv, Made, NEW p \in Proc, R!Commit(p) \/ R!Rollback(p),
         UNCHANGED serial,
         pc'[p] \in Rest,
         \A q \in Proc \ {p} : pc'[q] = pc[q] /\ req'[q] = req[q]
  PROVE  Made'
<1> SUFFICES ASSUME NEW r \in RowId
             PROVE  /\ resv'[r] # Null =>
                         \/ r[2] < serial[r[1]]
                         \/ r[2] = serial[r[1]]
                            /\ (pc'[r[1]] \in Rest \/ req'[r[1]].op = "sweep")
                    /\ resv'[r] = Null /\ resvLock'[r] # Null =>
                         resvLock'[r] = r[1] /\ r[2] = serial[r[1]]
  BY DEF Made
<1>1. r[1] \in Proc
  BY RowIds
<1>2. r[1] = p \/ (pc'[r[1]] = pc[r[1]] /\ req'[r[1]] = req[r[1]])
  BY <1>1
<1>3. /\ resvLock'[r] = IF resvLock[r] = p THEN Null ELSE resvLock[r]
      /\ resv'[r] = resv[r] \/ (resv'[r] = resvDraft[r] /\ resvLock[r] = p)
  BY DEF R!Commit, R!Rollback, R!Unlock
<1>4. resvLock[r] = p => resvLock[r] # Null /\ resvDraft[r] # Null
  BY NullAssumption DEF TypeInv, Locked
<1>5. CASE resv[r] # Null
  BY <1>1, <1>2, <1>3, <1>4, <1>5 DEF Made
<1>6. CASE resv[r] = Null
  BY <1>1, <1>2, <1>3, <1>4, <1>6 DEF Made
<1> QED
  BY <1>5, <1>6

LEMMA BeginMade ==
  ASSUME TypeInv, Made, NEW p \in Proc, Begin(p)
  PROVE  Made'
<1>1. PICK x \in Requests :
        /\ req' = [ req EXCEPT ![p] = x ]
        /\ serial' = [ serial EXCEPT ![p] = IF x.op = "sweep" THEN serial[p] ELSE serial[p] + 1 ]
        /\ Goto(p, First(x.op))
  BY DEF Begin
<1>2. pc[p] \in Rest /\ UNCHANGED resvVars
  BY DEF Begin
<1>3. /\ req'[p] = x /\ serial[p] \in Nat
      /\ serial'[p] = IF x.op = "sweep" THEN serial[p] ELSE serial[p] + 1
      /\ \A q \in Proc \ {p} :
           req'[q] = req[q] /\ serial'[q] = serial[q] /\ pc'[q] = pc[q]
  BY <1>1 DEF Goto, TypeInv, TypeOK
<1>4. \A r \in RowId : resvLock[r] # p
  BY <1>2, NullAssumption DEF TypeInv, Locked
<1> SUFFICES ASSUME NEW r \in RowId
             PROVE  /\ resv[r] # Null =>
                         \/ r[2] < serial'[r[1]]
                         \/ r[2] = serial'[r[1]]
                            /\ (pc'[r[1]] \in Rest \/ req'[r[1]].op = "sweep")
                    /\ resv[r] = Null /\ resvLock[r] # Null =>
                         resvLock[r] = r[1] /\ r[2] = serial'[r[1]]
  BY <1>2 DEF Made, resvVars
<1>5. r[1] \in Proc /\ r[2] \in Nat
  BY RowIds, BoundAssumption
<1>6. CASE r[1] = p
  BY <1>3, <1>4, <1>5, <1>6 DEF Made
<1>7. CASE r[1] # p
  BY <1>3, <1>5, <1>7 DEF Made
<1> QED
  BY <1>6, <1>7

------------------------------------------------------------------------------
(* The invariant, action by action *)

LEMMA GiveUpInv ==
  ASSUME Inv, NEW p \in Proc, NEW reply \in Rest, GiveUp(p, reply)
  PROVE  Inv'
<1>1. TypeInv'
  BY GiveUpTypeInv DEF Inv
<1>2. Made'
  <2>1. /\ R!Rollback(p) /\ UNCHANGED serial /\ pc'[p] \in Rest
        /\ \A q \in Proc \ {p} : pc'[q] = pc[q] /\ req'[q] = req[q]
    BY DEF Inv, TypeInv, TypeOK, GiveUp, Goto, Forget
  <2> QED
    BY <2>1, EndMade DEF Inv
<1>3. Apart'
  BY RollbackApart DEF Inv, TypeInv, GiveUp
<1> QED
  BY <1>1, <1>2, <1>3 DEF Inv

LEMMA CommitInv ==
  ASSUME Inv, NEW p \in Proc, Commit(p)
  PROVE  Inv'
<1>1. TypeInv'
  BY CommitTypeInv DEF Inv
<1>2. Made'
  <2>1. /\ R!Commit(p) /\ UNCHANGED serial /\ pc'[p] \in Rest
        /\ \A q \in Proc \ {p} : pc'[q] = pc[q] /\ req'[q] = req[q]
    BY DEF Inv, TypeInv, TypeOK, Commit, Goto, Forget, Rest
  <2> QED
    BY <2>1, EndMade DEF Inv
<1>3. Apart'
  BY CommitApart DEF Inv, TypeInv, Commit
<1> QED
  BY <1>1, <1>2, <1>3 DEF Inv

LEMMA BeginInv ==
  ASSUME Inv, NEW p \in Proc, Begin(p)
  PROVE  Inv'
<1>1. UNCHANGED resvVars
  BY DEF Begin
<1> QED
  BY <1>1, BeginTypeInv, BeginMade, StutterApart DEF Inv

\* A statement that leaves the reservations alone.
LEMMA ElsewhereInv ==
  ASSUME Inv, TypeInv', NEW p \in Proc, pc[p] \notin Rest,
         UNCHANGED << resvVars, serial >>,
         req'[p].op = req[p].op,
         \A q \in Proc \ {p} : pc'[q] = pc[q] /\ req'[q] = req[q]
  PROVE  Inv'
<1>1. Apart'
  BY StutterApart DEF Inv
<1>2. UNCHANGED resv /\ UNCHANGED resvLock
  BY DEF resvVars
<1>3. Made'
  BY <1>2, StepMade DEF Inv
<1> QED
  BY <1>1, <1>3 DEF Inv

LEMMA UpdateInv ==
  ASSUME Inv, NEW p \in Proc, NEW hit \in SUBSET RowId, UpdateStep(p, hit)
  PROVE  Inv'
<1> DEFINE new == [ r \in hit |-> Updated(p, R!Seen(p, r)) ]
<1>1. /\ pc[p] \in Updates
      /\ \A r \in hit : R!Lockable(p, r) /\ R!Seen(p, r) \in Reservation
      /\ R!Put(p, hit, new)
      /\ Goto(p, Following(p))
      /\ UNCHANGED << serial, req >>
  BY DEF UpdateStep
<1>2. pc[p] \notin Rest
  BY <1>1 DEF Updates, Rest
<1>3. Made'
  <2> HIDE DEF new
  <2>1. \A r \in hit : resvLock[r] = p \/ (resvLock[r] = Null /\ resv[r] # Null)
    BY <1>1, RowAssumption DEF R!Lockable, R!Seen
  <2>2. resv' = resv /\ \A r \in RowId : resvLock'[r] # resvLock[r] =>
            resvLock'[r] = p /\ resv[r] # Null
    BY <1>1, <2>1 DEF R!Put
  <2>3. \A q \in Proc \ {p} : pc'[q] = pc[q] /\ req'[q] = req[q]
    BY <1>1 DEF Goto, Inv, TypeInv, TypeOK
  <2> QED
    BY <1>1, <1>2, <2>2, <2>3, StepMade DEF Inv
<1>4. \A r \in hit : \A w : Clash(new[r], w) => Clash(R!Seen(p, r), w)
  BY <1>1, UpdatedRow DEF Inv
<1> HIDE DEF new
<1>5. Apart'
  BY <1>1, <1>4, UpdateApart DEF Inv, TypeInv
<1> QED
  BY <1>3, <1>5, UpdateTypeInv DEF Inv

LEMMA ReserveInv ==
  ASSUME Inv, NEW p \in Proc, ReserveStep(p)
  PROVE  Inv'
<1>1. /\ pc[p] = "reserve" /\ pc[p] \notin Rest
      /\ R!Put(p, DOMAIN NewRows(p), NewRows(p))
      /\ Goto(p, IF req[p].op = "reschedule" THEN "write" ELSE "commit")
      /\ UNCHANGED << serial, req >>
      /\ \A r \in DOMAIN NewRows(p) :
           ~Refused(p, NewRows(p)[r]) /\ Waits(p, NewRows(p)[r]) = {}
  BY DEF ReserveStep, local, Rest
<1>2. /\ DOMAIN NewRows(p) \in SUBSET RowId
      /\ \A r \in DOMAIN NewRows(p) : r[1] = p /\ r[2] = serial[p]
      /\ \A r, s \in DOMAIN NewRows(p) :
           r # s => NewRows(p)[r].resource # NewRows(p)[s].resource
  BY <1>1, NewRowsTyped DEF Inv
<1>3. Made'
  <2>1. resv' = resv /\ \A r \in RowId : resvLock'[r] # resvLock[r] =>
            resvLock'[r] = p /\ r[1] = p /\ r[2] = serial[p]
    BY <1>1, <1>2 DEF R!Put
  <2>2. \A q \in Proc \ {p} : pc'[q] = pc[q]
    BY <1>1 DEF Goto, Inv, TypeInv, TypeOK
  <2> QED
    BY <1>1, <2>1, <2>2, StepMade DEF Inv
<1>4. \A r \in DOMAIN NewRows(p) : R!Lockable(p, r)
  BY <1>1, NewRowsLockable DEF Inv
<1>5. \A r, s \in DOMAIN NewRows(p) :
        r # s => ~Clash(NewRows(p)[r], NewRows(p)[s])
  BY <1>2 DEF Clash
<1>6. Apart'
  BY <1>1, <1>2, <1>4, <1>5, InsertApart DEF Inv, TypeInv
<1> QED
  BY <1>3, <1>6, ReserveTypeInv DEF Inv

\* A statement that reads, or writes an appointment.
LEMMA ReadOrWriteInv ==
  ASSUME Inv, NEW p \in Proc,
         Replay(p) \/ Lookup(p) \/ ResolveSlot(p) \/ Read(p) \/ Find(p)
           \/ Insert(p) \/ Write(p)
  PROVE  Inv'
<1>1. CASE \E reply \in Rest : GiveUp(p, reply)
  BY <1>1, GiveUpInv
<1>2. CASE ~\E reply \in Rest : GiveUp(p, reply)
  <2>1. TypeInv'
    BY ReplayTypeInv, LookupTypeInv, ResolveSlotTypeInv, ReadActionTypeInv,
       FindTypeInv, InsertTypeInv, WriteTypeInv DEF Inv
  <2>2. "replayed" \in Rest /\ "conflict" \in Rest /\ "invalid" \in Rest
        /\ "error" \in Rest
    BY DEF Rest
  <2>3. /\ pc[p] \notin Rest
        /\ UNCHANGED << resvVars, serial >>
        /\ req'[p].op = req[p].op
        /\ \A q \in Proc \ {p} : pc'[q] = pc[q] /\ req'[q] = req[q]
    <3> USE <2>2 DEF Inv, TypeInv, TypeOK, Goto, Request
    <3>1. CASE Replay(p)
      <4>1. PICK k : /\ pc[p] = "replay"
                     /\ req' = [ req EXCEPT ![p].key = k ]
                     /\ Goto(p, IF req[p].op = "book" THEN "resolve" ELSE "lookup")
                     /\ UNCHANGED << resvVars, serial >>
        BY <1>2, <3>1 DEF Replay
      <4> QED
        BY <4>1 DEF Rest
    <3>2. CASE Lookup(p)
      <4>1. PICK t : /\ pc[p] = "lookup"
                     /\ req' = [ req EXCEPT ![p].start = t ]
                     /\ Goto(p, "insert")
                     /\ UNCHANGED << resvVars, serial >>
        BY <1>2, <3>2 DEF Lookup
      <4> QED
        BY <4>1 DEF Rest
    <3>3. CASE ResolveSlot(p)
      BY <1>2, <3>3 DEF ResolveSlot, Rest
    <3>4. CASE Read(p)
      BY <1>2, <3>4 DEF Read, Rest
    <3>5. CASE Find(p)
      BY <3>5 DEF Find, Rest, Updates
    <3>6. CASE Insert(p)
      <4>1. PICK a, stage : /\ pc[p] = "insert"
                            /\ req' = [ req EXCEPT ![p].appt = a ]
                            /\ Goto(p, stage)
                            /\ UNCHANGED << resvVars, serial >>
        BY <1>2, <3>6 DEF Insert
      <4> QED
        BY <4>1 DEF Rest
    <3>7. CASE Write(p)
      BY <3>7 DEF Write, Rest, local
    <3> QED
      BY <3>1, <3>2, <3>3, <3>4, <3>5, <3>6, <3>7
  <2> QED
    BY <2>1, <2>3, ElsewhereInv
<1> QED
  BY <1>1, <1>2

LEMMA UnchangedInv ==
  ASSUME Inv, UNCHANGED vars
  PROVE  Inv'
<1> USE DEF vars, resvVars, apptVars, local
<1>1. TypeOK' /\ Locked'
  BY DEF Inv, TypeInv, TypeOK, Locked
<1>2. Found'
  BY DEF Inv, TypeInv, Found, R!Seen
<1>3. \A p \in Proc : Shape(p)'
  BY DEF Inv, TypeInv, Shape
<1>4. Made'
  BY DEF Inv, Made
<1> QED
  BY <1>1, <1>2, <1>3, <1>4, StutterApart DEF Inv, TypeInv

LEMMA TickInv ==
  ASSUME Inv, Tick
  PROVE  Inv'
<1> USE DEF Tick, resvVars, apptVars, local
<1>1. TypeOK'
  <2>1. clock' \in 0..MaxClock
    BY BoundAssumption DEF Inv, TypeInv, TypeOK
  <2> QED
    BY <2>1 DEF Inv, TypeInv, TypeOK
<1>2. Locked'
  BY DEF Inv, TypeInv, Locked
<1>3. Found'
  BY DEF Inv, TypeInv, Found, R!Seen
<1>4. \A p \in Proc : Shape(p)'
  BY DEF Inv, TypeInv, Shape
<1>5. Made'
  BY DEF Inv, Made
<1> QED
  BY <1>1, <1>2, <1>3, <1>4, <1>5, StutterApart DEF Inv, TypeInv

\* Inv is inductive: every action of the specification preserves it.
LEMMA NextInv == Inv /\ [Next]_vars => Inv'
<1> SUFFICES ASSUME Inv, [Next]_vars PROVE Inv'
  OBVIOUS
<1>1. ASSUME NEW p \in Proc, Begin(p) PROVE Inv'
  BY <1>1, BeginInv
<1>2. ASSUME NEW p \in Proc, Replay(p) \/ Lookup(p) \/ ResolveSlot(p) \/ Read(p)
                               \/ Find(p) \/ Insert(p) \/ Write(p)
      PROVE Inv'
  BY <1>2, ReadOrWriteInv
<1>3. ASSUME NEW p \in Proc, Update(p) PROVE Inv'
  <2>1. CASE GiveUp(p, "conflict")
    BY <2>1, GiveUpInv DEF Rest
  <2>2. CASE ~GiveUp(p, "conflict")
    BY <1>3, <2>2, UpdateCases, UpdateInv DEF Inv
  <2> QED
    BY <2>1, <2>2
<1>4. ASSUME NEW p \in Proc, Reserve(p) PROVE Inv'
  <2>1. CASE GiveUp(p, "conflict")
    BY <2>1, GiveUpInv DEF Rest
  <2>2. CASE ReserveStep(p)
    BY <2>2, ReserveInv
  <2> QED
    BY <1>4, <2>1, <2>2, ReserveCases
<1>5. ASSUME NEW p \in Proc, Commit(p) PROVE Inv'
  BY <1>5, CommitInv
<1>6. ASSUME NEW p \in Proc, Deadlock(p) \/ Crash(p) PROVE Inv'
  <2>1. \E reply \in { "conflict", "error", "idle" } : GiveUp(p, reply)
    BY <1>6 DEF Deadlock, Crash
  <2> QED
    BY <2>1, GiveUpInv DEF Rest
<1>7. CASE Tick
  BY <1>7, TickInv
<1>8. CASE UNCHANGED vars
  BY <1>8, UnchangedInv
<1> QED
  BY <1>1, <1>2, <1>3, <1>4, <1>5, <1>6, <1>7, <1>8 DEF Next, Statement, Done

------------------------------------------------------------------------------
(* Theorems *)

THEOREM Invariant == Spec => []Inv
BY InitInv, NextInv, PTL DEF Spec

\* Every reachable state is of its type: no statement of a use case meets a
\* row, a request or a copy without the fields it reads.
THEOREM TypeCorrect == Spec => []TypeOK
<1>1. Inv => TypeOK
  BY DEF Inv, TypeInv
<1> QED
  BY <1>1, Invariant, PTL

\* No resource is claimed twice for overlapping time, however many requests,
\* resources and services there are, and whatever is committed, rolled back,
\* killed or swept in between.
THEOREM Exclusion == Spec => []NoOverlap
<1>1. Inv => NoOverlap
  BY DEF Inv, Apart, NoOverlap
<1> QED
  BY <1>1, Invariant, PTL

------------------------------------------------------------------------------
(* The refinement of Calendar *)

\* What a session has written and not committed.  A version of a committed row
\* stays in its place, and stays released; a new row is a live claim on the
\* window its session asked for, and no UPDATE of that session follows it.
SteadyRow(r) ==
  LET p == resvLock[r]
      d == resvDraft[r]
  IN  /\ resv[r] # Null =>
           /\ d.resource = resv[r].resource
           /\ d.window = resv[r].window
           /\ resv[r].released => d.released
      /\ resv[r] = Null =>
           /\ d.resource = r[3]
           /\ d.window = ReservationWindow(Wanted(p), req[p].start)
           /\ ~d.released
           /\ pc[p] \in { "write", "commit" }
           /\ pc[p] = "write" => req[p].op = "reschedule"

Steady == \A r \in RowId : resvLock[r] # Null => SteadyRow(r)

LEMMA InitSteady == Init => Steady
BY DEF Init, Steady, R!Empty

\* Rows of sessions whose request goes on as before.
LEMMA OthersSteady ==
  ASSUME Steady, NEW r \in RowId, resvLock[r] # Null,
         resvLock'[r] = resvLock[r], resvDraft'[r] = resvDraft[r],
         resv'[r] = resv[r],
         \/ /\ pc'[resvLock[r]] = pc[resvLock[r]]
            /\ req'[resvLock[r]] = req[resvLock[r]]
            /\ copy'[resvLock[r]] = copy[resvLock[r]]
         \/ resv[r] # Null
  PROVE  SteadyRow(r)'
BY DEF Steady, SteadyRow, Wanted

\* p ends its transaction, or begins a request: it has no lock afterwards.
LEMMA EndSteady ==
  ASSUME Inv, Steady, NEW p \in Proc,
         \/ R!Commit(p)
         \/ R!Rollback(p)
         \/ UNCHANGED resvVars /\ pc[p] \in Rest,
         \A q \in Proc \ {p} :
           pc'[q] = pc[q] /\ req'[q] = req[q] /\ copy'[q] = copy[q]
  PROVE  Steady'
<1>1. ASSUME NEW r \in RowId, resvLock'[r] # Null
      PROVE  /\ resvLock[r] \in Proc \ {p}
             /\ resvLock'[r] = resvLock[r] /\ resvDraft'[r] = resvDraft[r]
             /\ resv'[r] = resv[r]
  <2>1. resvLock[r] \in Proc \cup {Null}
    BY DEF Inv, TypeInv, TypeOK
  <2>2. CASE R!Commit(p)
    BY <1>1, <2>1, <2>2 DEF R!Commit, R!Unlock
  <2>3. CASE R!Rollback(p)
    BY <1>1, <2>1, <2>3 DEF R!Rollback, R!Unlock
  <2>4. CASE UNCHANGED resvVars /\ pc[p] \in Rest
    BY <1>1, <2>1, <2>4 DEF resvVars, Inv, TypeInv, Locked
  <2> QED
    BY <2>2, <2>3, <2>4
<1>2. ASSUME NEW r \in RowId, resvLock'[r] # Null
      PROVE  /\ resvLock[r] # Null
             /\ pc'[resvLock[r]] = pc[resvLock[r]]
             /\ req'[resvLock[r]] = req[resvLock[r]]
             /\ copy'[resvLock[r]] = copy[resvLock[r]]
  BY <1>1, <1>2, NullAssumption
<1> QED
  BY <1>1, <1>2, OthersSteady DEF Steady

\* p goes on, leaves the reservations alone, and has no new row.
LEMMA ReadSteady ==
  ASSUME Inv, Steady, NEW p \in Proc, pc[p] \notin { "write", "commit" },
         UNCHANGED resvVars,
         \A q \in Proc \ {p} :
           pc'[q] = pc[q] /\ req'[q] = req[q] /\ copy'[q] = copy[q]
  PROVE  Steady'
<1>1. ASSUME NEW r \in RowId, resvLock[r] # Null
      PROVE  \/ /\ pc'[resvLock[r]] = pc[resvLock[r]]
                /\ req'[resvLock[r]] = req[resvLock[r]]
                /\ copy'[resvLock[r]] = copy[resvLock[r]]
             \/ resv[r] # Null
  <2>1. CASE resvLock[r] = p
    BY <1>1, <2>1 DEF Steady, SteadyRow
  <2>2. CASE resvLock[r] # p
    <3>1. resvLock[r] \in Proc \ {p}
      BY <1>1, <2>2 DEF Inv, TypeInv, TypeOK
    <3> QED
      BY <3>1
  <2> QED
    BY <2>1, <2>2
<1> QED
  BY <1>1, OthersSteady DEF Steady, resvVars

LEMMA WriteSteady ==
  ASSUME Inv, Steady, NEW p \in Proc, Write(p)
  PROVE  Steady'
<1>1. /\ pc[p] = "write"
      /\ Goto(p, IF HandsBack(p) THEN "release" ELSE "commit")
      /\ UNCHANGED << resv, resvDraft, resvLock, req, copy >>
  BY DEF Write, local, resvVars
<1>2. \A q \in Proc : Wanted(q)' = Wanted(q)
  BY <1>1 DEF Wanted
<1>3. \A q \in Proc : /\ pc[q] = "commit" => pc'[q] = "commit"
                      /\ pc[q] = "write" /\ req[q].op = "reschedule" =>
                           pc'[q] \in { "write", "commit" }
  BY <1>1 DEF Goto, HandsBack, Inv, TypeInv, TypeOK
<1>4. \A r \in RowId : resvLock[r] \in Proc \cup {Null}
  BY DEF Inv, TypeInv, TypeOK
<1> QED
  BY <1>1, <1>2, <1>3, <1>4 DEF Steady, SteadyRow

LEMMA UpdateSteady ==
  ASSUME Inv, Steady, NEW p \in Proc, NEW hit \in SUBSET RowId, UpdateStep(p, hit)
  PROVE  Steady'
<1> DEFINE new == [ r \in hit |-> Updated(p, R!Seen(p, r)) ]
<1>1. /\ pc[p] \in Updates
      /\ \A r \in hit : R!Lockable(p, r) /\ R!Seen(p, r) \in Reservation
      /\ R!Put(p, hit, new)
      /\ Goto(p, Following(p))
      /\ UNCHANGED << req, copy >>
  BY DEF UpdateStep
<1>2. pc[p] \notin { "write", "commit" }
  BY <1>1 DEF Updates
<1>3. \A r \in hit : /\ new[r].resource = R!Seen(p, r).resource
                     /\ new[r].window = R!Seen(p, r).window
                     /\ R!Seen(p, r).released => new[r].released
  BY <1>1 DEF Updated, Reservation
<1> HIDE DEF new
<1>4. ASSUME NEW r \in hit
      PROVE  /\ resv[r] # Null
             /\ new[r].resource = resv[r].resource
             /\ new[r].window = resv[r].window
             /\ resv[r].released => new[r].released
  <2>1. CASE resvLock[r] = p
    BY <1>2, <1>3, <2>1, NullAssumption DEF R!Seen, Steady, SteadyRow
  <2>2. CASE resvLock[r] # p
    BY <1>1, <1>3, <2>2, RowAssumption DEF R!Seen, R!Lockable
  <2> QED
    BY <2>1, <2>2
<1>5. \A r \in RowId : /\ resvLock'[r] = IF r \in hit THEN p ELSE resvLock[r]
                       /\ resvDraft'[r] = IF r \in hit THEN new[r] ELSE resvDraft[r]
                       /\ resv'[r] = resv[r]
  BY <1>1 DEF R!Put
<1>6. ASSUME NEW r \in RowId, resvLock[r] # Null
      PROVE  \/ /\ pc'[resvLock[r]] = pc[resvLock[r]]
                /\ req'[resvLock[r]] = req[resvLock[r]]
                /\ copy'[resvLock[r]] = copy[resvLock[r]]
             \/ resv[r] # Null
  <2>1. CASE resvLock[r] = p
    BY <1>2, <1>6, <2>1 DEF Steady, SteadyRow
  <2>2. CASE resvLock[r] # p
    <3>1. resvLock[r] \in Proc
      BY <1>6 DEF Inv, TypeInv, TypeOK
    <3> QED
      BY <1>1, <2>2, <3>1 DEF Goto, Inv, TypeInv, TypeOK
  <2> QED
    BY <2>1, <2>2
<1> SUFFICES ASSUME NEW r \in RowId, resvLock'[r] # Null
             PROVE  SteadyRow(r)'
  BY DEF Steady
<1>7. CASE r \in hit
  BY <1>4, <1>5, <1>7 DEF SteadyRow
<1>8. CASE r \notin hit
  BY <1>5, <1>6, <1>8, OthersSteady
<1> QED
  BY <1>7, <1>8

LEMMA ReserveSteady ==
  ASSUME Inv, Steady, NEW p \in Proc, ReserveStep(p)
  PROVE  Steady'
<1>1. /\ pc[p] = "reserve"
      /\ R!Put(p, DOMAIN NewRows(p), NewRows(p))
      /\ Goto(p, IF req[p].op = "reschedule" THEN "write" ELSE "commit")
      /\ UNCHANGED << req, copy >>
  BY DEF ReserveStep, local
<1>2. \A r \in RowId :
        /\ resvLock'[r] = IF r \in DOMAIN NewRows(p) THEN p ELSE resvLock[r]
        /\ resvDraft'[r] = IF r \in DOMAIN NewRows(p) THEN NewRows(p)[r] ELSE resvDraft[r]
        /\ resv'[r] = resv[r]
  BY <1>1 DEF R!Put
<1>3. /\ pc'[p] = IF req[p].op = "reschedule" THEN "write" ELSE "commit"
      /\ \A q \in Proc \ {p} : pc'[q] = pc[q]
  BY <1>1 DEF Goto, Inv, TypeInv, TypeOK
<1>4. ASSUME NEW r \in RowId, resvLock[r] # Null
      PROVE  \/ /\ pc'[resvLock[r]] = pc[resvLock[r]]
                /\ req'[resvLock[r]] = req[resvLock[r]]
                /\ copy'[resvLock[r]] = copy[resvLock[r]]
             \/ resv[r] # Null
  <2>1. CASE resvLock[r] = p
    BY <1>1, <1>4, <2>1 DEF Steady, SteadyRow
  <2>2. CASE resvLock[r] # p
    <3>1. resvLock[r] \in Proc \ {p}
      BY <1>4, <2>2 DEF Inv, TypeInv, TypeOK
    <3> QED
      BY <1>1, <1>3, <3>1
  <2> QED
    BY <2>1, <2>2
<1> SUFFICES ASSUME NEW r \in RowId, resvLock'[r] # Null
             PROVE  SteadyRow(r)'
  BY DEF Steady
<1>5. CASE r \in DOMAIN NewRows(p)
  <2>1. resv[r] = Null
    BY <1>1, <1>5, NewRowsLockable DEF Inv
  <2>2. /\ NewRows(p)[r].resource = r[3]
        /\ NewRows(p)[r].window = ReservationWindow(Wanted(p), req[p].start)
        /\ ~NewRows(p)[r].released
    BY <1>5 DEF NewRows
  <2>3. Wanted(p)' = Wanted(p)
    BY <1>1 DEF Wanted
  <2> QED
    BY <1>1, <1>2, <1>3, <1>5, <2>1, <2>2, <2>3 DEF SteadyRow
<1>6. CASE r \notin DOMAIN NewRows(p)
  BY <1>2, <1>4, <1>6, OthersSteady
<1> QED
  BY <1>5, <1>6

LEMMA GiveUpSteady ==
  ASSUME Inv, Steady, NEW p \in Proc, NEW reply, GiveUp(p, reply)
  PROVE  Steady'
<1>1. /\ R!Rollback(p)
      /\ \A q \in Proc \ {p} :
           pc'[q] = pc[q] /\ req'[q] = req[q] /\ copy'[q] = copy[q]
  BY DEF GiveUp, Goto, Forget, Inv, TypeInv, TypeOK
<1> QED
  BY <1>1, EndSteady

LEMMA CommitSteady ==
  ASSUME Inv, Steady, NEW p \in Proc, Commit(p)
  PROVE  Steady'
<1>1. /\ R!Commit(p)
      /\ \A q \in Proc \ {p} :
           pc'[q] = pc[q] /\ req'[q] = req[q] /\ copy'[q] = copy[q]
  BY DEF Commit, Goto, Forget, Inv, TypeInv, TypeOK
<1> QED
  BY <1>1, EndSteady

LEMMA BeginSteady ==
  ASSUME Inv, Steady, NEW p \in Proc, Begin(p)
  PROVE  Steady'
<1>1. /\ UNCHANGED resvVars /\ pc[p] \in Rest
      /\ \A q \in Proc \ {p} :
           pc'[q] = pc[q] /\ req'[q] = req[q] /\ copy'[q] = copy[q]
  BY DEF Begin, Goto, Inv, TypeInv, TypeOK
<1> QED
  BY <1>1, EndSteady

LEMMA ReadOrInsertSteady ==
  ASSUME Inv, Steady, NEW p \in Proc, \A reply : ~GiveUp(p, reply),
         Replay(p) \/ Lookup(p) \/ ResolveSlot(p) \/ Read(p) \/ Find(p) \/ Insert(p)
  PROVE  Steady'
<1> USE DEF Inv, TypeInv, TypeOK, Goto
<1>1. /\ pc[p] \notin { "write", "commit" }
      /\ UNCHANGED resvVars
      /\ \A q \in Proc \ {p} :
           pc'[q] = pc[q] /\ req'[q] = req[q] /\ copy'[q] = copy[q]
  <2>1. CASE Replay(p)
    BY <2>1 DEF Replay
  <2>2. CASE Lookup(p)
    BY <2>2 DEF Lookup
  <2>3. CASE ResolveSlot(p)
    BY <2>3 DEF ResolveSlot
  <2>4. CASE Read(p)
    BY <2>4 DEF Read
  <2>5. CASE Find(p)
    BY <2>5 DEF Find, Updates
  <2>6. CASE Insert(p)
    BY <2>6 DEF Insert
  <2> QED
    BY <2>1, <2>2, <2>3, <2>4, <2>5, <2>6
<1> HIDE DEF Inv
<1> QED
  BY <1>1, ReadSteady

LEMMA NextSteady == Inv /\ Steady /\ [Next]_vars => Steady'
<1> SUFFICES ASSUME Inv, Steady, [Next]_vars PROVE Steady'
  OBVIOUS
<1>1. CASE ~\E p \in Proc : \E reply : GiveUp(p, reply)
  <2>1. ASSUME NEW p \in Proc, Begin(p) PROVE Steady'
    BY <2>1, BeginSteady
  <2>2. ASSUME NEW p \in Proc, Replay(p) \/ Lookup(p) \/ ResolveSlot(p) \/ Read(p)
                                 \/ Find(p) \/ Insert(p)
        PROVE Steady'
    BY <1>1, <2>2, ReadOrInsertSteady
  <2>3. ASSUME NEW p \in Proc, Write(p) PROVE Steady'
    BY <2>3, WriteSteady
  <2>4. ASSUME NEW p \in Proc, Update(p) PROVE Steady'
    BY <1>1, <2>4, UpdateCases, UpdateSteady DEF Inv
  <2>5. ASSUME NEW p \in Proc, Reserve(p) PROVE Steady'
    BY <1>1, <2>5, ReserveCases, ReserveSteady
  <2>6. ASSUME NEW p \in Proc, Commit(p) PROVE Steady'
    BY <2>6, CommitSteady
  <2>7. ASSUME NEW p \in Proc, Deadlock(p) \/ Crash(p) PROVE Steady'
    BY <1>1, <2>7 DEF Deadlock, Crash
  <2>8. CASE Tick \/ UNCHANGED vars
    BY <2>8 DEF Tick, vars, resvVars, local, Steady, SteadyRow, Wanted
  <2> QED
    BY <2>1, <2>2, <2>3, <2>4, <2>5, <2>6, <2>7, <2>8 DEF Next, Statement, Done
<1>2. CASE \E p \in Proc : \E reply : GiveUp(p, reply)
  BY <1>2, GiveUpSteady
<1> QED
  BY <1>1, <1>2

LEMMA InitRefines == Init => C!Init
BY DEF Init, C!Init, R!Empty, Claims, Spent, Live

\* Only a commit changes what is committed.
LEMMA OnlyCommits ==
  ASSUME [Next]_vars
  PROVE  resv' = resv \/ \E p \in Proc : Commit(p)
<1>1. \A p, reply : GiveUp(p, reply) => resv' = resv
  BY DEF GiveUp, R!Rollback
<1>2. \A p, ids, new : R!Put(p, ids, new) => resv' = resv
  BY DEF R!Put
<1>3. ASSUME NEW p \in Proc, Begin(p) \/ Replay(p) \/ Lookup(p) \/ ResolveSlot(p)
                               \/ Read(p) \/ Find(p) \/ Insert(p) \/ Write(p)
      PROVE  resv' = resv
  BY <1>1, <1>3 DEF Begin, Replay, Lookup, ResolveSlot, Read, Find, Insert, Write,
                    resvVars
<1>4. ASSUME NEW p \in Proc, Update(p) \/ Reserve(p) \/ Deadlock(p) \/ Crash(p)
      PROVE  resv' = resv
  BY <1>1, <1>2, <1>4 DEF Update, Reserve, Deadlock, Crash
<1>5. CASE Tick \/ UNCHANGED vars
  BY <1>5 DEF Tick, vars, resvVars
<1> QED
  BY <1>3, <1>4, <1>5 DEF Next, Statement, Done

\* What a commit of p does to one row.
LEMMA CommitRow ==
  ASSUME Inv, Steady, NEW p \in Proc, Commit(p), NEW r \in RowId
  PROVE  /\ resv[r] # Null => resv'[r] # Null
         /\ Live(resv[r]) /\ Live(resv'[r]) =>
              /\ resv'[r].resource = resv[r].resource
              /\ resv'[r].window = resv[r].window
         /\ resv[r] # Null /\ ~Live(resv[r]) => ~Live(resv'[r])
         /\ resv[r] = Null /\ resv'[r] # Null =>
              /\ Live(resv'[r])
              /\ r[1] = p /\ r[2] = serial[p]
              /\ resv'[r].resource = r[3]
              /\ resv'[r].window = ReservationWindow(Wanted(p), req[p].start)
<1>1. resv'[r] = IF resvLock[r] = p THEN resvDraft[r] ELSE resv[r]
  BY DEF Commit, R!Commit
<1>2. CASE resvLock[r] = p
  <2>1. resvLock[r] # Null /\ resvDraft[r] # Null
    BY <1>2, NullAssumption DEF Inv, TypeInv, Locked
  <2>2. resv'[r] = resvDraft[r] /\ SteadyRow(r)
    BY <1>1, <1>2, <2>1 DEF Steady
  <2>3. resv[r] = Null => r[1] = p /\ r[2] = serial[p]
    BY <1>2, <2>1 DEF Inv, Made
  <2> QED
    BY <1>2, <2>1, <2>2, <2>3 DEF SteadyRow, Live
<1>3. CASE resvLock[r] # p
  BY <1>1, <1>3
<1> QED
  BY <1>2, <1>3

LEMMA CommitRefines ==
  ASSUME Inv, Inv', Steady, NEW p \in Proc, Commit(p)
  PROVE  C!Change
<1> DEFINE made == Claims' \ Claims
           gone == Claims \ Claims'
<1>1. /\ \A c \in Claims : c.id \in RowId /\ Live(resv[c.id]) /\ c = Claim(c.id)
      /\ \A r \in RowId : Live(resv[r]) => Claim(r) \in Claims /\ Claim(r).id = r
  BY DEF Claims, Claim
<1>2. /\ \A c \in Claims' : c.id \in RowId /\ Live(resv'[c.id]) /\ c = Claim(c.id)'
      /\ \A r \in RowId : Live(resv'[r]) => Claim(r)' \in Claims' /\ Claim(r)'.id = r
  BY DEF Claims, Claim
<1>3. \A r \in RowId : Live(resv[r]) /\ Live(resv'[r]) => Claim(r)' = Claim(r)
  BY CommitRow DEF Claim
<1>4. ASSUME NEW c \in made
      PROVE  /\ c.id \in RowId /\ resv[c.id] = Null /\ resv'[c.id] # Null
             /\ c = Claim(c.id)'
             /\ c.resource = c.id[3]
             /\ c.window = ReservationWindow(Wanted(p), req[p].start)
             /\ c.id = << p, serial[p], c.id[3] >>
  <2>1. c.id \in RowId /\ Live(resv'[c.id]) /\ c = Claim(c.id)'
    BY <1>2
  <2>2. ~Live(resv[c.id])
    BY <1>1, <1>3, <2>1
  <2>3. resv[c.id] = Null /\ resv'[c.id] # Null
    BY <2>1, <2>2, CommitRow DEF Live
  <2>4. /\ c.id[1] = p /\ c.id[2] = serial[p] /\ resv'[c.id].resource = c.id[3]
        /\ resv'[c.id].window = ReservationWindow(Wanted(p), req[p].start)
    BY <2>1, <2>3, CommitRow
  <2>5. c.id = << c.id[1], c.id[2], c.id[3] >>
    BY <2>1, RowIds
  <2>6. c.resource = resv'[c.id].resource /\ c.window = resv'[c.id].window
    BY <2>1 DEF Claim
  <2> QED
    BY <2>1, <2>3, <2>4, <2>5, <2>6
<1>5. C!Ids(made) \cap (Spent \cup C!Ids(Claims)) = {}
  <2>1. \A i \in C!Ids(made) : resv[i] = Null
    BY <1>4 DEF C!Ids
  <2>2. \A i \in Spent \cup C!Ids(Claims) : resv[i] # Null
    BY <1>1 DEF C!Ids, Spent, Live
  <2> QED
    BY <2>1, <2>2
<1>6. \A c, d \in made : c.window = d.window /\ (c.resource = d.resource => c = d)
  <2> TAKE c, d \in made
  <2>1. c.window = d.window
    BY <1>4
  <2>2. ASSUME c.resource = d.resource PROVE c = d
    <3>1. c.id = d.id
      BY <1>4, <2>2
    <3>2. c = Claim(c.id)' /\ d = Claim(d.id)'
      BY <1>4
    <3> QED
      BY <3>1, <3>2
  <2> QED
    BY <2>1, <2>2
<1>7. C!Disjoint(Claims')
  <2> SUFFICES ASSUME NEW c \in Claims', NEW d \in Claims', c # d,
                      c.resource = d.resource
               PROVE  ~C!Overlap(c.window, d.window)
    BY DEF C!Disjoint
  <2>1. c.id # d.id
    BY <1>2
  <2>2. ~Clash(resv'[c.id], resv'[d.id])
    BY <1>2, <2>1 DEF Inv, Apart, Clash
  <2>3. /\ c.resource = resv'[c.id].resource /\ c.window = resv'[c.id].window
        /\ d.resource = resv'[d.id].resource /\ d.window = resv'[d.id].window
    BY <1>2 DEF Claim
  <2> QED
    BY <1>2, <2>2, <2>3 DEF Clash, Overlaps, C!Overlap
<1>8. Spent' = Spent \cup C!Ids(gone)
  <2>1. ASSUME NEW r \in Spent' PROVE r \in Spent \cup C!Ids(gone)
    <3>1. r \in RowId /\ resv'[r] # Null /\ ~Live(resv'[r])
      BY DEF Spent
    <3>2. resv[r] # Null
      BY <3>1, CommitRow
    <3>3. CASE Live(resv[r])
      <4>1. Claim(r) \in Claims /\ Claim(r).id = r
        BY <1>1, <3>1, <3>3
      <4>2. Claim(r) \notin Claims'
        BY <1>2, <3>1, <4>1
      <4> QED
        BY <4>1, <4>2 DEF C!Ids
    <3>4. CASE ~Live(resv[r])
      BY <3>1, <3>2, <3>4 DEF Spent
    <3> QED
      BY <3>3, <3>4
  <2>2. ASSUME NEW r \in Spent PROVE r \in Spent'
    BY CommitRow DEF Spent
  <2>3. ASSUME NEW c \in gone PROVE c.id \in Spent'
    <3>1. c.id \in RowId /\ Live(resv[c.id]) /\ c = Claim(c.id)
      BY <1>1
    <3>2. ~Live(resv'[c.id])
      BY <1>2, <1>3, <3>1
    <3>3. resv[c.id] # Null
      BY <3>1 DEF Live
    <3> QED
      BY <3>1, <3>2, <3>3, CommitRow DEF Spent
  <2>4. C!Ids(gone) \subseteq Spent'
    BY <2>3 DEF C!Ids
  <2> HIDE DEF gone
  <2> QED
    BY <2>1, <2>2, <2>4
<1> QED
  BY <1>5, <1>6, <1>7, <1>8 DEF C!Change

\* The booking engine implements the exclusive calendar: whatever its requests,
\* crashes and sweeps do to the tables, each commit is one legal change of a
\* set of disjoint claims, and nothing else changes that set.
THEOREM Refinement == Spec => Exclusive
<1>1. Inv /\ Steady /\ [Next]_vars => Inv' /\ Steady'
  BY NextInv, NextSteady
<1>2. Inv /\ Inv' /\ Steady /\ [Next]_vars => [C!Next]_<< Claims, Spent >>
  <2> SUFFICES ASSUME Inv, Inv', Steady, [Next]_vars
               PROVE  [C!Next]_<< Claims, Spent >>
    OBVIOUS
  <2>1. CASE resv' = resv
    BY <2>1 DEF Claims, Claim, Spent, Live
  <2>2. CASE \E p \in Proc : Commit(p)
    BY <2>2, CommitRefines DEF C!Next
  <2> QED
    BY <2>1, <2>2, OnlyCommits
<1> QED
  BY <1>1, <1>2, InitInv, InitSteady, InitRefines, PTL DEF Spec, Exclusive, C!Spec

------------------------------------------------------------------------------
(* Holds that are confirmed *)

\* The version of a committed hold that makes it the booking: it is written on a
\* live hold, by the last statement of its session before the commit.
Converted(r) == resv[r] # Null /\ resv[r].kind = "hold" /\ resvDraft[r].kind = "booking"

ConvertedRow(r) ==
  Converted(r) => /\ Live(resv[r]) /\ Live(resvDraft[r])
                  /\ pc[resvLock[r]] = "commit"

InPlace == \A r \in RowId : resvLock[r] # Null => ConvertedRow(r)

LEMMA InitInPlace == Init => InPlace
BY DEF Init, InPlace, R!Empty

\* p leaves the reservations alone, or ends its transaction.
LEMMA EndInPlace ==
  ASSUME Inv, InPlace, NEW p \in Proc,
         \/ R!Commit(p)
         \/ R!Rollback(p)
         \/ UNCHANGED resvVars /\ pc[p] # "commit",
         \A q \in Proc \ {p} : pc'[q] = pc[q]
  PROVE  InPlace'
<1> SUFFICES ASSUME NEW r \in RowId, resvLock'[r] # Null, Converted(r)'
             PROVE  /\ Live(resv[r])' /\ Live(resvDraft[r])'
                    /\ pc'[resvLock'[r]] = "commit"
  BY DEF InPlace, ConvertedRow
<1>1. resvLock[r] \in Proc \cup {Null}
  BY DEF Inv, TypeInv, TypeOK
<1>2. CASE R!Commit(p) \/ R!Rollback(p)
  <2>1. /\ resvLock[r] \in Proc \ {p}
        /\ resvLock'[r] = resvLock[r] /\ resvDraft'[r] = resvDraft[r]
        /\ resv'[r] = resv[r]
    BY <1>1, <1>2 DEF R!Commit, R!Rollback, R!Unlock
  <2> QED
    BY <2>1, NullAssumption DEF InPlace, ConvertedRow, Converted, Live
<1>3. CASE UNCHANGED resvVars /\ pc[p] # "commit"
  <2>1. resvLock[r] # Null /\ ConvertedRow(r) /\ Converted(r)
    BY <1>3 DEF resvVars, InPlace, Converted
  <2>2. resvLock[r] \in Proc \ {p}
    BY <1>1, <1>3, <2>1 DEF ConvertedRow
  <2> QED
    BY <1>3, <2>1, <2>2 DEF resvVars, ConvertedRow, Live
<1> QED
  BY <1>2, <1>3

\* p writes new versions of rows it may lock; those that convert a hold do so as
\* ConvertedRow says.
LEMMA PutInPlace ==
  ASSUME Inv, InPlace, NEW p \in Proc, NEW ids \in SUBSET RowId, NEW new,
         pc[p] # "commit", R!Put(p, ids, new),
         \A q \in Proc \ {p} : pc'[q] = pc[q],
         \A r \in ids :
           resv[r] # Null /\ resv[r].kind = "hold" /\ new[r].kind = "booking"
             => Live(resv[r]) /\ Live(new[r]) /\ pc'[p] = "commit"
  PROVE  InPlace'
<1> SUFFICES ASSUME NEW r \in RowId, resvLock'[r] # Null, Converted(r)'
             PROVE  /\ Live(resv[r])' /\ Live(resvDraft[r])'
                    /\ pc'[resvLock'[r]] = "commit"
  BY DEF InPlace, ConvertedRow
<1>1. /\ resvLock'[r] = IF r \in ids THEN p ELSE resvLock[r]
      /\ resvDraft'[r] = IF r \in ids THEN new[r] ELSE resvDraft[r]
      /\ resv'[r] = resv[r]
  BY DEF R!Put
<1>2. CASE r \in ids
  BY <1>1, <1>2 DEF Converted, Live
<1>3. CASE r \notin ids
  <2>1. /\ resvLock[r] # Null /\ Live(resv[r]) /\ Live(resvDraft[r])
        /\ pc[resvLock[r]] = "commit"
    BY <1>1, <1>3 DEF InPlace, ConvertedRow, Converted
  <2>2. resvLock[r] \in Proc \ {p}
    BY <2>1 DEF Inv, TypeInv, TypeOK
  <2> QED
    BY <1>1, <1>3, <2>1, <2>2 DEF Live
<1> QED
  BY <1>2, <1>3

LEMMA UpdateInPlace ==
  ASSUME Inv, Steady, InPlace, NEW p \in Proc, NEW hit \in SUBSET RowId,
         UpdateStep(p, hit)
  PROVE  InPlace'
<1> DEFINE new == [ r \in hit |-> Updated(p, R!Seen(p, r)) ]
<1>1. /\ pc[p] \in Updates
      /\ \A r \in hit : R!Lockable(p, r) /\ R!Seen(p, r) \in Reservation
      /\ pc[p] = "convert" => \A r \in hit : Hold(R!Seen(p, r))
      /\ R!Put(p, hit, new)
      /\ Goto(p, Following(p))
  BY DEF UpdateStep
<1>2. /\ pc[p] # "commit"
      /\ pc[p] = "convert" => pc'[p] = "commit"
      /\ \A q \in Proc \ {p} : pc'[q] = pc[q]
  BY <1>1 DEF Updates, Goto, Following, Inv, TypeInv, TypeOK
<1>3. ASSUME NEW r \in hit
      PROVE  /\ new[r] # Null
             /\ new[r].kind = IF pc[p] = "convert" THEN "booking" ELSE R!Seen(p, r).kind
             /\ pc[p] = "convert" => new[r].released = R!Seen(p, r).released
  <2>1. R!Seen(p, r) \in Reservation /\ new[r] = Updated(p, R!Seen(p, r))
    BY <1>1, <1>3
  <2> HIDE DEF new
  <2>2. Updated(p, R!Seen(p, r)) \in Reservation
    BY <1>1, <2>1, UpdatedRow DEF Inv
  <2>3. CASE pc[p] = "convert"
    BY <2>1, <2>2, <2>3, RowAssumption DEF Updated, Reservation
  <2>4. CASE pc[p] # "convert"
    BY <2>1, <2>2, <2>4, RowAssumption DEF Updated, Reservation
  <2> QED
    BY <2>3, <2>4
<1> HIDE DEF new
<1>4. ASSUME NEW r \in hit,
             resv[r] # Null, resv[r].kind = "hold", new[r].kind = "booking"
      PROVE  Live(resv[r]) /\ Live(new[r]) /\ pc'[p] = "commit"
  <2>1. CASE pc[p] = "convert"
    <3>1. Live(R!Seen(p, r)) /\ Live(new[r])
      BY <1>1, <1>3, <2>1 DEF Hold, Live
    <3>2. Live(resv[r])
      <4>1. CASE resvLock[r] = p
        BY <1>4, <3>1, <4>1, NullAssumption DEF R!Seen, Live, Steady, SteadyRow
      <4>2. CASE resvLock[r] # p
        BY <3>1, <4>2 DEF R!Seen
      <4> QED
        BY <4>1, <4>2
    <3> QED
      BY <1>2, <2>1, <3>1, <3>2
  <2>2. CASE pc[p] # "convert"
    <3>1. R!Seen(p, r).kind = "booking"
      BY <1>3, <1>4, <2>2
    <3>2. resvLock[r] = p /\ Converted(r)
      BY <1>4, <3>1 DEF R!Seen, Converted
    <3> QED
      BY <1>2, <3>2, NullAssumption DEF InPlace, ConvertedRow
  <2> QED
    BY <2>1, <2>2
<1> QED
  BY <1>1, <1>2, <1>4, PutInPlace

LEMMA ReserveInPlace ==
  ASSUME Inv, InPlace, NEW p \in Proc, ReserveStep(p)
  PROVE  InPlace'
<1>1. /\ pc[p] = "reserve"
      /\ R!Put(p, DOMAIN NewRows(p), NewRows(p))
      /\ \A q \in Proc \ {p} : pc'[q] = pc[q]
  BY DEF ReserveStep, Goto, Inv, TypeInv, TypeOK
<1>2. \A r \in DOMAIN NewRows(p) : r \in RowId /\ resv[r] = Null
  BY <1>1, NewRowsTyped, NewRowsLockable DEF Inv
<1> QED
  BY <1>1, <1>2, PutInPlace

LEMMA NextInPlace == Inv /\ Steady /\ InPlace /\ [Next]_vars => InPlace'
<1> SUFFICES ASSUME Inv, Steady, InPlace, [Next]_vars PROVE InPlace'
  OBVIOUS
<1>1. ASSUME NEW p \in Proc, NEW reply, GiveUp(p, reply) PROVE InPlace'
  <2>1. R!Rollback(p) /\ \A q \in Proc \ {p} : pc'[q] = pc[q]
    BY <1>1 DEF GiveUp, Goto, Inv, TypeInv, TypeOK
  <2> QED
    BY <2>1, EndInPlace
<1>2. ASSUME NEW p \in Proc, Begin(p) PROVE InPlace'
  <2>1. UNCHANGED resvVars /\ pc[p] # "commit" /\ \A q \in Proc \ {p} : pc'[q] = pc[q]
    BY <1>2 DEF Begin, Rest, Goto, Inv, TypeInv, TypeOK
  <2> QED
    BY <2>1, EndInPlace
<1>3. ASSUME NEW p \in Proc, \A reply : ~GiveUp(p, reply),
             Replay(p) \/ Lookup(p) \/ ResolveSlot(p) \/ Read(p)
                \/ Find(p) \/ Insert(p) \/ Write(p)
      PROVE  InPlace'
  <2> USE DEF Inv, TypeInv, TypeOK, Goto
  <2>1. UNCHANGED resvVars /\ pc[p] # "commit" /\ \A q \in Proc \ {p} : pc'[q] = pc[q]
    <3>1. CASE Replay(p)
      BY <1>3, <3>1 DEF Replay
    <3>2. CASE Lookup(p)
      BY <1>3, <3>2 DEF Lookup
    <3>3. CASE ResolveSlot(p)
      BY <1>3, <3>3 DEF ResolveSlot
    <3>4. CASE Read(p)
      BY <1>3, <3>4 DEF Read
    <3>5. CASE Find(p)
      BY <3>5 DEF Find, Updates
    <3>6. CASE Insert(p)
      BY <1>3, <3>6 DEF Insert
    <3>7. CASE Write(p)
      BY <3>7 DEF Write
    <3> QED
      BY <1>3, <3>1, <3>2, <3>3, <3>4, <3>5, <3>6, <3>7
  <2> HIDE DEF Inv
  <2> QED
    BY <2>1, EndInPlace
<1>4. ASSUME NEW p \in Proc, Update(p), ~GiveUp(p, "conflict") PROVE InPlace'
  BY <1>4, UpdateCases, UpdateInPlace DEF Inv
<1>5. ASSUME NEW p \in Proc, Reserve(p) PROVE InPlace'
  BY <1>1, <1>5, ReserveCases, ReserveInPlace
<1>6. ASSUME NEW p \in Proc, Commit(p) PROVE InPlace'
  <2>1. R!Commit(p) /\ \A q \in Proc \ {p} : pc'[q] = pc[q]
    BY <1>6 DEF Commit, Goto, Inv, TypeInv, TypeOK
  <2> QED
    BY <2>1, EndInPlace
<1>7. ASSUME NEW p \in Proc, Deadlock(p) \/ Crash(p) PROVE InPlace'
  BY <1>1, <1>7 DEF Deadlock, Crash
<1>8. CASE Tick \/ UNCHANGED vars
  BY <1>8 DEF Tick, vars, resvVars, InPlace, ConvertedRow, Converted, Live
<1>9. CASE ~\E p \in Proc : \E reply : GiveUp(p, reply)
  BY <1>2, <1>3, <1>4, <1>5, <1>6, <1>7, <1>8, <1>9 DEF Next, Statement, Done
<1> QED
  BY <1>1, <1>9

\* A hold that is confirmed keeps its time: the row that becomes the booking was
\* live up to that commit and is live after it, whichever sweeps, drops and other
\* confirmations met it on the way.
THEOREM ConfirmedInPlace == Spec => NoGap
<1>1. Inv /\ Steady /\ InPlace /\ [Next]_vars => Inv' /\ Steady' /\ InPlace'
  BY NextInv, NextSteady, NextInPlace
<1>2. Inv /\ InPlace /\ [Next]_vars =>
        [ \A r \in RowId :
            resv[r] # Null /\ resv[r].kind = "hold" /\ resv'[r].kind = "booking"
              => Live(resv[r]) /\ Live(resv'[r]) ]_vars
  <2> SUFFICES ASSUME Inv, InPlace, [Next]_vars, NEW r \in RowId,
                      resv[r] # Null, resv[r].kind = "hold", resv'[r].kind = "booking"
               PROVE  Live(resv[r]) /\ Live(resv'[r])
    OBVIOUS
  <2>1. PICK p \in Proc : Commit(p)
    BY OnlyCommits
  <2>2. resv'[r] = IF resvLock[r] = p THEN resvDraft[r] ELSE resv[r]
    BY <2>1 DEF Commit, R!Commit
  <2>3. resvLock[r] # Null /\ Converted(r) /\ resv'[r] = resvDraft[r]
    BY <2>2, NullAssumption DEF Converted
  <2> QED
    BY <2>3 DEF InPlace, ConvertedRow
<1> QED
  BY <1>1, <1>2, InitInv, InitSteady, InitInPlace, PTL DEF Spec, NoGap

------------------------------------------------------------------------------
(* One booking for each key *)

\* A request that has read the appointment it is to change.
Editing(p) ==
  /\ req[p].op \in { "transition", "reschedule", "details" }
  /\ pc[p] \notin Rest \cup { "read" }

\* The request cancels an appointment or marks it a no-show.
Releases(p) == req[p].op = "transition" /\ ~Occupies(req[p].status)

\* What the theorem asks of the clients: nobody hands an appointment's time back
\* while another request is in the middle of changing that appointment, which
\* would write its old status back.
Undisturbed ==
  \A p, q \in Proc :
    p # q /\ Editing(p) /\ Editing(q) /\ req[p].appt = req[q].appt => ~Releases(p)

Over(v) == ~Occupies(v.status)

\* The key is that of an appointment that is over.
SpentKey(k) == \E c \in ApptId : appts[c] # Null /\ Over(appts[c]) /\ appts[c].key = k

\* v carries the key its client sent, or none because that key is spent.
Entitled(v) ==
  /\ v.key \in { v.asked, Null }
  /\ v.asked # Null /\ v.key = Null => SpentKey(v.asked)

\* v is what p makes of w: the keys stay, and nothing brings w back.
Faithful(p, v, w) ==
  /\ v.key = w.key /\ v.asked = w.asked
  /\ Over(w) => Over(v)
  /\ Over(v) => Over(w) \/ Releases(p)

\* An appointment's number is that of the request that made it, and it is
\* committed with that request; until then only its maker has it, and only after
\* its INSERT.
Filed ==
  \A a \in ApptId :
    /\ appts[a] # Null =>
         \/ a[2] < serial[a[1]]
         \/ a[2] = serial[a[1]] /\ (pc[a[1]] \in Rest \/ req[a[1]].op = "sweep")
    /\ appts[a] = Null /\ apptsLock[a] # Null =>
         /\ apptsLock[a] = a[1] /\ a[2] = serial[a[1]]
         /\ pc[a[1]] \in { "purge", "reserve", "convert", "commit" }
         /\ req[a[1]].op \in { "book", "confirm" }

\* A draft of a committed appointment is its editor's.
Written ==
  \A a \in ApptId : appts[a] # Null /\ apptsLock[a] # Null =>
    /\ Editing(apptsLock[a]) /\ req[apptsLock[a]].appt = a
    /\ Faithful(apptsLock[a], apptsDraft[a], appts[a])

\* So is the copy an editor carries.
Carried ==
  \A p \in Proc : Editing(p) =>
    copy[p] \in Appointment /\ Faithful(p, copy[p], appts[req[p].appt])

\* The version of an appointment that carries its keys.
Face(a) == IF appts[a] # Null THEN appts[a]
           ELSE IF apptsLock[a] # Null THEN apptsDraft[a] ELSE Null

\* Every request and every appointment is entitled to the key it carries ...
Titles ==
  /\ \A p \in Proc : Entitled(req[p])
  /\ \A a \in ApptId : Face(a) # Null => Entitled(Face(a))

\* ... and no two appointments carry the same one.
Unique ==
  \A a, b \in ApptId :
    a # b /\ Face(a) # Null /\ Face(b) # Null /\ Face(a).key # Null
      => Face(a).key # Face(b).key

Ledger == Filed /\ Written /\ Carried /\ Titles /\ Unique

LEMMA ApptIds ==
  ASSUME NEW a \in ApptId
  PROVE  a[1] \in Proc /\ a[2] \in 1..Budget[a[1]] /\ a = << a[1], a[2] >>
BY DEF ApptId

LEMMA InitLedger == Init => Ledger
BY DEF Init, A!Empty, Ledger, Filed, Written, Carried, Titles, Unique, Face, Editing,
       Entitled, Rest, Blank, Ask

\* Titles last as long as appointments that are over stay over and keep their key.
LEMMA SpentLasts ==
  ASSUME NEW v, Entitled(v),
         \A c \in ApptId : appts[c] # Null /\ Over(appts[c]) =>
           appts'[c] # Null /\ Over(appts'[c]) /\ appts'[c].key = appts[c].key
  PROVE  /\ v.key \in { v.asked, Null }
         /\ v.asked # Null /\ v.key = Null => SpentKey(v.asked)'
BY DEF Entitled, SpentKey

\* What a session at rest, or before its INSERT or its UPDATE, has locked: nothing.
LEMMA NothingLocked ==
  ASSUME Inv, Ledger, NEW p \in Proc,
         pc[p] \in { "replay", "lookup", "resolve", "insert", "read" } \cup Rest,
         ~Editing(p)
  PROVE  \A a \in ApptId : apptsLock[a] # p
<1> SUFFICES ASSUME NEW a \in ApptId, apptsLock[a] = p PROVE FALSE
  OBVIOUS
<1>1. p # Null
  BY NullAssumption
<1>2. appts[a] = Null
  BY <1>1 DEF Ledger, Written
<1>3. pc[p] \in { "purge", "reserve", "convert", "commit" }
  BY <1>1, <1>2 DEF Ledger, Filed
<1> QED
  BY <1>3 DEF Rest

\* p goes on with its request and leaves the appointments alone.
GoesOn(p) ==
  /\ pc[p] \notin Rest /\ pc'[p] \notin Rest \cup { "read" }
  /\ UNCHANGED apptVars
  /\ serial' = serial
  /\ req'[p].op = req[p].op /\ req'[p].appt = req[p].appt
  /\ req'[p].status = req[p].status
  /\ Entitled(req'[p])
  /\ pc[p] \in { "purge", "reserve", "convert", "commit" } /\ req[p].op \in { "book", "confirm" }
       => pc'[p] \in { "purge", "reserve", "convert", "commit" }
  /\ IF pc[p] = "read"
     THEN copy'[p] \in Appointment /\ Faithful(p, copy'[p], appts[req[p].appt])
     ELSE copy'[p] = copy[p]

\* p does something to its own memory only.
Alone(p) ==
  \A q \in Proc \ {p} : pc'[q] = pc[q] /\ req'[q] = req[q] /\ copy'[q] = copy[q]

LEMMA GoesOnLedger ==
  ASSUME Inv, Ledger, NEW p \in Proc, GoesOn(p), Alone(p)
  PROVE  Ledger'
<1> USE DEF GoesOn, Alone
<1>1. appts' = appts /\ apptsLock' = apptsLock /\ apptsDraft' = apptsDraft
  BY DEF apptVars
<1>2. Filed'
  <2> SUFFICES ASSUME NEW a \in ApptId
               PROVE  /\ appts[a] # Null =>
                           \/ a[2] < serial[a[1]]
                           \/ a[2] = serial[a[1]]
                              /\ (pc'[a[1]] \in Rest \/ req'[a[1]].op = "sweep")
                      /\ appts[a] = Null /\ apptsLock[a] # Null =>
                           /\ apptsLock[a] = a[1] /\ a[2] = serial[a[1]]
                           /\ pc'[a[1]] \in { "purge", "reserve", "convert", "commit" }
                           /\ req'[a[1]].op \in { "book", "confirm" }
    BY <1>1 DEF Filed
  <2>1. a[1] \in Proc
    BY ApptIds
  <2>2. CASE a[1] = p
    BY <2>2 DEF Ledger, Filed
  <2>3. CASE a[1] # p
    BY <2>1, <2>3 DEF Ledger, Filed
  <2> QED
    BY <2>2, <2>3
<1>3. \A q \in Proc : Releases(q)' = Releases(q)
  BY DEF Releases
<1>4. \A q \in Proc : Editing(q) => Editing(q)' /\ req'[q].appt = req[q].appt
  BY DEF Editing
<1>5. Written'
  <2> SUFFICES ASSUME NEW a \in ApptId, appts[a] # Null, apptsLock[a] # Null
               PROVE  /\ Editing(apptsLock[a])' /\ req'[apptsLock[a]].appt = a
                      /\ Faithful(apptsLock[a], apptsDraft[a], appts[a])'
    BY <1>1 DEF Written
  <2>1. PICK q \in Proc : apptsLock[a] = q
    BY DEF Inv, TypeInv, TypeOK
  <2>2. Editing(q) /\ req[q].appt = a /\ Faithful(q, apptsDraft[a], appts[a])
    BY <2>1 DEF Ledger, Written
  <2> QED
    BY <1>1, <1>3, <1>4, <2>1, <2>2 DEF Faithful
<1>6. Carried'
  <2> SUFFICES ASSUME NEW q \in Proc, Editing(q)'
               PROVE  copy'[q] \in Appointment
                      /\ Faithful(q, copy[q], appts[req[q].appt])'
    BY DEF Carried
  <2>1. req'[q].appt = req[q].appt
    OBVIOUS
  <2>2. copy'[q] \in Appointment /\ Faithful(q, copy'[q], appts[req[q].appt])
    <3>1. CASE q = p /\ pc[p] = "read"
      BY <3>1
    <3>2. CASE ~(q = p /\ pc[p] = "read")
      <4>1. Editing(q) /\ copy'[q] = copy[q]
        BY <3>2 DEF Editing
      <4> QED
        BY <4>1 DEF Ledger, Carried
    <3> QED
      BY <3>1, <3>2
  <2> QED
    BY <1>1, <1>3, <2>1, <2>2 DEF Faithful
<1>7. \A k : SpentKey(k)' = SpentKey(k)
  BY <1>1 DEF SpentKey
<1>8. \A a \in ApptId : Face(a)' = Face(a)
  BY <1>1 DEF Face
<1>9. Titles'
  <2>1. \A q \in Proc : Entitled(req'[q])
    BY DEF Ledger, Titles
  <2> QED
    BY <1>7, <1>8, <2>1 DEF Ledger, Titles, Entitled
<1>10. Unique'
  BY <1>8 DEF Ledger, Unique
<1> QED
  BY <1>2, <1>5, <1>6, <1>9, <1>10 DEF Ledger

LEMMA ReplayLedger ==
  ASSUME Inv, Ledger, NEW p \in Proc, Replay(p), ~GiveUp(p, "replayed")
  PROVE  Ledger'
<1> DEFINE prior == { a \in ApptId : /\ A!Seen(p, a) # Null
                                     /\ A!Seen(p, a).key = req[p].key
                                     /\ req[p].key # Null }
           key == IF prior = {} THEN req[p].key ELSE Null
<1>1. /\ pc[p] = "replay"
      /\ { a \in prior : Occupies(A!Seen(p, a).status) } = {}
      /\ req' = [ req EXCEPT ![p].key = key ]
      /\ Goto(p, IF req[p].op = "book" THEN "resolve" ELSE "lookup")
      /\ UNCHANGED << apptVars, serial, copy >>
  BY DEF Replay
<1>2. req[p] \in Request /\ req[p].op \in { "book", "confirm" }
  BY <1>1 DEF Inv, TypeInv, TypeOK, Shape
<1>3. \A a \in ApptId : A!Seen(p, a) = appts[a]
  <2>1. ~Editing(p)
    BY <1>2 DEF Editing
  <2> QED
    BY <1>1, <2>1, NothingLocked DEF A!Seen
<1>4. prior # {} => SpentKey(req[p].key) /\ req[p].key # Null
  BY <1>1, <1>3 DEF SpentKey, Over
<1>5. Entitled(req[p])
  BY DEF Ledger, Titles
<1> HIDE DEF prior
<1>6. /\ req'[p].op = req[p].op /\ req'[p].appt = req[p].appt
      /\ req'[p].status = req[p].status /\ req'[p].asked = req[p].asked
      /\ req'[p].key = key
      /\ \A q \in Proc \ {p} : req'[q] = req[q]
  BY <1>1, <1>2 DEF Inv, TypeInv, TypeOK, Request
<1>7. Entitled(req'[p])
  BY <1>4, <1>5, <1>6 DEF Entitled
<1>8. GoesOn(p) /\ Alone(p)
  BY <1>1, <1>6, <1>7 DEF GoesOn, Alone, Goto, Rest, Inv, TypeInv, TypeOK
<1> QED
  BY <1>8, GoesOnLedger

LEMMA LookupLedger ==
  ASSUME Inv, Ledger, NEW p \in Proc, Lookup(p), ~GiveUp(p, "conflict")
  PROVE  Ledger'
<1>1. PICK t : /\ pc[p] = "lookup"
               /\ req' = [ req EXCEPT ![p].start = t ]
               /\ Goto(p, "insert")
               /\ UNCHANGED << apptVars, serial, copy >>
  BY DEF Lookup
<1>2. req[p] \in Request
  BY DEF Inv, TypeInv, TypeOK
<1>3. /\ req'[p].op = req[p].op /\ req'[p].appt = req[p].appt
      /\ req'[p].status = req[p].status /\ req'[p].asked = req[p].asked
      /\ req'[p].key = req[p].key
      /\ \A q \in Proc \ {p} : req'[q] = req[q]
  BY <1>1, <1>2 DEF Inv, TypeInv, TypeOK, Request
<1>4. Entitled(req'[p])
  BY <1>3 DEF Ledger, Titles, Entitled
<1>5. GoesOn(p) /\ Alone(p)
  BY <1>1, <1>3, <1>4 DEF GoesOn, Alone, Goto, Rest, Inv, TypeInv, TypeOK
<1> QED
  BY <1>5, GoesOnLedger

\* The copy that is read is a faithful one: what is over is not changed.
LEMMA ReadLedger ==
  ASSUME Inv, Ledger, NEW p \in Proc, Read(p), ~GiveUp(p, "invalid")
  PROVE  Ledger'
<1> DEFINE v == A!Seen(p, req[p].appt)
           mine == IF req[p].op = "transition"
                   THEN [ v EXCEPT !.status = req[p].status ] ELSE v
<1>1. /\ pc[p] = "read"
      /\ ~TransitionRefused(p, v)
      /\ copy' = [ copy EXCEPT ![p] = mine ]
      /\ Goto(p, IF req[p].op = "reschedule" THEN "release" ELSE "write")
      /\ UNCHANGED << apptVars, serial, req >>
  BY DEF Read
<1>2. /\ req[p].op \in { "transition", "reschedule", "details" }
      /\ req[p].appt \in ApptId /\ appts[req[p].appt] # Null
      /\ req[p].op = "transition" => req[p].status \in Status
  BY <1>1 DEF Inv, TypeInv, Shape
<1>3. v = appts[req[p].appt]
  BY <1>1, <1>2, NothingLocked DEF A!Seen, Editing
<1>4. v \in Appointment
  BY <1>2, <1>3 DEF Inv, TypeInv, TypeOK
<1> HIDE DEF v
<1>5. mine \in Appointment
  BY <1>2, <1>4 DEF Appointment
<1>6. Faithful(p, mine, v)
  <2>1. CASE req[p].op = "transition"
    <3>1. /\ mine.key = v.key /\ mine.asked = v.asked
          /\ mine.status = req[p].status
      BY <1>4, <2>1 DEF Appointment
    <3>2. ~Over(v)
      <4>1. CanTransition(v.status, req[p].status)
        BY <1>1, <2>1 DEF TransitionRefused
      <4>2. ASSUME NEW s \in Releasing PROVE Transitions[s] = {}
        BY <4>2 DEF Transitions, Releasing, Terminal, Status
      <4> QED
        BY <4>1, <4>2 DEF CanTransition, Over, Occupies
    <3> QED
      BY <2>1, <3>1, <3>2 DEF Faithful, Over, Releases
  <2>2. CASE req[p].op # "transition"
    BY <2>2 DEF Faithful
  <2> QED
    BY <2>1, <2>2
<1> HIDE DEF mine
<1>7. GoesOn(p) /\ Alone(p)
  <2>1. copy'[p] = mine /\ \A q \in Proc \ {p} : copy'[q] = copy[q]
    BY <1>1 DEF Inv, TypeInv, TypeOK
  <2>2. Entitled(req'[p])
    BY <1>1 DEF Ledger, Titles
  <2> QED
    BY <1>1, <1>3, <1>5, <1>6, <2>1, <2>2
    DEF GoesOn, Alone, Goto, Rest, Inv, TypeInv, TypeOK
<1> QED
  BY <1>7, GoesOnLedger

\* The statements that touch neither the request nor its copy.
LEMMA StatementLedger ==
  ASSUME Inv, Ledger, NEW p \in Proc,
         \/ ResolveSlot(p) /\ ~GiveUp(p, "conflict")
         \/ Find(p)
         \/ \E hit \in SUBSET RowId : UpdateStep(p, hit)
         \/ ReserveStep(p)
  PROVE  Ledger'
<1>1. Entitled(req[p])
  BY DEF Ledger, Titles
<1> USE DEF Inv, TypeInv, TypeOK, Goto
<1>2. CASE ResolveSlot(p) /\ ~GiveUp(p, "conflict")
  <2>1. GoesOn(p) /\ Alone(p)
    BY <1>1, <1>2 DEF ResolveSlot, GoesOn, Alone, Rest
  <2> QED
    BY <2>1, GoesOnLedger
<1>3. CASE Find(p)
  <2>1. GoesOn(p) /\ Alone(p)
    BY <1>1, <1>3 DEF Find, GoesOn, Alone, Rest, Updates
  <2> QED
    BY <2>1, GoesOnLedger
<1>4. CASE \E hit \in SUBSET RowId : UpdateStep(p, hit)
  <2>1. /\ pc[p] \in Updates /\ pc' = [ pc EXCEPT ![p] = Following(p) ]
        /\ UNCHANGED << apptVars, serial, req, copy >>
    BY <1>4 DEF UpdateStep
  <2>2. /\ Following(p) \in { "reserve", "resolve", "commit" }
        /\ Following(p) = "resolve" => req[p].op = "reschedule"
    BY DEF Following
  <2>3. GoesOn(p) /\ Alone(p)
    BY <1>1, <2>1, <2>2 DEF GoesOn, Alone, Rest, Updates
  <2> QED
    BY <2>3, GoesOnLedger
<1>5. CASE ReserveStep(p)
  <2>1. GoesOn(p) /\ Alone(p)
    BY <1>1, <1>5 DEF ReserveStep, GoesOn, Alone, Rest, local
  <2> QED
    BY <2>1, GoesOnLedger
<1> QED
  BY <1>2, <1>3, <1>4, <1>5

\* p begins a request.
LEMMA BeginLedger ==
  ASSUME Inv, Ledger, NEW p \in Proc, Begin(p)
  PROVE  Ledger'
<1>1. PICK r \in Requests :
        /\ req' = [ req EXCEPT ![p] = r ]
        /\ serial' = [ serial EXCEPT ![p] = IF r.op = "sweep" THEN serial[p] ELSE serial[p] + 1 ]
        /\ Goto(p, First(r.op))
  BY DEF Begin
<1>2. pc[p] \in Rest /\ UNCHANGED << apptVars, copy >>
  BY DEF Begin
<1>3. /\ req'[p] = r /\ serial[p] \in Nat /\ pc'[p] = First(r.op)
      /\ serial'[p] = IF r.op = "sweep" THEN serial[p] ELSE serial[p] + 1
      /\ \A q \in Proc \ {p} :
           req'[q] = req[q] /\ serial'[q] = serial[q] /\ pc'[q] = pc[q]
  BY <1>1 DEF Goto, Inv, TypeInv, TypeOK
<1>4. \A a \in ApptId : apptsLock[a] # p
  BY <1>2, NothingLocked DEF Editing
<1>5. r.key = r.asked
  BY DEF Requests, Ask
<1>6. Editing(p)' = FALSE
  BY <1>3 DEF Editing, First
<1>7. appts' = appts /\ apptsLock' = apptsLock /\ apptsDraft' = apptsDraft
  BY <1>2 DEF apptVars
<1>8. Filed'
  <2> SUFFICES ASSUME NEW a \in ApptId
               PROVE  /\ appts[a] # Null =>
                           \/ a[2] < serial'[a[1]]
                           \/ a[2] = serial'[a[1]]
                              /\ (pc'[a[1]] \in Rest \/ req'[a[1]].op = "sweep")
                      /\ appts[a] = Null /\ apptsLock[a] # Null =>
                           /\ apptsLock[a] = a[1] /\ a[2] = serial'[a[1]]
                           /\ pc'[a[1]] \in { "purge", "reserve", "convert", "commit" }
                           /\ req'[a[1]].op \in { "book", "confirm" }
    BY <1>7 DEF Filed
  <2>1. a[1] \in Proc /\ a[2] \in Nat
    BY ApptIds, BoundAssumption
  <2>2. CASE a[1] = p
    BY <1>3, <1>4, <2>1, <2>2 DEF Ledger, Filed
  <2>3. CASE a[1] # p
    BY <1>3, <2>1, <2>3 DEF Ledger, Filed
  <2> QED
    BY <2>2, <2>3
<1>9. \A q \in Proc \ {p} : /\ Releases(q)' = Releases(q)
                            /\ Editing(q)' = Editing(q)
                            /\ req'[q].appt = req[q].appt
  BY <1>3 DEF Releases, Editing
<1>10. Written'
  <2> SUFFICES ASSUME NEW a \in ApptId, appts[a] # Null, apptsLock[a] # Null
               PROVE  /\ Editing(apptsLock[a])' /\ req'[apptsLock[a]].appt = a
                      /\ Faithful(apptsLock[a], apptsDraft[a], appts[a])'
    BY <1>7 DEF Written
  <2>1. PICK q \in Proc \ {p} : apptsLock[a] = q
    BY <1>4 DEF Inv, TypeInv, TypeOK
  <2>2. Editing(q) /\ req[q].appt = a /\ Faithful(q, apptsDraft[a], appts[a])
    BY <2>1 DEF Ledger, Written
  <2> QED
    BY <1>7, <1>9, <2>1, <2>2 DEF Faithful
<1>11. Carried'
  <2> SUFFICES ASSUME NEW q \in Proc, Editing(q)'
               PROVE  copy'[q] \in Appointment
                      /\ Faithful(q, copy[q], appts[req[q].appt])'
    BY DEF Carried
  <2>1. q # p
    BY <1>6
  <2>2. copy[q] \in Appointment /\ Faithful(q, copy[q], appts[req[q].appt])
    BY <1>9, <2>1 DEF Ledger, Carried
  <2> QED
    BY <1>2, <1>7, <1>9, <2>1, <2>2 DEF Faithful
<1>12. \A k : SpentKey(k)' = SpentKey(k)
  BY <1>7 DEF SpentKey
<1>13. \A a \in ApptId : Face(a)' = Face(a)
  BY <1>7 DEF Face
<1>14. Titles'
  <2>1. \A q \in Proc : Entitled(req'[q])
    <3> SUFFICES ASSUME NEW q \in Proc PROVE Entitled(req'[q])
      OBVIOUS
    <3>1. CASE q = p
      BY <1>3, <1>5, <3>1 DEF Entitled
    <3>2. CASE q # p
      BY <1>3, <3>2 DEF Ledger, Titles
    <3> QED
      BY <3>1, <3>2
  <2> QED
    BY <1>12, <1>13, <2>1 DEF Ledger, Titles, Entitled
<1>15. Unique'
  BY <1>13 DEF Ledger, Unique
<1> QED
  BY <1>8, <1>10, <1>11, <1>14, <1>15 DEF Ledger

\* p ends its transaction, one way or the other.
LEMMA EndFiled ==
  ASSUME Inv, Ledger, NEW p \in Proc, A!Commit(p) \/ A!Rollback(p), Alone(p),
         UNCHANGED serial, pc'[p] \in Rest
  PROVE  Filed'
<1> USE DEF Alone
<1> SUFFICES ASSUME NEW a \in ApptId
             PROVE  /\ appts'[a] # Null =>
                         \/ a[2] < serial[a[1]]
                         \/ a[2] = serial[a[1]]
                            /\ (pc'[a[1]] \in Rest \/ req'[a[1]].op = "sweep")
                    /\ appts'[a] = Null /\ apptsLock'[a] # Null =>
                         /\ apptsLock'[a] = a[1] /\ a[2] = serial[a[1]]
                         /\ pc'[a[1]] \in { "purge", "reserve", "convert", "commit" }
                         /\ req'[a[1]].op \in { "book", "confirm" }
  BY DEF Filed
<1>1. a[1] \in Proc
  BY ApptIds
<1>2. /\ apptsLock'[a] = IF apptsLock[a] = p THEN Null ELSE apptsLock[a]
      /\ appts'[a] = appts[a] \/ (appts'[a] = apptsDraft[a] /\ apptsLock[a] = p)
  BY DEF A!Commit, A!Rollback, A!Unlock
<1>3. apptsLock[a] = p => apptsLock[a] # Null /\ apptsDraft[a] # Null
  BY NullAssumption DEF Inv, TypeInv, Locked
<1>4. CASE appts[a] # Null
  BY <1>1, <1>2, <1>3, <1>4 DEF Ledger, Filed
<1>5. CASE appts[a] = Null
  BY <1>1, <1>2, <1>3, <1>5 DEF Ledger, Filed
<1> QED
  BY <1>4, <1>5

LEMMA GiveUpLedger ==
  ASSUME Inv, Ledger, NEW p \in Proc, NEW reply \in Rest, GiveUp(p, reply)
  PROVE  Ledger'
<1>1. /\ Alone(p) /\ UNCHANGED serial /\ pc'[p] \in Rest /\ req'[p] = Blank
      /\ A!Rollback(p)
  BY DEF GiveUp, Goto, Forget, Alone, Inv, TypeInv, TypeOK
<1>2. Filed'
  BY <1>1, EndFiled
<1>3. /\ appts' = appts
      /\ \A a \in ApptId :
           /\ apptsLock'[a] = IF apptsLock[a] = p THEN Null ELSE apptsLock[a]
           /\ apptsLock[a] # p => apptsDraft'[a] = apptsDraft[a]
  BY <1>1 DEF A!Rollback, A!Unlock
<1>4. ~Editing(p)' /\ \A q \in Proc \ {p} : /\ Releases(q)' = Releases(q)
                                            /\ Editing(q)' = Editing(q)
                                            /\ req'[q].appt = req[q].appt
                                            /\ copy'[q] = copy[q]
  BY <1>1 DEF Releases, Editing, Alone
<1>5. Written'
  <2> SUFFICES ASSUME NEW a \in ApptId, appts[a] # Null, apptsLock'[a] # Null
               PROVE  /\ Editing(apptsLock[a])' /\ req'[apptsLock'[a]].appt = a
                      /\ Faithful(apptsLock[a], apptsDraft[a], appts[a])'
    BY <1>3 DEF Written
  <2>1. PICK q \in Proc \ {p} : apptsLock[a] = q /\ apptsLock'[a] = q
    BY <1>3 DEF Inv, TypeInv, TypeOK
  <2>2. Editing(q) /\ req[q].appt = a /\ Faithful(q, apptsDraft[a], appts[a])
    BY <2>1, NullAssumption DEF Ledger, Written
  <2>3. apptsDraft'[a] = apptsDraft[a]
    BY <1>3, <2>1
  <2> QED
    BY <1>3, <1>4, <2>1, <2>2, <2>3 DEF Faithful
<1>6. Carried'
  <2> SUFFICES ASSUME NEW q \in Proc, Editing(q)'
               PROVE  copy'[q] \in Appointment
                      /\ Faithful(q, copy[q], appts[req[q].appt])'
    BY DEF Carried
  <2>1. q # p
    BY <1>4
  <2>2. copy[q] \in Appointment /\ Faithful(q, copy[q], appts[req[q].appt])
    BY <1>4, <2>1 DEF Ledger, Carried
  <2> QED
    BY <1>3, <1>4, <2>1, <2>2 DEF Faithful
<1>7. \A k : SpentKey(k)' = SpentKey(k)
  BY <1>3 DEF SpentKey
<1>8. \A a \in ApptId : Face(a)' \in { Face(a), Null }
  BY <1>3 DEF Face
<1>9. Titles'
  <2>1. \A q \in Proc : Entitled(req'[q])
    <3> SUFFICES ASSUME NEW q \in Proc PROVE Entitled(req'[q])
      OBVIOUS
    <3>1. CASE q = p
      BY <1>1, <3>1 DEF Entitled, Blank, Ask
    <3>2. CASE q # p
      BY <1>1, <3>2 DEF Ledger, Titles, Alone
    <3> QED
      BY <3>1, <3>2
  <2> QED
    BY <1>7, <1>8, <2>1 DEF Ledger, Titles, Entitled
<1>10. Unique'
  BY <1>8 DEF Ledger, Unique
<1> QED
  BY <1>2, <1>5, <1>6, <1>9, <1>10 DEF Ledger

\* A commit leaves what is over as it is, whoever else has a copy of it.
LEMMA CommitLedger ==
  ASSUME Inv, Ledger, Undisturbed, NEW p \in Proc, Commit(p)
  PROVE  Ledger'
<1>1. /\ Alone(p) /\ UNCHANGED serial /\ pc'[p] \in Rest /\ req'[p] = Blank
      /\ A!Commit(p)
  BY DEF Commit, Goto, Forget, Alone, Rest, Inv, TypeInv, TypeOK
<1>2. Filed'
  BY <1>1, EndFiled
<1>3. \A a \in ApptId :
        /\ appts'[a] = IF apptsLock[a] = p THEN apptsDraft[a] ELSE appts[a]
        /\ apptsLock'[a] = IF apptsLock[a] = p THEN Null ELSE apptsLock[a]
        /\ apptsLock[a] # p => apptsDraft'[a] = apptsDraft[a]
  BY <1>1 DEF A!Commit, A!Unlock
<1>4. ~Editing(p)' /\ \A q \in Proc \ {p} : /\ Releases(q)' = Releases(q)
                                            /\ Editing(q)' = Editing(q)
                                            /\ req'[q].appt = req[q].appt
                                            /\ copy'[q] = copy[q]
  BY <1>1 DEF Releases, Editing, Alone
<1>5. \A a \in ApptId : apptsLock[a] = p =>
        /\ apptsDraft[a] # Null
        /\ appts[a] # Null => /\ Editing(p) /\ req[p].appt = a
                              /\ Faithful(p, apptsDraft[a], appts[a])
  BY NullAssumption DEF Inv, TypeInv, Locked, Ledger, Written
<1>6. Written'
  <2> SUFFICES ASSUME NEW a \in ApptId, appts'[a] # Null, apptsLock'[a] # Null
               PROVE  /\ Editing(apptsLock[a])' /\ req'[apptsLock'[a]].appt = a
                      /\ Faithful(apptsLock[a], apptsDraft[a], appts[a])'
    BY DEF Written
  <2>1. PICK q \in Proc \ {p} : apptsLock[a] = q /\ apptsLock'[a] = q
    BY <1>3 DEF Inv, TypeInv, TypeOK
  <2>2. appts'[a] = appts[a] /\ apptsDraft'[a] = apptsDraft[a]
    BY <1>3, <2>1
  <2>3. Editing(q) /\ req[q].appt = a /\ Faithful(q, apptsDraft[a], appts[a])
    BY <2>1, <2>2, NullAssumption DEF Ledger, Written
  <2> QED
    BY <1>4, <2>1, <2>2, <2>3 DEF Faithful
<1>7. Carried'
  <2> SUFFICES ASSUME NEW q \in Proc, Editing(q)'
               PROVE  copy'[q] \in Appointment
                      /\ Faithful(q, copy[q], appts[req[q].appt])'
    BY DEF Carried
  <2>1. q # p
    BY <1>4
  <2> DEFINE a == req[q].appt
  <2>2. Editing(q) /\ copy[q] \in Appointment /\ Faithful(q, copy[q], appts[a])
    BY <1>4, <2>1 DEF Ledger, Carried
  <2>3. a \in ApptId /\ appts[a] # Null
    BY <2>2 DEF Editing, Inv, TypeInv, Shape
  <2>4. Faithful(q, copy[q], appts'[a])
    <3>1. CASE apptsLock[a] = p
      <4>1. Editing(p) /\ req[p].appt = a /\ Faithful(p, apptsDraft[a], appts[a])
        BY <1>5, <2>3, <3>1
      <4>2. ~Releases(p)
        BY <2>1, <2>2, <4>1 DEF Undisturbed
      <4>3. appts'[a] = apptsDraft[a]
        BY <1>3, <2>3, <3>1
      <4> QED
        BY <2>2, <4>1, <4>2, <4>3 DEF Faithful
    <3>2. CASE apptsLock[a] # p
      BY <1>3, <2>2, <2>3, <3>2
    <3> QED
      BY <3>1, <3>2
  <2>5. req'[q].appt = a /\ copy'[q] = copy[q] /\ Releases(q)' = Releases(q)
    BY <1>4, <2>1
  <2> HIDE DEF a
  <2> QED
    BY <2>2, <2>4, <2>5 DEF Faithful
<1>8. \A c \in ApptId : appts[c] # Null /\ Over(appts[c]) =>
        appts'[c] # Null /\ Over(appts'[c]) /\ appts'[c].key = appts[c].key
  BY <1>3, <1>5 DEF Faithful
<1>9. ASSUME NEW a \in ApptId
      PROVE  /\ Face(a)' # Null => Face(a) # Null
             /\ Face(a)' # Null => /\ Face(a)'.key = Face(a).key
                                   /\ Face(a)'.asked = Face(a).asked
  <2>1. CASE apptsLock[a] = p
    <3>1. Face(a)' = apptsDraft[a] /\ apptsDraft[a] # Null /\ apptsLock[a] # Null
      BY <1>3, <1>5, <2>1, NullAssumption DEF Face
    <3>2. CASE appts[a] = Null
      BY <3>1, <3>2 DEF Face
    <3>3. CASE appts[a] # Null
      BY <1>5, <2>1, <3>1, <3>3 DEF Face, Faithful
    <3> QED
      BY <3>2, <3>3
  <2>2. CASE apptsLock[a] # p
    BY <1>3, <2>2 DEF Face
  <2> QED
    BY <2>1, <2>2
<1>10. \A k : SpentKey(k) => SpentKey(k)'
  BY <1>8 DEF SpentKey
<1>11. Titles'
  <2>1. ASSUME NEW q \in Proc PROVE Entitled(req[q])'
    <3>1. CASE q = p
      BY <1>1, <3>1 DEF Entitled, Blank, Ask
    <3>2. CASE q # p
      BY <1>1, <1>10, <3>2 DEF Ledger, Titles, Alone, Entitled
    <3> QED
      BY <3>1, <3>2
  <2>2. ASSUME NEW a \in ApptId, Face(a)' # Null PROVE Entitled(Face(a))'
    BY <1>9, <1>10, <2>2 DEF Ledger, Titles, Entitled
  <2> QED
    BY <2>1, <2>2 DEF Titles
<1>12. Unique'
  BY <1>9 DEF Ledger, Unique
<1> QED
  BY <1>2, <1>6, <1>7, <1>11, <1>12 DEF Ledger

\* The unique index lets no second row with the key through.
LEMMA InsertLedger ==
  ASSUME Inv, Ledger, NEW p \in Proc, Insert(p), ~GiveUp(p, "error")
  PROVE  Ledger'
<1> DEFINE made == [ service |-> req[p].service, start |-> req[p].start,
                     end |-> req[p].start + Duration[req[p].service],
                     team |-> team[p], status |-> req[p].status,
                     key |-> req[p].key, asked |-> req[p].asked ]
<1>1. /\ pc[p] = "insert"
      /\ KeyTaken(p) \cup KeyRacing(p) = {}
      /\ A!Put(p, { << p, serial[p] >> }, [ a \in { << p, serial[p] >> } |-> made ])
      /\ req' = [ req EXCEPT ![p].appt = << p, serial[p] >> ]
      /\ copy' = [ copy EXCEPT ![p] = made ]
      /\ Goto(p, IF req[p].op = "book" THEN "purge" ELSE "convert")
      /\ UNCHANGED serial
  BY DEF Insert
<1>2. made.key = req[p].key /\ made.asked = req[p].asked
  OBVIOUS
<1>3. /\ req[p] \in Request /\ req[p].op \in { "book", "confirm" }
      /\ serial[p] \in 1..Budget[p]
  <2>1. req[p] \in Request /\ serial[p] \in Nat /\ serial[p] <= Budget[p]
    BY DEF Inv, TypeInv, TypeOK
  <2>2. req[p].op \in { "book", "confirm" } /\ serial[p] > 0
    BY <1>1 DEF Inv, TypeInv, Shape, Rest
  <2>3. Budget[p] \in Nat
    BY BoundAssumption
  <2> QED
    BY <2>1, <2>2, <2>3
<1>4. PICK id \in ApptId : id = << p, serial[p] >> /\ id[1] = p /\ id[2] = serial[p]
  <2> DEFINE n == serial[p]
  <2>1. n \in 1..Budget[p]
    BY <1>3
  <2> HIDE DEF n
  <2>2. << p, n >> \in ApptId /\ << p, n >>[1] = p /\ << p, n >>[2] = n
    BY <2>1 DEF ApptId
  <2> QED
    BY <2>2 DEF n
<1>5. \A a \in ApptId : apptsLock[a] # p
  <2>1. ~Editing(p)
    BY <1>3 DEF Editing
  <2> QED
    BY <1>1, <2>1, NothingLocked
<1>6. appts[id] = Null
  <2>1. pc[p] \notin Rest
    BY <1>1 DEF Rest
  <2> QED
    BY <1>3, <1>4, <2>1 DEF Ledger, Filed
<1>7. apptsLock[id] = Null
  BY <1>4, <1>5, <1>6 DEF Ledger, Filed
<1>8. /\ appts' = appts
      /\ \A a \in ApptId :
           /\ apptsLock'[a] = IF a = id THEN p ELSE apptsLock[a]
           /\ apptsDraft'[a] = IF a = id THEN made ELSE apptsDraft[a]
  BY <1>1, <1>4 DEF A!Put
<1> HIDE DEF made
<1>9. made # Null
  <2>1. made \in Appointment
    <3>1. req[p].service \in Service /\ req[p].status \in Status
      BY <1>3 DEF Inv, TypeInv, Shape
    <3>2. req[p].start + Duration[req[p].service] \in Int
      BY <1>3, <3>1, ServiceAssumption DEF Request
    <3> QED
      BY <1>3, <3>1, <3>2 DEF made, Inv, TypeInv, TypeOK, Request, Appointment
  <2> QED
    BY <2>1, RowAssumption
<1>10. /\ req'[p].op = req[p].op /\ req'[p].key = req[p].key
       /\ req'[p].asked = req[p].asked
       /\ pc'[p] \in { "purge", "convert" }
       /\ \A q \in Proc \ {p} :
            pc'[q] = pc[q] /\ req'[q] = req[q] /\ copy'[q] = copy[q]
  BY <1>1, <1>3 DEF Inv, TypeInv, TypeOK, Request, Goto
<1>11. ~Editing(p)' /\ \A q \in Proc \ {p} : /\ Releases(q)' = Releases(q)
                                             /\ Editing(q)' = Editing(q)
  BY <1>3, <1>10 DEF Releases, Editing
<1>12. Filed'
  <2> SUFFICES ASSUME NEW a \in ApptId
               PROVE  /\ appts[a] # Null =>
                           \/ a[2] < serial[a[1]]
                           \/ a[2] = serial[a[1]]
                              /\ (pc'[a[1]] \in Rest \/ req'[a[1]].op = "sweep")
                      /\ appts[a] = Null /\ apptsLock'[a] # Null =>
                           /\ apptsLock'[a] = a[1] /\ a[2] = serial[a[1]]
                           /\ pc'[a[1]] \in { "purge", "reserve", "convert", "commit" }
                           /\ req'[a[1]].op \in { "book", "confirm" }
    BY <1>1, <1>8 DEF Filed
  <2>1. a[1] \in Proc
    BY ApptIds
  <2>2. CASE a = id
    BY <1>3, <1>4, <1>6, <1>8, <1>10, <2>2
  <2>3. CASE a # id /\ a[1] = p
    <3>1. pc[p] \notin Rest
      BY <1>1 DEF Rest
    <3> QED
      BY <1>3, <1>5, <1>8, <2>3, <3>1 DEF Ledger, Filed
  <2>4. CASE a[1] # p
    BY <1>4, <1>8, <1>10, <2>1, <2>4 DEF Ledger, Filed
  <2> QED
    BY <2>2, <2>3, <2>4
<1>13. Written'
  <2> SUFFICES ASSUME NEW a \in ApptId, appts[a] # Null, apptsLock'[a] # Null
               PROVE  /\ Editing(apptsLock[a])' /\ req'[apptsLock'[a]].appt = a
                      /\ Faithful(apptsLock[a], apptsDraft[a], appts[a])'
    BY <1>8 DEF Written
  <2>1. a # id
    BY <1>6
  <2>2. PICK q \in Proc \ {p} : apptsLock[a] = q /\ apptsLock'[a] = q
    BY <1>5, <1>8, <2>1 DEF Inv, TypeInv, TypeOK
  <2>3. Editing(q) /\ req[q].appt = a /\ Faithful(q, apptsDraft[a], appts[a])
    BY <2>2, NullAssumption DEF Ledger, Written
  <2>4. apptsDraft'[a] = apptsDraft[a] /\ appts'[a] = appts[a] /\ req'[q] = req[q]
    BY <1>8, <1>10, <2>1
  <2> QED
    BY <1>11, <2>2, <2>3, <2>4 DEF Faithful
<1>14. Carried'
  <2> SUFFICES ASSUME NEW q \in Proc, Editing(q)'
               PROVE  copy'[q] \in Appointment
                      /\ Faithful(q, copy[q], appts[req[q].appt])'
    BY DEF Carried
  <2>1. q # p
    BY <1>11
  <2>2. copy[q] \in Appointment /\ Faithful(q, copy[q], appts[req[q].appt])
    BY <1>11, <2>1 DEF Ledger, Carried
  <2> QED
    BY <1>8, <1>10, <1>11, <2>1, <2>2 DEF Faithful
<1>15. \A k : SpentKey(k)' = SpentKey(k)
  BY <1>8 DEF SpentKey
<1>16. Face(id)' = made /\ \A a \in ApptId \ {id} : Face(a)' = Face(a)
  BY <1>4, <1>6, <1>8, NullAssumption DEF Face
<1>17. Entitled(req[p])
  BY DEF Ledger, Titles
<1>18. Titles'
  <2>1. ASSUME NEW q \in Proc PROVE Entitled(req[q])'
    <3>1. CASE q = p
      BY <1>10, <1>15, <1>17, <3>1 DEF Entitled
    <3>2. CASE q # p
      BY <1>10, <1>15, <3>2 DEF Ledger, Titles, Entitled
    <3> QED
      BY <3>1, <3>2
  <2>2. ASSUME NEW a \in ApptId, Face(a)' # Null PROVE Entitled(Face(a))'
    <3>1. CASE a = id
      BY <1>2, <1>15, <1>16, <1>17, <3>1 DEF Entitled
    <3>2. CASE a # id
      BY <1>15, <1>16, <2>2, <3>2 DEF Ledger, Titles, Entitled
    <3> QED
      BY <3>1, <3>2
  <2> QED
    BY <2>1, <2>2 DEF Titles
<1>19. ASSUME NEW a \in ApptId, Face(a) # Null, made.key # Null
       PROVE  Face(a).key # made.key
  <2>1. CASE appts[a] # Null
    BY <1>1, <1>2, <1>19, <2>1 DEF KeyTaken, Face
  <2>2. CASE appts[a] = Null
    <3>1. apptsLock[a] \notin { p, Null } /\ Face(a) = apptsDraft[a]
      BY <1>5, <1>19, <2>2 DEF Face
    <3> QED
      BY <1>1, <1>2, <1>19, <3>1 DEF KeyRacing, A!Lockable
  <2> QED
    BY <2>1, <2>2
<1>20. Unique'
  <2> SUFFICES ASSUME NEW a \in ApptId, NEW b \in ApptId, a # b,
                      Face(a)' # Null, Face(b)' # Null, Face(a)'.key # Null
               PROVE  Face(a)'.key # Face(b)'.key
    BY DEF Unique
  <2>1. CASE a = id
    BY <1>16, <1>19, <2>1
  <2>2. CASE b = id
    BY <1>16, <1>19, <2>2
  <2>3. CASE a # id /\ b # id
    BY <1>16, <2>3 DEF Ledger, Unique
  <2> QED
    BY <2>1, <2>2, <2>3
<1> QED
  BY <1>12, <1>13, <1>14, <1>18, <1>20 DEF Ledger

\* appointments.update writes the copy, and the copy is faithful.
LEMMA WriteLedger ==
  ASSUME Inv, Ledger, NEW p \in Proc, Write(p)
  PROVE  Ledger'
<1> DEFINE id == req[p].appt
<1>1. /\ pc[p] = "write"
      /\ A!Put(p, {id}, [ a \in {id} |-> Edited(p) ])
      /\ Goto(p, IF HandsBack(p) THEN "release" ELSE "commit")
      /\ UNCHANGED << serial, req, copy >>
  BY DEF Write, local
<1>2. /\ req[p].op \in { "transition", "reschedule", "details" }
      /\ id \in ApptId /\ appts[id] # Null /\ copy[p] \in Appointment
  BY <1>1 DEF Inv, TypeInv, Shape
<1>3. Editing(p)
  BY <1>1, <1>2 DEF Editing, Rest
<1>4. Faithful(p, Edited(p), appts[id])
  <2>1. /\ Edited(p).key = copy[p].key /\ Edited(p).asked = copy[p].asked
        /\ Edited(p).status = copy[p].status
    BY <1>2 DEF Edited, Appointment
  <2>2. Faithful(p, copy[p], appts[id])
    BY <1>3 DEF Ledger, Carried
  <2> QED
    BY <2>1, <2>2 DEF Faithful, Over
<1>5. /\ appts' = appts
      /\ \A a \in ApptId :
           /\ apptsLock'[a] = IF a = id THEN p ELSE apptsLock[a]
           /\ apptsDraft'[a] = IF a = id THEN Edited(p) ELSE apptsDraft[a]
  BY <1>1 DEF A!Put
<1> HIDE DEF id
<1>6. /\ pc'[p] \in { "release", "commit" }
      /\ \A q \in Proc \ {p} : pc'[q] = pc[q]
  BY <1>1 DEF Inv, TypeInv, TypeOK, Goto
<1>7. \A q \in Proc : Releases(q)' = Releases(q) /\ Editing(q)' = Editing(q)
  BY <1>1, <1>3, <1>6 DEF Releases, Editing, Rest
<1>8. Filed'
  <2> SUFFICES ASSUME NEW a \in ApptId
               PROVE  /\ appts[a] # Null =>
                           \/ a[2] < serial[a[1]]
                           \/ a[2] = serial[a[1]]
                              /\ (pc'[a[1]] \in Rest \/ req[a[1]].op = "sweep")
                      /\ appts[a] = Null /\ apptsLock'[a] # Null =>
                           /\ apptsLock'[a] = a[1] /\ a[2] = serial[a[1]]
                           /\ pc'[a[1]] \in { "purge", "reserve", "convert", "commit" }
                           /\ req[a[1]].op \in { "book", "confirm" }
    BY <1>1, <1>5 DEF Filed
  <2>1. a[1] \in Proc /\ (appts[a] = Null => a # id)
    BY <1>2, ApptIds
  <2>2. CASE a[1] = p
    BY <1>1, <1>2, <1>5, <2>1, <2>2 DEF Ledger, Filed, Rest
  <2>3. CASE a[1] # p
    BY <1>5, <1>6, <2>1, <2>3 DEF Ledger, Filed
  <2> QED
    BY <2>2, <2>3
<1>9. Written'
  <2> SUFFICES ASSUME NEW a \in ApptId, appts[a] # Null, apptsLock'[a] # Null
               PROVE  /\ Editing(apptsLock[a])' /\ req'[apptsLock'[a]].appt = a
                      /\ Faithful(apptsLock[a], apptsDraft[a], appts[a])'
    BY <1>5 DEF Written
  <2>1. CASE a = id
    <3>1. apptsLock'[a] = p /\ apptsDraft'[a] = Edited(p) /\ appts'[a] = appts[a]
      BY <1>5, <2>1
    <3>2. Editing(p)' /\ req'[p].appt = a
      BY <1>1, <1>3, <1>7, <2>1 DEF id
    <3> QED
      BY <1>4, <1>7, <2>1, <3>1, <3>2 DEF Faithful
  <2>2. CASE a # id
    <3>1. PICK q \in Proc : apptsLock[a] = q /\ apptsLock'[a] = q
      BY <1>5, <2>2 DEF Inv, TypeInv, TypeOK
    <3>2. Editing(q) /\ req[q].appt = a /\ Faithful(q, apptsDraft[a], appts[a])
      BY <3>1, NullAssumption DEF Ledger, Written
    <3>3. apptsDraft'[a] = apptsDraft[a] /\ appts'[a] = appts[a] /\ req'[q] = req[q]
      BY <1>1, <1>5, <2>2
    <3> QED
      BY <1>7, <3>1, <3>2, <3>3 DEF Faithful
  <2> QED
    BY <2>1, <2>2
<1>10. Carried'
  BY <1>1, <1>5, <1>7 DEF Ledger, Carried, Faithful
<1>11. \A k : SpentKey(k)' = SpentKey(k)
  BY <1>5 DEF SpentKey
<1>12. \A a \in ApptId : Face(a)' = Face(a)
  BY <1>2, <1>5 DEF Face
<1>13. Titles'
  BY <1>1, <1>11, <1>12 DEF Ledger, Titles, Entitled
<1>14. Unique'
  BY <1>12 DEF Ledger, Unique
<1> QED
  BY <1>8, <1>9, <1>10, <1>13, <1>14 DEF Ledger

LEMMA NextLedger == Inv /\ Ledger /\ Undisturbed /\ [Next]_vars => Ledger'
<1> SUFFICES ASSUME Inv, Ledger, Undisturbed, [Next]_vars PROVE Ledger'
  OBVIOUS
<1>1. ASSUME NEW p \in Proc, NEW reply \in Rest, GiveUp(p, reply) PROVE Ledger'
  BY <1>1, GiveUpLedger
<1>2. "replayed" \in Rest /\ "conflict" \in Rest /\ "invalid" \in Rest
      /\ "error" \in Rest /\ "idle" \in Rest
  BY DEF Rest
<1>3. ASSUME NEW p \in Proc, Begin(p) PROVE Ledger'
  BY <1>3, BeginLedger
<1>4. ASSUME NEW p \in Proc, Replay(p) \/ Lookup(p) \/ ResolveSlot(p) \/ Read(p) \/ Find(p)
      PROVE Ledger'
  BY <1>1, <1>2, <1>4, ReplayLedger, LookupLedger, ReadLedger, StatementLedger
<1>5. ASSUME NEW p \in Proc, Insert(p) \/ Write(p) PROVE Ledger'
  BY <1>1, <1>2, <1>5, InsertLedger, WriteLedger
<1>6. ASSUME NEW p \in Proc, Update(p) PROVE Ledger'
  BY <1>1, <1>2, <1>6, UpdateCases, StatementLedger DEF Inv
<1>7. ASSUME NEW p \in Proc, Reserve(p) PROVE Ledger'
  BY <1>1, <1>2, <1>7, ReserveCases, StatementLedger
<1>8. ASSUME NEW p \in Proc, Commit(p) PROVE Ledger'
  BY <1>8, CommitLedger
<1>9. ASSUME NEW p \in Proc, Deadlock(p) \/ Crash(p) PROVE Ledger'
  BY <1>1, <1>2, <1>9 DEF Deadlock, Crash
<1>10. CASE Tick \/ UNCHANGED vars
  <2>1. UNCHANGED << apptVars, pc, local >>
    BY <1>10 DEF Tick, vars
  <2> QED
    BY <2>1 DEF apptVars, local, Ledger, Filed, Written, Carried, Titles, Unique, Face,
                Editing, Releases, Faithful, Entitled, SpentKey
<1> QED
  BY <1>3, <1>4, <1>5, <1>6, <1>7, <1>8, <1>9, <1>10 DEF Next, Statement, Done

\* A retried request cannot book twice, for any number of processes, keys and
\* appointments, if nobody hands an appointment's time back in the middle of
\* another request's change of it: two standing appointments that were asked
\* for with one key are booked around a third, which is over and has spent it.
THEOREM RetriesBookOnce == Spec /\ []Undisturbed => []OneBookingPerKey
<1>1. Inv /\ Ledger /\ Undisturbed /\ [Next]_vars => Inv' /\ Ledger'
  BY NextInv, NextLedger
<1>2. Ledger => OneBookingPerKey
  <2> SUFFICES ASSUME Ledger, NEW a \in ApptId, NEW b \in ApptId, a # b,
                      Standing(a), Standing(b),
                      appts[a].asked # Null, appts[a].asked = appts[b].asked
               PROVE  \E c \in Booked : appts[c].key = appts[a].asked /\ ~Standing(c)
    BY DEF OneBookingPerKey
  <2>1. Face(a) = appts[a] /\ Face(b) = appts[b] /\ Face(a) # Null /\ Face(b) # Null
    BY DEF Standing, Face
  <2>2. Entitled(appts[a]) /\ Entitled(appts[b])
    BY <2>1 DEF Ledger, Titles
  <2>3. ~(appts[a].key = appts[a].asked /\ appts[b].key = appts[a].asked)
    BY <2>1 DEF Ledger, Unique
  <2>4. SpentKey(appts[a].asked)
    BY <2>2, <2>3 DEF Entitled
  <2> QED
    BY <2>4 DEF SpentKey, Booked, Over, Standing
<1> QED
  BY <1>1, <1>2, InitInv, InitLedger, PTL DEF Spec

------------------------------------------------------------------------------
(* No stray reservations *)

\* The request releases an appointment or moves it to another time.
Moves(p) == req[p].op = "reschedule" \/ Releases(p)

\* What the theorem asks of the clients: while a request moves or releases an
\* appointment, no other is in the middle of changing that appointment; ...
Unhurried ==
  \A p, q \in Proc :
    p # q /\ Editing(p) /\ Editing(q) /\ req[p].appt = req[q].appt => ~Moves(p)

\* ... a hold is confirmed for a service it is long enough for; ...
Fitting ==
  \A p \in Proc, r \in RowId :
    req[p].op = "confirm" /\ Hold(resv[r]) /\ resv[r].token = req[p].token =>
      resv[r].window.start + Before[req[p].service] + Duration[req[p].service]
        <= resv[r].window.end

\* ... and nothing is booked that is over from the start.
Opened ==
  \A p \in Proc : req[p].op \in { "book", "confirm" } => Occupies(req[p].status)

Orderly == Unhurried /\ Fitting /\ Opened

\* A committed row has the resource of its name, a hold the token of its request,
\* and booked time an appointment.
Named ==
  \A r \in RowId : resv[r] # Null =>
    /\ resv[r].resource = r[3]
    /\ Hold(resv[r]) => resv[r].token = << r[1], r[2] >>
    /\ Live(resv[r]) /\ resv[r].kind = "booking" => resv[r].appt \in ApptId

\* The rows of one request have one window, and its holds expire together.
Together ==
  \A r, s \in RowId :
    resv[r] # Null /\ resv[s] # Null /\ r[1] = s[1] /\ r[2] = s[2] =>
      /\ resv[r].window = resv[s].window
      /\ Hold(resv[r]) /\ Hold(resv[s]) => resv[r].expires = resv[s].expires

\* An UPDATE waits only where there is one; a drop and a sweep have one.
AtWork(p) ==
  /\ targets[p] # Null => pc[p] \in Updates
  /\ pc[p] \in { "drop", "sweep" } => req[p].op = pc[p]

\* p locks reservations only from its UPDATE or its reserve on.
LocksLate(p) ==
  \A r \in RowId : resvLock[r] = p =>
    \/ pc[p] \in { "purge", "reserve", "commit" }
    \/ pc[p] \in { "resolve", "write" } /\ req[p].op = "reschedule"

\* The window holds the appointment p books or moves.
Room(p, w) ==
  w.start <= req[p].start /\ req[p].start + Duration[Wanted(p)] <= w.end

\* What p drafts is released, or its hold, or a place for its appointment.
Drafts(p) ==
  \A r \in RowId : resvLock[r] = p /\ Live(resvDraft[r]) =>
    \/ /\ resvDraft[r].kind = "hold" /\ req[p].op = "hold" /\ resv[r] = Null
       /\ resvDraft[r].token = << r[1], r[2] >>
       /\ resvDraft[r].expires = now[p] + TTL
    \/ /\ resvDraft[r].kind = "booking" /\ resvDraft[r].appt = req[p].appt
       /\ req[p].op \in { "book", "confirm", "reschedule" }
       /\ pc[p] \in { "write", "commit" }
       /\ r[3] \in team[p] /\ Room(p, resvDraft[r].window)

\* v stands where p books or moves its appointment to.
Placed(p, v) ==
  /\ v.start = req[p].start /\ v.end = req[p].start + Duration[Wanted(p)]
  /\ v.team = team[p] /\ Occupies(v.status)

\* The appointment p has inserted.
Inserted(p) ==
  req[p].op \in { "book", "confirm" } /\ pc[p] \in { "purge", "reserve", "convert", "commit" }
    => /\ req[p].appt \in ApptId
       /\ appts[req[p].appt] = Null /\ apptsLock[req[p].appt] = p
       /\ Placed(p, apptsDraft[req[p].appt])

\* v stands where the committed appointment a does.
Stays(v, a) == v.start = appts[a].start /\ v.end = appts[a].end /\ v.team = appts[a].team

\* The copy of an editor: where the appointment is, still up if it is moved, and
\* with the status that was asked for.
Copied(p) ==
  Editing(p) =>
    /\ ~Moves(p) => Stays(copy[p], req[p].appt)
    /\ req[p].op = "reschedule" => Occupies(copy[p].status)
    /\ req[p].op = "transition" => copy[p].status = req[p].status
    /\ pc[p] = "release" => Moves(p)

\* p has written the appointment it changes.
Wrote(p) ==
  Editing(p) /\ (pc[p] = "commit" \/ (pc[p] = "release" /\ req[p].op = "transition"))

\* And its draft.
Edit(p) ==
  /\ \A a \in ApptId : appts[a] # Null /\ apptsLock[a] = p =>
       /\ ~Moves(p) => Stays(apptsDraft[a], a)
       /\ req[p].op = "reschedule" => Placed(p, apptsDraft[a])
       /\ Releases(p) => Over(apptsDraft[a])
       /\ Wrote(p)
  /\ Wrote(p) => apptsLock[req[p].appt] = p

\* A confirmation has the resources and the time of its hold.
Grasped(p) ==
  req[p].op = "confirm" /\ pc[p] \in { "insert", "convert" } =>
    /\ \E s \in RowId : resv[s] # Null /\ << s[1], s[2] >> = req[p].token
    /\ \A r \in RowId : Hold(resv[r]) /\ resv[r].token = req[p].token =>
         /\ r[3] \in team[p]
         /\ resv[r].window.start + Before[req[p].service] = req[p].start

\* The booked rows of appointment a.
Rows(a) == { r \in RowId : Live(resv[r]) /\ resv[r].kind = "booking" /\ resv[r].appt = a }

\* A request that moves or releases finds all of them, and has released them
\* once it goes on.
Cleared(p) ==
  Editing(p) /\ Moves(p) =>
    /\ pc[p] = "release" /\ targets[p] # Null => Rows(req[p].appt) \subseteq targets[p]
    /\ \/ req[p].op = "reschedule" /\ pc[p] # "release"
       \/ req[p].op = "transition" /\ pc[p] = "commit"
       => \A r \in Rows(req[p].appt) : resvLock[r] = p /\ resvDraft[r].released

Mine(p) ==
  /\ AtWork(p) /\ LocksLate(p) /\ Drafts(p) /\ Inserted(p)
  /\ Copied(p) /\ Edit(p) /\ Grasped(p) /\ Cleared(p)

Kept == Named /\ Together /\ (\A p \in Proc : Mine(p)) /\ NoStray

LEMMA InitKept == Init => Kept
BY RowAssumption, NullAssumption
   DEF Init, R!Empty, A!Empty, Kept, Named, Together, Mine, AtWork, LocksLate, Drafts,
       Inserted, Copied, Edit, Wrote, Grasped, Cleared, NoStray, Editing, Rest, Live, Blank, Ask

\* p writes and unlocks what is its own, or free.
Only(p) ==
  /\ \A r \in RowId : resvLock'[r] # resvLock[r] \/ resvDraft'[r] # resvDraft[r] =>
       resvLock[r] \in { p, Null } /\ resvLock'[r] \in { p, Null }
  /\ \A a \in ApptId : apptsLock'[a] # apptsLock[a] \/ apptsDraft'[a] # apptsDraft[a] =>
       apptsLock[a] \in { p, Null } /\ apptsLock'[a] \in { p, Null }

\* It leaves the memory of the others alone.
Private(p) ==
  \A q \in Proc \ {p} :
    /\ pc'[q] = pc[q] /\ req'[q] = req[q] /\ copy'[q] = copy[q]
    /\ team'[q] = team[q] /\ targets'[q] = targets[q] /\ now'[q] = now[q]

\* A step of p that commits nothing disturbs nobody else.
LEMMA OthersMine ==
  ASSUME Inv, NEW p \in Proc, NEW q \in Proc, q # p, Mine(q),
         UNCHANGED << resv, appts >>, Only(p), Private(p)
  PROVE  Mine(q)'
<1>1. /\ pc'[q] = pc[q] /\ req'[q] = req[q] /\ copy'[q] = copy[q]
      /\ team'[q] = team[q] /\ targets'[q] = targets[q] /\ now'[q] = now[q]
  BY DEF Private
<1>2. \A r \in RowId : /\ resvLock'[r] = q <=> resvLock[r] = q
                       /\ resvLock[r] = q => resvDraft'[r] = resvDraft[r]
  BY NullAssumption DEF Only
<1>3. \A a \in ApptId : /\ apptsLock'[a] = q <=> apptsLock[a] = q
                        /\ apptsLock[a] = q => apptsDraft'[a] = apptsDraft[a]
  BY NullAssumption DEF Only
<1>4. AtWork(q)' /\ LocksLate(q)'
  BY <1>1, <1>2 DEF Mine, AtWork, LocksLate
<1>5. Wanted(q)' = Wanted(q)
  BY <1>1 DEF Wanted
<1>6. Drafts(q)'
  BY <1>1, <1>2, <1>5 DEF Mine, Drafts, Room
<1>7. \A v : Placed(q, v)' = Placed(q, v)
  BY <1>1, <1>5 DEF Placed
<1>8. Inserted(q)'
  BY <1>1, <1>3, <1>5 DEF Mine, Inserted, Placed
<1>9. Editing(q)' = Editing(q) /\ Moves(q)' = Moves(q) /\ Releases(q)' = Releases(q)
  BY <1>1 DEF Editing, Moves, Releases
<1>10. Copied(q)'
  BY <1>1, <1>9 DEF Mine, Copied, Stays
<1>11. Edit(q)'
  <2>1. Wrote(q)' = Wrote(q) /\ (Wrote(q) => req[q].appt \in ApptId)
    BY <1>1, <1>9 DEF Wrote, Editing, Inv, TypeInv, Shape
  <2> QED
    BY <1>1, <1>3, <1>5, <1>9, <2>1 DEF Mine, Edit, Stays, Placed
<1>12. Grasped(q)'
  BY <1>1 DEF Mine, Grasped
<1>13. Cleared(q)'
  <2>1. Rows(req[q].appt)' = Rows(req[q].appt)
    BY <1>1 DEF Rows
  <2>2. Rows(req[q].appt) \subseteq RowId
    BY DEF Rows
  <2> QED
    BY <1>1, <1>2, <1>9, <2>1, <2>2 DEF Mine, Cleared
<1> QED
  BY <1>4, <1>6, <1>8, <1>10, <1>11, <1>12, <1>13 DEF Mine

\* So it has only itself to answer for.
LEMMA StepKept ==
  ASSUME Inv, Kept, NEW p \in Proc, Mine(p)',
         UNCHANGED << resv, appts >>, Only(p), Private(p)
  PROVE  Kept'
<1>1. \A q \in Proc : Mine(q)'
  BY OthersMine DEF Kept
<1>2. Named' /\ Together'
  BY DEF Kept, Named, Together
<1>3. NoStray'
  BY DEF Kept, NoStray, Standing, Covers
<1> QED
  BY <1>1, <1>2, <1>3 DEF Kept

\* p has nothing locked, and is not changing an appointment.
LEMMA LocklessMine ==
  ASSUME NEW p \in Proc,
         \A r \in RowId : resvLock'[r] # p, \A a \in ApptId : apptsLock'[a] # p,
         AtWork(p)', Inserted(p)', Grasped(p)', ~Editing(p)'
  PROVE  Mine(p)'
<1>1. ~Wrote(p)'
  BY DEF Wrote
<1> QED
  BY <1>1 DEF Mine, LocksLate, Drafts, Copied, Edit, Cleared

\* Between requests p has no part in any of it.
LEMMA RestMine ==
  ASSUME NEW p \in Proc,
         \A r \in RowId : resvLock'[r] # p, \A a \in ApptId : apptsLock'[a] # p,
         pc'[p] \in Rest, targets'[p] = Null
  PROVE  Mine(p)'
<1>1. AtWork(p)' /\ Inserted(p)' /\ Grasped(p)' /\ ~Editing(p)'
  BY DEF AtWork, Inserted, Grasped, Editing, Rest
<1> QED
  BY <1>1, LocklessMine

LEMMA GiveUpKept ==
  ASSUME Inv, Kept, NEW p \in Proc, NEW reply \in Rest, GiveUp(p, reply)
  PROVE  Kept'
<1>1. /\ UNCHANGED << resv, appts >>
      /\ \A r \in RowId :
           /\ resvLock'[r] = IF resvLock[r] = p THEN Null ELSE resvLock[r]
           /\ resvDraft'[r] = IF resvLock[r] = p THEN Null ELSE resvDraft[r]
      /\ \A a \in ApptId :
           /\ apptsLock'[a] = IF apptsLock[a] = p THEN Null ELSE apptsLock[a]
           /\ apptsDraft'[a] = IF apptsLock[a] = p THEN Null ELSE apptsDraft[a]
  BY DEF GiveUp, R!Rollback, R!Unlock, A!Rollback, A!Unlock
<1>2. Only(p)
  BY <1>1 DEF Only
<1>3. pc'[p] \in Rest /\ targets'[p] = Null /\ Private(p)
  BY DEF GiveUp, Goto, Forget, Private, Inv, TypeInv, TypeOK
<1>4. Mine(p)'
  BY <1>1, <1>3, RestMine, NullAssumption
<1> QED
  BY <1>1, <1>2, <1>3, <1>4, StepKept

LEMMA BeginKept ==
  ASSUME Inv, Kept, NEW p \in Proc, Begin(p)
  PROVE  Kept'
<1>1. PICK op \in Op : /\ req'[p].op = op /\ pc'[p] = First(op)
                       /\ Private(p)
  <2>1. PICK r \in Requests : req' = [ req EXCEPT ![p] = r ] /\ Goto(p, First(r.op))
    BY DEF Begin
  <2>2. r.op \in Op
    BY <2>1, RequestsTyped DEF Inv, TypeInv
  <2> QED
    BY <2>1, <2>2 DEF Begin, Goto, Private, Inv, TypeInv, TypeOK
<1>2. pc[p] \in Rest /\ UNCHANGED << resvVars, apptVars, targets >>
  BY DEF Begin
<1>3. /\ \A r \in RowId : resvLock'[r] # p
      /\ \A a \in ApptId : apptsLock'[a] # p
  BY <1>2, NullAssumption DEF resvVars, apptVars, Inv, TypeInv, Locked
<1>4. targets'[p] = Null
  BY <1>2 DEF Rest, Updates, Kept, Mine, AtWork
<1>5. AtWork(p)' /\ Inserted(p)' /\ Grasped(p)' /\ ~Editing(p)'
  BY <1>1, <1>4 DEF AtWork, Inserted, Grasped, Editing, First, Op
<1>6. Mine(p)'
  BY <1>3, <1>5, LocklessMine
<1> QED
  BY <1>1, <1>2, <1>6, StepKept DEF resvVars, apptVars, Only

\* What the lookup and the replay find p without.
LEMMA NothingYet ==
  ASSUME Inv, Ledger, Kept, NEW p \in Proc,
         pc[p] \in { "replay", "lookup", "insert", "read" }
  PROVE  /\ \A r \in RowId : resvLock[r] # p
         /\ \A a \in ApptId : apptsLock[a] # p
         /\ targets[p] = Null
<1>1. ~Editing(p)
  <2>1. pc[p] # "read" => req[p].op \in { "book", "confirm" }
    BY DEF Inv, TypeInv, Shape
  <2> QED
    BY <2>1 DEF Editing
<1>2. \A a \in ApptId : apptsLock[a] # p
  BY <1>1, NothingLocked
<1>3. (\A r \in RowId : resvLock[r] # p) /\ targets[p] = Null
  BY DEF Kept, Mine, LocksLate, AtWork, Updates
<1> QED
  BY <1>2, <1>3

LEMMA ReplayKept ==
  ASSUME Inv, Ledger, Kept, NEW p \in Proc, Replay(p), ~GiveUp(p, "replayed")
  PROVE  Kept'
<1>1. PICK k : req' = [ req EXCEPT ![p].key = k ]
  BY DEF Replay
<1>2. /\ pc[p] = "replay"
      /\ Goto(p, IF req[p].op = "book" THEN "resolve" ELSE "lookup")
      /\ UNCHANGED << resvVars, apptVars, now, targets, team, copy >>
  BY DEF Replay
<1>3. req[p].op \in { "book", "confirm" } /\ req[p] \in Request
  BY <1>2 DEF Inv, TypeInv, TypeOK, Shape
<1>4. req'[p].op = req[p].op /\ pc'[p] \in { "resolve", "lookup" } /\ Private(p)
  BY <1>1, <1>2, <1>3 DEF Goto, Private, Request, Inv, TypeInv, TypeOK
<1>5. AtWork(p)' /\ Inserted(p)' /\ Grasped(p)' /\ ~Editing(p)'
  BY <1>2, <1>3, <1>4, NothingYet DEF AtWork, Inserted, Grasped, Editing
<1>6. Mine(p)'
  BY <1>2, <1>5, NothingYet, LocklessMine DEF resvVars, apptVars
<1> QED
  BY <1>2, <1>4, <1>6, StepKept DEF resvVars, apptVars, Only

\* The rows of a hold share their window and expire together, so that none of
\* them is left out of the team.
LEMMA LookupKept ==
  ASSUME Inv, Ledger, Kept, NEW p \in Proc, Lookup(p), ~GiveUp(p, "conflict")
  PROVE  Kept'
<1> DEFINE held == { R!Seen(p, r) : r \in { x \in RowId :
                       /\ Hold(R!Seen(p, x))
                       /\ R!Seen(p, x).token = req[p].token
                       /\ ~Expired(R!Seen(p, x), now[p]) } }
<1>1. PICK h \in held :
        /\ team' = [ team EXCEPT ![p] = { v.resource : v \in held } ]
        /\ req' = [ req EXCEPT ![p].start = h.window.start + Before[req[p].service] ]
        /\ Goto(p, "insert")
        /\ UNCHANGED << resvVars, apptVars, now, targets, copy >>
  BY DEF Lookup
<1>2. pc[p] = "lookup"
  BY DEF Lookup
<1>3. \A r \in RowId : R!Seen(p, r) = resv[r]
  BY <1>2, NothingYet DEF R!Seen
<1>4. PICK x \in RowId : /\ h = resv[x] /\ Hold(resv[x])
                         /\ resv[x].token = req[p].token
                         /\ ~Expired(resv[x], now[p])
  BY <1>3
<1>5. \A r \in RowId : Hold(resv[r]) /\ resv[r].token = req[p].token
                       /\ ~Expired(resv[r], now[p]) => resv[r] \in held
  BY <1>3
<1>6. << x[1], x[2] >> = req[p].token /\ resv[x] # Null
  BY <1>4 DEF Kept, Named, Hold, Live
<1>7. ASSUME NEW r \in RowId, Hold(resv[r]), resv[r].token = req[p].token
      PROVE  /\ resv[r] \in held /\ resv[r].resource = r[3]
             /\ resv[r].window = h.window
  <2>1. /\ resv[r] # Null /\ resv[r].resource = r[3]
        /\ << r[1], r[2] >> = << x[1], x[2] >>
    BY <1>6, <1>7 DEF Kept, Named, Hold, Live
  <2>2. r[1] = x[1] /\ r[2] = x[2]
    BY <2>1
  <2>3. resv[r].window = resv[x].window /\ resv[r].expires = resv[x].expires
    BY <1>4, <1>6, <1>7, <2>1, <2>2 DEF Kept, Together
  <2>4. ~Expired(resv[r], now[p])
    BY <1>4, <1>7, <2>3 DEF Expired
  <2> QED
    BY <1>4, <1>5, <1>7, <2>1, <2>3, <2>4
<1>8. req[p] \in Request /\ req[p].op \in { "book", "confirm" }
  BY <1>2 DEF Inv, TypeInv, TypeOK, Shape
<1> HIDE DEF held
<1>9. /\ req'[p].op = req[p].op /\ req'[p].token = req[p].token
      /\ req'[p].service = req[p].service
      /\ req'[p].start = h.window.start + Before[req[p].service]
      /\ team'[p] = { v.resource : v \in held }
      /\ pc'[p] = "insert"
      /\ Private(p)
  BY <1>1, <1>8 DEF Goto, Private, Request, Inv, TypeInv, TypeOK
<1>10. Grasped(p)'
  <2> SUFFICES /\ \E s \in RowId : resv[s] # Null /\ << s[1], s[2] >> = req[p].token
               /\ \A r \in RowId : Hold(resv[r]) /\ resv[r].token = req[p].token =>
                    /\ r[3] \in team'[p]
                    /\ resv[r].window.start + Before[req[p].service] = req'[p].start
    BY <1>1, <1>9 DEF Grasped, resvVars
  <2> QED
    BY <1>6, <1>7, <1>9
<1>11. AtWork(p)' /\ Inserted(p)' /\ ~Editing(p)'
  BY <1>1, <1>2, <1>8, <1>9, NothingYet DEF AtWork, Inserted, Editing
<1>12. Mine(p)'
  BY <1>1, <1>2, <1>10, <1>11, NothingYet, LocklessMine DEF resvVars, apptVars
<1> QED
  BY <1>1, <1>9, <1>12, StepKept DEF resvVars, apptVars, Only

LEMMA ResolveSlotKept ==
  ASSUME Inv, Ledger, Kept, NEW p \in Proc, ResolveSlot(p), ~GiveUp(p, "conflict")
  PROVE  Kept'
<1>1. /\ pc[p] = "resolve"
      /\ Goto(p, IF req[p].op = "book" THEN "insert" ELSE "purge")
      /\ UNCHANGED << resvVars, apptVars, req, now, targets, copy >>
      /\ \E t : team' = [ team EXCEPT ![p] = t ]
  BY DEF ResolveSlot
<1>2. /\ pc'[p] = IF req[p].op = "book" THEN "insert" ELSE "purge"
      /\ Private(p)
  BY <1>1 DEF Goto, Private, Inv, TypeInv, TypeOK
<1>3. req[p].op \in { "hold", "book", "reschedule" }
  BY <1>1 DEF Inv, TypeInv, Shape
<1>4. AtWork(p)' /\ Inserted(p)' /\ Grasped(p)'
  BY <1>1, <1>2, <1>3 DEF Kept, Mine, AtWork, Inserted, Grasped, Updates
<1>5. Mine(p)'
  <2>1. CASE req[p].op \in { "hold", "book" }
    <3>1. ~Editing(p) /\ ~Editing(p)'
      BY <1>1, <2>1 DEF Editing
    <3>2. \A a \in ApptId : apptsLock'[a] # p
      BY <1>1, <3>1, NothingLocked DEF apptVars
    <3>3. \A r \in RowId : resvLock'[r] # p
      BY <1>1, <2>1 DEF Kept, Mine, LocksLate, resvVars
    <3> QED
      BY <1>4, <3>1, <3>2, <3>3, LocklessMine
  <2>2. CASE req[p].op = "reschedule"
    <3>1. pc'[p] = "purge"
      BY <1>2, <2>2
    <3>2. LocksLate(p)' /\ Drafts(p)'
      BY <1>1, <2>2, <3>1 DEF Kept, Mine, LocksLate, Drafts, resvVars
    <3>3. \A a \in ApptId : appts[a] # Null => apptsLock[a] # p
      BY <1>1 DEF Kept, Mine, Edit, Wrote
    <3>4. Editing(p)' = Editing(p) /\ Moves(p)' = Moves(p) /\ Releases(p)' = Releases(p)
      BY <1>1, <3>1 DEF Editing, Moves, Releases, Rest
    <3>5. Copied(p)' /\ Edit(p)'
      BY <1>1, <3>1, <3>3, <3>4 DEF Kept, Mine, Copied, Edit, Wrote, Stays, apptVars
    <3>6. Cleared(p)'
      <4>1. Rows(req[p].appt)' = Rows(req[p].appt)
        BY <1>1 DEF Rows, resvVars
      <4> QED
        BY <1>1, <2>2, <3>1, <3>4, <4>1 DEF Kept, Mine, Cleared, resvVars
    <3> QED
      BY <1>4, <3>2, <3>5, <3>6 DEF Mine
  <2> QED
    BY <1>3, <2>1, <2>2
<1> QED
  BY <1>1, <1>2, <1>5, StepKept DEF resvVars, apptVars, Only

LEMMA ReadKept ==
  ASSUME Inv, Ledger, Kept, NEW p \in Proc, Read(p), ~GiveUp(p, "invalid")
  PROVE  Kept'
<1> DEFINE a == req[p].appt
           v == A!Seen(p, a)
           mine == IF req[p].op = "transition"
                   THEN [ v EXCEPT !.status = req[p].status ] ELSE v
<1>1. /\ pc[p] = "read"
      /\ ~RescheduleRefused(p, v)
      /\ copy' = [ copy EXCEPT ![p] = mine ]
      /\ Goto(p, IF req[p].op = "reschedule" THEN "release" ELSE "write")
      /\ UNCHANGED << resvVars, apptVars, req, now, targets, team >>
  BY DEF Read
<1>2. /\ req[p].op \in { "transition", "reschedule", "details" }
      /\ a \in ApptId /\ appts[a] # Null
  BY <1>1 DEF Inv, TypeInv, Shape
<1>3. v = appts[a]
  BY <1>1, <1>2, NothingYet DEF A!Seen
<1>4. v \in Appointment
  BY <1>2, <1>3 DEF Inv, TypeInv, TypeOK
<1>5. /\ copy'[p] = mine /\ Private(p)
      /\ pc'[p] = IF req[p].op = "reschedule" THEN "release" ELSE "write"
  BY <1>1 DEF Goto, Private, Inv, TypeInv, TypeOK
<1> HIDE DEF v
<1>6. /\ mine.start = v.start /\ mine.end = v.end /\ mine.team = v.team
      /\ mine.status = IF req[p].op = "transition" THEN req[p].status ELSE v.status
  BY <1>4 DEF Appointment
<1> HIDE DEF mine
<1>7. Copied(p)'
  <2>1. /\ copy'[p].start = appts[a].start /\ copy'[p].end = appts[a].end
        /\ copy'[p].team = appts[a].team
        /\ req' = req /\ appts' = appts
    BY <1>1, <1>3, <1>5, <1>6 DEF apptVars
  <2>2. req[p].op = "reschedule" => Occupies(copy'[p].status)
    BY <1>1, <1>5, <1>6 DEF RescheduleRefused, Terminal, Occupies, Releasing
  <2>3. req[p].op = "transition" => copy'[p].status = req[p].status
    BY <1>5, <1>6
  <2>4. /\ Moves(p)' = Moves(p)
        /\ pc'[p] = "release" => Moves(p)
    BY <1>5, <2>1 DEF Moves, Releases
  <2> QED
    BY <2>1, <2>2, <2>3, <2>4 DEF Copied, Stays
<1>8. /\ \A r \in RowId : resvLock'[r] # p
      /\ \A c \in ApptId : apptsLock'[c] # p
      /\ targets'[p] = Null
  BY <1>1, NothingYet DEF resvVars, apptVars
<1>9. pc'[p] \in { "release", "write" } /\ (pc'[p] = "release" <=> req'[p].op = "reschedule")
  BY <1>1, <1>5
<1>10. Mine(p)'
  BY <1>1, <1>2, <1>7, <1>8, <1>9
  DEF Mine, AtWork, LocksLate, Drafts, Inserted, Edit, Wrote, Grasped, Cleared
<1> QED
  BY <1>1, <1>5, <1>10, StepKept DEF resvVars, apptVars, Only

\* The rows of the appointment are committed, and p has none of them locked: the
\* snapshot of its UPDATE finds them all.
LEMMA FindKept ==
  ASSUME Inv, Kept, NEW p \in Proc, Find(p)
  PROVE  Kept'
<1>1. /\ pc[p] \in Updates
      /\ targets' = [ targets EXCEPT ![p] = { r \in RowId : Matches(p, R!Seen(p, r)) } ]
      /\ UNCHANGED << resvVars, apptVars, pc, req, now, team, copy >>
  BY DEF Find
<1>2. /\ targets'[p] = { r \in RowId : Matches(p, R!Seen(p, r)) }
      /\ Private(p)
  BY <1>1 DEF Private, Inv, TypeInv, TypeOK
<1>3. Editing(p)' = Editing(p) /\ Moves(p)' = Moves(p) /\ Releases(p)' = Releases(p)
  BY <1>1 DEF Editing, Moves, Releases
<1>4. AtWork(p)' /\ LocksLate(p)' /\ Drafts(p)' /\ Inserted(p)' /\ Copied(p)' /\ Edit(p)'
      /\ Grasped(p)'
  BY <1>1, <1>3
  DEF Kept, Mine, AtWork, LocksLate, Drafts, Inserted, Copied, Edit, Wrote, Grasped, Placed,
      Room, Wanted, Stays, resvVars, apptVars
<1>5. Cleared(p)'
  <2>1. Rows(req[p].appt)' = Rows(req[p].appt)
    BY <1>1 DEF Rows, resvVars
  <2>2. pc[p] = "release" => Rows(req[p].appt) \subseteq targets'[p]
    BY <1>2 DEF Kept, Mine, LocksLate, Rows, Matches, OfAppointment, R!Seen
  <2> QED
    BY <1>1, <1>3, <2>1, <2>2 DEF Kept, Mine, Cleared, resvVars
<1>6. Mine(p)'
  BY <1>4, <1>5 DEF Mine
<1> QED
  BY <1>1, <1>2, <1>6, StepKept DEF resvVars, apptVars, Only

\* An UPDATE releases what it finds, or converts the hold p confirms.
LEMMA UpdateKept ==
  ASSUME Inv, Kept, Fitting, NEW p \in Proc, NEW hit \in SUBSET RowId, UpdateStep(p, hit)
  PROVE  Kept'
<1> DEFINE new == [ r \in hit |-> Updated(p, R!Seen(p, r)) ]
<1>1. /\ pc[p] \in Updates /\ targets[p] # Null
      /\ \A r \in targets[p] : StillMatches(p, R!Seen(p, r)) => r \in hit
      /\ \A r \in hit : R!Lockable(p, r) /\ R!Seen(p, r) \in Reservation
      /\ pc[p] = "convert" =>
           \A r \in hit : Hold(R!Seen(p, r)) /\ R!Seen(p, r).token = req[p].token
      /\ R!Put(p, hit, new)
      /\ targets' = [ targets EXCEPT ![p] = Null ]
      /\ Goto(p, Following(p))
      /\ UNCHANGED << apptVars, req, now, team, copy >>
  BY DEF UpdateStep
<1>2. /\ resv' = resv
      /\ \A r \in RowId :
           /\ resvLock'[r] = IF r \in hit THEN p ELSE resvLock[r]
           /\ resvDraft'[r] = IF r \in hit THEN Updated(p, R!Seen(p, r)) ELSE resvDraft[r]
  <2>1. \A r \in hit : new[r] = Updated(p, R!Seen(p, r))
    OBVIOUS
  <2> HIDE DEF new
  <2> QED
    BY <1>1, <2>1 DEF R!Put
<1> HIDE DEF new
<1>3. pc'[p] = Following(p) /\ targets'[p] = Null /\ Private(p)
  BY <1>1 DEF Goto, Private, Inv, TypeInv, TypeOK
<1>4. /\ pc[p] = "purge" => req[p].op \in { "hold", "book", "reschedule" }
      /\ pc[p] = "convert" => req[p].op = "confirm"
      /\ pc[p] = "release" => req[p].op \in { "transition", "reschedule" }
      /\ pc[p] \in { "drop", "sweep" } => req[p].op = pc[p]
  BY DEF Inv, TypeInv, Shape, Kept, Mine, AtWork
<1>5. /\ pc[p] = "purge" => pc'[p] = "reserve"
      /\ pc[p] = "release" =>
           pc'[p] = IF req[p].op = "reschedule" THEN "resolve" ELSE "commit"
      /\ pc[p] \in { "convert", "drop", "sweep" } => pc'[p] = "commit"
  BY <1>3 DEF Following
<1>6. pc[p] \in { "purge", "convert", "release", "drop", "sweep" }
  BY <1>1 DEF Updates
<1>7. pc[p] # "convert" => \A r \in hit : resvDraft'[r].released
  BY <1>1, <1>2, RowAssumption DEF Updated, Reservation
<1>8. AtWork(p)' /\ LocksLate(p)' /\ Grasped(p)'
  BY <1>1, <1>3, <1>4, <1>5, <1>6 DEF AtWork, LocksLate, Grasped
<1>9. ASSUME NEW r \in hit, pc[p] = "convert"
      PROVE  /\ resvDraft'[r].kind = "booking" /\ resvDraft'[r].appt = req[p].appt
             /\ req[p].op = "confirm" /\ r[3] \in team[p]
             /\ Room(p, resvDraft'[r].window)
  <2>1. R!Seen(p, r) = resv[r]
    BY <1>9, NullAssumption DEF Kept, Mine, LocksLate, R!Seen
  <2>2. /\ Hold(resv[r]) /\ resv[r].token = req[p].token /\ resv[r] \in Reservation
        /\ resvDraft'[r] = Updated(p, resv[r])
    BY <1>1, <1>2, <1>9, <2>1
  <2>3. /\ resvDraft'[r].kind = "booking" /\ resvDraft'[r].appt = req[p].appt
        /\ resvDraft'[r].window = resv[r].window
    BY <1>9, <2>2 DEF Updated, Reservation
  <2>4. req[p].op = "confirm"
    BY <1>4, <1>9
  <2>5. r[3] \in team[p] /\ resv[r].window.start + Before[req[p].service] = req[p].start
    BY <1>9, <2>2, <2>4 DEF Kept, Mine, Grasped
  <2>6. resv[r].window.start + Before[req[p].service] + Duration[req[p].service]
          <= resv[r].window.end
    BY <2>2, <2>4 DEF Fitting
  <2>7. /\ resv[r].window.start \in Int /\ resv[r].window.end \in Int
        /\ Before[req[p].service] \in Nat /\ Duration[req[p].service] \in Nat
    <3>1. req[p].service \in Service
      BY <2>4 DEF Inv, TypeInv, Shape
    <3> QED
      BY <2>2, <3>1, ServiceAssumption DEF Reservation, Interval
  <2>8. Wanted(p) = req[p].service
    BY <2>4 DEF Wanted
  <2>9. Room(p, resv[r].window)
    BY <2>5, <2>6, <2>7, <2>8 DEF Room
  <2> QED
    BY <2>3, <2>4, <2>5, <2>9
<1>10. Drafts(p)'
  <2> SUFFICES ASSUME NEW r \in RowId, resvLock'[r] = p, Live(resvDraft'[r])
               PROVE  \/ /\ resvDraft'[r].kind = "hold" /\ req[p].op = "hold" /\ resv[r] = Null
                         /\ resvDraft'[r].token = << r[1], r[2] >>
                         /\ resvDraft'[r].expires = now[p] + TTL
                      \/ /\ resvDraft'[r].kind = "booking" /\ resvDraft'[r].appt = req[p].appt
                         /\ req[p].op \in { "book", "confirm", "reschedule" }
                         /\ pc'[p] \in { "write", "commit" }
                         /\ r[3] \in team[p] /\ Room(p, resvDraft'[r].window)
    BY <1>1, <1>2 DEF Drafts, Room, Wanted
  <2>1. CASE r \in hit
    <3>1. pc[p] = "convert"
      BY <1>7, <2>1 DEF Live
    <3> QED
      BY <1>5, <1>9, <2>1, <3>1
  <2>2. CASE r \notin hit
    BY <1>2, <1>6, <2>2 DEF Kept, Mine, Drafts
  <2> QED
    BY <2>1, <2>2
<1>11. Inserted(p)'
  <2>1. req[p].op \in { "book", "confirm" } => pc[p] \in { "purge", "convert" }
    BY <1>4, <1>6
  <2>2. \A v : Placed(p, v)' = Placed(p, v)
    BY <1>1 DEF Placed, Wanted
  <2> QED
    BY <1>1, <2>1 DEF Kept, Mine, Inserted, Placed, Wanted, apptVars
<1>12. Editing(p)' = Editing(p) /\ Moves(p)' = Moves(p) /\ Releases(p)' = Releases(p)
  BY <1>1, <1>5, <1>6 DEF Editing, Moves, Releases, Rest
<1>13. Copied(p)'
  BY <1>1, <1>5, <1>6, <1>12 DEF Kept, Mine, Copied, Stays, apptVars
<1>14. Edit(p)'
  <2>1. Wrote(p)' <=> Wrote(p)
    BY <1>1, <1>4, <1>5, <1>6, <1>12 DEF Wrote, Editing
  <2>2. \A v : Placed(p, v)' = Placed(p, v)
    BY <1>1 DEF Placed, Wanted
  <2> QED
    BY <1>1, <1>12, <2>1, <2>2 DEF Kept, Mine, Edit, Stays, Placed, Wanted, apptVars
<1>15. Cleared(p)'
  <2> SUFFICES ASSUME Editing(p), Moves(p), NEW r \in Rows(req[p].appt),
                      \/ req[p].op = "reschedule"
                      \/ req[p].op = "transition" /\ pc'[p] = "commit"
               PROVE  resvLock'[r] = p /\ resvDraft'[r].released
    <3>1. Rows(req[p].appt)' = Rows(req[p].appt)
      BY <1>1, <1>2 DEF Rows
    <3> QED
      BY <1>1, <1>3, <1>12, <3>1 DEF Cleared
  <2>1. r \in RowId /\ Live(resv[r]) /\ resv[r].appt = req[p].appt
    BY DEF Rows
  <2>2. pc[p] \in { "release", "purge" } /\ (pc[p] = "purge" => req[p].op = "reschedule")
    BY <1>4, <1>5, <1>6
  <2>3. r \in hit \/ (resvLock[r] = p /\ resvDraft[r].released)
    <3>1. CASE pc[p] = "release"
      <4>1. r \in targets[p]
        BY <1>1, <3>1 DEF Kept, Mine, Cleared
      <4>2. R!Seen(p, r) = resv[r]
        BY <2>1, <3>1 DEF Kept, Mine, LocksLate, R!Seen
      <4>3. StillMatches(p, R!Seen(p, r))
        BY <2>1, <3>1, <4>2 DEF StillMatches, Matches, OfAppointment
      <4> QED
        BY <1>1, <4>1, <4>3
    <3>2. CASE pc[p] = "purge"
      BY <2>2, <3>2 DEF Kept, Mine, Cleared
    <3> QED
      BY <2>2, <3>1, <3>2
  <2> QED
    BY <1>2, <1>7, <2>1, <2>2, <2>3
<1>16. Mine(p)'
  BY <1>8, <1>10, <1>11, <1>13, <1>14, <1>15 DEF Mine
<1>17. Only(p)
  BY <1>1, <1>2 DEF Only, R!Lockable, apptVars
<1> QED
  BY <1>1, <1>2, <1>3, <1>16, <1>17, StepKept DEF apptVars

LEMMA ReserveKept ==
  ASSUME Inv, Kept, NEW p \in Proc, ReserveStep(p)
  PROVE  Kept'
<1> DEFINE ids == DOMAIN NewRows(p)
<1>1. /\ pc[p] = "reserve"
      /\ R!Put(p, ids, NewRows(p))
      /\ Goto(p, IF req[p].op = "reschedule" THEN "write" ELSE "commit")
      /\ UNCHANGED << apptVars, req, now, targets, team, copy >>
  BY DEF ReserveStep, local
<1>2. /\ ids \subseteq RowId
      /\ \A r \in ids : /\ r[1] = p /\ r[2] = serial[p]
                        /\ R!Lockable(p, r) /\ resv[r] = Null
  BY <1>1, NewRowsTyped, NewRowsLockable DEF Inv
<1>3. req[p].op \in { "hold", "book", "reschedule" }
  BY <1>1 DEF Inv, TypeInv, Shape
<1>4. /\ pc'[p] = IF req[p].op = "reschedule" THEN "write" ELSE "commit"
      /\ Private(p)
  BY <1>1 DEF Goto, Private, Inv, TypeInv, TypeOK
<1>5. ASSUME NEW r \in ids
      PROVE  \/ /\ NewRows(p)[r].kind = "hold" /\ req[p].op = "hold"
                /\ NewRows(p)[r].token = << r[1], r[2] >>
                /\ NewRows(p)[r].expires = now[p] + TTL
             \/ /\ NewRows(p)[r].kind = "booking" /\ NewRows(p)[r].appt = req[p].appt
                /\ req[p].op \in { "book", "confirm", "reschedule" }
                /\ r[3] \in team[p] /\ Room(p, NewRows(p)[r].window)
  <2>1. PICK x \in team[p] : r = << p, serial[p], x >>
    BY DEF NewRows
  <2>2. /\ NewRows(p)[r].kind = IF req[p].op = "hold" THEN "hold" ELSE "booking"
        /\ NewRows(p)[r].token = IF req[p].op = "hold" THEN << p, serial[p] >> ELSE Null
        /\ NewRows(p)[r].expires = IF req[p].op = "hold" THEN now[p] + TTL ELSE Null
        /\ NewRows(p)[r].appt = req[p].appt
        /\ NewRows(p)[r].window = ReservationWindow(Wanted(p), req[p].start)
    BY DEF NewRows
  <2>3. Room(p, ReservationWindow(Wanted(p), req[p].start))
    <3>1. Wanted(p) \in Service
      BY <1>1, <1>3 DEF Wanted, Inv, TypeInv, Shape, Rest, Appointment
    <3>2. /\ req[p].start \in Int /\ Before[Wanted(p)] \in Nat
          /\ Duration[Wanted(p)] \in Nat /\ After[Wanted(p)] \in Nat
      BY <3>1, ServiceAssumption DEF Inv, TypeInv, TypeOK, Request
    <3> QED
      BY <3>2 DEF Room, ReservationWindow
  <2>4. r[1] = p /\ r[2] = serial[p] /\ r[3] = x
    BY <2>1
  <2> QED
    BY <1>3, <2>2, <2>3, <2>4
<1>6. /\ resv' = resv
      /\ \A r \in RowId :
           /\ resvLock'[r] = IF r \in ids THEN p ELSE resvLock[r]
           /\ resvDraft'[r] = IF r \in ids THEN NewRows(p)[r] ELSE resvDraft[r]
  BY <1>1 DEF R!Put
<1> HIDE DEF ids
<1>7. AtWork(p)' /\ LocksLate(p)' /\ Grasped(p)'
  BY <1>1, <1>4 DEF Kept, Mine, AtWork, LocksLate, Grasped, Updates
<1>8. Drafts(p)'
  <2> SUFFICES ASSUME NEW r \in RowId, resvLock'[r] = p, Live(resvDraft'[r])
               PROVE  \/ /\ resvDraft'[r].kind = "hold" /\ req[p].op = "hold" /\ resv[r] = Null
                         /\ resvDraft'[r].token = << r[1], r[2] >>
                         /\ resvDraft'[r].expires = now[p] + TTL
                      \/ /\ resvDraft'[r].kind = "booking" /\ resvDraft'[r].appt = req[p].appt
                         /\ req[p].op \in { "book", "confirm", "reschedule" }
                         /\ pc'[p] \in { "write", "commit" }
                         /\ r[3] \in team[p] /\ Room(p, resvDraft'[r].window)
    BY <1>1, <1>6 DEF Drafts, Room, Wanted
  <2>1. CASE r \in ids
    BY <1>2, <1>4, <1>5, <1>6, <2>1
  <2>2. CASE r \notin ids
    BY <1>1, <1>6, <2>2 DEF Kept, Mine, Drafts
  <2> QED
    BY <2>1, <2>2
<1>9. Inserted(p)'
  BY <1>1, <1>4 DEF Kept, Mine, Inserted, Placed, Wanted, apptVars
<1>10. Editing(p)' = Editing(p) /\ Moves(p)' = Moves(p) /\ Releases(p)' = Releases(p)
  BY <1>1, <1>4 DEF Editing, Moves, Releases, Rest
<1>11. Copied(p)'
  BY <1>1, <1>4, <1>10 DEF Kept, Mine, Copied, Stays, apptVars
<1>12. Edit(p)'
  <2>1. \A b \in ApptId : appts[b] # Null => apptsLock[b] # p
    BY <1>1 DEF Kept, Mine, Edit, Wrote
  <2>2. ~Wrote(p)'
    BY <1>1, <1>3, <1>4 DEF Wrote, Editing
  <2> QED
    BY <1>1, <2>1, <2>2 DEF Edit, apptVars
<1>13. Cleared(p)'
  <2> SUFFICES ASSUME Editing(p), Moves(p), NEW r \in Rows(req[p].appt)
               PROVE  resvLock'[r] = p /\ resvDraft'[r].released
    <3>1. Rows(req[p].appt)' = Rows(req[p].appt)
      BY <1>1, <1>6 DEF Rows
    <3> QED
      BY <1>1, <1>4, <1>10, <3>1 DEF Cleared
  <2>1. r \in RowId /\ resv[r] # Null
    BY DEF Rows, Live
  <2>2. req[p].op = "reschedule"
    BY <1>3 DEF Editing
  <2> QED
    BY <1>1, <1>2, <1>6, <2>1, <2>2 DEF Kept, Mine, Cleared
<1>14. Mine(p)'
  BY <1>7, <1>8, <1>9, <1>11, <1>12, <1>13 DEF Mine
<1>15. Only(p)
  BY <1>1, <1>2, <1>6 DEF Only, R!Lockable, apptVars
<1> QED
  BY <1>1, <1>4, <1>6, <1>14, <1>15, StepKept DEF apptVars

\* The appointment an INSERT makes is new, and nobody has it.
LEMMA NewAppointment ==
  ASSUME Inv, Ledger, Kept, NEW p \in Proc, pc[p] = "insert"
  PROVE  \E id \in ApptId : /\ id = << p, serial[p] >> /\ id[1] = p /\ id[2] = serial[p]
                            /\ appts[id] = Null /\ apptsLock[id] = Null
<1>1. req[p].op \in { "book", "confirm" } /\ pc[p] \notin Rest
  BY DEF Inv, TypeInv, Shape, Rest
<1>2. PICK id \in ApptId : id = << p, serial[p] >> /\ id[1] = p /\ id[2] = serial[p]
  <2> DEFINE n == serial[p]
  <2>1. n \in 1..Budget[p]
    <3>1. serial[p] \in Nat /\ serial[p] <= Budget[p] /\ Budget[p] \in Nat
      BY BoundAssumption DEF Inv, TypeInv, TypeOK
    <3>2. serial[p] > 0
      BY <1>1 DEF Inv, TypeInv, Shape
    <3> QED
      BY <3>1, <3>2
  <2> HIDE DEF n
  <2>2. << p, n >> \in ApptId /\ << p, n >>[1] = p /\ << p, n >>[2] = n
    BY <2>1 DEF ApptId
  <2> QED
    BY <2>2 DEF n
<1>3. appts[id] = Null
  <2>1. serial[p] \in Nat
    BY DEF Inv, TypeInv, TypeOK
  <2> QED
    BY <1>1, <1>2, <2>1 DEF Ledger, Filed
<1>4. apptsLock[id] = Null
  BY <1>2, <1>3, NothingYet DEF Ledger, Filed
<1> QED
  BY <1>2, <1>3, <1>4

LEMMA InsertKept ==
  ASSUME Inv, Ledger, Kept, Opened, NEW p \in Proc, Insert(p), ~GiveUp(p, "error")
  PROVE  Kept'
<1> DEFINE made == [ service |-> req[p].service, start |-> req[p].start,
                     end |-> req[p].start + Duration[req[p].service],
                     team |-> team[p], status |-> req[p].status,
                     key |-> req[p].key, asked |-> req[p].asked ]
<1>1. /\ pc[p] = "insert"
      /\ A!Put(p, { << p, serial[p] >> }, [ a \in { << p, serial[p] >> } |-> made ])
      /\ req' = [ req EXCEPT ![p].appt = << p, serial[p] >> ]
      /\ copy' = [ copy EXCEPT ![p] = made ]
      /\ Goto(p, IF req[p].op = "book" THEN "purge" ELSE "convert")
      /\ UNCHANGED << resvVars, now, targets, team >>
  BY DEF Insert
<1>2. /\ made.start = req[p].start
      /\ made.end = req[p].start + Duration[req[p].service]
      /\ made.team = team[p] /\ made.status = req[p].status
  OBVIOUS
<1>3. req[p] \in Request /\ req[p].op \in { "book", "confirm" }
  BY <1>1 DEF Inv, TypeInv, TypeOK, Shape
<1>4. PICK id \in ApptId : /\ id = << p, serial[p] >> /\ id[1] = p /\ id[2] = serial[p]
                         /\ appts[id] = Null /\ apptsLock[id] = Null
  BY <1>1, NewAppointment
<1>5. /\ appts' = appts
      /\ \A a \in ApptId :
           /\ apptsLock'[a] = IF a = id THEN p ELSE apptsLock[a]
           /\ apptsDraft'[a] = IF a = id THEN made ELSE apptsDraft[a]
  BY <1>1, <1>4 DEF A!Put
<1> HIDE DEF made
<1>6. /\ req'[p].op = req[p].op /\ req'[p].start = req[p].start
      /\ req'[p].service = req[p].service /\ req'[p].token = req[p].token
      /\ req'[p].appt = id
      /\ pc'[p] = IF req[p].op = "book" THEN "purge" ELSE "convert"
      /\ Private(p)
  BY <1>1, <1>3, <1>4 DEF Goto, Private, Request, Inv, TypeInv, TypeOK
<1>7. /\ \A r \in RowId : resvLock'[r] # p
      /\ \A a \in ApptId : appts[a] # Null => apptsLock'[a] # p
      /\ targets'[p] = Null
  BY <1>1, <1>4, <1>5, NothingYet DEF resvVars
<1>8. Inserted(p)'
  <2>1. Occupies(req[p].status)
    BY <1>3 DEF Opened
  <2>2. Wanted(p)' = req[p].service
    BY <1>3, <1>6 DEF Wanted
  <2>3. apptsLock'[id] = p /\ apptsDraft'[id] = made /\ appts'[id] = Null
    BY <1>4, <1>5
  <2>4. Placed(p, apptsDraft[id])'
    BY <1>1, <1>2, <1>6, <2>1, <2>2, <2>3 DEF Placed
  <2> QED
    BY <1>6, <2>3, <2>4 DEF Inserted
<1>9. Grasped(p)'
  BY <1>1, <1>6 DEF Kept, Mine, Grasped, resvVars
<1>10. pc'[p] \in { "purge", "convert" } /\ ~Editing(p)'
  BY <1>3, <1>6 DEF Editing
<1>11. Mine(p)'
  BY <1>5, <1>7, <1>8, <1>9, <1>10
  DEF Mine, AtWork, LocksLate, Drafts, Copied, Edit, Wrote, Cleared, Updates
<1>12. Only(p)
  BY <1>1, <1>4, <1>5 DEF Only, resvVars
<1> QED
  BY <1>1, <1>5, <1>6, <1>11, <1>12, StepKept DEF resvVars

LEMMA WriteKept ==
  ASSUME Inv, Kept, NEW p \in Proc, Write(p)
  PROVE  Kept'
<1>1. /\ pc[p] = "write"
      /\ A!Lockable(p, req[p].appt)
      /\ A!Put(p, { req[p].appt }, [ a \in { req[p].appt } |-> Edited(p) ])
      /\ Goto(p, IF HandsBack(p) THEN "release" ELSE "commit")
      /\ UNCHANGED << resvVars, req, now, targets, team, copy >>
  BY DEF Write, local
<1>2. PICK id \in ApptId : id = req[p].appt /\ appts[id] # Null
  BY <1>1 DEF Inv, TypeInv, Shape
<1>3. req[p].op \in { "transition", "reschedule", "details" } /\ copy[p] \in Appointment
  BY <1>1 DEF Inv, TypeInv, Shape
<1>4. /\ appts' = appts
      /\ \A a \in ApptId :
           /\ apptsLock'[a] = IF a = id THEN p ELSE apptsLock[a]
           /\ apptsDraft'[a] = IF a = id THEN Edited(p) ELSE apptsDraft[a]
  BY <1>1, <1>2 DEF A!Put
<1>5. pc'[p] = (IF HandsBack(p) THEN "release" ELSE "commit") /\ Private(p)
  BY <1>1 DEF Goto, Private, Inv, TypeInv, TypeOK
<1>6. req[p].op = "reschedule" => pc'[p] = "commit"
  BY <1>5 DEF HandsBack
<1>7. Editing(p) /\ Editing(p)' /\ Moves(p)' = Moves(p) /\ Releases(p)' = Releases(p)
  BY <1>1, <1>3, <1>5 DEF Editing, Moves, Releases, Rest
<1>8. targets'[p] = Null
  BY <1>1 DEF Kept, Mine, AtWork, Updates
<1>9. AtWork(p)' /\ Inserted(p)' /\ Grasped(p)'
  BY <1>1, <1>3, <1>5, <1>8 DEF AtWork, Inserted, Grasped
<1>10. LocksLate(p)'
  BY <1>1, <1>6 DEF Kept, Mine, LocksLate, resvVars
<1>11. Drafts(p)'
  BY <1>1, <1>3, <1>6 DEF Kept, Mine, Drafts, Room, Wanted, resvVars
<1>12. Copied(p)'
  <2>1. pc'[p] = "release" => Moves(p)
    BY <1>5, <1>7 DEF HandsBack, Kept, Mine, Copied, Moves, Releases
  <2> QED
    BY <1>1, <1>4, <1>7, <2>1 DEF Kept, Mine, Copied, Stays
<1>13. /\ ~Moves(p) => Stays(Edited(p), id)
       /\ req[p].op = "reschedule" => Placed(p, Edited(p))
       /\ Releases(p) => Over(Edited(p))
  <2>1. CASE req[p].op = "reschedule"
    <3>1. /\ Edited(p).start = req[p].start
          /\ Edited(p).end = req[p].start + Duration[copy[p].service]
          /\ Edited(p).team = team[p] /\ Edited(p).status = copy[p].status
      BY <1>3, <2>1 DEF Edited, Appointment
    <3>2. Occupies(copy[p].status)
      BY <1>7, <2>1 DEF Kept, Mine, Copied
    <3> QED
      BY <2>1, <3>1, <3>2 DEF Placed, Wanted, Moves, Releases
  <2>2. CASE req[p].op # "reschedule"
    BY <1>2, <1>7, <2>2 DEF Edited, Kept, Mine, Copied, Releases, Over
  <2> QED
    BY <2>1, <2>2
<1>14. Edit(p)'
  <2>1. \A a \in ApptId : appts[a] # Null => apptsLock[a] # p
    BY <1>1 DEF Kept, Mine, Edit, Wrote
  <2>2. Wrote(p)'
    BY <1>1, <1>5, <1>7 DEF Wrote, HandsBack
  <2>3. Stays(Edited(p), id) => Stays(apptsDraft[id], id)'
    BY <1>4 DEF Stays
  <2>4. Placed(p, Edited(p)) => Placed(p, apptsDraft[id])'
    BY <1>1, <1>4 DEF Placed, Wanted
  <2>5. ASSUME NEW a \in ApptId, appts[a] # Null, apptsLock'[a] = p
        PROVE  a = id
    BY <1>4, <2>1, <2>5
  <2> QED
    BY <1>1, <1>2, <1>4, <1>7, <1>13, <2>2, <2>3, <2>4, <2>5 DEF Edit
<1>15. Cleared(p)'
  <2> SUFFICES ASSUME Moves(p), NEW r \in Rows(req[p].appt),
                      \/ req[p].op = "reschedule"
                      \/ req[p].op = "transition" /\ pc'[p] = "commit"
               PROVE  resvLock[r] = p /\ resvDraft[r].released
    <3>1. Rows(req[p].appt)' = Rows(req[p].appt)
      BY <1>1 DEF Rows, resvVars
    <3> QED
      BY <1>1, <1>7, <1>8, <3>1 DEF Cleared, resvVars
  <2>1. req[p].op = "reschedule"
    <3>1. ASSUME req[p].op = "transition", pc'[p] = "commit" PROVE FALSE
      <4>1. Releases(p) /\ Occupies(copy[p].status)
        BY <1>5, <3>1 DEF Moves, HandsBack
      <4> QED
        BY <1>7, <3>1, <4>1 DEF Kept, Mine, Copied, Releases
    <3> QED
      BY <3>1
  <2> QED
    BY <1>1, <1>7, <2>1 DEF Kept, Mine, Cleared
<1>16. Mine(p)'
  BY <1>9, <1>10, <1>11, <1>12, <1>14, <1>15 DEF Mine
<1>17. Only(p)
  BY <1>1, <1>2, <1>4 DEF Only, A!Lockable, resvVars
<1> QED
  BY <1>1, <1>4, <1>5, <1>16, <1>17, StepKept DEF resvVars

\* What a commit of p does to the tables.
LEMMA CommitTables ==
  ASSUME Inv, NEW p \in Proc, Commit(p)
  PROVE  /\ pc[p] = "commit" /\ pc'[p] \in Rest /\ targets'[p] = Null /\ Private(p)
         /\ \A r \in RowId :
              /\ resv'[r] = IF resvLock[r] = p THEN resvDraft[r] ELSE resv[r]
              /\ resvLock'[r] = IF resvLock[r] = p THEN Null ELSE resvLock[r]
              /\ resvLock[r] # p => resvDraft'[r] = resvDraft[r]
         /\ \A a \in ApptId :
              /\ appts'[a] = IF apptsLock[a] = p THEN apptsDraft[a] ELSE appts[a]
              /\ apptsLock'[a] = IF apptsLock[a] = p THEN Null ELSE apptsLock[a]
              /\ apptsLock[a] # p => apptsDraft'[a] = apptsDraft[a]
<1>1. /\ pc[p] = "commit" /\ R!Commit(p) /\ A!Commit(p)
      /\ Goto(p, "ok") /\ Forget(p)
  BY DEF Commit
<1>2. pc'[p] \in Rest /\ targets'[p] = Null /\ Private(p)
  BY <1>1 DEF Goto, Forget, Rest, Private, Inv, TypeInv, TypeOK
<1> QED
  BY <1>1, <1>2 DEF R!Commit, R!Unlock, A!Commit, A!Unlock

\* The rows a commit of p adds are of its request, and no others are.
LEMMA NewOnes ==
  ASSUME Inv, Kept, Steady, NEW p \in Proc, pc[p] = "commit",
         NEW r \in RowId, resvLock[r] = p, resv[r] = Null
  PROVE  /\ r[1] = p /\ r[2] = serial[p]
         /\ Live(resvDraft[r])
         /\ resvDraft[r].window = ReservationWindow(Wanted(p), req[p].start)
         /\ \A s \in RowId : resv[s] # Null => ~(s[1] = p /\ s[2] = serial[p])
<1>1. p # Null
  BY NullAssumption
<1>2. r[1] = p /\ r[2] = serial[p]
  BY <1>1 DEF Inv, Made
<1>3. /\ Live(resvDraft[r])
      /\ resvDraft[r].window = ReservationWindow(Wanted(p), req[p].start)
  BY <1>1 DEF Inv, TypeInv, Locked, Steady, SteadyRow, Live
<1>4. req[p].op # "sweep"
  BY <1>3 DEF Kept, Mine, Drafts
<1>5. serial[p] \in Nat /\ pc[p] \notin Rest
  BY DEF Inv, TypeInv, TypeOK, Rest
<1>6. ASSUME NEW s \in RowId, resv[s] # Null, s[1] = p, s[2] = serial[p]
      PROVE  FALSE
  BY <1>4, <1>5, <1>6 DEF Inv, Made
<1> QED
  BY <1>2, <1>3, <1>6

\* The rows a commit of p changes are no longer in force, or booked by p.
LEMMA OldOnes ==
  ASSUME Inv, Kept, Steady, NEW p \in Proc, NEW r \in RowId,
         resvLock[r] = p, resv[r] # Null
  PROVE  /\ resvDraft[r] # Null
         /\ resvDraft[r].resource = resv[r].resource
         /\ resvDraft[r].window = resv[r].window
         /\ ~Hold(resvDraft[r])
<1>1. p # Null
  BY NullAssumption
<1>2. /\ resvDraft[r] # Null /\ resvDraft[r].resource = resv[r].resource
      /\ resvDraft[r].window = resv[r].window
  BY <1>1 DEF Inv, TypeInv, Locked, Steady, SteadyRow
<1> QED
  BY <1>2 DEF Kept, Mine, Drafts, Hold

\* The time p has booked when it commits is that of the appointment it commits.
LEMMA BookedOnes ==
  ASSUME Inv, Kept, NEW p \in Proc, pc[p] = "commit", NEW r \in RowId,
         resvLock[r] = p, Live(resvDraft[r]), resvDraft[r].kind = "booking"
  PROVE  /\ req[p].op \in { "book", "confirm", "reschedule" }
         /\ resvDraft[r].appt = req[p].appt /\ req[p].appt \in ApptId
         /\ r[3] \in team[p] /\ Room(p, resvDraft[r].window)
         /\ apptsLock[req[p].appt] = p /\ Placed(p, apptsDraft[req[p].appt])
<1>1. /\ req[p].op \in { "book", "confirm", "reschedule" }
      /\ resvDraft[r].appt = req[p].appt
      /\ r[3] \in team[p] /\ Room(p, resvDraft[r].window)
  BY DEF Kept, Mine, Drafts
<1>2. CASE req[p].op \in { "book", "confirm" }
  BY <1>1, <1>2 DEF Kept, Mine, Inserted
<1>3. CASE req[p].op = "reschedule"
  <2>1. PICK a \in ApptId : a = req[p].appt /\ appts[a] # Null
    BY <1>3 DEF Inv, TypeInv, Shape
  <2>2. apptsLock[a] = p
    BY <1>3, <2>1 DEF Kept, Mine, Edit, Wrote, Editing, Rest
  <2>3. Placed(p, apptsDraft[a])
    BY <1>3, <2>1, <2>2 DEF Kept, Mine, Edit
  <2> QED
    BY <1>1, <2>1, <2>2, <2>3
<1> QED
  BY <1>1, <1>2, <1>3

LEMMA CommitNamed ==
  ASSUME Inv, Kept, Steady, NEW p \in Proc, Commit(p)
  PROVE  Named' /\ Together'
<1>1. pc[p] = "commit"
  BY CommitTables
<1>2. \A r \in RowId : resv'[r] = IF resvLock[r] = p THEN resvDraft[r] ELSE resv[r]
  BY CommitTables
<1>3. Named'
  <2> SUFFICES ASSUME NEW r \in RowId, resv'[r] # Null
               PROVE  /\ resv'[r].resource = r[3]
                      /\ Hold(resv'[r]) => resv'[r].token = << r[1], r[2] >>
                      /\ Live(resv'[r]) /\ resv'[r].kind = "booking" =>
                           resv'[r].appt \in ApptId
    BY DEF Named
  <2>1. CASE resvLock[r] # p
    BY <1>2, <2>1 DEF Kept, Named
  <2>2. CASE resvLock[r] = p
    <3>1. resv'[r] = resvDraft[r]
      BY <1>2, <2>2
    <3>2. resvDraft[r].resource = r[3]
      <4>1. CASE resv[r] = Null
        BY <2>2, <4>1, NullAssumption DEF Steady, SteadyRow
      <4>2. CASE resv[r] # Null
        BY <2>2, <4>2, OldOnes DEF Kept, Named
      <4> QED
        BY <4>1, <4>2
    <3>3. Hold(resvDraft[r]) => resvDraft[r].token = << r[1], r[2] >>
      BY <2>2 DEF Kept, Mine, Drafts, Hold
    <3>4. Live(resvDraft[r]) /\ resvDraft[r].kind = "booking" => resvDraft[r].appt \in ApptId
      BY <1>1, <2>2, BookedOnes
    <3> QED
      BY <3>1, <3>2, <3>3, <3>4
  <2> QED
    BY <2>1, <2>2
<1>4. Together'
  <2> SUFFICES ASSUME NEW r \in RowId, NEW s \in RowId,
                      resv'[r] # Null, resv'[s] # Null, r[1] = s[1], r[2] = s[2]
               PROVE  /\ resv'[r].window = resv'[s].window
                      /\ Hold(resv'[r]) /\ Hold(resv'[s]) =>
                           resv'[r].expires = resv'[s].expires
    BY DEF Together
  <2>1. ASSUME NEW x \in RowId, resv[x] = Null, resv'[x] # Null
        PROVE  /\ x[1] = p /\ x[2] = serial[p]
               /\ resv'[x].window = ReservationWindow(Wanted(p), req[p].start)
               /\ Hold(resv'[x]) => resv'[x].expires = now[p] + TTL
               /\ \A y \in RowId : resv[y] # Null => ~(y[1] = p /\ y[2] = serial[p])
    <3>1. resvLock[x] = p /\ resv'[x] = resvDraft[x]
      BY <1>2, <2>1
    <3>2. Hold(resvDraft[x]) => resvDraft[x].expires = now[p] + TTL
      BY <3>1 DEF Kept, Mine, Drafts, Hold
    <3> QED
      BY <1>1, <2>1, <3>1, <3>2, NewOnes
  <2>2. ASSUME NEW x \in RowId, resv[x] # Null
        PROVE  resv'[x].window = resv[x].window /\ (Hold(resv'[x]) => resv'[x] = resv[x])
    BY <1>2, <2>2, OldOnes
  <2>3. CASE resv[r] = Null
    <3>1. resv[s] = Null
      BY <2>1, <2>3
    <3> QED
      BY <2>1, <2>3, <3>1
  <2>4. CASE resv[r] # Null
    <3>1. resv[s] # Null
      BY <2>1, <2>4
    <3> QED
      BY <2>2, <2>4, <3>1 DEF Kept, Together
  <2> QED
    BY <2>3, <2>4
<1> QED
  BY <1>3, <1>4

\* A commit of p leaves the hold another session confirms as it is, or takes it.
LEMMA HeldAsBefore ==
  ASSUME Inv, Kept, Steady, NEW p \in Proc, Commit(p), NEW q \in Proc,
         req[q].op = "confirm", pc[q] \in { "insert", "convert" },
         NEW r \in RowId, Hold(resv'[r]), resv'[r].token = req[q].token
  PROVE  resv'[r] = resv[r]
<1>1. /\ pc[p] = "commit"
      /\ resv'[r] = IF resvLock[r] = p THEN resvDraft[r] ELSE resv[r]
  BY CommitTables
<1>2. CASE resvLock[r] # p
  BY <1>1, <1>2
<1>3. CASE resvLock[r] = p /\ resv[r] # Null
  BY <1>1, <1>3, OldOnes
<1>4. CASE resvLock[r] = p /\ resv[r] = Null
  <2>1. PICK s \in RowId : resv[s] # Null /\ << s[1], s[2] >> = req[q].token
    BY DEF Kept, Mine, Grasped
  <2>2. Hold(resvDraft[r]) /\ resvDraft[r].token = req[q].token
    BY <1>1, <1>4
  <2>3. << r[1], r[2] >> = << s[1], s[2] >>
    BY <1>4, <2>1, <2>2 DEF Kept, Mine, Drafts, Hold
  <2>4. s[1] = r[1] /\ s[2] = r[2]
    BY <2>3
  <2> QED
    BY <1>1, <1>4, <2>1, <2>4, NewOnes
<1> QED
  BY <1>2, <1>3, <1>4

\* No commit disturbs what another request relies on, if none moves or releases
\* the appointment it is changing.
LEMMA CommitOthers ==
  ASSUME Inv, Ledger, Kept, Steady, Unhurried, NEW p \in Proc, Commit(p),
         NEW q \in Proc, q # p
  PROVE  Mine(q)'
<1>1. pc[p] = "commit" /\ Mine(q)
  BY CommitTables DEF Kept
<1>2. \A r \in RowId :
        /\ resv'[r] = IF resvLock[r] = p THEN resvDraft[r] ELSE resv[r]
        /\ resvLock'[r] = q <=> resvLock[r] = q
        /\ resvLock[r] = q => resvDraft'[r] = resvDraft[r] /\ resv'[r] = resv[r]
  BY CommitTables, NullAssumption
<1>3. \A a \in ApptId :
        /\ appts'[a] = IF apptsLock[a] = p THEN apptsDraft[a] ELSE appts[a]
        /\ apptsLock'[a] = q <=> apptsLock[a] = q
        /\ apptsLock[a] = q => apptsDraft'[a] = apptsDraft[a] /\ appts'[a] = appts[a]
  BY CommitTables, NullAssumption
<1>4. /\ pc'[q] = pc[q] /\ req'[q] = req[q] /\ copy'[q] = copy[q]
      /\ team'[q] = team[q] /\ targets'[q] = targets[q] /\ now'[q] = now[q]
  BY CommitTables DEF Private
<1>5. AtWork(q)' /\ LocksLate(q)'
  BY <1>1, <1>2, <1>4 DEF Mine, AtWork, LocksLate
<1>6. Wanted(q)' = Wanted(q)
  BY <1>4 DEF Wanted
<1>7. Drafts(q)'
  BY <1>1, <1>2, <1>4, <1>6 DEF Mine, Drafts, Room
<1>8. Inserted(q)'
  BY <1>1, <1>3, <1>4, <1>6 DEF Mine, Inserted, Placed
<1>9. Editing(q)' = Editing(q) /\ Moves(q)' = Moves(q) /\ Releases(q)' = Releases(q)
  BY <1>4 DEF Editing, Moves, Releases
<1>10. Copied(q)'
  <2>1. ASSUME Editing(q), ~Moves(q) PROVE Stays(copy[q], req[q].appt)'
    <3>1. PICK a \in ApptId : a = req[q].appt /\ appts[a] # Null
      BY <2>1 DEF Editing, Inv, TypeInv, Shape
    <3>2. Stays(copy[q], a)
      BY <1>1, <2>1, <3>1 DEF Mine, Copied
    <3>3. CASE apptsLock[a] = p
      <4>1. Editing(p) /\ req[p].appt = a
        BY <3>1, <3>3, NullAssumption DEF Ledger, Written
      <4>2. ~Moves(p)
        BY <2>1, <3>1, <4>1 DEF Unhurried
      <4>3. Stays(apptsDraft[a], a) /\ appts'[a] = apptsDraft[a]
        BY <1>3, <3>1, <3>3, <4>2 DEF Kept, Mine, Edit
      <4> QED
        BY <1>4, <3>1, <3>2, <4>3 DEF Stays
    <3>4. CASE apptsLock[a] # p
      BY <1>3, <1>4, <3>1, <3>2, <3>4 DEF Stays
    <3> QED
      BY <3>3, <3>4
  <2> QED
    BY <1>1, <1>4, <1>9, <2>1 DEF Mine, Copied
<1>11. Edit(q)'
  <2>1. Wrote(q)' = Wrote(q) /\ (Wrote(q) => req[q].appt \in ApptId)
    BY <1>4, <1>9 DEF Wrote, Editing, Inv, TypeInv, Shape
  <2> QED
    BY <1>1, <1>3, <1>4, <1>6, <1>9, <2>1 DEF Mine, Edit, Stays, Placed
<1>12. Grasped(q)'
  <2> SUFFICES ASSUME req[q].op = "confirm", pc[q] \in { "insert", "convert" }
               PROVE  /\ \E s \in RowId : resv'[s] # Null /\ << s[1], s[2] >> = req[q].token
                      /\ \A r \in RowId : Hold(resv'[r]) /\ resv'[r].token = req[q].token =>
                           /\ r[3] \in team[q]
                           /\ resv'[r].window.start + Before[req[q].service] = req[q].start
    BY <1>4 DEF Grasped
  <2>1. PICK s \in RowId : resv[s] # Null /\ << s[1], s[2] >> = req[q].token
    BY <1>1 DEF Mine, Grasped
  <2>2. resv'[s] # Null
    BY <1>2, <2>1, OldOnes
  <2>3. ASSUME NEW r \in RowId, Hold(resv'[r]), resv'[r].token = req[q].token
        PROVE  resv'[r] = resv[r]
    BY <2>3, HeldAsBefore
  <2>4. ASSUME NEW r \in RowId, Hold(resv[r]), resv[r].token = req[q].token
        PROVE  /\ r[3] \in team[q]
               /\ resv[r].window.start + Before[req[q].service] = req[q].start
    BY <1>1, <2>4 DEF Mine, Grasped
  <2> QED
    BY <2>1, <2>2, <2>3, <2>4
<1>13. Cleared(q)'
  <2> SUFFICES ASSUME Editing(q), Moves(q)
               PROVE  Rows(req[q].appt)' \subseteq Rows(req[q].appt)
    BY <1>1, <1>2, <1>4, <1>9 DEF Mine, Cleared, Rows
  <2>1. req[q].appt \in ApptId /\ appts[req[q].appt] # Null
    BY DEF Editing, Inv, TypeInv, Shape
  <2> SUFFICES ASSUME NEW r \in RowId, Live(resv'[r]), resv'[r].kind = "booking",
                      resv'[r].appt = req[q].appt
               PROVE  resvLock[r] # p
    BY <1>2, <1>4 DEF Rows
  <2> SUFFICES ASSUME resvLock[r] = p
               PROVE  FALSE
    OBVIOUS
  <2>2. /\ req[p].op \in { "book", "confirm", "reschedule" }
        /\ req[p].appt = req[q].appt
    BY <1>1, <1>2, BookedOnes
  <2>3. req[p].op = "reschedule"
    BY <1>1, <2>1, <2>2 DEF Kept, Mine, Inserted
  <2>4. Editing(p)
    BY <1>1, <2>3 DEF Editing, Rest
  <2> QED
    BY <2>2, <2>4 DEF Unhurried
<1> QED
  BY <1>5, <1>7, <1>8, <1>10, <1>11, <1>12, <1>13 DEF Mine

\* The booked rows a commit leaves are where their appointments are, those it
\* brings and those that were there.
LEMMA CommitStray ==
  ASSUME Inv, Ledger, Kept, Steady, NEW p \in Proc, Commit(p), Named'
  PROVE  NoStray'
<1> SUFFICES ASSUME NEW r \in RowId, Live(resv'[r]), resv'[r].kind = "booking",
                    NEW a, a = resv'[r].appt
             PROVE  /\ appts'[a] # Null /\ Occupies(appts'[a].status)
                    /\ resv'[r].resource \in appts'[a].team
                    /\ resv'[r].window.start <= appts'[a].start
                    /\ appts'[a].end <= resv'[r].window.end
  BY DEF NoStray, Standing, Covers
<1>1. pc[p] = "commit"
  BY CommitTables
<1>2. resv'[r] = IF resvLock[r] = p THEN resvDraft[r] ELSE resv[r]
  BY CommitTables
<1>3. a \in ApptId /\ resv'[r].resource = r[3]
  BY DEF Named, Live
<1>4. appts'[a] = IF apptsLock[a] = p THEN apptsDraft[a] ELSE appts[a]
  BY <1>3, CommitTables
<1>5. CASE resvLock[r] = p
  <2>1. /\ a = req[p].appt /\ r[3] \in team[p] /\ Room(p, resv'[r].window)
        /\ apptsLock[a] = p /\ Placed(p, apptsDraft[a])
    BY <1>1, <1>2, <1>5, BookedOnes
  <2>2. apptsDraft[a] # Null
    BY <1>3, <2>1, NullAssumption DEF Inv, TypeInv, Locked
  <2> QED
    BY <1>3, <1>4, <2>1, <2>2 DEF Placed, Room
<1>6. CASE resvLock[r] # p
  <2>1. /\ resv'[r] = resv[r]
        /\ appts[a] # Null /\ Occupies(appts[a].status)
        /\ resv[r].resource \in appts[a].team
        /\ resv[r].window.start <= appts[a].start
        /\ appts[a].end <= resv[r].window.end
    BY <1>2, <1>6 DEF Kept, NoStray, Standing, Covers
  <2>2. CASE apptsLock[a] # p
    BY <1>4, <2>1, <2>2
  <2>3. CASE apptsLock[a] = p
    <3>1. /\ Editing(p) /\ req[p].appt = a
          /\ Faithful(p, apptsDraft[a], appts[a]) /\ apptsDraft[a] # Null
      BY <1>3, <2>1, <2>3, NullAssumption DEF Ledger, Written, Inv, TypeInv, Locked
    <3>2. ~Moves(p)
      <4>1. r \in Rows(a)
        BY <2>1 DEF Rows
      <4> QED
        BY <1>1, <1>6, <3>1, <4>1 DEF Kept, Mine, Cleared, Moves, Releases
    <3>3. Stays(apptsDraft[a], a)
      BY <1>3, <2>1, <2>3, <3>2 DEF Kept, Mine, Edit
    <3>4. Occupies(apptsDraft[a].status)
      BY <2>1, <3>1, <3>2 DEF Faithful, Over, Moves
    <3> QED
      BY <1>4, <2>1, <2>3, <3>1, <3>3, <3>4 DEF Stays
  <2> QED
    BY <2>2, <2>3
<1> QED
  BY <1>5, <1>6

LEMMA CommitKept ==
  ASSUME Inv, Ledger, Kept, Steady, Unhurried, NEW p \in Proc, Commit(p)
  PROVE  Kept'
<1>1. Named' /\ Together'
  BY CommitNamed
<1>2. NoStray'
  BY <1>1, CommitStray
<1>3. Mine(p)'
  BY CommitTables, RestMine, NullAssumption
<1>4. \A q \in Proc : Mine(q)'
  BY <1>3, CommitOthers
<1> QED
  BY <1>1, <1>2, <1>4 DEF Kept

LEMMA NextKept == Inv /\ Steady /\ Ledger /\ Kept /\ Orderly /\ [Next]_vars => Kept'
<1> SUFFICES ASSUME Inv, Steady, Ledger, Kept, Orderly, [Next]_vars PROVE Kept'
  OBVIOUS
<1>1. Unhurried /\ Fitting /\ Opened
  BY DEF Orderly
<1>2. ASSUME NEW p \in Proc, NEW reply \in Rest, GiveUp(p, reply) PROVE Kept'
  BY <1>2, GiveUpKept
<1>3. "replayed" \in Rest /\ "conflict" \in Rest /\ "invalid" \in Rest
      /\ "error" \in Rest /\ "idle" \in Rest
  BY DEF Rest
<1>4. ASSUME NEW p \in Proc, Begin(p) PROVE Kept'
  BY <1>4, BeginKept
<1>5. ASSUME NEW p \in Proc, Replay(p) \/ Lookup(p) \/ ResolveSlot(p) \/ Read(p) \/ Find(p)
      PROVE Kept'
  BY <1>2, <1>3, <1>5, ReplayKept, LookupKept, ResolveSlotKept, ReadKept, FindKept
<1>6. ASSUME NEW p \in Proc, Insert(p) \/ Write(p) PROVE Kept'
  BY <1>1, <1>2, <1>3, <1>6, InsertKept, WriteKept
<1>7. ASSUME NEW p \in Proc, Update(p) PROVE Kept'
  BY <1>1, <1>2, <1>3, <1>7, UpdateCases, UpdateKept DEF Inv
<1>8. ASSUME NEW p \in Proc, Reserve(p) PROVE Kept'
  BY <1>2, <1>3, <1>8, ReserveCases, ReserveKept
<1>9. ASSUME NEW p \in Proc, Commit(p) PROVE Kept'
  BY <1>1, <1>9, CommitKept
<1>10. ASSUME NEW p \in Proc, Deadlock(p) \/ Crash(p) PROVE Kept'
  BY <1>2, <1>3, <1>10 DEF Deadlock, Crash
<1>11. CASE Tick \/ UNCHANGED vars
  <2>1. UNCHANGED << resvVars, apptVars, pc, local >>
    BY <1>11 DEF Tick, vars
  <2>2. Named' /\ Together' /\ NoStray'
    BY <2>1 DEF resvVars, apptVars, Kept, Named, Together, NoStray, Standing, Covers
  <2>3. ASSUME NEW p \in Proc PROVE Mine(p)'
    <3>1. Mine(p)
      BY DEF Kept
    <3> QED
      BY <2>1, <3>1
      DEF resvVars, apptVars, local, Mine, AtWork, LocksLate, Drafts, Room, Wanted,
          Inserted, Placed, Copied, Stays, Edit, Wrote, Grasped, Cleared, Rows, Editing, Moves,
          Releases
  <2> QED
    BY <2>2, <2>3 DEF Kept
<1> QED
  BY <1>4, <1>5, <1>6, <1>7, <1>8, <1>9, <1>10, <1>11 DEF Next, Statement, Done

\* No slot stays dead: booked time is always that of an appointment which still
\* occupies it, on a resource of its team and around its hour, for any number of
\* processes, services and requests, if nobody moves or releases an appointment
\* in the middle of another request's change of it, no hold is confirmed for a
\* service too long for it, and nothing is booked as cancelled.
THEOREM NothingStrays == Spec /\ []Orderly => []NoStray
<1>1. Orderly => Undisturbed
  BY DEF Orderly, Unhurried, Undisturbed, Moves
<1>2. Inv /\ Steady /\ Ledger /\ Kept /\ Orderly /\ [Next]_vars =>
        Inv' /\ Steady' /\ Ledger' /\ Kept'
  BY <1>1, NextInv, NextSteady, NextLedger, NextKept
<1>3. Kept => NoStray
  BY DEF Kept
<1> QED
  BY <1>2, <1>3, InitInv, InitSteady, InitLedger, InitKept, PTL DEF Spec

------------------------------------------------------------------------------
(* No lost reservations *)

\* What the theorem asks beyond that: of a hold that is being confirmed no part is
\* given up without the rest; ...
Whole ==
  \A p \in Proc : pc[p] = "convert" =>
    \A r, s \in RowId :
      /\ << r[1], r[2] >> = req[p].token /\ << s[1], s[2] >> = req[p].token
      /\ resv[s] # Null /\ Hold(resv[r])
      => Hold(resv[s])

\* ... and none is confirmed that a sweep has already found.
Fresh ==
  \A p \in Proc : pc[p] = "sweep" /\ targets[p] # Null =>
    \A r \in targets[p] : ~(Live(resv[r]) /\ resv[r].kind = "booking")

\* A confirmation has a row of its hold for each resource of its team, and its
\* UPDATE finds those that are still held.
Gathered(p) ==
  /\ req[p].op = "confirm" /\ pc[p] \in { "insert", "convert" } =>
       \A x \in team[p] : \E r \in RowId :
         resv[r] # Null /\ << r[1], r[2] >> = req[p].token /\ r[3] = x
  /\ pc[p] = "convert" /\ targets[p] # Null =>
       \A r \in RowId : Hold(resv[r]) /\ resv[r].token = req[p].token => r \in targets[p]

\* The last statements of a request that books or moves have all its team drafted.
Provided(p) ==
  \/ pc[p] = "commit" /\ req[p].op \in { "book", "confirm", "reschedule" }
  \/ pc[p] = "write" /\ req[p].op = "reschedule"
  => \A x \in team[p] : \E r \in RowId :
       resvLock[r] = p /\ Live(resvDraft[r]) /\ resvDraft[r].kind = "booking" /\ r[3] = x

\* p takes booked time only from the appointment it moves or releases.
Takes(p) ==
  \A r \in RowId : resvLock[r] = p /\ Live(resv[r]) /\ resv[r].kind = "booking" =>
    Editing(p) /\ Moves(p) /\ resv[r].appt = req[p].appt

Sound == (\A p \in Proc : Gathered(p) /\ Provided(p) /\ Takes(p)) /\ Backed

LEMMA InitSound == Init => Sound
BY RowAssumption, NullAssumption
   DEF Init, R!Empty, A!Empty, Sound, Gathered, Provided, Takes, Backed, Standing, Blank, Ask

\* A step of p that commits nothing leaves the others their reservations.
LEMMA StepSound ==
  ASSUME Sound, NEW p \in Proc, Gathered(p)', Provided(p)', Takes(p)',
         UNCHANGED << resv, appts >>, Only(p), Private(p)
  PROVE  Sound'
<1>1. ASSUME NEW q \in Proc, q # p
      PROVE  Gathered(q)' /\ Provided(q)' /\ Takes(q)'
  <2>1. /\ pc'[q] = pc[q] /\ req'[q] = req[q]
        /\ team'[q] = team[q] /\ targets'[q] = targets[q]
    BY <1>1 DEF Private
  <2>2. \A r \in RowId : /\ resvLock'[r] = q <=> resvLock[r] = q
                         /\ resvLock[r] = q => resvDraft'[r] = resvDraft[r]
    BY <1>1, NullAssumption DEF Only
  <2>3. Gathered(q)'
    BY <2>1 DEF Sound, Gathered
  <2>4. Provided(q)'
    BY <2>1, <2>2 DEF Sound, Provided
  <2>5. Takes(q)'
    BY <2>1, <2>2 DEF Sound, Takes, Editing, Moves, Releases
  <2> QED
    BY <2>3, <2>4, <2>5
<1>2. Backed'
  BY DEF Sound, Backed, Backing, Standing, Covers
<1> QED
  BY <1>1, <1>2 DEF Sound

\* p does not touch the reservations, except to let them go.
LEMMA QuietSound ==
  ASSUME Sound, NEW p \in Proc, Gathered(p)', Provided(p)',
         UNCHANGED << resv, appts >>, Only(p), Private(p),
         \A r \in RowId : resvLock'[r] = p =>
           /\ resvLock[r] = p
           /\ Editing(p) => Editing(p)'
           /\ req'[p] = req[p]
  PROVE  Sound'
<1>1. Takes(p)'
  <2> SUFFICES ASSUME NEW r \in RowId, resvLock'[r] = p,
                      Live(resv[r]), resv[r].kind = "booking"
               PROVE  Editing(p)' /\ Moves(p)' /\ resv[r].appt = req'[p].appt
    BY DEF Takes
  <2>1. Editing(p) /\ Moves(p) /\ resv[r].appt = req[p].appt
    BY DEF Sound, Takes
  <2> QED
    BY <2>1 DEF Moves, Releases
<1> QED
  BY <1>1, StepSound

LEMMA GiveUpSound ==
  ASSUME Inv, Sound, NEW p \in Proc, NEW reply \in Rest, GiveUp(p, reply)
  PROVE  Sound'
<1>1. /\ UNCHANGED << resv, appts >>
      /\ \A r \in RowId :
           /\ resvLock'[r] = IF resvLock[r] = p THEN Null ELSE resvLock[r]
           /\ resvDraft'[r] = IF resvLock[r] = p THEN Null ELSE resvDraft[r]
      /\ \A a \in ApptId :
           /\ apptsLock'[a] = IF apptsLock[a] = p THEN Null ELSE apptsLock[a]
           /\ apptsDraft'[a] = IF apptsLock[a] = p THEN Null ELSE apptsDraft[a]
  BY DEF GiveUp, R!Rollback, R!Unlock, A!Rollback, A!Unlock
<1>2. Only(p) /\ \A r \in RowId : resvLock'[r] # p
  BY <1>1, NullAssumption DEF Only
<1>3. pc'[p] \in Rest /\ Private(p)
  BY DEF GiveUp, Goto, Forget, Private, Inv, TypeInv, TypeOK
<1>4. Gathered(p)' /\ Provided(p)'
  BY <1>3 DEF Gathered, Provided, Rest
<1> QED
  BY <1>1, <1>2, <1>3, <1>4, QuietSound

LEMMA BeginSound ==
  ASSUME Inv, Sound, NEW p \in Proc, Begin(p)
  PROVE  Sound'
<1>1. PICK op \in Op : pc'[p] = First(op) /\ Private(p)
  <2>1. PICK r \in Requests : req' = [ req EXCEPT ![p] = r ] /\ Goto(p, First(r.op))
    BY DEF Begin
  <2>2. r.op \in Op
    BY <2>1, RequestsTyped DEF Inv, TypeInv
  <2> QED
    BY <2>1, <2>2 DEF Begin, Goto, Private, Inv, TypeInv, TypeOK
<1>2. pc[p] \in Rest /\ UNCHANGED << resvVars, apptVars >>
  BY DEF Begin
<1>3. \A r \in RowId : resvLock'[r] # p
  BY <1>2, NullAssumption DEF resvVars, Inv, TypeInv, Locked
<1>4. Gathered(p)' /\ Provided(p)'
  BY <1>1 DEF Gathered, Provided, First, Op
<1> QED
  BY <1>1, <1>2, <1>3, <1>4, QuietSound DEF resvVars, apptVars, Only

LEMMA LookupSound ==
  ASSUME Inv, Ledger, Kept, Sound, NEW p \in Proc, Lookup(p), ~GiveUp(p, "conflict")
  PROVE  Sound'
<1> DEFINE held == { R!Seen(p, r) : r \in { x \in RowId :
                       /\ Hold(R!Seen(p, x))
                       /\ R!Seen(p, x).token = req[p].token
                       /\ ~Expired(R!Seen(p, x), now[p]) } }
<1>1. PICK t : /\ team' = [ team EXCEPT ![p] = { v.resource : v \in held } ]
               /\ req' = [ req EXCEPT ![p].start = t ]
               /\ Goto(p, "insert")
               /\ UNCHANGED << resvVars, apptVars, now, targets, copy >>
  BY DEF Lookup
<1>2. pc[p] = "lookup"
  BY DEF Lookup
<1>3. \A v \in held : \E r \in RowId : /\ v = resv[r] /\ Hold(resv[r])
                                       /\ resv[r].token = req[p].token
  BY <1>2, NothingYet DEF R!Seen
<1> HIDE DEF held
<1>4. /\ req'[p].token = req[p].token /\ team'[p] = { v.resource : v \in held }
      /\ pc'[p] = "insert" /\ Private(p)
  BY <1>1 DEF Goto, Private, Request, Inv, TypeInv, TypeOK
<1>5. ASSUME NEW x \in team'[p]
      PROVE  \E r \in RowId : resv[r] # Null /\ << r[1], r[2] >> = req[p].token /\ r[3] = x
  <2>1. PICK r \in RowId : /\ x = resv[r].resource /\ Hold(resv[r])
                           /\ resv[r].token = req[p].token
    BY <1>3, <1>4
  <2> QED
    BY <2>1 DEF Kept, Named, Hold, Live
<1>6. Gathered(p)' /\ Provided(p)'
  BY <1>1, <1>4, <1>5 DEF Gathered, Provided, resvVars
<1> QED
  BY <1>1, <1>2, <1>4, <1>6, NothingYet, QuietSound DEF resvVars, apptVars, Only

\* The statements that neither write reservations nor gather a hold.
LEMMA PlainSound ==
  ASSUME Inv, Ledger, Kept, Sound, NEW p \in Proc,
         \/ Replay(p) /\ ~GiveUp(p, "replayed")
         \/ ResolveSlot(p) /\ ~GiveUp(p, "conflict")
         \/ Read(p) /\ ~GiveUp(p, "invalid")
         \/ Find(p)
         \/ Write(p)
  PROVE  Sound'
<1> USE DEF Inv, TypeInv, TypeOK, Goto
<1>1. CASE Replay(p) /\ ~GiveUp(p, "replayed")
  <2>1. /\ pc[p] = "replay" /\ pc'[p] \in { "resolve", "lookup" } /\ Private(p)
        /\ UNCHANGED << resvVars, apptVars >>
    BY <1>1 DEF Replay, Private
  <2>2. Gathered(p)' /\ Provided(p)'
    BY <2>1 DEF Gathered, Provided
  <2> QED
    BY <2>1, <2>2, NothingYet, QuietSound DEF resvVars, apptVars, Only
<1>2. CASE ResolveSlot(p) /\ ~GiveUp(p, "conflict")
  <2>1. /\ pc[p] = "resolve" /\ Private(p)
        /\ pc'[p] = IF req[p].op = "book" THEN "insert" ELSE "purge"
        /\ UNCHANGED << resvVars, apptVars, req >>
    BY <1>2 DEF ResolveSlot, Private
  <2>2. Gathered(p)' /\ Provided(p)' /\ (Editing(p) => Editing(p)')
    BY <2>1 DEF Gathered, Provided, Editing, Rest
  <2> QED
    BY <2>1, <2>2, QuietSound DEF resvVars, apptVars, Only
<1>3. CASE Read(p) /\ ~GiveUp(p, "invalid")
  <2>1. /\ pc[p] = "read" /\ Private(p)
        /\ pc'[p] = IF req[p].op = "reschedule" THEN "release" ELSE "write"
        /\ UNCHANGED << resvVars, apptVars, req >>
    BY <1>3 DEF Read, Private
  <2>2. Gathered(p)' /\ Provided(p)'
    BY <2>1 DEF Gathered, Provided
  <2> QED
    BY <2>1, <2>2, NothingYet, QuietSound DEF resvVars, apptVars, Only
<1>4. CASE Find(p)
  <2>1. /\ pc[p] \in Updates /\ Private(p)
        /\ targets'[p] = { r \in RowId : Matches(p, R!Seen(p, r)) }
        /\ UNCHANGED << resvVars, apptVars, pc, req, team >>
    BY <1>4 DEF Find, Private
  <2>2. Gathered(p)'
    <3>1. ASSUME pc[p] = "convert", NEW r \in RowId,
                 Hold(resv[r]), resv[r].token = req[p].token
          PROVE  r \in targets'[p]
      <4>1. R!Seen(p, r) = resv[r]
        BY <3>1 DEF Kept, Mine, LocksLate, R!Seen
      <4> QED
        BY <2>1, <3>1, <4>1 DEF Matches, OfToken
    <3> QED
      BY <2>1, <3>1 DEF Sound, Gathered, resvVars
  <2>3. Provided(p)' /\ (Editing(p) => Editing(p)')
    BY <2>1 DEF Provided, Editing, Updates
  <2> QED
    BY <2>1, <2>2, <2>3, QuietSound DEF resvVars, apptVars, Only
<1>5. CASE Write(p)
  <2>1. /\ pc[p] = "write" /\ Private(p)
        /\ A!Lockable(p, req[p].appt)
        /\ A!Put(p, { req[p].appt }, [ a \in { req[p].appt } |-> Edited(p) ])
        /\ pc'[p] = IF HandsBack(p) THEN "release" ELSE "commit"
        /\ UNCHANGED << resvVars, req, team >>
    BY <1>5 DEF Write, Private, local
  <2>2. req[p].op \in { "transition", "reschedule", "details" }
    BY <2>1 DEF Shape
  <2>3. Gathered(p)' /\ (Editing(p) => Editing(p)')
    BY <2>1 DEF Gathered, Editing, Rest
  <2>4. Provided(p)'
    BY <2>1, <2>2 DEF Sound, Provided, resvVars
  <2>5. Only(p) /\ UNCHANGED << resv, appts >>
    BY <2>1 DEF Only, A!Lockable, A!Put, resvVars
  <2> QED
    BY <2>1, <2>3, <2>4, <2>5, QuietSound DEF resvVars
<1> QED
  BY <1>1, <1>2, <1>3, <1>4, <1>5

LEMMA InsertSound ==
  ASSUME Inv, Ledger, Kept, Sound, NEW p \in Proc, Insert(p), ~GiveUp(p, "error")
  PROVE  Sound'
<1>1. PICK id, v : /\ pc[p] = "insert" /\ id = << p, serial[p] >>
                   /\ A!Put(p, {id}, v)
                   /\ req' = [ req EXCEPT ![p].appt = id ]
                   /\ \E c : copy' = [ copy EXCEPT ![p] = c ]
                   /\ Goto(p, IF req[p].op = "book" THEN "purge" ELSE "convert")
                   /\ UNCHANGED << resvVars, now, targets, team >>
  BY DEF Insert
<1>2. /\ req'[p].op = req[p].op /\ req'[p].token = req[p].token
      /\ pc'[p] = IF req[p].op = "book" THEN "purge" ELSE "convert"
      /\ Private(p)
  BY <1>1 DEF Goto, Private, Request, Inv, TypeInv, TypeOK
<1>3. req[p].op \in { "book", "confirm" }
  BY <1>1 DEF Inv, TypeInv, Shape
<1>4. targets'[p] = Null /\ \A r \in RowId : resvLock'[r] # p
  BY <1>1, NothingYet DEF resvVars
<1>5. Gathered(p)' /\ Provided(p)'
  BY <1>1, <1>2, <1>3, <1>4 DEF Sound, Gathered, Provided, resvVars
<1>6. id \in ApptId /\ apptsLock[id] = Null
  BY <1>1, NewAppointment
<1>7. Only(p) /\ UNCHANGED << resv, appts >>
  BY <1>1, <1>6 DEF resvVars, Only, A!Put
<1> QED
  BY <1>2, <1>4, <1>5, <1>7, QuietSound

\* The UPDATE of a confirmation converts a row of the hold for each of its team;
\* the others release no booked time but the one they are for.
LEMMA UpdateSound ==
  ASSUME Inv, Kept, Sound, Whole, Fresh, NEW p \in Proc, NEW hit \in SUBSET RowId,
         UpdateStep(p, hit)
  PROVE  Sound'
<1> DEFINE new == [ r \in hit |-> Updated(p, R!Seen(p, r)) ]
<1>1. /\ pc[p] \in Updates /\ targets[p] # Null
      /\ \A r \in targets[p] : StillMatches(p, R!Seen(p, r)) => r \in hit
      /\ \A r \in hit : r \in targets[p] /\ StillMatches(p, R!Seen(p, r))
      /\ \A r \in hit : R!Lockable(p, r) /\ R!Seen(p, r) \in Reservation
      /\ pc[p] = "convert" => hit # {}
      /\ pc[p] = "convert" =>
           \A r \in hit : Hold(R!Seen(p, r)) /\ R!Seen(p, r).token = req[p].token
      /\ R!Put(p, hit, new)
      /\ targets' = [ targets EXCEPT ![p] = Null ]
      /\ Goto(p, Following(p))
      /\ UNCHANGED << apptVars, req, now, team, copy >>
  BY DEF UpdateStep
<1>2. /\ resv' = resv
      /\ \A r \in RowId :
           /\ resvLock'[r] = IF r \in hit THEN p ELSE resvLock[r]
           /\ resvDraft'[r] = IF r \in hit THEN Updated(p, R!Seen(p, r)) ELSE resvDraft[r]
  <2>1. \A r \in hit : new[r] = Updated(p, R!Seen(p, r))
    OBVIOUS
  <2> HIDE DEF new
  <2> QED
    BY <1>1, <2>1 DEF R!Put
<1> HIDE DEF new
<1>3. pc'[p] = Following(p) /\ targets'[p] = Null /\ Private(p)
  BY <1>1 DEF Goto, Private, Inv, TypeInv, TypeOK
<1>4. /\ pc[p] = "purge" => req[p].op \in { "hold", "book", "reschedule" }
      /\ pc[p] = "convert" => req[p].op = "confirm"
      /\ pc[p] = "release" => req[p].op \in { "transition", "reschedule" }
      /\ pc[p] \in { "drop", "sweep" } => req[p].op = pc[p]
  BY DEF Inv, TypeInv, Shape, Kept, Mine, AtWork
<1>5. /\ pc[p] = "purge" => pc'[p] = "reserve"
      /\ pc[p] = "release" =>
           pc'[p] = IF req[p].op = "reschedule" THEN "resolve" ELSE "commit"
      /\ pc[p] \in { "convert", "drop", "sweep" } => pc'[p] = "commit"
  BY <1>3 DEF Following
<1>6. pc[p] \in { "purge", "convert", "release", "drop", "sweep" }
  BY <1>1 DEF Updates
<1>7. Gathered(p)'
  BY <1>1, <1>5, <1>6 DEF Gathered
<1>8. ASSUME pc[p] = "convert", NEW x \in team[p]
      PROVE  \E r \in RowId : /\ resvLock'[r] = p /\ Live(resvDraft'[r])
                              /\ resvDraft'[r].kind = "booking" /\ r[3] = x
  <2>1. \A r \in RowId : R!Seen(p, r) = resv[r]
    BY <1>8, NullAssumption DEF Kept, Mine, LocksLate, R!Seen
  <2>2. PICK r0 \in hit : Hold(resv[r0]) /\ resv[r0].token = req[p].token
    BY <1>1, <1>8, <2>1
  <2>3. << r0[1], r0[2] >> = req[p].token
    BY <2>2 DEF Kept, Named, Hold, Live
  <2>4. PICK r \in RowId : resv[r] # Null /\ << r[1], r[2] >> = req[p].token /\ r[3] = x
    BY <1>4, <1>8 DEF Sound, Gathered
  <2>5. Hold(resv[r])
    BY <1>8, <2>2, <2>3, <2>4 DEF Whole
  <2>6. resv[r].token = req[p].token
    BY <2>4, <2>5 DEF Kept, Named
  <2>7. r \in targets[p]
    BY <1>1, <1>8, <2>5, <2>6 DEF Sound, Gathered
  <2>8. r \in hit
    BY <1>1, <1>8, <2>1, <2>5, <2>6, <2>7 DEF StillMatches, Matches, OfToken
  <2>9. resv[r] \in Reservation /\ resvDraft'[r] = Updated(p, resv[r]) /\ resvLock'[r] = p
    BY <1>1, <1>2, <2>1, <2>8
  <2>10. Updated(p, resv[r]).kind = "booking" /\ ~Updated(p, resv[r]).released
    BY <1>8, <2>5, <2>9 DEF Updated, Reservation, Hold, Live
  <2>11. Updated(p, resv[r]) # Null
    BY <1>1, <2>9, UpdatedRow, RowAssumption DEF Inv
  <2> QED
    BY <2>4, <2>9, <2>10, <2>11 DEF Live
<1>9. Provided(p)'
  <2>1. pc'[p] # "write"
    BY <1>5, <1>6
  <2>2. pc'[p] = "commit" /\ req[p].op \in { "book", "confirm", "reschedule" }
          => pc[p] = "convert"
    BY <1>4, <1>5, <1>6
  <2> QED
    BY <1>1, <1>8, <2>1, <2>2 DEF Provided
<1>10. Editing(p)' = Editing(p) /\ Moves(p)' = Moves(p)
  BY <1>1, <1>5, <1>6 DEF Editing, Moves, Releases, Rest
<1>11. ASSUME NEW r \in hit, resvLock[r] # p, Live(resv[r]), resv[r].kind = "booking"
       PROVE  Editing(p) /\ Moves(p) /\ resv[r].appt = req[p].appt
  <2>1. StillMatches(p, resv[r]) /\ ~Hold(resv[r]) /\ r \in targets[p]
    BY <1>1, <1>11 DEF R!Seen, Hold
  <2>2. pc[p] # "sweep"
    BY <1>1, <1>11, <2>1 DEF Fresh
  <2>3. pc[p] = "release" /\ resv[r].appt = req[p].appt
    BY <1>6, <2>1, <2>2
    DEF StillMatches, Matches, Purged, OfToken, OfAppointment, Expired
  <2>4. Editing(p)
    BY <1>4, <2>3 DEF Editing, Rest
  <2> QED
    BY <2>3, <2>4 DEF Kept, Mine, Copied
<1>12. Takes(p)'
  BY <1>1, <1>2, <1>10, <1>11 DEF Sound, Takes
<1>13. Only(p) /\ UNCHANGED << resv, appts >>
  BY <1>1, <1>2 DEF Only, R!Lockable, apptVars
<1> QED
  BY <1>3, <1>7, <1>9, <1>12, <1>13, StepSound

\* A reserve has a row for each of its team.
LEMMA ReserveSound ==
  ASSUME Inv, Kept, Sound, NEW p \in Proc, ReserveStep(p)
  PROVE  Sound'
<1> DEFINE ids == DOMAIN NewRows(p)
<1>1. /\ pc[p] = "reserve"
      /\ R!Put(p, ids, NewRows(p))
      /\ Goto(p, IF req[p].op = "reschedule" THEN "write" ELSE "commit")
      /\ UNCHANGED << apptVars, req, now, targets, team, copy >>
  BY DEF ReserveStep, local
<1>2. /\ ids \subseteq RowId
      /\ \A r \in ids : /\ R!Lockable(p, r) /\ resv[r] = Null
                        /\ NewRows(p)[r] \in Reservation
  BY <1>1, NewRowsTyped, NewRowsLockable DEF Inv
<1>3. /\ pc'[p] = IF req[p].op = "reschedule" THEN "write" ELSE "commit"
      /\ Private(p)
  BY <1>1 DEF Goto, Private, Inv, TypeInv, TypeOK
<1>4. ASSUME NEW x \in team[p], req[p].op # "hold"
      PROVE  \E r \in ids : /\ r[3] = x /\ Live(NewRows(p)[r])
                            /\ NewRows(p)[r].kind = "booking"
  <2> DEFINE id == << p, serial[p], x >>
  <2>1. ids = { << p, serial[p], y >> : y \in team[p] }
    BY DEF NewRows
  <2>2. id \in ids /\ id[3] = x
    BY <2>1
  <2>3. NewRows(p)[id].kind = "booking" /\ ~NewRows(p)[id].released
    BY <1>4, <2>2 DEF NewRows
  <2> HIDE DEF id
  <2> QED
    BY <1>2, <2>2, <2>3, RowAssumption DEF Live
<1>5. /\ resv' = resv
      /\ \A r \in RowId :
           /\ resvLock'[r] = IF r \in ids THEN p ELSE resvLock[r]
           /\ resvDraft'[r] = IF r \in ids THEN NewRows(p)[r] ELSE resvDraft[r]
  BY <1>1 DEF R!Put
<1> HIDE DEF ids
<1>6. Gathered(p)'
  BY <1>3 DEF Gathered
<1>7. Provided(p)'
  <2>1. ASSUME NEW x \in team[p], req[p].op # "hold"
        PROVE  \E r \in RowId : /\ resvLock'[r] = p /\ Live(resvDraft'[r])
                                /\ resvDraft'[r].kind = "booking" /\ r[3] = x
    <3>1. PICK r \in ids : /\ r[3] = x /\ Live(NewRows(p)[r])
                           /\ NewRows(p)[r].kind = "booking"
      BY <1>4, <2>1
    <3> QED
      BY <1>2, <1>5, <3>1
  <2> QED
    BY <1>1, <2>1 DEF Provided
<1>8. Takes(p)'
  <2>1. Editing(p)' = Editing(p) /\ Moves(p)' = Moves(p)
    BY <1>1, <1>3 DEF Editing, Moves, Releases, Rest
  <2> QED
    BY <1>1, <1>2, <1>5, <2>1 DEF Sound, Takes, Live
<1>9. Only(p) /\ UNCHANGED << resv, appts >>
  BY <1>1, <1>2, <1>5 DEF Only, R!Lockable, apptVars
<1> QED
  BY <1>3, <1>6, <1>7, <1>8, <1>9, StepSound

\* A commit of p leaves the others their reservations.
LEMMA CommitOthersSound ==
  ASSUME Inv, Kept, Steady, Sound, NEW p \in Proc, Commit(p), NEW q \in Proc, q # p
  PROVE  Gathered(q)' /\ Provided(q)' /\ Takes(q)'
<1>1. \A r \in RowId :
        /\ resv'[r] = IF resvLock[r] = p THEN resvDraft[r] ELSE resv[r]
        /\ resvLock'[r] = q <=> resvLock[r] = q
        /\ resvLock[r] = q => resvDraft'[r] = resvDraft[r] /\ resv'[r] = resv[r]
  BY CommitTables, NullAssumption
<1>2. /\ pc'[q] = pc[q] /\ req'[q] = req[q]
      /\ team'[q] = team[q] /\ targets'[q] = targets[q]
  BY CommitTables DEF Private
<1>3. Gathered(q)'
  <2>1. \A r \in RowId : resv[r] # Null => resv'[r] # Null
    BY <1>1, OldOnes
  <2>2. ASSUME pc[q] = "convert", NEW r \in RowId,
               Hold(resv'[r]), resv'[r].token = req[q].token
        PROVE  resv'[r] = resv[r]
    <3>1. req[q].op = "confirm"
      BY <2>2 DEF Inv, TypeInv, Shape
    <3> QED
      BY <2>2, <3>1, HeldAsBefore
  <2> QED
    BY <1>2, <2>1, <2>2 DEF Sound, Gathered
<1>4. Provided(q)'
  BY <1>1, <1>2 DEF Sound, Provided
<1>5. Takes(q)'
  BY <1>1, <1>2 DEF Sound, Takes, Editing, Moves, Releases
<1> QED
  BY <1>3, <1>4, <1>5

\* What p books or moves it has the rows for.
LEMMA PlacedBacked ==
  ASSUME Inv, Kept, Steady, Sound, NEW p \in Proc, Commit(p), Named', NEW a \in ApptId,
         a = req[p].appt, req[p].op \in { "book", "confirm", "reschedule" },
         apptsLock[a] = p, Placed(p, apptsDraft[a]), NEW x \in apptsDraft[a].team
  PROVE  Backing(a, x)' # {}
<1>1. pc[p] = "commit" /\ appts'[a] = apptsDraft[a]
  BY CommitTables
<1>2. x \in team[p]
  BY DEF Placed
<1>3. PICK r \in RowId : /\ resvLock[r] = p /\ Live(resvDraft[r])
                         /\ resvDraft[r].kind = "booking" /\ r[3] = x
  BY <1>1, <1>2 DEF Sound, Provided
<1>4. resv'[r] = resvDraft[r]
  BY <1>3, CommitTables
<1>5. resvDraft[r].appt = a /\ Room(p, resvDraft[r].window)
  BY <1>1, <1>3, BookedOnes
<1>6. resv'[r].resource = x
  BY <1>3, <1>4 DEF Named, Live
<1>7. /\ resv'[r].window.start <= appts'[a].start
      /\ appts'[a].end <= resv'[r].window.end
  BY <1>1, <1>4, <1>5 DEF Room, Placed
<1> QED
  BY <1>3, <1>4, <1>5, <1>6, <1>7 DEF Backing, Covers

\* What p does not take stays where it was.
LEMMA LeftBacked ==
  ASSUME Kept, Sound, NEW p \in Proc, Commit(p), Inv, NEW a \in ApptId, Standing(a),
         Stays(appts'[a], a), NEW x \in appts[a].team,
         ~(Editing(p) /\ Moves(p) /\ req[p].appt = a)
  PROVE  Backing(a, x)' # {}
<1>1. PICK r \in Backing(a, x) : TRUE
  BY DEF Sound, Backed
<1>2. /\ r \in RowId /\ Live(resv[r]) /\ resv[r].kind = "booking" /\ resv[r].appt = a
      /\ resv[r].resource = x /\ Covers(resv[r].window, a)
  BY DEF Backing
<1>3. resv'[r] = resv[r]
  BY <1>2, CommitTables DEF Sound, Takes
<1>4. /\ resv'[r].window.start <= appts'[a].start
      /\ appts'[a].end <= resv'[r].window.end
  BY <1>2, <1>3 DEF Covers, Stays
<1> QED
  BY <1>2, <1>3, <1>4 DEF Backing, Covers

LEMMA CommitBacked ==
  ASSUME Inv, Ledger, Kept, Steady, Sound, NEW p \in Proc, Commit(p)
  PROVE  Backed'
<1> SUFFICES ASSUME NEW a \in ApptId, appts'[a] # Null, Occupies(appts'[a].status),
                    NEW x \in appts'[a].team
             PROVE  Backing(a, x)' # {}
  BY DEF Backed, Standing
<1>1. pc[p] = "commit" /\ Mine(p) /\ Named'
  BY CommitTables, CommitNamed DEF Kept
<1>2. appts'[a] = IF apptsLock[a] = p THEN apptsDraft[a] ELSE appts[a]
  BY CommitTables
<1>3. CASE apptsLock[a] # p
  <2>1. appts'[a] = appts[a] /\ Standing(a)
    BY <1>2, <1>3 DEF Standing
  <2>2. ~(Editing(p) /\ Moves(p) /\ req[p].appt = a)
    BY <1>1, <1>3 DEF Mine, Edit, Wrote
  <2> QED
    BY <2>1, <2>2, LeftBacked DEF Stays
<1>4. CASE apptsLock[a] = p /\ appts[a] = Null
  <2>1. a[1] = p /\ a[2] = serial[p] /\ req[p].op \in { "book", "confirm" }
    BY <1>4, NullAssumption DEF Ledger, Filed
  <2>2. /\ req[p].appt \in ApptId /\ appts[req[p].appt] = Null
        /\ apptsLock[req[p].appt] = p /\ Placed(p, apptsDraft[req[p].appt])
    BY <1>1, <2>1 DEF Mine, Inserted
  <2>3. PICK b \in ApptId : b = req[p].appt /\ appts[b] = Null /\ apptsLock[b] = p
    BY <2>2
  <2>4. b[1] = p /\ b[2] = serial[p]
    BY <2>3, NullAssumption DEF Ledger, Filed
  <2>5. a = req[p].appt
    BY <2>1, <2>3, <2>4, ApptIds
  <2> QED
    BY <1>1, <1>2, <1>4, <2>1, <2>2, <2>5, PlacedBacked
<1>5. CASE apptsLock[a] = p /\ appts[a] # Null
  <2>1. /\ Editing(p) /\ req[p].appt = a /\ Faithful(p, apptsDraft[a], appts[a])
    BY <1>5, NullAssumption DEF Ledger, Written
  <2>2. ~Releases(p)
    BY <1>1, <1>2, <1>5 DEF Mine, Edit, Over
  <2>3. CASE req[p].op = "reschedule"
    <3>1. Placed(p, apptsDraft[a])
      BY <1>1, <1>5, <2>3 DEF Mine, Edit
    <3> QED
      BY <1>1, <1>2, <1>5, <2>1, <2>3, <3>1, PlacedBacked
  <2>4. CASE req[p].op # "reschedule"
    <3>1. ~Moves(p)
      BY <2>2, <2>4 DEF Moves
    <3>2. Stays(appts'[a], a)
      BY <1>1, <1>2, <1>5, <3>1 DEF Mine, Edit
    <3>3. Standing(a)
      BY <1>2, <1>5, <2>1 DEF Faithful, Over, Standing
    <3> QED
      BY <3>1, <3>2, <3>3, LeftBacked DEF Stays
  <2> QED
    BY <2>3, <2>4
<1> QED
  BY <1>3, <1>4, <1>5

LEMMA CommitSound ==
  ASSUME Inv, Ledger, Kept, Steady, Sound, NEW p \in Proc, Commit(p)
  PROVE  Sound'
<1>1. pc'[p] \in Rest /\ \A r \in RowId : resvLock'[r] # p
  BY CommitTables, NullAssumption
<1>2. Gathered(p)' /\ Provided(p)' /\ Takes(p)'
  BY <1>1 DEF Gathered, Provided, Takes, Rest
<1> QED
  BY <1>2, CommitOthersSound, CommitBacked DEF Sound

LEMMA NextSound ==
  Inv /\ Steady /\ Ledger /\ Kept /\ Sound /\ Whole /\ Fresh /\ [Next]_vars => Sound'
<1> SUFFICES ASSUME Inv, Steady, Ledger, Kept, Sound, Whole, Fresh, [Next]_vars
             PROVE  Sound'
  OBVIOUS
<1>1. ASSUME NEW p \in Proc, NEW reply \in Rest, GiveUp(p, reply) PROVE Sound'
  BY <1>1, GiveUpSound
<1>2. "replayed" \in Rest /\ "conflict" \in Rest /\ "invalid" \in Rest
      /\ "error" \in Rest /\ "idle" \in Rest
  BY DEF Rest
<1>3. ASSUME NEW p \in Proc, Begin(p) PROVE Sound'
  BY <1>3, BeginSound
<1>4. ASSUME NEW p \in Proc,
             Replay(p) \/ ResolveSlot(p) \/ Read(p) \/ Find(p) \/ Write(p)
      PROVE  Sound'
  BY <1>1, <1>2, <1>4, PlainSound
<1>5. ASSUME NEW p \in Proc, Lookup(p) \/ Insert(p) PROVE Sound'
  BY <1>1, <1>2, <1>5, LookupSound, InsertSound
<1>6. ASSUME NEW p \in Proc, Update(p) PROVE Sound'
  BY <1>1, <1>2, <1>6, UpdateCases, UpdateSound DEF Inv
<1>7. ASSUME NEW p \in Proc, Reserve(p) PROVE Sound'
  BY <1>1, <1>2, <1>7, ReserveCases, ReserveSound
<1>8. ASSUME NEW p \in Proc, Commit(p) PROVE Sound'
  BY <1>8, CommitSound
<1>9. ASSUME NEW p \in Proc, Deadlock(p) \/ Crash(p) PROVE Sound'
  BY <1>1, <1>2, <1>9 DEF Deadlock, Crash
<1>10. CASE Tick \/ UNCHANGED vars
  <2>1. UNCHANGED << resvVars, apptVars, pc, local >>
    BY <1>10 DEF Tick, vars
  <2> QED
    BY <2>1
    DEF resvVars, apptVars, local, Sound, Gathered, Provided, Takes, Editing, Moves,
        Releases, Backed, Backing, Standing, Covers
<1> QED
  BY <1>3, <1>4, <1>5, <1>6, <1>7, <1>8, <1>9, <1>10 DEF Next, Statement, Done

LEMMA SoundAlways == Spec /\ []Orderly /\ []Whole /\ []Fresh => []Inv /\ []Sound
<1>1. Orderly => Undisturbed
  BY DEF Orderly, Unhurried, Undisturbed, Moves
<1>2. Inv /\ Steady /\ Ledger /\ Kept /\ Sound /\ Orderly /\ Whole /\ Fresh /\ [Next]_vars
        => Inv' /\ Steady' /\ Ledger' /\ Kept' /\ Sound'
  BY <1>1, NextInv, NextSteady, NextLedger, NextKept, NextSound
<1> QED
  BY <1>2, InitInv, InitSteady, InitLedger, InitKept, InitSound, PTL DEF Spec

\* No customer loses their time: an appointment that occupies its slot has every
\* resource of its team reserved around its hour, for any number of processes,
\* services and requests, under the conditions of NothingStrays and if no part of
\* a hold lapses while the hold is being confirmed.
THEOREM BookingsAreBacked == Spec /\ []Orderly /\ []Whole /\ []Fresh => []Backed
<1>1. Sound => Backed
  BY DEF Sound
<1> QED
  BY <1>1, SoundAlways, PTL

\* Two such appointments never share a resource at the same time: their
\* reservations would clash.
LEMMA BackedApart == Inv /\ Backed => NoDoubleBooking
<1> SUFFICES ASSUME Inv, Backed PROVE NoDoubleBooking
  OBVIOUS
<1> SUFFICES ASSUME NEW a \in ApptId, NEW b \in ApptId, a # b,
                    Standing(a), Standing(b), Overlaps(appts[a], appts[b]),
                    NEW x \in Resource, x \in appts[a].team, x \in appts[b].team
             PROVE  FALSE
  <2>1. ASSUME NEW c \in ApptId, Standing(c) PROVE appts[c].team \subseteq Resource
    <3>1. appts[c] \in Appointment
      BY <2>1 DEF Standing, Inv, TypeInv, TypeOK
    <3> QED
      BY <3>1 DEF Appointment
  <2> QED
    BY <2>1 DEF NoDoubleBooking
<1>1. PICK r \in Backing(a, x), s \in Backing(b, x) : TRUE
  BY DEF Backed
<1>2. /\ r \in RowId /\ Live(resv[r]) /\ resv[r].appt = a /\ resv[r].resource = x
      /\ resv[r].window.start <= appts[a].start /\ appts[a].end <= resv[r].window.end
      /\ s \in RowId /\ Live(resv[s]) /\ resv[s].appt = b /\ resv[s].resource = x
      /\ resv[s].window.start <= appts[b].start /\ appts[b].end <= resv[s].window.end
  BY DEF Backing, Covers
<1>3. /\ resv[r].window.start \in Int /\ resv[r].window.end \in Int
      /\ resv[s].window.start \in Int /\ resv[s].window.end \in Int
      /\ appts[a].start \in Int /\ appts[a].end \in Int
      /\ appts[b].start \in Int /\ appts[b].end \in Int
  <2>1. resv[r] \in Reservation /\ resv[s] \in Reservation
    BY <1>2 DEF Live, Inv, TypeInv, TypeOK
  <2>2. appts[a] \in Appointment /\ appts[b] \in Appointment
    BY DEF Standing, Inv, TypeInv, TypeOK
  <2> QED
    BY <2>1, <2>2 DEF Reservation, Interval, Appointment
<1>4. Overlaps(resv[r].window, resv[s].window)
  BY <1>2, <1>3 DEF Overlaps
<1> QED
  BY <1>2, <1>4 DEF Clash, Inv, Apart

\* No two customers are promised the same resource at the same time, under the
\* conditions of BookingsAreBacked.
THEOREM NobodyIsDoubleBooked ==
  Spec /\ []Orderly /\ []Whole /\ []Fresh => []NoDoubleBooking
<1>1. Inv /\ Sound => NoDoubleBooking
  BY BackedApart DEF Sound
<1> QED
  BY <1>1, SoundAlways, PTL

==============================================================================
