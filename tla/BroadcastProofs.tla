---------------------------- MODULE BroadcastProofs ----------------------------
(***************************************************************************)
(* Type correctness of the campaign, that every message a contact receives *)
(* has a cause of its own, that a campaign which a sender completes has    *)
(* attempted everyone, and that it claims no message nobody received.      *)
(***************************************************************************)
EXTENDS Broadcast, FiniteSetTheorems, TLAPS

\* What each process has in its memory at each stage.
Stages ==
  /\ \A w \in Worker : pc[w] \in { "idle", "load", "claim", "send", "count", "save", "commit" }
  /\ \A d \in Desk : /\ pc[d] \in { "idle", "reset", "count", "save", "commit" }
                     /\ pc[d] = "reset" => op[d] = "retry"
  /\ \A h \in Hook :
       /\ pc[h] \in { "idle", "fetch", "reread", "flush", "count", "save", "commit" }
       /\ pc[h] # "idle" => /\ news[h] \in [ to : Contact, as : Receipts \cup {"replied"} ]
                            /\ rows[news[h].to] # Null
       /\ pc[h] \in { "reread", "flush" } => mine[h] \in Row /\ mine[h].status # "pending"
       /\ pc[h] = "flush" => base[h] \in Row
  /\ \A s \in Session :
       /\ pc[s] \in { "claim", "send", "reset", "count", "save", "commit" } => copy[s] \in Campaign
       /\ pc[s] = "commit" => base[s] \in Campaign

\* What a lock implies; a sender has one at most.
Locks ==
  /\ \A r \in Contact : lock[r] # Null => /\ draft[r] \in Row
                                          /\ pc[lock[r]] \in { "send", "count", "save", "commit" }
  /\ \A q, r \in Contact : lock[q] \in Worker /\ lock[q] = lock[r] => q = r

Shape == Stages /\ Locks

\* The versions of a row from which a sender may message the contact.
Waiting(v) == v = Null \/ v.status = "pending"

\* The contacts whose message is out and not recorded.
InFlight(r) == lock[r] \in Worker /\ pc[lock[r]] \in { "save", "commit" }

\* A contact who waits, and whose message is not in flight, is owed one; and
\* what each session is about to commit leaves it so.
OwedAt(r) ==
  /\ Waiting(rows[r]) /\ ~InFlight(r) => told[r] < due[r]
  /\ lock[r] \in Worker => Waiting(rows[r]) /\ pc[lock[r]] # "count"
  /\ InFlight(r) => ~Waiting(draft[r])
  /\ lock[r] \in Hook /\ Waiting(draft[r]) => Waiting(rows[r])
  /\ lock[r] \in Desk => op[lock[r]] = "retry" \/ Waiting(rows[r])

Owed == \A r \in Contact : OwedAt(r)

Inv == TypeOK /\ Shape /\ Owed /\ MessagedOnce

LEMMA Statuses == DOMAIN Rank = { "pending", "sent", "delivered", "read", "replied", "failed" }
  BY DEF Rank

LEMMA CardinalityOfContacts ==
  \A S \in SUBSET Contact : Cardinality(S) \in Nat
  BY ConstantAssumption, FS_Subset, FS_CardinalityType

LEMMA InitInv == Init => Inv
<1> SUFFICES ASSUME Init PROVE Inv
  OBVIOUS
<1> USE NullAssumption, ConstantAssumption
<1>1. Fresh \in Row
  BY DEF Fresh, Row, Rank
<1>2. campaign \in Campaign
  BY CardinalityOfContacts DEF Init, Campaign
<1>3. TypeOK
  <2>1. rows \in [ Contact -> Row \cup {Null} ]
    BY <1>1 DEF Init
  <2>2. pc \in [ Session -> { "idle" } ] /\ lock \in [ Contact -> {Null} ]
    BY DEF Init
  <2>3. /\ told \in [ Contact -> Nat ] /\ due \in [ Contact -> Nat ]
        /\ asked \in [ Desk \cup Hook -> Nat ] /\ runs \in Nat /\ faults \in 0..MaxFaults
    BY DEF Init
  <2> QED
    BY <1>2, <2>1, <2>2, <2>3 DEF Init, TypeOK
<1>4. Shape
  BY DEF Init, Shape, Stages, Locks, Session
<1>5. Owed /\ MessagedOnce
  BY DEF Init, Owed, OwedAt, MessagedOnce, Waiting, InFlight, Fresh, Session
<1> QED
  BY <1>3, <1>4, <1>5 DEF Inv

------------------------------------------------------------------------------
(* What the operators return *)

LEMMA MergedCampaign ==
  ASSUME NEW v \in Campaign, NEW b \in Campaign, NEW c \in Campaign
  PROVE  Merged(v, b, c) \in Campaign
  BY DEF Merged, Campaign

LEMMA MergedRow ==
  ASSUME NEW v \in Row, NEW b \in Row, NEW c \in Row, c.status # "pending"
  PROVE  /\ Merged(v, b, c) \in Row
         /\ Merged(v, b, c).status = "pending" => v.status = "pending"
  BY DEF Merged, Row

LEMMA EntityType ==
  ASSUME NEW c \in Campaign, NEW list, DOMAIN list \subseteq Contact, NEW ok \in BOOLEAN
  PROVE  /\ Started(c) \in Campaign
         /\ Paused(c) \in Campaign
         /\ Completed(c) \in Campaign
         /\ Recounted(c, list) \in Campaign
         /\ Recorded(c, ok) \in Campaign
<1>1. Started(c) \in Campaign /\ Paused(c) \in Campaign /\ Completed(c) \in Campaign
  BY DEF Started, Paused, Completed, Campaign
<1>2. Recorded(c, ok) \in Campaign
  BY DEF Recorded, Campaign
<1>3. Recounted(c, list) \in Campaign
  <2> DEFINE Sent == { r \in DOMAIN list :
                         list[r].status # "failed" /\ Rank[list[r].status] >= Rank["sent"] }
             Failed == { r \in DOMAIN list : list[r].status = "failed" }
  <2>1. Sent \in SUBSET Contact /\ Failed \in SUBSET Contact /\ DOMAIN list \in SUBSET Contact
    OBVIOUS
  <2>2. /\ Cardinality(Sent) \in Nat /\ Cardinality(Failed) \in Nat
        /\ Cardinality(DOMAIN list) \in Nat
    BY <2>1, CardinalityOfContacts
  <2>3. Recounted(c, list) = [ c EXCEPT !.total = Cardinality(DOMAIN list),
                                        !.sent = Cardinality(Sent),
                                        !.failed = Cardinality(Failed) ]
    BY DEF Recounted
  <2> HIDE DEF Sent, Failed
  <2> QED
    BY <2>2, <2>3 DEF Campaign
<1> QED
  BY <1>1, <1>2, <1>3

LEMMA RecipientType ==
  ASSUME NEW v \in Row, NEW n \in Nat, NEW status \in Receipts \cup {"replied"}
  PROVE  /\ MarkedSent(v, n) \in Row /\ ~Waiting(MarkedSent(v, n))
         /\ MarkedFailed(v) \in Row /\ ~Waiting(MarkedFailed(v))
         /\ Advanced(v, status) \in Row
<1>1. MarkedSent(v, n) \in Row /\ MarkedSent(v, n).status # "pending"
  BY Statuses DEF MarkedSent, Row
<1>2. MarkedFailed(v) \in Row /\ MarkedFailed(v).status # "pending"
  <2>1. "failed" \in DOMAIN Rank
    BY Statuses
  <2>2. v.attempts + 1 \in Nat
    BY DEF Row
  <2> QED
    BY <2>1, <2>2 DEF MarkedFailed, Row
<1>3. status \in DOMAIN Rank
  BY Statuses, ConstantAssumption
<1>4. Advanced(v, status) \in Row
  BY <1>3 DEF Advanced, Row
<1> QED
  BY <1>1, <1>2, <1>4, NullAssumption DEF Waiting

------------------------------------------------------------------------------
(* The steps *)

\* A step that writes no recipient and moves no sender into or out of flight
\* leaves everyone owed what they were.
LEMMA OwedKept ==
  ASSUME Inv, UNCHANGED << rows, draft, lock, told, due >>,
         \A r \in Contact : lock[r] \in Worker =>
            /\ pc'[lock[r]] # "count"
            /\ pc'[lock[r]] \in { "save", "commit" } <=> pc[lock[r]] \in { "save", "commit" },
         \A r \in Contact : lock[r] \in Desk => op'[lock[r]] = op[lock[r]]
  PROVE  Owed' /\ MessagedOnce'
  BY DEF Inv, Owed, OwedAt, InFlight, Waiting, MessagedOnce

\* The same for one contact whose row session s neither has nor takes.
LEMMA OwedFrame ==
  ASSUME Inv, NEW s \in Session, NEW q \in Contact, lock[q] # s,
         rows'[q] = rows[q], draft'[q] = draft[q], lock'[q] = lock[q],
         told'[q] = told[q], due'[q] = due[q],
         \A p \in Session \ {s} : pc'[p] = pc[p],
         \A p \in Desk \ {s} : op'[p] = op[p]
  PROVE  OwedAt(q)' /\ told'[q] <= due'[q]
<1>1. lock[q] \in Worker \cup Hook \cup Desk => pc'[lock[q]] = pc[lock[q]]
  BY DEF Session
<1>2. lock[q] \in Desk => op'[lock[q]] = op[lock[q]]
  OBVIOUS
<1>3. OwedAt(q) /\ told[q] <= due[q]
  BY DEF Inv, Owed, MessagedOnce
<1>4. InFlight(q)' <=> InFlight(q)
  BY <1>1 DEF InFlight
<1> QED
  BY <1>1, <1>2, <1>3, <1>4 DEF OwedAt, Waiting

\* A process that begins its work has no row.
LEMMA NoneHeld ==
  ASSUME Inv, NEW s \in Session, pc[s] \notin { "send", "count", "save", "commit" }
  PROVE  \A q \in Contact : lock[q] # s
  BY NullAssumption DEF Inv, Shape, Stages, Locks, TypeOK, Session

\* What the shared stages, and those of the senders, do to the invariant.
LEMMA SharedStep ==
  ASSUME Inv, NEW s \in Session, Count(s) \/ Save(s)
  PROVE  Inv'
<1> USE NullAssumption, ConstantAssumption
<1>1. ASSUME Count(s) PROVE Inv'
  <2>0. copy[s] \in Campaign /\ copy'[s] \in Campaign
    <3>1. copy[s] \in Campaign
      BY <1>1 DEF Count, Inv, Shape, Stages, Locks
    <3>2. DOMAIN List(s) \subseteq Contact
      BY DEF List
    <3> DEFINE counted == Recounted(copy[s], List(s))
    <3>3. counted \in Campaign
      BY <3>1, <3>2, EntityType
    <3>4. Completed(counted) \in Campaign
      BY <3>2, <3>3, EntityType
    <3>5. copy'[s] \in { counted, Completed(counted) }
      BY <1>1 DEF Count, Inv, TypeOK
    <3> QED
      BY <3>1, <3>3, <3>4, <3>5
  <2>1. TypeOK'
    BY <1>1, <2>0 DEF Count, Inv, TypeOK, Goto, table, past
  <2>2. Shape'
    BY <1>1, <2>0 DEF Count, Inv, TypeOK, Shape, Stages, Locks, Goto, table, past, Session
  <2>3. Owed' /\ MessagedOnce'
    BY <1>1, OwedKept DEF Count, Inv, TypeOK, Shape, Stages, Locks, Owed, OwedAt, Goto, table, past
  <2> QED
    BY <2>1, <2>2, <2>3 DEF Inv
<1>2. ASSUME Save(s) PROVE Inv'
  <2>1. TypeOK'
    BY <1>2 DEF Save, Inv, TypeOK, Goto, table, past
  <2>2. Shape'
    BY <1>2 DEF Save, Inv, TypeOK, Shape, Stages, Locks, Goto, table, past, Session
  <2>3. Owed' /\ MessagedOnce'
    BY <1>2, OwedKept DEF Save, Inv, TypeOK, Shape, Stages, Locks, Owed, OwedAt, Goto, table, past
  <2> QED
    BY <2>1, <2>2, <2>3 DEF Inv
<1> QED
  BY <1>1, <1>2

\* A commit: the campaign and the rows are of their type, ...
LEMMA CommitType ==
  ASSUME Inv, NEW s \in Session, Committed(s)
  PROVE  /\ campaign' \in Campaign
         /\ rows' \in [ Contact -> Row \cup {Null} ]
         /\ draft' \in [ Contact -> Row \cup {Null} ]
         /\ lock' \in [ Contact -> Session \cup {Null} ]
         /\ copy' \in [ Session -> Campaign \cup {Null} ]
         /\ base' \in [ Session -> Campaign \cup Row \cup {Null} ]
<1>1. campaign \in Campaign /\ base[s] \in Campaign /\ copy[s] \in Campaign
  BY DEF Committed, Inv, TypeOK, Shape, Stages, Locks
<1>2. campaign' \in Campaign
  BY <1>1, MergedCampaign DEF Committed
<1>3. \A r \in Contact : lock[r] = s => draft[r] \in Row
  BY NullAssumption DEF Inv, Shape, Stages, Locks
<1> QED
  BY <1>2, <1>3 DEF Committed, Inv, TypeOK, Forget, R!Commit, R!Unlock

\* ... the locks of s are gone, and nothing of another session has changed.
LEMMA CommitRows ==
  ASSUME Inv, NEW s \in Session, Committed(s)
  PROVE  /\ \A r \in Contact : lock[r] = s =>
              rows'[r] = draft[r] /\ draft[r] \in Row /\ lock'[r] = Null
         /\ \A r \in Contact : lock[r] # s =>
              rows'[r] = rows[r] /\ draft'[r] = draft[r] /\ lock'[r] = lock[r]
         /\ \A q \in Session \ {s} : copy'[q] = copy[q] /\ base'[q] = base[q]
  BY NullAssumption DEF Committed, Inv, TypeOK, Shape, Stages, Locks, Forget, R!Commit, R!Unlock

\* A commit deletes no row.
LEMMA CommitExists ==
  ASSUME Inv, NEW s \in Session, Committed(s)
  PROVE  \A r \in Contact : rows[r] # Null => rows'[r] # Null
<1> SUFFICES ASSUME NEW r \in Contact, rows[r] # Null PROVE rows'[r] # Null
  OBVIOUS
<1>1. CASE lock[r] = s
  <2>1. rows'[r] \in Row
    BY <1>1, CommitRows
  <2> QED
    BY <2>1, NullAssumption
<1>2. CASE lock[r] # s
  BY <1>2, CommitRows
<1> QED
  BY <1>1, <1>2

\* A commit leaves the locks of the other sessions as they were.
LEMMA CommitLocks ==
  ASSUME Inv, NEW s \in Session, Committed(s), \A p \in Session \ {s} : pc'[p] = pc[p]
  PROVE  Locks'
<1>1. \A r \in Contact : lock'[r] # Null =>
         lock[r] \in Session \ {s} /\ lock'[r] = lock[r] /\ draft'[r] = draft[r]
  BY CommitRows DEF Inv, TypeOK
<1>2. \A r \in Contact : lock'[r] # Null =>
         draft'[r] \in Row /\ pc'[lock'[r]] \in { "send", "count", "save", "commit" }
  BY <1>1 DEF Inv, Shape, Locks
<1>3. \A q, r \in Contact : lock'[q] \in Worker /\ lock'[q] = lock'[r] => q = r
  BY <1>1, NullAssumption DEF Inv, Shape, Locks, Session
<1> QED
  BY <1>2, <1>3 DEF Locks

\* The sender.
LEMMA SenderStep ==
  ASSUME Inv, NEW w \in Worker,
         \/ Begin(w) \/ Again(w) \/ Claim(w)
         \/ Accepted(w) \/ Rejected(w) \/ AnswerLost(w) \/ Record(w)
  PROVE  Inv'
<1> w \in Session /\ w \notin Desk \cup Hook
  BY ConstantAssumption DEF Session
<1> USE NullAssumption, ConstantAssumption
<1>1. ASSUME Begin(w) PROVE Inv'
  <2>1. TypeOK'
    BY <1>1 DEF Begin, Load, Inv, TypeOK, Goto, table, past
  <2>2. Shape'
    BY <1>1 DEF Begin, Load, Inv, TypeOK, Shape, Stages, Locks, Goto, table, past, Session
  <2>3. Owed' /\ MessagedOnce'
    <3> SUFFICES ASSUME NEW q \in Contact PROVE OwedAt(q)' /\ told'[q] <= due'[q]
      BY DEF Owed, MessagedOnce
    <3>1. lock[q] # w
      BY <1>1, NoneHeld DEF Begin
    <3> QED
      BY <1>1, <3>1, OwedFrame DEF Begin, Load, Inv, TypeOK, Goto, table, past
  <2> QED
    BY <2>1, <2>2, <2>3 DEF Inv
<1>2. ASSUME Again(w) PROVE Inv'
  <2>1. TypeOK'
    BY <1>2 DEF Again, Load, Inv, TypeOK, Goto, table, past
  <2>2. Shape'
    BY <1>2 DEF Again, Load, Inv, TypeOK, Shape, Stages, Locks, Goto, table, past, Session
  <2>3. Owed' /\ MessagedOnce'
    <3> SUFFICES ASSUME NEW q \in Contact PROVE OwedAt(q)' /\ told'[q] <= due'[q]
      BY DEF Owed, MessagedOnce
    <3>1. lock[q] # w
      BY <1>2, NoneHeld DEF Again
    <3> QED
      BY <1>2, <3>1, OwedFrame DEF Again, Load, Inv, TypeOK, Goto, table, past
  <2> QED
    BY <2>1, <2>2, <2>3 DEF Inv
<1>3. ASSUME Claim(w) PROVE Inv'
  <2>0. \A q \in Contact : lock[q] # w
    BY <1>3, NoneHeld DEF Claim
  <2>1. CASE Goto(w, "count") /\ UNCHANGED table
    <3>1. TypeOK'
      BY <1>3, <2>1 DEF Claim, Inv, TypeOK, Goto, table, past
    <3>2. Shape'
      BY <1>3, <2>1 DEF Claim, Inv, TypeOK, Shape, Stages, Locks, Goto, table, past, Session
    <3>3. \A q \in Contact : OwedAt(q)' /\ told'[q] <= due'[q]
      BY <1>3, <2>0, <2>1, OwedFrame DEF Claim, Inv, TypeOK, Goto, table, past
    <3> QED
      BY <3>1, <3>2, <3>3 DEF Inv, Owed, MessagedOnce
  <2>2. ASSUME NEW r \in Contact, Claimable(r), R!Put(w, {r}, rows), Goto(w, "send")
        PROVE  Inv'
    <3>1. rows[r] \in Row /\ rows[r].status = "pending" /\ lock[r] = Null
      BY <2>2 DEF Claimable, Inv, TypeOK
    <3>2. TypeOK'
      BY <1>3, <2>2, <3>1 DEF Claim, R!Put, Inv, TypeOK, Goto, past
    <3>3. Shape'
      BY <1>3, <2>0, <2>2, <3>1 DEF Claim, R!Put, Inv, TypeOK, Shape, Stages, Locks, Goto, past, Session
    <3>4. OwedAt(r)' /\ told'[r] <= due'[r]
      <4>1. told[r] < due[r] /\ told[r] \in Nat /\ due[r] \in Nat
        <5>1. ~InFlight(r) /\ Waiting(rows[r])
          BY <3>1 DEF InFlight, Waiting, Session
        <5> QED
          BY <5>1 DEF Inv, TypeOK, Owed, OwedAt
      <4>2. /\ rows'[r] = rows[r] /\ lock'[r] = w /\ pc'[w] = "send"
            /\ told'[r] = told[r] /\ due'[r] = due[r]
        BY <1>3, <2>2 DEF Claim, R!Put, Goto, past, Inv, TypeOK
      <4> QED
        BY <3>1, <4>1, <4>2 DEF OwedAt, InFlight, Waiting
    <3>5. \A q \in Contact \ {r} : OwedAt(q)' /\ told'[q] <= due'[q]
      BY <1>3, <2>0, <2>2, OwedFrame DEF Claim, R!Put, Inv, TypeOK, Goto, past
    <3> QED
      BY <3>2, <3>3, <3>4, <3>5 DEF Inv, Owed, MessagedOnce
  <2> QED
    BY <1>3, <2>1, <2>2 DEF Claim, table
<1>4. ASSUME NEW r \in Held(w), NEW v \in Row, ~Waiting(v), Outcomes(w, r, v), faults' \in 0..MaxFaults,
             \/ Tell(r) \/ UNCHANGED << told, late >>
      PROVE  Inv'
  <2>0. /\ r \in Contact /\ lock[r] = w /\ pc[w] = "send" /\ copy[w] \in Campaign
        /\ told[r] < due[r] /\ told[r] \in Nat /\ due[r] \in Nat
    BY <1>4 DEF Held, Outcomes, Inv, TypeOK, Shape, Stages, Locks, Owed, OwedAt, InFlight
  <2>1. copy'[w] \in Campaign
    <3>1. Recorded(copy[w], v.status # "failed") \in Campaign
      BY <2>0 DEF Recorded, Campaign
    <3> QED
      BY <1>4, <3>1 DEF Outcomes, Inv, TypeOK
  <2>2. told' \in [ Contact -> Nat ] /\ late' \in 0..2 \cup {Null}
    BY <1>4, <2>0 DEF Tell, Inv, TypeOK
  <2>3. TypeOK'
    BY <1>4, <2>0, <2>1, <2>2 DEF Outcomes, R!Put, Inv, TypeOK, Goto
  <2>4. Shape'
    BY <1>4, <2>0, <2>1 DEF Outcomes, R!Put, Inv, TypeOK, Shape, Stages, Locks, Goto, Session
  <2>5. \A q \in Contact : IF q = r THEN told'[q] <= due[q] ELSE told'[q] = told[q]
    BY <1>4, <2>0 DEF Tell, Inv, TypeOK
  <2>6. OwedAt(r)' /\ told'[r] <= due'[r]
    <3>1. /\ rows'[r] = rows[r] /\ draft'[r] = v /\ lock'[r] = w /\ pc'[w] = "save"
          /\ due'[r] = due[r] /\ told'[r] <= due[r]
      BY <1>4, <2>0, <2>5 DEF Outcomes, R!Put, Goto, Inv, TypeOK
    <3>2. Waiting(rows[r])
      BY <2>0 DEF Inv, Owed, OwedAt
    <3> QED
      BY <1>4, <3>1, <3>2 DEF OwedAt, InFlight, Waiting
  <2>7. \A q \in Contact \ {r} : OwedAt(q)' /\ told'[q] <= due'[q]
    <3> TAKE q \in Contact \ {r}
    <3>1. /\ rows'[q] = rows[q] /\ draft'[q] = draft[q] /\ lock'[q] = lock[q]
          /\ told'[q] = told[q] /\ due'[q] = due[q]
          /\ \A p \in Session \ {w} : pc'[p] = pc[p]
      BY <1>4, <2>5 DEF Outcomes, R!Put, Goto, Inv, TypeOK
    <3>2. CASE lock[q] # w
      BY <1>4, <3>1, <3>2, OwedFrame DEF Outcomes
    <3>3. CASE lock[q] = w
      <4> q = r
        BY <2>0, <3>3 DEF Inv, Shape, Stages, Locks
      <4> QED
        OBVIOUS
    <3> QED
      BY <3>2, <3>3
  <2> QED
    BY <2>3, <2>4, <2>6, <2>7 DEF Inv, Owed, MessagedOnce
<1>5. ASSUME NEW r \in Held(w), pc[w] = "send" PROVE draft[r] \in Row /\ told[r] + 1 \in Nat
  <2>1. lock[r] = w /\ r \in Contact
    BY DEF Held
  <2> QED
    BY <2>1 DEF Inv, Shape, Locks, TypeOK
<1>6. ASSUME Accepted(w) PROVE Inv'
  <2>1. PICK r \in Held(w) : /\ Outcomes(w, r, MarkedSent(draft[r], told[r] + 1))
                             /\ Tell(r) /\ UNCHANGED faults
    BY <1>6 DEF Accepted
  <2>2. draft[r] \in Row /\ told[r] + 1 \in Nat
    BY <2>1, <1>5 DEF Outcomes
  <2>3. MarkedSent(draft[r], told[r] + 1) \in Row /\ ~Waiting(MarkedSent(draft[r], told[r] + 1))
    BY <2>2, RecipientType
  <2> QED
    BY <2>1, <2>3, <1>4 DEF Inv, TypeOK
<1>7. ASSUME Rejected(w) \/ AnswerLost(w) PROVE Inv'
  <2>1. PICK r \in Held(w) : /\ Outcomes(w, r, MarkedFailed(draft[r]))
                             /\ Tell(r) \/ UNCHANGED << told, late >>
                             /\ faults' = faults \/ (faults < MaxFaults /\ faults' = faults + 1)
    BY <1>7 DEF Rejected, AnswerLost
  <2>2. draft[r] \in Row
    BY <2>1, <1>5 DEF Outcomes
  <2>3. MarkedFailed(draft[r]) \in Row /\ ~Waiting(MarkedFailed(draft[r]))
    BY <2>2, RecipientType DEF Waiting
  <2>4. faults' \in 0..MaxFaults
    BY <2>1 DEF Inv, TypeOK
  <2> QED
    BY <2>1, <2>3, <2>4, <1>4
<1>8. ASSUME Record(w) PROVE Inv'
  <2>0. Committed(w) /\ pc[w] = "commit"
    BY <1>8 DEF Record, Committed
  <2>1. TypeOK'
    BY <1>8, <2>0, CommitType DEF Record, Inv, TypeOK, Goto, past
  <2>2. Shape'
    <3>1. Stages'
      <4>1. \A r \in Contact : rows[r] # Null => rows'[r] # Null
        BY <2>0, CommitExists
      <4>2. pc'[w] \in { "idle", "load" } /\ \A p \in Session \ {w} : pc'[p] = pc[p]
        BY <1>8 DEF Record, Goto, Inv, TypeOK
      <4>3. UNCHANGED << op, news, mine >> /\ \A p \in Session \ {w} : copy'[p] = copy[p] /\ base'[p] = base[p]
        BY <1>8, <2>0, CommitRows DEF Record
      <4>4. \A p \in Worker :
              pc'[p] \in { "idle", "load", "claim", "send", "count", "save", "commit" }
        BY <4>2 DEF Inv, Shape, Stages, Session
      <4>5. \A h \in Hook : /\ pc'[h] = pc[h] /\ base'[h] = base[h]
                            /\ pc[h] # "idle" => rows'[news[h].to] # Null
        BY <4>1, <4>2, <4>3 DEF Inv, Shape, Stages, Session
      <4>6. \A d \in Desk : pc'[d] = pc[d]
        BY <4>2 DEF Session
      <4> QED
        BY <4>2, <4>3, <4>4, <4>5, <4>6 DEF Inv, Shape, Stages
    <3>2. Locks'
      <4>1. \A p \in Session \ {w} : pc'[p] = pc[p]
        BY <1>8 DEF Record, Goto, Inv, TypeOK
      <4> QED
        BY <2>0, <4>1, CommitLocks
    <3> QED
      BY <3>1, <3>2 DEF Shape
  <2>3. \A q \in Contact : OwedAt(q)' /\ told'[q] <= due'[q]
    <3> TAKE q \in Contact
    <3>1. CASE lock[q] # w
      <4>1. \A p \in Session \ {w} : pc'[p] = pc[p]
        BY <1>8 DEF Record, Goto, Inv, TypeOK
      <4>2. rows'[q] = rows[q] /\ draft'[q] = draft[q] /\ lock'[q] = lock[q]
        BY <2>0, <3>1, CommitRows
      <4>3. UNCHANGED << op, told, due >>
        BY <1>8 DEF Record, past
      <4> QED
        BY <3>1, <4>1, <4>2, <4>3, OwedFrame
    <3>2. CASE lock[q] = w
      <4>1. ~Waiting(rows'[q]) /\ lock'[q] = Null /\ told[q] <= due[q]
        <5>1. InFlight(q)
          BY <2>0, <3>2 DEF InFlight
        <5>2. ~Waiting(draft[q]) /\ told[q] <= due[q]
          BY <5>1 DEF Inv, Owed, OwedAt, MessagedOnce
        <5>3. rows'[q] = draft[q] /\ lock'[q] = Null
          BY <2>0, CommitRows, <3>2
        <5> QED
          BY <5>2, <5>3
      <4> QED
        BY <1>8, <4>1 DEF Record, OwedAt, InFlight, past, Session, Waiting
    <3> QED
      BY <3>1, <3>2
  <2> QED
    BY <2>1, <2>2, <2>3 DEF Inv, Owed, MessagedOnce
<1> QED
  BY <1>1, <1>2, <1>3, <1>6, <1>7, <1>8

\* The desk.
LEMMA DeskStep ==
  ASSUME Inv, NEW d \in Desk,
         \/ Start(d) \/ Pause(d) \/ Complete(d) \/ Retry(d) \/ Add(d)
         \/ Reset(d) \/ Settle(d)
  PROVE  Inv'
<1> d \in Session /\ d \notin Worker \cup Hook
  BY ConstantAssumption DEF Session
<1> USE NullAssumption, ConstantAssumption
<1>1. ASSUME NEW o \in Ops, NEW c \in Campaign, Control(d, o, c) PROVE Inv'
  <2>1. TypeOK'
    BY <1>1 DEF Control, Request, Inv, TypeOK, Goto, table, past
  <2>2. Shape'
    BY <1>1 DEF Control, Request, Inv, TypeOK, Shape, Stages, Locks, Goto, table, past, Session
  <2>3. Owed' /\ MessagedOnce'
    <3> SUFFICES ASSUME NEW q \in Contact PROVE OwedAt(q)' /\ told'[q] <= due'[q]
      BY DEF Owed, MessagedOnce
    <3>1. lock[q] # d
      BY <1>1, NoneHeld DEF Control, Request
    <3> QED
      BY <1>1, <3>1, OwedFrame DEF Control, Request, Inv, TypeOK, Goto, table, past
  <2> QED
    BY <2>1, <2>2, <2>3 DEF Inv
<1>2. ASSUME Start(d) \/ Pause(d) \/ Complete(d) PROVE Inv'
  <2>1. campaign \in Campaign
    BY DEF Inv, TypeOK
  <2>2. /\ Started(campaign) \in Campaign /\ Paused(campaign) \in Campaign
        /\ Completed(campaign) \in Campaign
    BY <2>1 DEF Started, Paused, Completed, Campaign
  <2> QED
    BY <1>1, <1>2, <2>2 DEF Start, Pause, Complete, Control, Request
<1>3. ASSUME Retry(d) PROVE Inv'
  <2>1. TypeOK'
    BY <1>3 DEF Retry, Request, Inv, TypeOK, Goto, table, past
  <2>2. Shape'
    BY <1>3 DEF Retry, Request, Inv, TypeOK, Shape, Stages, Locks, Goto, table, past, Session
  <2>3. Owed' /\ MessagedOnce'
    <3> SUFFICES ASSUME NEW q \in Contact PROVE OwedAt(q)' /\ told'[q] <= due'[q]
      BY DEF Owed, MessagedOnce
    <3>1. lock[q] # d
      BY <1>3, NoneHeld DEF Retry, Request
    <3> QED
      BY <1>3, <3>1, OwedFrame DEF Retry, Request, Inv, TypeOK, Goto, table, past
  <2> QED
    BY <2>1, <2>2, <2>3 DEF Inv
<1>4. ASSUME Add(d) PROVE Inv'
  <2>1. PICK r \in Contact :
          \/ rows[r] = Null /\ R!Lockable(d, r) /\ R!Put(d, {r}, [ q \in {r} |-> Fresh ])
          \/ rows[r] # Null /\ UNCHANGED table
    BY <1>4 DEF Add
  <2>2. Fresh \in Row
    BY Statuses DEF Fresh, Row
  <2>3. \A q \in Contact : lock[q] # d
    BY <1>4, NoneHeld DEF Add, Request
  <2>4. TypeOK'
    BY <1>4, <2>1, <2>2 DEF Add, Request, R!Put, Inv, TypeOK, Goto, table, past
  <2>5. Shape'
    BY <1>4, <2>1, <2>2 DEF Add, Request, R!Put, Inv, TypeOK, Shape, Stages, Locks, Goto, table, past, Session
  <2>6. ASSUME NEW q \in Contact, lock'[q] = lock[q], draft'[q] = draft[q]
        PROVE  OwedAt(q)' /\ told'[q] <= due'[q]
    BY <1>4, <2>1, <2>3, <2>6, OwedFrame
       DEF Add, Request, R!Put, Inv, TypeOK, Goto, table, past
  <2>7. ASSUME rows[r] = Null, R!Put(d, {r}, [ q \in {r} |-> Fresh ])
        PROVE  OwedAt(r)' /\ told'[r] <= due'[r]
    <3>1. rows'[r] = Null /\ lock'[r] = d /\ told'[r] = told[r] /\ due'[r] = due[r]
      BY <1>4, <2>7 DEF Add, R!Put, past
    <3>2. told[r] <= due[r] /\ (~InFlight(r) => told[r] < due[r])
      BY <2>7 DEF Inv, Owed, OwedAt, MessagedOnce, Waiting
    <3>3. ~InFlight(r)
      <4>1. lock[r] \in Session \cup {Null}
        BY DEF Inv, TypeOK
      <4> QED
        BY <2>1, <2>3, <2>7, <4>1 DEF R!Lockable, InFlight, Session
    <3> QED
      BY <3>1, <3>2, <3>3 DEF OwedAt, InFlight, Waiting
  <2>8. \A q \in Contact : OwedAt(q)' /\ told'[q] <= due'[q]
    <3>1. CASE UNCHANGED table
      BY <2>6, <3>1 DEF table
    <3>2. CASE rows[r] = Null /\ R!Put(d, {r}, [ q \in {r} |-> Fresh ])
      <4>1. \A q \in Contact \ {r} : lock'[q] = lock[q] /\ draft'[q] = draft[q]
        BY <3>2 DEF R!Put
      <4> QED
        BY <2>6, <2>7, <3>2, <4>1
    <3> QED
      BY <2>1, <3>1, <3>2
  <2> QED
    BY <2>4, <2>5, <2>8 DEF Inv, Owed, MessagedOnce
<1>5. ASSUME Reset(d) PROVE Inv'
  <2> DEFINE failed == { r \in Contact : rows[r] # Null /\ rows[r].status = "failed" }
             back(r) == [ rows[r] EXCEPT !.status = "pending", !.sid = 0 ]
  <2>1. /\ \A r \in failed : lock[r] \in { d, Null }
        /\ draft' = [ r \in Contact |-> IF r \in failed THEN back(r) ELSE draft[r] ]
        /\ lock' = [ r \in Contact |-> IF r \in failed THEN d ELSE lock[r] ]
        /\ UNCHANGED rows
    BY <1>5 DEF Reset, R!Lockable, R!Put
  <2>2. ASSUME NEW r \in failed PROVE back(r) \in Row
    <3>1. rows[r] \in Row
      BY DEF Inv, TypeOK
    <3>2. "pending" \in DOMAIN Rank
      BY Statuses
    <3> QED
      BY <3>1, <3>2 DEF Row
  <2>3. copy'[d] \in Campaign /\ copy' \in [ Session -> Campaign \cup {Null} ]
    <3>1. copy[d] \in Campaign
      BY <1>5 DEF Reset, Inv, Shape, Stages, Locks
    <3>2. Started(copy[d]) \in Campaign
      BY <3>1 DEF Started, Campaign
    <3> QED
      BY <1>5, <3>1, <3>2 DEF Reset, Inv, TypeOK
  <2>4. op[d] = "retry"
    BY <1>5 DEF Reset, Inv, Shape, Stages, Locks
  <2>5. TypeOK'
    BY <1>5, <2>1, <2>2, <2>3 DEF Reset, Inv, TypeOK, Goto, past
  <2>6. Shape'
    <3>1. Stages'
      BY <1>5, <2>1, <2>3 DEF Reset, Inv, TypeOK, Shape, Stages, Goto, past, Session
    <3>2. Locks'
      <4>1. pc'[d] = "count" /\ \A p \in Session \ {d} : pc'[p] = pc[p]
        BY <1>5 DEF Reset, Goto, Inv, TypeOK
      <4>2. \A r \in Contact : lock'[r] # Null =>
               /\ draft'[r] \in Row
               /\ lock'[r] = d \/ (lock'[r] = lock[r] /\ lock[r] \in Session)
        BY <2>1, <2>2 DEF Inv, TypeOK, Shape, Locks
      <4>3. \A r \in Contact : lock'[r] \in Worker => lock'[r] = lock[r]
        BY <2>1
      <4>4. \A r \in Contact : lock'[r] # Null =>
               draft'[r] \in Row /\ pc'[lock'[r]] \in { "send", "count", "save", "commit" }
        BY <4>1, <4>2 DEF Inv, Shape, Locks
      <4>5. \A q, r \in Contact : lock'[q] \in Worker /\ lock'[q] = lock'[r] => q = r
        BY <4>3 DEF Inv, Shape, Locks
      <4> QED
        BY <4>4, <4>5 DEF Locks
    <3> QED
      BY <3>1, <3>2 DEF Shape
  <2>7. ASSUME NEW q \in Contact PROVE OwedAt(q)' /\ told'[q] <= due'[q]
    <3>1. lock[q] # d
      BY <1>5, NoneHeld DEF Reset
    <3>2. CASE q \notin failed
      BY <1>5, <2>1, <3>1, <3>2, OwedFrame DEF Reset, Inv, TypeOK, Goto, past
    <3>3. CASE q \in failed
      <4>1. /\ rows'[q] = rows[q] /\ lock'[q] = d /\ told'[q] = told[q] /\ due'[q] = due[q]
            /\ op'[d] = "retry"
        BY <1>5, <2>1, <2>4, <3>3 DEF Reset, past
      <4>2. ~Waiting(rows[q]) /\ told[q] <= due[q]
        BY <3>3 DEF Inv, MessagedOnce, Waiting
      <4> QED
        BY <4>1, <4>2 DEF OwedAt, InFlight, Waiting
    <3> QED
      BY <3>2, <3>3
  <2> QED
    BY <2>5, <2>6, <2>7 DEF Inv, Owed, MessagedOnce
<1>6. ASSUME Settle(d) PROVE Inv'
  <2>0. Committed(d) /\ pc[d] = "commit"
    BY <1>6 DEF Settle, Committed
  <2>1. late' \in 0..2 \cup {Null} /\ runs' \in Nat /\ closed' \in BOOLEAN
    <3>1. late' \in { Null, 0, late }
      BY <1>6 DEF Settle
    <3>2. runs' \in { runs, runs + 1 }
      BY <1>6 DEF Settle
    <3>3. closed' \in BOOLEAN
      BY <1>6 DEF Settle
    <3> QED
      BY <3>1, <3>2, <3>3 DEF Inv, TypeOK
  <2>2. /\ due' \in [ Contact -> Nat ]
        /\ \A r \in Contact : due'[r] = IF op[d] = "retry" /\ lock[r] = d THEN due[r] + 1 ELSE due[r]
    BY <1>6 DEF Settle, Inv, TypeOK
  <2>3. TypeOK'
    BY <1>6, <2>1, <2>2, CommitType DEF Settle, Inv, TypeOK, Goto
  <2>4. Shape'
    <3>1. Stages'
      BY <1>6, <2>0, CommitRows DEF Settle, Inv, TypeOK, Shape, Stages, Goto, Session
    <3>2. Locks'
      <4>1. \A p \in Session \ {d} : pc'[p] = pc[p]
        BY <1>6 DEF Settle, Goto, Inv, TypeOK
      <4> QED
        BY <2>0, <4>1, CommitLocks
    <3> QED
      BY <3>1, <3>2 DEF Shape
  <2>5. \A q \in Contact : OwedAt(q)' /\ told'[q] <= due'[q]
    <3> TAKE q \in Contact
    <3>1. CASE lock[q] # d
      BY <1>6, <2>2, CommitRows, <3>1, OwedFrame DEF Settle, Goto, Inv, TypeOK
    <3>2. CASE lock[q] = d
      <4>1. told[q] <= due[q] /\ (Waiting(rows[q]) => told[q] < due[q])
        BY <3>2 DEF Inv, Owed, OwedAt, InFlight, MessagedOnce
      <4>2. told[q] < due'[q]
        BY <2>2, <3>2, <4>1 DEF Inv, Owed, OwedAt, TypeOK
      <4>3. lock'[q] = Null /\ told'[q] = told[q] /\ told[q] \in Nat /\ due'[q] \in Nat
        BY <1>6, <2>2, CommitRows, <3>2 DEF Settle, Inv, TypeOK
      <4> QED
        BY <4>2, <4>3 DEF OwedAt, InFlight, Session
    <3> QED
      BY <3>1, <3>2
  <2> QED
    BY <2>3, <2>4, <2>5 DEF Inv, Owed, MessagedOnce
<1> QED
  BY <1>2, <1>3, <1>4, <1>5, <1>6

\* The hooks.
LEMMA HookStep ==
  ASSUME Inv, NEW h \in Hook,
         Receipt(h) \/ Reply(h) \/ Fetch(h) \/ Reread(h) \/ Flush(h) \/ Post(h)
  PROVE  Inv'
<1> h \in Session /\ h \notin Worker \cup Desk
  BY ConstantAssumption DEF Session
<1> USE NullAssumption, ConstantAssumption
<1>1. ASSUME pc[h] \notin { "send", "count", "save", "commit" },
             \A p \in Session \ {h} : pc'[p] = pc[p],
             UNCHANGED << table, op, past >>
      PROVE  Owed' /\ MessagedOnce'
  <2>1. \A q \in Contact : lock[q] # h
    BY <1>1, NoneHeld
  <2>2. \A q \in Contact : OwedAt(q)' /\ told'[q] <= due'[q]
    BY <1>1, <2>1, OwedFrame DEF table, past
  <2> QED
    BY <2>2 DEF Owed, MessagedOnce
<1>2. ASSUME NEW r \in Contact, NEW status \in Receipts \cup {"replied"},
             rows[r] \in Row, Advanced(rows[r], status) # rows[r] \/ status = "failed"
      PROVE  Advanced(rows[r], status) \in Row /\ Advanced(rows[r], status).status # "pending"
  <2>1. Advanced(rows[r], status) \in Row
    BY <1>2, RecipientType
  <2>2. Advanced(rows[r], status).status = status
    BY <1>2 DEF Advanced, Row
  <2> QED
    BY <2>1, <2>2
<1>0. pc[h] # "idle" => /\ news[h].to \in Contact /\ news[h].as \in Receipts \cup {"replied"}
                       /\ rows[news[h].to] \in Row
  <2>1. pc[h] # "idle" => /\ news[h] \in [ to : Contact, as : Receipts \cup {"replied"} ]
                          /\ rows[news[h].to] # Null
    BY DEF Inv, Shape, Stages
  <2>2. \A r \in Contact : rows[r] # Null => rows[r] \in Row
    BY DEF Inv, TypeOK
  <2> QED
    BY <2>1, <2>2
<1>3. ASSUME Receipt(h) PROVE Inv'
  <2>1. PICK r \in Contact, status \in Receipts : rows[r] # Null /\ Hold(h, r, status, Null)
    BY <1>3 DEF Receipt
  <2>2. TypeOK'
    BY <1>3, <2>1 DEF Receipt, Hold, Inv, TypeOK, Goto, table, past
  <2>3. Shape'
    BY <1>3, <2>1 DEF Receipt, Hold, Inv, TypeOK, Shape, Stages, Locks, Goto, table, past, Session
  <2>4. Owed' /\ MessagedOnce'
    BY <1>1, <1>3 DEF Receipt, Goto, Inv, TypeOK
  <2> QED
    BY <2>2, <2>3, <2>4 DEF Inv
<1>4. ASSUME Reply(h) PROVE Inv'
  <2>1. PICK r \in Contact : /\ rows[r] # Null /\ Advanced(rows[r], "replied") # rows[r]
                             /\ Hold(h, r, "replied", Advanced(rows[r], "replied"))
    BY <1>4 DEF Reply
  <2> DEFINE v == Advanced(rows[r], "replied")
  <2>2. v \in Row /\ v.status # "pending"
    BY <1>2, <2>1 DEF Inv, TypeOK
  <2>3. Hold(h, r, "replied", v)
    BY <2>1
  <2> HIDE DEF v
  <2>4. TypeOK'
    BY <1>4, <2>2, <2>3 DEF Reply, Hold, Inv, TypeOK, Goto, table, past
  <2>5. Shape'
    BY <1>4, <2>1, <2>2, <2>3
       DEF Reply, Hold, Inv, TypeOK, Shape, Stages, Locks, Goto, table, past, Session
  <2>6. Owed' /\ MessagedOnce'
    BY <1>1, <1>4 DEF Reply, Goto, Inv, TypeOK
  <2> QED
    BY <2>4, <2>5, <2>6 DEF Inv
<1>5. ASSUME Fetch(h) PROVE Inv'
  <2> DEFINE r == news[h].to
             as == news[h].as
             v == Advanced(rows[r], as)
  <2>1. r \in Contact /\ as \in Receipts \cup {"replied"} /\ rows[r] \in Row /\ pc[h] = "fetch"
    BY <1>0, <1>5 DEF Fetch
  <2>2. CASE Hold(h, r, as, v) /\ Goto(h, "reread") /\ (v # rows[r] \/ as = "failed")
    <3>1. v \in Row /\ v.status # "pending"
      BY <1>2, <2>1, <2>2
    <3> HIDE DEF v
    <3>2. TypeOK'
      BY <1>5, <2>1, <2>2, <3>1 DEF Fetch, Hold, Inv, TypeOK, Goto, table, past
    <3>3. Stages'
      BY <1>5, <2>1, <2>2, <3>1 DEF Fetch, Hold, Inv, TypeOK, Shape, Stages, Goto, table, Session
    <3>4. Locks'
      BY <1>5, <2>2 DEF Fetch, Inv, TypeOK, Shape, Locks, Goto, table, Session
    <3> QED
      BY <1>1, <1>5, <2>1, <2>2, <3>2, <3>3, <3>4 DEF Fetch, Goto, Inv, TypeOK, Shape
  <2>3. CASE news' = [ news EXCEPT ![h] = Null ] /\ Goto(h, "idle") /\ UNCHANGED mine
    <3>1. TypeOK'
      BY <1>5, <2>3 DEF Fetch, Inv, TypeOK, Goto, table, past
    <3>2. Shape'
      BY <1>5, <2>1, <2>3 DEF Fetch, Inv, TypeOK, Shape, Stages, Locks, Goto, table, past, Session
    <3> QED
      BY <1>1, <1>5, <2>1, <2>3, <3>1, <3>2 DEF Fetch, Goto, Inv, TypeOK
  <2> QED
    BY <1>5, <2>2, <2>3 DEF Fetch
<1>6. ASSUME Reread(h) PROVE Inv'
  <2>1. pc[h] = "reread" /\ rows[news[h].to] \in Row
    BY <1>0, <1>6 DEF Reread
  <2>2. TypeOK'
    BY <1>6, <2>1 DEF Reread, Inv, TypeOK, Goto, table, past
  <2>3. Shape'
    BY <1>6, <2>1 DEF Reread, Inv, TypeOK, Shape, Stages, Locks, Goto, table, past, Session
  <2>4. Owed' /\ MessagedOnce'
    BY <1>1, <1>6 DEF Reread, Goto, Inv, TypeOK
  <2> QED
    BY <2>2, <2>3, <2>4 DEF Inv
<1>7. ASSUME Flush(h) PROVE Inv'
  <2> DEFINE r == news[h].to
             v == Merged(rows[r], base[h], mine[h])
  <2>1. /\ r \in Contact /\ rows[r] \in Row /\ base[h] \in Row /\ mine[h] \in Row
        /\ mine[h].status # "pending" /\ pc[h] = "flush"
    <3>1. pc[h] = "flush"
      BY <1>7 DEF Flush
    <3>2. base[h] \in Row /\ mine[h] \in Row /\ mine[h].status # "pending"
      BY <3>1 DEF Inv, Shape, Stages
    <3> QED
      BY <1>0, <3>1, <3>2
  <2>2. v \in Row /\ (v.status = "pending" => rows[r].status = "pending")
    BY <2>1, MergedRow
  <2>3. lock[r] \in { h, Null } /\ R!Put(h, {r}, [ q \in {r} |-> v ])
    BY <1>7 DEF Flush, R!Lockable
  <2>4. \A q \in Contact : lock[q] # h
    BY <2>1, NoneHeld
  <2> HIDE DEF r, v
  <2>5. TypeOK'
    BY <1>7, <2>1, <2>2, <2>3 DEF Flush, R!Put, Inv, TypeOK, Goto, past
  <2>6. Shape'
    <3>1. Stages'
      BY <1>7, <2>1, <2>3 DEF Flush, R!Put, Inv, TypeOK, Shape, Stages, Goto, Session
    <3>2. Locks'
      BY <1>7, <2>1, <2>2, <2>3, <2>4 DEF Flush, R!Put, Inv, TypeOK, Shape, Locks, Goto, Session
    <3> QED
      BY <3>1, <3>2 DEF Shape
  <2>7. ASSUME NEW q \in Contact PROVE OwedAt(q)' /\ told'[q] <= due'[q]
    <3>1. CASE q # r
      BY <1>7, <2>3, <2>4, <3>1, OwedFrame DEF Flush, R!Put, Inv, TypeOK, Goto, past
    <3>2. CASE q = r
      <4>1. /\ rows'[q] = rows[q] /\ lock'[q] = h /\ draft'[q] = v
            /\ told'[q] = told[q] /\ due'[q] = due[q]
        BY <1>7, <2>3, <3>2 DEF Flush, R!Put, past
      <4>2. ~InFlight(q) /\ lock[q] = Null
        BY <2>3, <2>4, <3>2 DEF InFlight, Session
      <4>3. Waiting(v) => Waiting(rows[q])
        BY <2>2, <3>2 DEF Waiting
      <4>4. told[q] <= due[q] /\ (Waiting(rows[q]) => told[q] < due[q])
        BY <4>2 DEF Inv, Owed, OwedAt, MessagedOnce
      <4> QED
        BY <4>1, <4>3, <4>4 DEF OwedAt, InFlight, Waiting
    <3> QED
      BY <3>1, <3>2
  <2> QED
    BY <2>5, <2>6, <2>7 DEF Inv, Owed, MessagedOnce
<1>8. ASSUME Post(h) PROVE Inv'
  <2>0. Committed(h) /\ pc[h] = "commit"
    BY <1>8 DEF Post, Committed
  <2>1. TypeOK'
    BY <1>8, <2>0, CommitType DEF Post, Inv, TypeOK, Goto, past
  <2>2. Shape'
    <3>1. Stages'
      <4>1. \A r \in Contact : rows[r] # Null => rows'[r] # Null
        BY <2>0, CommitExists
      <4>2. pc'[h] = "idle" /\ \A p \in Session \ {h} : pc'[p] = pc[p]
        BY <1>8 DEF Post, Goto, Inv, TypeOK
      <4>3. /\ UNCHANGED << op, mine >> /\ \A g \in Hook \ {h} : news'[g] = news[g]
            /\ \A p \in Session \ {h} : copy'[p] = copy[p] /\ base'[p] = base[p]
        BY <1>8, <2>0, CommitRows DEF Post, Inv, TypeOK
      <4>4. \A g \in Hook \ {h} : /\ pc'[g] = pc[g] /\ base'[g] = base[g]
                                  /\ pc[g] # "idle" => rows'[news[g].to] # Null
        BY <4>1, <4>2, <4>3 DEF Inv, Shape, Stages, Session
      <4>5. \A p \in Worker \cup Desk : pc'[p] = pc[p]
        BY <4>2 DEF Session
      <4> QED
        BY <4>2, <4>3, <4>4, <4>5 DEF Inv, Shape, Stages
    <3>2. Locks'
      <4>1. \A p \in Session \ {h} : pc'[p] = pc[p]
        BY <1>8 DEF Post, Goto, Inv, TypeOK
      <4> QED
        BY <2>0, <4>1, CommitLocks
    <3> QED
      BY <3>1, <3>2 DEF Shape
  <2>3. ASSUME NEW q \in Contact PROVE OwedAt(q)' /\ told'[q] <= due'[q]
    <3>1. CASE lock[q] # h
      <4>1. \A p \in Session \ {h} : pc'[p] = pc[p]
        BY <1>8 DEF Post, Goto, Inv, TypeOK
      <4>2. rows'[q] = rows[q] /\ draft'[q] = draft[q] /\ lock'[q] = lock[q]
        BY <2>0, <3>1, CommitRows
      <4>3. UNCHANGED << op, told, due >>
        BY <1>8 DEF Post, past
      <4> QED
        BY <3>1, <4>1, <4>2, <4>3, OwedFrame
    <3>2. CASE lock[q] = h
      <4>1. ~InFlight(q)
        BY <3>2 DEF InFlight
      <4>2. told[q] <= due[q] /\ (Waiting(draft[q]) => told[q] < due[q])
        BY <3>2, <4>1 DEF Inv, Owed, OwedAt, MessagedOnce
      <4>3. rows'[q] = draft[q] /\ lock'[q] = Null /\ told'[q] = told[q] /\ due'[q] = due[q]
        BY <1>8, <2>0, CommitRows, <3>2 DEF Post, past
      <4> QED
        BY <4>2, <4>3 DEF OwedAt, InFlight, Waiting, Session
    <3> QED
      BY <3>1, <3>2
  <2> QED
    BY <2>1, <2>2, <2>3 DEF Inv, Owed, MessagedOnce
<1> QED
  BY <1>3, <1>4, <1>5, <1>6, <1>7, <1>8

\* The failures.
LEMMA FailureStep ==
  ASSUME Inv, (\E s \in Session : Crash(s)) \/ RunLost
  PROVE  Inv'
<1> USE NullAssumption, ConstantAssumption
<1>1. ASSUME NEW s \in Session, Crash(s) PROVE Inv'
  <2>1. /\ \A r \in Contact : rows'[r] = rows[r]
        /\ \A r \in Contact : lock[r] = s => lock'[r] = Null
        /\ \A r \in Contact : lock[r] # s => lock'[r] = lock[r] /\ draft'[r] = draft[r]
        /\ UNCHANGED told
    BY <1>1 DEF Crash, R!Rollback, R!Unlock
  <2>2. /\ due' \in [ Contact -> Nat ]
        /\ \A r \in Contact :
             IF lock[r] = s /\ s \in Worker /\ pc[s] # "send"
             THEN due'[r] = due[r] + 1 ELSE due'[r] = due[r]
    BY <1>1 DEF Crash, Inv, TypeOK
  <2>3. TypeOK'
    BY <1>1, <2>2 DEF Crash, Forget, Goto, R!Rollback, R!Unlock, Inv, TypeOK
  <2>4. Shape'
    <3>1. Stages'
      BY <1>1, <2>1 DEF Crash, Forget, Goto, R!Rollback, Inv, TypeOK, Shape, Stages, Session
    <3>2. Locks'
      BY <1>1, <2>1 DEF Crash, Goto, Inv, TypeOK, Shape, Locks, Session
    <3> QED
      BY <3>1, <3>2 DEF Shape
  <2>5. ASSUME NEW q \in Contact PROVE OwedAt(q)' /\ told'[q] <= due'[q]
    <3>1. CASE lock[q] # s
      <4>1. /\ \A p \in Session \ {s} : pc'[p] = pc[p]
            /\ \A p \in Desk \ {s} : op'[p] = op[p]
        BY <1>1 DEF Crash, Goto, Inv, TypeOK
      <4>2. due'[q] = due[q]
        BY <2>2, <3>1
      <4> QED
        BY <2>1, <3>1, <4>1, <4>2, OwedFrame
    <3>2. CASE lock[q] = s
      <4>1. InFlight(q) => due'[q] = due[q] + 1
        BY <2>2, <3>2 DEF InFlight
      <4>2. told[q] <= due[q] /\ (Waiting(rows[q]) /\ ~InFlight(q) => told[q] < due[q])
        BY DEF Inv, Owed, OwedAt, MessagedOnce
      <4>3. /\ told'[q] = told[q] /\ lock'[q] = Null /\ rows'[q] = rows[q]
            /\ told[q] \in Nat /\ due[q] \in Nat /\ due'[q] \in { due[q], due[q] + 1 }
        BY <2>1, <2>2, <3>2 DEF Inv, TypeOK
      <4>4. told'[q] <= due'[q] /\ (Waiting(rows[q]) => told'[q] < due'[q])
        BY <4>1, <4>2, <4>3
      <4> QED
        BY <4>3, <4>4 DEF OwedAt, InFlight, Waiting, Session
    <3> QED
      BY <3>1, <3>2
  <2> QED
    BY <2>3, <2>4, <2>5 DEF Inv, Owed, MessagedOnce
<1>2. ASSUME RunLost PROVE Inv'
  <2>1. TypeOK'
    BY <1>2 DEF RunLost, Inv, TypeOK, table, past
  <2>2. Shape'
    BY <1>2 DEF RunLost, Inv, Shape, Stages, Locks, table
  <2>3. Owed' /\ MessagedOnce'
    BY <1>2 DEF RunLost, Inv, Owed, OwedAt, InFlight, Waiting, MessagedOnce, table, past
  <2> QED
    BY <2>1, <2>2, <2>3 DEF Inv
<1> QED
  BY <1>1, <1>2

LEMMA Step == Inv /\ [Next]_vars => Inv'
<1> SUFFICES ASSUME Inv, [Next]_vars PROVE Inv'
  OBVIOUS
<1>1. ASSUME NEW w \in Worker, Working(w) \/ AnswerLost(w) PROVE Inv'
  <2> w \in Session
    BY DEF Session
  <2> QED
    BY <1>1, SenderStep, SharedStep DEF Working
<1>2. ASSUME NEW d \in Desk,
             \/ Start(d) \/ Pause(d) \/ Complete(d) \/ Retry(d) \/ Add(d) \/ Controlling(d)
      PROVE  Inv'
  <2> d \in Session
    BY DEF Session
  <2> QED
    BY <1>2, DeskStep, SharedStep DEF Controlling
<1>3. ASSUME NEW h \in Hook, Receipt(h) \/ Reply(h) \/ Hooking(h) PROVE Inv'
  <2> h \in Session
    BY DEF Session
  <2> QED
    BY <1>3, HookStep, SharedStep DEF Hooking
<1>4. ASSUME UNCHANGED vars PROVE Inv'
  BY <1>4 DEF vars, table, past, Inv, TypeOK, Shape, Stages, Locks, Owed, OwedAt, InFlight,
     Waiting, MessagedOnce
<1> QED
  BY <1>1, <1>2, <1>3, <1>4, FailureStep DEF Next

------------------------------------------------------------------------------
(* The theorems *)

\* Every state of a campaign is of its type, whatever the senders, the desk
\* and the hooks do.
THEOREM TypeCorrect == Spec => []TypeOK
<1>1. Inv => TypeOK
  BY DEF Inv
<1> QED
  BY InitInv, Step, <1>1, PTL DEF Spec

\* No contact receives a message without a cause, however many senders work
\* on the campaign and whatever is written back from an old copy: the first,
\* one for each retry that requeued the contact, and one for each crash of a
\* sender between handing the message over and committing it.
THEOREM EveryMessageHasACause == Spec => []MessagedOnce
<1>1. Inv => MessagedOnce
  BY DEF Inv
<1> QED
  BY InitInv, Step, <1>1, PTL DEF Spec

------------------------------------------------------------------------------
(* Nobody is forgotten *)

\* A row that shows an outcome, a message or a conversation has been attempted.
Honest(v) == v.status # "pending" \/ v.sid # 0 \/ v.thread => v.attempts # 0

\* So has every version of it after one that was, whoever writes it.
Follows(new, v) == v # Null => new # Null /\ (v.attempts # 0 => new.attempts # 0)

RowTraced(r) ==
  /\ rows[r] # Null => Honest(rows[r])
  /\ lock[r] # Null => Honest(draft[r]) /\ Follows(draft[r], rows[r])

\* A hook has in hand a recipient that has been attempted.
HookTraced(h) ==
  /\ pc[h] \in { "fetch", "reread", "flush" } => rows[news[h].to].attempts # 0
  /\ pc[h] \in { "reread", "flush" } => mine[h].attempts # 0

AllTried == \A r \in Listed : rows[r] # Null /\ rows[r].attempts # 0

\* A campaign, or a copy of it, that is completed was completed by hand, is being
\* completed by hand, or was when everyone had been attempted.
Ended(c, s) ==
  c \in Campaign /\ c.status = "completed" => closed \/ AllTried \/ (s \in Desk /\ op[s] = "complete")

Traces ==
  /\ \A r \in Contact : RowTraced(r)
  /\ \A r \in Listed : rows[r] # Null
  /\ \A h \in Hook : HookTraced(h)
  /\ Ended(campaign, Null)
  /\ \A s \in Session : Ended(copy[s], s)

\* What a step never does to a row.
Kept == \A r \in Contact : Follows(rows'[r], rows[r])

\* What becomes of the rows: nothing, ...
LEMMA TableTraced ==
  ASSUME Traces, UNCHANGED table
  PROVE  Kept /\ \A r \in Contact : RowTraced(r)'
  BY DEF Traces, table, Kept, Follows, RowTraced

\* ... a write that is not committed, ...
LEMMA PutTraced ==
  ASSUME Traces, NEW s \in Session, NEW ids \in SUBSET Contact, NEW new, R!Put(s, ids, new),
         \A r \in ids : Honest(new[r]) /\ Follows(new[r], rows[r])
  PROVE  Kept /\ \A r \in Contact : RowTraced(r)'
<1>1. rows' = rows
  BY DEF R!Put
<1>2. ASSUME NEW r \in Contact PROVE RowTraced(r)'
  <2>1. CASE r \in ids
    <3>1. draft'[r] = new[r]
      BY <2>1 DEF R!Put
    <3>2. Honest(new[r]) /\ Follows(new[r], rows[r]) /\ RowTraced(r)
      BY <2>1 DEF Traces
    <3> QED
      BY <1>1, <3>1, <3>2 DEF RowTraced
  <2>2. CASE r \notin ids
    <3>1. draft'[r] = draft[r] /\ lock'[r] = lock[r]
      BY <2>2 DEF R!Put
    <3> QED
      BY <1>1, <3>1 DEF Traces, RowTraced
  <2> QED
    BY <2>1, <2>2
<1> QED
  BY <1>1, <1>2 DEF Kept, Follows

\* ... a commit, ...
LEMMA CommitTraced ==
  ASSUME Inv, Traces, NEW s \in Session, Committed(s)
  PROVE  Kept /\ \A r \in Contact : RowTraced(r)'
<1> SUFFICES ASSUME NEW r \in Contact PROVE Follows(rows'[r], rows[r]) /\ RowTraced(r)'
  BY DEF Kept
<1>0. RowTraced(r)
  BY DEF Traces
<1>1. CASE lock[r] = s
  <2>1. rows'[r] = draft[r] /\ lock'[r] = Null /\ lock[r] # Null
    BY <1>1, CommitRows, NullAssumption
  <2> QED
    BY <1>0, <2>1 DEF RowTraced
<1>2. CASE lock[r] # s
  <2>1. rows'[r] = rows[r] /\ draft'[r] = draft[r] /\ lock'[r] = lock[r]
    BY <1>2, CommitRows
  <2> QED
    BY <1>0, <2>1 DEF RowTraced, Follows
<1> QED
  BY <1>1, <1>2

\* ... or a rollback.
LEMMA RollbackTraced ==
  ASSUME Traces, NEW s \in Session, R!Rollback(s)
  PROVE  Kept /\ \A r \in Contact : RowTraced(r)'
<1>1. rows' = rows
  BY DEF R!Rollback
<1>2. ASSUME NEW r \in Contact PROVE RowTraced(r)'
  <2>1. CASE lock[r] = s
    BY <1>1, <2>1 DEF R!Rollback, R!Unlock, Traces, RowTraced
  <2>2. CASE lock[r] # s
    <3>1. draft'[r] = draft[r] /\ lock'[r] = lock[r]
      BY <2>2 DEF R!Rollback, R!Unlock
    <3> QED
      BY <1>1, <3>1 DEF Traces, RowTraced
  <2> QED
    BY <2>1, <2>2
<1> QED
  BY <1>1, <1>2 DEF Kept, Follows

\* What the entities do to a completed campaign, and to what was attempted.
LEMMA EntityStatus ==
  ASSUME NEW c \in Campaign, NEW list, NEW ok \in BOOLEAN
  PROVE  /\ Started(c).status = "completed" => c.status = "completed"
         /\ Paused(c).status = "completed" => c.status = "completed"
         /\ Recounted(c, list).status = c.status
         /\ Recorded(c, ok).status = c.status
  BY DEF Started, Paused, Recounted, Recorded, Campaign

LEMMA RecipientTraced ==
  ASSUME NEW v \in Row, NEW n \in Nat, NEW status
  PROVE  /\ MarkedSent(v, n).attempts # 0
         /\ MarkedFailed(v).attempts # 0
         /\ Advanced(v, status).attempts = v.attempts
  BY DEF MarkedSent, MarkedFailed, Advanced, Row

\* Everything else follows from what happens to the rows, the hooks and the
\* copies, step by step.
LEMMA TracedStep ==
  ASSUME Inv, Traces, Kept, \A r \in Contact : RowTraced(r)',
         \A h \in Hook : \/ pc'[h] \notin { "fetch", "reread", "flush" }
                        \/ UNCHANGED << pc[h], news[h], mine[h] >>
                        \/ HookTraced(h)',
         closed => closed',
         \/ campaign' = campaign
         \/ \E s \in Session : /\ campaign'.status \in { campaign.status, copy[s].status }
                               /\ copy[s] \in Campaign
                               /\ s \in Desk /\ op[s] = "complete" => closed',
         \A s \in Session :
            \/ copy'[s] \notin Campaign
            \/ copy'[s].status # "completed"
            \/ /\ copy[s] \in Campaign /\ copy'[s].status = copy[s].status
               /\ s \in Desk => op'[s] = op[s]
            \/ copy'[s].status = campaign.status
            \/ s \in Desk /\ op'[s] = "complete"
            \/ AllTried
  PROVE  Traces'
<1>1. AllTried => AllTried'
  BY ConstantAssumption DEF AllTried, Kept, Follows
<1>2. \A r \in Listed : rows'[r] # Null
  BY ConstantAssumption DEF Traces, Kept, Follows
<1>3. ASSUME NEW h \in Hook PROVE HookTraced(h)'
  <2>1. CASE pc'[h] \notin { "fetch", "reread", "flush" }
    BY <2>1 DEF HookTraced
  <2>2. CASE UNCHANGED << pc[h], news[h], mine[h] >> /\ pc[h] \in { "fetch", "reread", "flush" }
    <3>1. news[h].to \in Contact /\ rows[news[h].to] # Null
      BY <2>2 DEF Inv, Shape, Stages
    <3>2. HookTraced(h)
      BY DEF Traces
    <3>3. rows'[news[h].to].attempts # 0
      BY <2>2, <3>1, <3>2 DEF HookTraced, Kept, Follows
    <3> QED
      BY <2>2, <3>2, <3>3 DEF HookTraced
  <2> QED
    BY <2>1, <2>2
<1>4. campaign \in Campaign /\ (campaign.status = "completed" => closed \/ AllTried)
  BY NullAssumption DEF Inv, TypeOK, Traces, Ended, Session
<1>5. Ended(campaign, Null)'
  <2>1. CASE campaign' = campaign
    BY <1>1, <1>4, <2>1 DEF Ended
  <2>2. ASSUME NEW s \in Session, campaign'.status \in { campaign.status, copy[s].status },
               copy[s] \in Campaign, s \in Desk /\ op[s] = "complete" => closed'
        PROVE  Ended(campaign, Null)'
    BY <1>1, <1>4, <2>2 DEF Ended, Traces
  <2> QED
    BY <2>1, <2>2
<1>6. ASSUME NEW s \in Session PROVE Ended(copy[s], s)'
  BY <1>1, <1>4 DEF Ended, Traces
<1> QED
  BY <1>2, <1>3, <1>5, <1>6 DEF Traces

\* The same for a step of session s, which leaves the others as they are.
LEMMA TracedBy ==
  ASSUME Inv, Traces, Kept, \A r \in Contact : RowTraced(r)', NEW s \in Session,
         \A p \in Session \ {s} : pc'[p] = pc[p] /\ copy'[p] = copy[p],
         \A p \in Desk \ {s} : op'[p] = op[p],
         \A p \in Hook \ {s} : news'[p] = news[p] /\ mine'[p] = mine[p],
         s \in Hook => pc'[s] \notin { "fetch", "reread", "flush" } \/ HookTraced(s)',
         closed => closed',
         \/ campaign' = campaign
         \/ /\ campaign'.status \in { campaign.status, copy[s].status }
            /\ copy[s] \in Campaign
            /\ s \in Desk /\ op[s] = "complete" => closed',
         \/ copy'[s] \notin Campaign
         \/ copy'[s].status # "completed"
         \/ /\ copy[s] \in Campaign /\ copy'[s].status = copy[s].status
            /\ s \in Desk => op'[s] = op[s]
         \/ copy'[s].status = campaign.status
         \/ s \in Desk /\ op'[s] = "complete"
         \/ AllTried
  PROVE  Traces'
<1>1. \A h \in Hook : \/ pc'[h] \notin { "fetch", "reread", "flush" }
                     \/ UNCHANGED << pc[h], news[h], mine[h] >>
                     \/ HookTraced(h)'
  BY DEF Session
<1>2. \/ campaign' = campaign
      \/ \E q \in Session : /\ campaign'.status \in { campaign.status, copy[q].status }
                            /\ copy[q] \in Campaign
                            /\ q \in Desk /\ op[q] = "complete" => closed'
  OBVIOUS
<1>3. \A q \in Session :
         \/ copy'[q] \notin Campaign
         \/ copy'[q].status # "completed"
         \/ /\ copy[q] \in Campaign /\ copy'[q].status = copy[q].status
            /\ q \in Desk => op'[q] = op[q]
         \/ copy'[q].status = campaign.status
         \/ q \in Desk /\ op'[q] = "complete"
         \/ AllTried
  OBVIOUS
<1> QED
  BY <1>1, <1>2, <1>3, TracedStep

\* A sender that finds the list finished has everyone attempted: the rows that
\* others have locked show it what is committed.
LEMMA FinishedTried ==
  ASSUME Inv, Traces, NEW w \in Worker, pc[w] = "count", IsFinished(List(w))
  PROVE  AllTried
<1> SUFFICES ASSUME NEW r \in Listed PROVE rows[r] # Null /\ rows[r].attempts # 0
  BY DEF AllTried
<1>1. r \in Contact /\ rows[r] # Null
  BY ConstantAssumption DEF Traces
<1>2. lock[r] # w
  BY <1>1 DEF Inv, Owed, OwedAt
<1>3. r \in DOMAIN List(w) /\ List(w)[r] = rows[r]
  BY <1>1, <1>2 DEF List, R!Seen
<1>4. rows[r].status # "pending"
  BY <1>3 DEF IsFinished
<1> QED
  BY <1>1, <1>4 DEF Traces, RowTraced, Honest

LEMMA CountTraced ==
  ASSUME Inv, Traces, NEW s \in Session, Count(s)
  PROVE  Traces'
<1>1. Kept /\ \A r \in Contact : RowTraced(r)'
  BY TableTraced DEF Count
<1>2. /\ \A p \in Session \ {s} : pc'[p] = pc[p] /\ copy'[p] = copy[p]
      /\ pc[s] = "count" /\ pc'[s] = "save"
      /\ UNCHANGED << campaign, op, news, mine, closed >>
  BY DEF Count, Goto, Inv, TypeOK, past
<1>3. copy[s] \in Campaign
  BY DEF Count, Inv, Shape, Stages
<1>4. CASE s \in Worker /\ IsFinished(List(s))
  <2>1. AllTried
    BY <1>2, <1>4, FinishedTried
  <2> QED
    BY <1>1, <1>2, <2>1, TracedBy
<1>5. CASE ~(s \in Worker /\ IsFinished(List(s)))
  <2>1. copy'[s] = Recounted(copy[s], List(s))
    BY <1>5 DEF Count, Inv, TypeOK
  <2>2. copy'[s].status = copy[s].status
    <3> DEFINE list == List(s)
    <3>1. Recounted(copy[s], list).status = copy[s].status
      <4> HIDE DEF list
      <4> QED
        BY <1>3 DEF Recounted, Campaign
    <3> QED
      BY <2>1, <3>1
  <2> QED
    BY <1>1, <1>2, <1>3, <2>2, TracedBy
<1> QED
  BY <1>4, <1>5

LEMMA SaveTraced ==
  ASSUME Inv, Traces, NEW s \in Session, Save(s)
  PROVE  Traces'
<1>1. Kept /\ \A r \in Contact : RowTraced(r)'
  BY TableTraced DEF Save
<1>2. /\ \A p \in Session \ {s} : pc'[p] = pc[p]
      /\ pc'[s] = "commit" /\ copy[s] \in Campaign
      /\ UNCHANGED << campaign, op, news, mine, closed, copy >>
  BY DEF Save, Goto, Inv, TypeOK, Shape, Stages, past
<1> QED
  BY <1>1, <1>2, TracedBy

\* The commit of any handler.
LEMMA CommitEnds ==
  ASSUME Inv, Traces, NEW s \in Session, Committed(s), NEW stage, Goto(s, stage),
         stage \in { "idle", "load" },
         \A p \in Desk \ {s} : op'[p] = op[p],
         \A p \in Hook \ {s} : news'[p] = news[p] /\ mine'[p] = mine[p],
         closed => closed', s \in Desk /\ op[s] = "complete" => closed'
  PROVE  Traces'
<1>1. Kept /\ \A r \in Contact : RowTraced(r)'
  BY CommitTraced
<1>2. campaign \in Campaign /\ copy[s] \in Campaign /\ base[s] \in Campaign
  BY DEF Committed, Inv, TypeOK, Shape, Stages
<1>3. campaign'.status \in { campaign.status, copy[s].status }
  BY <1>2 DEF Committed, Merged, Campaign
<1>4. /\ \A p \in Session \ {s} : pc'[p] = pc[p] /\ copy'[p] = copy[p]
      /\ pc'[s] = stage /\ copy'[s] \notin Campaign
  BY NullAssumption DEF Committed, Forget, Goto, Inv, TypeOK
<1> QED
  BY <1>1, <1>2, <1>3, <1>4, TracedBy

LEMMA SenderTraced ==
  ASSUME Inv, Traces, NEW w \in Worker, Working(w) \/ AnswerLost(w)
  PROVE  Traces'
<1> w \in Session /\ w \notin Desk \cup Hook
  BY ConstantAssumption DEF Session
<1>1. ASSUME Begin(w) \/ Again(w) PROVE Traces'
  <2>1. Kept /\ \A r \in Contact : RowTraced(r)'
    BY <1>1, TableTraced DEF Begin, Again, Load
  <2>2. /\ \A p \in Session \ {w} : pc'[p] = pc[p] /\ copy'[p] = copy[p]
        /\ copy'[w] = copy[w] \/ copy'[w] = campaign
        /\ UNCHANGED << campaign, op, news, mine, closed >>
    BY <1>1 DEF Begin, Again, Load, Goto, Inv, TypeOK, past
  <2> QED
    BY <2>1, <2>2, TracedBy
<1>2. ASSUME Claim(w) PROVE Traces'
  <2>1. Kept /\ \A r \in Contact : RowTraced(r)'
    <3>1. CASE UNCHANGED table
      BY <3>1, TableTraced
    <3>2. ASSUME NEW r \in Contact, Claimable(r), R!Put(w, {r}, rows)
          PROVE  Kept /\ \A q \in Contact : RowTraced(q)'
      <4>1. Honest(rows[r]) /\ Follows(rows[r], rows[r])
        BY <3>2 DEF Claimable, Traces, RowTraced, Follows
      <4> QED
        BY <3>2, <4>1, PutTraced
    <3> QED
      BY <1>2, <3>1, <3>2 DEF Claim
  <2>2. /\ \A p \in Session \ {w} : pc'[p] = pc[p]
        /\ UNCHANGED << campaign, op, news, mine, closed, copy >>
    BY <1>2 DEF Claim, Goto, Inv, TypeOK, past
  <2> QED
    BY <2>1, <2>2, TracedBy
<1>3. ASSUME NEW r \in Held(w), NEW v \in Row, v.attempts # 0, Outcomes(w, r, v) PROVE Traces'
  <2>1. Kept /\ \A q \in Contact : RowTraced(q)'
    <3>1. Honest(v) /\ Follows(v, rows[r]) /\ r \in Contact
      BY <1>3, NullAssumption DEF Honest, Follows, Held
    <3>2. R!Put(w, {r}, [ q \in {r} |-> v ])
      BY <1>3 DEF Outcomes
    <3> QED
      BY <3>1, <3>2, PutTraced
  <2>2. /\ \A p \in Session \ {w} : pc'[p] = pc[p] /\ copy'[p] = copy[p]
        /\ copy'[w] = Recorded(copy[w], v.status # "failed")
        /\ UNCHANGED << campaign, op, news, mine, closed >>
    BY <1>3 DEF Outcomes, Goto, Inv, TypeOK
  <2>3. copy[w] \in Campaign
    BY <1>3 DEF Outcomes, Inv, Shape, Stages
  <2>4. copy'[w].status = copy[w].status
    BY <2>2, <2>3, EntityStatus
  <2> QED
    BY <2>1, <2>2, <2>3, <2>4, TracedBy
<1>4. ASSUME NEW r \in Held(w), pc[w] = "send" PROVE draft[r] \in Row /\ told[r] + 1 \in Nat
  <2>1. lock[r] = w /\ r \in Contact
    BY DEF Held
  <2> QED
    BY <2>1, NullAssumption DEF Inv, Shape, Locks, TypeOK
<1>5. ASSUME Accepted(w) PROVE Traces'
  <2>1. PICK r \in Held(w) : Outcomes(w, r, MarkedSent(draft[r], told[r] + 1))
    BY <1>5 DEF Accepted
  <2>2. draft[r] \in Row /\ told[r] + 1 \in Nat
    BY <2>1, <1>4 DEF Outcomes
  <2>3. /\ MarkedSent(draft[r], told[r] + 1) \in Row
        /\ MarkedSent(draft[r], told[r] + 1).attempts # 0
    BY <2>2, RecipientType, RecipientTraced
  <2> QED
    BY <1>3, <2>1, <2>3
<1>6. ASSUME Rejected(w) \/ AnswerLost(w) PROVE Traces'
  <2>1. PICK r \in Held(w) : Outcomes(w, r, MarkedFailed(draft[r]))
    BY <1>6 DEF Rejected, AnswerLost
  <2>2. draft[r] \in Row
    BY <2>1, <1>4 DEF Outcomes
  <2>3. MarkedFailed(draft[r]) \in Row /\ MarkedFailed(draft[r]).attempts # 0
    BY <2>2, RecipientType, RecipientTraced
  <2> QED
    BY <1>3, <2>1, <2>3
<1>7. ASSUME Record(w) PROVE Traces'
  <2>1. /\ Goto(w, "idle") \/ Goto(w, "load")
        /\ UNCHANGED << op, news, mine, closed >>
    BY <1>7 DEF Record, past
  <2>2. Committed(w)
    BY <1>7 DEF Record
  <2> QED
    BY <2>1, <2>2, CommitEnds
<1> QED
  BY <1>1, <1>2, <1>5, <1>6, <1>7, CountTraced, SaveTraced DEF Working

LEMMA DeskTraced ==
  ASSUME Inv, Traces, NEW d \in Desk,
         Start(d) \/ Pause(d) \/ Complete(d) \/ Retry(d) \/ Add(d) \/ Controlling(d)
  PROVE  Traces'
<1> d \in Session /\ d \notin Worker \cup Hook
  BY ConstantAssumption DEF Session
<1>0. campaign \in Campaign
  BY DEF Inv, TypeOK
<1>1. ASSUME NEW o \in Ops, NEW c \in Campaign, Control(d, o, c),
             c.status = "completed" => campaign.status = "completed" \/ o = "complete"
      PROVE  Traces'
  <2>1. Kept /\ \A r \in Contact : RowTraced(r)'
    BY <1>1, TableTraced DEF Control
  <2>2. /\ \A p \in Session \ {d} : pc'[p] = pc[p] /\ copy'[p] = copy[p]
        /\ \A p \in Desk \ {d} : op'[p] = op[p]
        /\ copy'[d] = c /\ op'[d] = o
        /\ UNCHANGED << campaign, news, mine, closed >>
    BY <1>1 DEF Control, Request, Goto, Inv, TypeOK, past
  <2>3. c.status # "completed" \/ c.status = campaign.status \/ o = "complete"
    BY <1>1
  <2> QED
    BY <2>1, <2>2, <2>3, TracedBy
<1>2. ASSUME Start(d) \/ Pause(d) PROVE Traces'
  <2>1. Started(campaign) \in Campaign /\ Paused(campaign) \in Campaign
    BY <1>0 DEF Started, Paused, Campaign
  <2>2. /\ Started(campaign).status = "completed" => campaign.status = "completed"
        /\ Paused(campaign).status = "completed" => campaign.status = "completed"
    BY <1>0 DEF Started, Paused, Campaign
  <2>3. \A o \in { "start", "pause" } : \A c : Control(d, o, c) => o \in Ops
    BY DEF Control, Request
  <2> QED
    BY <1>1, <1>2, <2>1, <2>2, <2>3 DEF Start, Pause
<1>3. ASSUME Complete(d) PROVE Traces'
  <2>1. Completed(campaign) \in Campaign /\ Control(d, "complete", Completed(campaign))
    BY <1>0, <1>3 DEF Complete, Completed, Campaign
  <2>2. "complete" \in Ops
    BY <2>1 DEF Control, Request
  <2> QED
    BY <1>1, <2>1, <2>2
<1>4. ASSUME Retry(d) \/ Add(d) PROVE Traces'
  <2>1. Kept /\ \A r \in Contact : RowTraced(r)'
    <3>1. CASE UNCHANGED table
      BY <3>1, TableTraced
    <3>2. ASSUME NEW r \in Contact, rows[r] = Null, R!Put(d, {r}, [ q \in {r} |-> Fresh ])
          PROVE  Kept /\ \A q \in Contact : RowTraced(q)'
      <4>1. Honest(Fresh) /\ Follows(Fresh, rows[r])
        BY <3>2 DEF Honest, Fresh, Follows
      <4> QED
        BY <3>2, <4>1, PutTraced
    <3> QED
      BY <1>4, <3>1, <3>2 DEF Retry, Add
  <2>2. /\ \A p \in Session \ {d} : pc'[p] = pc[p] /\ copy'[p] = copy[p]
        /\ \A p \in Desk \ {d} : op'[p] = op[p]
        /\ copy'[d] = campaign
        /\ UNCHANGED << campaign, news, mine, closed >>
    BY <1>4 DEF Retry, Add, Request, Goto, Inv, TypeOK, past
  <2> QED
    BY <2>1, <2>2, TracedBy
<1>5. ASSUME Reset(d) PROVE Traces'
  <2> DEFINE failed == { r \in Contact : rows[r] # Null /\ rows[r].status = "failed" }
             new == [ r \in failed |-> [ rows[r] EXCEPT !.status = "pending", !.sid = 0 ] ]
  <2>1. Kept /\ \A r \in Contact : RowTraced(r)'
    <3>1. R!Put(d, failed, new)
      BY <1>5 DEF Reset
    <3>2. ASSUME NEW r \in failed PROVE Honest(new[r]) /\ Follows(new[r], rows[r])
      <4>1. rows[r] \in Row /\ Honest(rows[r]) /\ rows[r].status # "pending"
        BY DEF Inv, TypeOK, Traces, RowTraced
      <4>2. rows[r].attempts # 0
        BY <4>1 DEF Honest
      <4>3. new[r].attempts = rows[r].attempts /\ new[r] \in Row
        BY <4>1, Statuses DEF Row
      <4> QED
        BY <4>2, <4>3, NullAssumption DEF Honest, Follows
    <3> HIDE DEF new
    <3>3. failed \in SUBSET Contact
      OBVIOUS
    <3> HIDE DEF failed
    <3> QED
      BY <3>1, <3>2, <3>3, PutTraced
  <2>2. /\ \A p \in Session \ {d} : pc'[p] = pc[p] /\ copy'[p] = copy[p]
        /\ copy'[d] \in { copy[d], Started(copy[d]) }
        /\ UNCHANGED << campaign, op, news, mine, closed >>
    BY <1>5 DEF Reset, Goto, Inv, TypeOK, past
  <2>3. copy[d] \in Campaign
    BY <1>5 DEF Reset, Inv, Shape, Stages
  <2>4. copy'[d].status = copy[d].status \/ copy'[d].status # "completed"
    BY <2>2, <2>3 DEF Started, Campaign
  <2> QED
    BY <2>1, <2>2, <2>3, <2>4, TracedBy
<1>6. ASSUME Settle(d) PROVE Traces'
  <2>1. /\ Committed(d) /\ Goto(d, "idle")
        /\ closed' = (closed \/ op[d] = "complete")
        /\ \A p \in Desk \ {d} : op'[p] = op[p]
        /\ UNCHANGED << news, mine >>
    BY <1>6 DEF Settle, Inv, TypeOK
  <2> QED
    BY <2>1, CommitEnds
<1> QED
  BY <1>2, <1>3, <1>4, <1>5, <1>6, CountTraced, SaveTraced DEF Controlling

LEMMA HookStepTraced ==
  ASSUME Inv, Traces, NEW h \in Hook, Receipt(h) \/ Reply(h) \/ Hooking(h)
  PROVE  Traces'
<1> h \in Session /\ h \notin Worker \cup Desk
  BY ConstantAssumption DEF Session
<1>1. ASSUME Receipt(h) \/ Fetch(h) \/ Reply(h) \/ Reread(h),
             pc'[h] \in { "fetch", "reread", "flush" } => HookTraced(h)'
      PROVE  Traces'
  <2>1. Kept /\ \A r \in Contact : RowTraced(r)'
    BY <1>1, TableTraced DEF Receipt, Fetch, Reply, Reread
  <2>2. /\ \A p \in Session \ {h} : pc'[p] = pc[p]
        /\ \A p \in Hook \ {h} : news'[p] = news[p] /\ mine'[p] = mine[p]
        /\ UNCHANGED << campaign, op, copy, closed >>
    BY <1>1 DEF Receipt, Fetch, Reply, Reread, Hold, Goto, Inv, TypeOK, past
  <2>3. copy[h] \in Campaign \/ copy'[h] \notin Campaign
    BY <2>2
  <2> QED
    BY <1>1, <2>1, <2>2, <2>3, TracedBy
<1>2. ASSUME NEW r \in Contact, NEW status, NEW v, Hold(h, r, status, v),
             rows' = rows, rows[r].attempts # 0,
             pc'[h] \in { "reread", "flush" } => v.attempts # 0
      PROVE  HookTraced(h)'
  <2>1. news'[h].to = r /\ mine'[h] = v
    BY <1>2 DEF Hold, Inv, TypeOK
  <2> QED
    BY <1>2, <2>1 DEF HookTraced
<1>3. ASSUME Receipt(h) PROVE Traces'
  <2>1. PICK r \in Contact, status \in Receipts :
          rows[r] # Null /\ rows[r].sid # 0 /\ Hold(h, r, status, Null)
    BY <1>3 DEF Receipt
  <2>2. rows[r].attempts # 0
    BY <2>1 DEF Traces, RowTraced, Honest
  <2>3. pc'[h] = "fetch" /\ rows' = rows
    BY <1>3 DEF Receipt, Goto, Inv, TypeOK, table
  <2> QED
    BY <1>1, <1>2, <1>3, <2>1, <2>2, <2>3
<1>4. ASSUME Reply(h) PROVE Traces'
  <2>1. PICK r \in Contact :
          rows[r] # Null /\ rows[r].thread /\ Hold(h, r, "replied", Advanced(rows[r], "replied"))
    BY <1>4 DEF Reply
  <2>2. rows[r].attempts # 0 /\ rows[r] \in Row
    BY <2>1 DEF Traces, RowTraced, Honest, Inv, TypeOK
  <2>3. Advanced(rows[r], "replied").attempts = rows[r].attempts
    BY <2>2 DEF Advanced, Row
  <2>4. rows' = rows
    BY <1>4 DEF Reply, table
  <2> QED
    BY <1>1, <1>2, <1>4, <2>1, <2>2, <2>3, <2>4
<1>5. ASSUME Fetch(h) PROVE Traces'
  <2> DEFINE r == news[h].to
  <2>1. /\ r \in Contact /\ rows[r] \in Row /\ rows[r].attempts # 0
    BY <1>5 DEF Fetch, Inv, TypeOK, Shape, Stages, Traces, HookTraced
  <2>2. Advanced(rows[r], news[h].as).attempts = rows[r].attempts
    BY <2>1 DEF Advanced, Row
  <2>3. rows' = rows
    BY <1>5 DEF Fetch, table
  <2>4. \/ Hold(h, r, news[h].as, Advanced(rows[r], news[h].as))
        \/ pc'[h] = "idle"
    BY <1>5 DEF Fetch, Goto, Inv, TypeOK
  <2> HIDE DEF r
  <2> QED
    BY <1>1, <1>2, <1>5, <2>1, <2>2, <2>3, <2>4
<1>6. ASSUME Reread(h) PROVE Traces'
  <2>1. pc[h] = "reread" /\ UNCHANGED << rows, news, mine >>
    BY <1>6 DEF Reread, table
  <2>2. HookTraced(h)
    BY DEF Traces
  <2>3. HookTraced(h)'
    BY <2>1, <2>2 DEF HookTraced
  <2> QED
    BY <1>1, <1>6, <2>3
<1>7. ASSUME Flush(h) PROVE Traces'
  <2> DEFINE r == news[h].to
             new == Merged(rows[r], base[h], mine[h])
  <2>1. /\ r \in Contact /\ rows[r] \in Row /\ rows[r].attempts # 0
        /\ mine[h] \in Row /\ mine[h].attempts # 0
    BY <1>7 DEF Flush, Inv, TypeOK, Shape, Stages, Traces, HookTraced
  <2>2. R!Put(h, {r}, [ q \in {r} |-> new ])
    BY <1>7 DEF Flush
  <2>3. new.attempts # 0 /\ new # Null
    <3>1. "attempts" \in DOMAIN rows[r] /\ new.attempts \in { mine[h].attempts, rows[r].attempts }
      BY <2>1 DEF Merged, Row
    <3>2. base[h] \in Row /\ mine[h].status # "pending"
      BY <1>7 DEF Flush, Inv, Shape, Stages
    <3>3. new \in Row
      BY <2>1, <3>2, MergedRow
    <3> QED
      BY <2>1, <3>1, <3>3, NullAssumption
  <2>4. Honest(new) /\ Follows(new, rows[r])
    BY <2>3 DEF Honest, Follows
  <2>5. /\ \A p \in Session \ {h} : pc'[p] = pc[p] /\ copy'[p] = copy[p]
        /\ \A p \in Hook \ {h} : news'[p] = news[p] /\ mine'[p] = mine[p]
        /\ pc'[h] = "count" /\ copy'[h] = campaign
        /\ UNCHANGED << campaign, op, closed >>
    BY <1>7 DEF Flush, Goto, Inv, TypeOK, past
  <2> HIDE DEF r, new
  <2>6. Kept /\ \A q \in Contact : RowTraced(q)'
    BY <2>1, <2>2, <2>4, PutTraced
  <2> QED
    BY <2>5, <2>6, TracedBy
<1>8. ASSUME Post(h) PROVE Traces'
  <2>1. /\ Committed(h) /\ Goto(h, "idle")
        /\ \A p \in Hook \ {h} : news'[p] = news[p]
        /\ UNCHANGED << op, mine, closed >>
    BY <1>8 DEF Post, Inv, TypeOK, past
  <2> QED
    BY <2>1, CommitEnds
<1> QED
  BY <1>3, <1>4, <1>5, <1>6, <1>7, <1>8, CountTraced, SaveTraced DEF Hooking

LEMMA FailureTraced ==
  ASSUME Inv, Traces, (\E s \in Session : Crash(s)) \/ RunLost
  PROVE  Traces'
<1>1. ASSUME NEW s \in Session, Crash(s) PROVE Traces'
  <2>1. Kept /\ \A r \in Contact : RowTraced(r)'
    BY <1>1, RollbackTraced DEF Crash
  <2>2. /\ \A p \in Session \ {s} : pc'[p] = pc[p] /\ copy'[p] = copy[p]
        /\ \A p \in Desk \ {s} : op'[p] = op[p]
        /\ \A p \in Hook \ {s} : news'[p] = news[p] /\ mine'[p] = mine[p]
        /\ pc'[s] = "idle" /\ copy'[s] \notin Campaign
        /\ UNCHANGED << campaign, closed >>
    BY <1>1, NullAssumption DEF Crash, Forget, Goto, Inv, TypeOK
  <2> QED
    BY <2>1, <2>2, TracedBy
<1>2. ASSUME RunLost PROVE Traces'
  <2>1. Kept /\ \A r \in Contact : RowTraced(r)'
    BY <1>2, TableTraced DEF RunLost
  <2>2. UNCHANGED << campaign, pc, op, news, mine, copy, closed >>
    BY <1>2 DEF RunLost, past
  <2> QED
    BY <2>1, <2>2, TracedStep
<1> QED
  BY <1>1, <1>2

LEMMA TracesInit == Init => Traces
<1> SUFFICES ASSUME Init PROVE Traces
  OBVIOUS
<1>1. \A r \in Contact : RowTraced(r)
  BY DEF Init, RowTraced, Honest, Fresh
<1>2. \A r \in Listed : rows[r] # Null
  <2>1. Fresh \in Row
    BY Statuses DEF Fresh, Row
  <2> QED
    BY <2>1, NullAssumption, ConstantAssumption DEF Init
<1>3. \A h \in Hook : HookTraced(h)
  BY DEF Init, HookTraced, Session
<1>4. Ended(campaign, Null) /\ \A s \in Session : Ended(copy[s], s)
  BY NullAssumption DEF Init, Ended
<1> QED
  BY <1>1, <1>2, <1>3, <1>4 DEF Traces

LEMMA TracesStep == Inv /\ Traces /\ [Next]_vars => Traces'
<1> SUFFICES ASSUME Inv, Traces, [Next]_vars PROVE Traces'
  OBVIOUS
<1>1. CASE UNCHANGED vars
  <2>1. Kept /\ \A r \in Contact : RowTraced(r)'
    BY <1>1, TableTraced DEF vars
  <2>2. UNCHANGED << campaign, pc, op, news, mine, copy, closed >>
    BY <1>1 DEF vars, past
  <2> QED
    BY <2>1, <2>2, TracedStep
<1> QED
  BY <1>1, SenderTraced, DeskTraced, HookStepTraced, FailureTraced DEF Next

\* When a sender completes a campaign everyone it was created with has been
\* attempted, however many senders skip each other's rows, crash or give up, and
\* whatever the desk and the hooks write back.
THEOREM EveryoneIsAttempted == Spec => []NobodyForgotten
<1>1. Inv /\ Traces => NobodyForgotten
  <2> SUFFICES ASSUME Inv, Traces, campaign.status = "completed", ~closed
               PROVE  \A r \in Listed : rows[r].attempts > 0
    BY DEF NobodyForgotten
  <2>1. AllTried
    BY NullAssumption DEF Inv, TypeOK, Traces, Ended, Session
  <2>2. \A r \in Listed : rows[r] \in Row
    BY <2>1, ConstantAssumption DEF AllTried, Inv, TypeOK
  <2> QED
    BY <2>1, <2>2 DEF AllTried, Row
<1> QED
  BY <1>1, InitInv, Step, TracesInit, TracesStep, PTL DEF Spec

------------------------------------------------------------------------------
(* The campaign claims no message that was not received *)

\* A row shows a message by its status, its id or its conversation.
Shows(v) ==
  v.status \in { "sent", "delivered", "read", "replied" } \/ v.sid # 0 \/ v.thread

\* Such a row is of a contact who received one.
Genuine(v, r) == Shows(v) => told[r] > 0

RowGenuine(r) ==
  /\ rows[r] # Null => Genuine(rows[r], r)
  /\ lock[r] # Null => Genuine(draft[r], r)

\* A hook handles the news of a contact who received a message.
HookGenuine(h) == pc[h] \in { "fetch", "reread", "flush" } => told[news[h].to] > 0

\* A version of the campaign claims no more than was received.
Within(c) == c \in Campaign => c.sent <= Cardinality(Messages)

Truthful ==
  /\ IsFiniteSet(Messages)
  /\ \A r \in Contact : RowGenuine(r)
  /\ \A h \in Hook : HookGenuine(h)
  /\ Within(campaign)
  /\ \A s \in Session : Within(copy[s])

\* What a step never does to what was received.
Heard ==
  /\ IsFiniteSet(Messages')
  /\ Cardinality(Messages) <= Cardinality(Messages')
  /\ \A r \in Contact : told[r] > 0 => told'[r] > 0

LEMMA MessageSet ==
  /\ \A m : m \in Messages <=> \E r \in Contact : \E n \in 1..told[r] : m = << r, n >>
  /\ \A m : m \in Messages' <=> \E r \in Contact : \E n \in 1..told'[r] : m = << r, n >>
  BY DEF Messages

\* Nothing is received, ...
LEMMA NotTold ==
  ASSUME Inv, Truthful, told' = told
  PROVE  Heard
  BY FS_CardinalityType DEF Heard, Truthful, Messages

\* ... or one message more.
LEMMA ToldOnce ==
  ASSUME Inv, Truthful, NEW r \in Contact, Tell(r)
  PROVE  /\ Heard
         /\ Cardinality(Messages') = Cardinality(Messages) + 1
         /\ told'[r] > 0
<1> DEFINE new == << r, told[r] + 1 >>
<1>1. /\ told[r] \in Nat /\ told'[r] = told[r] + 1
      /\ \A q \in Contact : q # r => told'[q] = told[q]
  BY DEF Tell, Inv, TypeOK
<1>2. new \notin Messages
  BY <1>1, MessageSet
<1>3. Messages' = Messages \cup {new}
  <2>1. \A m : m \in Messages \cup {new} => m \in Messages'
    <3>1. ASSUME NEW q \in Contact, NEW n \in 1..told[q]
          PROVE  << q, n >> \in Messages'
      <4>1. n \in 1..told'[q]
        BY <1>1
      <4> QED
        BY <4>1, MessageSet
    <3>2. new \in Messages'
      <4>1. told[r] + 1 \in 1..told'[r]
        BY <1>1
      <4> QED
        BY <4>1, MessageSet
    <3> QED
      BY <3>1, <3>2, MessageSet
  <2>2. ASSUME NEW q \in Contact, NEW n \in 1..told'[q]
        PROVE  << q, n >> \in Messages \cup {new}
    <3>1. CASE q # r
      BY <1>1, <3>1, MessageSet
    <3>2. CASE q = r /\ n = told[r] + 1
      BY <3>2
    <3>3. CASE q = r /\ n # told[r] + 1
      <4>1. n \in 1..told[r]
        BY <1>1, <3>3
      <4> QED
        BY <3>3, <4>1, MessageSet
    <3> QED
      BY <3>1, <3>2, <3>3
  <2> HIDE DEF new
  <2> QED
    BY <2>1, <2>2, MessageSet
<1> HIDE DEF new
<1>4. IsFiniteSet(Messages) /\ Cardinality(Messages) \in Nat
  BY FS_CardinalityType DEF Truthful
<1>5. IsFiniteSet(Messages') /\ Cardinality(Messages') = Cardinality(Messages) + 1
  BY <1>2, <1>3, <1>4, FS_AddElement
<1> QED
  BY <1>1, <1>4, <1>5 DEF Heard, Inv, TypeOK

\* Contacts who show a message, whoever counts them, are no more than the
\* messages received.
LEMMA ShownReceived ==
  ASSUME Inv, Truthful, NEW S \in SUBSET Contact, \A r \in S : told[r] > 0
  PROVE  Cardinality(S) \in Nat /\ Cardinality(S) <= Cardinality(Messages)
<1> DEFINE first == [ r \in S |-> << r, 1 >> ]
<1>1. \A r \in S : 1 \in 1..told[r]
  BY DEF Inv, TypeOK
<1>2. \A r \in S : << r, 1 >> \in Messages
  BY <1>1, MessageSet
<1>3. first \in Injection(S, Messages)
  BY <1>2 DEF Injection, IsInjective
<1> HIDE DEF first
<1>4. Cardinality(S) <= Cardinality(Messages)
  BY <1>3, FS_Injection DEF Truthful
<1> QED
  BY <1>4, CardinalityOfContacts

LEMMA TableGenuine ==
  ASSUME Truthful, Heard, UNCHANGED table
  PROVE  \A r \in Contact : RowGenuine(r)'
<1> SUFFICES ASSUME NEW r \in Contact PROVE RowGenuine(r)'
  OBVIOUS
<1>1. RowGenuine(r) /\ (told[r] > 0 => told'[r] > 0)
  BY DEF Truthful, Heard
<1> QED
  BY <1>1 DEF table, RowGenuine, Genuine

LEMMA PutGenuine ==
  ASSUME Truthful, Heard, NEW s \in Session, NEW ids \in SUBSET Contact, NEW new,
         R!Put(s, ids, new), \A r \in ids : (Shows(new[r]) => told'[r] > 0)
  PROVE  \A r \in Contact : RowGenuine(r)'
<1> SUFFICES ASSUME NEW r \in Contact PROVE RowGenuine(r)'
  OBVIOUS
<1>0. RowGenuine(r) /\ (told[r] > 0 => told'[r] > 0) /\ rows' = rows
  BY DEF Truthful, Heard, R!Put
<1>1. CASE r \in ids
  <2>1. draft'[r] = new[r]
    BY <1>1 DEF R!Put
  <2> QED
    BY <1>0, <1>1, <2>1 DEF RowGenuine, Genuine
<1>2. CASE r \notin ids
  <2>1. draft'[r] = draft[r] /\ lock'[r] = lock[r]
    BY <1>2 DEF R!Put
  <2> QED
    BY <1>0, <2>1 DEF RowGenuine, Genuine
<1> QED
  BY <1>1, <1>2

LEMMA CommitGenuine ==
  ASSUME Inv, Truthful, Heard, NEW s \in Session, Committed(s)
  PROVE  \A r \in Contact : RowGenuine(r)'
<1> SUFFICES ASSUME NEW r \in Contact PROVE RowGenuine(r)'
  OBVIOUS
<1>0. RowGenuine(r) /\ (told[r] > 0 => told'[r] > 0)
  BY DEF Truthful, Heard
<1>1. CASE lock[r] = s
  <2>1. rows'[r] = draft[r] /\ lock'[r] = Null /\ lock[r] # Null
    BY <1>1, CommitRows, NullAssumption
  <2> QED
    BY <1>0, <2>1 DEF RowGenuine, Genuine
<1>2. CASE lock[r] # s
  <2>1. rows'[r] = rows[r] /\ draft'[r] = draft[r] /\ lock'[r] = lock[r]
    BY <1>2, CommitRows
  <2> QED
    BY <1>0, <2>1 DEF RowGenuine, Genuine
<1> QED
  BY <1>1, <1>2

LEMMA RollbackGenuine ==
  ASSUME Truthful, Heard, NEW s \in Session, R!Rollback(s)
  PROVE  \A r \in Contact : RowGenuine(r)'
<1> SUFFICES ASSUME NEW r \in Contact PROVE RowGenuine(r)'
  OBVIOUS
<1>0. RowGenuine(r) /\ (told[r] > 0 => told'[r] > 0) /\ rows' = rows
  BY DEF Truthful, Heard, R!Rollback
<1>1. lock'[r] # Null => lock[r] # Null /\ draft'[r] = draft[r]
  BY DEF R!Rollback, R!Unlock
<1> QED
  BY <1>0, <1>1 DEF RowGenuine, Genuine

\* The rest follows from what session s does to the campaign and to its copy.
LEMMA TruthBy ==
  ASSUME Inv, Truthful, Heard, \A r \in Contact : RowGenuine(r)', NEW s \in Session,
         \A p \in Session \ {s} : pc'[p] = pc[p] /\ copy'[p] = copy[p],
         \A p \in Hook \ {s} : news'[p] = news[p],
         s \in Hook => \/ pc'[s] \notin { "fetch", "reread", "flush" }
                       \/ /\ pc[s] \in { "fetch", "reread", "flush" }
                          /\ news'[s].to = news[s].to
                       \/ told[news'[s].to] > 0 /\ news'[s].to \in Contact,
         \/ campaign' = campaign
         \/ campaign'.sent \in { campaign.sent, copy[s].sent } /\ copy[s] \in Campaign,
         \/ copy'[s] \notin Campaign
         \/ copy'[s].sent \in Nat /\ copy'[s].sent <= Cardinality(Messages')
         \/ copy[s] \in Campaign /\ copy'[s].sent = copy[s].sent
         \/ copy'[s].sent = campaign.sent
  PROVE  Truthful'
<1>1. /\ Cardinality(Messages) \in Nat /\ Cardinality(Messages') \in Nat
      /\ Cardinality(Messages) <= Cardinality(Messages')
  BY FS_CardinalityType DEF Truthful, Heard
<1>2. \A c \in Campaign : c.sent \in Nat
  BY DEF Campaign
<1>3. campaign \in Campaign /\ Within(campaign) /\ \A p \in Session : Within(copy[p])
  BY DEF Inv, TypeOK, Truthful
<1>4. Within(campaign)'
  BY <1>1, <1>2, <1>3 DEF Within
<1>5. ASSUME NEW p \in Session PROVE Within(copy[p])'
  <2>1. CASE p = s
    BY <1>1, <1>2, <1>3, <2>1 DEF Within
  <2>2. CASE p # s
    BY <1>1, <1>2, <1>3, <2>2 DEF Within
  <2> QED
    BY <2>1, <2>2
<1>6. ASSUME NEW h \in Hook PROVE HookGenuine(h)'
  <2>1. CASE h # s
    <3>1. pc'[h] = pc[h] /\ news'[h] = news[h]
      BY <2>1 DEF Session
    <3>2. pc[h] \in { "fetch", "reread", "flush" } => news[h].to \in Contact
      BY DEF Inv, Shape, Stages
    <3> QED
      BY <3>1, <3>2 DEF Truthful, Heard, HookGenuine
  <2>2. CASE h = s
    <3>1. pc[h] \in { "fetch", "reread", "flush" } => news[h].to \in Contact
      BY DEF Inv, Shape, Stages
    <3> QED
      BY <2>2, <3>1 DEF Truthful, Heard, HookGenuine
  <2> QED
    BY <2>1, <2>2
<1> QED
  BY <1>4, <1>5, <1>6 DEF Truthful, Heard

LEMMA CountTruth ==
  ASSUME Inv, Truthful, NEW s \in Session, Count(s)
  PROVE  Truthful'
<1>0. Heard
  BY NotTold DEF Count, past
<1>1. \A r \in Contact : RowGenuine(r)'
  BY <1>0, TableGenuine DEF Count
<1> DEFINE list == List(s)
           Sent == { r \in DOMAIN list :
                       list[r].status # "failed" /\ Rank[list[r].status] >= Rank["sent"] }
<1>2. \A r \in Sent : r \in Contact /\ told[r] > 0
  <2> SUFFICES ASSUME NEW r \in Sent PROVE r \in Contact /\ told[r] > 0
    OBVIOUS
  <2>1. r \in Contact /\ list[r] = R!Seen(s, r) /\ R!Seen(s, r) # Null
    BY DEF List
  <2>2. list[r] \in Row /\ Genuine(list[r], r)
    <3>1. CASE lock[r] = s
      <4>1. list[r] = draft[r] /\ lock[r] # Null
        BY <2>1, <3>1, NullAssumption DEF R!Seen
      <4> QED
        BY <2>1, <4>1 DEF Inv, TypeOK, Truthful, RowGenuine
    <3>2. CASE lock[r] # s
      <4>1. list[r] = rows[r] /\ rows[r] # Null
        BY <2>1, <3>2 DEF R!Seen
      <4> QED
        BY <2>1, <4>1 DEF Inv, TypeOK, Truthful, RowGenuine
    <3> QED
      BY <3>1, <3>2
  <2>3. list[r].status \in { "sent", "delivered", "read", "replied" }
    <3>1. list[r].status \in { "pending", "sent", "delivered", "read", "replied", "failed" }
      BY <2>2, Statuses DEF Row
    <3>2. list[r].status # "failed" /\ Rank[list[r].status] >= Rank["sent"]
      OBVIOUS
    <3>3. Rank["pending"] = 0 /\ Rank["sent"] = 1
      BY DEF Rank
    <3> HIDE DEF list
    <3> QED
      BY <3>1, <3>2, <3>3
  <2> HIDE DEF list, Sent
  <2> QED
    BY <2>1, <2>2, <2>3 DEF Genuine, Shows
<1>3. Cardinality(Sent) \in Nat /\ Cardinality(Sent) <= Cardinality(Messages)
  <2> HIDE DEF list, Sent
  <2>1. Sent \in SUBSET Contact
    BY <1>2
  <2> QED
    BY <1>2, <2>1, ShownReceived
<1>4. copy[s] \in Campaign
  BY DEF Count, Inv, Shape, Stages
<1>5. copy'[s].sent = Cardinality(Sent)
  <2>1. copy'[s] \in { Recounted(copy[s], list), Completed(Recounted(copy[s], list)) }
    BY DEF Count, Inv, TypeOK
  <2>2. \A c \in Campaign : Completed(c).sent = c.sent
    BY DEF Completed, Campaign
  <2>3. DOMAIN list \subseteq Contact
    BY DEF List
  <2>4. Recounted(copy[s], list) \in Campaign
    <3> HIDE DEF list
    <3> QED
      BY <1>4, <2>3, EntityType
  <2>5. Recounted(copy[s], list).sent = Cardinality(Sent)
    <3> HIDE DEF list
    <3> QED
      BY <1>4 DEF Recounted, Campaign
  <2> HIDE DEF list, Sent
  <2> QED
    BY <2>1, <2>2, <2>4, <2>5
<1>6. /\ \A p \in Session \ {s} : pc'[p] = pc[p] /\ copy'[p] = copy[p]
      /\ pc'[s] = "save"
      /\ UNCHANGED << campaign, news >>
  BY DEF Count, Goto, Inv, TypeOK
<1>7. Messages' = Messages
  BY DEF Count, past, Messages
<1> HIDE DEF list, Sent
<1> QED
  BY <1>0, <1>1, <1>3, <1>5, <1>6, <1>7, TruthBy

LEMMA SaveTruth ==
  ASSUME Inv, Truthful, NEW s \in Session, Save(s)
  PROVE  Truthful'
<1>0. Heard
  BY NotTold DEF Save, past
<1>1. \A r \in Contact : RowGenuine(r)'
  BY <1>0, TableGenuine DEF Save
<1>2. /\ \A p \in Session \ {s} : pc'[p] = pc[p]
      /\ pc'[s] = "commit" /\ copy[s] \in Campaign
      /\ UNCHANGED << campaign, news, copy >>
  BY DEF Save, Goto, Inv, TypeOK, Shape, Stages
<1> QED
  BY <1>0, <1>1, <1>2, TruthBy

\* A commit writes a count that the handler read or made.
LEMMA CommitTruth ==
  ASSUME Inv, Truthful, NEW s \in Session, Committed(s), NEW stage, Goto(s, stage),
         stage \in { "idle", "load" }, \A p \in Hook \ {s} : news'[p] = news[p],
         told' = told
  PROVE  Truthful'
<1>0. Heard
  BY NotTold
<1>1. \A r \in Contact : RowGenuine(r)'
  BY <1>0, CommitGenuine
<1>2. campaign \in Campaign /\ copy[s] \in Campaign /\ base[s] \in Campaign
  BY DEF Committed, Inv, TypeOK, Shape, Stages
<1>3. campaign'.sent \in { campaign.sent, copy[s].sent }
  BY <1>2 DEF Committed, Merged, Campaign
<1>4. /\ \A p \in Session \ {s} : pc'[p] = pc[p] /\ copy'[p] = copy[p]
      /\ pc'[s] = stage /\ copy'[s] \notin Campaign
  BY NullAssumption DEF Committed, Forget, Goto, Inv, TypeOK
<1> QED
  BY <1>0, <1>1, <1>2, <1>3, <1>4, TruthBy

LEMMA SenderTruth ==
  ASSUME Inv, Truthful, NEW w \in Worker, Working(w) \/ AnswerLost(w)
  PROVE  Truthful'
<1> w \in Session /\ w \notin Desk \cup Hook
  BY ConstantAssumption DEF Session
<1>1. ASSUME Begin(w) \/ Again(w) PROVE Truthful'
  <2>0. Heard
    BY <1>1, NotTold DEF Begin, Again, Load, past
  <2>1. \A r \in Contact : RowGenuine(r)'
    BY <1>1, <2>0, TableGenuine DEF Begin, Again, Load
  <2>2. /\ \A p \in Session \ {w} : pc'[p] = pc[p] /\ copy'[p] = copy[p]
        /\ copy'[w] = copy[w] \/ copy'[w] = campaign
        /\ UNCHANGED << campaign, news >>
    BY <1>1 DEF Begin, Again, Load, Goto, Inv, TypeOK
  <2> QED
    BY <2>0, <2>1, <2>2, TruthBy
<1>2. ASSUME Claim(w) PROVE Truthful'
  <2>0. Heard
    BY <1>2, NotTold DEF Claim, past
  <2>1. \A r \in Contact : RowGenuine(r)'
    <3>1. CASE UNCHANGED table
      BY <2>0, <3>1, TableGenuine
    <3>2. ASSUME NEW r \in Contact, Claimable(r), R!Put(w, {r}, rows)
          PROVE  \A q \in Contact : RowGenuine(q)'
      <4>1. Genuine(rows[r], r)
        BY <3>2 DEF Claimable, Truthful, RowGenuine
      <4>2. \A q \in {r} : Shows(rows[q]) => told'[q] > 0
        BY <2>0, <3>2, <4>1 DEF Heard, Genuine
      <4> QED
        BY <2>0, <3>2, <4>2, PutGenuine
    <3> QED
      BY <1>2, <3>1, <3>2 DEF Claim
  <2>2. /\ \A p \in Session \ {w} : pc'[p] = pc[p]
        /\ UNCHANGED << campaign, news, copy >>
    BY <1>2 DEF Claim, Goto, Inv, TypeOK
  <2> QED
    BY <2>0, <2>1, <2>2, TruthBy
<1>3. ASSUME NEW r \in Held(w), NEW v \in Row, Outcomes(w, r, v), Heard, (Shows(v) => told'[r] > 0),
             v.status # "failed" => Cardinality(Messages') = Cardinality(Messages) + 1
      PROVE  Truthful'
  <2>0. r \in Contact
    BY DEF Held
  <2>1. \A q \in Contact : RowGenuine(q)'
    <3>1. R!Put(w, {r}, [ q \in {r} |-> v ])
      BY <1>3 DEF Outcomes
    <3> DEFINE new == [ q \in {r} |-> v ]
    <3>2. new[r] = v
      OBVIOUS
    <3>3. \A q \in {r} : (Shows(new[q]) => told'[q] > 0)
      BY <1>3
    <3> HIDE DEF new
    <3> QED
      BY <1>3, <2>0, <3>1, <3>3, PutGenuine DEF new
  <2>2. /\ \A p \in Session \ {w} : pc'[p] = pc[p] /\ copy'[p] = copy[p]
        /\ copy'[w] = Recorded(copy[w], v.status # "failed")
        /\ UNCHANGED << campaign, news >>
    BY <1>3 DEF Outcomes, Goto, Inv, TypeOK
  <2>3. copy[w] \in Campaign
    BY <1>3 DEF Outcomes, Inv, Shape, Stages
  <2>4. copy[w].sent \in Nat /\ copy[w].sent <= Cardinality(Messages)
    BY <2>3 DEF Campaign, Truthful, Within
  <2>5. copy'[w].sent = IF v.status # "failed" THEN copy[w].sent + 1 ELSE copy[w].sent
    BY <2>2, <2>3 DEF Recorded, Campaign
  <2>6. /\ Cardinality(Messages) \in Nat /\ Cardinality(Messages') \in Nat
        /\ Cardinality(Messages) <= Cardinality(Messages')
    BY <1>3, FS_CardinalityType DEF Truthful, Heard
  <2>7. copy'[w].sent \in Nat /\ copy'[w].sent <= Cardinality(Messages')
    BY <1>3, <2>4, <2>5, <2>6
  <2> QED
    BY <1>3, <2>1, <2>2, <2>7, TruthBy
<1>4. ASSUME NEW r \in Held(w), pc[w] = "send"
      PROVE  /\ r \in Contact /\ draft[r] \in Row /\ Genuine(draft[r], r)
             /\ told[r] + 1 \in Nat
  <2>1. lock[r] = w /\ r \in Contact
    BY DEF Held
  <2> QED
    BY <2>1, NullAssumption DEF Inv, Shape, Locks, TypeOK, Truthful, RowGenuine
<1>5. ASSUME Accepted(w) PROVE Truthful'
  <2>1. PICK r \in Held(w) : /\ Outcomes(w, r, MarkedSent(draft[r], told[r] + 1))
                             /\ Tell(r)
    BY <1>5 DEF Accepted
  <2> DEFINE v == MarkedSent(draft[r], told[r] + 1)
  <2>2. r \in Contact /\ draft[r] \in Row /\ told[r] + 1 \in Nat
    BY <2>1, <1>4 DEF Outcomes
  <2>3. v \in Row
    BY <2>2, RecipientType
  <2>4. /\ Heard /\ told'[r] > 0
        /\ Cardinality(Messages') = Cardinality(Messages) + 1
    BY <2>1, <2>2, ToldOnce
  <2> HIDE DEF v
  <2>5. (Shows(v) => told'[r] > 0)
    BY <2>4
  <2>6. Outcomes(w, r, v)
    BY <2>1 DEF v
  <2> QED
    BY <1>3, <2>3, <2>4, <2>5, <2>6
<1>6. ASSUME Rejected(w) \/ AnswerLost(w) PROVE Truthful'
  <2>1. PICK r \in Held(w) : /\ Outcomes(w, r, MarkedFailed(draft[r]))
                             /\ told' = told \/ Tell(r)
    BY <1>6 DEF Rejected, AnswerLost
  <2> DEFINE v == MarkedFailed(draft[r])
  <2>2. r \in Contact /\ draft[r] \in Row /\ Genuine(draft[r], r)
    BY <2>1, <1>4 DEF Outcomes
  <2>3. v \in Row /\ v.status = "failed" /\ v.sid = draft[r].sid /\ v.thread = draft[r].thread
    BY <2>2, RecipientType DEF MarkedFailed, Row
  <2>4. Heard
    BY <2>1, <2>2, ToldOnce, NotTold
  <2> HIDE DEF v
  <2>5. (Shows(v) => told'[r] > 0)
    BY <2>2, <2>3, <2>4 DEF Genuine, Shows, Heard
  <2>6. Outcomes(w, r, v)
    BY <2>1 DEF v
  <2> QED
    BY <1>3, <2>3, <2>4, <2>5, <2>6
<1>7. ASSUME Record(w) PROVE Truthful'
  <2>1. /\ Goto(w, "idle") \/ Goto(w, "load")
        /\ news' = news /\ told' = told
    BY <1>7 DEF Record, past
  <2>2. Committed(w)
    BY <1>7 DEF Record
  <2> QED
    BY <2>1, <2>2, CommitTruth
<1> QED
  BY <1>1, <1>2, <1>5, <1>6, <1>7, CountTruth, SaveTruth DEF Working

LEMMA DeskTruth ==
  ASSUME Inv, Truthful, NEW d \in Desk,
         Start(d) \/ Pause(d) \/ Complete(d) \/ Retry(d) \/ Add(d) \/ Controlling(d)
  PROVE  Truthful'
<1> d \in Session /\ d \notin Worker \cup Hook
  BY ConstantAssumption DEF Session
<1>0. campaign \in Campaign
  BY DEF Inv, TypeOK
<1>1. ASSUME NEW o, NEW c \in Campaign, Control(d, o, c), c.sent = campaign.sent
      PROVE  Truthful'
  <2>0. Heard
    BY <1>1, NotTold DEF Control, past
  <2>1. \A r \in Contact : RowGenuine(r)'
    BY <1>1, <2>0, TableGenuine DEF Control
  <2>2. /\ \A p \in Session \ {d} : pc'[p] = pc[p] /\ copy'[p] = copy[p]
        /\ copy'[d].sent = campaign.sent
        /\ UNCHANGED << campaign, news >>
    BY <1>1 DEF Control, Goto, Inv, TypeOK
  <2> QED
    BY <2>0, <2>1, <2>2, TruthBy
<1>2. ASSUME Start(d) \/ Pause(d) \/ Complete(d) PROVE Truthful'
  <2>1. /\ Started(campaign) \in Campaign /\ Paused(campaign) \in Campaign
        /\ Completed(campaign) \in Campaign
    BY <1>0 DEF Started, Paused, Completed, Campaign
  <2>2. /\ Started(campaign).sent = campaign.sent /\ Paused(campaign).sent = campaign.sent
        /\ Completed(campaign).sent = campaign.sent
    BY <1>0 DEF Started, Paused, Completed, Campaign
  <2> QED
    BY <1>1, <1>2, <2>1, <2>2 DEF Start, Pause, Complete
<1>3. ASSUME Retry(d) \/ Add(d) PROVE Truthful'
  <2>0. Heard
    BY <1>3, NotTold DEF Retry, Add, past
  <2>1. \A r \in Contact : RowGenuine(r)'
    <3>1. CASE UNCHANGED table
      BY <2>0, <3>1, TableGenuine
    <3>2. ASSUME NEW r \in Contact, R!Put(d, {r}, [ q \in {r} |-> Fresh ])
          PROVE  \A q \in Contact : RowGenuine(q)'
      <4> DEFINE new == [ q \in {r} |-> Fresh ]
      <4>1. \A q \in {r} : (Shows(new[q]) => told'[q] > 0)
        BY DEF Shows, Fresh
      <4> HIDE DEF new
      <4> QED
        BY <2>0, <3>2, <4>1, PutGenuine DEF new
    <3> QED
      BY <1>3, <3>1, <3>2 DEF Retry, Add
  <2>2. /\ \A p \in Session \ {d} : pc'[p] = pc[p] /\ copy'[p] = copy[p]
        /\ copy'[d] = campaign
        /\ UNCHANGED << campaign, news >>
    BY <1>3 DEF Retry, Add, Request, Goto, Inv, TypeOK
  <2> QED
    BY <2>0, <2>1, <2>2, TruthBy
<1>4. ASSUME Reset(d) PROVE Truthful'
  <2> DEFINE failed == { r \in Contact : rows[r] # Null /\ rows[r].status = "failed" }
             new == [ r \in failed |-> [ rows[r] EXCEPT !.status = "pending", !.sid = 0 ] ]
  <2>0. Heard
    BY <1>4, NotTold DEF Reset, past
  <2>1. \A r \in Contact : RowGenuine(r)'
    <3>1. R!Put(d, failed, new)
      BY <1>4 DEF Reset
    <3>2. ASSUME NEW r \in failed PROVE (Shows(new[r]) => told'[r] > 0)
      <4>1. r \in Contact /\ rows[r] \in Row /\ Genuine(rows[r], r)
        BY DEF Inv, TypeOK, Truthful, RowGenuine
      <4>2. /\ new[r].status = "pending" /\ new[r].sid = 0
            /\ new[r].thread = rows[r].thread
        BY <4>1 DEF Row
      <4>3. new[r].thread => told'[r] > 0
        BY <2>0, <4>1, <4>2 DEF Genuine, Shows, Heard
      <4> HIDE DEF new, failed
      <4> QED
        BY <4>2, <4>3 DEF Shows
    <3> HIDE DEF new
    <3>3. failed \in SUBSET Contact
      OBVIOUS
    <3> HIDE DEF failed
    <3> QED
      BY <2>0, <3>1, <3>2, <3>3, PutGenuine
  <2>2. /\ \A p \in Session \ {d} : pc'[p] = pc[p] /\ copy'[p] = copy[p]
        /\ copy'[d] \in { copy[d], Started(copy[d]) }
        /\ UNCHANGED << campaign, news >>
    BY <1>4 DEF Reset, Goto, Inv, TypeOK
  <2>3. copy[d] \in Campaign
    BY <1>4 DEF Reset, Inv, Shape, Stages
  <2>4. copy'[d].sent = copy[d].sent
    BY <2>2, <2>3 DEF Started, Campaign
  <2> QED
    BY <2>0, <2>1, <2>2, <2>3, <2>4, TruthBy
<1>5. ASSUME Settle(d) PROVE Truthful'
  BY <1>5, CommitTruth DEF Settle
<1> QED
  BY <1>2, <1>3, <1>4, <1>5, CountTruth, SaveTruth DEF Controlling

LEMMA HookTruth ==
  ASSUME Inv, Truthful, NEW h \in Hook, Receipt(h) \/ Reply(h) \/ Hooking(h)
  PROVE  Truthful'
<1> h \in Session /\ h \notin Worker \cup Desk
  BY ConstantAssumption DEF Session
<1>1. ASSUME Receipt(h) \/ Reply(h) PROVE Truthful'
  <2>0. Heard
    BY <1>1, NotTold DEF Receipt, Reply, past
  <2>1. \A r \in Contact : RowGenuine(r)'
    BY <1>1, <2>0, TableGenuine DEF Receipt, Reply
  <2>2. PICK r \in Contact : /\ rows[r] # Null
                             /\ rows[r].sid # 0 \/ rows[r].thread
                             /\ \E status, v : Hold(h, r, status, v)
    BY <1>1 DEF Receipt, Reply
  <2>3. told[r] > 0
    BY <2>2 DEF Truthful, RowGenuine, Genuine, Shows
  <2>4. news'[h].to = r
    BY <2>2 DEF Hold, Inv, TypeOK
  <2>5. /\ \A p \in Session \ {h} : pc'[p] = pc[p]
        /\ \A p \in Hook \ {h} : news'[p] = news[p]
        /\ UNCHANGED << campaign, copy >>
    BY <1>1 DEF Receipt, Reply, Hold, Goto, Inv, TypeOK
  <2>6. copy[h] \in Campaign \/ copy'[h] \notin Campaign
    BY <2>5
  <2> QED
    BY <2>0, <2>1, <2>3, <2>4, <2>5, <2>6, TruthBy
<1>2. ASSUME Fetch(h) \/ Reread(h) PROVE Truthful'
  <2>0. Heard
    BY <1>2, NotTold DEF Fetch, Reread, past
  <2>1. \A r \in Contact : RowGenuine(r)'
    BY <1>2, <2>0, TableGenuine DEF Fetch, Reread
  <2>2. /\ \A p \in Session \ {h} : pc'[p] = pc[p]
        /\ \A p \in Hook \ {h} : news'[p] = news[p]
        /\ pc[h] \in { "fetch", "reread" }
        /\ pc'[h] = "idle" \/ news'[h].to = news[h].to
        /\ UNCHANGED << campaign, copy >>
    BY <1>2 DEF Fetch, Reread, Hold, Goto, Inv, TypeOK
  <2>3. copy[h] \in Campaign \/ copy'[h] \notin Campaign
    BY <2>2
  <2> QED
    BY <2>0, <2>1, <2>2, <2>3, TruthBy
<1>3. ASSUME Flush(h) PROVE Truthful'
  <2> DEFINE r == news[h].to
             new == [ q \in {r} |-> Merged(rows[r], base[h], mine[h]) ]
  <2>0. Heard
    BY <1>3, NotTold DEF Flush, past
  <2>1. \A q \in Contact : RowGenuine(q)'
    <3>1. r \in Contact /\ told[r] > 0
      BY <1>3 DEF Flush, Inv, Shape, Stages, Truthful, HookGenuine
    <3>2. R!Put(h, {r}, new)
      BY <1>3 DEF Flush
    <3> HIDE DEF new, r
    <3>3. told'[r] > 0
      BY <2>0, <3>1 DEF Heard
    <3>4. \A q \in {r} : (Shows(new[q]) => told'[q] > 0)
      BY <3>3
    <3> QED
      BY <2>0, <3>1, <3>2, <3>4, PutGenuine
  <2>2. /\ \A p \in Session \ {h} : pc'[p] = pc[p] /\ copy'[p] = copy[p]
        /\ pc'[h] = "count" /\ copy'[h] = campaign
        /\ UNCHANGED << campaign, news >>
    BY <1>3 DEF Flush, Goto, Inv, TypeOK
  <2> QED
    BY <2>0, <2>1, <2>2, TruthBy
<1>4. ASSUME Post(h) PROVE Truthful'
  <2>1. /\ Committed(h) /\ Goto(h, "idle")
        /\ \A p \in Hook \ {h} : news'[p] = news[p]
        /\ told' = told
    BY <1>4 DEF Post, Inv, TypeOK, past
  <2> QED
    BY <2>1, CommitTruth
<1> QED
  BY <1>1, <1>2, <1>3, <1>4, CountTruth, SaveTruth DEF Hooking

LEMMA FailureTruth ==
  ASSUME Inv, Truthful, (\E s \in Session : Crash(s)) \/ RunLost
  PROVE  Truthful'
<1>1. ASSUME NEW s \in Session, Crash(s) PROVE Truthful'
  <2>0. Heard
    BY <1>1, NotTold DEF Crash
  <2>1. \A r \in Contact : RowGenuine(r)'
    BY <1>1, <2>0, RollbackGenuine DEF Crash
  <2>2. /\ \A p \in Session \ {s} : pc'[p] = pc[p] /\ copy'[p] = copy[p]
        /\ \A p \in Hook \ {s} : news'[p] = news[p]
        /\ pc'[s] = "idle" /\ copy'[s] \notin Campaign
        /\ campaign' = campaign
    BY <1>1, NullAssumption DEF Crash, Forget, Goto, Inv, TypeOK
  <2> QED
    BY <2>0, <2>1, <2>2, TruthBy
<1>2. ASSUME RunLost PROVE Truthful'
  <2>0. Heard
    BY <1>2, NotTold DEF RunLost, past
  <2>1. \A r \in Contact : RowGenuine(r)'
    BY <1>2, <2>0, TableGenuine DEF RunLost
  <2>2. UNCHANGED << campaign, pc, news, copy, told >>
    BY <1>2 DEF RunLost, past
  <2> QED
    BY <2>0, <2>1, <2>2 DEF Truthful, HookGenuine, Within, Messages
<1> QED
  BY <1>1, <1>2

LEMMA TruthInit == Init => Truthful
<1> SUFFICES ASSUME Init PROVE Truthful
  OBVIOUS
<1>1. \A r \in Contact : RowGenuine(r)
  BY DEF Init, RowGenuine, Genuine, Shows, Fresh
<1>2. \A h \in Hook : HookGenuine(h)
  BY DEF Init, HookGenuine, Session
<1>3. Messages = {}
  <2>1. \A r \in Contact : told[r] = 0
    BY DEF Init
  <2> QED
    BY <2>1 DEF Messages
<1>4. IsFiniteSet(Messages) /\ Cardinality(Messages) = 0
  BY <1>3, FS_EmptySet
<1>5. campaign.sent = 0 /\ \A s \in Session : copy[s] \notin Campaign
  BY NullAssumption DEF Init
<1> QED
  BY <1>1, <1>2, <1>4, <1>5 DEF Truthful, Within

LEMMA TruthStep == Inv /\ Truthful /\ [Next]_vars => Truthful'
<1> SUFFICES ASSUME Inv, Truthful, [Next]_vars PROVE Truthful'
  OBVIOUS
<1>1. CASE UNCHANGED vars
  BY <1>1 DEF vars, table, past, Truthful, RowGenuine, Genuine, HookGenuine, Within, Messages
<1> QED
  BY <1>1, SenderTruth, DeskTruth, HookTruth, FailureTruth DEF Next

\* The campaign never claims to have sent more messages than its contacts have
\* received, for any number of contacts, senders and hooks: no receipt that
\* arrives twice, late or out of order, no retry and no old copy inflates it.
THEOREM CountsAreHonest == Spec => []NotInflated
<1>1. Inv /\ Truthful => NotInflated
  BY DEF Inv, TypeOK, Truthful, Within, NotInflated
<1> QED
  BY <1>1, InitInv, Step, TruthInit, TruthStep, PTL DEF Spec

==============================================================================
