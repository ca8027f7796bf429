-------------------------- MODULE ConversationProofs --------------------------
(***************************************************************************)
(* Theorems about the conversations with a language model.  Answers: every *)
(* state is of its type, the answers that were admitted together pass the  *)
(* allowance of a day by at most one each, and no conversation says        *)
(* anything twice or answers what was not asked, for any number of         *)
(* requests, sessions, days and crashes.  Interviews: no question is       *)
(* skipped however requests overlap, the report of a candidate who waits   *)
(* is whole, and the last turn is finalized, for any number of questions,  *)
(* requests and crashes.                                                   *)
(***************************************************************************)
EXTENDS Answers, Interviews, FiniteSetTheorems, TLAPS

-----------------------------------------------------------------------------
(* Answers: types *)

\* A message that is added is one of the request's, which has begun.
LEMMA AddedType ==
  ASSUME TypeOK, NEW w \in Worker, NEW role \in { "user", "assistant", "greeting" },
         number[w] # 0, Added(w, role)
  PROVE  messages' \in [ Session -> Seq(Message) ]
<1>1. [ role |-> role, by |-> << w, number[w] >> ] \in Message
  BY DEF TypeOK, Message
<1>2. at[w] \in Session /\ messages[at[w]] \in Seq(Message)
  BY DEF TypeOK
<1>3. Append(messages[at[w]], [ role |-> role, by |-> << w, number[w] >> ]) \in Seq(Message)
  BY <1>1, <1>2
<1>4. QED
  BY <1>2, <1>3 DEF TypeOK, Added

\* A request that is under way has begun.
Begun == \A w \in Worker : pc[w] # "idle" => number[w] # 0

TypeInv == TypeOK /\ Begun

LEMMA TypeInit == Init => TypeInv
<1> SUFFICES ASSUME Init PROVE TypeInv
  OBVIOUS
<1>1. messages \in [ Session -> Seq(Message) ]
  BY DEF Init
<1>2. used \in [ Day -> Nat ] /\ day \in Day
  BY ConstantAssumption DEF Init, Day
<1> QED
  BY <1>1, <1>2, ConstantAssumption DEF Init, TypeInv, TypeOK, Begun

\* Steps of one request that go on to another stage.
LEMMA GotoType ==
  ASSUME TypeInv, NEW w \in Worker,
         NEW stage \in { "idle", "arriving", "admitting", "generating", "storing", "excusing" },
         pc[w] # "idle", Goto(w, stage)
  PROVE  /\ pc' \in [ Worker -> { "idle", "arriving", "admitting", "generating", "storing",
                                  "excusing" } ]
         /\ kind' = kind /\ at' = at /\ number' = number
         /\ Begun'
  BY DEF TypeInv, TypeOK, Begun, Goto

LEMMA EndedType ==
  ASSUME TypeInv, NEW w \in Worker, Ended(w)
  PROVE  /\ pc' \in [ Worker -> { "idle", "arriving", "admitting", "generating", "storing",
                                  "excusing" } ]
         /\ kind' \in [ Worker -> Kinds \cup { "none" } ]
         /\ cost' \in [ Worker -> 0 .. MaxCost ]
         /\ at' = at /\ number' = number
         /\ Begun'
  BY ConstantAssumption DEF TypeInv, TypeOK, Begun, Ended

LEMMA TypeStep == TypeInv /\ [Next]_vars => TypeInv'
<1> SUFFICES ASSUME TypeInv, [Next]_vars PROVE TypeInv'
  OBVIOUS
<1> USE ConstantAssumption
<1>1. CASE Midnight
  BY <1>1 DEF Midnight, TypeInv, TypeOK, Begun, Day
<1>2. ASSUME NEW w \in Worker, NEW k \in Kinds, NEW s \in Session, Arrive(w, k, s)
      PROVE  TypeInv'
  BY <1>2 DEF Arrive, TypeInv, TypeOK, Begun
<1>3. ASSUME NEW w \in Worker, StoreInbound(w) \/ AskPublicStream(w) \/ Admit(w)
      PROVE  TypeInv'
  <2>1. pc[w] = "arriving" /\ number[w] # 0 /\ Added(w, "user")
    BY <1>3 DEF StoreInbound, AskPublicStream, Admit, TypeInv, Begun
  <2>2. messages' \in [ Session -> Seq(Message) ]
    BY <2>1, AddedType DEF TypeInv
  <2>3. Goto(w, "admitting") \/ Goto(w, "generating")
    BY <1>3 DEF StoreInbound, AskPublicStream, Admit
  <2>4. /\ pc' \in [ Worker -> { "idle", "arriving", "admitting", "generating", "storing",
                                 "excusing" } ]
        /\ kind' = kind /\ at' = at /\ number' = number
        /\ Begun'
    BY <2>1, <2>3, GotoType
  <2>5. UNCHANGED << used, day, cost, faults >>
    BY <1>3 DEF StoreInbound, AskPublicStream, Admit
  <2> QED
    BY <2>2, <2>4, <2>5 DEF TypeInv, TypeOK
<1>4. ASSUME NEW w \in Worker, AdmitStored(w) \/ Greet(w)
      PROVE  TypeInv'
  <2>1. pc[w] # "idle" /\ Goto(w, "generating") /\ UNCHANGED << messages, used, day, cost, faults >>
    BY <1>4 DEF AdmitStored, Greet
  <2> QED
    BY <2>1, GotoType DEF TypeInv, TypeOK
<1>5. ASSUME NEW w \in Worker, Refused(w) \/ GenerationFails(w)
      PROVE  TypeInv'
  <2>1. pc[w] # "idle" /\ Unanswered(w) /\ UNCHANGED << messages, used, day, faults >>
    BY <1>5 DEF Refused, GenerationFails
  <2>2. CASE Ended(w)
    BY <2>1, <2>2, EndedType DEF TypeInv, TypeOK
  <2>3. CASE Goto(w, "excusing") /\ UNCHANGED cost
    BY <2>1, <2>3, GotoType DEF TypeInv, TypeOK
  <2> QED
    BY <2>1, <2>2, <2>3 DEF Unanswered
<1>6. ASSUME NEW w \in Worker, Generate(w)
      PROVE  TypeInv'
  <2>1. cost' \in [ Worker -> 0 .. MaxCost ]
    BY <1>6 DEF Generate, TypeInv, TypeOK
  <2>2. pc[w] # "idle" /\ Goto(w, "storing") /\ UNCHANGED << messages, used, day, faults >>
    BY <1>6 DEF Generate
  <2> QED
    BY <2>1, <2>2, GotoType DEF TypeInv, TypeOK
<1>7. ASSUME NEW w \in Worker, StoreAnswer(w)
      PROVE  TypeInv'
  <2>1. number[w] # 0 /\ Ended(w) /\ UNCHANGED << day, faults >>
    BY <1>7 DEF StoreAnswer, TypeInv, Begun
  <2>2. Added(w, "greeting") \/ Added(w, "assistant")
    BY <1>7 DEF StoreAnswer
  <2>3. messages' \in [ Session -> Seq(Message) ]
    BY <2>1, <2>2, AddedType DEF TypeInv
  <2>4. used' \in [ Day -> Nat ]
    <3>1. cost[w] \in Nat /\ day \in Day /\ used[day] \in Nat
      BY DEF TypeInv, TypeOK
    <3>2. used' = [ used EXCEPT ![day] = @ + cost[w] ]
      BY <1>7 DEF StoreAnswer
    <3> QED
      BY <3>1, <3>2 DEF TypeInv, TypeOK
  <2> QED
    BY <2>1, <2>3, <2>4, EndedType DEF TypeInv, TypeOK
<1>8. ASSUME NEW w \in Worker, Excuse(w)
      PROVE  TypeInv'
  <2>1. number[w] # 0 /\ Ended(w) /\ UNCHANGED << used, day, faults >>
    BY <1>8 DEF Excuse, TypeInv, Begun
  <2>2. messages' \in [ Session -> Seq(Message) ]
    BY <1>8, <2>1, AddedType DEF Excuse, TypeInv, TypeOK
  <2> QED
    BY <2>1, <2>2, EndedType DEF TypeInv, TypeOK
<1>9. ASSUME NEW w \in Worker, Disconnect(w) \/ Crash(w)
      PROVE  TypeInv'
  <2>1. Ended(w) /\ UNCHANGED << messages, used, day >>
    BY <1>9 DEF Disconnect, Crash
  <2>2. faults' \in 0 .. MaxFaults
    BY <1>9 DEF Disconnect, Crash, TypeInv, TypeOK
  <2> QED
    BY <2>1, <2>2, EndedType DEF TypeInv, TypeOK
<1>10. CASE UNCHANGED vars
  BY <1>10 DEF vars, TypeInv, TypeOK, Begun
<1> QED
  BY <1>1, <1>2, <1>3, <1>4, <1>5, <1>6, <1>7, <1>8, <1>9, <1>10
  DEF Next, Step, AskStream, RunAgent, AskChatbot, AskFrontOffice

\* Every message, counter and request is of its type.
THEOREM TypeCorrect == Spec => []TypeOK
<1>1. TypeInv => TypeOK
  BY DEF TypeInv
<1> QED
  BY <1>1, TypeInit, TypeStep, PTL DEF Spec

-----------------------------------------------------------------------------
(* Answers: the allowance *)

\* The requests that were admitted and have not stored their answer.
Admitted == { w \in Worker : pc[w] \in { "generating", "storing" } }

\* What the counter may still reach today: each of the admitted adds one answer.
Reserved == used[day] + MaxCost * Cardinality(Admitted)

Limit == Quota + MaxCost * Cardinality(Worker)

Room ==
  /\ \A d \in Day : used[d] < Limit
  /\ \A d \in Day : d > day => used[d] = 0
  /\ Reserved < Limit

QuotaInv == TypeInv /\ Room

LEMMA Workers == Cardinality(Worker) \in Nat /\ Cardinality(Worker) # 0
  BY ConstantAssumption, FS_CardinalityType, FS_EmptySet

LEMMA SubsetOfWorkers ==
  ASSUME NEW S \in SUBSET Worker
  PROVE  /\ IsFiniteSet(S) /\ Cardinality(S) \in Nat
         /\ Cardinality(S) <= Cardinality(Worker)
  BY ConstantAssumption, FS_Subset, FS_CardinalityType

LEMMA Times ==
  ASSUME NEW n \in Nat, NEW m \in Nat, n <= m
  PROVE  /\ MaxCost * n \in Nat /\ MaxCost * m \in Nat
         /\ MaxCost * n <= MaxCost * m
         /\ MaxCost * (n + 1) = MaxCost * n + MaxCost
<1>1. PICK k \in Nat : m = n + k
  <2> WITNESS m - n \in Nat
  <2> QED OBVIOUS
<1>2. MaxCost \in Nat
  BY ConstantAssumption
<1>3. MaxCost * n \in Nat /\ MaxCost * k \in Nat /\ MaxCost * m \in Nat
  BY <1>2
<1>4. MaxCost * (n + k) = MaxCost * n + MaxCost * k
  BY <1>2
<1>5. MaxCost * (n + 1) = MaxCost * n + MaxCost
  BY <1>2
<1> QED
  BY <1>1, <1>3, <1>4, <1>5

\* Whatever happens to the others, fewer admitted requests reserve no more.
LEMMA Fewer ==
  ASSUME QuotaInv, TypeOK', UNCHANGED << used, day >>, Admitted' \subseteq Admitted
  PROVE  Room'
<1>1. Admitted \in SUBSET Worker /\ Admitted' \in SUBSET Worker
  BY DEF Admitted
<1>2. Cardinality(Admitted') <= Cardinality(Admitted)
  BY <1>1, SubsetOfWorkers, FS_Subset
<1>3. /\ MaxCost * Cardinality(Admitted') <= MaxCost * Cardinality(Admitted)
      /\ MaxCost * Cardinality(Admitted') \in Nat /\ MaxCost * Cardinality(Admitted) \in Nat
  BY <1>1, <1>2, SubsetOfWorkers, Times
<1>4. used[day] \in Nat
  BY DEF QuotaInv, TypeInv, TypeOK
<1>5. Limit \in Nat
  <2>1. MaxCost * Cardinality(Worker) \in Nat
    BY Workers, Times
  <2> QED
    BY <2>1, ConstantAssumption DEF Limit
<1>6. Reserved' = used[day] + MaxCost * Cardinality(Admitted')
  BY DEF Reserved
<1>7. used[day] + MaxCost * Cardinality(Admitted) < Limit
  BY DEF QuotaInv, Room, Reserved
<1> HIDE DEF Limit
<1>8. Reserved' < Limit
  BY <1>3, <1>4, <1>5, <1>6, <1>7
<1> QED
  BY <1>8 DEF QuotaInv, Room, Limit

\* A request is admitted while the counter is below the allowance, so that one
\* answer of each worker is what can be on top of it.
LEMMA OneMore ==
  ASSUME QuotaInv, TypeOK', UNCHANGED << used, day >>, QuotaLeft
  PROVE  Room'
<1>1. Admitted' \in SUBSET Worker
  BY DEF Admitted
<1>2. /\ MaxCost * Cardinality(Admitted') <= MaxCost * Cardinality(Worker)
      /\ MaxCost * Cardinality(Admitted') \in Nat /\ MaxCost * Cardinality(Worker) \in Nat
  BY <1>1, SubsetOfWorkers, Times, Workers
<1>3. used[day] \in Nat /\ Quota \in Nat
  BY ConstantAssumption DEF QuotaInv, TypeInv, TypeOK
<1>4. Reserved' = used[day] + MaxCost * Cardinality(Admitted')
  BY DEF Reserved
<1>5. Reserved' < Limit
  BY <1>2, <1>3, <1>4 DEF QuotaLeft, Limit
<1> QED
  BY <1>5 DEF QuotaInv, Room, Limit

LEMMA QuotaInit == Init => QuotaInv
<1> SUFFICES ASSUME Init PROVE QuotaInv
  OBVIOUS
<1>1. TypeInv
  BY TypeInit
<1>2. Admitted = {}
  BY DEF Init, Admitted
<1>3. Cardinality(Admitted) = 0
  BY <1>2, FS_EmptySet
<1>4. Quota \in Nat \ { 0 } /\ MaxCost * Cardinality(Worker) \in Nat /\ MaxCost * 0 = 0
  BY ConstantAssumption, Workers, Times
<1>5. Limit > 0 /\ Limit \in Nat
  BY <1>4 DEF Limit
<1>6. \A d \in Day : used[d] = 0
  BY DEF Init
<1>7. day \in Day
  BY <1>1 DEF TypeInv, TypeOK
<1>8. Reserved = 0
  BY <1>3, <1>4, <1>6, <1>7 DEF Reserved
<1> QED
  BY <1>1, <1>5, <1>6, <1>8 DEF QuotaInv, Room

LEMMA QuotaStep == QuotaInv /\ [Next]_vars => QuotaInv'
<1> SUFFICES ASSUME QuotaInv, [Next]_vars PROVE QuotaInv'
  OBVIOUS
<1>0. TypeInv' /\ TypeOK'
  BY TypeStep DEF QuotaInv, TypeInv
<1>1. CASE Midnight
  <2>1. day' = day + 1 /\ day' \in Day /\ used' = used /\ Admitted' = Admitted
    BY <1>0, <1>1 DEF Midnight, TypeInv, TypeOK, Admitted
  <2>2. day \in Nat /\ day' > day
    BY <2>1 DEF QuotaInv, TypeInv, TypeOK, Day
  <2>3. used[day'] = 0
    BY <2>1, <2>2 DEF QuotaInv, Room
  <2>4. Admitted \in SUBSET Worker
    BY DEF Admitted
  <2>5. /\ MaxCost * Cardinality(Admitted) <= MaxCost * Cardinality(Worker)
        /\ MaxCost * Cardinality(Admitted) \in Nat /\ MaxCost * Cardinality(Worker) \in Nat
    BY <2>4, SubsetOfWorkers, Times, Workers
  <2>6. Reserved' = 0 + MaxCost * Cardinality(Admitted)
    BY <2>1, <2>3 DEF Reserved
  <2>7. Reserved' < Limit
    BY <2>5, <2>6, ConstantAssumption DEF Limit
  <2>8. \A d \in Day : d > day' => used[d] = 0
    <3> SUFFICES ASSUME NEW d \in Day, d > day' PROVE used[d] = 0
      OBVIOUS
    <3>1. d > day
      BY <2>1, <2>2 DEF Day
    <3> QED
      BY <3>1 DEF QuotaInv, Room
  <2> QED
    BY <1>0, <2>1, <2>7, <2>8 DEF QuotaInv, Room, Limit
<1>2. ASSUME NEW w \in Worker, StoreAnswer(w)
      PROVE  QuotaInv'
  <2>1. pc[w] = "storing" /\ pc' = [ pc EXCEPT ![w] = "idle" ] /\ day' = day
    BY <1>2 DEF StoreAnswer, Ended
  <2>2. w \in Admitted /\ Admitted' = Admitted \ { w } /\ Admitted \in SUBSET Worker
    BY <2>1 DEF Admitted, QuotaInv, TypeInv, TypeOK
  <2>3. /\ Cardinality(Admitted) = Cardinality(Admitted') + 1
        /\ Cardinality(Admitted') \in Nat
    <3>1. IsFiniteSet(Admitted) /\ IsFiniteSet(Admitted')
      BY <2>2, SubsetOfWorkers
    <3>2. w \notin Admitted' /\ Admitted = Admitted' \cup { w }
      BY <2>2
    <3> QED
      BY <3>1, <3>2, FS_AddElement, FS_CardinalityType
  <2> DEFINE n == MaxCost * Cardinality(Admitted')
  <2>4. MaxCost * Cardinality(Admitted) = n + MaxCost /\ n \in Nat
    BY <2>3, Times
  <2>5. used' = [ used EXCEPT ![day] = @ + cost[w] ]
    BY <1>2 DEF StoreAnswer
  <2>6. /\ cost[w] \in Nat /\ cost[w] <= MaxCost /\ MaxCost \in Nat
        /\ day \in Day /\ used \in [ Day -> Nat ] /\ Limit \in Nat
    BY ConstantAssumption, Workers, Times DEF QuotaInv, TypeInv, TypeOK, Limit
  <2>7. used[day] + (n + MaxCost) < Limit
    BY <2>4 DEF QuotaInv, Room, Reserved
  <2> HIDE DEF n
  <2>8. used'[day] = used[day] + cost[w] /\ \A d \in Day : d # day => used'[d] = used[d]
    BY <2>5, <2>6
  <2>9. used'[day] + n < Limit /\ used'[day] < Limit
    BY <2>4, <2>6, <2>7, <2>8
  <2>10. Reserved' = used'[day] + n
    BY <2>1 DEF Reserved, n
  <2>11. \A d \in Day : used'[d] < Limit
    BY <2>8, <2>9 DEF QuotaInv, Room
  <2>12. \A d \in Day : d > day => used'[d] = 0
    BY <2>6, <2>8 DEF QuotaInv, Room, Day
  <2> QED
    BY <1>0, <2>1, <2>9, <2>10, <2>11, <2>12 DEF QuotaInv, Room, Limit
<1>3. ASSUME NEW w \in Worker, Admit(w) \/ AdmitStored(w) \/ Greet(w)
      PROVE  QuotaInv'
  <2>1. QuotaLeft /\ UNCHANGED << used, day >>
    BY <1>3 DEF Admit, AdmitStored, Greet
  <2> QED
    BY <1>0, <2>1, OneMore DEF QuotaInv
<1>4. ASSUME NEW w \in Worker,
             \/ \E k \in Kinds, s \in Session : Arrive(w, k, s)
             \/ StoreInbound(w) \/ AskPublicStream(w) \/ Refused(w) \/ Generate(w)
             \/ GenerationFails(w) \/ Excuse(w) \/ Disconnect(w) \/ Crash(w)
      PROVE  QuotaInv'
  <2>1. UNCHANGED << used, day >>
    BY <1>4 DEF Arrive, StoreInbound, AskPublicStream, Refused, Generate, GenerationFails,
                Excuse, Disconnect, Crash
  <2>2. PICK stage : /\ pc' = [ pc EXCEPT ![w] = stage ]
                     /\ stage \in { "generating", "storing" } => pc[w] = "generating"
    BY <1>4 DEF Arrive, StoreInbound, AskPublicStream, Refused, Generate, GenerationFails,
                Excuse, Disconnect, Crash, Unanswered, Goto, Ended
  <2>3. Admitted' \subseteq Admitted
    BY <2>2 DEF Admitted, QuotaInv, TypeInv, TypeOK
  <2> QED
    BY <1>0, <2>1, <2>3, Fewer DEF QuotaInv
<1>5. CASE UNCHANGED vars
  <2>1. UNCHANGED << used, day >> /\ Admitted' \subseteq Admitted
    BY <1>5 DEF vars, Admitted
  <2> QED
    BY <1>0, <2>1, Fewer DEF QuotaInv
<1> QED
  BY <1>1, <1>2, <1>3, <1>4, <1>5
  DEF Next, Step, AskStream, RunAgent, AskChatbot, AskFrontOffice

\* However many requests are answered at once, on whatever endpoint, and
\* however midnight falls among them, a day's counter passes the allowance by
\* less than one answer for each of them.
THEOREM AllowanceHolds == Spec => []QuotaBounded
<1>1. QuotaInv => QuotaBounded
  <2> SUFFICES ASSUME QuotaInv PROVE QuotaBounded
    OBVIOUS
  <2>1. Limit = Quota + Cardinality(Worker) * MaxCost
    BY ConstantAssumption, Workers DEF Limit
  <2> QED
    BY <2>1 DEF QuotaInv, Room, QuotaBounded
<1> QED
  BY <1>1, QuotaInit, QuotaStep, PTL DEF Spec

-----------------------------------------------------------------------------
(* Answers: conversations *)

Spoken(s) == { messages[s][i] : i \in DOMAIN messages[s] }

Name(w) == << w, number[w] >>

\* What a request has said so far: nothing until it is admitted, and its message,
\* without an answer, as long as it is under way.
Tale(w) ==
  /\ pc[w] = "arriving" => \A s \in Session : \A m \in Spoken(s) : m.by # Name(w)
  /\ pc[w] \notin { "idle", "arriving" } =>
       /\ \A s \in Session : \A m \in Spoken(s) : m.by = Name(w) => m.role = "user"
       /\ kind[w] # "greeting" => [ role |-> "user", by |-> Name(w) ] \in Spoken(at[w])
  /\ pc[w] = "excusing" => kind[w] = "relay"

\* Every message is of a request that has begun.
Past == \A s \in Session : \A m \in Spoken(s) : m.by[2] <= number[m.by[1]]

StoryInv ==
  /\ TypeInv
  /\ TurnsAreWhole
  /\ Past
  /\ \A w \in Worker : Tale(w)

Whole(said) ==
  \A i \in DOMAIN said :
    /\ \A j \in DOMAIN said : said[i] = said[j] => i = j
    /\ said[i].role = "assistant" =>
         \E j \in 1 .. i - 1 : said[j] = [ role |-> "user", by |-> said[i].by ]

\* A conversation stays whole when a new message is added to it, if an answer
\* comes after its message.
LEMMA WholeAppend ==
  ASSUME NEW said \in Seq(Message), NEW m \in Message, Whole(said),
         \A i \in DOMAIN said : said[i] # m,
         m.role = "assistant" => \E i \in DOMAIN said : said[i] = [ role |-> "user", by |-> m.by ]
  PROVE  Whole(Append(said, m))
<1> DEFINE n == Len(said)
           new == Append(said, m)
<1>1. n \in Nat /\ DOMAIN said = 1 .. n /\ DOMAIN new = 1 .. n + 1
  OBVIOUS
<1>2. new[n + 1] = m /\ \A i \in 1 .. n : new[i] = said[i]
  OBVIOUS
<1> HIDE DEF n, new
<1> SUFFICES ASSUME NEW i \in 1 .. n + 1
             PROVE  /\ \A j \in 1 .. n + 1 : new[i] = new[j] => i = j
                    /\ new[i].role = "assistant" =>
                         \E j \in 1 .. i - 1 : new[j] = [ role |-> "user", by |-> new[i].by ]
  BY <1>1 DEF Whole, new
<1>3. \A j \in 1 .. n + 1 : new[i] = new[j] => i = j
  <2> SUFFICES ASSUME NEW j \in 1 .. n + 1, new[i] = new[j] PROVE i = j
    OBVIOUS
  <2>1. CASE i \in 1 .. n /\ j \in 1 .. n
    BY <1>1, <1>2, <2>1 DEF Whole
  <2>2. CASE i = n + 1 \/ j = n + 1
    BY <1>1, <1>2, <2>2
  <2> QED
    BY <1>1, <2>1, <2>2
<1>4. ASSUME new[i].role = "assistant"
      PROVE  \E j \in 1 .. i - 1 : new[j] = [ role |-> "user", by |-> new[i].by ]
  <2>1. CASE i \in 1 .. n
    <3>1. PICK j \in 1 .. i - 1 : said[j] = [ role |-> "user", by |-> said[i].by ]
      BY <1>1, <1>2, <1>4, <2>1 DEF Whole
    <3>2. j \in 1 .. n /\ new[j] = said[j] /\ new[i] = said[i]
      BY <1>1, <1>2, <2>1
    <3> QED
      BY <3>1, <3>2
  <2>2. CASE i = n + 1
    <3>1. PICK j \in 1 .. n : said[j] = [ role |-> "user", by |-> m.by ]
      BY <1>1, <1>2, <1>4, <2>2
    <3>2. j \in 1 .. i - 1 /\ new[j] = said[j] /\ new[i] = m
      BY <1>1, <1>2, <2>2
    <3> QED
      BY <3>1, <3>2
  <2> QED
    BY <1>1, <2>1, <2>2
<1> QED
  BY <1>3, <1>4

\* What the sessions say once a message is added.
LEMMA AddedSaid ==
  ASSUME TypeInv, NEW w \in Worker, NEW role \in { "user", "assistant", "greeting" },
         number[w] # 0, Added(w, role),
         NEW m, m = [ role |-> role, by |-> Name(w) ]
  PROVE  /\ m \in Message /\ at[w] \in Session /\ messages[at[w]] \in Seq(Message)
         /\ messages'[at[w]] = Append(messages[at[w]], m)
         /\ \A s \in Session : s # at[w] => messages'[s] = messages[s]
         /\ \A s \in Session : Spoken(s)' = IF s = at[w] THEN Spoken(s) \cup { m } ELSE Spoken(s)
<1>1. m \in Message
  BY DEF TypeInv, TypeOK, Message, Name
<1>2. at[w] \in Session /\ messages[at[w]] \in Seq(Message)
  BY DEF TypeInv, TypeOK
<1>3. messages'[at[w]] = Append(messages[at[w]], m)
  BY <1>2 DEF TypeInv, TypeOK, Added, Name
<1>4. \A s \in Session : s # at[w] => messages'[s] = messages[s]
  BY <1>2 DEF TypeInv, TypeOK, Added
<1>5. Spoken(at[w]) \cup { m } = { messages'[at[w]][i] : i \in DOMAIN messages'[at[w]] }
  <2> DEFINE said == messages[at[w]]
             new == Append(said, m)
  <2>1. said \in Seq(Message)
    BY <1>2
  <2> HIDE DEF said
  <2>2. /\ Len(said) \in Nat /\ DOMAIN said = 1 .. Len(said)
        /\ DOMAIN new = 1 .. Len(said) + 1 /\ new[Len(said) + 1] = m
        /\ \A i \in 1 .. Len(said) : new[i] = said[i]
    BY <1>1, <2>1
  <2> HIDE DEF new
  <2>3. { new[i] : i \in DOMAIN new } = { said[i] : i \in DOMAIN said } \cup { m }
    <3>1. 1 .. Len(said) + 1 = (1 .. Len(said)) \cup { Len(said) + 1 }
      BY <2>2
    <3> QED
      BY <2>2, <3>1
  <2> QED
    BY <1>3, <2>3 DEF Spoken, new, said
<1>6. \A s \in Session : Spoken(s)' = IF s = at[w] THEN Spoken(s) \cup { m } ELSE Spoken(s)
  BY <1>4, <1>5 DEF Spoken
<1> QED
  BY <1>1, <1>2, <1>3, <1>4, <1>6

\* A request that adds its message or its answer leaves every conversation whole.
LEMMA AddedWhole ==
  ASSUME StoryInv, NEW w \in Worker, NEW role \in { "user", "assistant", "greeting" },
         number[w] # 0, Added(w, role),
         NEW m, m = [ role |-> role, by |-> Name(w) ], m \notin Spoken(at[w]),
         role = "assistant" => [ role |-> "user", by |-> Name(w) ] \in Spoken(at[w])
  PROVE  TurnsAreWhole'
<1>1. /\ m \in Message /\ at[w] \in Session /\ messages[at[w]] \in Seq(Message)
      /\ messages'[at[w]] = Append(messages[at[w]], m)
      /\ \A s \in Session : s # at[w] => messages'[s] = messages[s]
  BY AddedSaid DEF StoryInv
<1>2. \A s \in Session : Whole(messages[s])
  BY DEF StoryInv, TurnsAreWhole, Whole
<1>3. m.role = role /\ m.by = Name(w)
  OBVIOUS
<1>4. \A i \in DOMAIN messages[at[w]] : messages[at[w]][i] # m
  BY DEF Spoken
<1>5. m.role = "assistant" =>
        \E i \in DOMAIN messages[at[w]] :
          messages[at[w]][i] = [ role |-> "user", by |-> m.by ]
  BY <1>3 DEF Spoken
<1>6. Whole(Append(messages[at[w]], m))
  BY <1>1, <1>2, <1>4, <1>5, WholeAppend
<1>7. \A s \in Session : Whole(messages'[s])
  BY <1>1, <1>2, <1>6
<1> QED
  BY <1>7 DEF TurnsAreWhole, Whole

\* A request is not disturbed by another that adds what is its own.
LEMMA OtherTales ==
  ASSUME StoryInv, NEW w \in Worker, NEW v \in Worker \ { w },
         pc'[v] = pc[v], kind'[v] = kind[v], at'[v] = at[v], number'[v] = number[v],
         \A s \in Session :
           /\ Spoken(s) \subseteq Spoken(s)'
           /\ \A x \in Spoken(s)' : x \in Spoken(s) \/ x.by[1] = w
  PROVE  Tale(v)'
<1>1. Tale(v) /\ at[v] \in Session /\ Name(v)' = Name(v) /\ Name(v)[1] = v
  BY DEF StoryInv, TypeInv, TypeOK, Name
<1>2. \A s \in Session : \A x \in Spoken(s)' : x.by = Name(v) => x \in Spoken(s)
  BY <1>1
<1>3. pc'[v] = "arriving" => \A s \in Session : \A x \in Spoken(s)' : x.by # Name(v)'
  BY <1>1, <1>2 DEF Tale
<1>4. pc'[v] \notin { "idle", "arriving" } =>
        \A s \in Session : \A x \in Spoken(s)' : x.by = Name(v)' => x.role = "user"
  BY <1>1, <1>2 DEF Tale
<1>5. pc'[v] \notin { "idle", "arriving" } =>
        (kind'[v] # "greeting" => [ role |-> "user", by |-> Name(v)' ] \in Spoken(at[v])')
  <2> SUFFICES ASSUME pc'[v] \notin { "idle", "arriving" }, kind'[v] # "greeting"
               PROVE  [ role |-> "user", by |-> Name(v)' ]
                        \in { messages'[at'[v]][i] : i \in DOMAIN messages'[at'[v]] }
    BY DEF Spoken
  <2>1. [ role |-> "user", by |-> Name(v) ] \in Spoken(at[v])
    BY <1>1 DEF Tale
  <2>2. Spoken(at[v]) \subseteq { messages'[at[v]][i] : i \in DOMAIN messages'[at[v]] }
    BY <1>1 DEF Spoken
  <2> QED
    BY <1>1, <2>1, <2>2
<1>6. pc'[v] = "excusing" => kind'[v] = "relay"
  BY <1>1 DEF Tale
<1> QED
  BY <1>3, <1>4, <1>5, <1>6 DEF Tale

\* A step of a request that adds nothing and goes on, or ends.
LEMMA StoryQuiet ==
  ASSUME StoryInv, TypeInv', NEW w \in Worker,
         messages' = messages, at' = at, number' = number,
         \/ Ended(w)
         \/ \E stage : /\ Goto(w, stage)
                       /\ stage # "arriving"
                       /\ stage = "excusing" => kind[w] = "relay"
                       /\ \/ pc[w] \notin { "idle", "arriving" }
                          \/ pc[w] = "arriving" /\ kind[w] = "greeting"
  PROVE  StoryInv'
<1>1. TurnsAreWhole'
  BY DEF StoryInv, TurnsAreWhole
<1>2. \A s \in Session : Spoken(s)' = Spoken(s)
  BY DEF Spoken
<1>3. Past'
  BY <1>2 DEF StoryInv, Past
<1>4. ASSUME NEW v \in Worker \ { w } PROVE Tale(v)'
  <2>1. pc'[v] = pc[v] /\ kind'[v] = kind[v] /\ at'[v] = at[v] /\ number'[v] = number[v]
    BY DEF StoryInv, TypeInv, TypeOK, Ended, Goto
  <2> QED
    BY <1>2, <2>1, OtherTales
<1>5. Tale(w)'
  <2>1. Tale(w) /\ Name(w)' = Name(w) /\ at[w] \in Session /\ Spoken(at[w])' = Spoken(at[w])
    BY <1>2 DEF StoryInv, TypeInv, TypeOK, Name, Spoken
  <2>2. CASE Ended(w)
    <3>1. pc'[w] = "idle"
      BY <2>2 DEF StoryInv, TypeInv, TypeOK, Ended
    <3> QED
      BY <3>1 DEF Tale
  <2>3. ASSUME NEW stage, Goto(w, stage), stage # "arriving",
               stage = "excusing" => kind[w] = "relay",
               \/ pc[w] \notin { "idle", "arriving" }
               \/ pc[w] = "arriving" /\ kind[w] = "greeting"
        PROVE  Tale(w)'
    <3>1. pc'[w] = stage /\ kind'[w] = kind[w]
      BY <2>3 DEF StoryInv, TypeInv, TypeOK, Goto
    <3>2. \A s \in Session : \A x \in Spoken(s) : x.by = Name(w) => x.role = "user"
      BY <2>1, <2>3 DEF Tale
    <3>3. kind[w] # "greeting" => [ role |-> "user", by |-> Name(w) ] \in Spoken(at[w])
      BY <2>1, <2>3 DEF Tale
    <3> QED
      BY <1>2, <2>1, <2>3, <3>1, <3>2, <3>3 DEF Tale
  <2> QED
    BY <2>2, <2>3
<1> QED
  BY <1>1, <1>3, <1>4, <1>5 DEF StoryInv

\* A step of a request that stores its message and goes on.
LEMMA StoryAsked ==
  ASSUME StoryInv, TypeInv', NEW w \in Worker, NEW stage \in { "admitting", "generating" },
         pc[w] = "arriving", Added(w, "user"), Goto(w, stage)
  PROVE  StoryInv'
<1> DEFINE m == [ role |-> "user", by |-> Name(w) ]
<1>0. number[w] # 0 /\ Tale(w)
  BY DEF StoryInv, TypeInv, Begun
<1>1. /\ at[w] \in Session
      /\ \A s \in Session : Spoken(s)' = IF s = at[w] THEN Spoken(s) \cup { m } ELSE Spoken(s)
  BY <1>0, AddedSaid DEF StoryInv
<1>2. \A s \in Session : \A x \in Spoken(s) : x.by # Name(w)
  BY <1>0 DEF Tale
<1>3. TurnsAreWhole'
  <2>1. m \notin Spoken(at[w])
    BY <1>1, <1>2
  <2> QED
    BY <1>0, <2>1, AddedWhole
<1>4. number' = number /\ at' = at /\ kind' = kind /\ pc'[w] = stage
  BY DEF Goto, StoryInv, TypeInv, TypeOK
<1>5. m.by = Name(w) /\ m.by[1] = w /\ m.by[2] = number[w] /\ m.role = "user" /\ number[w] \in Nat
  BY DEF Name, StoryInv, TypeInv, TypeOK
<1> HIDE DEF m
<1>6. Past'
  BY <1>1, <1>4, <1>5 DEF StoryInv, Past
<1>7. ASSUME NEW v \in Worker \ { w } PROVE Tale(v)'
  <2>1. pc'[v] = pc[v] /\ kind'[v] = kind[v] /\ at'[v] = at[v] /\ number'[v] = number[v]
    BY DEF StoryInv, TypeInv, TypeOK, Goto
  <2>2. \A s \in Session :
          /\ Spoken(s) \subseteq Spoken(s)'
          /\ \A x \in Spoken(s)' : x \in Spoken(s) \/ x.by[1] = w
    BY <1>1, <1>5
  <2> QED
    BY <2>1, <2>2, OtherTales
<1>8. Tale(w)'
  <2>1. Name(w)' = Name(w) /\ m \in Spoken(at[w])'
    BY <1>1, <1>4 DEF Name, Spoken
  <2>2. \A s \in Session : \A x \in Spoken(s)' : x.by = Name(w) => x.role = "user"
    BY <1>1, <1>2, <1>5
  <2> QED
    BY <1>4, <2>1, <2>2 DEF Tale, m
<1> QED
  BY <1>3, <1>6, <1>7, <1>8 DEF StoryInv

\* A step of a request that ends with its answer, its apology or its greeting.
LEMMA StoryAnswered ==
  ASSUME StoryInv, TypeInv', NEW w \in Worker, NEW role \in { "assistant", "greeting" },
         pc[w] \notin { "idle", "arriving" }, Added(w, role), Ended(w),
         role = "assistant" => kind[w] # "greeting"
  PROVE  StoryInv'
<1> DEFINE m == [ role |-> role, by |-> Name(w) ]
<1>0. number[w] # 0 /\ Tale(w)
  BY DEF StoryInv, TypeInv, Begun
<1>1. /\ at[w] \in Session
      /\ \A s \in Session : Spoken(s)' = IF s = at[w] THEN Spoken(s) \cup { m } ELSE Spoken(s)
  BY <1>0, AddedSaid DEF StoryInv
<1>2. \A s \in Session : \A x \in Spoken(s) : x.by = Name(w) => x.role = "user"
  BY <1>0 DEF Tale
<1>3. TurnsAreWhole'
  <2>1. m \notin Spoken(at[w])
    BY <1>1, <1>2
  <2>2. role = "assistant" => [ role |-> "user", by |-> Name(w) ] \in Spoken(at[w])
    BY <1>0 DEF Tale
  <2> QED
    BY <1>0, <2>1, <2>2, AddedWhole
<1>4. number' = number /\ at' = at /\ pc'[w] = "idle"
  BY DEF Ended, StoryInv, TypeInv, TypeOK
<1>5. m.by = Name(w) /\ m.by[1] = w /\ m.by[2] = number[w] /\ number[w] \in Nat
  BY DEF Name, StoryInv, TypeInv, TypeOK
<1> HIDE DEF m
<1>6. Past'
  BY <1>1, <1>4, <1>5 DEF StoryInv, Past
<1>7. ASSUME NEW v \in Worker \ { w } PROVE Tale(v)'
  <2>1. pc'[v] = pc[v] /\ kind'[v] = kind[v] /\ at'[v] = at[v] /\ number'[v] = number[v]
    BY DEF StoryInv, TypeInv, TypeOK, Ended
  <2>2. \A s \in Session :
          /\ Spoken(s) \subseteq Spoken(s)'
          /\ \A x \in Spoken(s)' : x \in Spoken(s) \/ x.by[1] = w
    BY <1>1, <1>5
  <2> QED
    BY <2>1, <2>2, OtherTales
<1>8. Tale(w)'
  BY <1>4 DEF Tale
<1> QED
  BY <1>3, <1>6, <1>7, <1>8 DEF StoryInv

LEMMA StoryInit == Init => StoryInv
<1> SUFFICES ASSUME Init PROVE StoryInv
  OBVIOUS
<1>1. \A s \in Session : messages[s] = << >> /\ DOMAIN messages[s] = {}
  BY DEF Init
<1>2. TurnsAreWhole /\ Past
  BY <1>1 DEF TurnsAreWhole, Past, Spoken
<1>3. \A w \in Worker : Tale(w)
  BY DEF Init, Tale
<1> QED
  BY <1>2, <1>3, TypeInit DEF StoryInv

LEMMA StoryStep == StoryInv /\ [Next]_vars => StoryInv'
<1> SUFFICES ASSUME StoryInv, [Next]_vars PROVE StoryInv'
  OBVIOUS
<1>0. TypeInv'
  BY TypeStep DEF StoryInv
<1>1. CASE Midnight \/ UNCHANGED vars
  <2>1. UNCHANGED << messages, pc, kind, at, number >>
    BY <1>1 DEF Midnight, vars
  <2>2. /\ \A s \in Session : Spoken(s)' = Spoken(s)
        /\ \A w \in Worker : Name(w)' = Name(w) /\ Spoken(at[w])' = Spoken(at[w])
    BY <2>1 DEF Spoken, Name
  <2>3. TurnsAreWhole'
    BY <2>1 DEF StoryInv, TurnsAreWhole
  <2>4. Past'
    BY <2>1, <2>2 DEF StoryInv, Past
  <2>5. ASSUME NEW w \in Worker PROVE Tale(w)'
    BY <2>1, <2>2 DEF StoryInv, Tale
  <2> QED
    BY <1>0, <2>3, <2>4, <2>5 DEF StoryInv
<1>2. ASSUME NEW w \in Worker, NEW k \in Kinds, NEW t \in Session, Arrive(w, k, t)
      PROVE  StoryInv'
  <2>1. /\ messages' = messages /\ pc'[w] = "arriving"
        /\ number'[w] = number[w] + 1 /\ number[w] \in Nat
        /\ \A v \in Worker \ { w } :
             pc'[v] = pc[v] /\ kind'[v] = kind[v] /\ at'[v] = at[v] /\ number'[v] = number[v]
    BY <1>2 DEF Arrive, StoryInv, TypeInv, TypeOK
  <2>2. \A s \in Session : Spoken(s)' = Spoken(s) /\ Spoken(s) \subseteq Message
    BY <2>1 DEF Spoken, StoryInv, TypeInv, TypeOK
  <2>3. TurnsAreWhole'
    BY <2>1 DEF StoryInv, TurnsAreWhole
  <2>4. Past'
    <3> SUFFICES ASSUME NEW s \in Session, NEW x \in Spoken(s) PROVE x.by[2] <= number'[x.by[1]]
      BY <2>2 DEF Past
    <3>1. x.by[1] \in Worker /\ x.by[2] \in Nat
      BY <2>2 DEF Message
    <3>2. x.by[2] <= number[x.by[1]] /\ number[x.by[1]] \in Nat
      BY <3>1 DEF StoryInv, Past, TypeInv, TypeOK
    <3> QED
      BY <2>1, <3>1, <3>2
  <2>5. ASSUME NEW v \in Worker \ { w } PROVE Tale(v)'
    BY <2>1, <2>2, OtherTales
  <2>6. Tale(w)'
    <3>1. Name(w)'[1] = w /\ Name(w)'[2] = number[w] + 1
      BY <2>1 DEF Name
    <3>2. ASSUME NEW s \in Session, NEW x \in Spoken(s), x.by = Name(w)' PROVE FALSE
      <4>1. x.by[1] = w /\ x.by[2] = number[w] + 1
        BY <3>1, <3>2
      <4>2. x.by[2] <= number[x.by[1]]
        BY DEF StoryInv, Past
      <4> QED
        BY <2>1, <4>1, <4>2
    <3> QED
      BY <2>1, <2>2, <3>2 DEF Tale
  <2> QED
    BY <1>0, <2>3, <2>4, <2>5, <2>6 DEF StoryInv
<1>3. ASSUME NEW w \in Worker, StoreInbound(w) \/ AskPublicStream(w) \/ Admit(w)
      PROVE  StoryInv'
  <2>1. pc[w] = "arriving" /\ Added(w, "user") /\ (Goto(w, "admitting") \/ Goto(w, "generating"))
    BY <1>3 DEF StoreInbound, AskPublicStream, Admit
  <2> QED
    BY <1>0, <2>1, StoryAsked
<1>4. ASSUME NEW w \in Worker, AdmitStored(w) \/ Greet(w) \/ Generate(w)
      PROVE  StoryInv'
  <2>1. /\ messages' = messages /\ at' = at /\ number' = number
        /\ Goto(w, "generating") \/ Goto(w, "storing")
        /\ \/ pc[w] \notin { "idle", "arriving" }
           \/ pc[w] = "arriving" /\ kind[w] = "greeting"
    BY <1>4 DEF AdmitStored, Greet, Generate, Goto
  <2> QED
    BY <1>0, <2>1, StoryQuiet
<1>5. ASSUME NEW w \in Worker, Refused(w) \/ GenerationFails(w)
      PROVE  StoryInv'
  <2>1. messages' = messages /\ at' = at /\ number' = number
    BY <1>5 DEF Refused, GenerationFails, Unanswered, Goto, Ended
  <2>2. \/ Ended(w)
        \/ Goto(w, "excusing") /\ kind[w] = "relay" /\ pc[w] \notin { "idle", "arriving" }
    BY <1>5 DEF Refused, GenerationFails, Unanswered
  <2> QED
    BY <1>0, <2>1, <2>2, StoryQuiet
<1>6. ASSUME NEW w \in Worker, StoreAnswer(w)
      PROVE  StoryInv'
  <2>1. /\ pc[w] \notin { "idle", "arriving" } /\ Ended(w)
        /\ \/ Added(w, "greeting")
           \/ Added(w, "assistant") /\ kind[w] # "greeting"
    BY <1>6 DEF StoreAnswer
  <2> QED
    BY <1>0, <2>1, StoryAnswered
<1>7. ASSUME NEW w \in Worker, Excuse(w)
      PROVE  StoryInv'
  <2>1. /\ pc[w] \notin { "idle", "arriving" } /\ Ended(w) /\ kind[w] # "greeting"
        /\ Added(w, "assistant") \/ messages' = messages
        /\ at' = at /\ number' = number
    BY <1>7 DEF Excuse, Ended, StoryInv, Tale
  <2> QED
    BY <1>0, <2>1, StoryAnswered, StoryQuiet
<1>8. ASSUME NEW w \in Worker, Disconnect(w) \/ Crash(w)
      PROVE  StoryInv'
  <2>1. Ended(w) /\ messages' = messages /\ at' = at /\ number' = number
    BY <1>8 DEF Disconnect, Crash, Ended
  <2> QED
    BY <1>0, <2>1, StoryQuiet
<1> QED
  BY <1>1, <1>2, <1>3, <1>4, <1>5, <1>6, <1>7, <1>8
  DEF Next, Step, AskStream, RunAgent, AskChatbot, AskFrontOffice

\* Endpoints and use cases that share a request, or are cut off anywhere, leave
\* every conversation with each message once, and every answer after its message.
THEOREM ConversationsAreWhole == Spec => []TurnsAreWhole
<1>1. StoryInv => TurnsAreWhole
  BY DEF StoryInv
<1> QED
  BY <1>1, StoryInit, StoryStep, PTL DEF Spec

-----------------------------------------------------------------------------
(* Interviews: types, and no question skipped *)

\* The turns that do not close an interview.
Told == { "question", "answer", "blocked" }

\* An interview to which a turn is added.
LEMMA SaidType ==
  ASSUME InterviewAssumption, NEW x \in Interview, NEW what,
         what \in Told \/ (what = "closing" /\ x.index = LastIndex)
  PROVE  LET turn == [ what |-> what, about |-> x.index ]
         IN  /\ turn \in Turn
             /\ Said(x, what) \in Interview
             /\ Said(x, what).transcript = Append(x.transcript, turn)
             /\ Said(x, what).status = x.status /\ Said(x, what).index = x.index
             /\ Said(x, what).scores = x.scores /\ Said(x, what).reported = x.reported
<1> DEFINE turn == [ what |-> what, about |-> x.index ]
<1>1. turn \in Turn
  BY DEF Turn, Interview, Told
<1> HIDE DEF turn
<1>2. Append(x.transcript, turn) \in Seq(Turn)
  BY <1>1 DEF Interview
<1>3. Said(x, what) = [ x EXCEPT !.transcript = Append(@, turn) ]
  BY DEF Said, turn
<1>4. /\ Said(x, what) \in Interview
      /\ Said(x, what).transcript = Append(x.transcript, turn)
      /\ Said(x, what).status = x.status /\ Said(x, what).index = x.index
      /\ Said(x, what).scores = x.scores /\ Said(x, what).reported = x.reported
  BY <1>2, <1>3 DEF Interview
<1>5. QED
  BY <1>1, <1>4 DEF turn

\* An interview that moves on to a question that is left.
LEMMA MovedType ==
  ASSUME InterviewAssumption, NEW x \in Interview, x.index < LastIndex
  PROVE  LET moved == [ x EXCEPT !.index = @ + 1 ]
         IN  /\ moved \in Interview /\ moved.index = x.index + 1
             /\ moved.status = x.status /\ moved.transcript = x.transcript
             /\ moved.scores = x.scores /\ moved.reported = x.reported
<1>1. x.index + 1 \in Question
  BY DEF InterviewAssumption, Interview, Question
<1>2. QED
  BY <1>1 DEF Interview

\* What is written at an update is of the copy or of the row, column by column.
LEMMA MergedType ==
  ASSUME NEW now \in Interview, NEW read \in Interview, NEW mine \in Interview
  PROVE  LET merged == Merged(now, read, mine)
         IN  /\ merged \in Interview
             /\ merged.status = IF mine.status # read.status THEN mine.status ELSE now.status
             /\ merged.index \in { mine.index, now.index }
             /\ merged.transcript \in { mine.transcript, now.transcript }
             /\ now = read => merged = mine
<1> DEFINE merged == Merged(now, read, mine)
<1>1. DOMAIN now = { "status", "index", "transcript", "scores", "reported" }
  BY DEF Interview
<1>2. merged = [ f \in { "status", "index", "transcript", "scores", "reported" } |->
                   IF mine[f] # read[f] THEN mine[f] ELSE now[f] ]
  BY <1>1 DEF Merged
<1> HIDE DEF merged
<1>3. merged = [ status |-> merged.status, index |-> merged.index,
                 transcript |-> merged.transcript, scores |-> merged.scores,
                 reported |-> merged.reported ]
  BY <1>2
<1>4. /\ merged.status = IF mine.status # read.status THEN mine.status ELSE now.status
      /\ merged.index = IF mine.index # read.index THEN mine.index ELSE now.index
      /\ merged.transcript =
           IF mine.transcript # read.transcript THEN mine.transcript ELSE now.transcript
      /\ merged.scores = IF mine.scores # read.scores THEN mine.scores ELSE now.scores
      /\ merged.reported = IF mine.reported # read.reported THEN mine.reported ELSE now.reported
  BY <1>2
<1>5. /\ merged.status \in { mine.status, now.status }
      /\ merged.index \in { mine.index, now.index }
      /\ merged.transcript \in { mine.transcript, now.transcript }
      /\ merged.scores \in { mine.scores, now.scores }
      /\ merged.reported \in { mine.reported, now.reported }
  BY <1>4
<1>6. merged \in Interview
  BY <1>3, <1>5 DEF Interview
<1>7. ASSUME now = read PROVE merged = mine
  <2>1. /\ merged.status = mine.status /\ merged.index = mine.index
        /\ merged.transcript = mine.transcript /\ merged.scores = mine.scores
        /\ merged.reported = mine.reported
    BY <1>4, <1>7
  <2>2. QED
    BY <1>3, <2>1 DEF Interview
<1>8. QED
  BY <1>4, <1>5, <1>6, <1>7 DEF merged

Stages ==
  { "idle", "asking", "closing", "updating", "saving", "finalizing", "reporting" }

Requests == { t \in Tab : phase[t] # "idle" }

\* The questions up to one were put, and those before it answered.
Reached(i) == 0 .. i \subseteq put /\ 0 .. i - 1 \subseteq answered

AllReached == put = Question /\ answered = Question

Closed(interview) ==
  \E n \in DOMAIN interview.transcript : interview.transcript[n].what = "closing"

\* What an interview says is done was done.
Earned(interview) == interview.status = "completed" \/ Closed(interview) => AllReached

RowReached ==
  /\ Earned(row)
  /\ row.status = "scheduled" => row.index = 0
  /\ row.status # "scheduled" => Reached(row.index)

CopyReached(t) ==
  /\ Earned(copy[t]) /\ copy[t].status # "scheduled"
  /\ phase[t] \in { "closing", "finalizing", "reporting" } => AllReached
  /\ phase[t] = "closing" => copy[t].index = LastIndex
  /\ phase[t] = "asking" =>
       0 .. copy[t].index - 1 \subseteq put /\ 0 .. copy[t].index - 1 \subseteq answered
  /\ phase[t] # "asking" => Reached(copy[t].index)
  /\ phase[t] = "saving" /\ base[t].status # "scheduled" => row.status # "scheduled"

ReachedInv ==
  InterviewTypeOK /\ RowReached /\ \A t \in Requests : CopyReached(t)

LEMMA ReachedInit == InterviewAssumption /\ InterviewInit => ReachedInv
<1> SUFFICES ASSUME InterviewAssumption, InterviewInit
             PROVE  ReachedInv
  OBVIOUS
<1>1. 0 \in Question
  BY DEF InterviewAssumption, Question
<1>2. Blank \in Interview /\ ~Closed(Blank) /\ Blank.status = "scheduled" /\ Blank.index = 0
  <2>1. << >> \in Seq(Turn) /\ DOMAIN << >> = {}
    OBVIOUS
  <2>2. QED
    BY <1>1, <2>1 DEF Blank, Interview, Closed
<1>3. InterviewTypeOK
  <2>1. /\ row \in Interview /\ stored \in Seq(Turn)
        /\ copy \in [ Tab -> Interview ] /\ base \in [ Tab -> Interview ]
    BY <1>2 DEF InterviewInit
  <2>2. phase \in [ Tab -> Stages ]
    BY DEF InterviewInit, Stages
  <2>3. asked \in 0 .. MaxRequests /\ crashes \in 0 .. MaxCrashes
    BY DEF InterviewInit, InterviewAssumption
  <2>4. put \subseteq Question /\ answered \subseteq Question /\ rushed \in BOOLEAN
    BY DEF InterviewInit
  <2>5. QED
    BY <2>1, <2>2, <2>3, <2>4 DEF InterviewTypeOK, Stages
<1>4. RowReached
  BY <1>2 DEF RowReached, Earned, InterviewInit
<1>5. Requests = {}
  BY DEF Requests, InterviewInit
<1>6. QED
  BY <1>3, <1>4, <1>5 DEF ReachedInv

\* What was put to the candidate and answered stays so, and nothing is put after
\* everything was.
LEMMA EarnedStays ==
  ASSUME put \subseteq put', answered \subseteq answered', put' \subseteq Question,
         answered' \subseteq Question, NEW x \in Interview
  PROVE  /\ AllReached => AllReached'
         /\ \A i \in Int : Reached(i) => Reached(i)'
         /\ Earned(x) => Earned(x)'
<1>1. AllReached => AllReached'
  BY DEF AllReached
<1>2. \A i \in Int : Reached(i) => Reached(i)'
  BY DEF Reached
<1>3. Earned(x) => Earned(x)'
  BY <1>1 DEF Earned, Closed
<1>4. QED
  BY <1>1, <1>2, <1>3

\* A step of one request leaves the others as they are.
LEMMA OthersReached ==
  ASSUME InterviewTypeOK, InterviewTypeOK', NEW u \in Tab, CopyReached(u),
         phase'[u] = phase[u], copy'[u] = copy[u], base'[u] = base[u],
         put \subseteq put', answered \subseteq answered',
         row.status # "scheduled" => row'.status # "scheduled"
  PROVE  CopyReached(u)'
<1>1. PICK x \in Interview : x = copy[u] /\ x = copy'[u]
  BY DEF InterviewTypeOK
<1>2. PICK i \in Int : i = x.index
  BY DEF Interview, Question
<1>3. put' \subseteq Question /\ answered' \subseteq Question
  BY DEF InterviewTypeOK
<1>4. /\ AllReached => AllReached'
      /\ Reached(i) => Reached(i)'
      /\ Earned(x) => Earned(x)'
  BY <1>3, EarnedStays
<1>5. /\ Reached(copy[u].index) => Reached(i)
      /\ Reached(i)' => Reached(copy[u].index)'
  BY <1>1, <1>2 DEF Reached
<1>6. /\ Earned(copy[u]) => Earned(x)
      /\ Earned(x)' => Earned(copy[u])'
  BY <1>1 DEF Earned, Closed
<1>7. /\ Earned(copy[u])' /\ copy'[u].status # "scheduled"
      /\ phase'[u] \in { "closing", "finalizing", "reporting" } => AllReached'
      /\ phase'[u] = "closing" => copy'[u].index = LastIndex
      /\ phase'[u] # "asking" => Reached(copy[u].index)'
      /\ phase'[u] = "saving" /\ base'[u].status # "scheduled" => row'.status # "scheduled"
  BY <1>4, <1>5, <1>6 DEF CopyReached
<1>8. phase'[u] = "asking" =>
        0 .. copy'[u].index - 1 \subseteq put' /\ 0 .. copy'[u].index - 1 \subseteq answered'
  BY DEF CopyReached
<1>9. QED
  BY <1>7, <1>8 DEF CopyReached

\* What is left to show of a step of one request.
LEMMA OneRequest ==
  ASSUME ReachedInv, InterviewTypeOK', RowReached', NEW t \in Tab,
         phase'[t] # "idle" => CopyReached(t)',
         \A u \in Tab \ { t } :
           phase'[u] = phase[u] /\ copy'[u] = copy[u] /\ base'[u] = base[u],
         put \subseteq put', answered \subseteq answered',
         row.status # "scheduled" => row'.status # "scheduled"
  PROVE  ReachedInv'
<1>1. ASSUME NEW u \in Tab, u \in Requests', u # t
      PROVE  CopyReached(u)'
  BY <1>1, OthersReached DEF ReachedInv, Requests
<1>2. \A u \in Requests' : CopyReached(u)'
  <2> SUFFICES ASSUME NEW u \in Requests' PROVE CopyReached(u)'
    OBVIOUS
  <2>1. u \in Tab /\ phase'[u] # "idle"
    BY DEF Requests
  <2>2. CASE u = t
    BY <2>1, <2>2
  <2>3. CASE u # t
    BY <2>1, <2>3, <1>1
  <2>4. QED
    BY <2>2, <2>3
<1>3. QED
  BY <1>2 DEF ReachedInv

\* The row stands for more as time goes on.
LEMMA RowStays ==
  ASSUME InterviewTypeOK, RowReached, row' = row, put \subseteq put', answered \subseteq answered',
         put' \subseteq Question, answered' \subseteq Question
  PROVE  RowReached'
<1>1. PICK x \in Interview : x = row /\ x = row'
  BY DEF InterviewTypeOK
<1>2. PICK i \in Int : i = x.index
  BY DEF Interview, Question
<1>3. /\ Reached(i) => Reached(i)'
      /\ Earned(x) => Earned(x)'
  BY EarnedStays
<1>4. /\ Reached(row.index) => Reached(i)
      /\ Reached(i)' => Reached(row.index)'
  BY <1>1, <1>2 DEF Reached
<1>5. /\ Earned(row) => Earned(x)
      /\ Earned(x)' => Earned(row)'
  BY <1>1 DEF Earned, Closed
<1>6. QED
  BY <1>3, <1>4, <1>5 DEF RowReached

\* A request that is let in.
LEMMA LoadsReached ==
  ASSUME InterviewAssumption, ReachedInv, NEW t \in Tab, NEW x \in Interview,
         NEW p \in { "asking", "closing", "updating" },
         Loads(t, x), Enters(t, p), answered \subseteq answered', answered' \subseteq Question,
         Earned(x), x.status # "scheduled",
         p = "closing" => AllReached' /\ x.index = LastIndex,
         p = "asking" => 0 .. x.index - 1 \subseteq put /\ 0 .. x.index - 1 \subseteq answered',
         p # "asking" => Reached(x.index)'
  PROVE  ReachedInv'
<1>1. /\ phase' = [ phase EXCEPT ![t] = p ] /\ copy' = [ copy EXCEPT ![t] = x ]
      /\ base' = base /\ row' = row /\ stored' = stored /\ put' = put /\ crashes' = crashes
      /\ asked < MaxRequests /\ asked' = asked + 1 /\ rushed' \in BOOLEAN
  BY DEF Loads, Enters
<1>2. InterviewTypeOK'
  <2>1. /\ row' \in Interview /\ stored' \in Seq(Turn) /\ base' \in [ Tab -> Interview ]
        /\ put' \subseteq Question /\ answered' \subseteq Question /\ rushed' \in BOOLEAN
    BY <1>1 DEF ReachedInv, InterviewTypeOK
  <2>2. phase' \in [ Tab -> Stages ]
    BY <1>1 DEF ReachedInv, InterviewTypeOK, Stages
  <2>3. copy' \in [ Tab -> Interview ]
    BY <1>1 DEF ReachedInv, InterviewTypeOK
  <2>4. asked' \in 0 .. MaxRequests /\ crashes' \in 0 .. MaxCrashes
    BY <1>1 DEF ReachedInv, InterviewTypeOK, InterviewAssumption
  <2>5. QED
    BY <2>1, <2>2, <2>3, <2>4 DEF InterviewTypeOK, Stages
<1>3. phase'[t] = p /\ copy'[t] = x
  BY <1>1 DEF ReachedInv, InterviewTypeOK
<1>4. \A u \in Tab \ { t } :
        phase'[u] = phase[u] /\ copy'[u] = copy[u] /\ base'[u] = base[u]
  BY <1>1 DEF ReachedInv, InterviewTypeOK
<1>5. RowReached'
  BY <1>1, RowStays DEF ReachedInv, InterviewTypeOK
<1>6. CopyReached(t)'
  <2>1. Earned(x)'
    BY <1>1, EarnedStays DEF ReachedInv, InterviewTypeOK
  <2>2. Earned(copy[t])'
    BY <1>3, <2>1 DEF Earned, Closed
  <2>3. p # "asking" => Reached(copy[t].index)'
    BY <1>3 DEF Reached
  <2>4. QED
    BY <1>1, <1>3, <2>2, <2>3 DEF CopyReached
<1>7. QED
  BY <1>1, <1>2, <1>3, <1>4, <1>5, <1>6, OneRequest

LEMMA GreetingReached ==
  ASSUME InterviewAssumption, ReachedInv, NEW t \in Tab, Greeting(t)
  PROVE  ReachedInv'
<1>1. PICK x : x = [ row EXCEPT !.status = "in_progress" ]
  OBVIOUS
<1>2. /\ x \in Interview /\ x.status = "in_progress" /\ x.index = 0
      /\ x.transcript = row.transcript
  BY <1>1 DEF ReachedInv, InterviewTypeOK, RowReached, Interview, Greeting
<1>3. Loads(t, x) /\ Enters(t, "asking") /\ answered' = answered
  BY <1>1 DEF Greeting
<1>4. Earned(x)
  BY <1>2 DEF ReachedInv, RowReached, Earned, Closed
<1>5. answered' \subseteq Question
  BY <1>3 DEF ReachedInv, InterviewTypeOK
<1>6. 0 .. x.index - 1 \subseteq put /\ 0 .. x.index - 1 \subseteq answered'
  BY <1>2
<1>7. QED
  BY <1>2, <1>3, <1>4, <1>5, <1>6, LoadsReached

\* A turn other than the closing one does not close an interview.
LEMMA SaidUnclosed ==
  ASSUME InterviewAssumption, NEW x \in Interview, NEW what \in Told, Closed(Said(x, what))
  PROVE  Closed(x)
<1>1. PICK turn \in Turn : /\ turn.what = what
                           /\ Said(x, what).transcript = Append(x.transcript, turn)
  <2>1. [ what |-> what, about |-> x.index ].what = what
    OBVIOUS
  <2>2. QED
    BY <2>1, SaidType
<1>2. x.transcript \in Seq(Turn)
  BY DEF Interview
<1>3. PICK n \in DOMAIN Append(x.transcript, turn) :
             Append(x.transcript, turn)[n].what = "closing"
  BY <1>1 DEF Closed
<1>4. n # Len(x.transcript) + 1
  BY <1>1, <1>2, <1>3 DEF Told
<1>5. n \in DOMAIN x.transcript /\ x.transcript[n].what = "closing"
  BY <1>2, <1>3, <1>4
<1>6. QED
  BY <1>5 DEF Closed

\* It leaves an interview as far as it was.
LEMMA SaidEarned ==
  ASSUME InterviewAssumption, NEW x \in Interview, NEW what \in Told, Earned(x)
  PROVE  Earned(Said(x, what))
<1>1. Said(x, what).status = x.status
  BY SaidType
<1>2. QED
  BY <1>1, SaidUnclosed DEF Earned

LEMMA RespondReached ==
  ASSUME InterviewAssumption, ReachedInv, NEW t \in Tab, Respond(t)
  PROVE  ReachedInv'
<1>1. /\ row \in Interview /\ row.status = "in_progress" /\ row.index \in Question
      /\ row.index \in Int /\ LastIndex \in Int /\ row.index <= LastIndex
      /\ Earned(row) /\ Reached(row.index) /\ put \subseteq Question /\ answered \subseteq Question
      /\ answered' = answered \cup { row.index }
  BY DEF InterviewAssumption, ReachedInv, InterviewTypeOK, RowReached, Interview, Question, Respond
<1>2. answered \subseteq answered' /\ answered' \subseteq Question
  BY <1>1
<1>3. PICK heard : heard = Said(row, "answer")
  OBVIOUS
<1>4. /\ heard \in Interview /\ heard.status = "in_progress" /\ heard.index = row.index
      /\ Earned(heard)
  BY <1>1, <1>3, SaidType, SaidEarned DEF Told
<1>5. 0 .. row.index \subseteq put /\ 0 .. row.index \subseteq answered'
  BY <1>1 DEF Reached
<1>6. CASE row.index < LastIndex
  <2>1. PICK x : x = [ heard EXCEPT !.index = @ + 1 ]
    OBVIOUS
  <2>2. /\ x \in Interview /\ x.status = "in_progress" /\ x.index = row.index + 1
        /\ x.transcript = heard.transcript
    BY <1>1, <1>4, <1>6, <2>1, MovedType
  <2>3. Loads(t, x) /\ Enters(t, "asking")
    BY <1>3, <1>6, <2>1 DEF Respond
  <2>4. Earned(x)
    BY <1>4, <2>2 DEF Earned, Closed
  <2>5. 0 .. x.index - 1 \subseteq put /\ 0 .. x.index - 1 \subseteq answered'
    BY <1>1, <1>5, <2>2
  <2>6. QED
    BY <1>2, <2>2, <2>3, <2>4, <2>5, LoadsReached
<1>7. CASE ~(row.index < LastIndex)
  <2>1. heard.index = LastIndex /\ row.index = LastIndex
    BY <1>1, <1>4, <1>7
  <2>2. Loads(t, heard) /\ Enters(t, "closing")
    BY <1>3, <1>7 DEF Respond
  <2>3. put' = put
    BY <2>2 DEF Loads
  <2>4. AllReached'
    BY <1>1, <1>2, <1>5, <2>1, <2>3 DEF AllReached, Question
  <2>5. Reached(heard.index)'
    BY <1>1, <1>2, <1>4, <1>5, <2>1, <2>3 DEF Reached
  <2>6. QED
    BY <1>2, <1>4, <2>1, <2>2, <2>4, <2>5, LoadsReached
<1>8. QED
  BY <1>6, <1>7

LEMMA RespondBlockedReached ==
  ASSUME InterviewAssumption, ReachedInv, NEW t \in Tab, RespondBlocked(t)
  PROVE  ReachedInv'
<1>1. /\ row \in Interview /\ row.status = "in_progress" /\ Earned(row)
      /\ Reached(row.index) /\ answered \subseteq Question
  BY DEF ReachedInv, InterviewTypeOK, RowReached, RespondBlocked
<1>2. PICK x : x = Said(row, "blocked")
  OBVIOUS
<1>3. x \in Interview /\ x.status = "in_progress" /\ x.index = row.index /\ Earned(x)
  BY <1>1, <1>2, SaidType, SaidEarned DEF Told
<1>4. Loads(t, x) /\ Enters(t, "updating") /\ answered' = answered
  BY <1>2 DEF RespondBlocked
<1>5. Reached(x.index)'
  BY <1>1, <1>3, <1>4 DEF Loads, Reached
<1>6. QED
  BY <1>1, <1>3, <1>4, <1>5, LoadsReached

\* A request under way that goes on with another copy, or the same.
LEMMA GoesReached ==
  ASSUME InterviewAssumption, ReachedInv, NEW t \in Tab, NEW x \in Interview, NEW p \in Stages,
         phase[t] # "idle", Enters(t, p), copy' = [ copy EXCEPT ![t] = x ],
         base' \in [ Tab -> Interview ], \A u \in Tab \ { t } : base'[u] = base[u],
         row' = row, stored' \in Seq(Turn), asked' = asked, crashes' \in 0 .. MaxCrashes,
         put \subseteq put', put' \subseteq Question, answered' = answered, rushed' = rushed,
         p # "idle" =>
           /\ Earned(x)' /\ x.status # "scheduled"
           /\ p \in { "closing", "finalizing", "reporting" } => AllReached
           /\ p \notin { "idle", "asking", "closing" } => Reached(x.index)'
           /\ p = "saving" => base'[t] = row,
         p \notin { "asking", "closing" }
  PROVE  ReachedInv'
<1>1. phase' = [ phase EXCEPT ![t] = p ]
  BY DEF Enters
<1>2. /\ answered \subseteq Question /\ phase \in [ Tab -> Stages ] /\ copy \in [ Tab -> Interview ]
      /\ InterviewTypeOK /\ RowReached
  BY DEF ReachedInv, InterviewTypeOK, Stages
<1>3. InterviewTypeOK'
  <2>1. /\ row' \in Interview /\ stored' \in Seq(Turn) /\ base' \in [ Tab -> Interview ]
        /\ asked' \in 0 .. MaxRequests /\ crashes' \in 0 .. MaxCrashes
        /\ put' \subseteq Question /\ answered' \subseteq Question /\ rushed' \in BOOLEAN
    BY DEF ReachedInv, InterviewTypeOK
  <2>2. phase' \in [ Tab -> Stages ] /\ copy' \in [ Tab -> Interview ]
    BY <1>1, <1>2
  <2>3. QED
    BY <2>1, <2>2 DEF InterviewTypeOK, Stages
<1>4. phase'[t] = p /\ copy'[t] = x
  BY <1>1, <1>2
<1>5. \A u \in Tab \ { t } :
        phase'[u] = phase[u] /\ copy'[u] = copy[u] /\ base'[u] = base[u]
  BY <1>1, <1>2
<1>6. RowReached'
  BY <1>2, RowStays
<1>7. ASSUME phase'[t] # "idle" PROVE CopyReached(t)'
  <2>1. Earned(copy[t])'
    BY <1>4, <1>7 DEF Earned, Closed
  <2>2. Reached(copy[t].index)'
    BY <1>4, <1>7 DEF Reached, Stages
  <2>3. AllReached => AllReached'
    BY <1>2, EarnedStays
  <2>4. /\ phase'[t] \in { "closing", "finalizing", "reporting" } => AllReached'
        /\ phase'[t] # "closing" /\ phase'[t] # "asking" /\ copy'[t].status # "scheduled"
    BY <1>4, <1>7, <2>3
  <2>5. phase'[t] = "saving" /\ base'[t].status # "scheduled" => row'.status # "scheduled"
    BY <1>4, <1>7
  <2>6. QED
    BY <2>1, <2>2, <2>4, <2>5 DEF CopyReached
<1>8. QED
  BY <1>3, <1>4, <1>5, <1>6, <1>7, OneRequest

LEMMA AskReached ==
  ASSUME InterviewAssumption, ReachedInv, NEW t \in Tab, Ask(t)
  PROVE  ReachedInv'
<1>1. PICK c : c = copy[t]
  OBVIOUS
<1>2. /\ c \in Interview /\ Earned(c) /\ c.status # "scheduled" /\ c.index \in Question
      /\ 0 .. c.index - 1 \subseteq put /\ 0 .. c.index - 1 \subseteq answered
      /\ put \subseteq Question /\ answered \subseteq Question /\ phase[t] # "idle"
  <2>1. t \in Requests /\ phase[t] = "asking"
    BY DEF Ask, Requests
  <2>2. CopyReached(t) /\ copy[t] \in Interview
    BY <2>1 DEF ReachedInv, InterviewTypeOK
  <2>3. Earned(c)
    BY <1>1, <2>2 DEF CopyReached
  <2>4. QED
    BY <1>1, <2>1, <2>2, <2>3 DEF CopyReached, ReachedInv, InterviewTypeOK, Interview
<1>3. PICK x : x = Said(c, "question")
  OBVIOUS
<1>4. x \in Interview /\ x.status # "scheduled" /\ x.index = c.index /\ Earned(x)
  BY <1>2, <1>3, SaidType, SaidEarned DEF Told
<1>5. /\ copy' = [ copy EXCEPT ![t] = x ] /\ Enters(t, "updating")
      /\ put' = put \cup { c.index } /\ base' = base /\ row' = row /\ stored' = stored
      /\ asked' = asked /\ crashes' = crashes /\ answered' = answered /\ rushed' = rushed
  BY <1>1, <1>3 DEF Ask
<1>6. put' \subseteq Question
  BY <1>2, <1>5
<1>7. Reached(x.index)'
  BY <1>2, <1>4, <1>5 DEF Reached, Question
<1>8. Earned(x)'
  BY <1>2, <1>4, <1>5, <1>6, EarnedStays
<1>9. base' \in [ Tab -> Interview ] /\ stored' \in Seq(Turn) /\ crashes' \in 0 .. MaxCrashes
  BY <1>5 DEF ReachedInv, InterviewTypeOK
<1>10. QED
  BY <1>2, <1>4, <1>5, <1>6, <1>7, <1>8, <1>9, GoesReached DEF Stages

LEMMA CloseReached ==
  ASSUME InterviewAssumption, ReachedInv, NEW t \in Tab, Close(t)
  PROVE  ReachedInv'
<1>1. PICK c : c = copy[t]
  OBVIOUS
<1>2. /\ c \in Interview /\ c.status # "scheduled" /\ c.index = LastIndex /\ AllReached
      /\ phase[t] # "idle"
  <2>1. t \in Requests /\ phase[t] = "closing"
    BY DEF Close, Requests
  <2>2. CopyReached(t) /\ copy[t] \in Interview
    BY <2>1 DEF ReachedInv, InterviewTypeOK
  <2>3. QED
    BY <1>1, <2>1, <2>2 DEF CopyReached
<1>3. PICK x : x = Said(c, "closing")
  OBVIOUS
<1>4. x \in Interview /\ x.status # "scheduled" /\ x.index = LastIndex
  BY <1>2, <1>3, SaidType
<1>5. /\ copy' = [ copy EXCEPT ![t] = x ] /\ Enters(t, "updating")
      /\ put' = put /\ base' = base /\ row' = row /\ stored' = stored
      /\ asked' = asked /\ crashes' = crashes /\ answered' = answered /\ rushed' = rushed
  BY <1>1, <1>3 DEF Close
<1>6. Reached(x.index)' /\ Earned(x)'
  BY <1>2, <1>4, <1>5 DEF Reached, Earned, AllReached, Question, InterviewAssumption
<1>7. /\ base' \in [ Tab -> Interview ] /\ stored' \in Seq(Turn) /\ crashes' \in 0 .. MaxCrashes
      /\ put' \subseteq Question
  BY <1>5 DEF ReachedInv, InterviewTypeOK
<1>8. QED
  BY <1>2, <1>4, <1>5, <1>6, <1>7, GoesReached DEF Stages

\* A request that ends before its time.
LEMMA EndsReached ==
  ASSUME InterviewAssumption, ReachedInv, NEW t \in Tab, CutShort(t) \/ ProcessDies(t)
  PROVE  ReachedInv'
<1>1. PICK x : x = copy[t]
  OBVIOUS
<1>2. x \in Interview /\ copy \in [ Tab -> Interview ] /\ put \subseteq Question
  BY <1>1 DEF ReachedInv, InterviewTypeOK
<1>3. /\ phase[t] # "idle" /\ Enters(t, "idle") /\ copy' = copy
      /\ put' = put /\ base' = base /\ row' = row /\ stored' = stored
      /\ asked' = asked /\ answered' = answered /\ rushed' = rushed
  BY DEF CutShort, ProcessDies
<1>4. copy' = [ copy EXCEPT ![t] = x ]
  BY <1>1, <1>2, <1>3
<1>5. crashes' \in 0 .. MaxCrashes
  BY DEF CutShort, ProcessDies, ReachedInv, InterviewTypeOK, InterviewAssumption
<1>6. /\ base' \in [ Tab -> Interview ] /\ stored' \in Seq(Turn) /\ put' \subseteq Question
  BY <1>3 DEF ReachedInv, InterviewTypeOK
<1>7. QED
  BY <1>2, <1>3, <1>4, <1>5, <1>6, GoesReached DEF Stages

LEMMA RereadReached ==
  ASSUME InterviewAssumption, ReachedInv, NEW t \in Tab, Reread(t)
  PROVE  ReachedInv'
<1>1. PICK x \in Interview : x = copy[t]
  BY DEF ReachedInv, InterviewTypeOK
<1>2. /\ phase[t] = "updating" /\ Enters(t, "saving") /\ base' = [ base EXCEPT ![t] = row ]
      /\ copy' = copy /\ put' = put /\ row' = row /\ stored' = stored
      /\ asked' = asked /\ answered' = answered /\ rushed' = rushed /\ crashes' = crashes
  BY DEF Reread
<1>3. CopyReached(t)
  BY <1>2 DEF ReachedInv, Requests
<1>4. copy' = [ copy EXCEPT ![t] = x ]
  BY <1>1, <1>2 DEF ReachedInv, InterviewTypeOK
<1>5. /\ base' \in [ Tab -> Interview ] /\ stored' \in Seq(Turn) /\ put' \subseteq Question
      /\ \A u \in Tab \ { t } : base'[u] = base[u]
      /\ base'[t] = row /\ crashes' \in 0 .. MaxCrashes
  BY <1>2 DEF ReachedInv, InterviewTypeOK
<1>6. Earned(x)' /\ x.status # "scheduled"
  BY <1>1, <1>2, <1>3 DEF CopyReached, Earned, Closed, AllReached
<1>7. Reached(x.index)'
  BY <1>1, <1>2, <1>3 DEF CopyReached, Reached
<1>8. QED
  BY <1>2, <1>4, <1>5, <1>6, <1>7, GoesReached DEF Stages

LEMMA FinalizeReached ==
  ASSUME InterviewAssumption, ReachedInv, NEW t \in Tab, Finalize(t)
  PROVE  ReachedInv'
<1>1. PICK c : c = copy[t]
  OBVIOUS
<1>2. c \in Interview /\ phase[t] = "finalizing" /\ AllReached /\ Reached(c.index)
  <2>1. t \in Requests /\ phase[t] = "finalizing"
    BY DEF Finalize, Requests
  <2>2. CopyReached(t) /\ copy[t] \in Interview
    BY <2>1 DEF ReachedInv, InterviewTypeOK
  <2>3. QED
    BY <1>1, <2>1, <2>2 DEF CopyReached
<1>3. PICK scores \in Scored(c.transcript) :
             copy' = [ copy EXCEPT ![t].scores = scores, ![t].status = "completed" ]
  BY <1>1 DEF Finalize
<1>4. PICK x : x = [ c EXCEPT !.scores = scores, !.status = "completed" ]
  OBVIOUS
<1>5. x \in Interview /\ x.status # "scheduled" /\ x.index = c.index
  <2>1. scores \in Seq(Turn)
    <3>1. c.transcript \in Seq(Turn) /\ << >> \in Seq(Turn)
      BY <1>2 DEF Interview
    <3>2. scores = c.transcript \/ scores = << >>
      BY DEF Scored
    <3>3. QED
      BY <3>1, <3>2
  <2>2. QED
    BY <1>2, <1>4, <2>1 DEF Interview
<1>6. copy' = [ copy EXCEPT ![t] = x ]
  BY <1>1, <1>3, <1>4 DEF ReachedInv, InterviewTypeOK
<1>7. /\ Enters(t, "reporting") /\ base' = base /\ put' = put /\ row' = row /\ stored' = stored
      /\ asked' = asked /\ answered' = answered /\ rushed' = rushed /\ crashes' = crashes
  BY DEF Finalize
<1>8. Earned(x)' /\ Reached(x.index)'
  BY <1>2, <1>5, <1>7 DEF Earned, AllReached, Reached
<1>9. /\ base' \in [ Tab -> Interview ] /\ stored' \in Seq(Turn) /\ put' \subseteq Question
      /\ crashes' \in 0 .. MaxCrashes
  BY <1>7 DEF ReachedInv, InterviewTypeOK
<1>10. QED
  BY <1>2, <1>5, <1>6, <1>7, <1>8, <1>9, GoesReached DEF Stages

LEMMA ReportReached ==
  ASSUME InterviewAssumption, ReachedInv, NEW t \in Tab, Report(t)
  PROVE  ReachedInv'
<1>1. PICK c : c = copy[t]
  OBVIOUS
<1>2. /\ c \in Interview /\ phase[t] = "reporting" /\ AllReached /\ Reached(c.index)
      /\ c.status # "scheduled"
  <2>1. t \in Requests /\ phase[t] = "reporting"
    BY DEF Report, Requests
  <2>2. CopyReached(t) /\ copy[t] \in Interview
    BY <2>1 DEF ReachedInv, InterviewTypeOK
  <2>3. QED
    BY <1>1, <2>1, <2>2 DEF CopyReached
<1>3. PICK x \in Interview : /\ x.status = c.status /\ x.index = c.index
                             /\ copy' = [ copy EXCEPT ![t] = x ]
  <2>1. CASE copy' = [ copy EXCEPT ![t].reported = TRUE ]
    <3>1. [ c EXCEPT !.reported = TRUE ] \in Interview
      BY <1>2 DEF Interview
    <3>2. copy' = [ copy EXCEPT ![t] = [ c EXCEPT !.reported = TRUE ] ]
      BY <1>1, <2>1 DEF ReachedInv, InterviewTypeOK
    <3>3. /\ [ c EXCEPT !.reported = TRUE ].status = c.status
          /\ [ c EXCEPT !.reported = TRUE ].index = c.index
      BY <1>2 DEF Interview
    <3>4. QED
      BY <3>1, <3>2, <3>3
  <2>2. CASE copy' = copy
    <3>1. copy' = [ copy EXCEPT ![t] = c ]
      BY <1>1, <2>2 DEF ReachedInv, InterviewTypeOK
    <3>2. QED
      BY <1>2, <3>1
  <2>3. QED
    BY <2>1, <2>2 DEF Report
<1>4. /\ Enters(t, "updating") /\ base' = base /\ put' = put /\ row' = row
      /\ asked' = asked /\ answered' = answered /\ rushed' = rushed /\ crashes' = crashes
  BY DEF Report
<1>5. Earned(x)' /\ Reached(x.index)'
  BY <1>2, <1>3, <1>4 DEF Earned, AllReached, Reached
<1>6. stored' \in Seq(Turn)
  BY <1>1, <1>2 DEF Report, Interview, ReachedInv, InterviewTypeOK
<1>7. base' \in [ Tab -> Interview ] /\ put' \subseteq Question /\ crashes' \in 0 .. MaxCrashes
  BY <1>4 DEF ReachedInv, InterviewTypeOK
<1>8. QED
  BY <1>2, <1>3, <1>4, <1>5, <1>6, <1>7, GoesReached DEF Stages

\* What is written back over the row is what a copy or the row stood for already.
LEMMA SaveReached ==
  ASSUME InterviewAssumption, ReachedInv, NEW t \in Tab, Save(t)
  PROVE  ReachedInv'
<1>1. PICK c, b, r : c = copy[t] /\ b = base[t] /\ r = row
  OBVIOUS
<1>2. /\ c \in Interview /\ b \in Interview /\ r \in Interview
      /\ Earned(c) /\ c.status # "scheduled" /\ Reached(c.index)
      /\ b.status # "scheduled" => r.status # "scheduled"
      /\ Earned(r) /\ (r.status # "scheduled" => Reached(r.index))
      /\ r.status = "scheduled" => r.index = 0
  <2>1. t \in Requests /\ phase[t] = "saving"
    BY DEF Save, Requests
  <2>2. CopyReached(t) /\ RowReached
    BY <2>1 DEF ReachedInv
  <2>3. c \in Interview /\ b \in Interview /\ r \in Interview
    BY <1>1 DEF ReachedInv, InterviewTypeOK
  <2>4. /\ Earned(c) /\ c.status # "scheduled" /\ Reached(c.index)
        /\ b.status # "scheduled" => r.status # "scheduled"
    BY <1>1, <2>1, <2>2 DEF CopyReached
  <2>5. /\ Earned(r) /\ (r.status # "scheduled" => Reached(r.index))
        /\ r.status = "scheduled" => r.index = 0
    BY <1>1, <2>2 DEF RowReached
  <2>6. QED
    BY <2>3, <2>4, <2>5
<1>3. PICK m : m = Merged(r, b, c)
  OBVIOUS
<1>4. /\ m \in Interview
      /\ m.status = IF c.status # b.status THEN c.status ELSE r.status
      /\ m.index \in { c.index, r.index }
      /\ m.transcript \in { c.transcript, r.transcript }
  BY <1>2, <1>3, MergedType
<1>5. /\ row' = m /\ copy' = copy /\ base' = base /\ put' = put /\ answered' = answered
      /\ stored' = stored /\ asked' = asked /\ crashes' = crashes /\ rushed' = rushed
  BY <1>1, <1>3 DEF Save
<1>6. PICK p \in { "finalizing", "idle" } : /\ phase' = [ phase EXCEPT ![t] = p ]
                                            /\ p = "finalizing" => Over(c)
  BY <1>1 DEF Save, Enters
<1>7. /\ phase'[t] = p
      /\ \A u \in Tab \ { t } :
           phase'[u] = phase[u] /\ copy'[u] = copy[u] /\ base'[u] = base[u]
  BY <1>5, <1>6 DEF ReachedInv, InterviewTypeOK
<1>8. m.status # "scheduled" /\ m.status \in { c.status, r.status }
  BY <1>2, <1>4
<1>9. InterviewTypeOK'
  <2>1. phase' \in [ Tab -> Stages ]
    BY <1>6 DEF ReachedInv, InterviewTypeOK, Stages
  <2>2. QED
    BY <1>4, <1>5, <2>1 DEF ReachedInv, InterviewTypeOK, Stages
<1>10. RowReached'
  <2>1. m.status = "completed" \/ Closed(m) => AllReached
    BY <1>2, <1>4, <1>8 DEF Earned, Closed
  <2>2. Earned(row)'
    BY <1>5, <2>1 DEF Earned, Closed, AllReached
  <2>3. Reached(m.index)
    <3>1. r.status = "scheduled" => Reached(r.index)
      <4>1. SUFFICES ASSUME r.status = "scheduled" PROVE Reached(0)
        BY <1>2
      <4>2. 0 \in 0 .. c.index /\ 0 .. 0 = { 0 }
        BY <1>2 DEF Interview, Question, InterviewAssumption
      <4>3. QED
        BY <1>2, <4>2 DEF Reached
    <3>2. Reached(r.index)
      BY <1>2, <3>1
    <3>3. QED
      BY <1>2, <1>4, <3>2
  <2>4. Reached(row.index)'
    BY <1>5, <2>3 DEF Reached
  <2>5. QED
    BY <1>5, <1>8, <2>2, <2>4 DEF RowReached
<1>11. ASSUME phase'[t] # "idle" PROVE CopyReached(t)'
  <2>1. p = "finalizing" /\ Over(c) /\ phase'[t] = "finalizing"
    BY <1>6, <1>7, <1>11
  <2>2. Closed(c)
    BY <1>2, <2>1 DEF Over, Closed, Interview
  <2>3. AllReached'
    BY <1>2, <1>5, <2>2 DEF Earned, AllReached
  <2>4. copy'[t] = c
    BY <1>1, <1>5
  <2>5. Earned(copy[t])' /\ Reached(copy[t].index)'
    BY <1>2, <1>5, <2>3, <2>4 DEF Earned, Reached
  <2>6. QED
    BY <1>2, <2>1, <2>3, <2>4, <2>5 DEF CopyReached
<1>12. QED
  BY <1>5, <1>7, <1>8, <1>9, <1>10, <1>11, OneRequest

LEMMA ReachedStep ==
  InterviewAssumption /\ ReachedInv /\ [InterviewNext]_interviewVars => ReachedInv'
<1> SUFFICES ASSUME InterviewAssumption, ReachedInv, [InterviewNext]_interviewVars
             PROVE  ReachedInv'
  OBVIOUS
<1>1. CASE UNCHANGED interviewVars
  <2>1. InterviewTypeOK' /\ Requests' = Requests
    BY <1>1 DEF ReachedInv, InterviewTypeOK, interviewVars, Requests
  <2>2. RowReached'
    BY <1>1 DEF ReachedInv, RowReached, Earned, Closed, AllReached, Reached, interviewVars
  <2>3. \A t \in Requests : CopyReached(t)'
    BY <1>1 DEF ReachedInv, CopyReached, Earned, Closed, AllReached, Reached, interviewVars
  <2>4. QED
    BY <2>1, <2>2, <2>3 DEF ReachedInv
<1>2. ASSUME NEW t \in Tab,
             \/ Greeting(t) \/ Respond(t) \/ RespondBlocked(t)
             \/ Ask(t) \/ Close(t) \/ CutShort(t)
             \/ Reread(t) \/ Save(t) \/ Finalize(t) \/ Report(t) \/ ProcessDies(t)
      PROVE  ReachedInv'
  BY <1>2, GreetingReached, RespondReached, RespondBlockedReached, AskReached, CloseReached,
     EndsReached, RereadReached, SaveReached, FinalizeReached, ReportReached
<1>3. QED
  BY <1>1, <1>2 DEF InterviewNext

\* Every state is of its type; in particular the index is always that of a question.
THEOREM InterviewTypeCorrect == InterviewSpec => []InterviewTypeOK
<1>1. InterviewInit => ReachedInv
  BY ReachedInit, InterviewAssumption
<1>2. ReachedInv /\ [InterviewNext]_interviewVars => ReachedInv'
  BY ReachedStep, InterviewAssumption
<1>3. ReachedInv => InterviewTypeOK
  BY DEF ReachedInv
<1>4. QED
  BY <1>1, <1>2, <1>3, PTL DEF InterviewSpec

\* However the requests of a candidate overlap, fail and write over each other, an
\* interview is completed only after every question was put and answered.
THEOREM NoQuestionIsSkipped == InterviewSpec => []NothingSkipped
<1>1. InterviewInit => ReachedInv
  BY ReachedInit, InterviewAssumption
<1>2. ReachedInv /\ [InterviewNext]_interviewVars => ReachedInv'
  BY ReachedStep, InterviewAssumption
<1>3. ReachedInv => NothingSkipped
  BY DEF ReachedInv, RowReached, Earned, AllReached, NothingSkipped
<1>4. QED
  BY <1>1, <1>2, <1>3, PTL DEF InterviewSpec

-----------------------------------------------------------------------------
(* Interviews: a candidate who waits *)

\* While nothing is rushed there is one request at most, no row is completed under
\* it, and what it read again before its update is still the row.
Serial ==
  ~rushed =>
    /\ \A t, u \in Requests : t = u
    /\ Requests # {} => row.status # "completed"
    /\ \A t \in Requests : phase[t] = "saving" => base[t] = row

\* The request that saved the last turn, on its way to complete the interview.
Completing(t) ==
  \/ phase[t] = "finalizing"
  \/ phase[t] \in { "reporting", "updating", "saving" } /\ copy[t].status = "completed"

Finishing ==
  ~rushed /\ crashes = 0 /\ Over(row) => \E t \in Requests : Completing(t)

\* A request that begins while nothing is rushed is the only one.
LEMMA LoadsAlone ==
  ASSUME InterviewTypeOK, Serial, NEW t \in Tab, NEW x, NEW p \in Stages,
         Loads(t, x), Enters(t, p), ~rushed', p # "idle", p # "saving",
         row.status # "completed"
  PROVE  /\ ~rushed /\ Requests = {} /\ Requests' = { t } /\ Serial'
         /\ row' = row /\ stored' = stored /\ crashes' = crashes
         /\ phase'[t] = p /\ copy'[t] = x
<1>1. /\ phase' = [ phase EXCEPT ![t] = p ] /\ copy' = [ copy EXCEPT ![t] = x ]
      /\ row' = row /\ stored' = stored /\ crashes' = crashes
      /\ rushed' = (rushed \/ \E u \in Tab : phase[u] # "idle")
  BY DEF Loads, Enters
<1>2. ~rushed /\ Requests = {}
  BY <1>1 DEF Requests
<1>3. phase'[t] = p /\ copy'[t] = x
  BY <1>1 DEF InterviewTypeOK
<1>4. Requests' = { t }
  BY <1>1, <1>2, <1>3 DEF Requests, InterviewTypeOK
<1>5. Serial'
  BY <1>1, <1>3, <1>4 DEF Serial
<1>6. QED
  BY <1>1, <1>2, <1>3, <1>4, <1>5

\* A request that goes on while nothing is rushed is the only one, before and after.
LEMMA GoesAlone ==
  ASSUME InterviewTypeOK, Serial, ~rushed, NEW t \in Tab, NEW p \in Stages,
         phase[t] # "idle", Enters(t, p)
  PROVE  /\ Requests = { t } /\ Requests' \subseteq { t } /\ phase'[t] = p
         /\ p # "idle" => Requests' = { t }
         /\ row.status # "completed"
         /\ phase[t] = "saving" => base[t] = row
<1>1. phase' = [ phase EXCEPT ![t] = p ] /\ phase'[t] = p
  BY DEF Enters, InterviewTypeOK
<1>2. t \in Requests
  BY DEF Requests
<1>3. Requests = { t }
  BY <1>2 DEF Serial
<1>4. Requests' \subseteq { t } /\ (p # "idle" => t \in Requests')
  BY <1>1, <1>3 DEF Requests, InterviewTypeOK
<1>5. QED
  BY <1>1, <1>2, <1>3, <1>4 DEF Serial

\* What is written back while nothing is rushed is the copy.
LEMMA SavesCopy ==
  ASSUME InterviewTypeOK, Serial, ~rushed, NEW t \in Tab, Save(t)
  PROVE  row' = copy[t] /\ copy' = copy /\ stored' = stored /\ crashes' = crashes
<1>1. base[t] = row /\ row \in Interview /\ base[t] \in Interview /\ copy[t] \in Interview
  BY DEF Serial, Save, Requests, InterviewTypeOK
<1>2. Merged(row, base[t], copy[t]) = copy[t]
  BY <1>1, MergedType
<1>3. QED
  BY <1>2 DEF Save

SerialInv == InterviewTypeOK /\ Serial /\ Finishing

LEMMA SerialLoads ==
  ASSUME SerialInv, NEW t \in Tab, Greeting(t) \/ Respond(t) \/ RespondBlocked(t)
  PROVE  Serial' /\ Finishing'
<1>1. SUFFICES ASSUME ~rushed' PROVE Serial' /\ Finishing'
  BY DEF Serial, Finishing
<1>2. PICK x, p : p \in { "asking", "closing", "updating" } /\ Loads(t, x) /\ Enters(t, p)
  <2>1. CASE Greeting(t)
    <3>1. Loads(t, [ row EXCEPT !.status = "in_progress" ]) /\ Enters(t, "asking")
      BY <2>1 DEF Greeting
    <3>2. QED
      BY <3>1
  <2>2. CASE Respond(t)
    <3>1. \/ Loads(t, [ Said(row, "answer") EXCEPT !.index = @ + 1 ]) /\ Enters(t, "asking")
          \/ Loads(t, Said(row, "answer")) /\ Enters(t, "closing")
      BY <2>2 DEF Respond
    <3>2. QED
      BY <3>1
  <2>3. CASE RespondBlocked(t)
    <3>1. Loads(t, Said(row, "blocked")) /\ Enters(t, "updating")
      BY <2>3 DEF RespondBlocked
    <3>2. QED
      BY <3>1
  <2>4. QED
    BY <2>1, <2>2, <2>3
<1>3. row.status # "completed"
  BY DEF Greeting, Respond, RespondBlocked
<1>4. /\ ~rushed /\ Requests = {} /\ Serial' /\ row' = row /\ crashes' = crashes
  BY <1>1, <1>2, <1>3, LoadsAlone DEF SerialInv, Stages
<1>5. ~(crashes = 0 /\ Over(row))
  BY <1>4 DEF SerialInv, Finishing
<1>6. ~(crashes' = 0 /\ Over(row)')
  BY <1>4, <1>5 DEF Over
<1>7. QED
  BY <1>4, <1>6 DEF Finishing

\* The last turn is saved by the request that goes on to finalize.
LEMMA SerialSave ==
  ASSUME SerialInv, NEW t \in Tab, Save(t), ~rushed
  PROVE  Serial' /\ Finishing'
<1>1. phase[t] # "idle" /\ row' = copy[t] /\ copy' = copy
  BY SavesCopy DEF SerialInv, Save
<1>2. CASE Over(copy[t])
  <2>1. Enters(t, "finalizing")
    BY <1>2 DEF Save
  <2>2. Requests' = { t } /\ phase'[t] = "finalizing"
    BY <1>1, <2>1, GoesAlone DEF SerialInv, Stages
  <2>3. row'.status # "completed"
    BY <1>1, <1>2 DEF Over
  <2>4. QED
    BY <2>2, <2>3 DEF Serial, Finishing, Completing
<1>3. CASE ~Over(copy[t])
  <2>1. Enters(t, "idle")
    BY <1>3 DEF Save
  <2>2. Requests' \subseteq { t } /\ phase'[t] = "idle"
    BY <1>1, <2>1, GoesAlone DEF SerialInv, Stages
  <2>3. Requests' = {}
    BY <2>2 DEF Requests
  <2>4. ~Over(row)'
    BY <1>1, <1>3 DEF Over
  <2>5. QED
    BY <2>3, <2>4 DEF Serial, Finishing
<1>4. QED
  BY <1>2, <1>3

LEMMA SerialGoes ==
  ASSUME SerialInv, NEW t \in Tab, ~rushed,
         \/ Ask(t) \/ Close(t) \/ CutShort(t)
         \/ Reread(t) \/ Finalize(t) \/ Report(t) \/ ProcessDies(t)
  PROVE  Serial' /\ Finishing'
<1>1. PICK p \in Stages : /\ phase[t] # "idle" /\ Enters(t, p)
                          /\ p = "saving" => base' = [ base EXCEPT ![t] = row ]
  BY DEF Ask, Close, CutShort, Reread, Finalize, Report, ProcessDies, Stages
<1>2. row' = row /\ crashes' >= crashes /\ crashes \in Int /\ crashes' \in Int /\ crashes >= 0
  BY DEF Ask, Close, CutShort, Reread, Finalize, Report, ProcessDies, SerialInv, InterviewTypeOK
<1>3. /\ Requests = { t } /\ Requests' \subseteq { t } /\ phase'[t] = p
      /\ p # "idle" => Requests' = { t }
      /\ row.status # "completed"
  BY <1>1, GoesAlone DEF SerialInv
<1>4. p = "saving" => base'[t] = row
  BY <1>1 DEF SerialInv, InterviewTypeOK
<1>5. Serial'
  BY <1>2, <1>3, <1>4 DEF Serial
<1>6. Over(row)' = Over(row)
  BY <1>2 DEF Over
<1>7. ASSUME crashes' = 0, Over(row) PROVE \E u \in Requests' : Completing(u)'
  <2>1. crashes = 0 /\ crashes' = crashes /\ Completing(t)
    BY <1>2, <1>3, <1>7 DEF SerialInv, Finishing
  <2>2. ~ProcessDies(t)
    BY <2>1 DEF ProcessDies
  <2>3. Reread(t) \/ Finalize(t) \/ Report(t)
    BY <2>1, <2>2 DEF Completing, Ask, Close, CutShort
  <2>4. p # "idle" /\ Completing(t)'
    <3>1. CASE Reread(t)
      <4>1. phase'[t] = "saving" /\ copy' = copy /\ copy[t].status = "completed"
        BY <2>1, <3>1 DEF Completing, Reread, Enters, SerialInv, InterviewTypeOK
      <4>2. QED
        BY <1>3, <4>1 DEF Completing
    <3>2. CASE Finalize(t)
      <4>1. phase'[t] = "reporting"
        BY <3>2 DEF Finalize, Enters, SerialInv, InterviewTypeOK
      <4>2. PICK scores : copy' = [ copy EXCEPT ![t].scores = scores, ![t].status = "completed" ]
        BY <3>2 DEF Finalize
      <4>3. copy'[t].status = "completed"
        BY <4>2 DEF SerialInv, InterviewTypeOK, Interview
      <4>4. QED
        BY <1>3, <4>1, <4>3 DEF Completing
    <3>3. CASE Report(t)
      <4>1. phase'[t] = "updating" /\ copy[t].status = "completed"
        BY <2>1, <3>3 DEF Completing, Report, Enters, SerialInv, InterviewTypeOK
      <4>2. copy'[t].status = "completed"
        BY <3>3, <4>1 DEF Report, SerialInv, InterviewTypeOK, Interview
      <4>3. QED
        BY <1>3, <4>1, <4>2 DEF Completing
    <3>4. QED
      BY <2>3, <3>1, <3>2, <3>3
  <2>5. QED
    BY <1>3, <2>4
<1>8. QED
  BY <1>5, <1>6, <1>7 DEF Finishing

LEMMA SerialStep ==
  InterviewTypeOK' /\ SerialInv /\ [InterviewNext]_interviewVars => SerialInv'
<1> SUFFICES ASSUME InterviewTypeOK', SerialInv, [InterviewNext]_interviewVars
             PROVE  SerialInv'
  OBVIOUS
<1>1. CASE UNCHANGED interviewVars
  BY <1>1 DEF SerialInv, Serial, Finishing, Completing, Requests, Over, interviewVars
<1>2. ASSUME NEW t \in Tab, Greeting(t) \/ Respond(t) \/ RespondBlocked(t)
      PROVE  SerialInv'
  BY <1>2, SerialLoads DEF SerialInv
<1>3. ASSUME NEW t \in Tab,
             \/ Ask(t) \/ Close(t) \/ CutShort(t)
             \/ Reread(t) \/ Save(t) \/ Finalize(t) \/ Report(t) \/ ProcessDies(t)
      PROVE  SerialInv'
  <2>1. rushed' = rushed
    BY <1>3 DEF Ask, Close, CutShort, Reread, Save, Finalize, Report, ProcessDies
  <2>2. CASE rushed
    BY <2>1, <2>2 DEF SerialInv, Serial, Finishing
  <2>3. CASE ~rushed
    BY <1>3, <2>3, SerialSave, SerialGoes DEF SerialInv
  <2>4. QED
    BY <2>2, <2>3
<1>4. QED
  BY <1>1, <1>2, <1>3 DEF InterviewNext

LEMMA SerialInit == InterviewInit /\ InterviewTypeOK => SerialInv
<1> SUFFICES ASSUME InterviewInit, InterviewTypeOK
             PROVE  SerialInv
  OBVIOUS
<1>1. Requests = {}
  BY DEF InterviewInit, Requests
<1>2. ~Over(row)
  BY DEF InterviewInit, Over, Blank
<1>3. QED
  BY <1>1, <1>2 DEF SerialInv, Serial, Finishing

\* Once the last answer is saved the interview is finalized, whether or not the
\* candidate stays, unless a process died or requests overlapped.
THEOREM LastTurnIsFinalized == InterviewSpec => []FinishedIsFinalized
<1>1. InterviewInit => SerialInv
  BY SerialInit, ReachedInit, InterviewAssumption DEF ReachedInv
<1>2. InterviewTypeOK' /\ SerialInv /\ [InterviewNext]_interviewVars => SerialInv'
  BY SerialStep
<1>3. SerialInv => FinishedIsFinalized
  <2>1. SUFFICES ASSUME SerialInv, Over(row), \A t \in Tab : phase[t] = "idle", ~rushed
                 PROVE  crashes > 0
    BY DEF FinishedIsFinalized
  <2>2. Requests = {}
    BY <2>1 DEF Requests
  <2>3. crashes # 0 /\ crashes \in 0 .. MaxCrashes
    BY <2>1, <2>2 DEF SerialInv, Finishing, InterviewTypeOK
  <2>4. QED
    BY <2>3, InterviewAssumption DEF InterviewAssumption
<1>4. QED
  BY <1>1, <1>2, <1>3, InterviewTypeCorrect, PTL DEF InterviewSpec

-----------------------------------------------------------------------------
(* Interviews: a whole report *)

Count(s) == Cardinality(Kept(s))

\* As far as the ideal goes, the turns kept are its turns.
Faithful(s) == \A n \in Kept(s) : Place(s, n) \in DOMAIN Ideal => s[n] = Ideal[Place(s, n)]

LEMMA CountType == ASSUME NEW s \in Seq(Turn) PROVE IsFiniteSet(Kept(s)) /\ Count(s) \in Nat
<1>1. IsFiniteSet(1 .. Len(s)) /\ Kept(s) \subseteq 1 .. Len(s)
  BY FS_Interval DEF Kept
<1>2. IsFiniteSet(Kept(s))
  BY <1>1, FS_Subset
<1>3. QED
  BY <1>2, FS_CardinalityType DEF Count

\* A refused answer changes nothing of what is kept.
LEMMA AppendBlocked ==
  ASSUME NEW s \in Seq(Turn), NEW turn \in Turn, turn.what = "blocked", Faithful(s)
  PROVE  Count(Append(s, turn)) = Count(s) /\ Faithful(Append(s, turn))
<1> DEFINE more == Append(s, turn)
<1>1. /\ DOMAIN more = 1 .. Len(s) + 1 /\ DOMAIN s = 1 .. Len(s) /\ Len(s) \in Nat
      /\ \A n \in DOMAIN s : more[n] = s[n]
      /\ more[Len(s) + 1] = turn
  OBVIOUS
<1> HIDE DEF more
<1>2. Kept(more) = Kept(s)
  BY <1>1 DEF Kept
<1>3. \A n : Place(more, n) = Place(s, n)
  BY <1>2 DEF Place
<1>4. Faithful(more)
  BY <1>1, <1>2, <1>3 DEF Faithful, Kept
<1>5. QED
  BY <1>2, <1>4 DEF Count, more

\* Another turn is one more, in the next place.
LEMMA AppendKept ==
  ASSUME NEW s \in Seq(Turn), NEW turn \in Turn, turn.what # "blocked", Faithful(s),
         Count(s) + 1 \in DOMAIN Ideal => turn = Ideal[Count(s) + 1]
  PROVE  Count(Append(s, turn)) = Count(s) + 1 /\ Faithful(Append(s, turn))
<1> DEFINE more == Append(s, turn)
           last == Len(s) + 1
<1>1. /\ DOMAIN more = 1 .. last /\ DOMAIN s = 1 .. Len(s) /\ Len(s) \in Nat
      /\ \A n \in DOMAIN s : more[n] = s[n]
      /\ more[last] = turn /\ last = Len(s) + 1
  OBVIOUS
<1> HIDE DEF more, last
<1>2. Kept(more) = Kept(s) \cup { last } /\ last \notin Kept(s)
  BY <1>1 DEF Kept
<1>3. Count(more) = Count(s) + 1
  BY <1>2, CountType, FS_AddElement DEF Count
<1>4. ASSUME NEW n \in Kept(more), Place(more, n) \in DOMAIN Ideal
      PROVE  more[n] = Ideal[Place(more, n)]
  <2>1. CASE n = last
    <3>1. { m \in Kept(more) : m <= n } = Kept(more)
      BY <1>1, <2>1 DEF Kept
    <3>2. Place(more, n) = Count(s) + 1
      BY <1>3, <3>1 DEF Place, Count
    <3>3. QED
      BY <1>1, <1>4, <2>1, <3>2
  <2>2. CASE n # last
    <3>1. n \in Kept(s) /\ n \in DOMAIN s
      BY <1>2, <2>2 DEF Kept
    <3>2. { m \in Kept(more) : m <= n } = { m \in Kept(s) : m <= n }
      BY <1>1, <1>2, <3>1
    <3>3. Place(more, n) = Place(s, n)
      BY <3>2 DEF Place
    <3>4. QED
      BY <1>1, <1>4, <3>1, <3>3 DEF Faithful
  <2>3. QED
    BY <2>1, <2>2
<1>5. QED
  BY <1>3, <1>4 DEF Faithful, more

\* The place of a question and of its answer.
LEMMA IdealTurns ==
  ASSUME InterviewAssumption, NEW i \in Question
  PROVE  /\ DOMAIN Ideal = 1 .. 2 * LastIndex + 2
         /\ Ideal[2 * i + 1] = [ what |-> "question", about |-> i ]
         /\ Ideal[2 * i + 2] = [ what |-> "answer", about |-> i ]
<1>1. i \in Int /\ LastIndex \in Int /\ 0 <= i /\ i <= LastIndex
  BY DEF InterviewAssumption, Question
<1>2. 2 * i + 1 \in 1 .. 2 * (LastIndex + 1) /\ 2 * i + 2 \in 1 .. 2 * (LastIndex + 1)
  BY <1>1
<1>3. /\ (2 * i + 1) % 2 = 1 /\ (2 * i + 2) % 2 # 1
      /\ (2 * i + 1 - 1) \div 2 = i /\ (2 * i + 2 - 1) \div 2 = i
  BY <1>1
<1>4. QED
  BY <1>1, <1>2, <1>3 DEF Ideal

\* Of an interview: every question and answer is on the transcript; or all up to the
\* one before the question, or the question, that it is at.
Ample(x) == x.index = LastIndex /\ Count(x.transcript) >= 2 * LastIndex + 2

Between(x) == Count(x.transcript) = 2 * x.index + 1 \/ Ample(x)

\* What an interview says is true of it, as the report is kept.
Sound(x, kept) ==
  /\ Faithful(x.transcript)
  /\ Closed(x) \/ x.status = "completed" => Ample(x)
  /\ x.scores \in { << >>, x.transcript }
  /\ x.reported => kept = x.scores
  /\ x.status # "completed" => x.scores = << >> /\ ~x.reported

RowSound ==
  /\ Sound(row, stored)
  /\ row.status = "scheduled" => row = Blank
  /\ row.status # "scheduled" => Between(row)

CopyFits(x, kept, stage) ==
  /\ Sound(x, kept) /\ x.status # "scheduled"
  /\ stage = "asking" => Count(x.transcript) = 2 * x.index
  /\ stage # "asking" => Between(x)
  /\ stage \in { "closing", "finalizing" } => Ample(x)
  /\ stage \in { "asking", "closing", "finalizing" } => x.status = "in_progress"
  /\ stage = "reporting" => x.status = "completed" /\ ~x.reported

SoundInv ==
  ~rushed => RowSound /\ \A t \in Requests : CopyFits(copy[t], stored, phase[t])

\* A sound interview that is in progress, and a turn that fits.
LEMMA SaidSound ==
  ASSUME InterviewAssumption, NEW x \in Interview, NEW kept, NEW what,
         what \in Told \/ (what = "closing" /\ x.index = LastIndex),
         Sound(x, kept), x.status = "in_progress",
         what = "question" => Count(x.transcript) = 2 * x.index,
         what = "answer" => Between(x),
         what = "closing" => Ample(x)
  PROVE  LET y == Said(x, what)
         IN  /\ Faithful(y.transcript) /\ y.scores = << >> /\ ~y.reported
             /\ Count(y.transcript) \in Nat
             /\ what = "blocked" => Count(y.transcript) = Count(x.transcript)
             /\ what # "blocked" => Count(y.transcript) = Count(x.transcript) + 1
             /\ what # "closing" /\ Closed(y) => Closed(x)
<1> DEFINE turn == [ what |-> what, about |-> x.index ]
<1> DEFINE y == Said(x, what)
<1>1. /\ turn \in Turn /\ y.transcript = Append(x.transcript, turn)
      /\ y.scores = x.scores /\ y.reported = x.reported /\ turn.what = what
      /\ x.transcript \in Seq(Turn) /\ x.index \in Question
  BY SaidType DEF Interview
<1>2. Faithful(x.transcript) /\ x.scores = << >> /\ ~x.reported /\ (Closed(x) => Ample(x))
  BY DEF Sound
<1>3. /\ DOMAIN Ideal = 1 .. 2 * LastIndex + 2
      /\ Ideal[2 * x.index + 1] = [ what |-> "question", about |-> x.index ]
      /\ Ideal[2 * x.index + 2] = [ what |-> "answer", about |-> x.index ]
  BY <1>1, IdealTurns
<1>4. /\ LastIndex \in Int /\ x.index \in Int /\ x.index <= LastIndex
      /\ Count(x.transcript) \in Nat
  BY <1>1, CountType DEF InterviewAssumption, Question
<1>5. CASE what = "blocked"
  <2>1. Count(y.transcript) = Count(x.transcript) /\ Faithful(y.transcript)
    BY <1>1, <1>2, <1>5, AppendBlocked
  <2>2. Closed(y) => Closed(x)
    BY <1>1, <1>5, SaidUnclosed DEF Told
  <2>3. QED
    BY <1>1, <1>2, <1>4, <1>5, <2>1, <2>2
<1>6. CASE what # "blocked"
  <2>1. Count(x.transcript) + 1 \in DOMAIN Ideal => turn = Ideal[Count(x.transcript) + 1]
    <3>1. SUFFICES ASSUME Count(x.transcript) + 1 \in DOMAIN Ideal
                   PROVE  turn = Ideal[Count(x.transcript) + 1]
      OBVIOUS
    <3>2. ~Ample(x)
      BY <1>3, <1>4, <3>1 DEF Ample
    <3>3. CASE what = "question"
      <4>1. Count(x.transcript) + 1 = 2 * x.index + 1
        BY <3>3
      <4>2. QED
        BY <1>3, <3>3, <4>1
    <3>4. CASE what = "answer"
      <4>1. Count(x.transcript) + 1 = 2 * x.index + 2
        BY <1>4, <3>2, <3>4 DEF Between
      <4>2. QED
        BY <1>3, <3>4, <4>1
    <3>5. QED
      BY <1>6, <3>2, <3>3, <3>4 DEF Told
  <2>2. Count(y.transcript) = Count(x.transcript) + 1 /\ Faithful(y.transcript)
    BY <1>1, <1>2, <1>6, <2>1, AppendKept
  <2>3. what # "closing" /\ Closed(y) => Closed(x)
    BY SaidUnclosed DEF Told
  <2>4. QED
    BY <1>1, <1>2, <1>4, <1>6, <2>2, <2>3
<1>7. QED
  BY <1>5, <1>6

\* While nothing is rushed the request that is let in is the only one.
LEMMA SoundLoads ==
  ASSUME InterviewTypeOK, SerialInv, SoundInv, NEW t \in Tab, NEW x, NEW p \in Stages,
         Loads(t, x), Enters(t, p), ~rushed', p # "idle", p # "saving",
         row.status # "completed", CopyFits(x, stored, p)
  PROVE  SoundInv'
<1>1. /\ ~rushed /\ Requests' = { t } /\ row' = row /\ stored' = stored
      /\ phase'[t] = p /\ copy'[t] = x
  BY LoadsAlone DEF SerialInv
<1>2. RowSound'
  BY <1>1 DEF SoundInv, RowSound, Sound, Between
<1>3. CopyFits(copy[t], stored, phase[t])'
  BY <1>1 DEF CopyFits, Sound, Between
<1>4. QED
  BY <1>1, <1>2, <1>3 DEF SoundInv

LEMMA SoundGreeting ==
  ASSUME InterviewAssumption, InterviewTypeOK, SerialInv, SoundInv, NEW t \in Tab,
         Greeting(t), ~rushed'
  PROVE  SoundInv'
<1>1. PICK x : x = [ row EXCEPT !.status = "in_progress" ]
  OBVIOUS
<1>2. Loads(t, x) /\ Enters(t, "asking") /\ row.status = "scheduled"
  BY <1>1 DEF Greeting
<1>3. ~rushed
  BY <1>2 DEF Loads
<1>4. row = Blank
  BY <1>2, <1>3 DEF SoundInv, RowSound
<1>5. /\ x.status = "in_progress" /\ x.index = 0 /\ x.transcript = << >> /\ x.scores = << >>
      /\ ~x.reported
  BY <1>1, <1>4 DEF Blank
<1>6. Kept(x.transcript) = {} /\ ~Closed(x)
  BY <1>5 DEF Kept, Closed
<1>7. Count(x.transcript) = 0 /\ Faithful(x.transcript)
  BY <1>6, FS_EmptySet DEF Count, Faithful
<1>8. CopyFits(x, stored, "asking")
  BY <1>5, <1>6, <1>7 DEF CopyFits, Sound
<1>9. QED
  BY <1>2, <1>8, SoundLoads DEF Stages

LEMMA SoundRespond ==
  ASSUME InterviewAssumption, InterviewTypeOK, SerialInv, SoundInv, NEW t \in Tab,
         Respond(t), ~rushed'
  PROVE  SoundInv'
<1>1. row \in Interview /\ row.status = "in_progress" /\ ~rushed
  BY DEF Respond, Loads, InterviewTypeOK
<1>2. Sound(row, stored) /\ Between(row)
  BY <1>1 DEF SoundInv, RowSound
<1>3. PICK heard : heard = Said(row, "answer")
  OBVIOUS
<1>4. /\ heard \in Interview /\ heard.status = "in_progress" /\ heard.index = row.index
      /\ Faithful(heard.transcript) /\ heard.scores = << >> /\ ~heard.reported
      /\ Count(heard.transcript) = Count(row.transcript) + 1
      /\ Closed(heard) => Closed(row)
  <2>1. /\ heard \in Interview /\ heard.status = "in_progress" /\ heard.index = row.index
    BY <1>1, <1>3, SaidType DEF Told
  <2>2. /\ Faithful(heard.transcript) /\ heard.scores = << >> /\ ~heard.reported
        /\ Count(heard.transcript) = Count(row.transcript) + 1
        /\ Closed(heard) => Closed(row)
    <3>1. PICK what : what = "answer"
      OBVIOUS
    <3>2. /\ what \in Told /\ heard = Said(row, what)
          /\ what # "question" /\ what # "closing"
          /\ what = "blocked" \/ what # "blocked"
      BY <1>3, <3>1 DEF Told
    <3>3. QED
      BY <1>1, <1>2, <3>1, <3>2, SaidSound
  <2>3. QED
    BY <2>1, <2>2
<1>5. /\ LastIndex \in Int /\ row.index \in Int /\ row.index <= LastIndex
      /\ Count(row.transcript) \in Nat
  BY <1>1, CountType DEF InterviewAssumption, Interview, Question
<1>6. Closed(row) => Ample(row)
  BY <1>2 DEF Sound
<1>7. CASE row.index < LastIndex
  <2>1. PICK x : x = [ heard EXCEPT !.index = @ + 1 ]
    OBVIOUS
  <2>2. /\ x \in Interview /\ x.status = "in_progress" /\ x.index = row.index + 1
        /\ x.transcript = heard.transcript /\ x.scores = << >> /\ ~x.reported
    BY <1>4, <1>7, <2>1, MovedType
  <2>3. Loads(t, x) /\ Enters(t, "asking")
    BY <1>3, <1>7, <2>1 DEF Respond
  <2>4. Count(row.transcript) = 2 * row.index + 1 /\ ~Closed(row)
    BY <1>2, <1>5, <1>6, <1>7 DEF Between, Ample
  <2>5. Count(x.transcript) = 2 * x.index
    BY <1>4, <1>5, <2>2, <2>4
  <2>6. ~Closed(x)
    BY <1>4, <2>2, <2>4 DEF Closed
  <2>7. CopyFits(x, stored, "asking")
    BY <1>4, <2>2, <2>5, <2>6 DEF CopyFits, Sound
  <2>8. QED
    BY <1>1, <2>3, <2>7, SoundLoads DEF Stages
<1>8. CASE ~(row.index < LastIndex)
  <2>1. Loads(t, heard) /\ Enters(t, "closing")
    BY <1>3, <1>8 DEF Respond
  <2>2. Ample(heard)
    BY <1>2, <1>4, <1>5, <1>8 DEF Between, Ample
  <2>3. CopyFits(heard, stored, "closing")
    BY <1>4, <2>2 DEF CopyFits, Sound, Between
  <2>4. QED
    BY <1>1, <2>1, <2>3, SoundLoads DEF Stages
<1>9. QED
  BY <1>7, <1>8

LEMMA SoundBlocked ==
  ASSUME InterviewAssumption, InterviewTypeOK, SerialInv, SoundInv, NEW t \in Tab,
         RespondBlocked(t), ~rushed'
  PROVE  SoundInv'
<1>1. row \in Interview /\ row.status = "in_progress" /\ ~rushed
  BY DEF RespondBlocked, Loads, InterviewTypeOK
<1>2. Sound(row, stored) /\ Between(row)
  BY <1>1 DEF SoundInv, RowSound
<1>3. PICK x : x = Said(row, "blocked")
  OBVIOUS
<1>4. /\ x \in Interview /\ x.status = "in_progress" /\ x.index = row.index
      /\ Faithful(x.transcript) /\ x.scores = << >> /\ ~x.reported
      /\ Count(x.transcript) = Count(row.transcript)
      /\ Closed(x) => Closed(row)
  <2>1. /\ x \in Interview /\ x.status = "in_progress" /\ x.index = row.index
    BY <1>1, <1>3, SaidType DEF Told
  <2>2. /\ Faithful(x.transcript) /\ x.scores = << >> /\ ~x.reported
        /\ Count(x.transcript) = Count(row.transcript)
        /\ Closed(x) => Closed(row)
    <3>1. PICK what : what = "blocked"
      OBVIOUS
    <3>2. /\ what \in Told /\ x = Said(row, what)
          /\ what # "question" /\ what # "closing"
          /\ what = "blocked" \/ what # "blocked"
      BY <1>3, <3>1 DEF Told
    <3>3. QED
      BY <1>1, <1>2, <3>1, <3>2, SaidSound
  <2>3. QED
    BY <2>1, <2>2
<1>5. Between(x) /\ (Closed(x) => Ample(x))
  BY <1>2, <1>4 DEF Sound, Between, Ample
<1>6. CopyFits(x, stored, "updating")
  BY <1>4, <1>5 DEF CopyFits, Sound
<1>7. Loads(t, x) /\ Enters(t, "updating")
  BY <1>3 DEF RespondBlocked
<1>8. QED
  BY <1>1, <1>6, <1>7, SoundLoads DEF Stages

\* While nothing is rushed the request that goes on is the only one.
LEMMA SoundGoes ==
  ASSUME InterviewTypeOK, SerialInv, SoundInv, ~rushed, NEW t \in Tab, NEW x, NEW p \in Stages,
         phase[t] # "idle", Enters(t, p), copy'[t] = x, row' = row,
         Sound(row, stored'), p # "idle" => CopyFits(x, stored', p)
  PROVE  SoundInv'
<1>1. Requests' \subseteq { t } /\ phase'[t] = p
  BY GoesAlone DEF SerialInv
<1>2. RowSound'
  BY DEF SoundInv, RowSound, Sound, Between
<1>3. ASSUME p # "idle" PROVE CopyFits(copy[t], stored, phase[t])'
  BY <1>1, <1>3 DEF CopyFits, Sound, Between
<1>4. QED
  BY <1>1, <1>2, <1>3 DEF SoundInv, Requests

\* What is known of the only request.
LEMMA SoundNow ==
  ASSUME InterviewTypeOK, SoundInv, ~rushed, NEW t \in Tab, phase[t] # "idle"
  PROVE  CopyFits(copy[t], stored, phase[t]) /\ Sound(row, stored) /\ copy[t] \in Interview
BY DEF SoundInv, RowSound, Requests, InterviewTypeOK

LEMMA SoundTalks ==
  ASSUME InterviewAssumption, InterviewTypeOK, SerialInv, SoundInv, ~rushed, NEW t \in Tab,
         Ask(t) \/ Close(t)
  PROVE  SoundInv'
<1>1. PICK c, what : /\ c = copy[t]
                     /\ \/ what = "question" /\ Ask(t)
                        \/ what = "closing" /\ Close(t)
  OBVIOUS
<1>2. PICK x : x = Said(c, what)
  OBVIOUS
<1>3. /\ phase[t] = IF what = "question" THEN "asking" ELSE "closing"
      /\ copy' = [ copy EXCEPT ![t] = x ] /\ row' = row /\ stored' = stored
      /\ Enters(t, "updating")
  BY <1>1, <1>2 DEF Ask, Close
<1>4. /\ c \in Interview /\ Sound(c, stored) /\ c.status = "in_progress" /\ Sound(row, stored)
      /\ what = "question" => Count(c.transcript) = 2 * c.index
      /\ what = "closing" => Ample(c)
  BY <1>1, <1>3, SoundNow DEF CopyFits
<1>5. what \in Told \/ (what = "closing" /\ c.index = LastIndex)
  BY <1>1, <1>4 DEF Told, Ample
<1>6. x \in Interview /\ x.status = "in_progress" /\ x.index = c.index
  BY <1>2, <1>4, <1>5, SaidType
<1>7. /\ Faithful(x.transcript) /\ x.scores = << >> /\ ~x.reported
      /\ Count(x.transcript) = Count(c.transcript) + 1
      /\ what # "closing" /\ Closed(x) => Closed(c)
  <2>1. what # "answer" /\ what # "blocked"
    BY <1>1
  <2>2. QED
    BY <1>2, <1>4, <1>5, <2>1, SaidSound
<1>8. Count(c.transcript) \in Nat /\ LastIndex \in Int /\ c.index \in Int /\ c.index <= LastIndex
  BY <1>4, CountType DEF Interview, Question, InterviewAssumption
<1>9. Between(x) /\ (Closed(x) => Ample(x))
  <2>1. CASE what = "question"
    <3>1. Count(x.transcript) = 2 * x.index + 1
      BY <1>4, <1>6, <1>7, <2>1
    <3>2. ~Closed(c)
      BY <1>4, <1>8, <2>1 DEF Sound, Ample
    <3>3. QED
      BY <1>7, <2>1, <3>1, <3>2 DEF Between
  <2>2. CASE what = "closing"
    <3>1. Ample(x)
      BY <1>4, <1>6, <1>7, <1>8, <2>2 DEF Ample
    <3>2. QED
      BY <3>1 DEF Between
  <2>3. QED
    BY <1>1, <2>1, <2>2
<1>10. CopyFits(x, stored', "updating")
  BY <1>3, <1>6, <1>7, <1>9 DEF CopyFits, Sound
<1>11. copy'[t] = x /\ phase[t] # "idle"
  BY <1>3 DEF InterviewTypeOK
<1>12. QED
  BY <1>3, <1>4, <1>10, <1>11, SoundGoes DEF Stages

LEMMA SoundEnds ==
  ASSUME InterviewTypeOK, SerialInv, SoundInv, ~rushed, NEW t \in Tab,
         CutShort(t) \/ ProcessDies(t)
  PROVE  SoundInv'
<1>1. PICK x : x = copy'[t]
  OBVIOUS
<1>2. phase[t] # "idle" /\ row' = row /\ stored' = stored /\ Enters(t, "idle")
  BY DEF CutShort, ProcessDies
<1>3. Sound(row, stored')
  BY <1>2, SoundNow
<1>4. QED
  BY <1>1, <1>2, <1>3, SoundGoes DEF Stages

LEMMA SoundReread ==
  ASSUME InterviewTypeOK, SerialInv, SoundInv, ~rushed, NEW t \in Tab, Reread(t)
  PROVE  SoundInv'
<1>1. PICK x : x = copy[t]
  OBVIOUS
<1>2. /\ phase[t] = "updating" /\ row' = row /\ stored' = stored /\ copy' = copy
      /\ Enters(t, "saving")
  BY DEF Reread
<1>3. Sound(row, stored) /\ CopyFits(x, stored, "updating")
  BY <1>1, <1>2, SoundNow
<1>4. CopyFits(x, stored', "saving")
  BY <1>2, <1>3 DEF CopyFits
<1>5. QED
  BY <1>1, <1>2, <1>3, <1>4, SoundGoes DEF Stages

LEMMA SoundFinalize ==
  ASSUME InterviewTypeOK, SerialInv, SoundInv, ~rushed, NEW t \in Tab, Finalize(t)
  PROVE  SoundInv'
<1>1. PICK c : c = copy[t]
  OBVIOUS
<1>2. /\ phase[t] = "finalizing" /\ row' = row /\ stored' = stored /\ Enters(t, "reporting")
  BY DEF Finalize
<1>3. Sound(row, stored) /\ CopyFits(c, stored, "finalizing") /\ c \in Interview
  BY <1>1, <1>2, SoundNow
<1>4. PICK scores \in Scored(c.transcript) :
             copy' = [ copy EXCEPT ![t].scores = scores, ![t].status = "completed" ]
  BY <1>1 DEF Finalize
<1>5. PICK x : x = [ c EXCEPT !.scores = scores, !.status = "completed" ]
  OBVIOUS
<1>6. /\ x.status = "completed" /\ x.scores = scores /\ x.transcript = c.transcript
      /\ x.reported = c.reported /\ x.index = c.index /\ copy'[t] = x
  BY <1>1, <1>3, <1>4, <1>5 DEF Interview, InterviewTypeOK
<1>7. /\ Faithful(c.transcript) /\ Ample(c) /\ ~c.reported
  BY <1>3 DEF CopyFits, Sound
<1>8. scores \in { << >>, x.transcript }
  BY <1>6 DEF Scored
<1>9. Ample(x)
  BY <1>6, <1>7 DEF Ample
<1>10. CopyFits(x, stored', "reporting")
  BY <1>6, <1>7, <1>8, <1>9 DEF CopyFits, Sound, Between
<1>11. QED
  BY <1>2, <1>3, <1>6, <1>10, SoundGoes DEF Stages

LEMMA SoundReport ==
  ASSUME InterviewTypeOK, SerialInv, SoundInv, ~rushed, NEW t \in Tab, Report(t)
  PROVE  SoundInv'
<1>1. PICK c : c = copy[t]
  OBVIOUS
<1>2. /\ phase[t] = "reporting" /\ row' = row /\ Enters(t, "updating")
  BY DEF Report
<1>3. Sound(row, stored) /\ CopyFits(c, stored, "reporting") /\ c \in Interview
  BY <1>1, <1>2, SoundNow
<1>4. row.status # "completed"
  BY <1>2, GoesAlone DEF SerialInv, Stages
<1>5. Sound(row, stored')
  BY <1>3, <1>4 DEF Sound
<1>6. /\ Sound(c, stored) /\ Ample(c) /\ c.status = "completed" /\ ~c.reported
  BY <1>3 DEF CopyFits, Sound
<1>7. CASE stored' = c.scores /\ copy' = [ copy EXCEPT ![t].reported = TRUE ]
  <2>1. PICK x : x = [ c EXCEPT !.reported = TRUE ]
    OBVIOUS
  <2>2. /\ x.status = "completed" /\ x.scores = c.scores /\ x.transcript = c.transcript
        /\ x.index = c.index /\ copy'[t] = x
    BY <1>1, <1>3, <1>6, <1>7, <2>1 DEF Interview, InterviewTypeOK
  <2>3. Ample(x)
    BY <1>6, <2>2 DEF Ample
  <2>4. Sound(x, stored')
    BY <1>6, <1>7, <2>2, <2>3 DEF Sound
  <2>5. CopyFits(x, stored', "updating")
    BY <2>2, <2>3, <2>4 DEF CopyFits, Between
  <2>6. QED
    BY <1>2, <1>5, <2>2, <2>5, SoundGoes DEF Stages
<1>8. CASE stored' = stored /\ copy' = copy
  <2>1. CopyFits(c, stored', "updating") /\ copy'[t] = c
    BY <1>1, <1>6, <1>8 DEF CopyFits, Between
  <2>2. QED
    BY <1>2, <1>5, <2>1, SoundGoes DEF Stages
<1>9. QED
  BY <1>1, <1>7, <1>8 DEF Report

LEMMA SoundSave ==
  ASSUME InterviewTypeOK, SerialInv, SoundInv, ~rushed, NEW t \in Tab, Save(t)
  PROVE  SoundInv'
<1>1. PICK c : c = copy[t]
  OBVIOUS
<1>2. phase[t] = "saving" /\ row' = c /\ copy'[t] = c /\ stored' = stored
  BY <1>1, SavesCopy DEF SerialInv, Save
<1>3. CopyFits(c, stored, "saving") /\ c \in Interview
  BY <1>1, <1>2, SoundNow
<1>4. Sound(c, stored) /\ c.status # "scheduled" /\ Between(c)
  BY <1>3 DEF CopyFits
<1>5. RowSound'
  BY <1>2, <1>4 DEF RowSound, Sound, Between
<1>6. PICK p \in { "finalizing", "idle" } : Enters(t, p) /\ (p = "finalizing" => Over(c))
  BY <1>1 DEF Save
<1>7. Requests' \subseteq { t } /\ phase'[t] = p
  BY <1>2, <1>6, GoesAlone DEF SerialInv, Stages
<1>8. ASSUME p = "finalizing" PROVE CopyFits(copy[t], stored, phase[t])'
  <2>1. c.status = "in_progress" /\ Closed(c)
    BY <1>3, <1>6, <1>8 DEF Over, Closed, Interview
  <2>2. Ample(c)
    BY <1>4, <2>1 DEF Sound
  <2>3. CopyFits(c, stored, "finalizing")
    BY <1>4, <2>1, <2>2 DEF CopyFits
  <2>4. QED
    BY <1>2, <1>7, <1>8, <2>3 DEF CopyFits, Sound, Between
<1>9. QED
  BY <1>5, <1>7, <1>8 DEF SoundInv, Requests

LEMMA SoundInit == InterviewInit => SoundInv
<1> SUFFICES ASSUME InterviewInit
             PROVE  SoundInv
  OBVIOUS
<1>1. Requests = {} /\ row = Blank
  BY DEF InterviewInit, Requests
<1>2. Kept(row.transcript) = {} /\ ~Closed(row)
  BY <1>1 DEF Kept, Closed, Blank
<1>3. Sound(row, stored) /\ row.status = "scheduled"
  BY <1>1, <1>2 DEF Sound, Faithful, Blank
<1>4. QED
  BY <1>1, <1>3 DEF SoundInv, RowSound

LEMMA SoundStep ==
  InterviewAssumption /\ SerialInv /\ SoundInv /\ [InterviewNext]_interviewVars => SoundInv'
<1> SUFFICES ASSUME InterviewAssumption, SerialInv, SoundInv, [InterviewNext]_interviewVars
             PROVE  SoundInv'
  OBVIOUS
<1>1. InterviewTypeOK
  BY DEF SerialInv
<1>2. SUFFICES ASSUME ~rushed' PROVE SoundInv'
  BY DEF SoundInv
<1>3. CASE UNCHANGED interviewVars
  BY <1>3 DEF SoundInv, RowSound, Sound, Between, CopyFits, Requests, interviewVars
<1>4. ASSUME NEW t \in Tab, Greeting(t) \/ Respond(t) \/ RespondBlocked(t)
      PROVE  SoundInv'
  BY <1>1, <1>2, <1>4, SoundGreeting, SoundRespond, SoundBlocked
<1>5. ASSUME NEW t \in Tab,
             \/ Ask(t) \/ Close(t) \/ CutShort(t)
             \/ Reread(t) \/ Save(t) \/ Finalize(t) \/ Report(t) \/ ProcessDies(t)
      PROVE  SoundInv'
  <2>1. ~rushed
    BY <1>2, <1>5 DEF Ask, Close, CutShort, Reread, Save, Finalize, Report, ProcessDies
  <2>2. QED
    BY <1>1, <1>5, <2>1, SoundTalks, SoundEnds, SoundReread, SoundFinalize, SoundReport, SoundSave
<1>6. QED
  BY <1>3, <1>4, <1>5 DEF InterviewNext

\* For a candidate who waits for each answer, a completed interview has every question
\* in order with its answer, its scores are of that transcript, and the document that
\* is kept is of those scores.
THEOREM ReportIsWhole == InterviewSpec => []ReportComplete
<1>1. InterviewInit => SerialInv /\ SoundInv
  BY SerialInit, SoundInit, ReachedInit, InterviewAssumption DEF ReachedInv
<1>2. InterviewTypeOK' /\ SerialInv /\ SoundInv /\ [InterviewNext]_interviewVars
        => SerialInv' /\ SoundInv'
  BY SerialStep, SoundStep, InterviewAssumption
<1>3. SerialInv /\ SoundInv => ReportComplete
  <2>1. SUFFICES ASSUME SerialInv, SoundInv, row.status = "completed", ~rushed
                 PROVE  /\ Cardinality(Kept(row.transcript)) >= 2 * (LastIndex + 1)
                        /\ Faithful(row.transcript)
                        /\ row.scores \in { << >>, row.transcript }
                        /\ row.reported => stored = row.scores
    BY DEF ReportComplete, Faithful
  <2>2. Sound(row, stored) /\ row \in Interview
    BY <2>1 DEF SoundInv, RowSound, SerialInv, InterviewTypeOK
  <2>3. Ample(row) /\ row.transcript \in Seq(Turn)
    BY <2>1, <2>2 DEF Sound, Interview
  <2>4. Cardinality(Kept(row.transcript)) >= 2 * (LastIndex + 1)
    BY <2>3, CountType, InterviewAssumption DEF Ample, Count, InterviewAssumption
  <2>5. QED
    BY <2>2, <2>4 DEF Sound
<1>4. QED
  BY <1>1, <1>2, <1>3, InterviewTypeCorrect, PTL DEF InterviewSpec

==============================================================================
