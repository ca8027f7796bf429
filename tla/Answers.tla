------------------------------ MODULE Answers ------------------------------
(***************************************************************************)
(* How a workspace answers, and what it counts against its daily allowance *)
(* of tokens: the endpoints and use cases that take a message, ask a       *)
(* language model, and store the answer with what it cost.                 *)
(*                                                                         *)
(* Each holds no transaction across the model: one admits the request and  *)
(* stores the message, another stores the answer and adds to the counter   *)
(* of the day.  Some answers stream, and a stream is cancelled when its    *)
(* reader leaves.                                                          *)
(*                                                                         *)
(* Left out: the text, retrieval, citations, request logs, rate limits,    *)
(* and the turns of an interview, which are counted in the same way.       *)
(***************************************************************************)
EXTENDS Integers, Sequences, FiniteSets

CONSTANTS
  Worker,    \* the requests the processes serve at once
  Session,   \* the chat sessions
  Kinds,     \* the kinds of request
  Quota,     \* tenants.daily_token_quota
  MaxCost,   \* bound: the tokens of one answer
  MaxDays,   \* bound: the days
  Budget,    \* bound: the requests each worker serves
  MaxFaults  \* bound: the crashes

ASSUME ConstantAssumption ==
  /\ IsFiniteSet(Worker) /\ Worker # {}
  /\ Kinds \subseteq { "chatbot", "agent", "booking", "stream", "bookingStream",
                       "publicBooking", "relay", "greeting" }
  /\ Quota \in Nat \ { 0 } /\ MaxCost \in Nat
  /\ MaxDays \in Nat /\ Budget \in Nat /\ MaxFaults \in Nat

VARIABLES
  messages,  \* the chat_messages of each session, in order
  used,      \* usage_counters by day
  day,
  pc,
  kind, at,  \* the request of a worker and its session
  number,    \* how many requests the worker has begun
  cost,      \* what the answer it is about to store took
  faults

vars == << messages, used, day, pc, kind, at, number, cost, faults >>

Day == 0 .. MaxDays
Message == [ role : { "user", "assistant", "greeting" }, by : Worker \X (1 .. Budget) ]

Init ==
  /\ messages = [ s \in Session |-> << >> ]
  /\ used = [ d \in Day |-> 0 ]
  /\ day = 0
  /\ pc = [ w \in Worker |-> "idle" ]
  /\ kind = [ w \in Worker |-> "none" ]
  /\ at \in [ Worker -> Session ]
  /\ number = [ w \in Worker |-> 0 ]
  /\ cost = [ w \in Worker |-> 0 ]
  /\ faults = 0

-----------------------------------------------------------------------------

Goto(w, stage) ==
  /\ pc' = [ pc EXCEPT ![w] = stage ]
  /\ UNCHANGED << kind, at, number >>

\* The request of w is over.
Ended(w) ==
  /\ pc' = [ pc EXCEPT ![w] = "idle" ]
  /\ kind' = [ kind EXCEPT ![w] = "none" ]
  /\ cost' = [ cost EXCEPT ![w] = 0 ]
  /\ UNCHANGED << at, number >>

\* add_message, for w's request.
Added(w, role) ==
  messages' = [ messages EXCEPT
    ![at[w]] = Append(@, [ role |-> role, by |-> << w, number[w] >> ]) ]

QuotaLeft == used[day] < Quota

\* A request comes in.
Arrive(w, k, s) ==
  /\ pc[w] = "idle" /\ number[w] < Budget
  /\ number' = [ number EXCEPT ![w] = @ + 1 ]
  /\ kind' = [ kind EXCEPT ![w] = k ]
  /\ at' = [ at EXCEPT ![w] = s ]
  /\ pc' = [ pc EXCEPT ![w] = "arriving" ]
  /\ UNCHANGED << messages, used, day, cost, faults >>

\* A message of a channel is stored when it is received, whatever the allowance.
StoreInbound(w) ==
  /\ pc[w] = "arriving" /\ kind[w] = "relay"
  /\ Added(w, "user")
  /\ Goto(w, "admitting")
  /\ UNCHANGED << used, day, cost, faults >>

\* The public endpoint admits and stores the message, and leaves an assistant
\* that books to its use case, which admits it again.
AskPublicStream(w) ==
  /\ pc[w] = "arriving" /\ kind[w] = "publicBooking" /\ QuotaLeft
  /\ Added(w, "user")
  /\ Goto(w, "admitting")
  /\ UNCHANGED << used, day, cost, faults >>

\* Fault: the counter is not looked at.
AdmitAlways(w) ==
  /\ pc[w] = "arriving"
  /\ Added(w, "user")
  /\ Goto(w, "generating")
  /\ UNCHANGED << used, day, cost, faults >>

\* A message is admitted and stored in one transaction.
Admit(w) ==
  /\ pc[w] = "arriving" /\ QuotaLeft
  /\ Added(w, "user")
  /\ Goto(w, "generating")
  /\ UNCHANGED << used, day, cost, faults >>

\* Fault: persist_user_message is forgotten.
AdmitAgain(w) ==
  /\ pc[w] = "admitting" /\ QuotaLeft
  /\ Added(w, "user")
  /\ Goto(w, "generating")
  /\ UNCHANGED << used, day, cost, faults >>

\* A message that is already stored is admitted.
AdmitStored(w) ==
  /\ pc[w] = "admitting" /\ QuotaLeft
  /\ Goto(w, "generating")
  /\ UNCHANGED << messages, used, day, cost, faults >>

AskStream(w) == kind[w] = "stream" /\ Admit(w)

RunAgent(w) == kind[w] = "agent" /\ Admit(w)

AskChatbot(w) ==
  \/ kind[w] = "chatbot" /\ Admit(w)
  \/ kind[w] = "relay" /\ AdmitStored(w)

AskFrontOffice(w) ==
  \/ kind[w] \in { "booking", "bookingStream" } /\ Admit(w)
  \/ kind[w] \in { "publicBooking", "relay" } /\ AdmitStored(w)

\* A greeting has no message of its own, and is for a session without any.
Greet(w) ==
  /\ pc[w] = "arriving" /\ kind[w] = "greeting"
  /\ messages[at[w]] = << >> /\ QuotaLeft
  /\ Goto(w, "generating")
  /\ UNCHANGED << messages, used, day, cost, faults >>

\* A channel apologises for a message it cannot answer.
Unanswered(w) ==
  IF kind[w] = "relay" THEN Goto(w, "excusing") /\ UNCHANGED cost ELSE Ended(w)

Refused(w) ==
  /\ \/ pc[w] = "arriving" /\ kind[w] # "relay" /\ ~QuotaLeft
     \/ pc[w] = "arriving" /\ kind[w] = "greeting" /\ messages[at[w]] # << >>
     \/ pc[w] = "admitting" /\ ~QuotaLeft
  /\ Unanswered(w)
  /\ UNCHANGED << messages, used, day, faults >>

\* The model answers; a canned refusal or a fixed greeting costs nothing.
Generate(w) ==
  /\ pc[w] = "generating"
  /\ \E c \in 0 .. MaxCost : cost' = [ cost EXCEPT ![w] = c ]
  /\ Goto(w, "storing")
  /\ UNCHANGED << messages, used, day, faults >>

GenerationFails(w) ==
  /\ pc[w] = "generating"
  /\ Unanswered(w)
  /\ UNCHANGED << messages, used, day, faults >>

\* The answer and what it took, in one transaction; the statement itself
\* increments the counter of the day on which it runs.
StoreAnswer(w) ==
  /\ pc[w] = "storing"
  /\ Added(w, IF kind[w] = "greeting" THEN "greeting" ELSE "assistant")
  /\ used' = [ used EXCEPT ![day] = @ + cost[w] ]
  /\ Ended(w)
  /\ UNCHANGED << day, faults >>

\* An apology that was sent is stored, and not counted.
Excuse(w) ==
  /\ pc[w] = "excusing"
  /\ Added(w, "assistant") \/ UNCHANGED messages
  /\ Ended(w)
  /\ UNCHANGED << used, day, faults >>

\* The reader of a stream leaves.  What follows the last token is shielded,
\* except for an assistant that books: its use case runs inside the stream.
Disconnect(w) ==
  /\ \/ kind[w] \in { "stream", "greeting" } /\ pc[w] = "generating"
     \/ kind[w] = "bookingStream" /\ pc[w] \in { "arriving", "generating", "storing" }
     \/ kind[w] = "publicBooking" /\ pc[w] \in { "admitting", "generating", "storing" }
  /\ Ended(w)
  /\ UNCHANGED << messages, used, day, faults >>

\* A process goes away.
Crash(w) ==
  /\ pc[w] # "idle" /\ faults < MaxFaults
  /\ faults' = faults + 1
  /\ Ended(w)
  /\ UNCHANGED << messages, used, day >>

\* Midnight, UTC.
Midnight ==
  /\ day < MaxDays
  /\ day' = day + 1
  /\ UNCHANGED << messages, used, pc, kind, at, number, cost, faults >>

Step(w) ==
  \/ \E k \in Kinds, s \in Session : Arrive(w, k, s)
  \/ StoreInbound(w) \/ AskPublicStream(w) \/ AskStream(w) \/ RunAgent(w)
  \/ AskChatbot(w) \/ AskFrontOffice(w) \/ Greet(w) \/ Refused(w)
  \/ Generate(w) \/ GenerationFails(w) \/ StoreAnswer(w) \/ Excuse(w)
  \/ Disconnect(w) \/ Crash(w)

Next == Midnight \/ \E w \in Worker : Step(w)

Spec == Init /\ [][Next]_vars

-----------------------------------------------------------------------------

TypeOK ==
  /\ messages \in [ Session -> Seq(Message) ]
  /\ used \in [ Day -> Nat ] /\ day \in Day
  /\ pc \in [ Worker -> { "idle", "arriving", "admitting", "generating", "storing",
                          "excusing" } ]
  /\ kind \in [ Worker -> Kinds \cup { "none" } ] /\ at \in [ Worker -> Session ]
  /\ number \in [ Worker -> 0 .. Budget ] /\ cost \in [ Worker -> 0 .. MaxCost ]
  /\ faults \in 0 .. MaxFaults

\* The allowance is read before the answer and spent after it.  Requests that
\* are answered at the same time may pass it together, each by one answer.
QuotaBounded ==
  \A d \in Day : used[d] < Quota + Cardinality(Worker) * MaxCost

\* Whichever endpoint and use case share a request, its session has its message
\* once and one answer at most, and every answer comes after its message.
TurnsAreWhole ==
  \A s \in Session :
    LET said == messages[s]
    IN  \A i \in DOMAIN said :
          /\ \A j \in DOMAIN said : said[i] = said[j] => i = j
          /\ said[i].role = "assistant" =>
               \E j \in 1 .. i - 1 : said[j] = [ role |-> "user", by |-> said[i].by ]

=============================================================================
