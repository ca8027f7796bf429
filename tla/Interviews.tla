----------------------------- MODULE Interviews -----------------------------
(***************************************************************************)
(* An interview that a language model conducts: the requests of the        *)
(* candidate's page, which greet, take an answer and ask the next          *)
(* question, and the finalization that follows the last answer.            *)
(*                                                                         *)
(* A handler reads the interview once, works on its copy while the model   *)
(* talks, and writes the copy back.  The row is read again at the update,  *)
(* and the columns in which the copy differs from it are written.          *)
(*                                                                         *)
(* Left out: the words, the reference texts, and the window, the rate      *)
(* limit and the allowance of tokens, any of which may refuse a request.   *)
(***************************************************************************)
EXTENDS Integers, Sequences, FiniteSets

CONSTANTS
  Tab,          \* the requests of the candidate that may run at once
  LastIndex,    \* the index of the last question
  MaxRequests,  \* bound: the requests
  MaxCrashes    \* bound: the crashes

ASSUME InterviewAssumption ==
  /\ LastIndex \in Nat /\ MaxRequests \in Nat /\ MaxCrashes \in Nat

VARIABLES
  row,      \* the interview
  stored,   \* what the report in the object storage was made from
  phase,
  copy,     \* the interview in the memory of a request
  base,     \* the row as it was read again for the update
  asked, crashes,
  put, answered,  \* history: the questions put to the candidate, and answered
  rushed          \* history: whether a request began before another had ended

interviewVars == << row, stored, phase, copy, base, asked, crashes, put, answered, rushed >>

Question == 0 .. LastIndex
Turn == [ what : { "question", "answer", "blocked" }, about : Question ]
        \cup { [ what |-> "closing", about |-> LastIndex ] }
Interview == [ status : { "scheduled", "in_progress", "completed" },
               index : Question,
               transcript : Seq(Turn),
               scores : Seq(Turn),
               reported : BOOLEAN ]   \* report_storage_key is set

Blank == [ status |-> "scheduled", index |-> 0, transcript |-> << >>, scores |-> << >>,
           reported |-> FALSE ]

InterviewInit ==
  /\ row = Blank /\ stored = << >>
  /\ phase = [ t \in Tab |-> "idle" ]
  /\ copy = [ t \in Tab |-> Blank ] /\ base = [ t \in Tab |-> Blank ]
  /\ asked = 0 /\ crashes = 0
  /\ put = {} /\ answered = {} /\ rushed = FALSE

-----------------------------------------------------------------------------

Enters(t, next) == phase' = [ phase EXCEPT ![t] = next ]

Said(interview, what) ==
  [ interview EXCEPT !.transcript = Append(@, [ what |-> what, about |-> interview.index ]) ]

\* The interview is read, and the request is let in.
Loads(t, interview) ==
  /\ phase[t] = "idle" /\ asked < MaxRequests
  /\ asked' = asked + 1
  /\ copy' = [ copy EXCEPT ![t] = interview ]
  /\ rushed' = (rushed \/ \E u \in Tab : phase[u] # "idle")
  /\ UNCHANGED << row, stored, base, crashes, put >>

Greeting(t) ==
  /\ row.status = "scheduled"
  /\ Loads(t, [ row EXCEPT !.status = "in_progress" ])
  /\ Enters(t, "asking")
  /\ UNCHANGED answered

\* Fault: the question before the last is taken for the last.
RespondShort(t) ==
  /\ row.status = "in_progress"
  /\ answered' = answered \cup { row.index }
  /\ LET heard == Said(row, "answer")
     IN  IF row.index + 1 < LastIndex
           THEN Loads(t, [ heard EXCEPT !.index = @ + 1 ]) /\ Enters(t, "asking")
           ELSE Loads(t, heard) /\ Enters(t, "closing")

\* Fault: the interview moves on although no question is left.
RespondPast(t) ==
  /\ row.status = "in_progress"
  /\ answered' = answered \cup { row.index }
  /\ Loads(t, [ Said(row, "answer") EXCEPT !.index = @ + 1 ])
  /\ Enters(t, IF row.index < LastIndex THEN "asking" ELSE "closing")

\* An answer is taken down, and the interview moves on if a question is left.
Respond(t) ==
  /\ row.status = "in_progress"
  /\ answered' = answered \cup { row.index }
  /\ LET heard == Said(row, "answer")
     IN  IF row.index < LastIndex
           THEN Loads(t, [ heard EXCEPT !.index = @ + 1 ]) /\ Enters(t, "asking")
           ELSE Loads(t, heard) /\ Enters(t, "closing")

\* Fault: a refused answer moves the interview on.
RespondBlockedMoves(t) ==
  /\ row.status = "in_progress" /\ row.index < LastIndex
  /\ Loads(t, [ Said(row, "blocked") EXCEPT !.index = @ + 1 ])
  /\ Enters(t, "updating")
  /\ UNCHANGED answered

\* An answer the guard refuses is taken down and nothing else.
RespondBlocked(t) ==
  /\ row.status = "in_progress"
  /\ Loads(t, Said(row, "blocked"))
  /\ Enters(t, "updating")
  /\ UNCHANGED answered

\* The model's turn is streamed to the candidate.
Ask(t) ==
  /\ phase[t] = "asking"
  /\ copy' = [ copy EXCEPT ![t] = Said(@, "question") ]
  /\ put' = put \cup { copy[t].index }
  /\ Enters(t, "updating")
  /\ UNCHANGED << row, stored, base, asked, crashes, answered, rushed >>

Close(t) ==
  /\ phase[t] = "closing"
  /\ copy' = [ copy EXCEPT ![t] = Said(@, "closing") ]
  /\ Enters(t, "updating")
  /\ UNCHANGED << row, stored, base, asked, crashes, put, answered, rushed >>

\* Fault: the finalization is not shielded from a candidate who leaves.
CutShortAnywhere(t) ==
  /\ phase[t] \in { "asking", "closing", "finalizing", "reporting" }
  /\ Enters(t, "idle")
  /\ UNCHANGED << row, stored, copy, base, asked, crashes, put, answered, rushed >>

\* The model fails, or the candidate leaves while it talks.
CutShort(t) ==
  /\ phase[t] \in { "asking", "closing" }
  /\ Enters(t, "idle")
  /\ UNCHANGED << row, stored, copy, base, asked, crashes, put, answered, rushed >>

\* interviews.update: the row is read again, and what differs is written.
Reread(t) ==
  /\ phase[t] = "updating"
  /\ base' = [ base EXCEPT ![t] = row ]
  /\ Enters(t, "saving")
  /\ UNCHANGED << row, stored, copy, asked, crashes, put, answered, rushed >>

Merged(now, read, mine) ==
  [ f \in DOMAIN now |-> IF mine[f] # read[f] THEN mine[f] ELSE now[f] ]

Over(interview) ==
  /\ interview.status = "in_progress"
  /\ interview.transcript # << >>
  /\ interview.transcript[Len(interview.transcript)].what = "closing"

\* The finalization follows in the same shielded stretch.
Save(t) ==
  /\ phase[t] = "saving"
  /\ row' = Merged(row, base[t], copy[t])
  /\ Enters(t, IF Over(copy[t]) THEN "finalizing" ELSE "idle")
  /\ UNCHANGED << stored, copy, base, asked, crashes, put, answered, rushed >>

\* The transcript is scored as a whole; an answer of the model that cannot be
\* read leaves it without scores.
Scored(transcript) == { transcript, << >> }

Finalize(t) ==
  /\ phase[t] = "finalizing"
  /\ \E scores \in Scored(copy[t].transcript) :
       copy' = [ copy EXCEPT ![t].scores = scores, ![t].status = "completed" ]
  /\ Enters(t, "reporting")
  /\ UNCHANGED << row, stored, base, asked, crashes, put, answered, rushed >>

\* The report is made of the scores and stored, which may fail.
Report(t) ==
  /\ phase[t] = "reporting"
  /\ \/ /\ stored' = copy[t].scores
        /\ copy' = [ copy EXCEPT ![t].reported = TRUE ]
     \/ UNCHANGED << stored, copy >>
  /\ Enters(t, "updating")
  /\ UNCHANGED << row, base, asked, crashes, put, answered, rushed >>

\* A process goes away.
ProcessDies(t) ==
  /\ phase[t] # "idle" /\ crashes < MaxCrashes
  /\ crashes' = crashes + 1
  /\ Enters(t, "idle")
  /\ UNCHANGED << row, stored, copy, base, asked, put, answered, rushed >>

InterviewNext ==
  \E t \in Tab :
    \/ Greeting(t) \/ Respond(t) \/ RespondBlocked(t)
    \/ Ask(t) \/ Close(t) \/ CutShort(t)
    \/ Reread(t) \/ Save(t) \/ Finalize(t) \/ Report(t) \/ ProcessDies(t)

InterviewSpec == InterviewInit /\ [][InterviewNext]_interviewVars

-----------------------------------------------------------------------------

InterviewTypeOK ==
  /\ row \in Interview   \* whose index is that of a question
  /\ stored \in Seq(Turn)
  /\ phase \in [ Tab -> { "idle", "asking", "closing", "updating", "saving", "finalizing",
                       "reporting" } ]
  /\ copy \in [ Tab -> Interview ] /\ base \in [ Tab -> Interview ]
  /\ asked \in 0 .. MaxRequests /\ crashes \in 0 .. MaxCrashes
  /\ put \subseteq Question /\ answered \subseteq Question /\ rushed \in BOOLEAN

\* However its requests overlap, fail or write over each other, an interview is
\* completed only after every question was put to the candidate and answered.
NothingSkipped ==
  row.status = "completed" => put = Question /\ answered = Question

\* The turns of an interview in which nothing went wrong.
Ideal ==
  [ n \in 1 .. 2 * (LastIndex + 1) |->
      [ what |-> IF n % 2 = 1 THEN "question" ELSE "answer", about |-> (n - 1) \div 2 ] ]

\* Where a transcript has the turns that were not refused, and how many of them there
\* are up to one.
Kept(transcript) == { n \in DOMAIN transcript : transcript[n].what # "blocked" }

Place(transcript, n) == Cardinality({ m \in Kept(transcript) : m <= n })

\* For a candidate who waits for each request to end, the report is of the
\* transcript, which but for refused answers begins with every question in order,
\* each followed by its answer, and the document that is kept is of the scores on
\* the row.
ReportComplete ==
  row.status = "completed" /\ ~rushed =>
    /\ Cardinality(Kept(row.transcript)) >= 2 * (LastIndex + 1)
    /\ \A n \in Kept(row.transcript) :
         LET k == Place(row.transcript, n)
         IN k \in DOMAIN Ideal => row.transcript[n] = Ideal[k]
    /\ row.scores \in { << >>, row.transcript }
    /\ row.reported => stored = row.scores

\* Once the last answer is saved the interview is finalized, whether or not the
\* candidate stays (interviews.py, "losing it to a disconnect right on the last
\* turn would leave a completed interview stuck").
FinishedIsFinalized ==
  Over(row) /\ (\A t \in Tab : phase[t] = "idle") => rushed \/ crashes > 0

=============================================================================
