------------------------------ MODULE Ingestion ------------------------------
(***************************************************************************)
(* The documents of one tenant: the requests that create, complete, retry  *)
(* and delete them, the background runs that take each through the         *)
(* pipeline, and the sweep that resumes, whenever a process starts, what a *)
(* restart cut short.                                                      *)
(*                                                                         *)
(* A run reads a document once, carries it in memory through every step    *)
(* and writes it in a transaction of its own after each; nothing stops two *)
(* runs of one document.  An error in any step ends in the handler that    *)
(* marks the document failed.  The sweep takes no lease: a process that    *)
(* starts while another serves takes up what the other is ingesting.       *)
(*                                                                         *)
(* Left out: names, sizes, checksums, the text of errors, and the chat     *)
(* that searches the chunks.  A text yields the same pieces every time,    *)
(* which is true of files and may not be of a transcribed image.           *)
(***************************************************************************)
EXTENDS Integers, FiniteSets

CONSTANTS
  Caller,     \* the request handlers
  Run,        \* the background tasks that may run at once
  Process,    \* the web processes; each sweeps at startup, and ingests by itself what it finds
  Host,       \* the process of each handler and task
  Doc,        \* numbers, in the order in which the documents are added
  Batches,    \* the batches of chunks each document yields; 0 if no text
  Null,
  MaxDocuments,
  Budget,     \* bound: the requests
  MaxFaults   \* bound: the steps that fail, and the processes that go down

Worker == Run \cup Process
Session == Caller \cup Worker

ASSUME ConstantAssumption ==
  /\ Caller \cap Worker = {} /\ Run \cap Process = {}
  /\ Host \in [ Caller \cup Run -> Process ]
  /\ IsFiniteSet(Caller) /\ Caller # {} /\ IsFiniteSet(Doc) /\ Doc \subseteq Nat
  /\ Batches \in [ Doc -> Nat ]
  /\ Null \notin Doc
  /\ MaxDocuments \in Nat /\ Budget \in Nat
  /\ MaxFaults \in Nat

VARIABLES
  status,     \* the documents table; "none" before the row, "gone" after it
  count,      \* its chunk_count
  chunks,     \* how many copies of each batch document_chunks holds
  bytes,      \* whether the object is in the storage
  pc,
  at,         \* the document a session is working on
  copy,       \* the document in a run's memory
  next,       \* the batch it embeds next
  queue,      \* how many runs of each document a process has scheduled and not begun
  up,         \* each process: down, booting, or serving
  todo,       \* the documents its sweep has not resumed
  asked, faults,
  stranded,   \* the documents whose failure the database refused to take
  together    \* those another run had when the last one began

table == << status, count, chunks >>
bounds == << asked, faults >>
mind == << pc, at, copy, next >>
past == << stranded, together >>
vars == << table, bytes, mind, queue, up, todo, bounds, past >>

InPipelineStatus == { "uploaded", "parsing", "chunking", "embedding" }
IngestionStatus == InPipelineStatus \cup { "pending", "ready", "failed" }

\* _TRANSITIONS
Transitions ==
  [ pending   |-> { "uploaded", "failed" },
    uploaded  |-> { "parsing", "failed" },
    parsing   |-> { "chunking", "failed" },
    chunking  |-> { "embedding", "failed" },
    embedding |-> { "ready", "failed" },
    ready     |-> {},
    failed    |-> { "uploaded" } ]

Document == [ status : IngestionStatus, count : Nat ]

ASSUME NullAssumption == Null \notin Document

\* transition_to refuses any other target.
CanMove(from, target) == target \in Transitions[from]

NoChunks(d) == [ b \in 1 .. Batches[d] |-> 0 ]

Init ==
  /\ status = [ d \in Doc |-> "none" ]
  /\ count = [ d \in Doc |-> 0 ]
  /\ chunks = [ d \in Doc |-> NoChunks(d) ]
  /\ bytes = [ d \in Doc |-> FALSE ]
  /\ pc = [ s \in Session |-> "idle" ]
  /\ at = [ s \in Session |-> Null ]
  /\ copy = [ r \in Worker |-> Null ]
  /\ next = [ r \in Worker |-> 0 ]
  /\ queue = [ p \in Process |-> [ d \in Doc |-> 0 ] ]
  /\ up = [ p \in Process |-> "down" ]
  /\ todo = [ p \in Process |-> {} ]
  /\ asked = 0
  /\ faults = 0
  /\ stranded = {}
  /\ together = {}

\* The process that session s is in.
Home(s) == IF s \in Process THEN s ELSE Host[s]

Goto(s, stage) == pc' = [ pc EXCEPT ![s] = stage ]

Leave(s) == Goto(s, "idle") /\ at' = [ at EXCEPT ![s] = Null ]

Exists(d) == status[d] \notin { "none", "gone" }

Existing == { d \in Doc : Exists(d) }

Faulty == faults < MaxFaults /\ faults' = faults + 1

------------------------------------------------------------------------------
(* CreateUpload, CreateTextDocument, CompleteUpload, retry and delete *)

Ask(c) ==
  /\ up[Home(c)] = "serving" /\ pc[c] = "idle" /\ asked < Budget
  /\ asked' = asked + 1

\* Fault: the limit is one too high.
FullLate == Cardinality(Existing) > MaxDocuments

\* The tenant has as many documents as it may.
Full == Cardinality(Existing) >= MaxDocuments

\* The documents are counted before one is added: one that will be uploaded, or
\* a text that was pasted.
Count(c, stage) ==
  /\ Ask(c) /\ ~Full
  /\ Goto(c, stage)
  /\ UNCHANGED << table, bytes, at, copy, next, queue, up, todo, faults, past >>

Insert(c, d) ==
  /\ pc[c] \in { "inserting", "pasting" }
  /\ status[d] = "none" /\ \A e \in Doc : e < d => status[e] # "none"
  /\ status' = [ status EXCEPT ![d] = "pending" ]
  /\ IF pc[c] = "pasting"
     THEN Goto(c, "putting") /\ at' = [ at EXCEPT ![c] = d ]
     ELSE Leave(c)
  /\ UNCHANGED << count, chunks, bytes, copy, next, queue, up, todo, bounds, past >>

\* put_bytes of the pasted text.
Put(c) ==
  /\ pc[c] = "putting"
  /\ bytes' = [ bytes EXCEPT ![at[c]] = TRUE ]
  /\ Goto(c, "reading")
  /\ UNCHANGED << table, at, copy, next, queue, up, todo, bounds, past >>

\* The pasted document is read again, and must be one that can be uploaded.
ReadPasted(c) ==
  /\ pc[c] = "reading"
  /\ IF Exists(at[c]) /\ CanMove(status[at[c]], "uploaded")
     THEN Goto(c, "marking") /\ UNCHANGED at
     ELSE Leave(c)
  /\ UNCHANGED << table, bytes, copy, next, queue, up, todo, bounds, past >>

\* A run of d is added to the background tasks of the process.
Scheduled(c, d) == [ queue EXCEPT ![Home(c)][d] = @ + 1 ]

\* Complete and retry of d: from says which status lets it in again; a run is
\* scheduled whatever the status.
Reenter(c, d, from) ==
  /\ Ask(c) /\ Exists(d)
  /\ IF status[d] = from
     THEN /\ Goto(c, "marking")
          /\ at' = [ at EXCEPT ![c] = d ]
          /\ UNCHANGED queue
     ELSE /\ queue' = Scheduled(c, d)
          /\ UNCHANGED << pc, at >>
  /\ UNCHANGED << table, bytes, copy, next, up, todo, faults, past >>

Complete(c, d) == Reenter(c, d, "pending")

Retry(c, d) == Reenter(c, d, "failed")

\* The UPDATE and the commit, then the run is scheduled; a row deleted since
\* it was read fails the request.
Mark(c) ==
  LET d == at[c] IN
  /\ pc[c] = "marking"
  /\ IF Exists(d)
     THEN /\ status' = [ status EXCEPT ![d] = "uploaded" ]
          /\ queue' = Scheduled(c, d)
     ELSE UNCHANGED << status, queue >>
  /\ Leave(c)
  /\ UNCHANGED << count, chunks, bytes, copy, next, up, todo, bounds, past >>

\* The chunks are deleted, not yet committed, then the object.
DeleteObject(c, d) ==
  /\ Ask(c) /\ Exists(d)
  /\ bytes' = [ bytes EXCEPT ![d] = FALSE ]
  /\ at' = [ at EXCEPT ![c] = d ]
  /\ Goto(c, "deleting")
  /\ UNCHANGED << table, copy, next, queue, up, todo, faults, past >>

\* The row, what was added to it meanwhile (ON DELETE CASCADE), and the commit.
DeleteRow(c) ==
  LET d == at[c] IN
  /\ pc[c] = "deleting"
  /\ status' = [ status EXCEPT ![d] = "gone" ]
  /\ chunks' = [ chunks EXCEPT ![d] = NoChunks(d) ]
  /\ Leave(c)
  /\ UNCHANGED << count, bytes, copy, next, queue, up, todo, bounds, past >>

\* The storage or the database fails: the transaction is rolled back.
RequestFails(c) ==
  /\ pc[c] # "idle" /\ Faulty
  /\ Leave(c)
  /\ UNCHANGED << table, bytes, copy, next, queue, up, todo, asked, past >>

\* The client puts the object where the presigned address says.
Upload(d) ==
  /\ Exists(d) /\ ~bytes[d]
  /\ bytes' = [ bytes EXCEPT ![d] = TRUE ]
  /\ UNCHANGED << table, mind, queue, up, todo, bounds, past >>

------------------------------------------------------------------------------
(* IngestDocument *)

Missing(d) == ~Exists(d)

\* What execute makes of document d.
Open(r, d) ==
  IF Missing(d) \/ status[d] \in { "ready", "pending" }
  THEN UNCHANGED << pc, at, copy, together >>
  ELSE /\ at' = [ at EXCEPT ![r] = d ]
       /\ copy' = [ copy EXCEPT ![r] = [ status |-> status[d], count |-> count[d] ] ]
       /\ Goto(r, IF status[d] = "uploaded" THEN "claiming" ELSE "parsing")
       /\ together' = IF \E q \in Worker : at[q] = d THEN together \cup { d }
                                                   ELSE together \ { d }

Begin(r, d) ==
  /\ up[Home(r)] = "serving" /\ pc[r] = "idle" /\ queue[Home(r)][d] > 0
  /\ queue' = [ queue EXCEPT ![Home(r)][d] = @ - 1 ]
  /\ Open(r, d)
  /\ UNCHANGED << table, bytes, next, up, todo, bounds, stranded >>

\* Fault: a row that is not there is written all the same.
UpdateAnyway(d, c) ==
  /\ status' = [ status EXCEPT ![d] = c.status ]
  /\ count' = [ count EXCEPT ![d] = c.count ]

\* The repository's update of the document d to c, if it has the row.
Update(d, c) ==
  IF Exists(d)
  THEN /\ status' = [ status EXCEPT ![d] = c.status ]
       /\ count' = [ count EXCEPT ![d] = c.count ]
  ELSE UNCHANGED << status, count >>

\* The document in memory moves to a status and is saved.
Save(r, target) ==
  LET c == [ status |-> target, count |-> copy[r].count ] IN
  /\ copy' = [ copy EXCEPT ![r] = c ]
  /\ Update(at[r], c)

\* An exception: on to the handler.
Raise(r) == Goto(r, "failing") /\ UNCHANGED << status, count, copy >>

Claim(r) ==
  /\ pc[r] = "claiming"
  /\ Save(r, "parsing") /\ Goto(r, "parsing")
  /\ UNCHANGED << chunks, bytes, at, next, queue, up, todo, bounds, past >>

\* get_bytes, and the text.
Parse(r) ==
  /\ pc[r] = "parsing"
  /\ Goto(r, IF bytes[at[r]] THEN "chunking" ELSE "failing")
  /\ UNCHANGED << table, bytes, at, copy, next, queue, up, todo, bounds, past >>

Chunk(r) ==
  /\ pc[r] = "chunking"
  /\ IF CanMove(copy[r].status, "chunking")
     THEN Save(r, "chunking") /\ Goto(r, "splitting")
     ELSE Raise(r)
  /\ UNCHANGED << chunks, bytes, at, next, queue, up, todo, bounds, past >>

Split(r) ==
  /\ pc[r] = "splitting"
  /\ IF Batches[at[r]] = 0
     THEN Raise(r)
     ELSE Save(r, "embedding") /\ Goto(r, "clearing")
  /\ UNCHANGED << chunks, bytes, at, next, queue, up, todo, bounds, past >>

\* Fault: what an earlier run stored stays.
Kept(d) == chunks[d]

\* delete_for_document
Cleared(d) == NoChunks(d)

Clear(r) ==
  /\ pc[r] = "clearing"
  /\ chunks' = [ chunks EXCEPT ![at[r]] = Cleared(at[r]) ]
  /\ next' = [ next EXCEPT ![r] = 1 ]
  /\ Goto(r, "adding")
  /\ UNCHANGED << status, count, bytes, at, copy, queue, up, todo, bounds, past >>

\* The chunks of d with batch b added.
Extended(d, b) == [ chunks[d] EXCEPT ![b] = @ + 1 ]

\* A batch is embedded and stored, which the foreign key refuses if the
\* document is gone; after the last, mark_ready.
Add(r) ==
  LET d == at[r] b == next[r] IN
  /\ pc[r] = "adding"
  /\ IF ~Exists(d)
     THEN Goto(r, "failing") /\ UNCHANGED << chunks, next, copy >>
     ELSE /\ chunks' = [ chunks EXCEPT ![d] = Extended(d, b) ]
          /\ next' = [ next EXCEPT ![r] = b + 1 ]
          /\ IF b < Batches[d]
             THEN UNCHANGED << pc, copy >>
             ELSE /\ copy' = [ copy EXCEPT ![r] = [ status |-> "ready", count |-> Batches[d] ] ]
                  /\ Goto(r, "finishing")
  /\ UNCHANGED << status, count, bytes, at, queue, up, todo, bounds, past >>

\* Nothing is left of the run.
End(r) ==
  /\ Leave(r)
  /\ copy' = [ copy EXCEPT ![r] = Null ]
  /\ next' = [ next EXCEPT ![r] = 0 ]

Finish(r) ==
  /\ pc[r] = "finishing"
  /\ Update(at[r], copy[r])
  /\ End(r)
  /\ UNCHANGED << chunks, bytes, queue, up, todo, bounds, past >>

\* The handler: mark_failed.
Fail(r) ==
  /\ pc[r] = "failing"
  /\ Update(at[r], [ status |-> "failed", count |-> copy[r].count ])
  /\ End(r)
  /\ UNCHANGED << chunks, bytes, queue, up, todo, bounds, past >>

\* A model, the storage or the database fails.
StepFails(r) ==
  /\ pc[r] \notin { "idle", "failing" } /\ Faulty
  /\ Goto(r, "failing")
  /\ UNCHANGED << table, bytes, at, copy, next, queue, up, todo, asked, past >>

\* The database fails the handler too, and the exception leaves execute: the
\* sweep is given up with it.
FailLost(r) ==
  /\ pc[r] = "failing" /\ Faulty
  /\ End(r)
  /\ IF r \in Process
     THEN /\ stranded' = stranded \cup { at[r] } \cup todo[r]
          /\ todo' = [ todo EXCEPT ![r] = {} ]
     ELSE stranded' = stranded \cup { at[r] } /\ UNCHANGED todo
  /\ UNCHANGED << table, bytes, queue, up, asked, together >>

------------------------------------------------------------------------------
(* A process: lifespan and ResumePendingIngestions *)

\* Its requests, its runs and what it has scheduled are lost; what is committed is not.
Crash(p) ==
  LET Ended(f, S, none) == [ s \in S |-> IF Home(s) = p THEN none ELSE f[s] ] IN
  /\ up[p] # "down" /\ Faulty
  /\ up' = [ up EXCEPT ![p] = "down" ]
  /\ pc' = Ended(pc, Session, "idle")
  /\ at' = Ended(at, Session, Null)
  /\ copy' = Ended(copy, Worker, Null)
  /\ next' = Ended(next, Worker, 0)
  /\ queue' = [ queue EXCEPT ![p] = [ d \in Doc |-> 0 ] ]
  /\ todo' = [ todo EXCEPT ![p] = {} ]
  /\ UNCHANGED << table, bytes, asked, past >>

\* Fault: a document cut short while it was embedded is not listed.
ResumableBarEmbedding ==
  { d \in Doc : status[d] \in { "uploaded", "parsing", "chunking" } }

\* list_resumable
Resumable ==
  { d \in Doc : status[d] \in { "uploaded", "parsing", "chunking", "embedding" } }

ListResumable(p) ==
  /\ up[p] = "down"
  /\ todo' = [ todo EXCEPT ![p] = Resumable ]
  /\ up' = [ up EXCEPT ![p] = "booting" ]
  /\ stranded' = {}
  /\ UNCHANGED << table, bytes, mind, queue, bounds, together >>

Resume(p, d) ==
  /\ up[p] = "booting" /\ pc[p] = "idle" /\ d \in todo[p]
  /\ todo' = [ todo EXCEPT ![p] = @ \ { d } ]
  /\ Open(p, d)
  /\ UNCHANGED << table, bytes, next, queue, up, bounds, stranded >>

Booted(p) ==
  /\ up[p] = "booting" /\ pc[p] = "idle" /\ todo[p] = {}
  /\ up' = [ up EXCEPT ![p] = "serving" ]
  /\ UNCHANGED << table, bytes, mind, queue, todo, bounds, past >>

------------------------------------------------------------------------------
\* What a request does by itself once it is asked.
Serve(c) ==
  \/ Put(c) \/ ReadPasted(c) \/ Mark(c) \/ DeleteRow(c)
  \/ \E d \in Doc : Insert(c, d)

\* What a run does by itself once it is begun.
Ingest(r) ==
  \/ Claim(r) \/ Parse(r) \/ Chunk(r) \/ Split(r) \/ Clear(r) \/ Add(r)
  \/ Finish(r) \/ Fail(r)

Restart(p) == ListResumable(p) \/ Booted(p) \/ \E d \in Doc : Resume(p, d)

Next ==
  \/ \E c \in Caller :
       \/ Serve(c) \/ RequestFails(c)
       \/ \E stage \in { "inserting", "pasting" } : Count(c, stage)
       \/ \E d \in Doc : Complete(c, d) \/ Retry(c, d) \/ DeleteObject(c, d)
  \/ \E d \in Doc : Upload(d)
  \/ \E r \in Worker : Ingest(r) \/ StepFails(r) \/ FailLost(r)
  \/ \E r \in Run, d \in Doc : Begin(r, d)
  \/ \E p \in Process : Restart(p) \/ Crash(p)

Spec == Init /\ [][Next]_vars

\* The event loop runs what is scheduled, and a process that goes down is
\* started again.
FairSpec ==
  /\ Spec
  /\ \A c \in Caller : WF_vars(Serve(c))
  /\ \A r \in Worker : WF_vars(Ingest(r))
  /\ \A r \in Run : WF_vars(\E d \in Doc : Begin(r, d))
  /\ \A p \in Process : WF_vars(Restart(p))

------------------------------------------------------------------------------
(* Properties *)

\* Every document has its own batches.
ChunksOK ==
  /\ DOMAIN chunks = Doc
  /\ \A d \in Doc : chunks[d] \in [ 1 .. Batches[d] -> Nat ]

\* The shape of the tables and of what each session keeps in memory.
TypeOK ==
  /\ status \in [ Doc -> IngestionStatus \cup { "none", "gone" } ]
  /\ count \in [ Doc -> Nat ]
  /\ ChunksOK
  /\ bytes \in [ Doc -> BOOLEAN ]
  /\ pc \in [ Session -> { "idle", "inserting", "pasting", "putting", "reading", "marking",
                           "deleting", "claiming", "parsing", "chunking",
                           "splitting", "clearing", "adding", "finishing", "failing" } ]
  /\ at \in [ Session -> Doc \cup { Null } ]
  /\ copy \in [ Worker -> Document \cup { Null } ]
  /\ next \in [ Worker -> Nat ]
  /\ queue \in [ Process -> [ Doc -> Nat ] ]
  /\ up \in [ Process -> { "down", "booting", "serving" } ]
  /\ todo \in [ Process -> SUBSET Doc ]
  /\ stranded \subseteq Doc /\ together \subseteq Doc
  /\ asked \in 0 .. Budget /\ faults \in 0 .. MaxFaults

\* The documents are counted and added in one transaction and no lock, so
\* requests at once may pass the limit together: by one less than there are.
LimitHolds ==
  Cardinality(Existing) <= MaxDocuments + Cardinality(Caller) - 1

\* A document that is searchable has every chunk of its text, once, whatever
\* runs failed, were cut short or were doubled before: if nobody else was
\* ingesting it when the last run began, and nobody began since.
ReadyExact ==
  \A d \in Doc :
    status[d] = "ready" /\ d \notin together =>
      count[d] = Batches[d] /\ chunks[d] = [ b \in 1 .. Batches[d] |-> 1 ]

\* What is deleted stays deleted, its chunks with it, whatever run has the
\* document in memory.
GoneIsGone ==
  [][ \A d \in Doc :
        status[d] = "gone" => status'[d] = "gone" /\ chunks'[d] = NoChunks(d) ]_vars

\* No document stays in the pipeline for ever: a run ends, or the next startup
\* takes it up, unless the database refused the note of its failure.
Settles ==
  \A d \in Doc :
    status[d] \in InPipelineStatus ~> (status[d] \notin InPipelineStatus \/ d \in stranded)

==============================================================================
