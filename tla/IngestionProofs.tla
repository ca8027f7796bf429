-------------------------- MODULE IngestionProofs --------------------------
(***************************************************************************)
(* Type correctness of the documents, the bound on how far requests at     *)
(* once pass the limit, that what is deleted stays deleted, and that a     *)
(* searchable document whose last run was alone has each chunk once.       *)
(***************************************************************************)
EXTENDS Ingestion, FiniteSetTheorems, TLAPS

Asking == { "idle", "inserting", "pasting", "putting", "reading", "marking", "deleting" }
Ingesting == { "idle", "claiming", "parsing", "chunking", "splitting", "clearing",
               "adding", "finishing", "failing" }

\* What each session has in its memory at each stage.
Memory ==
  /\ \A c \in Caller :
       /\ pc[c] \in Asking
       /\ pc[c] \in { "putting", "reading", "marking", "deleting" } =>
            at[c] \in Doc /\ status[at[c]] # "none"
       /\ pc[c] \in { "idle", "inserting", "pasting" } => at[c] = Null
  /\ \A r \in Worker :
       /\ pc[r] \in Ingesting
       /\ pc[r] # "idle" =>
            at[r] \in Doc /\ status[at[r]] # "none" /\ copy[r] \in Document
       /\ pc[r] = "idle" => at[r] = Null
       /\ pc[r] \in { "clearing", "adding", "finishing" } => Batches[at[r]] # 0
       /\ pc[r] = "adding" => next[r] \in 1 .. Batches[at[r]]

\* Nothing is left of a document that is gone.
Bare == \A d \in Doc : status[d] = "gone" => chunks[d] = NoChunks(d)

\* A document is in the hands of one run, unless the last one found another there.
Single ==
  \A d \in Doc \ together : \A r, q \in Worker : at[r] = d /\ at[q] = d => r = q

\* The batches stored when the run is at batch n.
Stored(d, n) == [ b \in 1 .. Batches[d] |-> IF b < n THEN 1 ELSE 0 ]

\* How far document d is, by what its run does.
Far(r, d) ==
  /\ status[d] # "ready"
  /\ pc[r] \notin { "finishing", "failing" } => copy[r].status # "ready"
  /\ pc[r] = "adding" /\ Exists(d) => chunks[d] = Stored(d, next[r])
  /\ pc[r] = "finishing" => copy[r].count = Batches[d]
  /\ pc[r] = "finishing" /\ Exists(d) => chunks[d] = Stored(d, Batches[d] + 1)

\* A document with one run at most is exact once it is ready, and as far as its
\* run before.
Progress ==
  \A d \in Doc \ together :
    /\ status[d] = "ready" => count[d] = Batches[d] /\ chunks[d] = Stored(d, Batches[d] + 1)
    /\ \A r \in Worker :
         at[r] = d /\ pc[r] # "idle" => Far(r, d)

Creating == { c \in Caller : pc[c] \in { "inserting", "pasting" } }

\* The documents there are and those about to be added.
Room ==
  Cardinality(Existing) + Cardinality(Creating) <= MaxDocuments + Cardinality(Caller) - 1

\* document_chunks is a table by document.
Shelves == ChunksOK /\ chunks = [ d \in Doc |-> chunks[d] ]

Inv == TypeOK /\ Shelves /\ Memory /\ Bare

USE DEF Goto

\* Who is who.
LEMMA Sets ==
  /\ Caller \subseteq Session /\ Worker \subseteq Session /\ Caller \cap Worker = {}
  /\ Session = Caller \cup Worker
  /\ Run \subseteq Worker /\ Process \subseteq Worker
  /\ Null \notin Doc /\ Null \notin Document
  /\ Batches \in [ Doc -> Nat ] /\ Budget \in Nat /\ MaxFaults \in Nat
  BY ConstantAssumption, NullAssumption DEF Session, Worker

USE Sets

\* Everybody is in a process.
LEMMA Homes == \A s \in Session : Home(s) \in Process
  BY ConstantAssumption DEF Session, Worker, Home

LEMMA InitInv == Init => Inv
<1> SUFFICES ASSUME Init PROVE Inv
  OBVIOUS
<1>4. Shelves
  BY DEF Init, Shelves, ChunksOK, NoChunks
<1>1. TypeOK
  BY <1>4 DEF Init, TypeOK, Shelves
<1>2. Memory
  BY DEF Init, Memory, Asking, Ingesting
<1>3. Bare
  BY DEF Init, Bare
<1> QED
  BY <1>1, <1>2, <1>3, <1>4 DEF Inv

\* What a worker has in memory is a document, and what it writes is.
LEMMA CopyFacts ==
  ASSUME Inv, NEW r \in Worker, pc[r] # "idle"
  PROVE  /\ at[r] \in Doc /\ copy[r] \in Document
         /\ copy[r].status \in IngestionStatus /\ copy[r].count \in Nat
         /\ \A target \in IngestionStatus :
              [ status |-> target, count |-> copy[r].count ] \in Document
<1>1. at[r] \in Doc /\ copy[r] \in Document
  BY DEF Inv, Memory
<1> QED
  BY <1>1 DEF Document

\* An update touches one document, and brings none to life or to its end.
LEMMA UpdateFacts ==
  ASSUME TypeOK, NEW d \in Doc, NEW c \in Document, Update(d, c)
  PROVE  /\ status' \in [ Doc -> IngestionStatus \cup { "none", "gone" } ]
         /\ count' \in [ Doc -> Nat ]
         /\ \A e \in Doc : e # d => status'[e] = status[e] /\ count'[e] = count[e]
         /\ \A e \in Doc : (status'[e] = "none" <=> status[e] = "none")
                        /\ (status'[e] = "gone" <=> status[e] = "gone")
         /\ Exists(d) => status'[d] = c.status /\ count'[d] = c.count
         /\ ~Exists(d) => status'[d] = status[d]
<1>1. c.status \in IngestionStatus /\ c.count \in Nat
      /\ "none" \notin IngestionStatus /\ "gone" \notin IngestionStatus
  BY DEF Document, IngestionStatus, InPipelineStatus
<1>2. CASE Exists(d)
  BY <1>1, <1>2 DEF Update, TypeOK, Exists
<1>3. CASE ~Exists(d)
  BY <1>3 DEF Update, TypeOK
<1> QED
  BY <1>2, <1>3

\* A session that ingests goes on with the same document.
GoesOn(r) ==
  /\ pc[r] # "idle" /\ UNCHANGED << at, together >>
  /\ \E stage \in Ingesting \ { "idle" } : pc' = [ pc EXCEPT ![r] = stage ]

\* Or it ends.
Ends(r) ==
  /\ pc[r] # "idle" /\ UNCHANGED together
  /\ pc' = [ pc EXCEPT ![r] = "idle" ] /\ at' = [ at EXCEPT ![r] = Null ]
  /\ copy' = [ copy EXCEPT ![r] = Null ]

\* It changes at most the row of its document, and does not add or delete it.
Touches(r) ==
  /\ status' \in [ Doc -> IngestionStatus \cup { "none", "gone" } ]
  /\ count' \in [ Doc -> Nat ]
  /\ \A e \in Doc : e # at[r] => status'[e] = status[e] /\ count'[e] = count[e]
  /\ \A e \in Doc : (status'[e] = "none" <=> status[e] = "none")
                 /\ (status'[e] = "gone" <=> status[e] = "gone")

Copies(r) ==
  /\ copy' \in [ Worker -> Document \cup { Null } ] /\ copy'[r] \in Document
  /\ \A q \in Worker : q # r => copy'[q] = copy[q]

LEMMA Saving ==
  ASSUME Inv, NEW r \in Worker, pc[r] # "idle", NEW target \in IngestionStatus, Save(r, target)
  PROVE  Touches(r) /\ Copies(r)
<1>1. at[r] \in Doc /\ [ status |-> target, count |-> copy[r].count ] \in Document
  BY CopyFacts
<1>2. Update(at[r], [ status |-> target, count |-> copy[r].count ])
      /\ copy' = [ copy EXCEPT ![r] = [ status |-> target, count |-> copy[r].count ] ]
  BY DEF Save
<1>3. Touches(r)
  BY <1>1, <1>2, UpdateFacts DEF Touches, Inv
<1> QED
  BY <1>1, <1>2, <1>3 DEF Copies, Inv, TypeOK

LEMMA Still ==
  ASSUME Inv, NEW r \in Worker, UNCHANGED << status, count >>
  PROVE  Touches(r)
  BY DEF Touches, Inv, TypeOK

LEMMA Keeps ==
  ASSUME Inv, NEW r \in Worker, pc[r] # "idle", UNCHANGED copy
  PROVE  Copies(r)
<1>1. copy[r] \in Document
  BY CopyFacts
<1> QED
  BY <1>1 DEF Copies, Inv, TypeOK

\* What the steps of a run have in common.
LEMMA Working ==
  ASSUME Inv, NEW r \in Worker,
         Claim(r) \/ Parse(r) \/ Chunk(r) \/ Split(r) \/ Clear(r) \/ Add(r) \/ StepFails(r)
  PROVE  GoesOn(r) /\ Touches(r) /\ Copies(r)
<1> USE DEF table, bounds, past, Ingesting
<1>1. CASE Claim(r)
  BY <1>1, Saving DEF Claim, GoesOn, IngestionStatus, InPipelineStatus
<1>2. CASE Parse(r)
  BY <1>2, Still, Keeps DEF Parse, GoesOn
<1>3. CASE Chunk(r)
  <2>1. CASE CanMove(copy[r].status, "chunking")
    BY <1>3, <2>1, Saving DEF Chunk, GoesOn, IngestionStatus, InPipelineStatus
  <2>2. CASE ~CanMove(copy[r].status, "chunking")
    BY <1>3, <2>2, Still, Keeps DEF Chunk, Raise, GoesOn
  <2> QED
    BY <2>1, <2>2
<1>4. CASE Split(r)
  <2>1. CASE Batches[at[r]] # 0
    BY <1>4, <2>1, Saving DEF Split, GoesOn, IngestionStatus, InPipelineStatus
  <2>2. CASE Batches[at[r]] = 0
    BY <1>4, <2>2, Still, Keeps DEF Split, Raise, GoesOn
  <2> QED
    BY <2>1, <2>2
<1>5. CASE Clear(r)
  BY <1>5, Still, Keeps DEF Clear, GoesOn
<1>6. CASE Add(r)
  <2>1. Touches(r)
    BY <1>6, Still DEF Add
  <2>2. [ status |-> "ready", count |-> Batches[at[r]] ] \in Document
    BY <1>6, CopyFacts DEF Add, Document, IngestionStatus
  <2>3. copy[r] \in Document
    BY <1>6, CopyFacts DEF Add
  <2>4. Copies(r)
    BY <1>6, <2>2, <2>3 DEF Add, Copies, Inv, TypeOK
  <2>5. pc' = pc \/ pc' = [ pc EXCEPT ![r] = "failing" ] \/ pc' = [ pc EXCEPT ![r] = "finishing" ]
    BY <1>6 DEF Add
  <2>6. pc' = [ pc EXCEPT ![r] = "adding" ] \/ pc' = [ pc EXCEPT ![r] = "failing" ]
          \/ pc' = [ pc EXCEPT ![r] = "finishing" ]
    BY <1>6, <2>5 DEF Add, Inv, TypeOK
  <2> QED
    BY <1>6, <2>1, <2>4, <2>6 DEF Add, GoesOn
<1>7. CASE StepFails(r)
  BY <1>7, Still, Keeps DEF StepFails, GoesOn
<1> QED
  BY <1>1, <1>2, <1>3, <1>4, <1>5, <1>6, <1>7

\* And its ends.
LEMMA Ending ==
  ASSUME Inv, NEW r \in Worker, Finish(r) \/ Fail(r) \/ FailLost(r)
  PROVE  Ends(r) /\ Touches(r)
<1> USE DEF table, bounds, past, End, Leave
<1>1. CASE Finish(r)
  <2>1. at[r] \in Doc /\ copy[r] \in Document
    BY <1>1, CopyFacts DEF Finish
  <2>2. Touches(r)
    BY <1>1, <2>1, UpdateFacts DEF Finish, Touches, Inv
  <2> QED
    BY <1>1, <2>2 DEF Finish, Ends
<1>2. CASE Fail(r)
  <2>1. at[r] \in Doc /\ [ status |-> "failed", count |-> copy[r].count ] \in Document
    BY <1>2, CopyFacts DEF Fail, IngestionStatus
  <2>2. Touches(r)
    BY <1>2, <2>1, UpdateFacts DEF Fail, Touches, Inv
  <2> QED
    BY <1>2, <2>2 DEF Fail, Ends
<1>3. CASE FailLost(r)
  BY <1>3, Still DEF FailLost, Ends
<1> QED
  BY <1>1, <1>2, <1>3

\* A run that takes a document up has it in memory.
LEMMA Opening ==
  ASSUME Inv, NEW r \in Worker, NEW d \in Doc, Open(r, d), pc[r] = "idle"
  PROVE  /\ copy' \in [ Worker -> Document \cup { Null } ]
         /\ at' \in [ Session -> Doc \cup { Null } ]
         /\ pc' \in [ Session -> Asking \cup Ingesting ]
         /\ together' \subseteq Doc
         /\ \A s \in Session : s # r => pc'[s] = pc[s] /\ at'[s] = at[s]
         /\ \A q \in Worker : q # r => copy'[q] = copy[q]
         /\ pc'[r] # "idle" =>
              /\ at'[r] = d /\ status[d] # "none" /\ copy'[r] \in Document
              /\ pc'[r] \in { "claiming", "parsing" }
         /\ pc'[r] = "idle" => at'[r] = at[r]
<1>0. /\ pc \in [ Session -> Asking \cup Ingesting ] /\ at \in [ Session -> Doc \cup { Null } ]
      /\ copy \in [ Worker -> Document \cup { Null } ] /\ together \subseteq Doc
      /\ status[d] \in IngestionStatus \cup { "none", "gone" } /\ count[d] \in Nat
  BY DEF Inv, TypeOK, Asking, Ingesting
<1>1. CASE Missing(d) \/ status[d] \in { "ready", "pending" }
  BY <1>0, <1>1 DEF Open
<1>2. CASE ~(Missing(d) \/ status[d] \in { "ready", "pending" })
  <2>1. [ status |-> status[d], count |-> count[d] ] \in Document /\ status[d] # "none"
    BY <1>0, <1>2 DEF Missing, Exists, Document
  <2> DEFINE stage == IF status[d] = "uploaded" THEN "claiming" ELSE "parsing"
  <2>2. /\ at' = [ at EXCEPT ![r] = d ]
        /\ copy' = [ copy EXCEPT ![r] = [ status |-> status[d], count |-> count[d] ] ]
        /\ pc' = [ pc EXCEPT ![r] = stage ]
        /\ together' \subseteq together \cup { d }
    BY <1>2 DEF Open
  <2>3. stage \in { "claiming", "parsing" }
    OBVIOUS
  <2> HIDE DEF stage
  <2> QED
    BY <1>0, <2>1, <2>2, <2>3 DEF Asking, Ingesting
<1> QED
  BY <1>1, <1>2

\* The table of chunks keeps its shape.
LEMMA ShelvesStep == Inv /\ [Next]_vars => Shelves'
<1> SUFFICES ASSUME Inv, [Next]_vars PROVE Shelves'
  OBVIOUS
<1>1. CASE chunks' = chunks
  BY <1>1 DEF Inv, Shelves, ChunksOK
<1>2. ASSUME NEW d \in Doc, chunks' = [ chunks EXCEPT ![d] = NoChunks(d) ]
      PROVE  Shelves'
  BY <1>2 DEF Inv, Shelves, ChunksOK, NoChunks
<1>3. ASSUME NEW c \in Caller, DeleteRow(c) PROVE Shelves'
  <2>1. at[c] \in Doc
    BY <1>3 DEF DeleteRow, Inv, Memory
  <2> QED
    BY <1>2, <1>3, <2>1 DEF DeleteRow
<1>4. ASSUME NEW r \in Worker, Clear(r) PROVE Shelves'
  <2>1. at[r] \in Doc
    BY <1>4, CopyFacts DEF Clear
  <2> QED
    BY <1>2, <1>4, <2>1 DEF Clear, Cleared
<1>5. ASSUME NEW r \in Worker, Add(r) PROVE Shelves'
  <2>1. at[r] \in Doc /\ next[r] \in 1 .. Batches[at[r]]
    BY <1>5, CopyFacts DEF Add, Inv, Memory
  <2>2. CASE ~Exists(at[r])
    BY <1>1, <1>5, <2>2 DEF Add
  <2>3. CASE Exists(at[r])
    <3>1. chunks' = [ chunks EXCEPT ![at[r]] = Extended(at[r], next[r]) ]
      BY <1>5, <2>3 DEF Add
    <3>2. chunks[at[r]] \in [ 1 .. Batches[at[r]] -> Nat ]
      BY <2>1 DEF Inv, Shelves, ChunksOK
    <3>3. Extended(at[r], next[r]) \in [ 1 .. Batches[at[r]] -> Nat ]
      BY <2>1, <3>2 DEF Extended
    <3> QED
      BY <2>1, <3>1, <3>3 DEF Inv, Shelves, ChunksOK
  <2> QED
    BY <2>2, <2>3
<1> QED
  BY <1>1, <1>3, <1>4, <1>5 DEF Next, vars, table, Serve, Ingest, Restart, Count, Insert, Put,
     ReadPasted, Mark, RequestFails, Complete, Retry, Reenter, DeleteObject, Upload, Begin,
     Claim, Parse, Chunk, Split, Finish, Fail, StepFails, FailLost, ListResumable, Booted,
     Resume, Crash

\* The rest of the type invariant.

LEMMA TypeStep == Inv /\ [Next]_vars => TypeOK'
<1> SUFFICES ASSUME Inv, [Next]_vars PROVE TypeOK'
  OBVIOUS
<1>0. ChunksOK'
  BY ShelvesStep DEF Shelves
<1> USE <1>0 DEF table, bounds, mind, past
<1>1. ASSUME NEW c \in Caller, NEW stage \in { "inserting", "pasting" }, Count(c, stage) PROVE TypeOK'
  BY <1>1 DEF Count, Ask, Inv, TypeOK
<1>2. ASSUME NEW c \in Caller, NEW d \in Doc, Insert(c, d) PROVE TypeOK'
  <2>1. status' \in [ Doc -> IngestionStatus \cup { "none", "gone" } ]
    BY <1>2 DEF Insert, Inv, TypeOK, IngestionStatus
  <2>2. /\ pc' = [ pc EXCEPT ![c] = "putting" ] \/ pc' = [ pc EXCEPT ![c] = "idle" ]
        /\ at' = [ at EXCEPT ![c] = d ] \/ at' = [ at EXCEPT ![c] = Null ]
    BY <1>2 DEF Insert, Leave
  <2>3. UNCHANGED << count, chunks, bytes, copy, next, queue, up, todo, bounds, past >>
    BY <1>2 DEF Insert
  <2>4. /\ pc' \in [ Session -> Asking \cup Ingesting ]
        /\ at' \in [ Session -> Doc \cup { Null } ]
    <3>1. pc \in [ Session -> Asking \cup Ingesting ] /\ at \in [ Session -> Doc \cup { Null } ]
      BY DEF Inv, TypeOK, Asking, Ingesting
    <3>2. "putting" \in Asking /\ "idle" \in Asking
      BY DEF Asking
    <3> QED
      BY <2>2, <3>1, <3>2
  <2> QED
    BY <2>1, <2>3, <2>4 DEF Inv, TypeOK, Asking, Ingesting
<1>3. ASSUME NEW c \in Caller, Put(c) PROVE TypeOK'
  <2>1. at[c] \in Doc
    BY <1>3 DEF Put, Inv, Memory
  <2> QED
    BY <1>3, <2>1 DEF Put, Inv, TypeOK
<1>4. ASSUME NEW c \in Caller, ReadPasted(c) PROVE TypeOK'
  BY <1>4 DEF ReadPasted, Leave, Inv, TypeOK
<1>5. ASSUME NEW c \in Caller, NEW d \in Doc, NEW from \in { "pending", "failed" }, Reenter(c, d, from) PROVE TypeOK'
  <2>1. Home(c) \in Process
    BY Homes
  <2>2. queue' \in [ Process -> [ Doc -> Nat ] ]
    BY <1>5, <2>1 DEF Reenter, Scheduled, Inv, TypeOK
  <2> QED
    <3>1. /\ pc' = [ pc EXCEPT ![c] = "marking" ] \/ pc' = pc
          /\ at' = [ at EXCEPT ![c] = d ] \/ at' = at
          /\ asked' \in 0 .. Budget
          /\ UNCHANGED << table, bytes, copy, next, up, todo, faults, past >>
      BY <1>5 DEF Reenter, Ask, Inv, TypeOK
    <3> QED
      BY <2>2, <3>1 DEF Inv, TypeOK
<1>6. ASSUME NEW c \in Caller, Mark(c) PROVE TypeOK'
  <2>1. at[c] \in Doc /\ Home(c) \in Process
    BY <1>6, Homes DEF Mark, Inv, Memory
  <2>2. status' \in [ Doc -> IngestionStatus \cup { "none", "gone" } ]
    BY <1>6, <2>1 DEF Mark, Inv, TypeOK, InPipelineStatus, IngestionStatus
  <2>3. queue' \in [ Process -> [ Doc -> Nat ] ]
    <3>1. queue' = queue \/ queue' = [ queue EXCEPT ![Home(c)][at[c]] = @ + 1 ]
      BY <1>6 DEF Mark, Scheduled
    <3>2. queue \in [ Process -> [ Doc -> Nat ] ]
      BY DEF Inv, TypeOK
    <3> QED
      BY <2>1, <3>1, <3>2
  <2> QED
    BY <1>6, <2>2, <2>3 DEF Mark, Leave, Inv, TypeOK
<1>7. ASSUME NEW c \in Caller, NEW d \in Doc, DeleteObject(c, d) PROVE TypeOK'
  BY <1>7 DEF DeleteObject, Ask, Inv, TypeOK
<1>8. ASSUME NEW c \in Caller, DeleteRow(c) PROVE TypeOK'
  <2>1. at[c] \in Doc
    BY <1>8 DEF DeleteRow, Inv, Memory
  <2> QED
    BY <1>8, <2>1 DEF DeleteRow, Leave, Inv, TypeOK
<1>9. ASSUME NEW c \in Caller, RequestFails(c) PROVE TypeOK'
  BY <1>9 DEF RequestFails, Leave, Faulty, Inv, TypeOK
<1>10. ASSUME NEW d \in Doc, Upload(d) PROVE TypeOK'
  BY <1>10 DEF Upload, Inv, TypeOK
<1>11. ASSUME NEW r \in Run, NEW d \in Doc, Begin(r, d) PROVE TypeOK'
  <2>1. Home(r) \in Process
    BY Homes
  <2>2. queue' \in [ Process -> [ Doc -> Nat ] ]
    BY <1>11, <2>1 DEF Begin, Inv, TypeOK
  <2>3. /\ Open(r, d) /\ pc[r] = "idle"
        /\ UNCHANGED << table, bytes, next, up, todo, bounds, stranded >>
    BY <1>11 DEF Begin
  <2>4. /\ copy' \in [ Worker -> Document \cup { Null } ]
        /\ at' \in [ Session -> Doc \cup { Null } ]
        /\ pc' \in [ Session -> Asking \cup Ingesting ] /\ together' \subseteq Doc
    BY <2>3, Opening
  <2> QED
    BY <2>2, <2>3, <2>4 DEF Inv, TypeOK, Asking, Ingesting
<1>12. ASSUME NEW r \in Worker, Claim(r) PROVE TypeOK'
  <2>1. GoesOn(r) /\ Touches(r) /\ Copies(r)
    BY <1>12, Working
  <2> QED
    BY <1>12, <2>1 DEF Claim, Inv, TypeOK, GoesOn, Touches, Copies, Ingesting
<1>13. ASSUME NEW r \in Worker, Parse(r) PROVE TypeOK'
  <2>1. GoesOn(r) /\ Touches(r) /\ Copies(r)
    BY <1>13, Working
  <2> QED
    BY <1>13, <2>1 DEF Parse, Inv, TypeOK, GoesOn, Touches, Copies, Ingesting
<1>14. ASSUME NEW r \in Worker, Chunk(r) PROVE TypeOK'
  <2>1. GoesOn(r) /\ Touches(r) /\ Copies(r)
    BY <1>14, Working
  <2> QED
    BY <1>14, <2>1 DEF Chunk, Inv, TypeOK, GoesOn, Touches, Copies, Ingesting
<1>15. ASSUME NEW r \in Worker, Split(r) PROVE TypeOK'
  <2>1. GoesOn(r) /\ Touches(r) /\ Copies(r)
    BY <1>15, Working
  <2> QED
    BY <1>15, <2>1 DEF Split, Inv, TypeOK, GoesOn, Touches, Copies, Ingesting
<1>16. ASSUME NEW r \in Worker, Clear(r) PROVE TypeOK'
  <2>1. GoesOn(r) /\ Touches(r) /\ Copies(r)
    BY <1>16, Working
  <2>2. at[r] \in Doc
    BY <1>16, CopyFacts DEF Clear
  <2> QED
    BY <1>16, <2>1, <2>2 DEF Clear, Cleared, Inv, TypeOK, GoesOn, Touches, Copies, Ingesting
<1>17. ASSUME NEW r \in Worker, Add(r) PROVE TypeOK'
  <2>1. GoesOn(r) /\ Touches(r) /\ Copies(r)
    BY <1>17, Working
  <2>2. at[r] \in Doc /\ next[r] \in 1 .. Batches[at[r]] /\ Batches[at[r]] \in Nat
    BY <1>17, CopyFacts DEF Add, Inv, Memory
  <2>4. next' \in [ Worker -> Nat ]
    BY <1>17, <2>2 DEF Add, Inv, TypeOK
  <2> QED
    BY <1>17, <2>1, <2>4 DEF Add, Inv, TypeOK, GoesOn, Touches, Copies, Ingesting
<1>18. ASSUME NEW r \in Worker, Finish(r) PROVE TypeOK'
  <2>1. Ends(r) /\ Touches(r)
    BY <1>18, Ending
  <2>2. next' \in [ Worker -> Nat ] /\ copy' \in [ Worker -> Document \cup { Null } ]
    BY <1>18 DEF Finish, End, Inv, TypeOK
  <2> QED
    BY <1>18, <2>1, <2>2 DEF Finish, Inv, TypeOK, Ends, Touches
<1>19. ASSUME NEW r \in Worker, Fail(r) PROVE TypeOK'
  <2>1. Ends(r) /\ Touches(r)
    BY <1>19, Ending
  <2>2. next' \in [ Worker -> Nat ] /\ copy' \in [ Worker -> Document \cup { Null } ]
    BY <1>19 DEF Fail, End, Inv, TypeOK
  <2> QED
    BY <1>19, <2>1, <2>2 DEF Fail, Inv, TypeOK, Ends, Touches
<1>20. ASSUME NEW r \in Worker, StepFails(r) PROVE TypeOK'
  <2>1. GoesOn(r) /\ Touches(r) /\ Copies(r)
    BY <1>20, Working
  <2> QED
    BY <1>20, <2>1 DEF StepFails, Faulty, Inv, TypeOK, GoesOn, Touches, Copies, Ingesting
<1>21. ASSUME NEW r \in Worker, FailLost(r) PROVE TypeOK'
  <2>1. Ends(r) /\ Touches(r)
    BY <1>21, Ending
  <2>2. at[r] \in Doc
    BY <1>21, CopyFacts DEF FailLost
  <2>3. next' \in [ Worker -> Nat ] /\ copy' \in [ Worker -> Document \cup { Null } ]
    BY <1>21 DEF FailLost, End, Inv, TypeOK
  <2> QED
    BY <1>21, <2>1, <2>2, <2>3 DEF FailLost, Faulty, Inv, TypeOK, Ends, Touches
<1>22. ASSUME NEW p \in Process, Crash(p) PROVE TypeOK'
  <2>1. /\ pc' \in [ Session -> Asking \cup Ingesting ]
        /\ at' \in [ Session -> Doc \cup { Null } ]
    BY <1>22 DEF Crash, Inv, TypeOK, Asking, Ingesting
  <2>2. /\ copy' \in [ Worker -> Document \cup { Null } ]
        /\ next' \in [ Worker -> Nat ]
    BY <1>22 DEF Crash, Inv, TypeOK
  <2>3. /\ queue' \in [ Process -> [ Doc -> Nat ] ]
        /\ up' \in [ Process -> { "down", "booting", "serving" } ]
        /\ todo' \in [ Process -> SUBSET Doc ]
    BY <1>22 DEF Crash, Inv, TypeOK
  <2>4. faults' \in 0 .. MaxFaults /\ UNCHANGED << table, bytes, asked, past >>
    BY <1>22 DEF Crash, Faulty, Inv, TypeOK
  <2> QED
    BY <2>1, <2>2, <2>3, <2>4 DEF Inv, TypeOK, Asking, Ingesting
<1>23. ASSUME NEW p \in Process, ListResumable(p) PROVE TypeOK'
  BY <1>23 DEF ListResumable, Resumable, Inv, TypeOK
<1>24. ASSUME NEW p \in Process, NEW d \in Doc, Resume(p, d) PROVE TypeOK'
  <2>1. /\ Open(p, d) /\ pc[p] = "idle" /\ todo' = [ todo EXCEPT ![p] = @ \ { d } ]
        /\ UNCHANGED << table, bytes, next, queue, up, bounds, stranded >>
    BY <1>24 DEF Resume
  <2>2. /\ copy' \in [ Worker -> Document \cup { Null } ]
        /\ at' \in [ Session -> Doc \cup { Null } ]
        /\ pc' \in [ Session -> Asking \cup Ingesting ] /\ together' \subseteq Doc
    BY <2>1, Opening
  <2> QED
    BY <2>1, <2>2 DEF Inv, TypeOK, Asking, Ingesting
<1>25. ASSUME NEW p \in Process, Booted(p) PROVE TypeOK'
  BY <1>25 DEF Booted, Inv, TypeOK
<1>26. ASSUME UNCHANGED vars PROVE TypeOK'
  BY <1>26 DEF vars, Inv, TypeOK
<1> QED
  BY <1>1, <1>2, <1>3, <1>4, <1>5, <1>6, <1>7, <1>8, <1>9, <1>10, <1>11,
     <1>12, <1>13, <1>14, <1>15, <1>16, <1>17, <1>18, <1>19, <1>20, <1>21,
     <1>22, <1>23, <1>24, <1>25, <1>26
     DEF Next, Serve, Ingest, Restart, Complete, Retry

\* A run that takes a document up keeps what its stage says.
LEMMA MemoryOpen ==
  ASSUME Inv, NEW r \in Worker, NEW d \in Doc, Open(r, d), pc[r] = "idle",
         UNCHANGED << table, next >>
  PROVE  Memory'
<1>1. status' = status /\ next' = next
  BY DEF table
<1>2. ASSUME NEW c \in Caller PROVE pc'[c] = pc[c] /\ at'[c] = at[c]
  BY Opening
<1>3. ASSUME NEW q \in Worker, q # r PROVE pc'[q] = pc[q] /\ at'[q] = at[q] /\ copy'[q] = copy[q]
  BY <1>3, Opening
<1>4. /\ pc'[r] # "idle" => /\ at'[r] = d /\ status[d] # "none" /\ copy'[r] \in Document
                            /\ pc'[r] \in { "claiming", "parsing" }
      /\ pc'[r] = "idle" => at'[r] = at[r]
  BY Opening
<1> QED
  BY <1>1, <1>2, <1>3, <1>4 DEF Inv, Memory, Ingesting

\* Every session keeps what its stage says.
LEMMA MemoryStep == Inv /\ [Next]_vars => Memory'
<1> SUFFICES ASSUME Inv, [Next]_vars PROVE Memory'
  OBVIOUS
<1> USE DEF table, bounds, mind, past
<1>1. ASSUME NEW c \in Caller, NEW stage \in { "inserting", "pasting" }, Count(c, stage) PROVE Memory'
  BY <1>1 DEF Count, Ask, Inv, TypeOK, Memory, Asking, Ingesting
<1>2. ASSUME NEW c \in Caller, NEW d \in Doc, Insert(c, d) PROVE Memory'
  <2>1. /\ \A e \in Doc : status[e] # "none" => status'[e] # "none"
        /\ status'[d] # "none" /\ UNCHANGED << copy, next >>
    BY <1>2 DEF Insert, Inv, TypeOK
  <2>2. \/ pc' = [ pc EXCEPT ![c] = "putting" ] /\ at' = [ at EXCEPT ![c] = d ]
        \/ pc' = [ pc EXCEPT ![c] = "idle" ] /\ at' = [ at EXCEPT ![c] = Null ]
    BY <1>2 DEF Insert, Leave
  <2>3. /\ \A s \in Session : s # c => pc'[s] = pc[s] /\ at'[s] = at[s]
        /\ \/ pc'[c] = "putting" /\ at'[c] = d
           \/ pc'[c] = "idle" /\ at'[c] = Null
    BY <2>2 DEF Inv, TypeOK
  <2>4. ASSUME NEW r \in Worker PROVE r # c /\ r \in Session
    OBVIOUS
  <2> QED
    BY <2>1, <2>3, <2>4 DEF Inv, Memory, Asking
<1>3. ASSUME NEW c \in Caller, Put(c) PROVE Memory'
  BY <1>3 DEF Put, Inv, TypeOK, Memory, Asking, Ingesting
<1>4. ASSUME NEW c \in Caller, ReadPasted(c) PROVE Memory'
  BY <1>4 DEF ReadPasted, Leave, Inv, TypeOK, Memory, Asking, Ingesting
<1>5. ASSUME NEW c \in Caller, NEW d \in Doc, NEW from \in { "pending", "failed" }, Reenter(c, d, from) PROVE Memory'
  <2>1. /\ \/ pc' = [ pc EXCEPT ![c] = "marking" ] /\ at' = [ at EXCEPT ![c] = d ]
           \/ pc' = pc /\ at' = at
        /\ status[d] # "none" /\ UNCHANGED << table, copy, next >> /\ pc[c] = "idle"
    BY <1>5 DEF Reenter, Ask, Exists
  <2>2. CASE pc' = pc /\ at' = at
    BY <2>1, <2>2 DEF Inv, Memory
  <2>3. CASE pc' = [ pc EXCEPT ![c] = "marking" ] /\ at' = [ at EXCEPT ![c] = d ]
    BY <2>1, <2>3 DEF Inv, TypeOK, Memory, Asking
  <2> QED
    BY <2>1, <2>2, <2>3
<1>6. ASSUME NEW c \in Caller, Mark(c) PROVE Memory'
  <2>1. at[c] \in Doc
    BY <1>6 DEF Mark, Inv, Memory
  <2> QED
    BY <1>6, <2>1 DEF Mark, Leave, Inv, TypeOK, Memory, Asking, Ingesting, Exists
<1>7. ASSUME NEW c \in Caller, NEW d \in Doc, DeleteObject(c, d) PROVE Memory'
  BY <1>7 DEF DeleteObject, Ask, Inv, TypeOK, Memory, Asking, Ingesting, Exists
<1>8. ASSUME NEW c \in Caller, DeleteRow(c) PROVE Memory'
  BY <1>8 DEF DeleteRow, Leave, Inv, TypeOK, Memory, Asking, Ingesting
<1>9. ASSUME NEW c \in Caller, RequestFails(c) PROVE Memory'
  BY <1>9 DEF RequestFails, Leave, Faulty, Inv, TypeOK, Memory, Asking, Ingesting
<1>10. ASSUME NEW d \in Doc, Upload(d) PROVE Memory'
  BY <1>10 DEF Upload, Inv, TypeOK, Memory, Asking, Ingesting
<1>11. ASSUME NEW r \in Run, NEW d \in Doc, Begin(r, d) PROVE Memory'
  <2>1. Open(r, d) /\ pc[r] = "idle" /\ UNCHANGED << table, next >>
    BY <1>11 DEF Begin
  <2> QED
    BY <2>1, MemoryOpen
<1>12. ASSUME NEW r \in Worker, Claim(r) PROVE Memory'
  <2>1. GoesOn(r) /\ Touches(r) /\ Copies(r)
    BY <1>12, Working
  <2> QED
    BY <1>12, <2>1 DEF Claim, Inv, TypeOK, Memory, Asking, Ingesting, GoesOn, Touches, Copies
<1>13. ASSUME NEW r \in Worker, Parse(r) PROVE Memory'
  <2>1. GoesOn(r) /\ Touches(r) /\ Copies(r)
    BY <1>13, Working
  <2> QED
    BY <1>13, <2>1 DEF Parse, Inv, TypeOK, Memory, Asking, Ingesting, GoesOn, Touches, Copies
<1>14. ASSUME NEW r \in Worker, Chunk(r) PROVE Memory'
  <2>1. GoesOn(r) /\ Touches(r) /\ Copies(r)
    BY <1>14, Working
  <2> QED
    BY <1>14, <2>1 DEF Chunk, Inv, TypeOK, Memory, Asking, Ingesting, Raise, GoesOn, Touches, Copies
<1>15. ASSUME NEW r \in Worker, Split(r) PROVE Memory'
  <2>1. GoesOn(r) /\ Touches(r) /\ Copies(r)
    BY <1>15, Working
  <2> QED
    BY <1>15, <2>1 DEF Split, Inv, TypeOK, Memory, Asking, Ingesting, Raise, GoesOn, Touches, Copies
<1>16. ASSUME NEW r \in Worker, Clear(r) PROVE Memory'
  <2>1. GoesOn(r) /\ Touches(r) /\ Copies(r)
    BY <1>16, Working
  <2>2. at[r] \in Doc /\ Batches[at[r]] \in Nat /\ Batches[at[r]] # 0
    BY <1>16, CopyFacts DEF Clear, Inv, Memory
  <2>3. 1 \in 1 .. Batches[at[r]]
    BY <2>2
  <2> QED
    BY <1>16, <2>1, <2>2, <2>3 DEF Clear, Cleared, Inv, TypeOK, Memory, Asking, Ingesting, GoesOn, Touches, Copies
<1>17. ASSUME NEW r \in Worker, Add(r) PROVE Memory'
  <2>1. GoesOn(r) /\ Touches(r) /\ Copies(r)
    BY <1>17, Working
  <2>2. at[r] \in Doc /\ next[r] \in 1 .. Batches[at[r]] /\ Batches[at[r]] \in Nat
    BY <1>17, CopyFacts DEF Add, Inv, Memory
  <2>4. pc'[r] = "adding" => next'[r] \in 1 .. Batches[at[r]]
    BY <1>17, <2>2 DEF Add, Inv, TypeOK
  <2>5. \A q \in Worker : q # r => next'[q] = next[q]
    BY <1>17 DEF Add, Inv, TypeOK
  <2> QED
    BY <1>17, <2>1, <2>2, <2>4, <2>5 DEF GoesOn, Touches, Copies, Inv, TypeOK, Memory, Asking, Ingesting
<1>18. ASSUME NEW r \in Worker, Finish(r) PROVE Memory'
  <2>1. Ends(r) /\ Touches(r)
    BY <1>18, Ending
  <2>2. \A q \in Worker : q # r => next'[q] = next[q] /\ copy'[q] = copy[q]
    BY <1>18 DEF Finish, End, Inv, TypeOK
  <2> QED
    BY <1>18, <2>1, <2>2 DEF Finish, Inv, TypeOK, Memory, Asking, Ingesting, Ends, Touches
<1>19. ASSUME NEW r \in Worker, Fail(r) PROVE Memory'
  <2>1. Ends(r) /\ Touches(r)
    BY <1>19, Ending
  <2>2. \A q \in Worker : q # r => next'[q] = next[q] /\ copy'[q] = copy[q]
    BY <1>19 DEF Fail, End, Inv, TypeOK
  <2> QED
    BY <1>19, <2>1, <2>2 DEF Fail, Inv, TypeOK, Memory, Asking, Ingesting, Ends, Touches
<1>20. ASSUME NEW r \in Worker, StepFails(r) PROVE Memory'
  <2>1. GoesOn(r) /\ Touches(r) /\ Copies(r)
    BY <1>20, Working
  <2> QED
    BY <1>20, <2>1 DEF StepFails, Faulty, Inv, TypeOK, Memory, Asking, Ingesting, GoesOn, Touches, Copies
<1>21. ASSUME NEW r \in Worker, FailLost(r) PROVE Memory'
  <2>1. Ends(r) /\ Touches(r)
    BY <1>21, Ending
  <2>2. \A q \in Worker : q # r => next'[q] = next[q] /\ copy'[q] = copy[q]
    BY <1>21 DEF FailLost, End, Inv, TypeOK
  <2> QED
    BY <1>21, <2>1, <2>2 DEF FailLost, Faulty, Inv, TypeOK, Memory, Asking, Ingesting, Ends, Touches
<1>22. ASSUME NEW p \in Process, Crash(p) PROVE Memory'
  BY <1>22 DEF Crash, Inv, TypeOK, Memory, Asking, Ingesting
<1>23. ASSUME NEW p \in Process, ListResumable(p) PROVE Memory'
  BY <1>23 DEF ListResumable, Resumable, Inv, TypeOK, Memory, Asking, Ingesting
<1>24. ASSUME NEW p \in Process, NEW d \in Doc, Resume(p, d) PROVE Memory'
  <2>1. Open(p, d) /\ pc[p] = "idle" /\ UNCHANGED << table, next >>
    BY <1>24 DEF Resume
  <2> QED
    BY <2>1, MemoryOpen
<1>25. ASSUME NEW p \in Process, Booted(p) PROVE Memory'
  BY <1>25 DEF Booted, Inv, TypeOK, Memory, Asking, Ingesting
<1>26. ASSUME UNCHANGED vars PROVE Memory'
  BY <1>26 DEF vars, Inv, TypeOK, Memory, Asking, Ingesting
<1> QED
  BY <1>1, <1>2, <1>3, <1>4, <1>5, <1>6, <1>7, <1>8, <1>9, <1>10, <1>11,
     <1>12, <1>13, <1>14, <1>15, <1>16, <1>17, <1>18, <1>19, <1>20, <1>21,
     <1>22, <1>23, <1>24, <1>25, <1>26
     DEF Next, Serve, Ingest, Restart, Complete, Retry

\* A step that leaves the chunks alone, and ends no document, leaves Bare.
LEMMA BareKept ==
  ASSUME Inv, chunks' = chunks,
         \A d \in Doc : status'[d] = "gone" => status[d] = "gone"
  PROVE  Bare'
  BY DEF Inv, Bare, NoChunks

\* What is gone has no chunks.
LEMMA BareStep == Inv /\ [Next]_vars => Bare'
<1> SUFFICES ASSUME Inv, [Next]_vars PROVE Bare'
  OBVIOUS
<1> USE DEF table
<1>1. CASE chunks' = chunks /\ status' = status
  BY <1>1, BareKept
<1>2. ASSUME NEW c \in Caller, NEW d \in Doc, Insert(c, d) PROVE Bare'
  BY <1>2, BareKept DEF Insert, Inv, TypeOK
<1>3. ASSUME NEW c \in Caller, Mark(c) PROVE Bare'
  BY <1>3, BareKept DEF Mark, Inv, TypeOK
<1>4. ASSUME NEW c \in Caller, DeleteRow(c) PROVE Bare'
  BY <1>4 DEF DeleteRow, Inv, Shelves, Bare, TypeOK, Memory, NoChunks
<1>5. ASSUME NEW r \in Worker, Claim(r) \/ Parse(r) \/ Chunk(r) \/ Split(r) \/ StepFails(r) PROVE Bare'
  <2>1. Touches(r)
    BY <1>5, Working
  <2>2. chunks' = chunks
    BY <1>5 DEF Claim, Parse, Chunk, Split, StepFails
  <2> QED
    BY <2>1, <2>2, BareKept DEF Touches
<1>6. ASSUME NEW r \in Worker, Finish(r) \/ Fail(r) \/ FailLost(r) PROVE Bare'
  <2>1. Touches(r)
    BY <1>6, Ending
  <2>2. chunks' = chunks
    BY <1>6 DEF Finish, Fail, FailLost
  <2> QED
    BY <2>1, <2>2, BareKept DEF Touches
<1>7. ASSUME NEW r \in Worker, Clear(r) PROVE Bare'
  <2>1. Touches(r) /\ at[r] \in Doc
    BY <1>7, Working, CopyFacts DEF GoesOn
  <2> QED
    BY <1>7, <2>1 DEF Clear, Cleared, Touches, Inv, Shelves, Bare, NoChunks
<1>8. ASSUME NEW r \in Worker, Add(r) PROVE Bare'
  <2>1. status' = status /\ \A d \in Doc : status[d] = "gone" => chunks'[d] = chunks[d]
    BY <1>8, CopyFacts DEF Add, Inv, Shelves, Exists
  <2> QED
    BY <2>1 DEF Inv, Bare, NoChunks
<1> QED
  BY <1>1, <1>2, <1>3, <1>4, <1>5, <1>6, <1>7, <1>8 DEF Next, vars, Serve, Ingest, Restart, Count,
     Put, ReadPasted, RequestFails, Complete, Retry, Reenter, DeleteObject, Upload, Begin,
     ListResumable, Booted, Resume, Crash

\* What keeps the runs where they are, or takes some away.
LEMMA SingleLess ==
  ASSUME Single, together' = together, \A r \in Worker : at'[r] \in { at[r], Null }
  PROVE  Single'
  BY DEF Single

\* A run that takes a document up notes whether another has it.
LEMMA SingleOpen ==
  ASSUME Inv, Single, NEW r \in Worker, NEW d \in Doc, Open(r, d)
  PROVE  Single'
<1>1. CASE Missing(d) \/ status[d] \in { "ready", "pending" }
  BY <1>1 DEF Open, Single
<1>2. CASE ~(Missing(d) \/ status[d] \in { "ready", "pending" })
  <2>1. /\ at' = [ at EXCEPT ![r] = d ]
        /\ together' = IF \E q \in Worker : at[q] = d THEN together \cup { d } ELSE together \ { d }
    BY <1>2 DEF Open
  <2> QED
    BY <2>1 DEF Single, Inv, TypeOK
<1> QED
  BY <1>1, <1>2

\* No document is in the hands of two runs unnoticed.
LEMMA SingleStep == Inv /\ Single /\ [Next]_vars => Single'
<1> SUFFICES ASSUME Inv, Single, [Next]_vars PROVE Single'
  OBVIOUS
<1> USE DEF table, bounds, mind, past
<1>1. ASSUME NEW c \in Caller, NEW stage \in { "inserting", "pasting" }, Count(c, stage) PROVE Single'
  BY <1>1, SingleLess DEF Count, Ask, Inv, TypeOK
<1>2. ASSUME NEW c \in Caller, NEW d \in Doc, Insert(c, d) PROVE Single'
  BY <1>2, SingleLess DEF Insert, Leave, Inv, TypeOK
<1>3. ASSUME NEW c \in Caller, Put(c) PROVE Single'
  BY <1>3, SingleLess DEF Put, Inv, TypeOK
<1>4. ASSUME NEW c \in Caller, ReadPasted(c) PROVE Single'
  BY <1>4, SingleLess DEF ReadPasted, Leave, Inv, TypeOK
<1>5. ASSUME NEW c \in Caller, NEW d \in Doc, NEW from \in { "pending", "failed" }, Reenter(c, d, from) PROVE Single'
  BY <1>5, SingleLess DEF Reenter, Ask, Inv, TypeOK
<1>6. ASSUME NEW c \in Caller, Mark(c) PROVE Single'
  BY <1>6, SingleLess DEF Mark, Leave, Inv, TypeOK
<1>7. ASSUME NEW c \in Caller, NEW d \in Doc, DeleteObject(c, d) PROVE Single'
  BY <1>7, SingleLess DEF DeleteObject, Ask, Inv, TypeOK
<1>8. ASSUME NEW c \in Caller, DeleteRow(c) PROVE Single'
  BY <1>8, SingleLess DEF DeleteRow, Leave, Inv, TypeOK
<1>9. ASSUME NEW c \in Caller, RequestFails(c) PROVE Single'
  BY <1>9, SingleLess DEF RequestFails, Leave, Inv, TypeOK
<1>10. ASSUME NEW d \in Doc, Upload(d) PROVE Single'
  BY <1>10, SingleLess DEF Upload, Inv, TypeOK
<1>11. ASSUME NEW r \in Run, NEW d \in Doc, Begin(r, d) PROVE Single'
  BY <1>11, SingleOpen DEF Begin
<1>12. ASSUME NEW r \in Worker, Ingest(r) \/ StepFails(r) PROVE Single'
  BY <1>12, Working, Ending, SingleLess DEF Ingest, GoesOn, Ends, Inv, TypeOK
<1>13. ASSUME NEW r \in Worker, FailLost(r) PROVE Single'
  BY <1>13, Ending, SingleLess DEF Ends, Inv, TypeOK
<1>14. ASSUME NEW p \in Process, Crash(p) PROVE Single'
  BY <1>14, SingleLess DEF Crash
<1>15. ASSUME NEW p \in Process, ListResumable(p) \/ Booted(p) PROVE Single'
  BY <1>15, SingleLess DEF ListResumable, Booted
<1>16. ASSUME NEW p \in Process, NEW d \in Doc, Resume(p, d) PROVE Single'
  BY <1>16, SingleOpen DEF Resume
<1>17. ASSUME UNCHANGED vars PROVE Single'
  BY <1>17, SingleLess DEF vars
<1> QED
  BY <1>1, <1>2, <1>3, <1>4, <1>5, <1>6, <1>7, <1>8, <1>9, <1>10, <1>11,
     <1>12, <1>13, <1>14, <1>15, <1>16, <1>17
     DEF Next, Serve, Restart, Complete, Retry

\* What is true of one document when Progress is.
Prog(d) ==
  /\ status[d] = "ready" => count[d] = Batches[d] /\ chunks[d] = Stored(d, Batches[d] + 1)
  /\ \A r \in Worker : at[r] = d /\ pc[r] # "idle" => Far(r, d)

\* A session that works on another document leaves this one where it is.
LEMMA ProgressElse ==
  ASSUME Inv, NEW d \in Doc, Prog(d), NEW r \in Worker, at[r] # d,
         GoesOn(r) \/ Ends(r), Touches(r), chunks'[d] = chunks[d],
         \A q \in Worker : q # r => next'[q] = next[q] /\ copy'[q] = copy[q]
  PROVE  Prog(d)'
<1>1. status'[d] = status[d] /\ count'[d] = count[d]
  BY DEF Touches
<1>2. ASSUME NEW q \in Worker, at'[q] = d PROVE q # r /\ at[q] = d /\ pc'[q] = pc[q]
  BY <1>2 DEF GoesOn, Ends, Inv, TypeOK
<1>3. ASSUME NEW q \in Worker, at'[q] = d, pc'[q] # "idle" PROVE Far(q, d)'
  <2>1. Far(q, d)
    BY <1>2, <1>3 DEF Prog
  <2> QED
    BY <1>1, <1>2, <1>3, <2>1 DEF Far, Exists, Stored
<1> QED
  BY <1>1, <1>3 DEF Prog, Stored

\* The one that works on it is alone.
LEMMA ProgressAlone ==
  ASSUME Inv, Single, NEW d \in Doc \ together, NEW r \in Worker, at[r] = d, pc[r] # "idle",
         GoesOn(r) \/ Ends(r), NEW q \in Worker, at'[q] = d, pc'[q] # "idle"
  PROVE  q = r /\ GoesOn(r)
<1>1. at[q] = d /\ pc[q] # "idle"
  BY DEF GoesOn, Ends, Inv, TypeOK
<1>2. q = r
  BY <1>1 DEF Single
<1> QED
  BY <1>2 DEF Ends, Inv, TypeOK

\* A document that is saved with a status of the pipeline is not searchable.
LEMMA SaveFar ==
  ASSUME Inv, NEW r \in Worker, pc[r] # "idle", NEW d \in Doc, at[r] = d, Far(r, d),
         NEW target \in { "parsing", "chunking", "embedding" }, Save(r, target),
         pc'[r] \in { "parsing", "splitting", "clearing" }
  PROVE  status'[d] # "ready" /\ Far(r, d)'
<1>1. target \in IngestionStatus /\ target # "ready"
  BY DEF IngestionStatus, InPipelineStatus
<1>2. [ status |-> target, count |-> copy[r].count ] \in Document
  BY <1>1, CopyFacts
<1>3. Update(d, [ status |-> target, count |-> copy[r].count ]) /\ copy'[r].status = target
  BY DEF Save, Inv, TypeOK
<1>4. status'[d] # "ready"
  BY <1>1, <1>2, <1>3, UpdateFacts DEF Inv, Far
<1> QED
  BY <1>1, <1>3, <1>4 DEF Far

LEMMA ProgressWork ==
  ASSUME Inv, Single, Progress, NEW r \in Worker, NEW d \in Doc \ together,
         Ingest(r) \/ StepFails(r) \/ FailLost(r)
  PROVE  Prog(d)'
<1>0. Prog(d)
  BY DEF Progress, Prog
<1>1. /\ GoesOn(r) \/ Ends(r)
      /\ Touches(r) /\ at[r] \in Doc /\ pc[r] # "idle"
      /\ \A q \in Worker : q # r => next'[q] = next[q] /\ copy'[q] = copy[q]
  <2>1. CASE Claim(r) \/ Parse(r) \/ Chunk(r) \/ Split(r) \/ Clear(r) \/ Add(r) \/ StepFails(r)
    <3>1. GoesOn(r) /\ Touches(r) /\ Copies(r)
      BY <2>1, Working
    <3>2. pc[r] # "idle" /\ at[r] \in Doc
      BY <3>1, CopyFacts DEF GoesOn
    <3>3. \A q \in Worker : q # r => next'[q] = next[q]
      BY <2>1 DEF Claim, Parse, Chunk, Split, Clear, Add, StepFails, Inv, TypeOK
    <3> QED
      BY <3>1, <3>2, <3>3 DEF Copies
  <2>2. CASE Finish(r) \/ Fail(r) \/ FailLost(r)
    <3>1. Ends(r) /\ Touches(r)
      BY <2>2, Ending
    <3>2. pc[r] # "idle" /\ at[r] \in Doc
      BY <3>1, CopyFacts DEF Ends
    <3>3. \A q \in Worker : q # r => next'[q] = next[q] /\ copy'[q] = copy[q]
      BY <2>2 DEF Finish, Fail, FailLost, End, Inv, TypeOK
    <3> QED
      BY <3>1, <3>2, <3>3
  <2> QED
    BY <2>1, <2>2 DEF Ingest
<1>2. CASE at[r] # d
  <2>1. chunks'[d] = chunks[d]
    BY <1>1, <1>2 DEF Ingest, Claim, Parse, Chunk, Split, Clear, Add, Finish, Fail, StepFails,
       FailLost, table, Inv, Shelves
  <2> QED
    BY <1>0, <1>1, <1>2, <2>1, ProgressElse
<1>3. CASE at[r] = d
  <2>1. Far(r, d)
    BY <1>0, <1>1, <1>3 DEF Prog
  <2>2. SUFFICES /\ status'[d] = "ready" => count'[d] = Batches[d] /\ chunks'[d] = Stored(d, Batches[d] + 1)
                 /\ GoesOn(r) => Far(r, d)'
    <3>1. \A q \in Worker : at'[q] = d /\ pc'[q] # "idle" => Far(q, d)'
      BY <1>1, <1>3, <2>2, ProgressAlone
    <3> QED
      BY <2>2, <3>1 DEF Prog, Stored
  <2>3. CASE Claim(r)
    BY <1>3, <2>1, <2>3, SaveFar DEF Claim, table, Inv, TypeOK
  <2>4. CASE Parse(r)
    BY <1>1, <1>3, <2>1, <2>4 DEF Parse, Far, table, Exists, Stored, Inv, TypeOK
  <2>5. CASE Chunk(r)
    <3>1. CASE CanMove(copy[r].status, "chunking")
      BY <1>3, <2>1, <2>5, <3>1, SaveFar DEF Chunk, table, Inv, TypeOK
    <3>2. CASE ~CanMove(copy[r].status, "chunking")
      BY <1>1, <1>3, <2>1, <2>5, <3>2 DEF Chunk, Raise, Far, Exists, Stored, Inv, TypeOK
    <3> QED
      BY <3>1, <3>2
  <2>6. CASE Split(r)
    <3>1. CASE Batches[at[r]] # 0
      BY <1>3, <2>1, <2>6, <3>1, SaveFar DEF Split, table, Inv, TypeOK
    <3>2. CASE Batches[at[r]] = 0
      BY <1>1, <1>3, <2>1, <2>6, <3>2 DEF Split, Raise, Far, Exists, Stored, Inv, TypeOK
    <3> QED
      BY <3>1, <3>2
  <2>7. CASE Clear(r)
    <3>1. status' = status /\ count' = count /\ copy' = copy /\ at' = at
      BY <2>7 DEF Clear
    <3>2. pc'[r] = "adding" /\ next'[r] = 1 /\ pc[r] = "clearing"
      BY <2>7 DEF Clear, Inv, TypeOK
    <3>3. chunks'[d] = NoChunks(d)
      BY <1>1, <1>3, <2>7 DEF Clear, Cleared, Inv, Shelves
    <3>4. NoChunks(d) = Stored(d, 1)
      BY DEF NoChunks, Stored
    <3> QED
      BY <2>1, <3>1, <3>2, <3>3, <3>4 DEF Far, Stored
  <2>8. CASE Add(r)
    <3>1. status' = status /\ count' = count /\ at' = at /\ pc[r] = "adding"
      BY <2>8 DEF Add
    <3>2. CASE ~Exists(d)
      <4>1. pc'[r] = "failing" /\ copy' = copy /\ ~Exists(d)'
        BY <1>3, <2>8, <3>1, <3>2 DEF Add, Exists, Inv, TypeOK
      <4> QED
        BY <2>1, <3>1, <4>1 DEF Far
    <3>3. CASE Exists(d)
      <4>1. next[r] \in 1 .. Batches[d] /\ Batches[d] \in Nat
        <5>1. next[r] \in 1 .. Batches[at[r]]
          BY <3>1 DEF Inv, Memory
        <5> QED
          BY <1>3, <5>1
      <4>2. chunks'[d] = [ Stored(d, next[r]) EXCEPT ![next[r]] = @ + 1 ]
        <5>1. chunks' = [ chunks EXCEPT ![d] = Extended(d, next[r]) ]
          BY <1>3, <2>8, <3>3 DEF Add
        <5>2. chunks[d] = Stored(d, next[r])
          BY <2>1, <3>1, <3>3 DEF Far
        <5> QED
          BY <5>1, <5>2 DEF Extended, Inv, Shelves, ChunksOK
      <4>3. chunks'[d] = Stored(d, next[r] + 1)
        <5>1. chunks'[d] = [ b \in 1 .. Batches[d] |-> chunks'[d][b] ]
          BY <4>2 DEF Stored
        <5>2. ASSUME NEW b \in 1 .. Batches[d]
              PROVE  chunks'[d][b] = IF b < next[r] + 1 THEN 1 ELSE 0
          <6>1. CASE b = next[r]
            BY <4>1, <4>2, <6>1 DEF Stored
          <6>2. CASE b # next[r]
            BY <4>1, <4>2, <6>2 DEF Stored
          <6> QED
            BY <6>1, <6>2
        <5> QED
          BY <5>1, <5>2 DEF Stored
      <4>4. next'[r] = next[r] + 1
        BY <1>3, <2>8, <3>3 DEF Add, Inv, TypeOK
      <4>5. CASE next[r] < Batches[d]
        <5>1. pc' = pc /\ copy' = copy
          BY <1>3, <2>8, <3>3, <4>5 DEF Add
        <5> QED
          BY <2>1, <3>1, <4>3, <4>4, <5>1 DEF Far, Stored
      <4>6. CASE ~(next[r] < Batches[d])
        <5>1. /\ copy'[r] = [ status |-> "ready", count |-> Batches[d] ]
              /\ pc'[r] = "finishing"
          BY <1>3, <2>8, <3>3, <4>6 DEF Add, Inv, TypeOK
        <5>2. next[r] = Batches[d]
          BY <4>1, <4>6
        <5> QED
          BY <2>1, <3>1, <4>3, <5>1, <5>2 DEF Far, Stored
      <4> QED
        BY <4>5, <4>6
    <3> QED
      BY <3>2, <3>3
  <2>9. CASE Finish(r)
    <3>1. ~GoesOn(r)
      BY <2>9, Ending DEF GoesOn, Ends, Ingesting, Inv, TypeOK
    <3>2. chunks' = chunks /\ copy[r] \in Document /\ pc[r] = "finishing"
      BY <2>9, CopyFacts DEF Finish
    <3>3. CASE Exists(d)
      BY <1>1, <1>3, <2>1, <2>9, <3>1, <3>2, <3>3, UpdateFacts DEF Finish, Far, Stored, Inv
    <3>4. CASE ~Exists(d)
      BY <1>1, <1>3, <2>1, <2>9, <3>1, <3>2, <3>4 DEF Finish, Update, Far
    <3> QED
      BY <3>3, <3>4
  <2>10. CASE Fail(r)
    <3>1. ~GoesOn(r)
      BY <2>10, Ending DEF GoesOn, Ends, Ingesting, Inv, TypeOK
    <3>2. [ status |-> "failed", count |-> copy[r].count ] \in Document
      BY <2>10, CopyFacts DEF Fail, IngestionStatus
    <3>3. status'[d] # "ready"
      BY <1>1, <1>3, <2>1, <2>10, <3>2, UpdateFacts DEF Fail, Far, Inv
    <3> QED
      BY <3>1, <3>3
  <2>11. CASE StepFails(r)
    BY <1>1, <1>3, <2>1, <2>11 DEF StepFails, Far, table, Exists, Stored, Inv, TypeOK
  <2>12. CASE FailLost(r)
    <3>1. ~GoesOn(r)
      BY <2>12, Ending DEF GoesOn, Ends, Ingesting, Inv, TypeOK
    <3> QED
      BY <2>1, <2>12, <3>1 DEF FailLost, Far, table
  <2> QED
    BY <2>3, <2>4, <2>5, <2>6, <2>7, <2>8, <2>9, <2>10, <2>11, <2>12 DEF Ingest
<1> QED
  BY <1>2, <1>3


\* A document with one run at most is as far as that run.
LEMMA ProgressStep == Inv /\ Single /\ Progress /\ [Next]_vars => Progress'
<1> SUFFICES ASSUME Inv, Single, Progress, [Next]_vars PROVE Progress'
  OBVIOUS
<1> USE DEF table, bounds, mind, past
<1>1. ASSUME NEW c \in Caller, NEW stage \in { "inserting", "pasting" }, Count(c, stage) PROVE Progress'
  BY <1>1 DEF Count, Ask, Inv, TypeOK, Memory, Progress, Far, Exists
<1>2. ASSUME NEW c \in Caller, NEW d \in Doc, Insert(c, d) PROVE Progress'
  BY <1>2 DEF Insert, Leave, Inv, TypeOK, Memory, Progress, Far, Exists
<1>3. ASSUME NEW c \in Caller, Put(c) PROVE Progress'
  BY <1>3 DEF Put, Inv, TypeOK, Memory, Progress, Far, Exists
<1>4. ASSUME NEW c \in Caller, ReadPasted(c) PROVE Progress'
  BY <1>4 DEF ReadPasted, Leave, Inv, TypeOK, Memory, Progress, Far, Exists
<1>5. ASSUME NEW c \in Caller, NEW d \in Doc, NEW from \in { "pending", "failed" }, Reenter(c, d, from) PROVE Progress'
  BY <1>5 DEF Reenter, Ask, Inv, TypeOK, Memory, Progress, Far, Exists
<1>6. ASSUME NEW c \in Caller, Mark(c) PROVE Progress'
  BY <1>6 DEF Mark, Leave, Inv, TypeOK, Memory, Progress, Far, Exists
<1>7. ASSUME NEW c \in Caller, NEW d \in Doc, DeleteObject(c, d) PROVE Progress'
  BY <1>7 DEF DeleteObject, Ask, Inv, TypeOK, Memory, Progress, Far, Exists
<1>8. ASSUME NEW c \in Caller, DeleteRow(c) PROVE Progress'
  BY <1>8 DEF DeleteRow, Leave, Inv, TypeOK, Memory, Progress, Far, Exists
<1>9. ASSUME NEW c \in Caller, RequestFails(c) PROVE Progress'
  BY <1>9 DEF RequestFails, Leave, Faulty, Inv, TypeOK, Memory, Progress, Far, Exists
<1>10. ASSUME NEW d \in Doc, Upload(d) PROVE Progress'
  BY <1>10 DEF Upload, Inv, TypeOK, Memory, Progress, Far, Exists
<1>11. ASSUME NEW r \in Run, NEW d \in Doc, Begin(r, d) PROVE Progress'
  BY <1>11 DEF Begin, Open, Missing, Inv, TypeOK, Memory, Progress, Far, Exists
<1>12. ASSUME NEW r \in Worker, Ingest(r) \/ StepFails(r) \/ FailLost(r) PROVE Progress'
  <2>1. together' = together
    BY <1>12, Working, Ending DEF Ingest, GoesOn, Ends
  <2>2. \A d \in Doc \ together : Prog(d)'
    BY <1>12, ProgressWork
  <2> QED
    BY <2>1, <2>2 DEF Prog, Progress
<1>13. ASSUME NEW p \in Process, Crash(p) PROVE Progress'
  BY <1>13 DEF Crash, Inv, TypeOK, Memory, Progress, Far, Exists
<1>14. ASSUME NEW p \in Process, ListResumable(p) PROVE Progress'
  BY <1>14 DEF ListResumable, Resumable, Inv, TypeOK, Memory, Progress, Far, Exists
<1>15. ASSUME NEW p \in Process, NEW d \in Doc, Resume(p, d) PROVE Progress'
  BY <1>15 DEF Resume, Open, Missing, Inv, TypeOK, Memory, Progress, Far, Exists
<1>16. ASSUME NEW p \in Process, Booted(p) PROVE Progress'
  BY <1>16 DEF Booted, Inv, TypeOK, Memory, Progress, Far, Exists
<1>17. ASSUME UNCHANGED vars PROVE Progress'
  BY <1>17 DEF vars, Inv, TypeOK, Memory, Progress, Far, Exists
<1> QED
  BY <1>1, <1>2, <1>3, <1>4, <1>5, <1>6, <1>7, <1>8, <1>9, <1>10, <1>11,
     <1>12, <1>13, <1>14, <1>15, <1>16, <1>17
     DEF Next, Serve, Restart, Complete, Retry

\* Fewer documents and fewer requests leave more room.
LEMMA RoomKept ==
  ASSUME Inv, Room, Existing' \subseteq Existing, Creating' \subseteq Creating
  PROVE  Room'
<1>1. IsFiniteSet(Existing) /\ IsFiniteSet(Creating)
  BY ConstantAssumption, FS_Subset DEF Existing, Creating
<1>2. /\ Cardinality(Existing') <= Cardinality(Existing) /\ Cardinality(Existing') \in Nat
      /\ Cardinality(Creating') <= Cardinality(Creating) /\ Cardinality(Creating') \in Nat
      /\ Cardinality(Existing) \in Nat /\ Cardinality(Creating) \in Nat
      /\ Cardinality(Caller) \in Nat
  BY <1>1, ConstantAssumption, FS_Subset, FS_CardinalityType
<1> QED
  BY <1>2, ConstantAssumption DEF Room

\* Only a request that was counted adds a document.
LEMMA RoomStep == Inv /\ Room /\ [Next]_vars => Room'
<1> SUFFICES ASSUME Inv, Room, [Next]_vars PROVE Room'
  OBVIOUS
<1> USE DEF table, bounds, mind, past
<1>1. ASSUME NEW c \in Caller, NEW stage \in { "inserting", "pasting" }, Count(c, stage) PROVE Room'
  <2>1. IsFiniteSet(Creating') /\ Cardinality(Creating') <= Cardinality(Caller)
    BY ConstantAssumption, FS_Subset DEF Creating
  <2>2. Existing' = Existing /\ ~Full
    BY <1>1 DEF Count, Existing, Exists
  <2>3. IsFiniteSet(Existing)
    BY ConstantAssumption, FS_Subset DEF Existing
  <2>4. /\ Cardinality(Existing) \in Nat /\ Cardinality(Creating') \in Nat
        /\ Cardinality(Caller) \in Nat
    BY <2>1, <2>3, ConstantAssumption, FS_CardinalityType
  <2> QED
    BY <2>1, <2>2, <2>4, ConstantAssumption DEF Room, Full
<1>2. ASSUME NEW c \in Caller, NEW d \in Doc, Insert(c, d) PROVE Room'
  <2>1. Existing' \subseteq Existing \cup { d } /\ d \notin Existing
    BY <1>2 DEF Insert, Existing, Exists, Inv, TypeOK
  <2>2. Creating' \subseteq Creating \ { c } /\ c \in Creating
    BY <1>2 DEF Insert, Leave, Creating, Inv, TypeOK
  <2>3. IsFiniteSet(Existing) /\ IsFiniteSet(Creating)
    BY ConstantAssumption, FS_Subset DEF Existing, Creating
  <2>4. /\ IsFiniteSet(Existing \cup { d })
        /\ Cardinality(Existing \cup { d }) = Cardinality(Existing) + 1
        /\ IsFiniteSet(Creating \ { c })
        /\ Cardinality(Creating \ { c }) = Cardinality(Creating) - 1
    BY <2>1, <2>2, <2>3, FS_AddElement, FS_RemoveElement
  <2>5. /\ Cardinality(Existing') <= Cardinality(Existing) + 1 /\ Cardinality(Existing') \in Nat
        /\ Cardinality(Creating') <= Cardinality(Creating) - 1 /\ Cardinality(Creating') \in Nat
    BY <2>1, <2>2, <2>4, FS_Subset, FS_CardinalityType
  <2>6. /\ Cardinality(Existing) \in Nat /\ Cardinality(Creating) \in Nat
        /\ Cardinality(Caller) \in Nat
    BY <2>3, ConstantAssumption, FS_CardinalityType
  <2> QED
    BY <2>5, <2>6, ConstantAssumption DEF Room
<1>3. ASSUME NEW c \in Caller, Put(c) PROVE Room'
  <2>1. Existing' \subseteq Existing /\ Creating' \subseteq Creating
    BY <1>3 DEF Put, Inv, TypeOK, Memory, Existing, Creating, Exists
  <2> QED
    BY <2>1, RoomKept
<1>4. ASSUME NEW c \in Caller, ReadPasted(c) PROVE Room'
  <2>1. Existing' \subseteq Existing /\ Creating' \subseteq Creating
    BY <1>4 DEF ReadPasted, Leave, Inv, TypeOK, Memory, Existing, Creating, Exists
  <2> QED
    BY <2>1, RoomKept
<1>5. ASSUME NEW c \in Caller, NEW d \in Doc, NEW from \in { "pending", "failed" }, Reenter(c, d, from) PROVE Room'
  <2>1. Existing' \subseteq Existing /\ Creating' \subseteq Creating
    BY <1>5 DEF Reenter, Ask, Inv, TypeOK, Memory, Existing, Creating, Exists
  <2> QED
    BY <2>1, RoomKept
<1>6. ASSUME NEW c \in Caller, Mark(c) PROVE Room'
  <2>1. Existing' \subseteq Existing /\ Creating' \subseteq Creating
    BY <1>6 DEF Mark, Leave, Inv, TypeOK, Memory, Existing, Creating, Exists
  <2> QED
    BY <2>1, RoomKept
<1>7. ASSUME NEW c \in Caller, NEW d \in Doc, DeleteObject(c, d) PROVE Room'
  <2>1. Existing' \subseteq Existing /\ Creating' \subseteq Creating
    BY <1>7 DEF DeleteObject, Ask, Inv, TypeOK, Memory, Existing, Creating, Exists
  <2> QED
    BY <2>1, RoomKept
<1>8. ASSUME NEW c \in Caller, DeleteRow(c) PROVE Room'
  <2>1. Existing' \subseteq Existing /\ Creating' \subseteq Creating
    BY <1>8 DEF DeleteRow, Leave, Inv, TypeOK, Memory, Existing, Creating, Exists
  <2> QED
    BY <2>1, RoomKept
<1>9. ASSUME NEW c \in Caller, RequestFails(c) PROVE Room'
  <2>1. Existing' \subseteq Existing /\ Creating' \subseteq Creating
    BY <1>9 DEF RequestFails, Leave, Faulty, Inv, TypeOK, Memory, Existing, Creating, Exists
  <2> QED
    BY <2>1, RoomKept
<1>10. ASSUME NEW d \in Doc, Upload(d) PROVE Room'
  <2>1. Existing' \subseteq Existing /\ Creating' \subseteq Creating
    BY <1>10 DEF Upload, Inv, TypeOK, Memory, Existing, Creating, Exists
  <2> QED
    BY <2>1, RoomKept
<1>11. ASSUME NEW r \in Run, NEW d \in Doc, Begin(r, d) PROVE Room'
  <2>1. Existing' \subseteq Existing /\ Creating' \subseteq Creating
    BY <1>11 DEF Begin, Open, Missing, Inv, TypeOK, Memory, Existing, Creating, Exists
  <2> QED
    BY <2>1, RoomKept
<1>12. ASSUME NEW r \in Worker, Claim(r) PROVE Room'
  <2>1. Existing' \subseteq Existing /\ Creating' \subseteq Creating
    BY <1>12, Working, Ending DEF GoesOn, Ends, Touches, Existing, Creating, Exists, Inv, TypeOK
  <2> QED
    BY <2>1, RoomKept
<1>13. ASSUME NEW r \in Worker, Parse(r) PROVE Room'
  <2>1. Existing' \subseteq Existing /\ Creating' \subseteq Creating
    BY <1>13, Working, Ending DEF GoesOn, Ends, Touches, Existing, Creating, Exists, Inv, TypeOK
  <2> QED
    BY <2>1, RoomKept
<1>14. ASSUME NEW r \in Worker, Chunk(r) PROVE Room'
  <2>1. Existing' \subseteq Existing /\ Creating' \subseteq Creating
    BY <1>14, Working, Ending DEF GoesOn, Ends, Touches, Existing, Creating, Exists, Inv, TypeOK
  <2> QED
    BY <2>1, RoomKept
<1>15. ASSUME NEW r \in Worker, Split(r) PROVE Room'
  <2>1. Existing' \subseteq Existing /\ Creating' \subseteq Creating
    BY <1>15, Working, Ending DEF GoesOn, Ends, Touches, Existing, Creating, Exists, Inv, TypeOK
  <2> QED
    BY <2>1, RoomKept
<1>16. ASSUME NEW r \in Worker, Clear(r) PROVE Room'
  <2>1. Existing' \subseteq Existing /\ Creating' \subseteq Creating
    BY <1>16, Working, Ending DEF GoesOn, Ends, Touches, Existing, Creating, Exists, Inv, TypeOK
  <2> QED
    BY <2>1, RoomKept
<1>17. ASSUME NEW r \in Worker, Add(r) PROVE Room'
  <2>1. Existing' \subseteq Existing /\ Creating' \subseteq Creating
    BY <1>17, Working, Ending DEF GoesOn, Ends, Touches, Existing, Creating, Exists, Inv, TypeOK
  <2> QED
    BY <2>1, RoomKept
<1>18. ASSUME NEW r \in Worker, Finish(r) PROVE Room'
  <2>1. Existing' \subseteq Existing /\ Creating' \subseteq Creating
    BY <1>18, Working, Ending DEF GoesOn, Ends, Touches, Existing, Creating, Exists, Inv, TypeOK
  <2> QED
    BY <2>1, RoomKept
<1>19. ASSUME NEW r \in Worker, Fail(r) PROVE Room'
  <2>1. Existing' \subseteq Existing /\ Creating' \subseteq Creating
    BY <1>19, Working, Ending DEF GoesOn, Ends, Touches, Existing, Creating, Exists, Inv, TypeOK
  <2> QED
    BY <2>1, RoomKept
<1>20. ASSUME NEW r \in Worker, StepFails(r) PROVE Room'
  <2>1. Existing' \subseteq Existing /\ Creating' \subseteq Creating
    BY <1>20, Working, Ending DEF GoesOn, Ends, Touches, Existing, Creating, Exists, Inv, TypeOK
  <2> QED
    BY <2>1, RoomKept
<1>21. ASSUME NEW r \in Worker, FailLost(r) PROVE Room'
  <2>1. Existing' \subseteq Existing /\ Creating' \subseteq Creating
    BY <1>21, Working, Ending DEF GoesOn, Ends, Touches, Existing, Creating, Exists, Inv, TypeOK
  <2> QED
    BY <2>1, RoomKept
<1>22. ASSUME NEW p \in Process, Crash(p) PROVE Room'
  <2>1. Existing' \subseteq Existing /\ Creating' \subseteq Creating
    BY <1>22 DEF Crash, Inv, TypeOK, Memory, Existing, Creating, Exists
  <2> QED
    BY <2>1, RoomKept
<1>23. ASSUME NEW p \in Process, ListResumable(p) PROVE Room'
  <2>1. Existing' \subseteq Existing /\ Creating' \subseteq Creating
    BY <1>23 DEF ListResumable, Resumable, Inv, TypeOK, Memory, Existing, Creating, Exists
  <2> QED
    BY <2>1, RoomKept
<1>24. ASSUME NEW p \in Process, NEW d \in Doc, Resume(p, d) PROVE Room'
  <2>1. Existing' \subseteq Existing /\ Creating' \subseteq Creating
    BY <1>24 DEF Resume, Open, Missing, Inv, TypeOK, Memory, Existing, Creating, Exists
  <2> QED
    BY <2>1, RoomKept
<1>25. ASSUME NEW p \in Process, Booted(p) PROVE Room'
  <2>1. Existing' \subseteq Existing /\ Creating' \subseteq Creating
    BY <1>25 DEF Booted, Inv, TypeOK, Memory, Existing, Creating, Exists
  <2> QED
    BY <2>1, RoomKept
<1>26. ASSUME UNCHANGED vars PROVE Room'
  BY <1>26, RoomKept DEF vars, Inv, TypeOK, Memory, Existing, Creating, Exists
<1> QED
  BY <1>1, <1>2, <1>3, <1>4, <1>5, <1>6, <1>7, <1>8, <1>9, <1>10, <1>11,
     <1>12, <1>13, <1>14, <1>15, <1>16, <1>17, <1>18, <1>19, <1>20, <1>21,
     <1>22, <1>23, <1>24, <1>25, <1>26
     DEF Next, Serve, Ingest, Restart, Complete, Retry

\* A deleted document stays deleted.
LEMMA GoneStep ==
  ASSUME Inv, Next, NEW d \in Doc, status[d] = "gone"
  PROVE  status'[d] = "gone"
<1>1. ASSUME NEW r \in Worker, Ingest(r) \/ StepFails(r) \/ FailLost(r) PROVE status'[d] = "gone"
  BY <1>1, Working, Ending DEF Ingest, Touches
<1>2. CASE status' = status
  BY <1>2
<1>3. ASSUME NEW c \in Caller, NEW e \in Doc, Insert(c, e) \/ Mark(c) \/ DeleteRow(c) PROVE status'[d] = "gone"
  BY <1>3 DEF Insert, Mark, DeleteRow, Exists, Inv, TypeOK
<1> QED
  BY <1>1, <1>2, <1>3 DEF Next, Serve, Restart, table, Put, ReadPasted, RequestFails, Count, Complete, Retry, Reenter, DeleteObject, Upload, Begin, ListResumable, Booted, Resume, Crash

\* The inductive invariant of the documents.
THEOREM Invariant == Spec => []Inv
<1>1. Inv /\ [Next]_vars => Inv'
  BY ShelvesStep, TypeStep, MemoryStep, BareStep DEF Inv
<1> QED
  BY InitInv, <1>1, PTL DEF Spec

\* Every reachable state is of its type, for any number of documents, requests
\* and runs.
THEOREM TypeCorrect == Spec => []TypeOK
<1>1. Inv => TypeOK
  BY DEF Inv
<1> QED
  BY <1>1, Invariant, PTL

\* Whatever the limit and the number of requests at once, a tenant's documents
\* pass the limit by fewer than the requests.
THEOREM LimitKept == Spec => []LimitHolds
<1>1. Init => Room
  <2> SUFFICES ASSUME Init PROVE Room
    OBVIOUS
  <2>1. Existing = {} /\ Creating = {}
    BY DEF Init, Existing, Exists, Creating
  <2>2. Cardinality(Caller) \in Nat /\ Cardinality(Caller) # 0
    BY ConstantAssumption, FS_CardinalityType, FS_EmptySet
  <2> QED
    BY <2>1, <2>2, FS_EmptySet, ConstantAssumption DEF Room
<1>2. Inv /\ Room /\ [Next]_vars => Room'
  BY RoomStep
<1>3. Room => LimitHolds
  <2>1. IsFiniteSet(Existing) /\ IsFiniteSet(Creating)
    BY ConstantAssumption, FS_Subset DEF Existing, Creating
  <2>2. /\ Cardinality(Existing) \in Nat /\ Cardinality(Creating) \in Nat
        /\ Cardinality(Caller) \in Nat
    BY <2>1, ConstantAssumption, FS_CardinalityType
  <2> QED
    BY <2>2, ConstantAssumption DEF Room, LimitHolds
<1> QED
  BY <1>1, <1>2, <1>3, Invariant, PTL DEF Spec

\* A run that still has a deleted document in memory brings back neither the
\* document nor its chunks.
THEOREM DeletedForGood == Spec => GoneIsGone
<1>1. Inv /\ Inv' /\ [Next]_vars =>
        [ \A d \in Doc :
            status[d] = "gone" => status'[d] = "gone" /\ chunks'[d] = NoChunks(d) ]_vars
  <2> SUFFICES ASSUME Inv, Inv', Next, NEW d \in Doc, status[d] = "gone"
               PROVE  status'[d] = "gone" /\ chunks'[d] = NoChunks(d)
    OBVIOUS
  <2>1. status'[d] = "gone"
    BY GoneStep
  <2> QED
    BY <2>1 DEF Inv, Bare, NoChunks
<1> QED
  BY <1>1, Invariant, PTL DEF Spec, GoneIsGone

\* A searchable document has each chunk of its text once, however many runs
\* failed, were cut short or were doubled before the last, in however many
\* processes: if the last found no other run with it.
THEOREM ReadyIsExact == Spec => []ReadyExact
<1>1. Init => Single /\ Progress
  BY DEF Init, Single, Progress
<1>2. Inv /\ Single /\ [Next]_vars => Single'
  BY SingleStep
<1>3. Inv /\ Single /\ Progress /\ [Next]_vars => Progress'
  BY ProgressStep
<1>4. Progress => ReadyExact
  <2> SUFFICES ASSUME Progress, NEW d \in Doc \ together, status[d] = "ready"
               PROVE  /\ count[d] = Batches[d]
                      /\ chunks[d] = [ b \in 1 .. Batches[d] |-> 1 ]
    BY DEF ReadyExact
  <2>1. count[d] = Batches[d] /\ chunks[d] = Stored(d, Batches[d] + 1)
    BY DEF Progress
  <2>2. Stored(d, Batches[d] + 1) = [ b \in 1 .. Batches[d] |-> 1 ]
    BY DEF Stored
  <2> QED
    BY <2>1, <2>2
<1> QED
  BY <1>1, <1>2, <1>3, <1>4, Invariant, PTL DEF Spec

================================================================================

