----------------------------- MODULE MCIngestion -----------------------------
(* Instances of Ingestion for the model checker. *)
EXTENDS Ingestion

CONSTANTS c1, c2, r1, r2, p1, p2

\* Two processes, each with a request handler and a background task.
MCHost == [ s \in Caller \cup Run |-> IF s \in { c1, r1 } THEN p1 ELSE p2 ]

\* A document without text, one of two batches, and one of one.
MCBatches == [ d \in Doc |-> CASE d = 1 -> 0 [] d = 2 -> 2 [] OTHER -> 1 ]

==============================================================================
