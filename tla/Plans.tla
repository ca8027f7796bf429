-------------------------------- MODULE Plans --------------------------------
(***************************************************************************)
(* The plan of a workspace: its subscription, the ceilings that the plan   *)
(* writes onto the tenant's row, and the assistants that are counted       *)
(* against it.                                                             *)
(*                                                                         *)
(* A request reads the subscription and the tenant in one statement each,  *)
(* and commits what it decided on them; another may commit in between.  An *)
(* update holds its rows until its commit, so that updates of one row take *)
(* effect in the order of the commits.                                     *)
(*                                                                         *)
(* Whether a second read in a session finds the row as it is or as it was  *)
(* read first is the session's choice (its identity map is weak).          *)
(*                                                                         *)
(* Left out: prices, the other counters of the overview, and API scopes.   *)
(***************************************************************************)
EXTENDS Integers, Sequences

CONSTANTS
  Request,  \* the requests that may be served at once
  None,
  Paid,     \* the tiers that are paid for
  Ceiling,  \* max_assistants of the free tier; the paid ones have none
  Budget    \* bound: the requests other than those that only read

Free == "free"
Tier == Paid \cup { Free }

ASSUME PlanAssumption ==
  /\ Free \notin Paid /\ None \notin Tier
  /\ Ceiling \in Nat /\ Budget \in Nat

VARIABLES
  sub,        \* the row of subscriptions, None for a workspace without one
  ended,      \* the paid periods that are over
  limits,     \* the plan whose ceilings the tenant's row has; None: those of a new one
  assistants,
  lines,      \* billing_transactions
  pc, want,   \* what a request is about
  read, base, \* the subscription as it was read first, and again for the upsert
  plan,       \* the live plan by that subscription
  correct,    \* whether its ceilings are to be written
  asked

requests == << pc, want, read, base, plan, correct >>
vars == << sub, ended, limits, assistants, lines, requests, asked >>

Period == 0 .. Budget   \* 0 is no end
Subscription == [ tier : Tier, canceled : BOOLEAN, period : Period ]

Init ==
  /\ sub = None /\ ended = {} /\ limits = None
  /\ assistants = 0 /\ lines = << >>
  /\ pc = [ w \in Request |-> "idle" ] /\ want = [ w \in Request |-> Free ]
  /\ read = [ w \in Request |-> None ] /\ base = [ w \in Request |-> None ]
  /\ plan = [ w \in Request |-> Free ]
  /\ correct = [ w \in Request |-> FALSE ]
  /\ asked = 0

-----------------------------------------------------------------------------

Current(s) == s = None \/ s.period \notin ended

\* load_subscription and its plan: a lapsed one is free, as is one that is not there.
Live(s) == IF s # None /\ Current(s) THEN s.tier ELSE Free

\* What a request may find that reads the subscription again.
Again(w) == IF read[w] = None THEN { sub } ELSE { sub, read[w] }

\* Over before its writes, or with them; what it read no longer matters.
Done(w) ==
  /\ pc' = [ pc EXCEPT ![w] = "idle" ]
  /\ want' = [ want EXCEPT ![w] = Free ]
  /\ read' = [ read EXCEPT ![w] = None ] /\ base' = [ base EXCEPT ![w] = None ]
  /\ plan' = [ plan EXCEPT ![w] = Free ]
  /\ correct' = [ correct EXCEPT ![w] = FALSE ]

\* The first statement of every request reads the subscription.
Arrive(w, next, tier) ==
  /\ pc[w] = "idle"
  /\ pc' = [ pc EXCEPT ![w] = next ]
  /\ want' = [ want EXCEPT ![w] = tier ]
  /\ read' = [ read EXCEPT ![w] = sub ]
  /\ plan' = [ plan EXCEPT ![w] = Live(sub) ]
  /\ UNCHANGED << sub, ended, limits, assistants, lines, base, correct >>

\* Those other than an overview are bounded.
Asks == asked < Budget /\ asked' = asked + 1

Overview(w) == Arrive(w, "consulting", Free) /\ UNCHANGED asked

CreateAssistant(w) == Arrive(w, "creating", Free) /\ Asks

\* A change to the plan the workspace is on is refused.
ChangePlan(w, tier) ==
  /\ ~(sub # None /\ sub.tier = tier /\ Current(sub))
  /\ sub = None => tier # Free
  /\ Arrive(w, "changing", tier) /\ Asks

\* There is nothing to cancel on the free tier.
Cancel(w) ==
  /\ sub # None /\ sub.tier # Free
  /\ Arrive(w, "canceling", Free) /\ Asks

\* reconcile_tenant_limits: the tenant is read, and compared with the plan.
Reconcile(w) ==
  /\ pc[w] \in { "consulting", "creating" }
  /\ correct' = [ correct EXCEPT ![w] = limits # plan[w] ]
  /\ pc' = [ pc EXCEPT ![w] = IF @ = "consulting" THEN "consulted" ELSE "counting" ]
  /\ UNCHANGED << sub, ended, limits, assistants, lines, want, read, base, plan, asked >>

Corrected(w) == limits' = IF correct[w] THEN plan[w] ELSE limits

\* Fault: the overview does not commit what it corrects.
CommitOverviewUnwritten(w) ==
  /\ pc[w] = "consulted"
  /\ Done(w)
  /\ UNCHANGED << sub, ended, limits, assistants, lines, asked >>

\* GetBillingOverview commits what reconciling corrects.
CommitOverview(w) ==
  /\ pc[w] = "consulted"
  /\ Corrected(w)
  /\ Done(w)
  /\ UNCHANGED << sub, ended, assistants, lines, asked >>

\* ensure_can_create_assistant: without room the request is refused, and what it
\* would have corrected is rolled back.
Count(w) ==
  /\ pc[w] = "counting"
  /\ \E s \in Again(w) :
       IF Live(s) = Free /\ assistants >= Ceiling
         THEN Done(w)
         ELSE pc' = [ pc EXCEPT ![w] = "adding" ] /\ UNCHANGED << want, read, base, plan, correct >>
  /\ UNCHANGED << sub, ended, limits, assistants, lines, asked >>

CommitAssistant(w) ==
  /\ pc[w] = "adding"
  /\ assistants' = assistants + 1
  /\ Corrected(w)
  /\ Done(w)
  /\ UNCHANGED << sub, ended, lines, asked >>

\* upsert selects the row again.
Reselect(w) ==
  /\ pc[w] \in { "changing", "canceling" }
  /\ \E s \in Again(w) : base' = [ base EXCEPT ![w] = s ]
  /\ pc' = [ pc EXCEPT ![w] = IF @ = "changing" THEN "buying" ELSE "stopping" ]
  /\ UNCHANGED << sub, ended, limits, assistants, lines, want, read, plan, correct, asked >>

\* The columns are written that differ from what was read last.
Upserted(w, mine) ==
  sub' = IF base[w] = None THEN mine
         ELSE [ f \in DOMAIN mine |-> IF mine[f] # base[w][f] THEN mine[f] ELSE sub[f] ]

\* A new row is refused where there is one by now.
CommitPlan(w) ==
  /\ pc[w] = "buying"
  /\ \/ /\ base[w] = None => sub = None
        /\ Upserted(w, [ tier |-> want[w], canceled |-> FALSE,
                         period |-> IF want[w] = Free THEN 0 ELSE Len(lines) + 1 ])
        /\ limits' = want[w]
        /\ lines' = Append(lines, want[w])
     \/ /\ base[w] = None /\ sub # None
        /\ UNCHANGED << sub, limits, lines >>
  /\ Done(w)
  /\ UNCHANGED << ended, assistants, asked >>

CommitCancel(w) ==
  /\ pc[w] = "stopping"
  /\ Upserted(w, [ read[w] EXCEPT !.canceled = TRUE ])
  /\ lines' = Append(lines, read[w].tier)
  /\ Done(w)
  /\ UNCHANGED << ended, limits, assistants, asked >>

\* A period ends; no endpoint is called.
Lapse ==
  /\ sub # None /\ sub.period # 0 /\ Current(sub)
  /\ ended' = ended \cup { sub.period }
  /\ UNCHANGED << sub, limits, assistants, lines, requests, asked >>

Serve(w) ==
  \/ Reconcile(w) \/ CommitOverview(w) \/ Count(w) \/ CommitAssistant(w)
  \/ Reselect(w) \/ CommitPlan(w) \/ CommitCancel(w)

Next ==
  \/ Lapse
  \/ \E w \in Request :
       \/ Serve(w) \/ Overview(w) \/ CreateAssistant(w) \/ Cancel(w)
       \/ \E tier \in Tier : ChangePlan(w, tier)

\* A request that was taken is served.
Fairness == \A w \in Request : WF_vars(Serve(w))

Spec == Init /\ [][Next]_vars /\ Fairness

-----------------------------------------------------------------------------

\* "The limits converge whenever entitlements are consulted" (billing.py): however
\* consults, purchases and lapses overlapped, if the workspace goes on consulting
\* then its ceilings come to be, and stay, those of its live plan.
Converges ==
  []<>(\E w \in Request : pc[w] = "consulting") => <>[](limits = Live(sub))

=============================================================================
