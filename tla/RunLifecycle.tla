---------------------------- MODULE RunLifecycle ----------------------------
(***************************************************************************)
(* What one call of ResearchOrchestrator.run promises its caller about the *)
(* run's outcome and about the rows it leaves, whatever its providers do.  *)
(* The API service relies on this much and no more (the ResearchWorkflow   *)
(* protocol of app/services/research_api.py).                              *)
(***************************************************************************)
EXTENDS Naturals

CONSTANT None

VARIABLES
    outcome,   \* "pending", "working", or how the call ended
    row,       \* research_runs.status, None without a row
    published  \* whether company rows exist for the run

vars == <<outcome, row, published>>

Ended == {"completed", "failed", "cancelled"}

Init == outcome = "pending" /\ row = None /\ published = FALSE

Start ==
    /\ outcome = "pending"
    /\ outcome' = "working"
    /\ row' = "running"
    /\ published' = published

\* A run that could not start may have left no row at all.
StartFails ==
    /\ outcome = "pending"
    /\ outcome' = "failed"
    /\ row' \in {None, "running", "failed"}
    /\ published' = published

Publish ==
    /\ outcome = "working"
    /\ published' = TRUE
    /\ UNCHANGED <<outcome, row>>

Complete ==
    /\ outcome = "working"
    /\ outcome' = "completed"
    /\ row' \in {"running", "completed"}
    /\ published' = published

\* A failing run has published nothing.
Fail ==
    /\ outcome = "working" /\ ~published
    /\ outcome' = "failed"
    /\ row' \in {"running", "failed"}
    /\ published' = published

\* A cancelled run leaves its row to its caller.
Cancel ==
    /\ outcome = "working"
    /\ outcome' = "cancelled"
    /\ UNCHANGED <<row, published>>

Next == Start \/ StartFails \/ Publish \/ Complete \/ Fail \/ Cancel

Safety == Init /\ [][Next]_vars

\* The call ends; publishing and cancellation need not happen.
Spec == Safety /\ WF_outcome(Next)
=============================================================================
