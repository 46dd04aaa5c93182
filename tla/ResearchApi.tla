----------------------------- MODULE ResearchApi -----------------------------
(***************************************************************************)
(* The background runs of the API process and what its clients can see of  *)
(* them: ResearchRunApplicationService (app/services/research_api.py) over *)
(* the run table (app/repositories/sqlalchemy.py), with the lifespan of    *)
(* app/api/main.py.                                                        *)
(*                                                                         *)
(* One process, one event loop: between two awaits nothing else runs in    *)
(* it, so an action is the code between two awaits, unless the process may *)
(* be killed in the middle with a transaction already committed.  "busy"   *)
(* is the run whose code, of its task or of a poll, holds the event loop   *)
(* in such a stretch.  Where a view is set before its row is stored, one   *)
(* action does both: being killed in between leaves what a store that      *)
(* fails leaves.  The workflow is any that keeps the promises of           *)
(* RunLifecycle.                                                           *)
(***************************************************************************)
EXTENDS Integers, FiniteSets

CONSTANTS
    Runs,         \* run ids a client may be given
    CacheLimit,   \* _MAX_CACHED_RUN_STATES
    MaxRestarts,  \* bound: times the process starts again
    None

VARIABLES
    process,   \* "up", "stopping" (shutdown awaits its tasks) or "down"
    restarts,
    busy,      \* the run holding the event loop
    outcome,   \* the status busy has stored and not yet shown, or None
    task,      \* the asyncio task of each run
    states,    \* _states: the cached view of a run, NotCached when there is none
    older,     \* insertion order of _states: <<r, q>> when r was inserted before q
    row,       \* research_runs.status, None without a row
    companies, \* runs with company rows
    shown      \* history: the latest terminal status get_run would show, or None

memory  == <<busy, outcome, task, states, older>>
disk    == <<row, companies>>
vars    == <<process, restarts, memory, disk, shown>>

Terminal  == {"completed", "failed", "cancelled"}
Statuses  == Terminal \cup {"running"}
LiveTasks == {"scheduled", "working", "returning", "cancelling"}
Tasks     == LiveTasks \cup {"none", "done"}

ASSUME ApiAssumption ==
    /\ IsFiniteSet(Runs)
    /\ None \notin Runs \cup Statuses
    /\ CacheLimit \in Nat /\ MaxRestarts \in Nat

\* A _RunState: the status of its run, and whether state.result is set.
View(status, result) == [status |-> status, result |-> result]
Views     == [status : Statuses, result : BOOLEAN]
NotCached == View("none", FALSE)

Cached         == {r \in Runs : states[r] # NotCached}
\* Mutant: every cached state counts as terminal.
CachedAny == Cached

CachedTerminal == {r \in Cached : states[r].status \in Terminal}

TypeOK ==
    /\ process \in {"up", "stopping", "down"}
    /\ restarts \in 0..MaxRestarts
    /\ busy \in Runs \cup {None}
    /\ outcome \in {None, "completed", "failed"}
    /\ task \in [Runs -> Tasks]
    /\ states \in [Runs -> Views \cup {NotCached}]
    /\ older \subseteq Runs \X Runs
    /\ row \in [Runs -> Statuses \cup {None}]
    /\ companies \subseteq Runs
    /\ shown \in [Runs -> Terminal \cup {None}]

Init ==
    /\ process = "up" /\ restarts = 0 /\ busy = None /\ outcome = None
    /\ task = [r \in Runs |-> "none"]
    /\ states = [r \in Runs |-> NotCached]
    /\ older = {}
    /\ row = [r \in Runs |-> None]
    /\ companies = {}
    /\ shown = [r \in Runs |-> None]

-----------------------------------------------------------------------------
\* Dictionary order: a new key goes last.
Inserted(order, kept, r) == {pair \in order : pair \in kept \X kept} \cup (kept \X {r})

\* Mutant: no room is made for the state about to be cached.
OverflowWithoutRoom == Cardinality(Cached) - CacheLimit

\* _prune_terminal_states: the oldest terminal states, as many as overflow.
Overflow == Cardinality(Cached) - CacheLimit + 1

Pruned ==
    {r \in CachedTerminal :
        Cardinality({q \in CachedTerminal : <<q, r>> \in older}) < Overflow}

\* update() is an upsert whose failure is only logged or made a warning.
StoreBestEffort(r, status) == row' \in {row, [row EXCEPT ![r] = status]}

Settle(r, view) ==
    /\ states' = [states EXCEPT ![r] = view]
    /\ shown' = [shown EXCEPT ![r] = view.status]

Idle == busy = None

\* submit: prune, cache the new state, schedule its task.
Submit(r) ==
    /\ process = "up" /\ Idle
    /\ task[r] = "none"
    /\ states' = [q \in Runs |->
         IF q = r THEN View("running", FALSE)
         ELSE IF q \in Pruned THEN NotCached ELSE states[q]]
    /\ older' = Inserted(older, Cached \ Pruned, r)
    /\ task' = [task EXCEPT ![r] = "scheduled"]
    /\ UNCHANGED <<process, restarts, busy, outcome, disk, shown>>

\* _execute calls the workflow, which inserts the row before its first await.
Start(r) ==
    /\ process = "up" /\ Idle
    /\ task[r] = "scheduled"
    /\ task' = [task EXCEPT ![r] = "working"]
    /\ row' = [row EXCEPT ![r] = "running"]
    /\ UNCHANGED <<process, restarts, busy, outcome, states, older, companies, shown>>

\* The workflow knows how it ends.  It has stored the row, or tried to, and is to
\* return the result.
Decide(r, status) ==
    /\ busy' = r
    /\ outcome' = status
    /\ task' = [task EXCEPT ![r] = "returning"]
    /\ UNCHANGED <<process, restarts, states, older, companies, shown>>

\* The INSERT or the query plan raises.
StartFails(r) ==
    /\ process = "up" /\ Idle
    /\ task[r] = "scheduled"
    /\ \E status \in {None, "running", "failed"} : row' = [row EXCEPT ![r] = status]
    /\ Decide(r, "failed")

\* The last await of the workflow is over: it saves companies and finishes.
BeginSaving(r) ==
    /\ process = "up" /\ Idle
    /\ task[r] = "working"
    /\ busy' = r
    /\ UNCHANGED <<process, restarts, outcome, task, states, older, disk, shown>>

SaveCompanies(r) ==
    /\ busy = r /\ task[r] = "working"
    /\ companies' = companies \cup {r}
    /\ UNCHANGED <<process, restarts, memory, row, shown>>

\* The final UPDATE of the row.
StoreCompleted(r) ==
    /\ busy = r /\ task[r] = "working"
    /\ StoreBestEffort(r, "completed")
    /\ Decide(r, "completed")

\* An exception at any await ends the workflow; its handler stores the row.
StoreFailed(r) ==
    /\ process = "up" /\ Idle
    /\ task[r] = "working"
    /\ StoreBestEffort(r, "failed")
    /\ Decide(r, "failed")

\* Mutant: the event loop is not released.
FinishBlocking(r) ==
    /\ busy = r /\ task[r] = "returning"
    /\ task' = [task EXCEPT ![r] = "done"]
    /\ Settle(r, View(outcome, TRUE))
    /\ UNCHANGED <<process, restarts, busy, outcome, older, disk>>

\* Mutant: a workflow that returned a result is taken to have completed.
FinishAsCompleted(r) ==
    /\ busy = r /\ task[r] = "returning"
    /\ busy' = None /\ outcome' = None
    /\ task' = [task EXCEPT ![r] = "done"]
    /\ Settle(r, View("completed", TRUE))
    /\ UNCHANGED <<process, restarts, older, disk>>

\* The workflow has returned: only now does a poll see what the row says.
Finish(r) ==
    /\ busy = r /\ task[r] = "returning"
    /\ busy' = None /\ outcome' = None
    /\ task' = [task EXCEPT ![r] = "done"]
    /\ Settle(r, View(outcome, TRUE))
    /\ UNCHANGED <<process, restarts, older, disk>>

\* The workflow raises: there is no result, and the view is set before the row.
WorkflowRaises(r) ==
    /\ process = "up" /\ Idle
    /\ task[r] = "working"
    /\ task' = [task EXCEPT ![r] = "done"]
    /\ StoreBestEffort(r, "failed")
    /\ Settle(r, View("failed", FALSE))
    /\ UNCHANGED <<process, restarts, busy, outcome, older, companies>>

\* Mutant: every reloaded run is taken for an orphan.
MarkAnyOrphan(r) ==
    /\ process = "up" /\ Idle
    /\ states[r] = NotCached /\ row[r] # None
    /\ StoreBestEffort(r, "failed")
    /\ busy' = r /\ outcome' = "failed"
    /\ UNCHANGED <<process, restarts, task, states, older, companies, shown>>

\* _get_state for a run that is not cached: an unfinished row is taken for an
\* orphan of an earlier process, and marked failed before it is cached.
MarkOrphan(r) ==
    /\ process = "up" /\ Idle
    /\ states[r] = NotCached /\ row[r] = "running"
    /\ StoreBestEffort(r, "failed")
    /\ busy' = r /\ outcome' = "failed"
    /\ UNCHANGED <<process, restarts, task, states, older, companies, shown>>

\* The view of a run that was not cached; nothing is pruned.
CacheView(r, status) ==
    /\ Settle(r, View(status, FALSE))
    /\ older' = Inserted(older, Cached, r)
    /\ busy' = None /\ outcome' = None
    /\ UNCHANGED <<process, restarts, task, disk>>

ShowOrphan(r) ==
    /\ busy = r /\ states[r] = NotCached
    /\ CacheView(r, outcome)

Reload(r) ==
    /\ process = "up" /\ Idle
    /\ states[r] = NotCached /\ row[r] \in Terminal
    /\ CacheView(r, row[r])

-----------------------------------------------------------------------------
\* shutdown cancels every task; one that has not started never runs.
Shutdown ==
    /\ process = "up" /\ Idle
    /\ process' = "stopping"
    /\ task' = [r \in Runs |->
         CASE task[r] = "working" -> "cancelling"
           [] task[r] = "scheduled" -> "done"
           [] OTHER -> task[r]]
    /\ UNCHANGED <<restarts, busy, outcome, states, older, disk, shown>>

\* CancelledError reaches _execute.
CancelRun(r) ==
    /\ task[r] = "cancelling"
    /\ task' = [task EXCEPT ![r] = "done"]
    /\ StoreBestEffort(r, "cancelled")
    /\ Settle(r, View("cancelled", FALSE))
    /\ UNCHANGED <<process, restarts, busy, outcome, older, companies>>

\* The process ends: memory is gone, rows stay, running tasks never resume.
Exit ==
    /\ process' = "down"
    /\ busy' = None /\ outcome' = None
    /\ task' = [r \in Runs |-> IF task[r] \in LiveTasks THEN "done" ELSE task[r]]
    /\ states' = [r \in Runs |-> NotCached]
    /\ older' = {}
    /\ UNCHANGED <<restarts, disk, shown>>

Stop  == process = "stopping" /\ (\A r \in Runs : task[r] # "cancelling") /\ Exit
Crash == process # "down" /\ Exit

Restart ==
    /\ process = "down" /\ restarts < MaxRestarts
    /\ process' = "up"
    /\ restarts' = restarts + 1
    /\ UNCHANGED <<memory, disk, shown>>

RunStep(r) ==
    \/ Start(r) \/ StartFails(r)
    \/ BeginSaving(r) \/ SaveCompanies(r) \/ StoreCompleted(r) \/ StoreFailed(r)
    \/ Finish(r) \/ WorkflowRaises(r) \/ CancelRun(r)

Poll(r) == MarkOrphan(r) \/ ShowOrphan(r) \/ Reload(r)

Next ==
    \/ \E r \in Runs : Submit(r) \/ Poll(r) \/ RunStep(r)
    \/ Shutdown \/ Stop \/ Crash \/ Restart

\* The event loop resumes every task, each await of a workflow ends, and code
\* that runs goes on; a process that stops does stop.  Clients and operators may
\* do nothing.
Fairness ==
    /\ \A r \in Runs : WF_vars(Start(r) \/ StartFails(r))
    /\ \A r \in Runs : WF_vars(BeginSaving(r) \/ StoreFailed(r) \/ WorkflowRaises(r))
    /\ \A r \in Runs : WF_vars(StoreCompleted(r)) /\ WF_vars(Finish(r))
    /\ \A r \in Runs : WF_vars(ShowOrphan(r)) /\ WF_vars(CancelRun(r))
    /\ WF_vars(Stop)

Spec == Init /\ [][Next]_vars /\ Fairness
-----------------------------------------------------------------------------
\* A run that is still executing is in the cache, as running: a poll never
\* reads its row, which _get_state would take for an orphan and mark failed.
LiveRunIsCached ==
    \A r \in Runs : task[r] \in LiveTasks => states[r].status = "running"

\* No client polls forever: while the process serves requests, a run shown as
\* running has a task that will end it.
RunningViewHasTask ==
    process = "up" =>
        \A r \in Runs : states[r].status = "running" =>
            task[r] \in {"scheduled", "working", "returning"}

\* What a poll answers and what the database says agree about how a run ended,
\* whenever the event loop is free to answer one.  Across crashes and failed
\* stores a row may contradict what was once shown in one way only: as the
\* failure of an orphan, never by a success or a cancellation.
RowsAgreeWithClients ==
    \A r \in Runs : row[r] \in Terminal =>
        /\ Idle /\ states[r] # NotCached => states[r].status = row[r]
        /\ shown[r] \notin {None, row[r]} => row[r] = "failed"

\* A terminal row is final: no reload, cancellation, late result or restart
\* overwrites it.
TerminalRowIsFinal ==
    [][\A r \in Runs : row[r] \in Terminal => row'[r] = row[r]]_vars

\* A submission leaves at most the limit in the cache, or no terminal state at
\* all (running states are never evicted), and evicts nothing without need.
SubmissionBoundsCache ==
    [][(\E r \in Runs : task[r] = "none" /\ task'[r] = "scheduled") =>
         /\ Cardinality(Cached') > CacheLimit => CachedTerminal' = {}
         /\ Cardinality(Cached') < CacheLimit => Cached \subseteq Cached'
         /\ \A r \in Cached : states[r].status = "running" => r \in Cached']_vars

\* Every submitted run ends: its task does, or its process.
SubmittedRunEnds == \A r \in Runs : task[r] \in LiveTasks ~> task[r] = "done"

\* "The API restarted before this research run reached a terminal state", the
\* error of _get_state, is said only of runs that had not: a terminal status
\* once shown stays.
ShownStatusIsFinal ==
    [][\A r \in Runs : shown[r] # None => shown'[r] = shown[r]]_vars

\* A terminal row is a status that was shown.  The code violates this when it is
\* killed after the final UPDATE, or after an orphan is marked failed, and before
\* the view is set: the run is over and no client has been told.
TerminalRowWasShown ==
    \A r \in Runs : Idle /\ row[r] \in Terminal => shown[r] = row[r]

\* _prune_terminal_states: "Bound process memory when durable repositories can
\* reload old runs": terminal states never exceed the limit.
CacheIsBounded == Cardinality(CachedTerminal) <= CacheLimit

\* The 409 of the export route is documented as "The run has not reached a
\* terminal state": a completed run can be exported.
CompletedRunCanBeExported ==
    \A r \in Runs : states[r].status = "completed" => states[r].result
=============================================================================
