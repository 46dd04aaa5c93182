-------------------------- MODULE ResearchApiProofs --------------------------
(***************************************************************************)
(* Theorems of ResearchApi for any set of runs, any cache limit and any    *)
(* number of restarts.                                                     *)
(***************************************************************************)
EXTENDS ResearchApi, FiniteSetTheorems, TLAPS

\* Where a run stands decides what its row and its view may be.
RunStages ==
    \A r \in Runs :
        /\ task[r] = "none" => row[r] = None /\ states[r] = NotCached
        /\ task[r] = "scheduled" => row[r] = None
        /\ task[r] \in {"working", "cancelling"} => row[r] = "running"
        /\ task[r] = "returning" =>
             busy = r /\ outcome # None /\ row[r] \in {None, "running", outcome}
        /\ task[r] \in LiveTasks \cup {"none"} => shown[r] = None

\* What the phase of the process says of its memory.
ProcessStages ==
    /\ busy # None => process = "up" /\ task[busy] \in {"working", "returning", "done"}
    /\ busy # None /\ task[busy] = "done" =>
         states[busy] = NotCached /\ outcome = "failed" /\ row[busy] \in {"running", "failed"}
    /\ \A r \in Runs : task[r] = "cancelling" => process = "stopping"
    /\ \A r \in Runs : task[r] \in {"scheduled", "working", "returning"} => process = "up"
    /\ process = "down" => \A r \in Runs : states[r] = NotCached

\* Every run but the one whose code is running agrees with its row.
RowsAgree ==
    \A r \in Runs : row[r] \in Terminal =>
        /\ busy # r /\ states[r] # NotCached => states[r].status = row[r]
        /\ shown[r] \notin {None, row[r]} => row[r] = "failed"

IInv ==
    /\ TypeOK
    /\ RunStages
    /\ ProcessStages
    /\ LiveRunIsCached
    /\ RunningViewHasTask
    /\ RowsAgree

-----------------------------------------------------------------------------
USE DEF Terminal, Statuses, LiveTasks, Tasks, View, Views, NotCached
USE ApiAssumption

\* The initial state satisfies the inductive invariant.
LEMMA InitIInv == Init => IInv
  BY DEF Init, IInv, TypeOK, RunStages, ProcessStages, LiveRunIsCached,
         RunningViewHasTask, RowsAgree

\* Pruning touches terminal states of known runs only.
LEMMA PrunedAreTerminal ==
    \A r \in Pruned : r \in Runs /\ states[r].status \in Terminal
  BY DEF Pruned, CachedTerminal, Cached

\* Every step preserves the inductive invariant.
LEMMA NextIInv == IInv /\ [Next]_vars => IInv'
<1> SUFFICES ASSUME IInv, [Next]_vars PROVE IInv'
  OBVIOUS
<1> USE DEF IInv, TypeOK, RunStages, ProcessStages, LiveRunIsCached,
            RunningViewHasTask, RowsAgree
<1>1. ASSUME NEW r \in Runs, Submit(r) PROVE IInv'
  <2>1. TypeOK'
    BY <1>1, PrunedAreTerminal DEF Submit, Idle, disk, Inserted, Cached
  <2>2. RunStages'
    <3>1. /\ busy = None /\ UNCHANGED <<row, shown>> /\ task[r] = "none"
          /\ task' = [task EXCEPT ![r] = "scheduled"]
          /\ \A q \in Runs \ {r} : states[q] = NotCached => states'[q] = NotCached
      BY <1>1 DEF Submit, Idle, disk
    <3> QED
      BY <3>1
  <2>3. ProcessStages'
    BY <1>1, PrunedAreTerminal DEF Submit, Idle, disk, Inserted, Cached
  <2>4. LiveRunIsCached'
    BY <1>1, PrunedAreTerminal DEF Submit, Idle, disk, Inserted, Cached
  <2>5. RunningViewHasTask'
    BY <1>1, PrunedAreTerminal DEF Submit, Idle, disk, Inserted, Cached
  <2>6. RowsAgree'
    BY <1>1, PrunedAreTerminal DEF Submit, Idle, disk, Inserted, Cached
  <2> QED
    BY <2>1, <2>2, <2>3, <2>4, <2>5, <2>6
<1>2. ASSUME NEW r \in Runs, MarkOrphan(r) PROVE IInv'
  <2>1. /\ row' \in [Runs -> Statuses \cup {None}]
        /\ row'[r] \in {"running", "failed"}
        /\ \A q \in Runs \ {r} : row'[q] = row[q]
    BY <1>2 DEF MarkOrphan, StoreBestEffort
  <2>2. /\ process = "up" /\ busy = None /\ states[r] = NotCached /\ task[r] = "done"
        /\ busy' = r /\ outcome' = "failed"
        /\ UNCHANGED <<process, restarts, task, states, older, companies, shown>>
    BY <1>2 DEF MarkOrphan, Idle
  <2>3. TypeOK' /\ LiveRunIsCached' /\ RunningViewHasTask'
    BY <2>1, <2>2
  <2>4. RunStages' /\ ProcessStages'
    BY <2>1, <2>2
  <2>5. RowsAgree'
    BY <2>1, <2>2
  <2> QED
    BY <2>3, <2>4, <2>5
<1>3. ASSUME NEW r \in Runs, NEW status \in Terminal, CacheView(r, status),
             process = "up", states[r] = NotCached, task[r] = "done",
             busy \in {None, r}, row[r] \in Terminal => row[r] = status
      PROVE  IInv'
  <2>1. /\ states' = [states EXCEPT ![r] = [status |-> status, result |-> FALSE]]
        /\ shown' = [shown EXCEPT ![r] = status]
        /\ busy' = None /\ outcome' = None
        /\ UNCHANGED <<process, restarts, task, row, companies>>
    BY <1>3 DEF CacheView, Settle, disk
  <2>2. older' \subseteq Runs \X Runs
    BY <1>3 DEF CacheView, Inserted, Cached
  <2>3. TypeOK'
    BY <2>1, <2>2, <1>3
  <2>4. RunStages'
    <3>1. \A q \in Runs : task[q] # "returning"
      BY <1>3
    <3>2. /\ UNCHANGED <<task, row>> /\ task[r] = "done"
          /\ \A q \in Runs \ {r} : states'[q] = states[q] /\ shown'[q] = shown[q]
      BY <2>1, <1>3
    <3>3. RunStages
      OBVIOUS
    <3> QED
      BY ONLY <3>1, <3>2, <3>3 DEF RunStages, LiveTasks, NotCached, View
  <2>5. ProcessStages'
    BY <2>1, <1>3
  <2>6. LiveRunIsCached' /\ RunningViewHasTask'
    BY <2>1, <1>3
  <2>7. RowsAgree'
    BY <2>1, <1>3
  <2> QED
    BY <2>3, <2>4, <2>5, <2>6, <2>7
<1>4. ASSUME NEW r \in Runs, ShowOrphan(r) PROVE IInv'
  <2>1. /\ CacheView(r, "failed") /\ process = "up" /\ busy = r
        /\ states[r] = NotCached /\ task[r] = "done"
        /\ row[r] \in Terminal => row[r] = "failed"
    BY <1>4 DEF ShowOrphan
  <2> QED
    BY <2>1, <1>3
<1>5. ASSUME NEW r \in Runs, Reload(r) PROVE IInv'
  <2>1. /\ CacheView(r, row[r]) /\ process = "up" /\ busy = None
        /\ states[r] = NotCached /\ task[r] = "done" /\ row[r] \in Terminal
    BY <1>5 DEF Reload, Idle
  <2> QED
    BY <2>1, <1>3
<1>6. ASSUME NEW r \in Runs, Start(r) PROVE IInv'
  BY <1>6 DEF Start, Idle
<1>7. ASSUME NEW r \in Runs, NEW status \in {"completed", "failed"}, Decide(r, status),
             process = "up", busy \in {None, r}, task[r] \in {"scheduled", "working"},
             row' \in [Runs -> Statuses \cup {None}],
             row'[r] \in {None, "running", status},
             \A q \in Runs \ {r} : row'[q] = row[q]
      PROVE  IInv'
  <2>1. /\ busy' = r /\ outcome' = status
        /\ task' = [task EXCEPT ![r] = "returning"]
        /\ UNCHANGED <<process, restarts, states, older, companies, shown>>
    BY <1>7 DEF Decide
  <2>2. TypeOK'
    BY <2>1, <1>7
  <2>3. RunStages'
    BY <2>1, <1>7
  <2>4. ProcessStages'
    BY <2>1, <1>7
  <2>5. LiveRunIsCached' /\ RunningViewHasTask'
    BY <2>1, <1>7
  <2>6. RowsAgree'
    BY <2>1, <1>7
  <2> QED
    BY <2>2, <2>3, <2>4, <2>5, <2>6
<1>8. ASSUME NEW r \in Runs, StartFails(r) PROVE IInv'
  <2>1. /\ row' \in [Runs -> Statuses \cup {None}]
        /\ row'[r] \in {None, "running", "failed"}
        /\ \A q \in Runs \ {r} : row'[q] = row[q]
    BY <1>8 DEF StartFails
  <2> QED
    BY <2>1, <1>7, <1>8 DEF StartFails, Idle
<1>9. ASSUME NEW r \in Runs, BeginSaving(r) PROVE IInv'
  BY <1>9 DEF BeginSaving, Idle, disk
<1>10. ASSUME NEW r \in Runs, SaveCompanies(r) PROVE IInv'
  BY <1>10 DEF SaveCompanies, memory
<1>11. ASSUME NEW r \in Runs, StoreCompleted(r) PROVE IInv'
  <2>1. /\ row' \in [Runs -> Statuses \cup {None}]
        /\ row'[r] \in {"running", "completed"}
        /\ \A q \in Runs \ {r} : row'[q] = row[q]
    BY <1>11 DEF StoreCompleted, StoreBestEffort
  <2> QED
    BY <2>1, <1>7, <1>11 DEF StoreCompleted
<1>12. ASSUME NEW r \in Runs, StoreFailed(r) PROVE IInv'
  <2>1. /\ row' \in [Runs -> Statuses \cup {None}]
        /\ row'[r] \in {"running", "failed"}
        /\ \A q \in Runs \ {r} : row'[q] = row[q]
    BY <1>12 DEF StoreFailed, StoreBestEffort
  <2> QED
    BY <2>1, <1>7, <1>12 DEF StoreFailed, Idle
<1>13. ASSUME NEW r \in Runs, Finish(r) PROVE IInv'
  <2>1. /\ states' = [states EXCEPT ![r] = [status |-> outcome, result |-> TRUE]]
        /\ shown' = [shown EXCEPT ![r] = outcome]
        /\ task' = [task EXCEPT ![r] = "done"]
        /\ busy' = None /\ outcome' = None
        /\ UNCHANGED <<process, restarts, older, row, companies>>
    BY <1>13 DEF Finish, Settle, disk
  <2>2. /\ busy = r /\ task[r] = "returning" /\ process = "up"
        /\ outcome \in {"completed", "failed"} /\ row[r] \in {None, "running", outcome}
    BY <1>13 DEF Finish
  <2>3. TypeOK'
    BY <2>1, <2>2
  <2>4. RunStages'
    BY <2>1, <2>2
  <2>5. ProcessStages'
    BY <2>1, <2>2
  <2>6. LiveRunIsCached' /\ RunningViewHasTask'
    BY <2>1, <2>2
  <2>7. RowsAgree'
    BY <2>1, <2>2
  <2> QED
    BY <2>3, <2>4, <2>5, <2>6, <2>7
<1>14. ASSUME NEW r \in Runs, NEW status \in {"failed", "cancelled"},
              Settle(r, [status |-> status, result |-> FALSE]),
              StoreBestEffort(r, status), task[r] \in {"working", "cancelling"}, busy # r,
              task' = [task EXCEPT ![r] = "done"],
              UNCHANGED <<process, restarts, busy, outcome, older, companies>>
       PROVE  IInv'
  <2>1. /\ row' \in [Runs -> Statuses \cup {None}]
        /\ row'[r] \in {"running", status}
        /\ \A q \in Runs \ {r} : row'[q] = row[q]
    BY <1>14 DEF StoreBestEffort
  <2>2. /\ states' = [states EXCEPT ![r] = [status |-> status, result |-> FALSE]]
        /\ shown' = [shown EXCEPT ![r] = status]
    BY <1>14 DEF Settle
  <2>3. TypeOK'
    BY <2>1, <2>2, <1>14
  <2>4. RunStages'
    BY <2>1, <2>2, <1>14
  <2>5. ProcessStages'
    BY <2>1, <2>2, <1>14
  <2>6. LiveRunIsCached' /\ RunningViewHasTask'
    BY <2>1, <2>2, <1>14
  <2>7. RowsAgree'
    BY <2>1, <2>2, <1>14
  <2> QED
    BY <2>3, <2>4, <2>5, <2>6, <2>7
<1>15. ASSUME NEW r \in Runs, WorkflowRaises(r) PROVE IInv'
  BY <1>14, <1>15 DEF WorkflowRaises, Idle
<1>16. ASSUME NEW r \in Runs, CancelRun(r) PROVE IInv'
  BY <1>14, <1>16 DEF CancelRun
<1>17. CASE Shutdown
  BY <1>17 DEF Shutdown, Idle, disk
<1>18. CASE Stop \/ Crash
  <2>1. /\ process' = "down" /\ busy' = None /\ outcome' = None /\ restarts' = restarts
        /\ row' = row /\ companies' = companies /\ shown' = shown /\ older' = {}
        /\ task' \in [Runs -> {"none", "done"}]
        /\ \A q \in Runs : task'[q] = "none" => task[q] = "none"
        /\ states' = [q \in Runs |-> NotCached]
    BY <1>18 DEF Stop, Crash, Exit, disk
  <2>2. TypeOK'
    BY <2>1
  <2>3. RunStages' /\ ProcessStages'
    BY <2>1
  <2>4. LiveRunIsCached' /\ RunningViewHasTask' /\ RowsAgree'
    BY <2>1
  <2> QED
    BY <2>2, <2>3, <2>4
<1>19. CASE Restart
  BY <1>19 DEF Restart, memory, disk
<1>20. CASE UNCHANGED vars
  BY <1>20 DEF vars, memory, disk
<1> QED
  BY <1>1, <1>2, <1>4, <1>5, <1>6, <1>8, <1>9, <1>10, <1>11, <1>12, <1>13, <1>15,
     <1>16, <1>17, <1>18, <1>19, <1>20 DEF Next, Poll, RunStep

\* The invariants of the API service hold in every reachable state, for any
\* set of runs: types, a live run is cached as running, a running view has a
\* task, and rows agree with what clients are and were shown.
THEOREM ApiInvariant == Spec => []IInv
<1>1. Init => IInv
  BY InitIInv
<1>2. IInv /\ [Next]_vars => IInv'
  BY NextIInv
<1> QED
  BY <1>1, <1>2, PTL DEF Spec

\* A poll never mistakes a run that still executes for an orphan.
THEOREM LiveRunStaysCached == Spec => []LiveRunIsCached
<1>1. IInv => LiveRunIsCached
  BY DEF IInv
<1> QED
  BY <1>1, ApiInvariant, PTL

\* While the process serves requests, a run shown as running has a task.
THEOREM RunningViewKeepsTask == Spec => []RunningViewHasTask
<1>1. IInv => RunningViewHasTask
  BY DEF IInv
<1> QED
  BY <1>1, ApiInvariant, PTL

\* A terminal row is what a poll answers, and contradicts what clients were shown
\* only as the failure of an orphan, whatever stores fail and whenever the process
\* is killed.
THEOREM RowsAreTruthful == Spec => []RowsAgreeWithClients
<1>1. IInv => RowsAgreeWithClients
  BY DEF IInv, RowsAgree, RowsAgreeWithClients, Idle
<1> QED
  BY <1>1, ApiInvariant, PTL

\* No step overwrites a terminal row.
LEMMA StepKeepsTerminalRows ==
    IInv /\ [Next]_vars => \A r \in Runs : row[r] \in Terminal => row'[r] = row[r]
<1> SUFFICES ASSUME IInv, [Next]_vars, NEW q \in Runs, row[q] \in Terminal
             PROVE  row'[q] = row[q]
  OBVIOUS
<1> USE DEF IInv, TypeOK, RunStages, ProcessStages
<1>1. ASSUME NEW r \in Runs, Submit(r) PROVE row'[q] = row[q]
  BY <1>1 DEF Submit, disk
<1>2. ASSUME NEW r \in Runs, Poll(r) PROVE row'[q] = row[q]
  BY <1>2 DEF Poll, MarkOrphan, ShowOrphan, Reload, CacheView, StoreBestEffort, disk
<1>3. ASSUME NEW r \in Runs, RunStep(r) PROVE row'[q] = row[q]
  BY <1>3 DEF RunStep, Start, StartFails, BeginSaving, SaveCompanies, StoreCompleted,
              StoreFailed, Finish, WorkflowRaises, CancelRun, StoreBestEffort, disk
<1>4. CASE Shutdown \/ Stop \/ Crash \/ Restart \/ UNCHANGED vars
  BY <1>4 DEF Shutdown, Stop, Crash, Exit, Restart, vars, disk
<1> QED
  BY <1>1, <1>2, <1>3, <1>4 DEF Next

\* A terminal row is final, whatever reloads, shutdowns and restarts follow.
THEOREM TerminalRowStays == Spec => TerminalRowIsFinal
<1>1. IInv /\ [Next]_vars =>
        [\A r \in Runs : row[r] \in Terminal => row'[r] = row[r]]_vars
  BY StepKeepsTerminalRows
<1> QED
  BY <1>1, ApiInvariant, PTL DEF Spec, TerminalRowIsFinal
-----------------------------------------------------------------------------
(***************************************************************************)
(* The bound of the cache: the pruned states are the oldest of the         *)
(* terminal ones, as many as overflow, because older is an order.          *)
(***************************************************************************)

\* R is a strict total order of S.
Orders(R, S) ==
    /\ \A x \in S : <<x, x>> \notin R
    /\ \A x, y \in S : x # y => <<x, y>> \in R \/ <<y, x>> \in R
    /\ \A x, y, z \in S : <<x, y>> \in R /\ <<y, z>> \in R => <<x, z>> \in R

\* A nonempty finite set has a least element under any strict total order: of the sets
\* of elements below a member, one contains no other.
LEMMA LeastElement ==
    ASSUME NEW S, IsFiniteSet(S), S # {}, NEW R, Orders(R, S)
    PROVE  \E x \in S : \A y \in S : <<y, x>> \notin R
<1> DEFINE Below == [x \in S |-> {y \in S : <<y, x>> \in R}]
           B == {Below[x] : x \in S}
           Strict == StrictSubsetOrdering(S)
<1>1. \A T \in B : \E x \in S : T = Below[x]
  <2> HIDE DEF Below
  <2> QED
    OBVIOUS
<1>2. B # {} /\ B \subseteq FiniteSubsetsOf(S)
  <2>1. \A x \in S : Below[x] \in SUBSET S
    OBVIOUS
  <2>2. B \subseteq SUBSET S
    <3> HIDE DEF B, Below
    <3> QED
      BY <1>1, <2>1
  <2>3. B # {}
    <3> HIDE DEF Below
    <3> QED
      OBVIOUS
  <2> QED
    BY <2>2, <2>3, FS_FiniteSubsetsOfFinite
<1>3. IsWellFoundedOn(Strict, FiniteSubsetsOf(S))
  BY FS_StrictSubsetOrderingWellFounded
<1>4. PICK T \in B : \A U \in B : <<U, T>> \notin Strict
  <2> HIDE DEF B, Strict
  <2> QED
    BY <1>2, <1>3, WFMin
<1>5. PICK x \in S : T = Below[x]
  BY <1>1
<1>6. ASSUME NEW y \in S, <<y, x>> \in R PROVE FALSE
  <2>1. Below[y] \in B /\ Below[y] \subseteq T /\ T \subseteq S
    BY <1>5, <1>6 DEF Orders
  <2>2. y \in T /\ y \notin Below[y]
    BY <1>5, <1>6 DEF Orders
  <2>3. <<Below[y], T>> \in Strict
    BY <2>1, <2>2 DEF StrictSubsetOrdering
  <2> QED
    BY <1>4, <2>1, <2>3
<1> QED
  BY <1>6

\* Of a finite set under a strict total order, the elements with fewer than n
\* below them are at most n; if some element has n or more, they are n.
LEMMA OldestAreCounted ==
    ASSUME NEW S, IsFiniteSet(S), NEW R, Orders(R, S), NEW n \in Int,
           NEW Below, \A x \in S : Below[x] = {y \in S : <<y, x>> \in R},
           NEW T \in SUBSET S, \A x \in S : x \in T <=> Cardinality(Below[x]) < n
    PROVE  /\ IsFiniteSet(T)
           /\ T # {} => Cardinality(T) <= n
           /\ T # S => Cardinality(T) >= n
<1>1. IsFiniteSet(T) /\ T \subseteq S
  BY FS_Subset
<1>2. \A x \in S : IsFiniteSet(Below[x]) /\ Cardinality(Below[x]) \in Nat
  BY FS_Subset, FS_CardinalityType
<1>3. ASSUME NEW x \in S, NEW y \in S, <<x, y>> \in R
      PROVE  Cardinality(Below[x]) <= Cardinality(Below[y])
  <2>1. Below[x] \subseteq Below[y]
    BY <1>3 DEF Orders
  <2> QED
    BY <2>1, <1>2, FS_Subset
<1>4. ASSUME T # {} PROVE Cardinality(T) <= n
  <2> DEFINE Q == {pair \in S \X S : <<pair[2], pair[1]>> \in R}
  <2>1. PICK x \in T : \A y \in T : <<y, x>> \notin Q
    <3>1. Orders(Q, T)
      BY <1>1 DEF Orders
    <3> HIDE DEF Q
    <3> QED
      BY <3>1, <1>1, <1>4, LeastElement
  <2> DEFINE U == Below[x] \cup {x}
  <2>2. T \subseteq U
    <3> SUFFICES ASSUME NEW y \in T, y # x PROVE y \in Below[x]
      OBVIOUS
    <3>1. <<x, y>> \notin R
      BY <2>1, <1>1
    <3>2. <<y, x>> \in R
      BY <3>1, <1>1 DEF Orders
    <3> QED
      BY <3>2, <1>1
  <2>3. Cardinality(U) = Cardinality(Below[x]) + 1 /\ IsFiniteSet(U)
    <3>1. x \in S /\ IsFiniteSet(Below[x])
      BY <1>1, <1>2
    <3>2. <<x, x>> \notin R
      BY <3>1 DEF Orders
    <3>3. x \notin Below[x]
      BY <3>1, <3>2
    <3> QED
      BY <3>1, <3>3, FS_AddElement
  <2>4. Cardinality(T) <= Cardinality(U)
    <3> HIDE DEF U
    <3> QED
      BY <2>2, <2>3, FS_Subset
  <2>5. Cardinality(Below[x]) < n
    OBVIOUS
  <2>6. Cardinality(T) \in Nat /\ Cardinality(Below[x]) \in Nat
    BY <1>1, <1>2, FS_CardinalityType
  <2> QED
    BY <2>3, <2>4, <2>5, <2>6
<1>5. ASSUME T # S PROVE Cardinality(T) >= n
  <2>1. PICK x \in S \ T : \A y \in S \ T : <<y, x>> \notin R
    <3>1. IsFiniteSet(S \ T) /\ S \ T # {}
      BY <1>1, <1>5, FS_Subset
    <3>2. Orders(R, S \ T)
      BY DEF Orders
    <3> QED
      BY <3>1, <3>2, LeastElement
  <2>2. Below[x] \subseteq T
    BY <2>1
  <2>3. ~(Cardinality(Below[x]) < n)
    BY <2>1
  <2>4. Cardinality(Below[x]) <= Cardinality(T)
    BY <2>2, <1>1, FS_Subset
  <2>5. Cardinality(T) \in Nat /\ Cardinality(Below[x]) \in Nat
    BY <1>1, <1>2, FS_CardinalityType
  <2> QED
    BY <2>3, <2>4, <2>5
<1> QED
  BY <1>1, <1>4, <1>5

\* The insertion order is a strict total order of the cached states.
InsertionOrder ==
    older \subseteq Cached \X Cached /\ Orders(older, Cached)

\* A state inserted last, after some have been removed, keeps the order.
LEMMA InsertionKeepsOrder ==
    ASSUME InsertionOrder, NEW kept \in SUBSET Cached, NEW r \in Runs, r \notin Cached,
           older' = Inserted(older, kept, r), Cached' = kept \cup {r}
    PROVE  InsertionOrder'
<1>1. \A p, q : <<p, q>> \in older' <=>
                  \/ <<p, q>> \in older /\ p \in kept /\ q \in kept
                  \/ p \in kept /\ q = r
  BY DEF Inserted, InsertionOrder
<1>2. older' \subseteq Cached' \X Cached'
  BY DEF Inserted
<1>3. \A p \in Cached' : <<p, p>> \notin older'
  BY <1>1 DEF InsertionOrder, Orders
<1>4. \A p, q \in Cached' : p # q => <<p, q>> \in older' \/ <<q, p>> \in older'
  BY <1>1 DEF InsertionOrder, Orders
<1>5. \A p, q, s \in Cached' :
        <<p, q>> \in older' /\ <<q, s>> \in older' => <<p, s>> \in older'
  BY <1>1 DEF InsertionOrder, Orders
<1> QED
  BY <1>2, <1>3, <1>4, <1>5 DEF InsertionOrder, Orders

\* A step that neither adds nor removes a state leaves the order alone.
LEMMA SameCacheSameOrder ==
    ASSUME InsertionOrder, UNCHANGED older, Cached' = Cached PROVE InsertionOrder'
  BY DEF InsertionOrder

\* Every step keeps the insertion order.
LEMMA NextKeepsOrder ==
    IInv /\ InsertionOrder /\ [Next]_vars => InsertionOrder'
<1> SUFFICES ASSUME IInv, InsertionOrder, [Next]_vars PROVE InsertionOrder'
  OBVIOUS
<1> USE DEF IInv, TypeOK, RunStages, LiveRunIsCached
<1>1. ASSUME NEW r \in Runs, Submit(r) PROVE InsertionOrder'
  <2>1. r \notin Cached /\ older' = Inserted(older, Cached \ Pruned, r)
    BY <1>1 DEF Submit, Cached
  <2>2. Cached' = (Cached \ Pruned) \cup {r}
    BY <1>1, PrunedAreTerminal DEF Submit, Cached
  <2> QED
    BY <2>1, <2>2, InsertionKeepsOrder
<1>2. ASSUME NEW r \in Runs, ShowOrphan(r) \/ Reload(r) PROVE InsertionOrder'
  <2>1. r \notin Cached /\ older' = Inserted(older, Cached, r)
    BY <1>2 DEF ShowOrphan, Reload, CacheView, Cached
  <2>2. Cached' = Cached \cup {r}
    <3>1. PICK status \in Terminal : Settle(r, View(status, FALSE))
      <4>1. CASE ShowOrphan(r)
        <5>1. outcome = "failed"
          BY <4>1 DEF ShowOrphan, ProcessStages
        <5> QED
          BY <4>1, <5>1 DEF ShowOrphan, CacheView
      <4>2. CASE Reload(r)
        BY <4>2 DEF Reload, CacheView
      <4> QED
        BY <1>2, <4>1, <4>2
    <3> QED
      BY <3>1 DEF Settle, Cached
  <2> QED
    BY <2>1, <2>2, InsertionKeepsOrder
<1>3. ASSUME NEW r \in Runs, task[r] \in LiveTasks, UNCHANGED older,
             \E view \in Views : Settle(r, view)
      PROVE  InsertionOrder'
  <2>1. Cached' = Cached
    BY <1>3 DEF Settle, Cached
  <2> QED
    BY <2>1, <1>3, SameCacheSameOrder
<1>4. ASSUME NEW r \in Runs, Finish(r) \/ WorkflowRaises(r) \/ CancelRun(r)
      PROVE  InsertionOrder'
  <2>1. task[r] \in LiveTasks /\ UNCHANGED older
    BY <1>4 DEF Finish, WorkflowRaises, CancelRun
  <2>2. \E view \in Views : Settle(r, view)
    <3>1. CASE WorkflowRaises(r)
      BY <3>1 DEF WorkflowRaises
    <3>2. CASE Finish(r)
      BY <3>2 DEF Finish
    <3>3. CASE CancelRun(r)
      BY <3>3 DEF CancelRun
    <3> QED
      BY <1>4, <3>1, <3>2, <3>3
  <2> QED
    BY <2>1, <2>2, <1>3
<1>5. ASSUME UNCHANGED <<states, older>> PROVE InsertionOrder'
  BY <1>5, SameCacheSameOrder DEF Cached
<1>6. ASSUME NEW r \in Runs, MarkOrphan(r) \/ Start(r) \/ StartFails(r) \/ BeginSaving(r)
                               \/ SaveCompanies(r) \/ StoreCompleted(r) \/ StoreFailed(r)
      PROVE  InsertionOrder'
  <2>1. UNCHANGED <<states, older>>
    <3>1. CASE StartFails(r) \/ StoreCompleted(r) \/ StoreFailed(r)
      <4>1. \E status : Decide(r, status)
        BY ONLY <3>1 DEF StartFails, StoreCompleted, StoreFailed
      <4> QED
        BY ONLY <4>1 DEF Decide
    <3>2. CASE MarkOrphan(r) \/ Start(r) \/ BeginSaving(r)
      BY ONLY <3>2 DEF MarkOrphan, Start, BeginSaving
    <3>3. CASE SaveCompanies(r)
      BY ONLY <3>3 DEF SaveCompanies, memory
    <3> QED
      BY ONLY <1>6, <3>1, <3>2, <3>3
  <2>2. UNCHANGED older /\ Cached' = Cached
    BY <2>1 DEF Cached
  <2> QED
    BY ONLY <2>2, InsertionOrder, SameCacheSameOrder
<1>7. CASE Stop \/ Crash
  <2>1. older' = {} /\ states' = [r \in Runs |-> NotCached]
    BY ONLY <1>7 DEF Stop, Crash, Exit
  <2>2. Cached' = {}
    BY ONLY <2>1 DEF Cached, NotCached, View
  <2> QED
    BY ONLY <2>1, <2>2 DEF InsertionOrder, Orders
<1>8. CASE Shutdown \/ Restart \/ UNCHANGED vars
  BY <1>5, <1>8 DEF Shutdown, Restart, vars, memory
<1> QED
  BY <1>1, <1>2, <1>4, <1>6, <1>7, <1>8 DEF Next, Poll, RunStep

\* What a submission does to the cache.
LEMMA SubmissionPrunesEnough ==
    ASSUME IInv, InsertionOrder, NEW r \in Runs, Submit(r)
    PROVE  /\ Cardinality(Cached') > CacheLimit => CachedTerminal' = {}
           /\ Cardinality(Cached') < CacheLimit => Cached \subseteq Cached'
           /\ \A q \in Cached : states[q].status = "running" => q \in Cached'
<1> USE DEF IInv, TypeOK
<1>1. r \notin Cached /\ Cached \subseteq Runs /\ CachedTerminal \subseteq Cached
  BY DEF Submit, RunStages, Cached, CachedTerminal
<1>2. Cached' = (Cached \ Pruned) \cup {r}
  BY PrunedAreTerminal DEF Submit, Cached
<1>3. CachedTerminal' = CachedTerminal \ Pruned
  BY PrunedAreTerminal DEF Submit, Cached, CachedTerminal, RunStages
<1>4. /\ IsFiniteSet(Cached) /\ IsFiniteSet(CachedTerminal)
      /\ Cardinality(Cached) \in Nat
  BY <1>1, FS_Subset, FS_CardinalityType
<1>5. Overflow \in Int /\ Overflow = Cardinality(Cached) - CacheLimit + 1
  BY <1>4 DEF Overflow
<1>6. Pruned = {q \in CachedTerminal :
                 Cardinality({p \in CachedTerminal : <<p, q>> \in older}) < Overflow}
  BY DEF Pruned
<1>7. /\ IsFiniteSet(Pruned)
      /\ Pruned # {} => Cardinality(Pruned) <= Overflow
      /\ Pruned # CachedTerminal => Cardinality(Pruned) >= Overflow
  <2>1. Orders(older, CachedTerminal)
    BY <1>1 DEF InsertionOrder, Orders
  <2>2. IsFiniteSet(CachedTerminal) /\ Overflow \in Int
    BY <1>4, <1>5
  <2> DEFINE Older == [q \in CachedTerminal |-> {p \in CachedTerminal : <<p, q>> \in older}]
  <2>3. /\ Pruned \in SUBSET CachedTerminal
        /\ \A q \in CachedTerminal : q \in Pruned <=> Cardinality(Older[q]) < Overflow
    BY <1>6
  <2>4. \A q \in CachedTerminal : Older[q] = {p \in CachedTerminal : <<p, q>> \in older}
    OBVIOUS
  <2> HIDE DEF IInv, TypeOK, Older
  <2> QED
    BY <2>1, <2>2, <2>3, <2>4, OldestAreCounted
<1>8. Cardinality(Cached') = Cardinality(Cached) - Cardinality(Pruned) + 1
  <2>1. Pruned \subseteq Cached
    BY <1>1, <1>6
  <2>2. /\ IsFiniteSet(Cached \ Pruned)
        /\ Cardinality(Cached \ Pruned) = Cardinality(Cached) - Cardinality(Pruned)
    <3>1. Cached \cap Pruned = Pruned
      BY <2>1
    <3> QED
      BY <3>1, <1>4, FS_Difference
  <2> QED
    BY <2>2, <1>1, <1>2, FS_AddElement
<1>9. Cardinality(Pruned) \in Nat
  BY <1>7, FS_CardinalityType
<1>10. ASSUME Cardinality(Cached') > CacheLimit PROVE CachedTerminal' = {}
  <2>1. Cardinality(Pruned) < Overflow
    BY <1>4, <1>5, <1>8, <1>9, <1>10
  <2>2. Pruned = CachedTerminal
    BY <2>1, <1>5, <1>7, <1>9
  <2> QED
    BY <2>2, <1>3
<1>11. ASSUME Cardinality(Cached') < CacheLimit PROVE Cached \subseteq Cached'
  <2>1. Cardinality(Pruned) > Overflow
    BY <1>4, <1>5, <1>8, <1>9, <1>11
  <2>2. Pruned = {}
    BY <2>1, <1>5, <1>7, <1>9
  <2> QED
    BY <2>2, <1>2
<1>12. \A q \in Cached : states[q].status = "running" => q \in Cached'
  BY <1>2, PrunedAreTerminal
<1> QED
  BY <1>10, <1>11, <1>12

\* Only a submission schedules a run that had no task.
LEMMA OnlySubmissionsSchedule ==
    ASSUME IInv, [Next]_vars, NEW r \in Runs, task[r] = "none", task'[r] = "scheduled"
    PROVE  Submit(r)
<1> USE DEF IInv, TypeOK
<1>1. ASSUME NEW q \in Runs, Submit(q) PROVE q = r
  BY <1>1 DEF Submit
<1>2. ASSUME NEW q \in Runs, Poll(q) \/ RunStep(q) PROVE FALSE
  BY <1>2 DEF Poll, MarkOrphan, ShowOrphan, Reload, CacheView, RunStep, Start, StartFails,
              BeginSaving, SaveCompanies, StoreCompleted, StoreFailed, Decide, Finish,
              WorkflowRaises, CancelRun, memory
<1>3. CASE Shutdown \/ Stop \/ Crash \/ Restart \/ UNCHANGED vars
  BY <1>3 DEF Shutdown, Stop, Crash, Exit, Restart, vars, memory
<1> QED
  BY <1>1, <1>2, <1>3 DEF Next

\* A submission leaves the cache within its limit unless everything in it runs,
\* and evicts no more than it has to, and no run that is still running.
THEOREM SubmissionsBoundTheCache == Spec => SubmissionBoundsCache
<1> DEFINE Bound ==
      (\E r \in Runs : task[r] = "none" /\ task'[r] = "scheduled") =>
         /\ Cardinality(Cached') > CacheLimit => CachedTerminal' = {}
         /\ Cardinality(Cached') < CacheLimit => Cached \subseteq Cached'
         /\ \A r \in Cached : states[r].status = "running" => r \in Cached'
<1>1. Init => InsertionOrder
  BY DEF Init, InsertionOrder, Orders, Cached
<1>2. IInv /\ InsertionOrder /\ [Next]_vars => InsertionOrder'
  BY NextKeepsOrder
<1>3. IInv /\ InsertionOrder /\ [Next]_vars => [Bound]_vars
  BY OnlySubmissionsSchedule, SubmissionPrunesEnough
<1> QED
  BY <1>1, <1>2, <1>3, ApiInvariant, PTL DEF Spec, SubmissionBoundsCache
=============================================================================
