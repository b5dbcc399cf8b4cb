-------------------------- MODULE TaskBoard_proofs --------------------------
(***************************************************************************)
(* Theorems about the task board, for any set of tasks, any backlog and    *)
(* any workload the theorem names.                                         *)
(***************************************************************************)
EXTENDS TaskBoard, TLAPS

(* Every status the lifecycle table leads a task to is a status, never     *)
(* "absent", and it leads nowhere from a terminal one.                     *)
LEMMA TaskTable ==
    ASSUME NEW a, NEW b, CanTransition("task", a, b)
    PROVE  /\ a \in TaskStatuses \ {"absent"}
           /\ b \in TaskStatuses \ {"absent", "queued"}
           /\ a \notin DependencyTerminalStates
           /\ <<a, b>> # <<"queued", "ready">> /\ b \in Started => a \in Started
  <1>1. <<a, b>> \in TaskEdges /\ a \notin {"done", "not-planned", "duplicate"}
    BY DEF CanTransition, AllowedTransitions, IsTerminalState, TerminalStates
  <1> QED
    BY <1>1 DEF TaskEdges, TaskStatuses, DependencyTerminalStates, Started

(* The hook promotes tasks of the board. *)
LEMMA UnblockedAreTasks ==
    ASSUME NEW S, NEW s PROVE Unblocked(S, s) \subseteq Tasks
  BY DEF Unblocked

-----------------------------------------------------------------------------
(* Types. *)

(* UpdateStatus, the write every server call goes through, keeps types.    *)
LEMMA UpdateStatusType ==
    ASSUME TypeOK, NEW S \in SUBSET Tasks, NEW s \in TaskStatuses,
           UpdateStatus(S, s), UNCHANGED deps
    PROVE  /\ status' \in [Tasks -> TaskStatuses] /\ deps' \in [Tasks -> SUBSET Tasks]
           /\ rowStatus' \in [Tasks -> TaskStatuses] /\ rowDeps' \in [Tasks -> SUBSET Tasks]
           /\ warm' \in BOOLEAN
  <1>1. status' \in [Tasks -> TaskStatuses]
    BY DEF TypeOK, UpdateStatus, TaskStatuses
  <1>2. rowStatus' \in [Tasks -> TaskStatuses]
    BY DEF TypeOK, UpdateStatus, Upserted
  <1>3. rowDeps' \in [Tasks -> SUBSET Tasks]
    BY DEF TypeOK, UpdateStatus, UpsertedDeps
  <1>4. warm' \in BOOLEAN
    BY DEF UpdateStatus
  <1> QED
    BY <1>1, <1>2, <1>3, <1>4 DEF TypeOK

(* Type correctness of the board, for every workload. *)
THEOREM TypeCorrect == Spec => []TypeOK
  <1> USE BoardAssumption
  <1>1. Init => TypeOK
    BY DEF Init, TypeOK, TaskStatuses
  <1>2. TypeOK /\ [Next]_vars => TypeOK'
    <2> SUFFICES ASSUME TypeOK, [Next]_vars PROVE TypeOK'
      OBVIOUS
    <2> USE DEF TypeOK
    <2>1. ASSUME NEW t \in Tasks, CreateTask(t) PROVE TypeOK'
      BY <2>1 DEF CreateTask, Commit, TaskStatuses
    <2>2. ASSUME NEW t \in Tasks, Claim(t) PROVE TypeOK'
      <3>1. "active" \in TaskStatuses BY DEF TaskStatuses
      <3> QED BY <2>2, <3>1, UpdateStatusType DEF Claim, DispatchTask, Touches
    <2>3. ASSUME NEW t \in Tasks, NEW s \in TaskStatuses, Finish(t, s) PROVE TypeOK'
      BY <2>3, UpdateStatusType DEF Finish, CompleteTask, Commit
    <2>4. ASSUME NEW t \in Tasks, FinishRefused(t) PROVE TypeOK'
      <3>1. "active" \in TaskStatuses BY DEF TaskStatuses
      <3> QED BY <2>4, <3>1, UpdateStatusType DEF FinishRefused, Touches
    <2>5. ASSUME NEW t \in Tasks, NEW s \in TaskStatuses, Transition(t, s) PROVE TypeOK'
      BY <2>5, UpdateStatusType DEF Transition, Commit
    <2>6. ASSUME NEW t \in Tasks, NEW D \in DepLists, UpdateDeps(t, D) PROVE TypeOK'
      BY <2>6 DEF UpdateDeps
    <2>7. CASE WorkQueue
      <3>1. "ready" \in TaskStatuses BY DEF TaskStatuses
      <3>2. Promotable(Tasks) \subseteq Tasks BY DEF Promotable
      <3> QED BY <2>7, <3>1, <3>2, UpdateStatusType DEF WorkQueue, Touches
    <2>8. ASSUME NEW f \in Features, NEW S \in SUBSET Tasks, Dispatch(f, S) PROVE TypeOK'
      <3> DEFINE moved == {t \in S : CanTransition("task", status[t], "active")}
      <3>1. "active" \in TaskStatuses /\ moved \subseteq Tasks BY DEF TaskStatuses
      <3>2. UpdateStatus(moved, "active") /\ Touches(moved) /\ UNCHANGED deps
            /\ answer' = <<>>
        BY <2>8 DEF Dispatch
      <3> HIDE DEF moved
      <3> QED BY <3>1, <3>2, UpdateStatusType DEF Touches
    <2>9. ASSUME NEW f \in Features, PromoteQueuedTasks(f) PROVE TypeOK'
      <3> DEFINE P == Promotable({t \in Tasks : FeatureOf[t] = f})
      <3>1. "ready" \in TaskStatuses /\ P \subseteq Tasks BY DEF TaskStatuses, Promotable
      <3>2. UpdateStatus(P, "ready") /\ Commit /\ UNCHANGED deps /\ answer' = <<>>
        BY <2>9 DEF PromoteQueuedTasks
      <3> HIDE DEF P
      <3> QED BY <3>1, <3>2, UpdateStatusType DEF Commit
    <2>10. ASSUME NEW f \in Features, NEW N \in SUBSET {t \in Tasks : status[t] = "absent"},
                  NEW D \in [N -> DepLists \cup {{}}], DecomposeApply(f, N, D)
           PROVE TypeOK'
      <3>1. status' \in [Tasks -> TaskStatuses] BY <2>10 DEF DecomposeApply, TaskStatuses
      <3>2. deps' \in [Tasks -> SUBSET Tasks] BY <2>10 DEF DecomposeApply
      <3>3. rowStatus' \in [Tasks -> TaskStatuses]
        BY <2>10 DEF DecomposeApply, Upserted, TaskStatuses
      <3>4. rowDeps' \in [Tasks -> SUBSET Tasks] BY <2>10 DEF DecomposeApply, UpsertedDeps
      <3>5. warm' \in BOOLEAN /\ dirty' \in BOOLEAN /\ answer' = <<>>
        BY <2>10 DEF DecomposeApply, Commit
      <3> QED BY <3>1, <3>2, <3>3, <3>4, <3>5
    <2>11. CASE Restart
      BY <2>11 DEF Restart
    <2>12. CASE RestartCold
      BY <2>12 DEF RestartCold, TaskStatuses
    <2>13. CASE CommitState
      BY <2>13 DEF CommitState
    <2>14. ASSUME NEW t \in Tasks, NEW s \in TaskStatuses, CliMove(t, s) PROVE TypeOK'
      BY <2>14 DEF CliMove
    <2>15. ASSUME NEW t \in Tasks, NEW s \in TaskStatuses, CliTransition(t, s) PROVE TypeOK'
      BY <2>15 DEF CliTransition
    <2>16. CASE CliQueue
      BY <2>16 DEF CliQueue, Touches, TaskStatuses
    <2>17. CASE UNCHANGED vars
      BY <2>17 DEF vars
    <2> QED
      BY <2>1, <2>2, <2>3, <2>4, <2>5, <2>6, <2>7, <2>8, <2>9, <2>10, <2>11, <2>12, <2>13,
         <2>14, <2>15, <2>16, <2>17 DEF Next, ServerNext, CliNext
  <1> QED
    BY <1>1, <1>2, PTL DEF Spec

-----------------------------------------------------------------------------
(* Dependencies. *)

(* The inductive invariant: alone, DepsMetBeforeStart says nothing of the  *)
(* rows promotions are decided on.                                         *)
DepsInv == TypeOK /\ RowsAreSound /\ DepsMetBeforeStart

(* A step that takes no task out of a terminal status and leaves the       *)
(* dependency lists alone keeps met dependencies met.                      *)
LEMMA MetStaysMet ==
    ASSUME TypeOK, UNCHANGED deps, NEW t \in Tasks, DepsMet(t, status, deps),
           \A u \in Tasks : status[u] \in DependencyTerminalStates => status'[u] = status[u]
    PROVE  DepsMet(t, status', deps')
  BY DEF TypeOK, DepsMet, Satisfied, IsTaskDependencySatisfied

(* The tasks the hook promotes were waiting, and their dependencies are    *)
(* met once the call is over.                                              *)
LEMMA UnblockedAreEligible ==
    ASSUME DepsInv, UNCHANGED deps,
           NEW S \in SUBSET Tasks, NEW s \in TaskStatuses, UpdateStatus(S, s),
           \A t \in S : status[t] \notin DependencyTerminalStates \cup {"absent"},
           NEW u \in Unblocked(S, s)
    PROVE  /\ u \in Tasks \ S
           /\ status[u] \notin DependencyTerminalStates
           /\ DepsMet(u, status', deps')
  <1> USE DEF DepsInv, TypeOK
  <1>1. s \in DependencyTerminalStates /\ u \in Tasks
    BY DEF Unblocked, IsTaskDependencySatisfied
  <1>2. /\ UpsertedDeps(S)[u] \cap S # {}
        /\ Upserted(S, s)[u] \in {"queued", "blocked"}
        /\ DepsMet(u, Upserted(S, s), UpsertedDeps(S))
    BY <1>1 DEF Unblocked, IsTaskDependencySatisfied
  <1>3. u \notin S /\ rowStatus[u] \in {"queued", "blocked"}
    BY <1>1, <1>2 DEF Upserted, DependencyTerminalStates
  <1>4. UpsertedDeps(S)[u] = deps[u]
    BY <1>1, <1>3 DEF UpsertedDeps, RowsAreSound
  <1>5. status[u] \notin DependencyTerminalStates
    <2>1. status[u] \notin {"not-planned", "duplicate"}
      BY <1>1, <1>3 DEF RowsAreSound
    <2>2. ~ DepsMet(u, status, deps)
      BY <1>2, <1>4 DEF DepsMet, Satisfied, IsTaskDependencySatisfied
    <2>3. status[u] # "done"
      BY <1>1, <2>2 DEF DepsMetBeforeStart, Started
    <2> QED
      BY <2>1, <2>3 DEF DependencyTerminalStates
  <1>6. ASSUME NEW d \in deps[u] PROVE status'[d] \in DependencyTerminalStates
    <2>0. d \in Tasks
      BY <1>1
    <2>1. Upserted(S, s)[d] \in DependencyTerminalStates
      BY <1>2, <1>4 DEF DepsMet, Satisfied, IsTaskDependencySatisfied
    <2>2. CASE d \in S
      BY <2>0, <2>2, <1>1 DEF UpdateStatus
    <2>3. CASE d \notin S
      <3>1. rowStatus[d] \in DependencyTerminalStates /\ status[d] = rowStatus[d]
        BY <2>0, <2>1, <2>3 DEF Upserted, RowsAreSound
      <3>2. d \notin Unblocked(S, s)
        BY <2>0, <2>1 DEF Unblocked, DependencyTerminalStates
      <3> QED
        BY <2>0, <2>3, <3>1, <3>2 DEF UpdateStatus
    <2> QED
      BY <2>2, <2>3
  <1> QED
    BY <1>1, <1>3, <1>5, <1>6 DEF DepsMet, Satisfied, IsTaskDependencySatisfied

(* UpdateStatus keeps the invariant when the tasks it is given are open    *)
(* and, if it starts them, are started already or have their dependencies  *)
(* met.                                                                    *)
LEMMA UpdateStatusKeepsDeps ==
    ASSUME DepsInv, UNCHANGED deps,
           NEW S \in SUBSET Tasks, NEW s \in TaskStatuses \ {"absent"}, UpdateStatus(S, s),
           \A t \in S : status[t] \notin DependencyTerminalStates \cup {"absent"},
           s \in Started => \A t \in S : status[t] \in Started \/ DepsMet(t, status, deps)
    PROVE  RowsAreSound' /\ DepsMetBeforeStart'
  <1> USE DEF DepsInv, TypeOK
  <1>1. \A u \in Unblocked(S, s) : /\ u \in Tasks \ S
                                   /\ status[u] \notin DependencyTerminalStates
                                   /\ DepsMet(u, status', deps')
    BY UnblockedAreEligible
  <1>2. \A u \in Tasks : status[u] \in DependencyTerminalStates => status'[u] = status[u]
    BY <1>1 DEF UpdateStatus
  <1>3. \A t \in Tasks : DepsMet(t, status, deps) => DepsMet(t, status', deps')
    BY <1>2, MetStaysMet
  <1>4. DepsMetBeforeStart'
    <2> SUFFICES ASSUME NEW t \in Tasks, status'[t] \in Started
                 PROVE  DepsMet(t, status', deps')
      BY DEF DepsMetBeforeStart
    <2>1. CASE t \in S
      <3>1. s \in Started BY <2>1 DEF UpdateStatus
      <3>2. DepsMet(t, status, deps) BY <2>1, <3>1 DEF DepsMetBeforeStart
      <3> QED BY <1>3, <3>2
    <2>2. CASE t \in Unblocked(S, s)
      BY <2>2, <1>1
    <2>3. CASE t \notin S /\ t \notin Unblocked(S, s)
      <3>1. status'[t] = status[t] BY <2>3 DEF UpdateStatus
      <3> QED BY <1>3, <3>1 DEF DepsMetBeforeStart
    <2> QED
      BY <2>1, <2>2, <2>3
  <1>5. RowsAreSound'
    <2> SUFFICES ASSUME NEW t \in Tasks
                 PROVE  /\ rowStatus'[t] # "absent" => rowDeps'[t] = deps'[t]
                        /\ rowStatus'[t] \in DependencyTerminalStates =>
                              status'[t] = rowStatus'[t]
                        /\ status'[t] \in {"not-planned", "duplicate"} =>
                              rowStatus'[t] \in {"absent", status'[t]}
      BY DEF RowsAreSound
    <2>1. CASE t \in S
      BY <2>1 DEF UpdateStatus, Upserted, UpsertedDeps
    <2>2. CASE t \notin S
      <3>1. rowStatus'[t] = rowStatus[t] /\ rowDeps'[t] = rowDeps[t]
        BY <2>2 DEF UpdateStatus, Upserted, UpsertedDeps
      <3>2. status'[t] = status[t] \/ status'[t] = "ready"
        BY <2>2 DEF UpdateStatus
      <3> QED
        BY <1>2, <3>1, <3>2 DEF RowsAreSound
    <2> QED
      BY <2>1, <2>2
  <1> QED
    BY <1>4, <1>5

(* What List shows as met is met in the files, cold cache or warm.         *)
LEMMA ListedMetIsMet ==
    ASSUME DepsInv, NEW t \in Tasks, ListStatus[t] # "absent",
           DepsMet(t, ListStatus, ListDeps)
    PROVE  DepsMet(t, status, deps)
  <1>1. CASE warm
    BY <1>1 DEF ListStatus, ListDeps, DepsInv, TypeOK, RowsAreSound, DepsMet, Satisfied,
                IsTaskDependencySatisfied
  <1>2. CASE ~ warm
    BY <1>2 DEF ListStatus, ListDeps
  <1> QED
    BY <1>1, <1>2

(* So the queue, and the feature promotion hook, promote nothing early.    *)
LEMMA PromotableIsEligible ==
    ASSUME DepsInv, NEW S \in SUBSET Tasks, NEW t \in Promotable(S)
    PROVE  /\ t \in Tasks
           /\ status[t] \notin DependencyTerminalStates \cup {"absent"}
           /\ DepsMet(t, status, deps)
  <1>1. t \in Tasks /\ ListStatus[t] = "queued" /\ DepsMet(t, ListStatus, ListDeps)
        /\ CanTransition("task", status[t], "ready")
    BY DEF Promotable
  <1> QED
    BY <1>1, TaskTable, ListedMetIsMet

(* Dependencies come first.  Whatever the set of tasks and the backlog,    *)
(* across restarts with a good or a failed cache rebuild and with commands *)
(* run beside the server, no task is ready, under way or done before its   *)
(* dependencies are terminal, as long as nobody forces a promotion,        *)
(* rewrites a depends_on list or applies a decomposition.                  *)
THEOREM DependenciesComeFirst ==
    ASSUME Ops \cap {"force", "update", "decompose"} = {}
    PROVE  Spec => [](DepsMetBeforeStart /\ RowsAreSound)
  <1> USE BoardAssumption
  <1>1. Init => DepsInv
    <2> SUFFICES ASSUME Init PROVE RowsAreSound /\ DepsMetBeforeStart
      BY DEF Init, DepsInv, TypeOK, TaskStatuses
    <2> QED
      BY DEF Init, RowsAreSound, DepsMetBeforeStart, Started, DependencyTerminalStates
  <1>2. TypeOK' /\ DepsInv /\ [Next]_vars => DepsInv'
    <2> SUFFICES ASSUME DepsInv, [Next]_vars PROVE RowsAreSound' /\ DepsMetBeforeStart'
      BY DEF DepsInv
    <2> DEFINE Goal == RowsAreSound' /\ DepsMetBeforeStart'
    <2> USE DEF DepsInv
    <2>1. ASSUME NEW t \in Tasks, CreateTask(t) PROVE Goal
      <3>1. \A u \in Tasks : status[u] \in DependencyTerminalStates => status'[u] = status[u]
        BY <2>1 DEF CreateTask, TypeOK, DependencyTerminalStates
      <3>2. RowsAreSound'
        BY <2>1 DEF CreateTask, TypeOK, RowsAreSound, DependencyTerminalStates
      <3>3. ASSUME NEW u \in Tasks, status'[u] \in Started PROVE DepsMet(u, status', deps')
        <4>1. u # t /\ status[u] \in Started /\ deps'[u] = deps[u]
          BY <2>1, <3>3 DEF CreateTask, TypeOK, Started
        <4> QED
          BY <4>1, <3>1 DEF TypeOK, DepsMetBeforeStart, DepsMet, Satisfied,
                            IsTaskDependencySatisfied
      <3> QED
        BY <3>2, <3>3 DEF DepsMetBeforeStart
    <2>2. ASSUME NEW t \in Tasks, Claim(t) PROVE Goal
      BY <2>2, UpdateStatusKeepsDeps DEF Claim, DispatchTask, TaskStatuses, DependencyTerminalStates
    <2>3. ASSUME NEW t \in Tasks, NEW s \in TaskStatuses, Finish(t, s) PROVE Goal
      BY <2>3, UpdateStatusKeepsDeps
         DEF Finish, CompleteTask, TaskStatuses, DependencyTerminalStates, Started
    <2>4. ASSUME NEW t \in Tasks, FinishRefused(t) PROVE Goal
      BY <2>4, UpdateStatusKeepsDeps
         DEF FinishRefused, TaskStatuses, DependencyTerminalStates, Started
    <2>5. ASSUME NEW t \in Tasks, NEW s \in TaskStatuses, Transition(t, s) PROVE Goal
      <3>1. /\ status[t] \notin DependencyTerminalStates \cup {"absent"}
            /\ s \in TaskStatuses \ {"absent"}
            /\ s \in Started => status[t] \in Started
        BY <2>5, TaskTable DEF Transition
      <3> QED
        BY <2>5, <3>1, UpdateStatusKeepsDeps DEF Transition
    <2>6. ASSUME NEW t \in Tasks, NEW D \in DepLists, UpdateDeps(t, D) PROVE Goal
      BY <2>6 DEF UpdateDeps
    <2>7. CASE WorkQueue
      <3> DEFINE P == Promotable(Tasks)
      <3>1. P \in SUBSET Tasks /\ "ready" \in TaskStatuses \ {"absent"}
        BY DEF Promotable, TaskStatuses
      <3>2. \A t \in P : /\ status[t] \notin DependencyTerminalStates \cup {"absent"}
                         /\ DepsMet(t, status, deps)
        BY PromotableIsEligible
      <3>3. UpdateStatus(P, "ready") /\ UNCHANGED deps
        BY <2>7 DEF WorkQueue
      <3> HIDE DEF P
      <3> QED
        BY <3>1, <3>2, <3>3, UpdateStatusKeepsDeps
    <2>8. ASSUME NEW f \in Features, NEW S \in SUBSET Tasks, Dispatch(f, S) PROVE Goal
      <3> DEFINE moved == {t \in S : CanTransition("task", status[t], "active")}
      <3>1. moved \in SUBSET Tasks /\ "active" \in TaskStatuses \ {"absent"}
        BY DEF TaskStatuses
      <3>2. \A t \in moved : /\ status[t] \notin DependencyTerminalStates \cup {"absent"}
                             /\ DepsMet(t, status, deps)
        BY <2>8, TaskTable, ListedMetIsMet DEF Dispatch
      <3>3. UpdateStatus(moved, "active") /\ UNCHANGED deps
        BY <2>8 DEF Dispatch
      <3> HIDE DEF moved
      <3> QED
        BY <3>1, <3>2, <3>3, UpdateStatusKeepsDeps
    <2>9. ASSUME NEW f \in Features, PromoteQueuedTasks(f) PROVE Goal
      <3> DEFINE P == Promotable({t \in Tasks : FeatureOf[t] = f})
      <3>1. P \in SUBSET Tasks /\ "ready" \in TaskStatuses \ {"absent"}
        BY DEF Promotable, TaskStatuses
      <3>2. \A t \in P : /\ status[t] \notin DependencyTerminalStates \cup {"absent"}
                         /\ DepsMet(t, status, deps)
        BY PromotableIsEligible
      <3>3. UpdateStatus(P, "ready") /\ UNCHANGED deps
        BY <2>9 DEF PromoteQueuedTasks
      <3> HIDE DEF P
      <3> QED
        BY <3>1, <3>2, <3>3, UpdateStatusKeepsDeps
    <2>10. ASSUME NEW f \in Features, NEW N, NEW D, DecomposeApply(f, N, D) PROVE Goal
      BY <2>10 DEF DecomposeApply
    <2>11. CASE Restart
      BY <2>11 DEF Restart, TypeOK, RowsAreSound, DepsMetBeforeStart
    <2>12. CASE RestartCold
      <3>1. RowsAreSound'
        BY <2>12 DEF RestartCold, RowsAreSound, DependencyTerminalStates
      <3>2. DepsMetBeforeStart'
        BY <2>12 DEF RestartCold, DepsMetBeforeStart
      <3> QED
        BY <3>1, <3>2
    <2>13. CASE CommitState
      BY <2>13 DEF CommitState, RowsAreSound, DepsMetBeforeStart
    <2>14. ASSUME NEW t \in Tasks, NEW s \in TaskStatuses, CliMove(t, s) PROVE Goal
      <3>1. /\ status[t] \in Started \ DependencyTerminalStates
            /\ s \notin {"not-planned", "duplicate"}
            /\ status' = [status EXCEPT ![t] = s] /\ UNCHANGED <<deps, rowStatus, rowDeps>>
        BY <2>14 DEF CliMove, Started, DependencyTerminalStates
      <3>2. \A u \in Tasks : status[u] \in DependencyTerminalStates => status'[u] = status[u]
        BY <3>1 DEF TypeOK
      <3>3. RowsAreSound'
        BY <3>1 DEF TypeOK, RowsAreSound, DependencyTerminalStates
      <3>4. ASSUME NEW u \in Tasks, status'[u] \in Started PROVE DepsMet(u, status', deps')
        <4>1. status[u] \in Started BY <3>1, <3>4 DEF TypeOK
        <4> QED BY <3>1, <3>2, <4>1, MetStaysMet DEF DepsMetBeforeStart
      <3> QED
        BY <3>3, <3>4 DEF DepsMetBeforeStart
    <2>15. ASSUME NEW t \in Tasks, NEW s \in TaskStatuses, CliTransition(t, s) PROVE Goal
      <3>1. RowsAreSound'
        BY <2>15 DEF CliTransition, TypeOK, RowsAreSound
      <3>2. CASE CanTransition("task", status[t], s)
        <4>1. /\ status[t] \notin DependencyTerminalStates
              /\ s \in Started => status[t] \in Started
              /\ status' = [status EXCEPT ![t] = s] /\ UNCHANGED deps
          BY <2>15, <3>2, TaskTable DEF CliTransition
        <4>2. \A u \in Tasks : status[u] \in DependencyTerminalStates => status'[u] = status[u]
          BY <4>1 DEF TypeOK
        <4>3. ASSUME NEW u \in Tasks, status'[u] \in Started PROVE DepsMet(u, status', deps')
          <5>1. status[u] \in Started BY <4>1, <4>3 DEF TypeOK
          <5> QED BY <4>1, <4>2, <5>1, MetStaysMet DEF DepsMetBeforeStart
        <4> QED
          BY <3>1, <4>3 DEF DepsMetBeforeStart
      <3>3. CASE ~ CanTransition("task", status[t], s)
        BY <2>15, <3>1, <3>3 DEF CliTransition, DepsMetBeforeStart
      <3> QED
        BY <3>2, <3>3
    <2>16. CASE CliQueue
      <3> DEFINE P == {t \in Tasks : status[t] = "queued" /\ DepsMet(t, status, deps)}
      <3>1. /\ status' = [t \in Tasks |-> IF t \in P THEN "ready" ELSE status[t]]
            /\ UNCHANGED <<deps, rowStatus, rowDeps>>
        BY <2>16 DEF CliQueue
      <3>2. \A u \in Tasks : status[u] \in DependencyTerminalStates => status'[u] = status[u]
        BY <3>1 DEF TypeOK, DependencyTerminalStates
      <3>3. RowsAreSound'
        BY <3>1, <3>2 DEF RowsAreSound
      <3>4. ASSUME NEW u \in Tasks, status'[u] \in Started PROVE DepsMet(u, status', deps')
        <4>1. DepsMet(u, status, deps) BY <3>1, <3>4 DEF DepsMetBeforeStart
        <4> QED BY <3>1, <3>2, <4>1, MetStaysMet
      <3> QED
        BY <3>3, <3>4 DEF DepsMetBeforeStart
    <2>17. CASE UNCHANGED vars
      BY <2>17 DEF vars, RowsAreSound, DepsMetBeforeStart
    <2> QED
      BY <2>1, <2>2, <2>3, <2>4, <2>5, <2>6, <2>7, <2>8, <2>9, <2>10, <2>11, <2>12, <2>13,
         <2>14, <2>15, <2>16, <2>17 DEF Next, ServerNext, CliNext
  <1>3. DepsInv => DepsMetBeforeStart /\ RowsAreSound
    BY DEF DepsInv
  <1> QED
    BY <1>1, <1>2, <1>3, TypeCorrect, PTL DEF Spec

-----------------------------------------------------------------------------
(* Finality. *)

(* A row may be behind its file in any workload.  What keeps the hook from *)
(* writing over a finished task is why it is behind: a row that still      *)
(* waits for dependencies while its file has moved on belongs to a task    *)
(* whose dependencies are met, and no call ends a dependency that is met.  *)
LateRows ==
    \A t \in Tasks :
        /\ rowDeps[t] \in {deps[t], {}}
        /\ rowStatus[t] \in DependencyTerminalStates => status[t] = rowStatus[t]
        /\ rowStatus[t] \in {"queued", "blocked"} /\ status[t] # rowStatus[t] =>
              DepsMet(t, status, deps)

EndsKept ==
    \A t \in Tasks : status[t] \in DependencyTerminalStates => status'[t] = status[t]

(* The tasks the hook promotes have not ended, whatever the rows say. *)
LEMMA UnblockedAreOpen ==
    ASSUME TypeOK, LateRows, NEW S \in SUBSET Tasks, NEW s,
           \A t \in S : status[t] \notin DependencyTerminalStates \cup {"absent"},
           NEW u \in Unblocked(S, s)
    PROVE  /\ u \in Tasks \ S /\ s \in DependencyTerminalStates
           /\ status[u] \notin DependencyTerminalStates
           /\ \A d \in deps[u] : d \in S \/ status[d] \in DependencyTerminalStates
  <1> USE DEF TypeOK
  <1>1. /\ u \in Tasks /\ s \in DependencyTerminalStates
        /\ UpsertedDeps(S)[u] \cap S # {}
        /\ Upserted(S, s)[u] \in {"queued", "blocked"}
        /\ DepsMet(u, Upserted(S, s), UpsertedDeps(S))
    BY DEF Unblocked, IsTaskDependencySatisfied
  <1>2. u \notin S /\ rowStatus[u] \in {"queued", "blocked"}
    BY <1>1 DEF Upserted, DependencyTerminalStates
  <1>3. UpsertedDeps(S)[u] = deps[u]
    BY <1>1, <1>2 DEF UpsertedDeps, LateRows
  <1>4. ~ DepsMet(u, status, deps)
    BY <1>1, <1>3 DEF DepsMet, Satisfied, IsTaskDependencySatisfied
  <1>5. status[u] \notin DependencyTerminalStates
    BY <1>1, <1>2, <1>4 DEF LateRows, DependencyTerminalStates
  <1>6. ASSUME NEW d \in deps[u], d \notin S PROVE status[d] \in DependencyTerminalStates
    <2>1. d \in Tasks /\ Upserted(S, s)[d] \in DependencyTerminalStates
      BY <1>1, <1>3 DEF DepsMet, Satisfied, IsTaskDependencySatisfied
    <2> QED
      BY <1>6, <2>1 DEF Upserted, LateRows
  <1> QED
    BY <1>1, <1>2, <1>5, <1>6

(* A write of the open tasks S together with new tasks N, which is what    *)
(* UpdateStatus and a decomposition come to, ends in good rows and takes   *)
(* no task out of a terminal status.                                       *)
LEMMA WriteKeepsEnds ==
    ASSUME TypeOK, LateRows, NEW S \in SUBSET Tasks, NEW s \in TaskStatuses,
           \A t \in S : status[t] \notin DependencyTerminalStates \cup {"absent"},
           NEW N \in SUBSET {t \in Tasks : status[t] = "absent"},
           status' = [u \in Tasks |-> IF u \in N THEN "queued" ELSE IF u \in S THEN s
                                      ELSE IF u \in Unblocked(S, s) THEN "ready"
                                      ELSE status[u]],
           rowStatus' = [u \in Tasks |-> IF u \in N THEN "queued" ELSE Upserted(S, s)[u]],
           rowDeps' = [u \in Tasks |-> IF u \in N THEN {} ELSE UpsertedDeps(S)[u]],
           \A u \in Tasks \ N : deps'[u] = deps[u]
    PROVE  LateRows' /\ EndsKept
  <1> USE DEF TypeOK
  <1>1. \A u \in Unblocked(S, s) :
           /\ u \in Tasks \ S /\ s \in DependencyTerminalStates
           /\ status[u] \notin DependencyTerminalStates
           /\ \A d \in deps[u] : d \in S \/ status[d] \in DependencyTerminalStates
    BY UnblockedAreOpen
  <1>2. EndsKept
    BY <1>1 DEF EndsKept, DependencyTerminalStates
  <1>3. \A u \in Tasks \ N : DepsMet(u, status, deps) => DepsMet(u, status', deps')
    BY <1>2 DEF EndsKept, DepsMet, Satisfied, IsTaskDependencySatisfied
  <1>4. \A u \in Unblocked(S, s) \ N : DepsMet(u, status', deps')
    <2> SUFFICES ASSUME NEW u \in Unblocked(S, s) \ N, NEW d \in deps[u]
                 PROVE  status'[d] \in DependencyTerminalStates
      BY <1>1 DEF DepsMet, Satisfied, IsTaskDependencySatisfied
    <2>1. d \in Tasks /\ d \notin N
      BY <1>1 DEF DependencyTerminalStates
    <2> QED
      BY <1>1, <1>2, <2>1 DEF EndsKept
  <1>5. ASSUME NEW t \in Tasks
        PROVE  /\ rowDeps'[t] \in {deps'[t], {}}
               /\ rowStatus'[t] \in DependencyTerminalStates => status'[t] = rowStatus'[t]
               /\ rowStatus'[t] \in {"queued", "blocked"} /\ status'[t] # rowStatus'[t] =>
                     DepsMet(t, status', deps')
    <2>1. CASE t \in N
      BY <2>1 DEF DependencyTerminalStates
    <2>2. CASE t \in S /\ t \notin N
      BY <2>2 DEF Upserted, UpsertedDeps
    <2>3. CASE t \notin S /\ t \notin N
      <3>1. rowStatus'[t] = rowStatus[t] /\ rowDeps'[t] = rowDeps[t] /\ deps'[t] = deps[t]
        BY <2>3 DEF Upserted, UpsertedDeps
      <3>2. rowStatus'[t] \in DependencyTerminalStates => status'[t] = rowStatus'[t]
        BY <1>2, <3>1 DEF LateRows, EndsKept
      <3>3. t \in Unblocked(S, s) \/ status'[t] = status[t]
        BY <2>3
      <3> QED
        BY <1>3, <1>4, <2>3, <3>1, <3>2, <3>3 DEF LateRows
    <2> QED
      BY <2>1, <2>2, <2>3
  <1> QED
    BY <1>2, <1>5 DEF LateRows

LEMMA UpdateStatusKeepsEnds ==
    ASSUME TypeOK, LateRows, UNCHANGED deps,
           NEW S \in SUBSET Tasks, NEW s \in TaskStatuses, UpdateStatus(S, s),
           \A t \in S : status[t] \notin DependencyTerminalStates \cup {"absent"}
    PROVE  LateRows' /\ EndsKept
  <1> DEFINE N == {}
  <1>1. N \in SUBSET {t \in Tasks : status[t] = "absent"}
    OBVIOUS
  <1>2. /\ status' = [u \in Tasks |-> IF u \in N THEN "queued" ELSE IF u \in S THEN s
                                      ELSE IF u \in Unblocked(S, s) THEN "ready"
                                      ELSE status[u]]
        /\ rowStatus' = [u \in Tasks |-> IF u \in N THEN "queued" ELSE Upserted(S, s)[u]]
        /\ rowDeps' = [u \in Tasks |-> IF u \in N THEN {} ELSE UpsertedDeps(S)[u]]
        /\ \A u \in Tasks \ N : deps'[u] = deps[u]
    BY DEF UpdateStatus, Upserted, UpsertedDeps
  <1> HIDE DEF N
  <1> QED
    BY <1>1, <1>2, WriteKeepsEnds

LEMMA TerminalTaskStates == TerminalStates("task") = DependencyTerminalStates
  BY DEF TerminalStates, DependencyTerminalStates

(* Promotable(S) is open whatever the cache says: the file is asked. *)
LEMMA PromotableIsOpen ==
    ASSUME NEW S \in SUBSET Tasks
    PROVE  /\ Promotable(S) \in SUBSET Tasks
           /\ \A t \in Promotable(S) : status[t] \notin DependencyTerminalStates \cup {"absent"}
  BY TaskTable DEF Promotable

(* One step, whichever it is. *)
LEMMA StepKeepsEnds ==
    ASSUME TypeOK, LateRows, Next PROVE LateRows' /\ EndsKept
  <1> USE BoardAssumption
  <1> DEFINE Goal == LateRows' /\ EndsKept
  <1>1. ASSUME NEW t \in Tasks, CreateTask(t) PROVE Goal
    <2>1. /\ status[t] = "absent" /\ {} \in SUBSET Tasks
          /\ status' = [status EXCEPT ![t] = "queued"] /\ deps' = [deps EXCEPT ![t] = {}]
          /\ rowStatus' = [rowStatus EXCEPT ![t] = "queued"]
          /\ rowDeps' = [rowDeps EXCEPT ![t] = {}]
      BY <1>1 DEF CreateTask
    <2>2. EndsKept
      BY <2>1 DEF TypeOK, EndsKept, DependencyTerminalStates
    <2>3. \A u \in Tasks \ {t} : DepsMet(u, status, deps) => DepsMet(u, status', deps')
      BY <2>1, <2>2 DEF TypeOK, EndsKept, DepsMet, Satisfied, IsTaskDependencySatisfied
    <2>4. LateRows'
      BY <2>1, <2>3 DEF TypeOK, LateRows, DependencyTerminalStates
    <2> QED
      BY <2>2, <2>4
  <1>2. ASSUME NEW t \in Tasks, Claim(t) PROVE Goal
    BY <1>2, UpdateStatusKeepsEnds
       DEF Claim, DispatchTask, TaskStatuses, DependencyTerminalStates
  <1>3. ASSUME NEW t \in Tasks, NEW s \in TaskStatuses, Finish(t, s) PROVE Goal
    BY <1>3, UpdateStatusKeepsEnds DEF Finish, CompleteTask, DependencyTerminalStates
  <1>4. ASSUME NEW t \in Tasks, FinishRefused(t) PROVE Goal
    BY <1>4, UpdateStatusKeepsEnds DEF FinishRefused, TaskStatuses, DependencyTerminalStates
  <1>5. ASSUME NEW t \in Tasks, NEW s \in TaskStatuses, Transition(t, s) PROVE Goal
    <2>1. status[t] \notin DependencyTerminalStates \cup {"absent"}
      BY <1>5, TaskTable DEF Transition
    <2> QED
      BY <1>5, <2>1, UpdateStatusKeepsEnds DEF Transition
  <1>6. ASSUME NEW t \in Tasks, NEW D \in DepLists, UpdateDeps(t, D) PROVE Goal
    <2>1. /\ deps' = [deps EXCEPT ![t] = D] /\ rowDeps' = [rowDeps EXCEPT ![t] = D]
          /\ rowStatus' = [rowStatus EXCEPT ![t] = status[t]] /\ status' = status
      BY <1>6 DEF UpdateDeps
    <2> QED
      BY <2>1 DEF TypeOK, LateRows, EndsKept, DepsMet
  <1>7. CASE WorkQueue
    <2> DEFINE P == Promotable(Tasks)
    <2>1. /\ P \in SUBSET Tasks /\ "ready" \in TaskStatuses
          /\ \A t \in P : status[t] \notin DependencyTerminalStates \cup {"absent"}
      BY PromotableIsOpen DEF TaskStatuses
    <2>2. UpdateStatus(P, "ready") /\ UNCHANGED deps
      BY <1>7 DEF WorkQueue
    <2> HIDE DEF P
    <2> QED
      BY <2>1, <2>2, UpdateStatusKeepsEnds
  <1>8. ASSUME NEW f \in Features, NEW S \in SUBSET Tasks, Dispatch(f, S) PROVE Goal
    <2> DEFINE moved == {t \in S : CanTransition("task", status[t], "active")}
    <2>1. /\ moved \in SUBSET Tasks /\ "active" \in TaskStatuses
          /\ \A t \in moved : status[t] \notin DependencyTerminalStates \cup {"absent"}
      BY TaskTable DEF TaskStatuses
    <2>2. UpdateStatus(moved, "active") /\ UNCHANGED deps
      BY <1>8 DEF Dispatch
    <2> HIDE DEF moved
    <2> QED
      BY <2>1, <2>2, UpdateStatusKeepsEnds
  <1>9. ASSUME NEW f \in Features, PromoteQueuedTasks(f) PROVE Goal
    <2> DEFINE P == Promotable({t \in Tasks : FeatureOf[t] = f})
    <2>1. /\ P \in SUBSET Tasks /\ "ready" \in TaskStatuses
          /\ \A t \in P : status[t] \notin DependencyTerminalStates \cup {"absent"}
      BY PromotableIsOpen DEF TaskStatuses
    <2>2. UpdateStatus(P, "ready") /\ UNCHANGED deps
      BY <1>9 DEF PromoteQueuedTasks
    <2> HIDE DEF P
    <2> QED
      BY <2>1, <2>2, UpdateStatusKeepsEnds
  <1>10. ASSUME NEW f \in Features, NEW N \in SUBSET {t \in Tasks : status[t] = "absent"},
                NEW D, DecomposeApply(f, N, D)
         PROVE  Goal
    <2> DEFINE S == {t \in Tasks : /\ FeatureOf[t] = f
                                   /\ ListStatus[t] = "queued"
                                   /\ CanTransition("task", status[t], "not-planned")}
    <2>1. /\ S \in SUBSET Tasks /\ "not-planned" \in TaskStatuses
          /\ \A t \in S : status[t] \notin DependencyTerminalStates \cup {"absent"}
      BY TaskTable DEF TaskStatuses
    <2>2. /\ status' = [u \in Tasks |-> IF u \in N THEN "queued"
                                        ELSE IF u \in S THEN "not-planned"
                                        ELSE IF u \in Unblocked(S, "not-planned") THEN "ready"
                                        ELSE status[u]]
          /\ rowStatus' = [u \in Tasks |-> IF u \in N THEN "queued"
                                           ELSE Upserted(S, "not-planned")[u]]
          /\ rowDeps' = [u \in Tasks |-> IF u \in N THEN {} ELSE UpsertedDeps(S)[u]]
          /\ \A u \in Tasks \ N : deps'[u] = deps[u]
      BY <1>10 DEF DecomposeApply
    <2> HIDE DEF S
    <2> QED
      BY <2>1, <2>2, WriteKeepsEnds
  <1>11. CASE Restart
    BY <1>11 DEF Restart, LateRows, EndsKept
  <1>12. CASE RestartCold
    BY <1>12 DEF RestartCold, LateRows, EndsKept, DependencyTerminalStates
  <1>13. CASE CommitState
    BY <1>13 DEF CommitState, LateRows, EndsKept
  <1>14. ASSUME NEW t \in Tasks, NEW s \in TaskStatuses, CliMove(t, s) PROVE Goal
    <2>1. /\ status[t] \in {"ready", "active"} /\ UNCHANGED <<deps, rowStatus, rowDeps>>
          /\ status' = [status EXCEPT ![t] = s]
      BY <1>14 DEF CliMove
    <2>2. EndsKept
      BY <2>1 DEF TypeOK, EndsKept, DependencyTerminalStates
    <2>3. \A u \in Tasks : DepsMet(u, status, deps) => DepsMet(u, status', deps')
      BY <2>1, <2>2, MetStaysMet DEF EndsKept
    <2>4. LateRows'
      BY <2>1, <2>3 DEF TypeOK, LateRows, DependencyTerminalStates
    <2> QED
      BY <2>2, <2>4
  <1>15. ASSUME NEW t \in Tasks, NEW s \in TaskStatuses, CliTransition(t, s) PROVE Goal
    <2>1. /\ UNCHANGED deps /\ rowDeps' = deps' /\ rowStatus' = status'
          /\ status' = IF CanTransition("task", status[t], s)
                       THEN [status EXCEPT ![t] = s] ELSE status
      BY <1>15 DEF CliTransition
    <2>2. EndsKept
      BY <2>1, TaskTable DEF TypeOK, EndsKept
    <2> QED
      BY <2>1, <2>2 DEF LateRows
  <1>16. CASE CliQueue
    <2> DEFINE P == {t \in Tasks : status[t] = "queued" /\ DepsMet(t, status, deps)}
    <2>1. /\ status' = [t \in Tasks |-> IF t \in P THEN "ready" ELSE status[t]]
          /\ UNCHANGED <<deps, rowStatus, rowDeps>>
      BY <1>16 DEF CliQueue
    <2>2. EndsKept
      BY <2>1 DEF EndsKept, DependencyTerminalStates
    <2>3. \A u \in Tasks : DepsMet(u, status, deps) => DepsMet(u, status', deps')
      BY <2>1, <2>2, MetStaysMet DEF EndsKept
    <2>4. ASSUME NEW t \in Tasks
          PROVE  /\ rowDeps'[t] \in {deps'[t], {}}
                 /\ rowStatus'[t] \in DependencyTerminalStates => status'[t] = rowStatus'[t]
                 /\ rowStatus'[t] \in {"queued", "blocked"} /\ status'[t] # rowStatus'[t] =>
                       DepsMet(t, status', deps')
      <3>1. rowDeps'[t] \in {deps'[t], {}}
        BY <2>1 DEF LateRows
      <3>2. rowStatus'[t] \in DependencyTerminalStates => status'[t] = rowStatus'[t]
        BY <2>1, <2>2 DEF LateRows, EndsKept
      <3>3. CASE t \in P
        BY <2>3, <3>1, <3>2, <3>3
      <3>4. CASE t \notin P
        BY <2>1, <2>3, <3>1, <3>2, <3>4 DEF LateRows
      <3> QED
        BY <3>3, <3>4
    <2>5. LateRows'
      BY <2>4 DEF LateRows
    <2> QED
      BY <2>2, <2>5
  <1> QED
    BY <1>1, <1>2, <1>3, <1>4, <1>5, <1>6, <1>7, <1>8, <1>9, <1>10, <1>11, <1>12, <1>13,
       <1>14, <1>15, <1>16 DEF Next, ServerNext, CliNext

(* Ended tasks stay ended, under every workload: forced promotions,        *)
(* rewritten dependencies, decompositions, cold caches and the command     *)
(* line included.  The hook overwrites a file without reading its status,  *)
(* and still never a finished one.                                         *)
THEOREM TerminalStaysFinal == Spec => TerminalIsFinal
  <1>1. Init => LateRows
    BY BoardAssumption DEF Init, LateRows, DependencyTerminalStates
  <1>2. TypeOK /\ LateRows /\ [Next]_vars => LateRows'
    BY StepKeepsEnds DEF vars, LateRows, DepsMet, Satisfied
  <1>3. TypeOK /\ LateRows /\ [Next]_vars =>
           [\A t \in Tasks : status[t] \in TerminalStates("task") => status'[t] = status[t]]_vars
    BY StepKeepsEnds, TerminalTaskStates DEF EndsKept
  <1> QED
    BY <1>1, <1>2, <1>3, TypeCorrect, PTL DEF Spec, TerminalIsFinal

-----------------------------------------------------------------------------
(* The cache of a server that owns the board. *)

(* The strengthening drops "warm": the cache is cold only while there is   *)
(* no task at all, so its rows are right then too.                         *)
RowsLag ==
    \A t \in Tasks :
        /\ \/ rowStatus[t] = status[t]
           \/ rowStatus[t] \in {"queued", "blocked"} /\ status[t] = "ready"
        /\ rowDeps[t] = deps[t]

LEMMA UpdateStatusKeepsLag ==
    ASSUME TypeOK, RowsLag, UNCHANGED deps,
           NEW S \in SUBSET Tasks, NEW s, UpdateStatus(S, s)
    PROVE  RowsLag'
  <1> SUFFICES ASSUME NEW t \in Tasks
               PROVE  /\ \/ rowStatus'[t] = status'[t]
                         \/ rowStatus'[t] \in {"queued", "blocked"} /\ status'[t] = "ready"
                      /\ rowDeps'[t] = deps'[t]
    BY DEF RowsLag
  <1> USE DEF TypeOK, UpdateStatus, Upserted, UpsertedDeps, RowsLag
  <1>1. CASE t \in S
    BY <1>1
  <1>2. CASE t \in Unblocked(S, s) /\ t \notin S
    <2>1. rowStatus[t] \in {"queued", "blocked"}
      BY <1>2 DEF Unblocked
    <2> QED
      BY <1>2, <2>1
  <1>3. CASE t \notin S /\ t \notin Unblocked(S, s)
    BY <1>3
  <1> QED
    BY <1>1, <1>2, <1>3

(* One step of a workload without the command line, decompositions and     *)
(* failed rebuilds: such a step is one of the server's.                    *)
LEMMA StepKeepsLag ==
    ASSUME TypeOK, RowsLag, Next, Ops \cap {"cli", "decompose", "cold"} = {}
    PROVE  RowsLag'
  <1> USE BoardAssumption
  <1>1. ASSUME NEW t \in Tasks, CreateTask(t) PROVE RowsLag'
    BY <1>1 DEF CreateTask, TypeOK, RowsLag
  <1>2. ASSUME NEW t \in Tasks, Claim(t) PROVE RowsLag'
    BY <1>2, UpdateStatusKeepsLag DEF Claim, DispatchTask
  <1>3. ASSUME NEW t \in Tasks, NEW s \in TaskStatuses, Finish(t, s) PROVE RowsLag'
    BY <1>3, UpdateStatusKeepsLag DEF Finish, CompleteTask
  <1>4. ASSUME NEW t \in Tasks, FinishRefused(t) PROVE RowsLag'
    BY <1>4, UpdateStatusKeepsLag DEF FinishRefused
  <1>5. ASSUME NEW t \in Tasks, NEW s \in TaskStatuses, Transition(t, s) PROVE RowsLag'
    BY <1>5, UpdateStatusKeepsLag DEF Transition
  <1>6. ASSUME NEW t \in Tasks, NEW D \in DepLists, UpdateDeps(t, D) PROVE RowsLag'
    <2>1. /\ deps' = [deps EXCEPT ![t] = D] /\ rowDeps' = [rowDeps EXCEPT ![t] = D]
          /\ rowStatus' = [rowStatus EXCEPT ![t] = status[t]] /\ status' = status
      BY <1>6 DEF UpdateDeps
    <2> QED
      BY <2>1 DEF TypeOK, RowsLag
  <1>7. CASE WorkQueue
    <2>1. Promotable(Tasks) \in SUBSET Tasks
      BY DEF Promotable
    <2> QED
      BY <1>7, <2>1, UpdateStatusKeepsLag DEF WorkQueue
  <1>8. ASSUME NEW f \in Features, NEW S \in SUBSET Tasks, Dispatch(f, S) PROVE RowsLag'
    <2> DEFINE moved == {t \in S : CanTransition("task", status[t], "active")}
    <2>1. moved \in SUBSET Tasks /\ UpdateStatus(moved, "active") /\ UNCHANGED deps
      BY <1>8 DEF Dispatch
    <2> HIDE DEF moved
    <2> QED
      BY <2>1, UpdateStatusKeepsLag
  <1>9. ASSUME NEW f \in Features, PromoteQueuedTasks(f) PROVE RowsLag'
    <2> DEFINE P == Promotable({t \in Tasks : FeatureOf[t] = f})
    <2>1. P \in SUBSET Tasks /\ UpdateStatus(P, "ready") /\ UNCHANGED deps
      BY <1>9 DEF PromoteQueuedTasks, Promotable
    <2> HIDE DEF P
    <2> QED
      BY <2>1, UpdateStatusKeepsLag
  <1>10. CASE Restart
    BY <1>10 DEF Restart, RowsLag
  <1>11. CASE CommitState
    BY <1>11 DEF CommitState, RowsLag
  <1>12. ASSUME NEW f, NEW N, NEW D, DecomposeApply(f, N, D) PROVE FALSE
    BY <1>12 DEF DecomposeApply
  <1>13. ~ RestartCold
    BY DEF RestartCold
  <1>14. ~ CliNext
    BY DEF CliNext, CliMove, CliTransition, CliQueue
  <1> QED
    BY <1>1, <1>2, <1>3, <1>4, <1>5, <1>6, <1>7, <1>8, <1>9, <1>10, <1>11, <1>12, <1>13,
       <1>14 DEF Next, ServerNext

(* A server that has the board to itself and starts with a good cache sees *)
(* every task as its file has it, except that a task the hook has promoted *)
(* since still looks as if it waited.  Forced promotions and rewritten     *)
(* dependency lists included.                                              *)
THEOREM CacheIsSound ==
    ASSUME Ops \cap {"cli", "decompose", "cold"} = {}
    PROVE  Spec => []CacheLagsOnlyByPromotion
  <1>1. Init => RowsLag
    BY DEF Init, RowsLag
  <1>2. TypeOK /\ RowsLag /\ [Next]_vars => RowsLag'
    BY StepKeepsLag DEF vars, RowsLag
  <1>3. RowsLag => CacheLagsOnlyByPromotion
    BY DEF RowsLag, CacheLagsOnlyByPromotion
  <1> QED
    BY <1>1, <1>2, <1>3, TypeCorrect, PTL DEF Spec

-----------------------------------------------------------------------------
(* Wake-ups. *)

(* When the last dependency of a queued task ends, the row of the task     *)
(* says queued and its dependencies, as RowsLag has it, and the rows of    *)
(* the others have ended with their files: the hook finds the task.        *)
LEMMA UpdateStatusWakes ==
    ASSUME TypeOK, RowsLag, NoWakeupLost, UNCHANGED deps,
           NEW S \in SUBSET Tasks, NEW s \in TaskStatuses \ {"queued"}, UpdateStatus(S, s),
           \A t \in S : status[t] \notin DependencyTerminalStates
    PROVE  NoWakeupLost'
  <1> USE DEF TypeOK
  <1> SUFFICES ASSUME NEW t \in Tasks, status'[t] = "queued", deps[t] # {},
                      DepsMet(t, status', deps')
               PROVE  FALSE
    BY DEF NoWakeupLost
  <1>1. t \notin S /\ t \notin Unblocked(S, s) /\ status[t] = "queued"
    BY DEF UpdateStatus
  <1>2. PICK d \in deps[t] : status[d] \notin DependencyTerminalStates
    BY <1>1 DEF NoWakeupLost, DepsMet, Satisfied, IsTaskDependencySatisfied
  <1>3. \A e \in deps[t] : e \in Tasks /\ status'[e] \in DependencyTerminalStates
    BY DEF DepsMet, Satisfied, IsTaskDependencySatisfied
  <1>4. d \in S /\ s \in DependencyTerminalStates
    BY <1>2, <1>3 DEF UpdateStatus, DependencyTerminalStates
  <1>5. Upserted(S, s)[t] = "queued" /\ UpsertedDeps(S)[t] = deps[t]
    BY <1>1 DEF RowsLag, Upserted, UpsertedDeps
  <1>6. ASSUME NEW e \in deps[t] PROVE Upserted(S, s)[e] \in DependencyTerminalStates
    <2>1. CASE e \in S
      BY <1>3, <1>4, <2>1 DEF Upserted
    <2>2. CASE e \notin S
      <3>1. status[e] \in DependencyTerminalStates
        BY <1>3, <2>2 DEF UpdateStatus, DependencyTerminalStates
      <3> QED
        BY <1>3, <2>2, <3>1 DEF RowsLag, Upserted, DependencyTerminalStates
    <2> QED
      BY <2>1, <2>2
  <1>7. t \in Unblocked(S, s)
    BY <1>2, <1>4, <1>5, <1>6
       DEF Unblocked, DepsMet, Satisfied, IsTaskDependencySatisfied
  <1> QED
    BY <1>1, <1>7

(* No queued task is left behind by the call that ended the last of its    *)
(* dependencies, for any backlog and any dependency graph, when the server *)
(* has the board to itself and nobody rewrites dependency lists.  A forced *)
(* promotion does no harm.                                                 *)
THEOREM WakeupsArrive ==
    ASSUME Ops \cap {"cli", "decompose", "cold", "update"} = {}
    PROVE  Spec => []NoWakeupLost
  <1> USE BoardAssumption
  <1>1. Init => RowsLag /\ NoWakeupLost
    <2>1. ASSUME Init, NEW t \in Tasks, status[t] = "queued", deps[t] # {}
          PROVE  ~ DepsMet(t, status, deps)
      <3>1. PICK d \in deps[t] : TRUE
        BY <2>1
      <3>2. d \in Tasks /\ status[d] \in {"queued", "absent"}
        BY <2>1, <3>1 DEF Init
      <3> QED
        BY <3>1, <3>2 DEF DepsMet, Satisfied, IsTaskDependencySatisfied,
                          DependencyTerminalStates
    <2> QED
      BY <2>1 DEF Init, RowsLag, NoWakeupLost
  <1>2. TypeOK /\ RowsLag /\ NoWakeupLost /\ [Next]_vars => RowsLag' /\ NoWakeupLost'
    <2> SUFFICES ASSUME TypeOK, RowsLag, NoWakeupLost, [Next]_vars
                 PROVE  RowsLag' /\ NoWakeupLost'
      OBVIOUS
    <2>1. RowsLag'
      BY StepKeepsLag DEF vars, RowsLag
    <2>2. ASSUME NEW t \in Tasks, CreateTask(t) PROVE NoWakeupLost'
      <3>1. /\ status[t] = "absent" /\ status' = [status EXCEPT ![t] = "queued"]
            /\ deps' = [deps EXCEPT ![t] = {}]
        BY <2>2 DEF CreateTask
      <3> SUFFICES ASSUME NEW u \in Tasks, status'[u] = "queued", deps'[u] # {}
                   PROVE  ~ DepsMet(u, status', deps')
        BY DEF NoWakeupLost
      <3>2. u # t /\ deps'[u] = deps[u] /\ ~ DepsMet(u, status, deps)
        BY <3>1 DEF TypeOK, NoWakeupLost
      <3> QED
        BY <3>1, <3>2 DEF TypeOK, DepsMet, Satisfied, IsTaskDependencySatisfied,
                          DependencyTerminalStates
    <2>3. ASSUME NEW t \in Tasks, Claim(t) PROVE NoWakeupLost'
      BY <2>3, UpdateStatusWakes DEF Claim, DispatchTask, TaskStatuses, DependencyTerminalStates
    <2>4. ASSUME NEW t \in Tasks, NEW s \in TaskStatuses, Finish(t, s) PROVE NoWakeupLost'
      BY <2>4, UpdateStatusWakes DEF Finish, CompleteTask, DependencyTerminalStates
    <2>5. ASSUME NEW t \in Tasks, FinishRefused(t) PROVE NoWakeupLost'
      BY <2>5, UpdateStatusWakes DEF FinishRefused, TaskStatuses, DependencyTerminalStates
    <2>6. ASSUME NEW t \in Tasks, NEW s \in TaskStatuses, Transition(t, s) PROVE NoWakeupLost'
      <3>1. status[t] \notin DependencyTerminalStates /\ s # "queued"
        BY <2>6, TaskTable DEF Transition
      <3> QED
        BY <2>6, <3>1, UpdateStatusWakes DEF Transition
    <2>7. ASSUME WorkQueue PROVE NoWakeupLost'
      <3>1. "ready" \in TaskStatuses \ {"queued"} /\ Tasks \in SUBSET Tasks
        BY DEF TaskStatuses
      <3> QED
        BY <2>7, <3>1, PromotableIsOpen, UpdateStatusWakes DEF WorkQueue
    <2>8. ASSUME NEW f \in Features, NEW S \in SUBSET Tasks, Dispatch(f, S) PROVE NoWakeupLost'
      <3> DEFINE moved == {t \in S : CanTransition("task", status[t], "active")}
      <3>1. /\ moved \in SUBSET Tasks /\ "active" \in TaskStatuses \ {"queued"}
            /\ \A t \in moved : status[t] \notin DependencyTerminalStates
        BY TaskTable DEF TaskStatuses
      <3>2. UpdateStatus(moved, "active") /\ UNCHANGED deps
        BY <2>8 DEF Dispatch
      <3> HIDE DEF moved
      <3> QED
        BY <3>1, <3>2, UpdateStatusWakes
    <2>9. ASSUME NEW f \in Features, PromoteQueuedTasks(f) PROVE NoWakeupLost'
      <3> DEFINE P == Promotable({t \in Tasks : FeatureOf[t] = f})
      <3>1. /\ P \in SUBSET Tasks /\ "ready" \in TaskStatuses \ {"queued"}
            /\ \A t \in P : status[t] \notin DependencyTerminalStates
        BY PromotableIsOpen DEF TaskStatuses
      <3>2. UpdateStatus(P, "ready") /\ UNCHANGED deps
        BY <2>9 DEF PromoteQueuedTasks
      <3> HIDE DEF P
      <3> QED
        BY <3>1, <3>2, UpdateStatusWakes
    <2>10. ASSUME Restart \/ CommitState \/ UNCHANGED vars PROVE NoWakeupLost'
      BY <2>10 DEF Restart, CommitState, vars, NoWakeupLost, DepsMet, Satisfied
    <2>11. ASSUME NEW t, NEW D, UpdateDeps(t, D) PROVE FALSE
      BY <2>11 DEF UpdateDeps
    <2>12. ASSUME NEW f, NEW N, NEW D, DecomposeApply(f, N, D) PROVE FALSE
      BY <2>12 DEF DecomposeApply
    <2>13. ~ RestartCold /\ ~ CliNext
      BY DEF RestartCold, CliNext, CliMove, CliTransition, CliQueue
    <2> QED
      BY <2>1, <2>2, <2>3, <2>4, <2>5, <2>6, <2>7, <2>8, <2>9, <2>10, <2>11, <2>12, <2>13
         DEF Next, ServerNext
  <1> QED
    BY <1>1, <1>2, TypeCorrect, PTL DEF Spec
=============================================================================
