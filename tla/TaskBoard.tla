----------------------------- MODULE TaskBoard -----------------------------
(***************************************************************************)
(* The task board: the task files under .kbz/state/tasks, the derived      *)
(* SQLite cache beside them, and every tool call and command that moves a  *)
(* task.  A step is one whole call, run to its end with nobody else        *)
(* running; module TaskHandlers takes the same calls apart.                *)
(*                                                                         *)
(* A task exists in two places.  Its YAML file is the truth: status and    *)
(* deps.  Its cache row (rowStatus and rowDeps) is what List answers from  *)
(* once the cache is warm, and not every write of a file refreshes the     *)
(* row.  Which decision reads which copy is what this module is about.     *)
(*                                                                         *)
(* A feature is taken to be in a working stage (developing, needs-rework), *)
(* so the stage check a claim makes always lets it through.                *)
(***************************************************************************)
EXTENDS Lifecycle

CONSTANTS
    Tasks,        \* task IDs that may come to exist
    Features,
    FeatureOf,    \* the parent feature of each task
    Backlog,      \* the tasks there are when the server first starts ...
    InitDeps,     \* ... and the depends_on list of each
    DepLists,     \* the depends_on lists callers write
    Ops,          \* the operations of the workload under study
    GitTracked    \* is .kbz/ inside a Git working tree?

AllOps == {"create", "claim", "finish", "transition", "force", "update", "queue",
           "dispatch", "promote", "decompose", "restart", "cold", "cli"}

ASSUME BoardAssumption ==
    /\ FeatureOf \in [Tasks -> Features]
    /\ Backlog \subseteq Tasks
    /\ InitDeps \in [Tasks -> SUBSET Tasks]
    /\ DepLists \subseteq SUBSET Tasks
    /\ Ops \subseteq AllOps
    /\ GitTracked \in BOOLEAN

VARIABLES
    status,      \* the status in each task file ("absent": no file)
    deps,        \* the depends_on list in each task file
    rowStatus,   \* the same two fields in the cache
    rowDeps,
    warm,        \* may List answer from the cache?
    dirty,       \* does the working tree hold uncommitted changes to .kbz/?
    answer       \* <<the ready list>> after a call for it, <<>> after any other

vars == <<status, deps, rowStatus, rowDeps, warm, dirty, answer>>

TaskStatuses ==
    {"absent", "queued", "ready", "active", "blocked", "needs-review",
     "needs-rework", "done", "not-planned", "duplicate"}

TypeOK ==
    /\ status    \in [Tasks -> TaskStatuses]
    /\ deps      \in [Tasks -> SUBSET Tasks]
    /\ rowStatus \in [Tasks -> TaskStatuses]
    /\ rowDeps   \in [Tasks -> SUBSET Tasks]
    /\ warm   \in BOOLEAN
    /\ dirty  \in BOOLEAN
    /\ answer \in {<<>>} \cup {<<S>> : S \in SUBSET Tasks}

-----------------------------------------------------------------------------
(* Reading the board. *)

Satisfied(t, st) == IsTaskDependencySatisfied(st[t])

(* ValidateTaskQueuedToReady and allDepsTerminal: the same test.  A task   *)
(* the index does not know is "absent", and so blocks.                     *)
DepsMet(t, st, dp) == \A d \in dp[t] : Satisfied(d, st)

(* What List answers with: the cache when it is warm, the files otherwise. *)
ListStatus == IF warm THEN rowStatus ELSE status
ListDeps   == IF warm THEN rowDeps   ELSE deps

-----------------------------------------------------------------------------
(* Writing the board. *)

(* The cache rows once the tasks S have been written with status s and     *)
(* upserted.                                                               *)
Upserted(S, s) == [u \in Tasks |-> IF u \in S THEN s ELSE rowStatus[u]]
UpsertedDeps(S) == [u \in Tasks |-> IF u \in S THEN deps[u] ELSE rowDeps[u]]

(* Ways to get the hook wrong: promote when any dependency is met, promote *)
(* a task whatever its status, or judge by the rows before the upsert.     *)
UnblockedByAny(S, s) ==
    IF ~ IsTaskDependencySatisfied(s) THEN {}
    ELSE { u \in Tasks : /\ UpsertedDeps(S)[u] \cap S # {}
                         /\ Upserted(S, s)[u] \in {"queued", "blocked"} }

UnblockedFromAnyStatus(S, s) ==
    IF ~ IsTaskDependencySatisfied(s) THEN {}
    ELSE { u \in Tasks : /\ UpsertedDeps(S)[u] \cap S # {}
                         /\ DepsMet(u, Upserted(S, s), UpsertedDeps(S)) }

UnblockedBeforeUpsert(S, s) ==
    IF ~ IsTaskDependencySatisfied(s) THEN {}
    ELSE { u \in Tasks : /\ rowDeps[u] \cap S # {}
                         /\ rowStatus[u] \in {"queued", "blocked"}
                         /\ DepsMet(u, rowStatus, rowDeps) }

(* The dependency hook: the tasks it promotes once the tasks S have status *)
(* s.  It lists the tasks, which the upsert has made a read of the cache.  *)
Unblocked(S, s) ==
    IF ~ IsTaskDependencySatisfied(s) THEN {}
    ELSE { u \in Tasks :
              /\ UpsertedDeps(S)[u] \cap S # {}
              /\ Upserted(S, s)[u] \in {"queued", "blocked"}
              /\ DepsMet(u, Upserted(S, s), UpsertedDeps(S)) }

(* UpdateStatus for each task of S, through a service that has the cache   *)
(* and the hooks: the file, the row, and the dependency hook, which writes *)
(* files behind the cache's back whatever status they hold.                *)
UpdateStatus(S, s) ==
    /\ status' = [u \in Tasks |->
                    IF u \in S THEN s
                    ELSE IF u \in Unblocked(S, s) THEN "ready" ELSE status[u]]
    /\ rowStatus' = Upserted(S, s)
    /\ rowDeps'   = UpsertedDeps(S)
    /\ warm' = (warm \/ S # {})

(* A call that ends with a best-effort commit of .kbz/: the commit may     *)
(* fail, and finish may write the feature after it.                        *)
Commit == dirty' \in BOOLEAN

Touches(S) == dirty' = (dirty \/ S # {})

-----------------------------------------------------------------------------
(* The server's tools. *)

(* entity(action: create, type: task). *)
CreateTask(t) ==
    /\ "create" \in Ops
    /\ status[t] = "absent"
    /\ status'    = [status EXCEPT ![t] = "queued"]
    /\ deps'      = [deps EXCEPT ![t] = {}]
    /\ rowStatus' = [rowStatus EXCEPT ![t] = "queued"]
    /\ rowDeps'   = [rowDeps EXCEPT ![t] = {}]
    /\ warm' = TRUE
    /\ Commit
    /\ answer' = <<>>

(* DispatchTask: the status and the dependencies are read from the files.  *)
DispatchTask(t) ==
    /\ status[t] = "ready"
    /\ DepsMet(t, status, deps)
    /\ UpdateStatus({t}, "active")

(* next(id): nothing is claimed while .kbz/ holds uncommitted changes, and *)
(* the claim is not committed.  Claiming an active task again changes      *)
(* nothing.                                                                *)
Claim(t) ==
    /\ "claim" \in Ops
    /\ ~ (GitTracked /\ dirty)
    /\ DispatchTask(t)
    /\ Touches({t})
    /\ answer' = <<>>
    /\ UNCHANGED deps

(* CompleteTask: after the transition it writes the completion fields and  *)
(* refreshes the row.                                                      *)
CompleteTask(t, s) ==
    /\ s \in {"done", "needs-review"}
    /\ UpdateStatus({t}, s)

(* finish(task_id): a ready task goes through active.                      *)
Finish(t, s) ==
    /\ "finish" \in Ops
    /\ status[t] \in {"ready", "active"}
    /\ CompleteTask(t, s)
    /\ Commit
    /\ answer' = <<>>
    /\ UNCHANGED deps

(* finish with a to_status it does not know: the ready task has been moved *)
(* to active by the time CompleteTask refuses, and stays there.            *)
FinishRefused(t) ==
    /\ "finish" \in Ops
    /\ status[t] = "ready"
    /\ UpdateStatus({t}, "active")
    /\ Touches({t})
    /\ answer' = <<>>
    /\ UNCHANGED deps

(* entity(action: transition) on a task.  The table alone decides: nothing *)
(* looks at dependencies, so queued -> ready can be forced by hand.        *)
Transition(t, s) ==
    /\ IF <<status[t], s>> = <<"queued", "ready">>
         THEN "force" \in Ops ELSE "transition" \in Ops
    /\ CanTransition("task", status[t], s)
    /\ UpdateStatus({t}, s)
    /\ Commit
    /\ answer' = <<>>
    /\ UNCHANGED deps

(* Ways to get it wrong: forget the row, or keep a slug nobody resolved. *)
UpdateDepsUncached(t, D) ==
    /\ "update" \in Ops
    /\ status[t] # "absent"
    /\ D # {}
    /\ deps' = [deps EXCEPT ![t] = D]
    /\ dirty' = TRUE
    /\ answer' = <<>>
    /\ UNCHANGED <<status, rowStatus, rowDeps, warm>>

UpdateDepsUnresolved(t, D) ==
    /\ "update" \in Ops
    /\ status[t] # "absent"
    /\ deps' = [deps EXCEPT ![t] = D \cup {"a-slug"}]
    /\ dirty' = TRUE
    /\ answer' = <<>>
    /\ UNCHANGED <<status, rowStatus, rowDeps, warm>>

(* entity(action: update, depends_on: D): an empty list means no change,   *)
(* and nothing forbids a cycle.  Update does not commit.                   *)
UpdateDeps(t, D) ==
    /\ "update" \in Ops
    /\ status[t] # "absent"
    /\ D # {}
    /\ deps' = [deps EXCEPT ![t] = D]
    /\ rowStatus' = [rowStatus EXCEPT ![t] = status[t]]
    /\ rowDeps'   = [rowDeps EXCEPT ![t] = D]
    /\ warm' = TRUE
    /\ dirty' = TRUE
    /\ answer' = <<>>
    /\ UNCHANGED status

(* The promotion WorkQueue and PromoteQueuedTasks share: who is eligible   *)
(* is read from List, whether the move is legal from the file.             *)
Promotable(S) ==
    {t \in S : /\ ListStatus[t] = "queued"
               /\ DepsMet(t, ListStatus, ListDeps)
               /\ CanTransition("task", status[t], "ready")}

(* next() without an id: promote, list again, answer with the ready tasks. *)
(* It never commits what it promoted.                                      *)
WorkQueue ==
    /\ "queue" \in Ops
    /\ UpdateStatus(Promotable(Tasks), "ready")
    /\ Touches(Promotable(Tasks))
    /\ answer' = <<{t \in Tasks : ListStatus'[t] = "ready"}>>
    /\ UNCHANGED deps

(* develop(action: dispatch) for feature f: of the ready tasks the cache    *)
(* shows, S is what the conflict analysis lets through.                    *)
Dispatch(f, S) ==
    /\ "dispatch" \in Ops
    /\ \A t \in S : /\ FeatureOf[t] = f
                    /\ ListStatus[t] = "ready"
                    /\ DepsMet(t, ListStatus, ListDeps)
    /\ LET moved == {t \in S : CanTransition("task", status[t], "active")}
       IN  UpdateStatus(moved, "active") /\ Touches(moved)
    /\ answer' = <<>>
    /\ UNCHANGED deps

(* The feature promotion hook, when feature f enters developing.           *)
PromoteQueuedTasks(f) ==
    /\ "promote" \in Ops
    /\ UpdateStatus(Promotable({t \in Tasks : FeatureOf[t] = f}), "ready")
    /\ Commit
    /\ answer' = <<>>
    /\ UNCHANGED deps

(* decompose(action: apply) for feature f, with new tasks N whose          *)
(* dependencies are D: the tasks List calls queued are superseded, the new *)
(* ones created, and their depends_on lists written straight to the files, *)
(* past the cache.  Creation may fail at any task: the ones before it stay, *)
(* with the supersessions and without dependencies (D[t] = {}).            *)
DecomposeApply(f, N, D) ==
    LET superseded == {t \in Tasks : /\ FeatureOf[t] = f
                                     /\ ListStatus[t] = "queued"
                                     /\ CanTransition("task", status[t], "not-planned")}
        promoted == Unblocked(superseded, "not-planned")
    IN  /\ "decompose" \in Ops
        /\ \A t \in N : FeatureOf[t] = f /\ status[t] = "absent"
        /\ status' = [u \in Tasks |->
                        IF u \in N THEN "queued"
                        ELSE IF u \in superseded THEN "not-planned"
                        ELSE IF u \in promoted THEN "ready" ELSE status[u]]
        /\ deps' = [u \in Tasks |-> IF u \in N THEN D[u] ELSE deps[u]]
        /\ rowStatus' = [u \in Tasks |->
                           IF u \in N THEN "queued"
                           ELSE Upserted(superseded, "not-planned")[u]]
        /\ rowDeps' = [u \in Tasks |->
                         IF u \in N THEN {} ELSE UpsertedDeps(superseded)[u]]
        /\ warm' = (warm \/ superseded \cup N # {})
        /\ Commit
        /\ answer' = <<>>

-----------------------------------------------------------------------------
(* The server process. *)

(* The server starts, with the cache rebuilt from the files. *)
Restart ==
    /\ "restart" \in Ops
    /\ rowStatus' = status
    /\ rowDeps' = deps
    /\ warm' = \E t \in Tasks : status[t] # "absent"
    /\ answer' = <<>>
    /\ UNCHANGED <<status, deps, dirty>>

(* The server starts and the rebuild fails, as one unreadable entity file  *)
(* makes it: the rows of the session before stay, or there are none if the *)
(* cache file is new, and List reads the files until the first upsert.     *)
RestartCold ==
    /\ "cold" \in Ops
    /\ \/ UNCHANGED <<rowStatus, rowDeps>>
       \/ /\ rowStatus' = [t \in Tasks |-> "absent"]
          /\ rowDeps' = [t \in Tasks |-> {}]
    /\ warm' = FALSE
    /\ answer' = <<>>
    /\ UNCHANGED <<status, deps, dirty>>

-----------------------------------------------------------------------------
(* The command line, a process of its own beside the server. *)

(* kbz next <id>, kbz finish and kbz task review: a service with neither    *)
(* cache nor hooks, and no look at the dependencies.                       *)
CliMove(t, s) ==
    /\ "cli" \in Ops
    /\ \/ status[t] = "ready"  /\ s = "active"
       \/ status[t] \in {"ready", "active"} /\ s \in {"done", "needs-review"}
       \/ status[t] = "active" /\ s \in {"needs-review", "needs-rework"}
    /\ status' = [status EXCEPT ![t] = s]
    /\ dirty' = TRUE
    /\ answer' = <<>>
    /\ UNCHANGED <<deps, rowStatus, rowDeps, warm>>

(* kbz next without an id and kbz queue: WorkQueue over the files. *)
CliQueue ==
    LET P == {t \in Tasks : status[t] = "queued" /\ DepsMet(t, status, deps)}
    IN  /\ "cli" \in Ops
        /\ status' = [t \in Tasks |-> IF t \in P THEN "ready" ELSE status[t]]
        /\ Touches(P)
        /\ answer' = <<{t \in Tasks : status'[t] = "ready"}>>
        /\ UNCHANGED <<deps, rowStatus, rowDeps, warm>>

(* kbz entity transition: rebuilds the cache file the server shares from   *)
(* the task files, then moves the task, if the table lets it, without any  *)
(* hook.                                                                   *)
CliTransition(t, s) ==
    /\ "cli" \in Ops
    /\ <<status[t], s>> = <<"queued", "ready">> => "force" \in Ops
    /\ status' = IF CanTransition("task", status[t], s)
                 THEN [status EXCEPT ![t] = s] ELSE status
    /\ rowStatus' = status'
    /\ rowDeps' = deps
    /\ dirty' = (dirty \/ status' # status)
    /\ answer' = <<>>
    /\ UNCHANGED <<deps, warm>>

(* Somebody commits .kbz/: the handoff tool does before it renders a       *)
(* prompt, and so may the user.                                            *)
CommitState ==
    /\ dirty
    /\ dirty' = FALSE
    /\ answer' = <<>>
    /\ UNCHANGED <<status, deps, rowStatus, rowDeps, warm>>

-----------------------------------------------------------------------------

(* The server has started on a backlog of queued tasks. *)
Init ==
    /\ status = [t \in Tasks |-> IF t \in Backlog THEN "queued" ELSE "absent"]
    /\ deps   = [t \in Tasks |-> IF t \in Backlog THEN InitDeps[t] ELSE {}]
    /\ rowStatus = status
    /\ rowDeps = deps
    /\ warm = (Backlog # {})
    /\ dirty = FALSE
    /\ answer = <<>>

ServerNext ==
    \/ \E t \in Tasks :
          \/ CreateTask(t)
          \/ Claim(t)
          \/ FinishRefused(t)
          \/ \E s \in TaskStatuses : Finish(t, s) \/ Transition(t, s)
          \/ \E D \in DepLists : UpdateDeps(t, D)
    \/ WorkQueue
    \/ \E f \in Features :
          \/ PromoteQueuedTasks(f)
          \/ \E S \in SUBSET Tasks : Dispatch(f, S)
          \/ \E N \in SUBSET {t \in Tasks : status[t] = "absent"} :
                \E D \in [N -> DepLists \cup {{}}] : DecomposeApply(f, N, D)
    \/ Restart
    \/ RestartCold
    \/ CommitState

CliNext ==
    \/ \E t \in Tasks : \E s \in TaskStatuses : CliMove(t, s) \/ CliTransition(t, s)
    \/ CliQueue

Next == ServerNext \/ CliNext

Spec == Init /\ [][Next]_vars

-----------------------------------------------------------------------------
(* What the board promises. *)

Started ==
    {"ready", "active", "blocked", "needs-review", "needs-rework", "done"}

(* No task is ready, under way or done before every task in its depends_on *)
(* list has reached a terminal status, whichever copy of the board each    *)
(* promotion was decided on.                                               *)
DepsMetBeforeStart ==
    \A t \in Tasks : status[t] \in Started => DepsMet(t, status, deps)

(* A row of a warm cache differs from its file in one way only: the hook   *)
(* has promoted the task since.  A status that satisfies a dependency is   *)
(* never reported early, nor a finished task as open.                      *)
CacheLagsOnlyByPromotion ==
    warm => \A t \in Tasks :
        /\ \/ rowStatus[t] = status[t]
           \/ rowStatus[t] \in {"queued", "blocked"} /\ status[t] = "ready"
        /\ rowDeps[t] = deps[t]

(* What makes that so: however stale a row is, it has the dependencies of  *)
(* the file, a terminal status in it is the status of the file, and a task *)
(* that was dropped is never shown as waiting.  (Cold starts and the       *)
(* command line included; not for what a caller forces or rewrites.)       *)
RowsAreSound ==
    \A t \in Tasks :
        /\ rowStatus[t] # "absent" => rowDeps[t] = deps[t]
        /\ rowStatus[t] \in DependencyTerminalStates => status[t] = rowStatus[t]
        /\ status[t] \in {"not-planned", "duplicate"} =>
              rowStatus[t] \in {"absent", status[t]}

(* No wake-up is lost: a queued task that was given dependencies is still  *)
(* waiting for one of them, because the call that finished the last one    *)
(* also promoted it.                                                       *)
NoWakeupLost ==
    \A t \in Tasks : status[t] = "queued" /\ deps[t] # {} => ~ DepsMet(t, status, deps)

(* The hook writes "ready" over whatever status the file holds, and        *)
(* WorkQueue may move anything the table allows; still no call ever takes  *)
(* a task out of a terminal status.                                        *)
TerminalIsFinal ==
    [][\A t \in Tasks : status[t] \in TerminalStates("task") => status'[t] = status[t]]_vars
=============================================================================
