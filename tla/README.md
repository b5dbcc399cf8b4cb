# Kanbanzai in TLA+

Kanbanzai is a workflow server for teams of people and AI agents. It is a Go
program: an MCP server (`internal/mcp`) and a command line (`cmd/kbz`) over one
service layer (`internal/service`). Its state is a tree of YAML files under
`.kbz/`, kept in Git, with a derived SQLite cache beside it. This directory holds
TLA+ models of the parts of it in which the order of things matters, the TLC
configurations that check them, and proofs that TLAPS checks.

    tlc -workers 2 -config board_auto.cfg MC_TaskBoard     # any run of the table below
    tlapm TaskBoard_proofs.tla

Line numbers refer to the source as it is beside this directory.
`PROJECT.json` maps every definition to the lines it stands for, and lists the
components, the hazards and which property watches which hazard.

## 1. The system

| Component | State it keeps | Operations | What is hard |
|---|---|---|---|
| Lifecycle tables (`validate/lifecycle.go`) | none | entry, terminal, allowed transition | everything else trusts them |
| Task board (`entities.go`, `queue.go`, `dispatch.go`, `dependency_hook.go`; tools `next`, `finish`, `entity`, `develop`, `decompose`) | a file for each task, a cache row for each, a warm flag, the dirtiness of `.kbz/` | create, claim, finish, transition, rewrite dependencies, queue, dispatch, promote, decompose, restart | two copies of the truth; hooks; several processes; death between two writes |
| Entity store (`storage/entity_store.go`) | files | load with hash, compare, rename | check and write are not one step |
| Features (`entity_tool.go`, `advance.go`, `prereq.go`, `gate/*`) | stage, review count, blocked reason, overrides | transition, advance over several stages, close-out, merge | seven ways for a feature to move, each past a different part of the gates |
| Plans, batches, identifiers (`plans.go`, `strategic_plans.go`, `entity_children.go`, `coordination/db.go`) | records with counters and parents | create, edit, reparent, rename, close | writes without a hash; calls of several writes |
| Bugs, incidents, checkpoints | records of their own | report, link, move, answer | links to other records, second writes |
| Delivery: worktrees, merge, pull requests, cleanup (`worktree/*`, `merge/*`, `cleanup/*`, `merge_tool.go`) | worktree records, branch, directory, pull request | create, update, merge, remove, clean up, collect | chains of git commands and writes with nothing to hold them together |
| Documents (`documents.go`) | record of each document beside the file people edit | submit, import, approve, supersede, refresh, move, delete | record and file change independently; calls of two writes; they move their owner |
| Document index (`docint/*`, `intelligence.go`) | index files, graph, concepts, database | ingest, classify, delete, rebuild, search | four copies, three of them written whole |
| Knowledge (`knowledge.go`, `knowledge/*`, `context/surfacer.go`) | entries with counters and status | contribute, report, confirm, flag, retire, promote, compact, prune, resolve, surface | housekeeping decides on a snapshot and writes entry by entry |
| Decomposition (`decompose.go`) | a proposal the agent carries | propose, review, apply | documents change in between; cycles |
| Estimates and conflicts (`estimation.go`, `conflict.go`) | estimates in the records, rows in the cache | set, roll-up, pairwise verdict | sums of several listings, of rows that not every write refreshes; graph search |
| Context (`assembly.go`, `pipeline.go`, roles, skills, bindings) | none | packet, prompt | a budget; pairing of lists; what is missing |
| Init, install, doctor (`kbzinit/*`, `kbzdoctor/*`) | files in the repository | init, update, check | a run may be cut anywhere, and is run again by another version |
| Git state (`git/commit.go`, `dirty.go`) | dirty or not | best-effort commits, refusal to claim | a loop that waits for a commit it does not make |
| Health, status, retrospectives, action log, schema | none | reports | nothing reads them back |

How they interact: a tool call runs in a goroutine of the server, and nothing
serialises calls (`server.go`; a call that takes five seconds is answered with
an error and runs on). Several servers and command lines may work on one
`.kbz/`. `UpdateStatus` writes a file, refreshes its cache row and then calls a
hook: the dependency hook for tasks, the promotion hook when a feature enters
development, the worktree hook when work starts. Documents call another hook,
which moves features and batches. The end of a task may move its feature; the
end of a feature may close its batch; a merge moves its feature.

What makes each part correct, and was worth checking:

- *task board*: nothing starts before its dependencies have ended; a task
  whose last dependency ends is woken; ended tasks stay ended; a stale cache
  row never leads to a wrong move;
- *handlers*: the same between any two steps of concurrent calls, after any
  crash; an agent that keeps dispatching finishes the board;
- *features*: no route through the gates skips planning, review happens on
  finished work, the review cap is beyond override, what has ended stays so,
  the batch closes last;
- *records*: a number names one feature; plans form a tree; a record stays
  found through a rename; what a call writes in a second step follows;
- *delivery*: one active worktree; no directory without a record; no commit is
  deleted with its branch; what is merged is cleaned up in the end;
- *documents*: an approval is of the words that were approved; superseded is
  final; the gap report agrees with the gates;
- *index*: database and files answer alike; concepts lead to their sections;
- *knowledge*: counters and status agree; compaction loses nothing; retired is
  final; the server's copy is current;
- *derived answers*: plans that passed review cannot wait in a circle, progress
  never exceeds the total, pairs called safe are apart, a packet fits its
  budget, a prompt pairs a role with its skill;
- *install*: the sentinel means complete, but for a rollback that was cut
  (section 5), success means current, people's files are left alone.

## 2. Modules

| Module | What it stands for | A step is |
|---|---|---|
| `Lifecycle` | the transition tables, as sets of edges | |
| `TaskBoard` | service and tools of the task board | a whole call |
| `TaskHandlers` | the same calls | a read, compare, rename, upsert or hook write |
| `TaskHandlersSerial` | one session of `TaskHandlers` implements `TaskBoard` | |
| `FeatureFlow` | stages, gates, overrides, batch, documents | a whole call |
| `Delivery` | worktree, merge, pull request, cleanup, bugs | a git command or a write |
| `Documents` | document records and the files they stand for | a call, or half of one that writes twice |
| `Knowledge` | the knowledge base and the surfacer | a call, or a write of housekeeping |
| `Records` | plans, batches, features, numbers, checkpoints, incidents | a load and write, or half of one without a hash |
| `DocIndex` | document intelligence | a write of one of the four stores |
| `Install` | init and doctor | the write of a file |
| `Decompose` | propose, review, apply | a call |
| `Workload` | estimates and conflicts | a listing of a roll-up; a conflict check |
| `Packets` | what `next` and `handoff` answer | resolve, claim, assemble |
| `TaskBoard_proofs`, `TaskHandlers_proofs`, `FeatureFlow_proofs`, `Delivery_proofs`, `Documents_proofs`, `Install_proofs`, `Records_proofs`, `Stores_proofs` | the theorems of section 4 | |
| `MC_Stores` | composes `Knowledge`, `Records`, `Decompose`, `Workload`, `Packets` | |
| `MC_Library` | composes `Documents`, `DocIndex`, `Install` | |
| other `MC_*` | instances for TLC | |

**TaskBoard.** `status` and `deps` are the task files, `rowStatus` and `rowDeps`
the cache rows, `warm` says whether `List` may answer from them. The point of
the module is that each action names the copy it reads: a claim reads files, the
queue chooses by rows and moves by files, the hook chooses by rows (just
refreshed) and writes files without refreshing rows. `UpdateStatus(S, s)` is the
whole of `EntityService.UpdateStatus` for the tasks of `S`, hook included.
`Ops` selects the operations of a workload: "update" (rewritten `depends_on`),
"force" (queued to ready by hand) and "decompose" make some properties false by
request, and are switched off where that would be the only result.

**TaskHandlers.** A session serves one call at a time; a call is a sequence of
instructions, and a write takes three steps: `Load` (with the transition check),
`Verify` (the hash), `Rename`. Whatever the code still does after a write (upsert,
hook) is put at the front of the rest of the call. `Crash` drops the call and
starts the rebuild a new process makes, which may crash too.

**FeatureFlow.** Each of `Transition`, `Advance`, `CloseOut`, `MergeFeature`,
`TransitionTask` and the document actions is a whole call with all its checks,
records and side effects on the batch. A gate comes from
`stage-bindings.yaml` when it is there (`registry`) and names the stage, and from
`prereq.go` otherwise. An override is recorded before the table is asked, so a
refused move may leave a record; the model keeps that. `Advance` is written as
the stage at which the walk ends rather than as a loop: nothing the gates look
at changes on the way.

**Delivery.** `recs` are the worktree records with the version a write compares,
`dir` and `edited` the directory, and the branch is counted: `tip` commits of its
own, `landed` of them in the default branch by content, `rooted` by ancestry (a
squash lands without rooting, which is why git refuses to delete such a branch
and the code forces it). `call[c].at` is where a caller is in its chain; the
chain goes on with the record and the status it read at the start. Every write of a
whole record is a compare and a write in two steps (`MarkMerged` and `WriteMerged`,
`UpdateCompares` and `UpdateWrites`), and the compare is skipped when the file is gone,
so that a write may bring a removed record back. A gate of the
repository that cannot be decided from this state (tests, health) may go either
way.

**Documents.** A file is words, layout and status line; the content hash tells
all three apart, the canonical hash ignores layout. `pend` holds the second
halves of calls (the status line patched after an approval, the old document
after a supersession, the record after a rename of the file), and other calls and
the authors come in between. `told` remembers which words an approval was of.

**Knowledge.** `kb[i]` is an entry with status, counters, tier and age. A call on
one entry is a step, because the store compares hashes. Compaction, pruning and
conflict resolution keep what they decided in `kpend` and write it one by one.
`surfacer` is the server's copy with the token it was read under. The Wilson
score is computed in thousandths.

**Records.** Batch and plan writes carry no hash, so load and write are two
steps; feature and task writes compare, so they are one. `calls[w]` is what
worker `w` has under way. Features have a file per slug (a rename writes the new
one before it removes the old) and a cache row.

**DocIndex.** `Sections` finds the sections of a text, `BuildGraphEdges` the edges;
an ingest writes index, graph and rows, a classification index, concepts and
rows, and each load-change-write of a whole file is two steps. `orphan` is the
database file a running server still holds after `kbz rebuild-index` removed it.
`DeleteIndexed` takes the file, the record and the index file, and leaves the graph,
the registry and the rows; it is one step, of which a failure may leave the rest out.
`unsure` is a history variable: the documents whose last call was cut, failed or
overlapped, of which nothing is promised.

**Install.** `run.todo` is the list of files init still has to write, in the
order of the code, with what a rollback would remove after each; `FailStep`
leaves a file whole or empty; `StartRun` may follow with another version. `UndoStep`
takes the tracked paths back, the last one first and `.kbz` with the sentinel at the
end, and may be cut within a path. `undone` is a history variable: the files that a
rollback has taken back while the sentinel stands and no run has written since. One
file stands for the files of a kind, except the skills.

**Decompose, Workload, Packets.** The algorithms are operators, folds and recursive
functions (`CriteriaSections`, `Collapse`, `HasCycle`, `Effective`,
`DependencyOrder`,
`TrimContext`, `ResolveRole` and others), and the actions around them are the calls
that use them and the changes that come between. Their properties compare the
answer with a reference definition: a circle is a set of pieces of work each of
which waits for another of the set, a path between tasks is a reachability closed
in as many rounds as there are tasks, a total is a sum over what is below a plan,
a prompt's role and skill are the pair in the binding file.

Of a feature and a task `Workload` keeps the file (`members`, `work`) and the cache row
(`featureRows`, `taskRows`), since a roll-up reads rows and not every write refreshes
its row: the server's moves and updates do (`MoveTask`, `UpdateFeature`), setting an
estimate and the command line do not (`SetTaskEstimate`, `MoveFeature`). Of batches
there is only whether they have a row (`batchRows`) and whether the server lists from
rows (`batchesWarm`), because a rebuild gives none to them (`RebuildCache`,
`ListBatches`). Plans are always read from their files.

**Abstractions.** In `TaskBoard` a feature is always in a working stage, so that
the stage check of a claim passes. In `TaskHandlers` the cache is warm and
dependency lists are fixed (rewriting them, cold caches and decomposition are in
`TaskBoard`). In `FeatureFlow` tasks are absent, open, done or closed otherwise,
calls are atomic, and documents have no content, so the structural checks, which
only make a gate stricter, are left out. Words, slugs, sections and sizes are
members of small sets or numbers. Time, wording, logs and Git content are
abstracted everywhere.

## 3. Runs

| Run | Instance | What it shows |
|---|---|---|
| `board_auto` | 4 tasks in a diamond over 2 features, restarts | nothing starts early, no wake-up is lost |
| `board_server` | 3 tasks (1 to be created), dependencies rewritten into cycles | rows lag by promotions only |
| `board_all` | 2 tasks, every operation of server and command line | types; terminal is final |
| `handlers_serial` | 3 tasks, 1 session | refinement: `TaskHandlersSerial` implements `TaskBoard` |
| `handlers_crash` | chain of 3, 1 agent, 2 crashes | the queue heals lost wake-ups, the loop completes |
| `handlers_parallel` | 3 tasks, 2 sessions | concurrent ends of two dependencies wake the third |
| `feature_flow` | 2 features, 1 batch, 1 task, 4 documents, cap 2 | planning, review, cap, finality, batch |
| `delivery` | 2 callers, 2 records, 1 commit, 1 crash, 8 workloads | one worktree, no orphan, no work lost, cleanup completes |
| `library` | 2 to 3 documents, 2 indexed texts, 2 skills and 3 binaries | approvals, supersession, gaps; agreement of the stores; installs |
| `stores` | up to 3 entries, 4 plans, 3 features, 7 specifications, 4 tasks, 2 agents | the records beside the board and what is worked out from them |
| `double_claim` | 1 task, 2 sessions | *violated*: both claim it |
| `claim_packet` | 2 agents, worktree ended | *violated*: a claim is answered with an internal error |

`library` and `stores` check several modules in one run. The modules share no
variable, so a behaviour belongs to one of them (`part`) and the others stay
where they are: the run is the disjoint union of the instances of `MC_Documents`,
`MC_DocIndex` and so on, whose scenes say what a behaviour may do. A scene
switches on the calls that are interesting together, so that the bounds can be
small without the case being lost:

- *Knowledge*: Compacting, Flagging, Pruning, Resolving, Surfacing;
- *Records*: Numbering, Coordinated (two processes and the database), Reparenting,
  Closing, Starting, Reviewing, Renaming, Completing (two workers), Reporting;
- *Decompose*: every dependency list over three tasks of a dev-plan with titles
  that do and do not pair, and seven specifications with each form of criterion;
- *Workload*: two plans, stacked or apart, with a few choices of which tasks have
  points, two changes of files and rows; every graph of four tasks with at most one dependency each, and a diamond's side;
- *Packets*: Trimming (all sub-lists of six notes and two sections), Sharing (two
  agents, a feature that moves on), Delegating (every role and stage);
- *Documents*: Approving, Superseding, Rewriting, Planning, Moving, Replanning;
- *DocIndex*: Failing, Rebuilding, Together (two workers), Editing, Deleting,
  DeletingFails, Sharing (a concept is given the alias of another);
- *Install*: Cutting, Upgrading, Choosing.

**Bounds.** A diamond is the smallest graph in which one end wakes two tasks and
one task waits for two, and `TaskBoard` has no other interaction of tasks; with
three tasks and the lists `{t1}` and `{t2}` a cycle of two and self-dependencies
occur. Two sessions, callers, workers or agents are the most that can compete for
one write; for `Delivery` that is not all there is to it, since a creation that is
cut off from its branch may need a third call to become a second active record,
and `OneActiveWorktree` covers any number. What an update compares of a worktree record
is its status and its graph project, of which `GraphProjects` has two, so that one
update may change the record under another. Two crashes let the recovery from
a crash crash; in `delivery` one crash is enough, since nothing recovers by
itself there, and `MaxCommits` 1 separates a branch with work from one without.
In `feature_flow` `CycleBound` stops the model from counting more
than two reviews, which is its cap, and the second feature exists to end before
or after the first; each document operation happens to one of the documents. The
theorems below hold without these bounds, and for every value of `CycleBound`.
In `library` three texts let a document be approved, changed and changed again;
`MaxPending` 2 lets two half-done calls overlap; two runs of init may be cut
twice, three upgrade forth and back. In `stores` three uses and misses reach
every threshold of the counters (2 misses, 3 uses), `MaxSurfaced` and `MaxHits`
stand for 10 and for no bound, `MaxAsked` lets a conflict check be asked about up
to three tasks, `Depth` 2 and the three-value `Scale` for 50 and
11 values. `Budget` has the code's value, 65536. `Authors` is empty in `library`:
nobody edits a file under a half-done call on its document or goes back to an
earlier text (`NoRaces` in section 4); section 5 says what happens otherwise.

**Deadlock** is checked in `handlers_serial`, `handlers_crash` and
`double_claim`. The other workloads end: all tasks are done and nobody
creates new ones, a feature is done, a scene's bound is reached.

**Fairness.** `CallsProceed` is weak fairness of the steps of a call: no step of a
call waits for another session, there is no lock. `DispatchLoop` is the loop
`spec-phase-4a-specification.md` (8.3) asks of an orchestrating agent: query, claim,
finish, repeat; strong fairness, because another call of the same session
disables each of them for a while. `CommittedLoopSpec` adds that somebody commits
`.kbz/` now and then, which the refusal of a claim tells the agent to do.
Without it the loop stops at its own first promotion: see section 5.
`CleanupSpec` says that time passes, that a call which has begun goes on unless
its process dies, and that somebody runs the cleanup every so often (strong
fairness: a caller busy with something else, or a record not yet due, disables it
for a while); `CleanupCompletes` asks besides that the directory ends up clean
and its branch merged, since git refuses otherwise.

## 4. Proofs

`tlapm` checks every theorem for every value of the constants that the named
assumptions of the modules allow (`BoardAssumption`, `HandlersAssumption`,
`FlowAssumption`, `DeliveryAssumption`, `DocumentsAssumption`, `InstallAssumption`,
`RecordsAssumption`, `ScaleIsNatural`, `LoadsAreRecords`, `DocumentsAreLists`,
`BindingsAreValid`): any sets of tasks, features, sessions, callers, records,
documents, files, scenes, any dependency graph, any bounds. The assumptions are the
types of the constants, except that tasks, plans, paths and skills are finite, that the
tasks of `TaskHandlers` which start ready have no dependencies, that there is
a record and a skill at all, and that a stage binding has workers' roles and
workers' skills, or neither (`BindingsAreValid`). `Knowledge` needs none. A theorem that needs more says so as its hypothesis,
given below with the reason.

| Theorem | Statement | Hypothesis |
|---|---|---|
| **`TaskBoard_proofs`** | | |
| `TypeCorrect` | `[]TypeOK` | |
| `DependenciesComeFirst` | `[](DepsMetBeforeStart /\ RowsAreSound)` | no "force", "update", "decompose" |
| `TerminalStaysFinal` | `TerminalIsFinal` | |
| `CacheIsSound` | `[]CacheLagsOnlyByPromotion` | no "cli", "decompose", "cold" |
| `WakeupsArrive` | `[]NoWakeupLost` | no "cli", "decompose", "cold", "update" |
| **`TaskHandlers_proofs`** | | |
| `HandlersTypeCorrect` | `[]TypeOK` | |
| `WakeupsSurviveOverlap` | `[]NoWakeupLostAtRest` | `SideBySide` |
| `QueueMakesUp` | `[]QueueHeals` | one session |
| `CallsAreSteps` | `SerialSpec => ImplementsBoard` | one session, no crash, nothing promoted at the start |
| **`FeatureFlow_proofs`** | | |
| `FlowTypeCorrect` | `[]TypeOK` | |
| `PlannedFirst` | `[]PlannedBeforeDeveloping` | |
| `ReviewAfterWork` | `ReviewSeesFinishedWork` | |
| `CapBeyondOverride` | `CapHolds` | |
| `EndIsFinal` | `EndedStaysEnded` | |
| `BatchLast` | `BatchClosesAfterFeatures` | |
| **`Delivery_proofs`** | | |
| `DeliveryTypeCorrect` | `[]TypeOK` | |
| `DeletionKeepsWork` | `NoWorkLost` | |
| `NoDirectoryIsOrphaned` | `[]NoOrphanDirectory` | |
| `OneActiveWorktree` | `AtMostOneActive` | (`BranchesApart` and `UpdatesApart` are in the property) |
| **`Documents_proofs`** | | |
| `DocumentsTypeCorrect` | `[]DocumentsTypeOK` | |
| `SupersededStaysFinal` | `SupersededIsFinal` | |
| `ApprovalsCoverTheirText` | `[]ApprovalCoversText` | `NoRaces` |
| `GapsOpenNoGate` | `[]GapsAgreeWithGates` | |
| **`Install_proofs`** | | |
| `InstallTypeCorrect` | `[]InstallTypeOK` | |
| `FilesNeverGoBack` | `FilesMoveForward` | |
| `DoneIsCurrent` | `[]DoneMeansCurrent` | |
| `SentinelTellsTheTruth` | `[]SentinelMeansInstalled` | `SentinelIsTheTools` |
| **`Records_proofs`** | | |
| `RecordsTypeCorrect` | `[]RecordsTypeOK` | |
| `NumbersAreUnique` | `[]NumberNamesOneFeature` | `NumbersGiven` |
| `RecordsAreFound` | `[]RecordsStayFound` | `NumbersGiven`, `FeaturesGiven` |
| `SecondWritesAreMade` | `[]SecondWritesFollow` | `TasksGiven`, `FeaturesGiven`, `CountsGiven`, `ClosesGiven` |
| `PlansAreATree` | `[]PlansFormATree` | `PlansGiven` |
| **`Stores_proofs`** | | |
| `KnowledgeTypeCorrect` | `[]KnowledgeTypeOK` | |
| `StatusFollowsCounters` | `[]CountersMatchStatus` | |
| `CompactionLosesNothing` | `[]CompactionKeepsKnowledge` | |
| `CopyFollowsDirectory` | `[]CopyIsCurrent` | |
| `RetirementLasts` | `RetiredIsFinal` | |
| `SafePairsStayApart` | `[]SafePairsAreApart` | |
| `RollupSums` | `[]RollupAddsUp` | |
| `RoleMeetsSkill` | `[]PromptPairsRoleAndSkill` | |
| `NoWorkWaitsInACircle` | `[]WorkNeverWaitsInACircle` | (`NamedOnce` is in the property) |
| `OwnProposalsGoThrough` | `OwnProposalsPass` | |

The hypotheses about scenes hold of every scene of the runs `stores` and `library`;
those about workloads hold of the runs that check the property, or are wider.

**The board.** `DependenciesComeFirst` includes what `board_auto` leaves out: failed
cache rebuilds and the command line beside the server. `DepsMetBeforeStart` alone
is not inductive, since promotions are decided on rows; `RowsAreSound` is the
strengthening: a terminal status in a row is the status of the file, so
dependencies that are met in the rows are met in the files (`ListedMetIsMet`),
and terminal statuses are final, so they stay met (`MetStaysMet`). Forced
promotion, rewriting and decomposition put a task ahead of its dependencies by
request. `TerminalStaysFinal` needs no such restriction, although the hook writes
without reading the status: `LateRows` says that a row which still waits while its
file has moved on belongs to a task whose dependencies are met already, and a
task which the hook chooses by its row has the dependency that ends just now
(`EndsKept`). `CacheIsSound` rests on `RowsLag`, which drops "warm": the cache is
cold only while there are no tasks. A command-line call writes a file and not the
server's row, so "cli" is excluded, and so are decomposition, which writes past
the cache, and a failed rebuild. `WakeupsArrive` adds that dependency lists are not
rewritten, since a list that becomes met by an edit calls no hook.

**The handlers.** `TypeInv` says besides types that a write is in its compare or
rename step only where the program of the session begins with a write.
`WakeupsSurviveOverlap` is the step-by-step counterpart of `WakeupsArrive`: its
invariant (`WakeInv`) says of each kind of program which instructions may follow
which, which file statuses a call in progress has seen, and, as `WakesCome`, that
a queued task whose dependencies have all ended, in file or row, is promoted by an
instruction some session has still to carry out. Of two sessions that end the last
two dependencies, the one whose refresh comes later lists both as ended.
`SideBySide` has three conditions, each needed: a process that dies takes its hook
along; two sessions on one task may refresh its row in the wrong order; and a queue
inspection refreshes rows of tasks that are not the session's (section 5).
`QueueMakesUp` allows any number of crashes and is about one session: `HealInv`
says that the row of every ended task says so, unless its refresh is the next
instruction or the rows are being rebuilt.

`CallsAreSteps` proves the refinement that `handlers_serial` checks on three tasks.
A step of a call maps to a stutter until the whole call is over, and the last one
maps to the step of `TaskBoard` which makes the same changes. The invariant,
`SerialInv`, keeps the board as it was before the call (`before`) and says how far
the files and rows have come from it: between calls nothing differs; in the middle
of one it is early (before the rename of the move), late (after it, with the
promotions that the hook makes, made or to come), asked, or part way through the
inspection of the queue. `Moved`, `Refreshed` and `Queued` then describe the end of a
call in terms of `before`, and `BoardCalls` and `BoardQueues` show that this is what
`UpdateStatus` and `WorkQueue` of the board do. A call that died may leave its
wake-up to nobody, and the board begins with a backlog of queued tasks: hence no
crash and nothing promoted at the start.

**Features.** `PlannedBeforeDeveloping` is strengthened to `PlannedInv`: a
feature is early, or has tasks, or has the record. One edge leads out of the
early stages (`OneWayOut`), so every mover has to be shown either to pass the
developing gate there (`PlannedByTransition`, `PlannedByAdvance`) or to start
behind it (`TaskMoves`, `EndMoves`, `DocMoves`). `CapHolds` needs
`BlockedInv`: what is blocked was blocked at the cap, and counts do not fall.
The others follow from the type invariant and one lemma for each mover.

**Delivery.** `NoWorkLost` follows from types that order the counts of commits: the
default branch never has more ancestors of the branch than content of it, nor
more content than there are commits. `NoOrphanDirectory` needs `OwnInv`: a directory
has a creation about to save its record or a record that no call is about to take
away, and what a call holds has been written. `AtMostOneActive` needs `OneInv`:
a creation that is about to ask git, which refuses where the branch is, finds it
taken whenever a record is active or another creation has got further; one that
is about to save its record is alone in that and finds none active. An update between its load and its write
holds a snapshot of the active record: its compare finds that record as it was, or
changed, and refuses. `BranchesApart` keeps the branch there in the meantime, and
`UpdatesApart` the record: without the first a second creation gets through, without
the second an update puts a removed record back (section 5).

**Documents.** `ApprovalInv` orders the texts: that of the canonical hash is no newer
than that of the record's hash, which is no newer than the file's; and of a call
half done it says that the file is still the one the call saw, or where the call
moved it, and that one call at a time moves a document. `NoRaces` is
needed: an author who goes back to an old text, or edits between the two writes of
an approval, has words approved that nobody read (section 5). `GapsOpenNoGate` needs
no invariant: whatever the records, the gap report and the gate, two pieces of
code that each look for a document of a feature or its owner, agree.

**Install.** A file is made only by a step of a run of a binary no older than the
version it replaces. The sentinel is the delicate part: `SentinelInv` says that a run
writes the sentinel with nothing but the test record behind it (`SentinelNearEnd`),
and until then has every needed file on the disk or ahead of it (`SentinelBehindAll`),
and that with the sentinel every needed file is there which nobody removed or declined
and no rollback took back (`SentinelMeansAll`). What a rollback has taken is in `undone`
until it takes the sentinel, or a run writes the file again: a rollback which starts before
the sentinel leaves nothing in question, one which starts after it and is cut leaves
exactly these files (section 5). `SentinelIsTheTools` says that people do not write
the sentinel, and that a disk which has it at the start has the rest.

**Records.** `NumbersInv` says that a number which a feature carries, or which a rename
has in hand, is below the counter of the one plan it can be of (`UsedUp`), that the
counter a call has loaded is not behind the file's (`Loaded`, `Ahead`), and that
calls which count have numbers of their own. `NumbersGiven` says the same of the
state a scene starts in and excludes the four ways of section 5.
`RecordsStayFound` and `SecondWritesFollow` speak of states in which no call is
under way; their invariants say what the call under way has still to write:
`AllKept` and `InTune` of the file, row and counts of a feature, `Completes` of a
task, `Closes` of a batch. `PlanSteps` sorts the steps of the program by what
they do to plans, which serves `Closes` and the tree. The hypotheses say that a
scene starts in such an order, and leave out what section 5 shows to be false:
counting with several workers (`CountsGiven`), and closing a batch while others
move batches (`ClosesGiven`).

`PlansFormATree` is stated with the model's `Ancestors`, a recursive function that
walks up as many steps as there are plans. Its invariant is that the plans can be
ranked so that parents rank lower (`Tree`), also after the write the call has in
hand (`InATree`). The walk stays among plans of lower rank (`WalkBelow`, a least
counterexample) and is complete (`WalkEnds`: as long as it meets new plans it has
met more than it has made steps, and there are no more than all), so a plan that is
not met may become a child: `Grafted` ranks it, and all that is not above its new
parent, higher.

**Knowledge.** A compaction compares every pair of entries in two nested loops over
a list in which entries disappear as it goes, which the model writes as nested
folds. The proof takes the folds apart pair by pair (`LeastNumber` and `UpTo`
replace the induction) and keeps through each comparison that every live entry of
the snapshot has an entry which is still live, with its topic and content: `CompactionLosesNothing` is that fact at the end of the loop, for any list
of entries. For the other theorems the invariant, `KInv`, is the type invariant
with `CopyIsCurrent`; the types include `SoundRecords`, that what a half-done call
has still to write obeys the counters too, without which a snapshot written back
late could bring an entry whose status does not follow. `RetiredIsFinal` names the
two calls that do bring back what was retired, both by such a snapshot.

**Conflicts.** The check asks whether one task reaches the other through
dependencies among the named tasks. The reference grows a set by one round per
task; that this is enough is a counting argument (a round that adds nothing ends
it, and there are no more rounds that add than there are tasks), and what the
check calls independent is then shown to be apart in the closed set.

**Roll-up.** `RollupInv` says of a query under way what it has added so far and
what it has still to list: the todo items cover disjoint sets of features, and
together with what was added they cover what lies under the plan asked for, so
that at the end each feature was added once. `LiesUnder` is defined by closed sets
of plans and not by walking, and sums over finite sets are shown independent of the
order in which the listing meets them. Plans that circle always leave something to
list, so such a query is never answered and the theorem needs no tree. What lies under
a plan, and what it is worth, is read off the rows and the batches that are listed,
like the sum itself: the theorem says that the answer is right for what the cache
knows, and section 5 how far that can be from the files. A restart of the server ends
the query (`QueryLost`).

**Prompts.** A prompt's role and its skill come from two steps of the pipeline
(`pipeline.go:401`, `:442`), each of which searches the binding anew. `PromptInv`
says that both found the same place, for any bindings that satisfy
`BindingsAreValid`. That is what `ValidateBinding` demands (`model.go:185-190`), and
the server makes prompts of no other file: it loads the bindings once, through
`BindingRegistry.Load` (`server.go:147`, `registry.go:39`), which validates them, and
does not start when that fails. (The gates read the file again whenever it changes,
unvalidated, `registry_cache.go:84`; they look at other fields of it.)

**Decomposition.** `ListRun` reads each fold over a document element by element.
`DecomposeInv` says of the proposal that its dependencies are its own tasks, named
once (`Proper`), and that a review which did not fail found no circle in it; and of
the rows that they lie in blocks, one for each application, which do not depend on
one another (`Block`). Review looks for circles after collapsing a task and its
tests to one, and by slug instead of by place; so the heart of the proof is that a
circle among rows, all of whose slugs differ, is one among the collapsed slugs of
one block. `OwnProposalsPass` needs besides that what propose makes of criteria
has no circle to find: its only dependencies lead from a task to the one it tests,
whose name has one "-tests" fewer, so in a circle a task with fewest would wait for one
with fewer still; and that the gap check finds each criterion in the task made of it.

**Model-checked only.** Liveness (`LoopCompletes`, `CleanupCompletes`), which
TLAPS does not prove. `PacketFits` (`Packets`), `SourcesAgree` and `ConceptsAreFound`
(`DocIndex`): these sort and filter sequences and build functions of several
arguments or by `:>` and `@@`, all of which the provers see as opaque symbols. The
provers have no induction principle with a predicate either; where an induction
could be replaced by a least counterexample, a count, or a set closed under the
step, it was.

## 5. Where the code and its documents disagree

Shown by a run (quoted in `PROJECT.json`, "findings"):

- `double_claim`: compare and rename are two steps without a lock, so two claims succeed;
- `claim_packet`: without an active worktree `GetByEntityID` answers nil without an
  error, the packet reads its path and the tool answers "internal_panic", after
  the claim was written; it is the same with a worktree the hook could not make.

Met while modelling, kept faithfully in the models, stated by no run.

*Task board and handlers*

- The hook writes `ready` over any status, also over a claim another session made
  since the list was read (`dependency_hook.go:122`).
- `decompose(apply)` writes `depends_on` past the cache (`decompose_tool.go:254`), and
  a queue inspection promotes such a task at once.
- The hook's promotion is not upserted (`dependency_hook.go:123`), and a warm cache
  hides the ready task from the queue until its row is rewritten.
- A command-line `finish` runs no hook, so `NoWakeupLost` and
  `CacheLagsOnlyByPromotion` do not hold with "cli"; the next `kbz queue` heals it,
  while the server's queue does not see it until it restarts or the row is rewritten.
- An inspection that upserts a late `ready` over a finished
  task hides the end from the next hook, which is why `handlers_parallel` leaves
  the queue out.
- A crash between the two writes of a claim leaves an active task without a
  claimant (`dispatch.go:180` says so itself).
- `next()` promotes and does not commit, and `next(id)` refuses
  while `.kbz/` is dirty (`next_tool.go:271`), although the queue is called
  read-only (`next_tool.go:113`).
- One upsert marks a type warm (`cache.go:147`) though a failed rebuild
  left its other rows out. Moves stay right (`RowsAreSound`); lists are short.

*Features and batches*

- `merging` and `verifying` are gated by nothing (`isPhase2Transition`);
  the registry asks for type "specification" where records say "spec"; submitting a
  specification moves a feature past the design gate; approving a second one
  moves a developing feature back; merge, close-out and the document hook never
  ask the gates.
- A feature that enters review by the end of its last task is not counted
  (`entity_children.go:155`), so a fourth round is possible with a cap of three.
- An approval that is withdrawn later does not move its feature back.
- Advance passes through review to done when every task is verified, and does
  not ask the batch, which stays active; nor does a merge.
- Overrides are recorded even if the table then refuses the move.
- `TransitionTask` asks `MaybeAutoAdvancePlan` after a move that
  can never have ended a feature.
- `executeMerge`'s comment says a failed verification moves the feature to
  needs-rework; the code leaves it in verifying.

*Delivery*

- The forced deletion after a squash takes commits made since the merge with it,
  if the directory is gone by then.
- A creation that has made its branch and not yet saved its record, overlapped by
  a late cleanup or by the deletion of the branch after a squash, leaves the branch
  free for another creation, and both save an active record. `AtMostOneActive`
  speaks of behaviours in which the two stay apart (`BranchesApart`).
- A write whose file is gone does not compare, and brings the record back
  (`worktree/store.go:233`); a failed write of a new record leaves the branch, so
  that the next attempt fails; gc leaves git's registration.
- An update (`worktree_tool.go:351-387`) that has loaded the active record, while
  another session merges, cleans that record up and creates the next worktree, writes
  its snapshot back as active beside the new one: the file is gone, so nothing is
  compared (`store.go:243-252`). The same follows when the record changes between the
  update's compare and its write. `AtMostOneActive` leaves both out (`UpdatesApart`).
- `ParseVerifierReport` and `ApplyVerifierReport` are called by tests only, so
  nothing ever turns a dispatched verifier into a pass (`bug_gate.go:82`), while the
  merge of a bug wants it closed first.
- An override sends a bug back uncounted; an attempt that the table refuses counts.
- `kbz merge` asks neither documents nor ancestry; the pull request's label is
  computed without the document service.

*Documents*

- Refresh compares with a canonical hash that an approval does not renew
  (`documents.go:1110`): text that goes back to what was registered keeps
  an approval given to something else. An author who edits between an approval's
  two writes gets his edit approved.
- The status line an approval writes, followed by a change of layout, demotes.
- Register refuses a non-canonical path after it saved the record; a move renames
  over an existing file; `kbz move` of a feature makes the plan own its documents.
- Two documents can supersede each other.

*Records*

- Overlapping moves or counters of a batch or plan are lost: their writes carry no
  hash (`plans.go:335`). `PersistFeatureOverrides` loses a record two callers add.
- Concurrent reparenting can close a circle of strategic plans, whose roll-up then
  ends in an error at the depth limit.
- A refused name or a crash burns a number; with the database the counter of the
  file is not kept up, and falling back to it can give a number again.
- Beyond that, a number can name two features in four ways, which
  `NumberNamesOneFeature` and `NumbersGiven` leave out: two plans created at once get
  one number; `kbz move` writes a "P" for a batch (`plans.go:124`), so the number may be
  that of a feature created in the strategic plan (`entities.go:389`); it
  takes its number from the file whatever database there is; and
  `seedCoordinationCounters` (`entities.go:1815`) seeds bugs, plans and batches and not
  `batch_feature_seqs` (`db.go:75`), so that a database switched on beside existing
  features starts at 1 again.
- A second write that a crash or a conflict takes away is made by nobody: a task is
  done without its summary, a review is not counted, a batch stays in reviewing after
  its last feature (`entity_children.go:199`). `SecondWritesFollow` speaks of calls
  that were not cut.
- A rename of one worker, or an override, puts back the review count another has
  raised since (`CountsGiven`).
- With the database, a bug with the slug of another gets its id and replaces it.
- A rename that dies leaves two files, and the id becomes "ambiguous prefix".
- Checkpoints never record their feature (nothing sets the field of `checkpoint.go:43`), so the answer does
  not clear `blocked_reason`. `UpdateBatch` hands `UpdateEntity` a status
  whatever it is given (`entities.go:324`), and every call is refused for it.

*Knowledge*

- Confidence is written as a quoted string and read as a number
  (`entity_store.go:412`, `ttl.go:195`), so it always reads 0.5: tier 2 is never
  pruned for it and near duplicates are never merged. Packets read it as 0
  (`assembly.go:1006`), so "lowest-confidence first" is the order of the store.
- Exact duplicates merge across scopes. Merged entries may live with two misses.
- A compaction writes its snapshot back, also over an entry retired since;
  `kbz knowledge resolve` revives a retired entry it keeps. `Promote` asks no eligibility.

*Index and install*

- Graph and registry are written whole: overlapping calls lose edges.
  `kbz rebuild-index` removes the database under a running server. Ingesting again
  drops classifications and leaves their concepts. A move or an edit does not touch
  the index.
- Deleting a document removes its index file, best-effort
  (`service/documents.go:1541-1546`); its edges in the graph, its entries in the registry
  and its rows stay, so impact and concepts go on naming it. After `kbz rebuild-index`
  the graph does and the database does not. `SourcesAgree` speaks of documents that
  have an index.
- Of two concepts with one alias `FindConcept` answers the first
  (`docint/concepts.go:96-112`), and nothing asks whether an alias is taken: a section
  filed under the other one by that name is no longer found by it.
  `ConceptsAreFound` leaves out a name that several concepts have as an alias and none
  as its own.
- The rollback of a failed init removes tracked paths that were there before
  ("trackedPaths accumulates every file and directory created during init.",
  `init.go:237`), and leaves `CLAUDE.md`, `OPENAI.md`, `.claude` and `.cursor`.
- The sentinel is not the last thing init writes, although "Its presence indicates a
  complete, non-partial init." (`init.go:18-19`): when the test record after it cannot
  be written (`init.go:347`), or closing the sentinel fails, the rollback starts with
  the sentinel there. It removes the roles, `AGENTS.md` and the rest first and `.kbz`
  last, so a process that dies in between leaves the sentinel without these files,
  and the next init has no word about an incomplete one, though it writes them again.
  `SentinelMeansInstalled` excuses
  exactly what such a rollback took back (`undone`).
- A resumed init creates neither `work/` nor `.zed` (`init.go:369`). An empty
  `.mcp.json`, `base.yaml` or settings file is never repaired. Files of a "dev"
  binary are never updated.

*Decomposition, workload, prompts*

- Review looks for cycles in collapsed pairs (`decompose.go:1311`, `:1364`), so a task and
  its own tests may wait for each other; with equal slugs an edge lands on the last
  task and can hide a cycle. A dependency named twice in a dev-plan stays twice in the
  proposal (`decompose.go:1114`) and is counted as two (`decompose.go:1318`), so such a
  test task is not collapsed: two test tasks that wait for each other pass when one names the other
  twice. `WorkNeverWaitsInACircle`
  leaves such plans out (`NamedOnce`); `MC_Decompose` has one. The tool reference (`mcp-tool-reference.md:1927`) promises cycles are found.
- A dev-plan's criteria named by id never match, so its review always reports gaps.
- Apply reads neither document, and supersedes queued tasks only; `kbz decompose
  --apply` creates tasks without names, dependencies and pairs.
- Conflicts follow dependencies among the named tasks only, and of features not at
  all; a feature without an active worktree ends the check in a panic (`server.go:386`).
- Cancelled features count in roll-ups.
- Setting an estimate writes the file and not the row (`estimation.go:126`), and a warm
  cache is what the roll-up lists from, so a query right after it adds up the old
  estimate until the record is changed in another way or the cache is rebuilt. The
  design has "every mutation to entity state must be reflected in the cache before the
  tool call returns" (`B29-F3-spec-feat-01kpxh0wstham-cache-eviction-on-delete.md:11`)
  and "every write calls `cacheUpsertFromResult`" (`design-performance-follow-up.md:255`).
- A rebuild loads no batches (`entities.go:229`) and the first batch that is changed
  marks the type warm (`cache.go:147`), after which `ListBatches` lists only the batches
  changed since; a roll-up, said to be a "recursive sum of all child batch and child
  plan totals" (`estimation.go:86`), leaves the others and their features out.
- `kbz move` and the other commands have no cache: the server's rows keep the feature
  under its old batch (`move_cmd.go:157`, `:219`). `RollupAddsUp` says that the sum is
  right for the rows, which is as much as the code gives.
- Two agents that ask for work of one feature at once are given the same task, the
  second as a "reclaim". Stages in which `next` and `handoff` work differ.
- `reviewing` has four reviewer roles and one skill: a prompt for any but the first
  is an error.

## 6. Not modelled

Health checks, status, validation reports, retrospectives, the action log and
the generated schema change nothing another part reads. Transition validators,
structural checks and the automatic fix a retrospective may create (it walks a
feature to developing by the table) are left out of `FeatureFlow`. Of the modelled
components: chains of supersession, drift reports, git anchors and tags of
knowledge, gap analysis and suggestions of the index, merge-schedule warnings of
decomposition, the experiment nudge of packets, and of init its temporary files and
the options `--skip-mcp`, `--skip-zed`, `--skip-roles` and `--skip-work-dirs` (`LeftOut` has
`--skip-skills` and the one for instructions). In `DocIndex` the deletion of a document is
one step, which no other call overlaps. In `TaskHandlers` overlapping sessions end tasks
of their own where wake-ups are promised: a caller who repeats a call that timed out,
on the same task, is followed in `double_claim` only.
Wording, rendering and parsing of options are abstracted. GitHub and Git are
external: modelled by what the code expects of their commands.

The modules of `stores` and `library` are not composed in the sense of sharing
state: that a document's approval moves its feature is in `FeatureFlow`, that a
decomposition changes the board in `TaskBoard`, that a merge moves a feature in
`FeatureFlow` and `Delivery`, each with the other side abstracted.

## 7. Plan

1. *Done.* `Lifecycle`, `TaskBoard`, `TaskHandlers` and its refinement,
   `FeatureFlow`, and the theorems above.
2. *Done.* `Delivery`, `Documents`, `Knowledge`, `Records`, `DocIndex`, `Install`,
   `Decompose`, `Workload`, `Packets` and their runs.
3. *Done.* The theorems of section 4: safety of the board, the handlers and
   their refinement, features, delivery, documents, installs, records,
   knowledge, roll-ups, conflicts, prompts and decomposition.
4. *Left to prove.* `SourcesAgree` and `ConceptsAreFound` of `DocIndex`;
   `PacketFits`; a step-by-step counterpart of `DependenciesComeFirst` for
   `TaskHandlers`.
