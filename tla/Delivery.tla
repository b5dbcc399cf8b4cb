------------------------------ MODULE Delivery ------------------------------
(***************************************************************************)
(* How the work of one feature or bug gets from a branch of its own into   *)
(* the default branch: the worktree and its record, the merge gates, the   *)
(* merge call of the server and of the command line, the pull request, and *)
(* the cleanup after it.                                                   *)
(*                                                                         *)
(* A call is a chain of git commands and file writes that nothing holds    *)
(* together: it works with the record and the status it read at its start, *)
(* other calls and the people in the directory come between its steps, any *)
(* step may fail, and the process may die after any of them.               *)
(*                                                                         *)
(* Commits are counted.  The branch carries tip commits of its own; landed *)
(* of them are in the default branch by content, rooted of them as         *)
(* ancestors (a squash lands commits without rooting them).                *)
(***************************************************************************)
EXTENDS Lifecycle, Naturals

CONSTANTS
    Callers,       \* the sessions that may run a call at the same time
    Records,       \* the ids the record store may allocate
    GraphProjects, \* what a worktree's graph_project may be set to
    Workloads,     \* what the worktree is for, and the calls people make
    Strategies,    \* the merge strategies asked for
    HasVerifier,   \* the repository has a verifier role
    MaxReviewCycles,  \* the review cap of the bug's tier
    GracePeriod,   \* days between the merge and the cleanup
    MaxCommits,    \* bound on the commits made on the branch
    MaxCrashes     \* bound on the processes that die in a call

ASSUME DeliveryAssumption ==
    /\ \A w \in Workloads : w.kind \in {"feature", "bug"} /\ w.started \in BOOLEAN
    /\ Records # {}
    /\ GraphProjects # {} /\ {"unused", "gone"} \cap GraphProjects = {}
    /\ Strategies \subseteq {"squash", "merge", "rebase"}
    /\ HasVerifier \in BOOLEAN
    /\ {MaxReviewCycles, GracePeriod, MaxCommits, MaxCrashes} \subseteq Nat

VARIABLES
    kind, tools, status,     \* the entity, and the calls made
    tasksDone, report, verification,   \* what the gates read about it
    cycle,                   \* review_cycle on file
    recs,                    \* the worktree records
    branch, tip, landed, rooted,   \* the branch
    dir, edited,             \* the worktree directory; has it uncommitted changes?
    pr, label,               \* the pull request and its ready-to-merge label
    verifier,                \* the process's note of a dispatched verifier
    crashes,
    call                     \* what each caller is doing

entityVars == <<kind, tools, status, tasksDone, report, verification, cycle>>
gitVars    == <<branch, tip, landed, rooted, dir, edited>>
hubVars    == <<pr, label>>
vars == <<entityVars, recs, gitVars, hubVars, verifier, crashes, call>>

RecordStatuses == {"none", "active", "merged"}
NoRecord == [st |-> "none", due |-> 0, project |-> "unused"]
Gone == [NoRecord EXCEPT !.project = "gone"]
NewProject == CHOOSE g \in GraphProjects : TRUE
Idle == [at |-> "idle"]

(* Calls.  rec, project and saw are what the call read when it began.      *)
Busy(c) == call[c].at # "idle"
Go(c, at) == call' = [call EXCEPT ![c].at = at]
End(c) == call' = [call EXCEPT ![c] = Idle]

-----------------------------------------------------------------------------
(* The record store. *)

ActiveRecords == {r \in Records : recs[r].st = "active"}
KnownRecords == {r \in Records : recs[r].st # "none"}
FreeIds == {r \in Records : recs[r] = NoRecord}

(* A write compares the file with the hash of what was read, an active      *)
(* record always, and skips the comparison when the file is gone.           *)
\* A slip: what was read is not compared with what is there.
FreshUnread(r, project) == recs[r].st \in {"active", "merged"} \/ recs[r].project = "gone"

Fresh(r, project) ==
    recs[r].st = "none" \/ (recs[r].st = "active" /\ recs[r].project = project)

(* The whole of the record goes to the file, whatever is there by now. *)
Written(r, st, due, project) ==
    recs' = [recs EXCEPT ![r] = [st |-> st, due |-> due, project |-> project]]

(* An id that was deleted is not free again. *)
Deleted(rs) == recs' = [r \in Records |-> IF r \in rs /\ recs[r].st # "none" THEN Gone
                                          ELSE recs[r]]

(* due counts the days left of the grace period. *)
IsReadyForCleanup(r) == recs[r].st = "merged" /\ recs[r].due = 0

-----------------------------------------------------------------------------
(* git.  The directory is "present", "missing" (deleted by hand, still     *)
(* registered), or "absent".                                               *)

(* git worktree add -b *)
CanAddWorktree == ~ branch /\ dir = "absent"

(* git worktree remove: refuses a directory with uncommitted changes unless *)
(* forced, accepts a missing one, does not know an unregistered one.        *)
CanRemoveWorktree(force) == dir = "missing" \/ (dir = "present" /\ (force \/ ~ edited))

DeletesUnmerged(force) == branch /\ dir = "absent"

(* git branch -d, -D: never a branch that a worktree has checked out, and   *)
(* -d only one that HEAD contains.                                          *)
CanDeleteBranch(force) == branch /\ dir = "absent" /\ (force \/ rooted = tip)

(* merge --squash followed by commit fails when there is nothing to commit. *)
CanMerge(strategy) == branch /\ (strategy = "squash" => landed < tip)

-----------------------------------------------------------------------------
(* The merge gates, on what the caller sees of entity and branch. *)

EntityDone == IF kind = "feature" THEN status \in {"done", "reviewing"}
                                  ELSE status = "closed"

ReviewReportExists == status = "reviewing" => report

(* A call without withDocs has no document service to ask, and the report   *)
(* gate passes.  Tests and conflicts are the environment's: the calls that  *)
(* fail on them are the ones that do not happen here.                       *)
Bypassable == EntityDone /\ tasksDone /\ verification # "none" /\ branch

GatesOpen(withDocs, override) ==
    /\ override \/ Bypassable
    /\ withDocs => ReviewReportExists

GatesWarn(stale) == verification = "partial" \/ stale

-----------------------------------------------------------------------------
(* merge(execute), kbz merge run *)

MergeBegin(c) ==
    \E r \in ActiveRecords, strategy \in Strategies, override, cli \in BOOLEAN :
        /\ ~ Busy(c)
        /\ (IF cli THEN "cli" ELSE "merge") \in tools
        /\ GatesOpen(~ cli, override)
        /\ ("require-pr" \in tools /\ ~ cli) => pr = "open"
        /\ branch
        /\ call' = [call EXCEPT ![c] =
              [at |-> "merge", rec |-> r, project |-> recs[r].project, saw |-> status,
               strategy |-> strategy, cli |-> cli]]
        /\ UNCHANGED <<entityVars, recs, gitVars, hubVars, verifier, crashes>>

MergeBranch(c) ==
    /\ call[c].at = "merge"
    /\ \/ /\ CanMerge(call[c].strategy)
          /\ landed' = tip
          /\ rooted' = IF call[c].strategy = "squash" THEN rooted ELSE tip
          /\ Go(c, IF call[c].cli THEN "record" ELSE "confirm")
       \/ /\ ~ CanMerge(call[c].strategy)
          /\ End(c)
          /\ UNCHANGED <<landed, rooted>>
    /\ UNCHANGED <<entityVars, recs, branch, tip, dir, edited, hubVars, verifier,
                    crashes>>

(* The server asks git whether the default branch contains the branch; the  *)
(* command line does not ask.                                               *)
MergeConfirm(c) ==
    /\ call[c].at = "confirm"
    /\ Go(c, IF branch /\ rooted = tip THEN "record" ELSE "delete")
    /\ UNCHANGED <<entityVars, recs, gitVars, hubVars, verifier, crashes>>

(* A refused write is a warning of the server and the end of the command. *)
MarkMerged(c) ==
    /\ call[c].at = "record"
    /\ IF Fresh(call[c].rec, call[c].project) THEN Go(c, "stamp")
       ELSE IF call[c].cli THEN End(c) ELSE Go(c, "delete")
    /\ UNCHANGED <<entityVars, recs, gitVars, hubVars, verifier, crashes>>

(* The file is replaced after the comparison, nothing in between. *)
WriteMerged(c) ==
    /\ call[c].at = "stamp"
    /\ Written(call[c].rec, "merged", GracePeriod, call[c].project)
    /\ Go(c, "delete")
    /\ UNCHANGED <<entityVars, gitVars, hubVars, verifier, crashes>>

(* Squash merges force the deletion, which nobody's call fails on. *)
MergeDeletes(c) ==
    /\ call[c].at = "delete"
    /\ \E deleteBranch \in BOOLEAN :
          branch' = (branch /\ ~ (/\ deleteBranch
                                  /\ CanDeleteBranch(/\ ~ call[c].cli
                                                     /\ call[c].strategy = "squash")))
    /\ IF kind = "bug" \/ call[c].cli \/ call[c].saw = "done"
       THEN End(c) ELSE Go(c, "advance")
    /\ UNCHANGED <<entityVars, recs, tip, landed, rooted, dir, edited, hubVars,
                   verifier, crashes>>

(* The status moves after the merge are decided on the status read at the   *)
(* beginning and each is checked against the one on file.                   *)
MergeAdvances(c) ==
    /\ call[c].at = "advance"
    /\ status' = IF call[c].saw = "developing" /\ status = "developing" /\ tasksDone
                 THEN "reviewing" ELSE status
    /\ Go(c, "merging")
    /\ UNCHANGED <<kind, tools, tasksDone, report, verification, cycle, recs, gitVars,
                   hubVars, verifier, crashes>>

MergeMoves(c, to, next) ==
    /\ call[c].at = to
    /\ \/ /\ CanTransition("feature", status, to)
          /\ status' = to
          /\ Go(c, next)
       \/ /\ ~ CanTransition("feature", status, to)
          /\ End(c)
          /\ UNCHANGED status
    /\ UNCHANGED <<kind, tools, tasksDone, report, verification, cycle, recs, gitVars,
                   hubVars, verifier, crashes>>

(* go build and go test decide; a failure leaves the feature in verifying. *)
MergeBuilds(c) ==
    /\ call[c].at = "build"
    /\ End(c)
    /\ \E passes \in BOOLEAN :
          status' = IF passes /\ CanTransition("feature", status, "done")
                    THEN "done" ELSE status
    /\ UNCHANGED <<kind, tools, tasksDone, report, verification, cycle, recs, gitVars,
                   hubVars, verifier, crashes>>

-----------------------------------------------------------------------------
(* worktree(create, update, remove, gc), and the hook that creates one when a task  *)
(* becomes active or a bug goes in progress.                                *)

CreateBegin(c) ==
    /\ ~ Busy(c)
    /\ "worktree" \in tools
    /\ ActiveRecords = {}
    /\ call' = [call EXCEPT ![c] = [at |-> "add"]]
    /\ UNCHANGED <<entityVars, recs, gitVars, hubVars, verifier, crashes>>

CreateAdd(c) ==
    /\ call[c].at = "add"
    /\ \/ /\ CanAddWorktree
          /\ branch' = TRUE /\ tip' = 0 /\ landed' = 0 /\ rooted' = 0
          /\ dir' = "present" /\ edited' = FALSE
          /\ Go(c, "save")
       \/ /\ ~ CanAddWorktree
          /\ End(c)
          /\ UNCHANGED gitVars
    /\ UNCHANGED <<entityVars, recs, hubVars, verifier, crashes>>

(* Leaves the directory when the record cannot be saved. *)
SavesOrLeaves(c) ==
    /\ call[c].at = "save"
    /\ End(c)
    /\ \/ FreeIds # {} /\ Written(CHOOSE r \in FreeIds : TRUE, "active", 0, NewProject)
       \/ UNCHANGED recs
    /\ UNCHANGED <<entityVars, gitVars, hubVars, verifier, crashes>>

(* When the record cannot be saved the directory goes and the branch stays. *)
CreateSave(c) ==
    /\ call[c].at = "save"
    /\ End(c)
    /\ \/ /\ FreeIds # {}
          /\ Written(CHOOSE r \in FreeIds : TRUE, "active", 0, NewProject)
          /\ UNCHANGED gitVars
       \/ /\ dir' = "absent" /\ edited' = FALSE
          /\ UNCHANGED <<recs, branch, tip, landed, rooted>>
    /\ UNCHANGED <<entityVars, hubVars, verifier, crashes>>

RemoveWorktree(c) ==
    \E r \in ActiveRecords, force \in BOOLEAN :
        /\ ~ Busy(c)
        /\ "worktree" \in tools
        /\ CanRemoveWorktree(force)
        /\ dir' = "absent" /\ edited' = FALSE
        /\ call' = [call EXCEPT ![c] = [at |-> "forget", rec |-> r]]
        /\ UNCHANGED <<entityVars, recs, branch, tip, landed, rooted, hubVars, verifier,
                        crashes>>

DeleteRecord(c) ==
    /\ call[c].at = "forget"
    /\ Deleted({call[c].rec})
    /\ End(c)
    /\ UNCHANGED <<entityVars, gitVars, hubVars, verifier, crashes>>

(* worktree(update) sets graph_project, or writes the record as it was, and *)
(* like a merge goes on with the record it read.                            *)
UpdateBegin(c) ==
    \E r \in ActiveRecords, project \in GraphProjects :
        /\ ~ Busy(c)
        /\ (IF project = recs[r].project THEN "update" ELSE "regraph") \in tools
        /\ call' = [call EXCEPT ![c] = [at |-> "update", rec |-> r, next |-> project,
                                       project |-> recs[r].project]]
        /\ UNCHANGED <<entityVars, recs, gitVars, hubVars, verifier, crashes>>

UpdateCompares(c) ==
    /\ call[c].at = "update"
    /\ call' = [call EXCEPT ![c] =
           IF Fresh(call[c].rec, call[c].project)
           THEN [at |-> "rewrite", rec |-> @.rec, next |-> @.next, found |-> recs[@.rec].st]
           ELSE Idle]
    /\ UNCHANGED <<entityVars, recs, gitVars, hubVars, verifier, crashes>>

UpdateWrites(c) ==
    /\ call[c].at = "rewrite"
    /\ Written(call[c].rec, "active", 0, call[c].next)
    /\ End(c)
    /\ UNCHANGED <<entityVars, gitVars, hubVars, verifier, crashes>>

(* gc looks at the disk and not at git. *)
Gc(c) ==
    /\ ~ Busy(c)
    /\ "worktree" \in tools
    /\ dir # "present"
    /\ KnownRecords # {}
    /\ Deleted(Records)
    /\ UNCHANGED <<entityVars, gitVars, hubVars, verifier, crashes, call>>

-----------------------------------------------------------------------------
(* cleanup(execute); the command line, given an id, cleans any record *)

CleanupBegin(c, r) ==
    /\ ~ Busy(c)
    /\ \/ "cleanup" \in tools /\ IsReadyForCleanup(r)
       \/ "cli" \in tools /\ recs[r].st # "none"
    /\ call' = [call EXCEPT ![c] = [at |-> "clear", rec |-> r]]
    /\ UNCHANGED <<entityVars, recs, gitVars, hubVars, verifier, crashes>>

(* Fails on a directory that an earlier cleanup has removed. *)
ClearsOnlyOnce(c) ==
    /\ call[c].at = "clear"
    /\ \/ CanRemoveWorktree(FALSE) /\ dir' = "absent" /\ edited' = FALSE /\ Go(c, "unbranch")
       \/ ~ CanRemoveWorktree(FALSE) /\ End(c) /\ UNCHANGED <<dir, edited>>
    /\ UNCHANGED <<entityVars, recs, branch, tip, landed, rooted, hubVars, verifier,
                   crashes>>

CleanupDirectory(c) ==
    /\ call[c].at = "clear"
    /\ \/ /\ dir = "absent" \/ CanRemoveWorktree(FALSE)
          /\ dir' = "absent" /\ edited' = FALSE
          /\ Go(c, "unbranch")
       \/ /\ dir = "present" /\ edited
          /\ End(c)
          /\ UNCHANGED <<dir, edited>>
    /\ UNCHANGED <<entityVars, recs, branch, tip, landed, rooted, hubVars, verifier, crashes>>

CleanupBranch(c) ==
    /\ call[c].at = "unbranch"
    /\ \/ /\ ~ branch \/ CanDeleteBranch(FALSE)
          /\ branch' = FALSE
          /\ Go(c, "forget")
       \/ /\ branch /\ ~ CanDeleteBranch(FALSE)
          /\ End(c)
          /\ UNCHANGED branch
    /\ UNCHANGED <<entityVars, recs, tip, landed, rooted, dir, edited, hubVars, verifier,
                    crashes>>

-----------------------------------------------------------------------------
(* The pull request: one per branch, whatever has become of it. *)

CreatePR(c) ==
    /\ ~ Busy(c)
    /\ "pr" \in tools
    /\ ActiveRecords # {}
    /\ pr = "none"
    /\ pr' = "open"
    /\ label' = FALSE
    /\ UNCHANGED <<entityVars, recs, gitVars, verifier, crashes, call>>

(* ready-to-merge is a statement about the gates at this moment. *)
UpdatePR(c) ==
    /\ ~ Busy(c)
    /\ "pr" \in tools
    /\ ActiveRecords # {}
    /\ pr # "none"
    /\ \E stale \in BOOLEAN : label' = (GatesOpen(FALSE, FALSE) /\ ~ GatesWarn(stale))
    /\ UNCHANGED <<entityVars, recs, gitVars, pr, verifier, crashes, call>>

-----------------------------------------------------------------------------
(* The entity, moved by hand.  A feature's own gates are FeatureFlow's. *)

MoveFeature(c) ==
    /\ kind = "feature"
    /\ ~ Busy(c)
    /\ "move" \in tools
    /\ \E to \in {"developing", "reviewing", "needs-rework", "done"} :
          CanTransition("feature", status, to) /\ status' = to
    /\ UNCHANGED <<kind, tools, tasksDone, report, verification, cycle, recs, gitVars,
                   hubVars, verifier, crashes, call>>

(* The gates of a bug: commits that HEAD has not, a report and passing      *)
(* tests in the directory.                                                  *)
BugGateOpen(to) ==
    CASE status = "in-progress" /\ to = "needs-review" -> branch /\ rooted < tip
      [] status = "needs-review" /\ to = "verifying"   -> report /\ dir = "present"
      [] OTHER -> TRUE

(* Going in progress ends in the hook: it creates a worktree unless there   *)
(* is one.                                                                  *)
MoveBug(c) ==
    /\ kind = "bug"
    /\ ~ Busy(c)
    /\ "move" \in tools
    /\ \E to \in {"in-progress", "needs-review", "verifying"} :
          /\ CanTransition("bug", status, to)
          /\ BugGateOpen(to)
          /\ status' = to
          /\ call' = IF to = "in-progress" /\ ActiveRecords = {}
                     THEN [call EXCEPT ![c] = [at |-> "add"]] ELSE call
    /\ UNCHANGED <<kind, tools, tasksDone, report, verification, cycle, recs, gitVars,
                   hubVars, verifier, crashes>>

(* Sending a bug back counts the cycle first, whether or not the cap then   *)
(* refuses the move.                                                        *)
CountRework(c) ==
    /\ kind = "bug"
    /\ ~ Busy(c)
    /\ "move" \in tools
    /\ CanTransition("bug", status, "needs-rework")
    /\ cycle <= MaxReviewCycles
    /\ cycle' = cycle + 1
    /\ call' = IF cycle + 1 > MaxReviewCycles THEN call
               ELSE [call EXCEPT ![c] = [at |-> "rework"]]
    /\ UNCHANGED <<kind, tools, status, tasksDone, report, verification, recs, gitVars,
                   hubVars, verifier, crashes>>

SendBack(c) ==
    /\ call[c].at = "rework"
    /\ End(c)
    /\ \/ /\ CanTransition("bug", status, "needs-rework")
          /\ status' = "needs-rework"
       \/ /\ ~ CanTransition("bug", status, "needs-rework")
          /\ UNCHANGED status
    /\ UNCHANGED <<kind, tools, tasksDone, report, verification, cycle, recs, gitVars, hubVars,
                   verifier, crashes>>

(* The close-out gate asks for a verifier once, and waits until its time is *)
(* up; the verifier's verdict goes back to whoever asked, and nothing hands *)
(* it to the gate.  Without a verifier role the gate lets the bug pass.     *)
CloseOutOpen == ~ HasVerifier

CloseBug(c, override) ==
    /\ kind = "bug"
    /\ ~ Busy(c)
    /\ "move" \in tools
    /\ CanTransition("bug", status, "closed")
    /\ \/ /\ override \/ CloseOutOpen
          /\ status' = "closed"
          /\ UNCHANGED verifier
       \/ /\ ~ override /\ ~ CloseOutOpen /\ verifier = "none"
          /\ verifier' = "dispatched"
          /\ UNCHANGED status
    /\ UNCHANGED <<kind, tools, tasksDone, report, verification, cycle, recs, gitVars,
                   hubVars, crashes, call>>

VerifierPasses ==
    /\ verifier = "dispatched"
    /\ verifier' = "passed"
    /\ UNCHANGED <<entityVars, recs, gitVars, hubVars, crashes, call>>

-----------------------------------------------------------------------------
(* People and agents at work, time, and processes that die. *)

CommitWork ==
    /\ dir = "present" /\ branch /\ tip < MaxCommits
    /\ tip' = tip + 1 /\ edited' = FALSE
    /\ UNCHANGED <<entityVars, recs, branch, landed, rooted, dir, hubVars, verifier, crashes, call>>

Edit ==
    /\ "disturb" \in tools /\ dir = "present" /\ ~ edited
    /\ edited' = TRUE
    /\ UNCHANGED <<entityVars, recs, branch, tip, landed, rooted, dir, hubVars, verifier,
                    crashes, call>>

DirectoryDeleted ==
    /\ "disturb" \in tools /\ dir = "present" /\ ~ edited
    /\ dir' = "missing"
    /\ UNCHANGED <<entityVars, recs, branch, tip, landed, rooted, edited, hubVars,
                   verifier, crashes, call>>

(* The tasks get done, the report is filed, the verification improves. *)
WorkRecorded ==
    /\ "work" \in tools
    /\ \/ ~ tasksDone /\ tasksDone' = TRUE /\ UNCHANGED <<report, verification>>
       \/ tasksDone /\ ~ report /\ report' = TRUE /\ UNCHANGED <<tasksDone, verification>>
       \/ /\ report
          /\ \/ verification = "none" /\ verification' = "partial"
             \/ verification = "partial" /\ verification' = "passed"
          /\ UNCHANGED <<tasksDone, report>>
    /\ UNCHANGED <<kind, tools, status, cycle, recs, gitVars, hubVars, verifier,
                   crashes, call>>

ClosePR ==
    /\ pr = "open" /\ pr' = "closed"
    /\ UNCHANGED <<entityVars, recs, gitVars, label, verifier, crashes, call>>

Tick ==
    /\ recs' = [r \in Records |-> IF recs[r].due > 0 THEN [recs[r] EXCEPT !.due = @ - 1]
                                                    ELSE recs[r]]
    /\ UNCHANGED <<entityVars, gitVars, hubVars, verifier, crashes, call>>

Crash(c) ==
    /\ "die" \in tools /\ Busy(c) /\ crashes < MaxCrashes
    /\ crashes' = crashes + 1
    /\ End(c)
    /\ verifier' = "none"
    /\ UNCHANGED <<entityVars, recs, gitVars, hubVars>>

-----------------------------------------------------------------------------
(* Nothing is there yet, or a worktree was created earlier. *)
Init ==
    /\ \E w \in Workloads :
          /\ kind = w.kind /\ tools = w.tools /\ branch = w.started
          /\ dir = IF w.started THEN "present" ELSE "absent"
          /\ recs = [r \in Records |->
                       IF w.started /\ r = CHOOSE s \in Records : TRUE
                       THEN [st |-> "active", due |-> 0, project |-> NewProject] ELSE NoRecord]
    /\ status = IF kind = "feature" THEN "developing" ELSE "planned"
    /\ tasksDone = FALSE /\ report = FALSE /\ verification = "none"
    /\ cycle = 0
    /\ tip = 0 /\ landed = 0 /\ rooted = 0 /\ edited = FALSE
    /\ pr = "none" /\ label = FALSE
    /\ verifier = "none" /\ crashes = 0
    /\ call = [c \in Callers |-> Idle]

Merge(c) ==
    \/ MergeBegin(c) \/ MergeBranch(c) \/ MergeConfirm(c) \/ MarkMerged(c)
    \/ WriteMerged(c) \/ MergeDeletes(c) \/ MergeAdvances(c)
    \/ MergeMoves(c, "merging", "verifying") \/ MergeMoves(c, "verifying", "build")
    \/ MergeBuilds(c)

Worktree(c) ==
    \/ CreateBegin(c) \/ CreateAdd(c) \/ CreateSave(c)
    \/ UpdateBegin(c) \/ UpdateCompares(c) \/ UpdateWrites(c)
    \/ RemoveWorktree(c) \/ DeleteRecord(c) \/ Gc(c)

Cleanup(c) ==
    \/ \E r \in Records : CleanupBegin(c, r)
    \/ CleanupDirectory(c) \/ CleanupBranch(c) \/ DeleteRecord(c)

PullRequest(c) == CreatePR(c) \/ UpdatePR(c)

Move(c) ==
    \/ MoveFeature(c) \/ MoveBug(c) \/ CountRework(c) \/ SendBack(c)
    \/ \E override \in BOOLEAN : CloseBug(c, override)

Next ==
    \/ \E c \in Callers : \/ Merge(c) \/ Worktree(c) \/ Cleanup(c) \/ PullRequest(c)
                          \/ Move(c) \/ Crash(c)
    \/ CommitWork \/ Edit \/ DirectoryDeleted \/ WorkRecorded \/ ClosePR \/ Tick
    \/ VerifierPasses

Spec == Init /\ [][Next]_vars

(* Somebody runs the cleanup every so often, which tries every record that *)
(* is ready, and a call that has begun goes on unless its process dies.    *)
CleanupSpec ==
    /\ Spec
    /\ WF_vars(Tick)
    /\ \A r \in Records : SF_vars(\E c \in Callers : CleanupBegin(c, r))
    /\ \A c \in Callers : WF_vars(Busy(c) /\ (Merge(c) \/ Worktree(c) \/ Cleanup(c)))

-----------------------------------------------------------------------------
(* The types, for those who will prove. *)
Statuses == KnownStates("feature") \cup KnownStates("bug")
RecordTypes ==
    [st : RecordStatuses \ {"none"}, due : Nat, project : GraphProjects] \cup {NoRecord, Gone}
MergeSteps == {"merge", "confirm", "record", "stamp", "delete", "advance", "merging", "verifying", "build"}
Calls ==
    [at : {"idle", "add", "save", "rework"}]
    \cup [at : {"clear", "unbranch", "forget"}, rec : Records]
    \cup [at : {"update"}, rec : Records, project : GraphProjects, next : GraphProjects]
    \cup [at : {"rewrite"}, rec : Records, next : GraphProjects, found : RecordStatuses]
    \cup [at : MergeSteps, rec : Records, project : GraphProjects, saw : Statuses,
          strategy : Strategies, cli : BOOLEAN]

TypeOK ==
    /\ \E w \in Workloads : kind = w.kind /\ tools = w.tools
    /\ status \in KnownStates(kind)
    /\ verification \in {"none", "partial", "passed"}
    /\ {tasksDone, report, branch, edited, label} \subseteq BOOLEAN
    /\ cycle \in 0..(MaxReviewCycles + 1)
    /\ recs \in [Records -> RecordTypes]
    /\ {rooted, landed, tip} \subseteq 0..MaxCommits /\ rooted <= landed /\ landed <= tip
    /\ dir \in {"absent", "present", "missing"}
    /\ pr \in {"none", "open", "closed"}
    /\ verifier \in {"none", "dispatched", "passed"}
    /\ crashes \in 0..MaxCrashes
    /\ call \in [Callers -> Calls]

(* However creations race with each other and with updates, removals,      *)
(* merges and crashes, an entity has one active worktree: the check for one *)
(* is made before git is called and the record is written after, and what  *)
(* keeps two creations apart in between is the branch, which git creates    *)
(* once.  An update that read the record before a merge marked it does not  *)
(* bring it back, because the hash no longer agrees.  Two things the code   *)
(* leaves open are asked for.  No call is about to delete the branch while  *)
(* another is creating: a late cleanup, or the end of a squash merge, can   *)
(* take it from under a new record and let a second creation through.  And *)
(* no record is removed before an update compares it, or changed between    *)
(* the comparison and the write: the update then puts it back as active     *)
(* (a file that is gone is not compared), beside the one created since.     *)
BranchesApart ==
    \A c, d \in Callers :
        call[c].at \in {"add", "save"} => call[d].at \notin {"unbranch", "delete"}
UpdatesApart ==
    \A c \in Callers :
        /\ call[c].at = "update" => recs[call[c].rec].st # "none"
        /\ call[c].at = "rewrite" => recs[call[c].rec].st = call[c].found
OneActive == \A r, s \in ActiveRecords : r = s
AtMostOneActive == [](BranchesApart /\ UpdatesApart) => []OneActive

(* A cleanup, and a merge that does not squash, deletes a branch only when  *)
(* the default branch has all its commits, whatever was committed while the *)
(* deletion was on its way.  (The forced deletion after a squash takes      *)
(* commits made since the merge with it, if the directory is gone by then.) *)
Squashed == \E c \in Callers : call[c].at = "delete" /\ call[c].strategy = "squash"
NoWorkLost == [][branch /\ ~ branch' => landed = tip \/ Squashed]_vars

(* A directory on disk belongs to a record, unless a process died over it. *)
NoOrphanDirectory ==
    (crashes = 0 /\ dir = "present" /\ \A c \in Callers : ~ Busy(c)) => KnownRecords # {}

(* A merged record is cleaned up in the end, also when processes die in the *)
(* middle of a cleanup, once the directory stays clean and the default      *)
(* branch has the branch.                                                   *)
CleanupCompletes ==
    ("cleanup" \in tools /\ <>[](~ edited /\ (branch => rooted = tip)))
      => \A r \in Records : recs[r].st = "merged" ~> recs[r].st # "merged"
=============================================================================
