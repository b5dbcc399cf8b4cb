---------------------------- MODULE TaskHandlers ----------------------------
(***************************************************************************)
(* The calls of TaskBoard taken apart.  A session is one tool call being   *)
(* served: by a goroutine of the MCP server, or by another server process  *)
(* on the same .kbz/.  Nothing serialises sessions.  A call reads a task   *)
(* file, compares a hash before it writes, renames a temporary file over   *)
(* the old one, upserts the cache row, and then runs the hook; any other   *)
(* session may come between any two of these steps, and the process may    *)
(* die between them.                                                       *)
(*                                                                         *)
(* A call is a program: a sequence of instructions that its session works  *)
(* through.  A write takes three steps, Load, Verify and Rename.           *)
(*                                                                         *)
(* The cache is warm throughout and depends_on lists do not change.        *)
(***************************************************************************)
EXTENDS Lifecycle, Sequences, SequencesExt

CONSTANTS
    Tasks,
    DependsOn,     \* the depends_on list of each task
    Promoted,      \* the tasks an earlier queue inspection has made ready
    Sessions,
    Serves,        \* the tasks each session makes calls about
    Ops,           \* the calls of the workload under study
    Targets,       \* the statuses finish and transition are asked for
    MaxCrashes,    \* how many times a process may die in the middle of a call
    None           \* "no session": what a task nobody has claimed records

ASSUME HandlersAssumption ==
    /\ Tasks # {} /\ IsFiniteSet(Tasks)
    /\ DependsOn \in [Tasks -> SUBSET Tasks]
    /\ Promoted \subseteq {t \in Tasks : DependsOn[t] = {}}
    /\ Serves \in [Sessions -> SUBSET Tasks]
    /\ Ops \subseteq {"claim", "finish", "transition", "queue"}
    /\ MaxCrashes \in Nat
    /\ None \notin Sessions

VARIABLES
    file,      \* each task file: status, dispatch fields, completion fields
    row,       \* the status in each cache row
    prog,      \* what is left of the call each session is serving
    phase,     \* how far its current write has come
    held,      \* the record it holds in memory
    listed,    \* what its last List answered
    dirty,     \* does the working tree hold uncommitted changes to .kbz/?
    answer,    \* <<the ready list>> once a queue inspection has ended
    crashes

vars == <<file, row, prog, phase, held, listed, dirty, answer, crashes>>

TaskStatuses ==
    {"queued", "ready", "active", "blocked", "needs-review", "needs-rework",
     "done", "not-planned", "duplicate"}

Records == [status    : TaskStatuses,
            claimedBy : Sessions \cup {None},   \* dispatched_by, claimed_at
            completed : BOOLEAN]                \* completed, completion_summary

(* The instructions.  "status", "try" and "promote" write a status: "status" *)
(* ends the call when it fails, "try" and "promote" are skipped.  "promote"  *)
(* is the hook's write, which asks nothing of the status it overwrites.      *)
Writes  == {"status", "try", "promote", "claim", "complete"}
Kinds   == Writes \cup {"ready?", "deps?", "active?", "upsert", "hook", "queue", "answer",
                        "commit", "list", "rebuild"}

Instruction(kind, t, s) == [do |-> kind, task |-> t, to |-> s]
Moving == {"status", "try", "promote", "upsert"}
Instructions == [do : Moving, task : Tasks, to : TaskStatuses]
                \cup [do : Kinds \ Moving, task : Tasks, to : {""}]

TypeOK ==
    /\ file \in [Tasks -> Records]
    /\ row  \in [Tasks -> TaskStatuses]
    /\ prog \in [Sessions -> Seq(Instructions)]
    /\ phase  \in [Sessions -> {"load", "verify", "rename"}]
    /\ held   \in [Sessions -> Records]
    /\ listed \in [Sessions -> [Tasks -> TaskStatuses]]
    /\ dirty  \in BOOLEAN
    /\ answer \in {<<>>} \cup {<<S>> : S \in SUBSET Tasks}
    /\ crashes \in 0 .. MaxCrashes

(* A task as it is created.  A session that holds no record is given this  *)
(* one, and one that has listed nothing is given Unlisted.                 *)
New == [status |-> "queued", claimedBy |-> None, completed |-> FALSE]
Unlisted == [t \in Tasks |-> "queued"]

Satisfied(t, st) == IsTaskDependencySatisfied(st[t])
DepsMet(t, st)   == \A d \in DependsOn[t] : Satisfied(d, st)
FileStatus == [t \in Tasks |-> file[t].status]

Quiet(c) == prog[c] = <<>>
Quiescent == \A c \in Sessions : Quiet(c)

At(c, kinds) == ~ Quiet(c) /\ Head(prog[c]).do \in kinds
Current(c) == Head(prog[c])

(* The four ways a step leaves the program of session c. *)
Run(c, p)   == prog' = [prog EXCEPT ![c] = p]
Continue(c) == Run(c, Tail(prog[c]))
Abort(c)    == Run(c, <<>>)
Forget(c) ==
    /\ held' = [held EXCEPT ![c] = New]
    /\ phase' = [phase EXCEPT ![c] = "load"]
Fail(c)     == IF Current(c).do \in {"try", "promote"} THEN Continue(c) ELSE Abort(c)

-----------------------------------------------------------------------------
(* The calls. *)

Begin(c, p) ==
    /\ Quiet(c)
    /\ Run(c, p)
    /\ answer' = <<>>
    /\ UNCHANGED <<file, row, phase, held, listed, dirty, crashes>>

(* next(id) looks at the status and at the working tree.  DispatchTask     *)
(* checks the status again, then the dependencies, moves the task through  *)
(* UpdateStatus and records who claimed it in a write of its own.          *)
ClaimCall(c, t) ==
    /\ "claim" \in Ops
    /\ ~ dirty
    /\ file[t].status = "ready"
    /\ Begin(c, << Instruction("ready?", t, ""),
                   Instruction("deps?", t, ""),
                   Instruction("status", t, "active"),
                   Instruction("claim", t, "") >>)

(* finish: a ready task is moved to active first; CompleteTask then checks *)
(* that it is active, moves it on, writes the completion fields and        *)
(* refreshes the row from that write.                                      *)
FinishCall(c, t, s) ==
    /\ "finish" \in Ops
    /\ s \in {"done", "needs-review"}
    /\ file[t].status \in {"ready", "active"}
    /\ Begin(c, (IF file[t].status = "ready"
                 THEN << Instruction("status", t, "active") >> ELSE <<>>)
                \o << Instruction("active?", t, ""),
                      Instruction("status", t, s),
                      Instruction("complete", t, ""),
                      Instruction("commit", t, "") >>)

(* finish with a to_status it does not know: CompleteTask refuses before   *)
(* it looks at the task, and the ready task stays active.                  *)
FinishRefusedCall(c, t) ==
    /\ "finish" \in Ops
    /\ file[t].status = "ready"
    /\ Begin(c, << Instruction("status", t, "active") >>)

(* entity(action: transition). *)
TransitionCall(c, t, s) ==
    /\ "transition" \in Ops
    /\ <<file[t].status, s>> # <<"queued", "ready">>
    /\ CanTransition("task", file[t].status, s)
    /\ Begin(c, << Instruction("status", t, s), Instruction("commit", t, "") >>)

(* next() without an id. *)
QueueCall(c) ==
    /\ "queue" \in Ops
    /\ Begin(c, << Instruction("queue", CHOOSE t \in Tasks : TRUE, "") >>)

-----------------------------------------------------------------------------
(* The steps of a call. *)

CheckDeps(c) ==
    /\ At(c, {"deps?"})
    /\ IF DepsMet(Current(c).task, FileStatus) THEN Continue(c) ELSE Abort(c)
    /\ UNCHANGED <<file, row, phase, held, listed, dirty, answer, crashes>>

CheckStatus(c) ==
    /\ At(c, {"ready?", "active?"})
    /\ IF file[Current(c).task].status = IF At(c, {"ready?"}) THEN "ready" ELSE "active"
         THEN Continue(c) ELSE Abort(c)
    /\ UNCHANGED <<file, row, phase, held, listed, dirty, answer, crashes>>

(* Does the write the instruction i stands for go ahead from record r? *)
MayWrite(i, r) ==
    i.do \in {"status", "try"} => CanTransition("task", r.status, i.to)

(* What it writes. *)
Written(c, i, r) ==
    CASE i.do \in {"status", "try", "promote"} -> [r EXCEPT !.status = i.to]
      [] i.do = "claim"    -> [r EXCEPT !.claimedBy = c]
      [] i.do = "complete" -> [r EXCEPT !.completed = TRUE]

(* store.Load, and the transition check UpdateStatus makes on the record   *)
(* it loaded.                                                              *)
Load(c) ==
    /\ At(c, Writes) /\ phase[c] = "load"
    /\ IF MayWrite(Current(c), file[Current(c).task])
         THEN /\ phase' = [phase EXCEPT ![c] = "verify"]
              /\ held' = [held EXCEPT ![c] = file[Current(c).task]]
              /\ UNCHANGED prog
         ELSE Fail(c) /\ UNCHANGED <<phase, held>>
    /\ UNCHANGED <<file, row, listed, dirty, answer, crashes>>

(* EntityStore.Write, first half: the hash of the file against the hash    *)
(* Load took.  Equal hashes are equal contents; on a conflict nobody       *)
(* retries.                                                                *)
Verify(c) ==
    /\ At(c, Writes) /\ phase[c] = "verify"
    /\ IF file[Current(c).task] = held[c]
         THEN /\ phase' = [phase EXCEPT ![c] = "rename"]
              /\ UNCHANGED <<prog, held>>
         ELSE Forget(c) /\ Fail(c)
    /\ UNCHANGED <<file, row, listed, dirty, answer, crashes>>

Refresh(i, r) == << Instruction("upsert", i.task, r.status) >>
Wake(i) == IF IsTaskDependencySatisfied(i.to)
           THEN << Instruction("hook", i.task, "") >> ELSE <<>>

(* Ways to get it wrong: run the hook before the row is fresh, or refresh  *)
(* the row from the request instead of the record.                         *)
HookFirst(i, r) ==
    CASE i.do \in {"status", "try"}    -> Wake(i) \o Refresh(i, r)
      [] i.do = "complete"            -> Refresh(i, r)
      [] i.do \in {"claim", "promote"} -> <<>>

(* What is still to do when record r has been written: UpdateStatus        *)
(* upserts the row and calls the hook, CompleteTask upserts it once more,  *)
(* and the claim fields and the hook's own writes leave the row alone.     *)
AfterWrite(i, r) ==
    CASE i.do \in {"status", "try"}    -> Refresh(i, r) \o Wake(i)
      [] i.do = "complete"            -> Refresh(i, r)
      [] i.do \in {"claim", "promote"} -> <<>>

(* EntityStore.Write, second half: the rename, whatever the file has       *)
(* become since the hash was compared.                                     *)
Rename(c) ==
    LET i == Current(c)
        r == Written(c, i, held[c])
    IN  /\ At(c, Writes) /\ phase[c] = "rename"
        /\ file' = [file EXCEPT ![i.task] = r]
        /\ Forget(c)
        /\ Run(c, AfterWrite(i, r) \o Tail(prog[c]))
        /\ dirty' = TRUE
        /\ UNCHANGED <<row, listed, answer, crashes>>

(* The cache row, from the record the write was made of. *)
Upsert(c) ==
    /\ At(c, {"upsert"})
    /\ row' = [row EXCEPT ![Current(c).task] = Current(c).to]
    /\ Continue(c)
    /\ UNCHANGED <<file, phase, held, listed, dirty, answer, crashes>>

(* The tasks S as instructions, in the order List returns them. *)
Each(kind, S, s) ==
    [i \in 1 .. Cardinality(S) |-> Instruction(kind, SetToSeq(S)[i], s)]

(* A way to get it wrong: any met dependency is enough. *)
UnblockedByAny(t) ==
    {u \in Tasks : t \in DependsOn[u] /\ row[u] \in {"queued", "blocked"}}

(* The tasks the hook promotes once t has ended. *)
Unblocked(t) ==
    {u \in Tasks : /\ t \in DependsOn[u]
                   /\ row[u] \in {"queued", "blocked"}
                   /\ DepsMet(u, row)}

(* The dependency hook lists the rows and promotes one task at a time. *)
RunHook(c) ==
    /\ At(c, {"hook"})
    /\ Run(c, Each("promote", Unblocked(Current(c).task), "ready") \o Tail(prog[c]))
    /\ UNCHANGED <<file, row, phase, held, listed, dirty, answer, crashes>>

Promotable == {t \in Tasks : row[t] = "queued" /\ DepsMet(t, row)}

(* WorkQueue lists the rows, tries to move each eligible task, and lists   *)
(* again for its answer.                                                   *)
ListQueue(c) ==
    /\ At(c, {"queue"})
    /\ Run(c, Each("try", Promotable, "ready")
              \o << Instruction("answer", Current(c).task, "") >>)
    /\ UNCHANGED <<file, row, phase, held, listed, dirty, answer, crashes>>

Answer(c) ==
    /\ At(c, {"answer"})
    /\ answer' = << {t \in Tasks : row[t] = "ready"} >>
    /\ Continue(c)
    /\ UNCHANGED <<file, row, phase, held, listed, dirty, crashes>>

(* The commit at the end of a call is best-effort. *)
CommitState(c) ==
    /\ At(c, {"commit"})
    /\ dirty' \in BOOLEAN
    /\ Continue(c)
    /\ UNCHANGED <<file, row, phase, held, listed, answer, crashes>>

(* The process dies.  What was renamed and upserted stays; what was not,   *)
(* is gone.  A new process rebuilds the cache before it serves a call: it  *)
(* lists the files, then replaces the rows.                                *)
CrashAndResume(c) ==    \* a way to get it wrong: no rebuild
    /\ ~ Quiet(c) /\ crashes < MaxCrashes
    /\ crashes' = crashes + 1
    /\ Forget(c)
    /\ Abort(c)
    /\ answer' = <<>>
    /\ UNCHANGED <<file, row, listed, dirty>>

Crash(c) ==
    /\ ~ Quiet(c) /\ crashes < MaxCrashes
    /\ crashes' = crashes + 1
    /\ Forget(c)
    /\ Run(c, LET t == CHOOSE t \in Tasks : TRUE
              IN  << Instruction("list", t, ""), Instruction("rebuild", t, "") >>)
    /\ answer' = <<>>
    /\ UNCHANGED <<file, row, listed, dirty>>

ListFiles(c) ==
    /\ At(c, {"list"})
    /\ listed' = [listed EXCEPT ![c] = FileStatus]
    /\ Continue(c)
    /\ UNCHANGED <<file, row, phase, held, dirty, answer, crashes>>

Rebuild(c) ==
    /\ At(c, {"rebuild"})
    /\ row' = listed[c]
    /\ listed' = [listed EXCEPT ![c] = Unlisted]
    /\ Continue(c)
    /\ UNCHANGED <<file, phase, held, dirty, answer, crashes>>

(* Somebody commits .kbz/ between calls. *)
HandCommit ==
    /\ dirty
    /\ dirty' = FALSE
    /\ answer' = <<>>
    /\ UNCHANGED <<file, row, prog, phase, held, listed, crashes>>

-----------------------------------------------------------------------------

Init ==
    /\ file = [t \in Tasks |-> IF t \in Promoted THEN [New EXCEPT !.status = "ready"] ELSE New]
    /\ row = FileStatus
    /\ prog = [c \in Sessions |-> <<>>]
    /\ phase = [c \in Sessions |-> "load"]
    /\ held = [c \in Sessions |-> New]
    /\ listed = [c \in Sessions |-> Unlisted]
    /\ dirty = FALSE
    /\ answer = <<>>
    /\ crashes = 0

Step(c) ==
    \/ CheckDeps(c) \/ CheckStatus(c)
    \/ Load(c) \/ Verify(c) \/ Rename(c) \/ Upsert(c)
    \/ RunHook(c)
    \/ ListQueue(c) \/ Answer(c)
    \/ CommitState(c)
    \/ ListFiles(c) \/ Rebuild(c)

Call(c) ==
    \/ \E t \in Serves[c] :
          \/ ClaimCall(c, t)
          \/ FinishRefusedCall(c, t)
          \/ \E s \in Targets : FinishCall(c, t, s) \/ TransitionCall(c, t, s)
    \/ QueueCall(c)

Next ==
    \/ \E c \in Sessions : Call(c) \/ Step(c) \/ Crash(c)
    \/ HandCommit

Spec == Init /\ [][Next]_vars

(* A process that is alive works on: nothing in a call waits for another   *)
(* session.                                                                *)
CallsProceed == \A c \in Sessions : WF_vars(Step(c))
FairSpec == Spec /\ CallsProceed

(* The dispatch loop of the orchestrating agent, query the queue, claim a  *)
(* ready task, finish it when it is active, repeat: it never gives up on a *)
(* call it can make.  Committing .kbz/ when a claim is refused because of  *)
(* it is not part of the loop.                                             *)
DispatchLoop ==
    \A c \in Sessions :
        /\ SF_vars(QueueCall(c))
        /\ \A t \in Serves[c] :
              /\ SF_vars(ClaimCall(c, t))
              /\ SF_vars(file[t].status = "active" /\ FinishCall(c, t, "done"))
LoopSpec == FairSpec /\ DispatchLoop
CommittedLoopSpec == LoopSpec /\ WF_vars(HandCommit)

-----------------------------------------------------------------------------
(* What the calls promise. *)

Started ==
    {"ready", "active", "blocked", "needs-review", "needs-rework", "done"}

(* A call that died between its write and its hook loses the wake-up; the  *)
(* next queue inspection makes up for it: once it has answered, whatever   *)
(* is still queued is waiting for a task that has not ended.               *)
QueueHeals ==
    answer # <<>> =>
        \A t \in Tasks : file[t].status = "queued" => ~ DepsMet(t, FileStatus)

(* Two calls that end the last two dependencies of a task at the same time *)
(* cannot each leave the wake-up to the other: each has upserted its row   *)
(* before it lists.  Once all calls are over, no task is left waiting for  *)
(* dependencies that have all ended.                                       *)
NoWakeupLostAtRest ==
    Quiescent => \A t \in Tasks : DependsOn[t] # {} /\ file[t].status = "queued" =>
                                      ~ DepsMet(t, FileStatus)

(* The dispatch loop takes every task to done, a crash notwithstanding. *)
LoopCompletes == <>(\A t \in Tasks : file[t].status = "done")

(* spec-phase-4a, 4.3: only one agent can claim a given task. *)
ClaimedOnce ==
    [][\A t \in Tasks :
          file[t].claimedBy # None => file'[t].claimedBy = file[t].claimedBy]_vars
=============================================================================
