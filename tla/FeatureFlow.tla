---------------------------- MODULE FeatureFlow ----------------------------
(***************************************************************************)
(* The stages of a feature: what moves it, and what must hold first.       *)
(*                                                                         *)
(* The entity tool's transition, advance (several stages in one call) and  *)
(* close-out move a feature, and so do the merge tool, the end of the last *)
(* task and the lifecycle hook of the document service.  Only the first    *)
(* two pass the gates; the batch follows its features.  Calls are atomic   *)
(* here, and a call that is refused and writes nothing is no step at all.  *)
(*                                                                         *)
(* A task that is not terminal is "open"; TaskBoard tells its statuses     *)
(* apart.  Documents may belong to a feature or to the batch.              *)
(***************************************************************************)
EXTENDS Lifecycle, Naturals

CONSTANTS
    Features, Tasks, Docs,
    Batch,            \* the batch all the features belong to
    FeatureOf,        \* the parent_feature of each task
    DocType,          \* the type of each document
    DocOwner,         \* the feature or batch that owns it
    Policy,           \* override_policy of the gates in stage-bindings.yaml
    HumanReview,      \* merge.require_human_review
    MaxReviewCycles,  \* DefaultMaxReviewCycles
    Targets,          \* the statuses each feature, and the batch, is asked for
    OverrideAt,       \* those it may be asked for with override
    DocOps,           \* what the workload does to each document
    CycleBound,       \* bound of the model on review_cycle
    None

Stages == <<"proposed", "designing", "specifying", "dev-planning",
            "developing", "reviewing", "done">>

FeatureStatuses == KnownStates("feature")
BatchStatuses   == KnownStates("batch")

(* What UpdateStatus lets through. *)
FeatureMoves == {m \in FeatureStatuses \X FeatureStatuses : CanTransition("feature", m[1], m[2])}
BatchMoves   == {m \in BatchStatuses \X BatchStatuses : CanTransition("batch", m[1], m[2])}

RefTypes == {"design", "spec", "dev-plan"}

ASSUME FlowAssumption ==
    /\ FeatureOf \in [Tasks -> Features]
    /\ DocType \in [Docs -> RefTypes \cup {"report"}]
    /\ DocOwner \in [Docs -> Features \cup {Batch}]
    /\ DOMAIN Policy \subseteq FeatureStatuses
    /\ \A s \in DOMAIN Policy : Policy[s] \in {"agent", "checkpoint"}
    /\ \A f \in Features : Targets[f] \cup OverrideAt[f] \subseteq FeatureStatuses
    /\ HumanReview \in BOOLEAN
    /\ MaxReviewCycles \in Nat \ {0}
    /\ CycleBound \in Nat
    /\ Batch \notin Features
    /\ None \notin Docs

VARIABLES
    status,     \* of each feature
    cycle,      \* its review_cycle
    blocked,    \* the features with a blocked_reason
    overrides,  \* the statuses its override records name as their target
    asked,      \* the statuses a checkpoint was created about
    batch,      \* the status of the batch
    task,       \* absent, open, done, or closed without being done
    verified,   \* the tasks with a recorded verification
    doc,        \* the status of each document record
    ref,        \* each feature's design, spec and dev_plan fields
    registry    \* is stage-bindings.yaml there?

vars == <<status, cycle, blocked, overrides, asked, batch,
          task, verified, doc, ref, registry>>

TypeOK ==
    /\ status \in [Features -> FeatureStatuses]
    /\ cycle \in [Features -> Nat]
    /\ blocked \subseteq Features
    /\ overrides \in [Features -> SUBSET FeatureStatuses]
    /\ asked \in [Features -> SUBSET FeatureStatuses]
    /\ batch \in BatchStatuses
    /\ task \in [Tasks -> {"absent", "open", "done", "not-planned"}]
    /\ verified \subseteq Tasks
    /\ doc \in [Docs -> {"absent", "draft", "approved", "superseded"}]
    /\ ref \in [Features -> [RefTypes -> Docs \cup {None}]]
    /\ registry \in BOOLEAN

-----------------------------------------------------------------------------
(* What the gates look at. *)

Children(f) == {t \in Tasks : FeatureOf[t] = f /\ task[t] # "absent"}

AllTasksTerminal(f) == \A t \in Children(f) : task[t] # "open"

(* The document a field of the feature names, or any of the type that the  *)
(* feature or its batch owns.                                              *)
ApprovedByRef(f, type) == ref[f][type] # None /\ doc[ref[f][type]] = "approved"

ApprovedByOwner(f, type) ==
    \E d \in Docs : /\ DocType[d] = type
                    /\ DocOwner[d] \in {f, Batch}
                    /\ doc[d] = "approved"

HasApproved(f, type) == ApprovedByRef(f, type) \/ ApprovedByOwner(f, type)

ReportExists(f) ==
    \E d \in Docs : DocType[d] = "report" /\ DocOwner[d] = f /\ doc[d] # "absent"

(* Mutant of the next: an off-by-one in the comparison. *)
CapReachedLate(f, from, to) ==
    from = "reviewing" /\ to = "needs-rework" /\ cycle[f] > MaxReviewCycles

CapReached(f, from, to) ==
    from = "reviewing" /\ to = "needs-rework" /\ cycle[f] >= MaxReviewCycles

HardcodedGate(f, from, to) ==
    CASE <<from, to>> = <<"designing", "specifying">> -> HasApproved(f, "design")
      [] <<from, to>> = <<"specifying", "dev-planning">> -> HasApproved(f, "spec")
      [] <<from, to>> = <<"dev-planning", "developing">> ->
            HasApproved(f, "dev-plan") /\ Children(f) # {}
      [] from \in {"developing", "needs-rework"} /\ to = "reviewing" -> AllTasksTerminal(f)
      [] <<from, to>> = <<"reviewing", "done">> -> ReportExists(f)
      [] <<from, to>> = <<"reviewing", "needs-rework">> -> ~ CapReached(f, from, to)
      [] <<from, to>> = <<"needs-rework", "developing">> -> ~ AllTasksTerminal(f)
      [] OTHER -> TRUE

(* The prerequisites of stage-bindings.yaml, by target stage.  It says     *)
(* "specification" where document records say "spec", so that only the     *)
(* spec field of the feature can satisfy it.                               *)
RegistryStages == {"specifying", "dev-planning", "developing", "reviewing"}

(* Mutant of the next: min_count is met by no tasks at all. *)
RegistryGateAnyCount(f, to) ==
    CASE to = "specifying"   -> HasApproved(f, "design")
      [] to = "dev-planning" -> ApprovedByRef(f, "spec")
      [] to = "developing"   -> HasApproved(f, "dev-plan")
      [] to = "reviewing"    -> AllTasksTerminal(f)

RegistryGate(f, to) ==
    CASE to = "specifying"   -> HasApproved(f, "design")
      [] to = "dev-planning" -> ApprovedByRef(f, "spec")
      [] to = "developing"   -> HasApproved(f, "dev-plan") /\ Children(f) # {}
      [] to = "reviewing"    -> AllTasksTerminal(f)

CheckGate(f, from, to) ==
    IF registry /\ to \in RegistryStages THEN RegistryGate(f, to)
                                         ELSE HardcodedGate(f, from, to)

OverridePolicy(to) == IF registry /\ to \in DOMAIN Policy THEN Policy[to] ELSE "agent"

Phase2 == {Stages[i] : i \in DOMAIN Stages} \cup {"needs-rework"}

(* The second transition table, of the model package, which the entity     *)
(* tool consults unless override is set.                                   *)
FeatureValidTransitions ==
    { <<"proposed", "designing">>, <<"designing", "specifying">>,
      <<"specifying", "dev-planning">>, <<"dev-planning", "developing">>,
      <<"developing", "reviewing">>, <<"developing", "needs-rework">>,
      <<"reviewing", "merging">>, <<"reviewing", "needs-rework">>,
      <<"reviewing", "done">>, <<"merging", "verifying">>, <<"verifying", "done">>,
      <<"verifying", "needs-rework">>, <<"needs-rework", "developing">>,
      <<"needs-rework", "reviewing">> }
    \cup ({"proposed", "designing", "specifying", "dev-planning", "developing",
           "reviewing", "merging", "verifying", "needs-rework"} \X Aborts)

EffectivelyTerminal == {"done"} \cup TerminalStates("feature")

(* Mutant of the next: One feature done is enough. *)
AutoClosedEarly(s) ==
    IF batch = "active" /\ \E f \in Features : s[f] = "done" THEN "done" ELSE batch

(* MaybeAutoAdvancePlan, for feature statuses s: both of its writes. *)
AutoClosed(s) ==
    IF /\ batch = "active"
       /\ \A f \in Features : s[f] \in EffectivelyTerminal
       /\ \E f \in Features : s[f] = "done"
    THEN "done" ELSE batch

(* MaybeAutoAdvanceFeature, once the tasks are s. *)
AutoReviewed(f, s) ==
    LET mine == {t \in Tasks : FeatureOf[t] = f /\ s[t] # "absent"}
    IN  IF /\ status[f] \in {"developing", "needs-rework"}
           /\ \A t \in mine : s[t] # "open"
           /\ \E t \in mine : s[t] = "done"
        THEN [status EXCEPT ![f] = "reviewing"] ELSE status

(* IncrementFeatureReviewCycle: the calls that enter reviewing by name. *)
Counted(f, entered) == [cycle EXCEPT ![f] = IF entered THEN @ + 1 ELSE @]

-----------------------------------------------------------------------------
(* entity(action: transition) on a feature. *)

NeedsClosedTasks(to, over) == ~ over /\ to \in EffectivelyTerminal

Gated(f, to) == {status[f], to} \subseteq Phase2

Transition(f, to, over) ==
    LET from     == status[f]
        bypassed == Gated(f, to) /\ ~ CheckGate(f, from, to)
        legal    == /\ over \/ <<from, to>> \in FeatureValidTransitions
                    /\ <<from, to>> \in FeatureMoves
        moved    == [status EXCEPT ![f] = to]
    IN
    /\ NeedsClosedTasks(to, over) => AllTasksTerminal(f)
    /\ to = "reviewing" => cycle[f] < CycleBound
    /\ \/ /\ bypassed /\ CapReached(f, from, to)        \* not even with override
          /\ blocked' = blocked \cup {f}
          /\ asked' = [asked EXCEPT ![f] = @ \cup {to}]
          /\ UNCHANGED <<status, cycle, overrides, batch>>
       \/ /\ bypassed /\ ~ CapReached(f, from, to) /\ over
          /\ OverridePolicy(to) = "checkpoint"
          /\ asked' = [asked EXCEPT ![f] = @ \cup {to}]
          /\ overrides' = [overrides EXCEPT ![f] = @ \cup {to}]
          /\ UNCHANGED <<status, cycle, blocked, batch>>
       \/ /\ ~ CapReached(f, from, to)
          /\ bypassed => over /\ OverridePolicy(to) = "agent"
          \* the record is written before the table is asked
          /\ overrides' = [overrides EXCEPT ![f] = IF bypassed THEN @ \cup {to} ELSE @]
          /\ status' = IF legal THEN moved ELSE status
          /\ cycle' = Counted(f, legal /\ to = "reviewing")
          /\ batch' = IF legal /\ to \in EffectivelyTerminal THEN AutoClosed(moved) ELSE batch
          /\ UNCHANGED <<blocked, asked>>
    /\ UNCHANGED <<task, verified, doc, ref, registry>>

(* entity(action: transition, advance: true).  Nothing the gates look at   *)
(* changes on the way, so the walk from stage i to stage j ends at the     *)
(* furthest stage before which no gate holds it.                           *)
(* Mutant of the next: advance overrides every gate, whatever its policy. *)
StopsBeforeUnlessOver(f, k, over) == ~ over /\ ~ CheckGate(f, Stages[k-1], Stages[k])

StopsBefore(f, k, over) ==
    /\ ~ CheckGate(f, Stages[k-1], Stages[k])
    /\ ~ over \/ OverridePolicy(Stages[k]) = "checkpoint"

StopsAt(f, k) ==
    Stages[k] = "reviewing" /\ (HumanReview \/ ~ Children(f) \subseteq verified)

Walks(f, i, k, over) ==
    /\ \A m \in (i+1)..k : ~ StopsBefore(f, m, over)
    /\ \A m \in (i+1)..(k-1) : ~ StopsAt(f, m)

Bypassed(f, i, k) == {m \in (i+1)..k : ~ CheckGate(f, Stages[m-1], Stages[m])}

(* The gate an advance with override stopped at, to ask first. *)
Halted(f, i, j, k, over) ==
    {m \in {k+1} \cap (i+1)..j : over /\ StopsBefore(f, m, over) /\ ~ (k > i /\ StopsAt(f, k))}

Entered(i, k) == \E m \in (i+1)..k : Stages[m] = "reviewing"

AdvanceTo(f, over, i, j, k) ==
    /\ Walks(f, i, k, over) /\ (k < j => ~ Walks(f, i, k+1, over))
    /\ Entered(i, k) => cycle[f] < CycleBound
    /\ status' = [status EXCEPT ![f] = Stages[k]]
    /\ cycle' = Counted(f, Entered(i, k))
    /\ overrides' = [overrides EXCEPT ![f] =
          @ \cup {Stages[m] : m \in Bypassed(f, i, k) \cup Halted(f, i, j, k, over)}]
    /\ asked' = [asked EXCEPT ![f] = @ \cup {Stages[m] : m \in Halted(f, i, j, k, over)}]
    /\ UNCHANGED <<blocked, batch, task, verified, doc, ref, registry>>

Advance(f, to, over) ==
    \E i, j \in DOMAIN Stages :
        /\ Stages[i] = status[f] /\ Stages[j] = to /\ i < j
        /\ \E k \in i..j : AdvanceTo(f, over, i, j, k)

-----------------------------------------------------------------------------
(* entity(action: close-out). *)

ReportApproved(f) ==
    \E d \in Docs : DocType[d] = "report" /\ DocOwner[d] = f /\ doc[d] = "approved"

CloseOut(f) ==
    /\ status[f] = "reviewing"
    /\ AllTasksTerminal(f) /\ ReportApproved(f)
    /\ status' = [status EXCEPT ![f] = "done"]
    /\ batch' = AutoClosed(status')
    /\ UNCHANGED <<cycle, blocked, overrides, asked,
                   task, verified, doc, ref, registry>>

(* merge(action: execute): what it does to the feature once its branch is  *)
(* merged.  Those of its gates that look at git, at the tests and at the   *)
(* verification fields hold or not, like the verifying stage (passes).     *)
(* Of ended tasks the gate knows only done.  The batch is not asked.       *)

MergeGates(f) ==
    /\ status[f] \in {"reviewing", "done"}
    /\ \A t \in Children(f) : task[t] = "done"

BeforeMerging(f) ==
    IF status[f] = "developing" THEN AutoReviewed(f, task)[f] ELSE status[f]

MergeFeature(f, over, passes) ==
    /\ status[f] = "reviewing" => ReportExists(f)         \* not even with override
    /\ over \/ MergeGates(f)
    /\ status' = [status EXCEPT ![f] =
          IF <<BeforeMerging(f), "merging">> \in FeatureMoves
          THEN IF passes THEN "done" ELSE "verifying"
          ELSE BeforeMerging(f)]
    /\ UNCHANGED <<cycle, blocked, overrides, asked, batch,
                   task, verified, doc, ref, registry>>

-----------------------------------------------------------------------------
(* Tasks. *)

CreateTask(t) ==
    /\ task[t] = "absent"
    /\ task' = [task EXCEPT ![t] = "open"]
    /\ UNCHANGED <<status, cycle, blocked, overrides, asked, batch,
                   verified, doc, ref, registry>>

(* finish: it ends the task and leaves the feature where it is. *)
FinishTask(t, verification) ==
    /\ task[t] = "open"
    /\ task' = [task EXCEPT ![t] = "done"]
    /\ verified' = verified \cup (IF verification THEN {t} ELSE {})
    /\ UNCHANGED <<status, cycle, blocked, overrides, asked, batch, doc, ref, registry>>

(* entity(action: transition) on a task, to a terminal status. *)
TransitionTask(t, to) ==
    LET after == [task EXCEPT ![t] = to]
    IN
    /\ task[t] = "open"
    /\ to \in {"done", "not-planned"}
    /\ task' = after
    /\ status' = AutoReviewed(FeatureOf[t], after)
    /\ batch' = IF status' # status THEN AutoClosed(status') ELSE batch
    /\ UNCHANGED <<cycle, blocked, overrides, asked, verified, doc, ref, registry>>

-----------------------------------------------------------------------------
(* The batch. *)

TransitionBatch(to, over) ==
    /\ ~ over /\ to \in {"done", "cancelled", "superseded"} =>
          \A f \in Features : status[f] \in EffectivelyTerminal
    /\ <<batch, to>> \in BatchMoves
    /\ batch' = to
    /\ UNCHANGED <<status, cycle, blocked, overrides, asked,
                   task, verified, doc, ref, registry>>

PostDesigning == {"specifying", "dev-planning", "developing", "reviewing", "done"}

-----------------------------------------------------------------------------
(* Documents.  The hook asks the lifecycle table and no gate. *)

(* Mutant of the next: The document hook does not ask the lifecycle table. *)
HookMovesFreely(f, to) == [status EXCEPT ![f] = to]

HookMoves(f, to) ==
    [status EXCEPT ![f] = IF <<@, to>> \in FeatureMoves THEN to ELSE @]

(* UpdatePlanStatus, whose shortcut from proposed has a condition of its own. *)
HookMovesBatch(to) ==
    IF /\ <<batch, to>> \in BatchMoves
       /\ <<batch, to>> = <<"proposed", "active">> =>
             \E f \in Features : status[f] \in PostDesigning
    THEN to ELSE batch

Unmoved == UNCHANGED <<cycle, blocked, overrides, asked, task, verified, registry>>

(* The entity that owns d moves to the stage that stageOf names, if any. *)
HookFires(d, stageOf) ==
    LET owner == DocOwner[d]
        moves == DocType[d] \in DOMAIN stageOf
        to    == stageOf[DocType[d]]
    IN  /\ status' = IF moves /\ owner \in Features THEN HookMoves(owner, to) ELSE status
        /\ batch' = IF moves /\ owner = Batch THEN HookMovesBatch(to) ELSE batch

SetRef(d, r) ==
    ref' = IF DocOwner[d] \in Features /\ DocType[d] \in RefTypes
           THEN [ref EXCEPT ![DocOwner[d]][DocType[d]] = r] ELSE ref

OnSubmit    == [type \in {"design", "spec"} |->
                   IF type = "design" THEN "designing" ELSE "specifying"]
OnApprove   == [type \in {"design", "spec"} |->
                   IF type = "design" THEN "specifying" ELSE "dev-planning"]
OnApproveBatch == [type \in {"design"} |-> "active"]
OnSupersede == [type \in RefTypes |->
                   CASE type = "design"   -> "designing"
                     [] type = "spec"     -> "specifying"
                     [] type = "dev-plan" -> "dev-planning"]

SubmitDocument(d, autoApprove) ==
    /\ doc[d] = "absent"
    /\ autoApprove => DocType[d] # "design"
    /\ doc' = [doc EXCEPT ![d] = IF autoApprove THEN "approved" ELSE "draft"]
    /\ SetRef(d, d)
    /\ HookFires(d, OnSubmit)
    /\ Unmoved

ApproveDocument(d) ==
    /\ doc[d] = "draft"
    /\ doc' = [doc EXCEPT ![d] = "approved"]
    /\ HookFires(d, IF DocOwner[d] = Batch THEN OnApproveBatch ELSE OnApprove)
    /\ ref' = ref
    /\ Unmoved

SupersedeDocument(d, by) ==
    /\ doc[d] = "approved" /\ doc[by] # "absent" /\ by # d
    /\ doc' = [doc EXCEPT ![d] = "superseded"]
    /\ HookFires(d, IF DocOwner[d] = Batch THEN <<>> ELSE OnSupersede)
    /\ ref' = ref
    /\ Unmoved

(* doc(action: refresh) after a substantive edit of the file. *)
RefreshDocument(d) ==
    /\ doc[d] = "approved"
    /\ doc' = [doc EXCEPT ![d] = "draft"]
    /\ UNCHANGED <<status, batch, ref>>
    /\ Unmoved

(* The field is cleared whichever document it names. *)
DeleteDocument(d, force) ==
    /\ doc[d] # "absent"
    /\ doc[d] = "approved" => force
    /\ doc' = [doc EXCEPT ![d] = "absent"]
    /\ SetRef(d, None)
    /\ UNCHANGED <<status, batch>>
    /\ Unmoved

-----------------------------------------------------------------------------
Init ==
    /\ status = [f \in Features |-> EntryState("feature")]
    /\ cycle = [f \in Features |-> 0]
    /\ blocked = {}
    /\ overrides = [f \in Features |-> {}]
    /\ asked = [f \in Features |-> {}]
    /\ batch = EntryState("batch")
    /\ task = [t \in Tasks |-> "absent"]
    /\ verified = {}
    /\ doc = [d \in Docs |-> "absent"]
    /\ ref = [f \in Features |-> [type \in RefTypes |-> None]]
    /\ registry \in BOOLEAN

Requests(x) == (Targets[x] \X {FALSE}) \cup (OverrideAt[x] \X {TRUE})

FeatureStep ==
    \E f \in Features : \E r \in Requests(f) :
        Transition(f, r[1], r[2]) \/ Advance(f, r[1], r[2])

EndStep ==
    \E f \in Features :
        \/ "done" \in Targets[f] /\ CloseOut(f)
        \/ /\ "merging" \in Targets[f]
           /\ \E over, passes \in BOOLEAN : MergeFeature(f, over, passes)

TaskStep ==
    \E t \in Tasks :
        \/ CreateTask(t)
        \/ \E v \in BOOLEAN : FinishTask(t, v)
        \/ \E to \in {"done", "not-planned"} : TransitionTask(t, to)

BatchStep == \E r \in Requests(Batch) : TransitionBatch(r[1], r[2])

DocStep ==
    \E d \in Docs :
        \/ "submit" \in DocOps[d] /\ SubmitDocument(d, FALSE)
        \/ "auto-approve" \in DocOps[d] /\ SubmitDocument(d, TRUE)
        \/ "approve" \in DocOps[d] /\ ApproveDocument(d)
        \/ "supersede" \in DocOps[d] /\ \E by \in Docs : SupersedeDocument(d, by)
        \/ "refresh" \in DocOps[d] /\ RefreshDocument(d)
        \/ "delete" \in DocOps[d] /\ \E force \in BOOLEAN : DeleteDocument(d, force)

Next == FeatureStep \/ EndStep \/ TaskStep \/ BatchStep \/ DocStep

Spec == Init /\ [][Next]_vars

-----------------------------------------------------------------------------
(* Properties. *)

(* A feature that has got as far as development, by whatever route (one    *)
(* transition after the other, one advance over several stages, documents  *)
(* approved on the way), has tasks, or an override record of the           *)
(* developing gate says why it has none.                                   *)
PlannedBeforeDeveloping ==
    \A f \in Features :
        status[f] \in {"developing", "reviewing", "needs-rework", "merging", "verifying", "done"}
            => Children(f) # {} \/ "developing" \in overrides[f]

(* Whatever moves a feature into review (transition, advance, the end of   *)
(* its last task), its tasks are all ended then, or the override is on     *)
(* record and the policy of the gate left that to the agent.               *)
ReviewSeesFinishedWork ==
    [][ \A f \in Features :
          (status[f] # "reviewing" /\ status'[f] = "reviewing") =>
              \/ \A t \in Children(f)' : task'[t] # "open"
              \/ /\ "reviewing" \in overrides'[f]
                 /\ OverridePolicy("reviewing") = "agent" ]_vars

(* The cap on reviews is beyond override: a feature that has been counted  *)
(* into review MaxReviewCycles times is not sent from review to rework, by *)
(* anyone, and one that was blocked by the cap never is again.             *)
CapHolds ==
    [][ \A f \in Features :
          (status[f] = "reviewing" /\ status'[f] = "needs-rework") =>
              cycle[f] < MaxReviewCycles /\ f \notin blocked ]_vars

(* Whichever feature ends last, and however, the batch closes by itself    *)
(* only when all of them have ended and one of them is done.               *)
BatchClosesAfterFeatures ==
    [][ (batch = "active" /\ batch' = "done") =>
          /\ \A f \in Features : status'[f] \in EffectivelyTerminal
          /\ \E f \in Features : status'[f] = "done" ]_vars

(* No transition, advance, task or document brings a feature back once it  *)
(* has ended; a done feature can only be written off.                      *)
EndedStaysEnded ==
    [][ \A f \in Features :
          /\ status[f] \in TerminalStates("feature") => status'[f] = status[f]
          /\ status[f] = "done" => status'[f] \in EffectivelyTerminal ]_vars
=============================================================================
