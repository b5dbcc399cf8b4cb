------------------------- MODULE FeatureFlow_proofs -------------------------
(***************************************************************************)
(* What the stages of a feature promise, for any features, tasks,          *)
(* documents, override policies and workload.                              *)
(***************************************************************************)
EXTENDS FeatureFlow, TLAPS

-----------------------------------------------------------------------------
(* The tables. *)

LEMMA Entry == EntryState("feature") = "proposed" /\ EntryState("batch") = "proposed"
<1>1. \A kind, s : <<kind, s>> \in EntryStates /\ kind = "feature" => s = "proposed"
  BY DEF EntryStates
<1>2. \A kind, s : <<kind, s>> \in EntryStates /\ kind = "batch" => s = "proposed"
  BY DEF EntryStates
<1>3. /\ <<"feature", "proposed">> \in EntryStates
      /\ <<"batch", "proposed">> \in EntryStates
  BY DEF EntryStates
<1>4. "proposed" \in {e[2] : e \in EntryStates}
  BY <1>3
<1> QED
  BY <1>1, <1>2, <1>3, <1>4 DEF EntryState

LEMMA EntryKnown == "proposed" \in FeatureStatuses /\ "proposed" \in BatchStatuses
  BY Entry DEF FeatureStatuses, BatchStatuses, KnownStates

LEMMA MovesAreEdges ==
  ASSUME NEW m \in FeatureMoves
  PROVE  m \in FeatureEdges /\ m[2] \in FeatureStatuses
  BY DEF FeatureMoves, CanTransition, AllowedTransitions

(* The only way out of the early stages leads from dev-planning to         *)
(* developing.                                                             *)
Early == {"proposed", "designing", "specifying", "dev-planning", "superseded", "cancelled"}

LEMMA OneWayOut ==
  ASSUME NEW from, NEW to, <<from, to>> \in FeatureMoves, from \in Early, to \notin Early
  PROVE  from = "dev-planning" /\ to = "developing"
<1>1. <<from, to>> \in FeatureEdges
  BY MovesAreEdges
<1> QED
  BY <1>1 DEF FeatureEdges, Early, Aborts

LEMMA EdgesKnown ==
    ASSUME NEW m \in FeatureEdges PROVE m[1] \in FeatureStatuses /\ m[2] \in FeatureStatuses
  BY DEF FeatureStatuses, KnownStates, AllowedTransitions

LEMMA StagesKnown == \A i \in DOMAIN Stages : Stages[i] \in FeatureStatuses
  <1>1. {<<"proposed", "designing">>, <<"designing", "specifying">>,
         <<"specifying", "dev-planning">>, <<"dev-planning", "developing">>,
         <<"developing", "reviewing">>, <<"reviewing", "done">>} \subseteq FeatureEdges
    BY DEF FeatureEdges
  <1>2. {"proposed", "designing", "specifying", "dev-planning", "developing",
         "reviewing", "done"} \subseteq FeatureStatuses
    BY <1>1, EdgesKnown
  <1> QED
    BY <1>2 DEF Stages

LEMMA BatchDoneKnown == "done" \in BatchStatuses
  <1>1. <<"reviewing", "done">> \in BatchEdges
    BY DEF BatchEdges
  <1> QED
    BY <1>1 DEF BatchStatuses, KnownStates, AllowedTransitions

(* What a step of a feature is asked for. *)
LEMMA FeatureSteps ==
    ASSUME FlowAssumption, FeatureStep
    PROVE  \E f \in Features, over \in BOOLEAN :
              \/ \E to \in FeatureStatuses : Transition(f, to, over)
              \/ \E to : Advance(f, to, over)
  <1>1. PICK f \in Features : \E r \in Requests(f) :
          Transition(f, r[1], r[2]) \/ Advance(f, r[1], r[2])
    BY DEF FeatureStep
  <1>2. PICK r \in Requests(f) : Transition(f, r[1], r[2]) \/ Advance(f, r[1], r[2])
    BY <1>1
  <1>3. r[1] \in FeatureStatuses /\ r[2] \in BOOLEAN
    BY DEF Requests, FlowAssumption
  <1> QED
    BY <1>2, <1>3

-----------------------------------------------------------------------------
(* Types. *)

LEMMA AutoClosedType ==
    ASSUME batch \in BatchStatuses, NEW s PROVE AutoClosed(s) \in BatchStatuses
  BY BatchDoneKnown DEF AutoClosed

LEMMA CountedType ==
    ASSUME cycle \in [Features -> Nat], NEW f \in Features, NEW b \in BOOLEAN
    PROVE  Counted(f, b) \in [Features -> Nat]
  BY DEF Counted

(* Whatever the hook does, statuses stay statuses. *)
LEMMA HookType ==
    ASSUME TypeOK, NEW d \in Docs, NEW stageOf, HookFires(d, stageOf)
    PROVE  status' \in [Features -> FeatureStatuses] /\ batch' \in BatchStatuses
  <1>1. \A to : \A f \in Features : HookMoves(f, to) \in [Features -> FeatureStatuses]
    BY DEF HookMoves, FeatureMoves, TypeOK
  <1>2. \A to : HookMovesBatch(to) \in BatchStatuses
    BY DEF HookMovesBatch, BatchMoves, TypeOK
  <1> QED
    BY <1>1, <1>2 DEF HookFires, TypeOK

LEMMA SetRefType ==
    ASSUME TypeOK, NEW d \in Docs, NEW r \in Docs \cup {None}, SetRef(d, r)
    PROVE  ref' \in [Features -> [RefTypes -> Docs \cup {None}]]
  <1>1. CASE DocOwner[d] \in Features /\ DocType[d] \in RefTypes
    <2> DEFINE f == DocOwner[d]
               type == DocType[d]
    <2>1. ref' = [ref EXCEPT ![f] = [ref[f] EXCEPT ![type] = r]]
      BY <1>1 DEF SetRef, TypeOK
    <2>2. [ref[f] EXCEPT ![type] = r] \in [RefTypes -> Docs \cup {None}]
      BY <1>1 DEF TypeOK
    <2> QED
      BY <2>1, <2>2 DEF TypeOK
  <1>2. CASE ~ (DocOwner[d] \in Features /\ DocType[d] \in RefTypes)
    BY <1>2 DEF SetRef, TypeOK
  <1> QED
    BY <1>1, <1>2

LEMMA TransitionType ==
    ASSUME TypeOK, NEW f \in Features, NEW to \in FeatureStatuses, NEW over \in BOOLEAN,
           Transition(f, to, over)
    PROVE  TypeOK'
  <1>1. status' \in [Features -> FeatureStatuses]
    BY DEF Transition, TypeOK
  <1>2. cycle' \in [Features -> Nat]
    <2>1. cycle' = cycle \/ \E b \in BOOLEAN : cycle' = Counted(f, b)
      BY DEF Transition
    <2> QED
      BY <2>1, CountedType DEF TypeOK
  <1>3. blocked' \subseteq Features
    BY DEF Transition, TypeOK
  <1>4. overrides' \in [Features -> SUBSET FeatureStatuses]
    BY DEF Transition, TypeOK
  <1>5. asked' \in [Features -> SUBSET FeatureStatuses]
    BY DEF Transition, TypeOK
  <1>6. batch' \in BatchStatuses
    BY AutoClosedType DEF Transition, TypeOK
  <1>7. UNCHANGED <<task, verified, doc, ref, registry>>
    BY DEF Transition
  <1> QED
    BY <1>1, <1>2, <1>3, <1>4, <1>5, <1>6, <1>7 DEF TypeOK

LEMMA AdvanceType ==
    ASSUME TypeOK, NEW f \in Features, NEW to, NEW over \in BOOLEAN, Advance(f, to, over)
    PROVE  TypeOK'
  <1>0. PICK i \in DOMAIN Stages, j \in DOMAIN Stages : \E k \in i..j :
          AdvanceTo(f, over, i, j, k)
    BY DEF Advance
  <1>1. PICK k \in i..j : AdvanceTo(f, over, i, j, k)
    BY <1>0
  <1>2. DOMAIN Stages = 1..7
    BY DEF Stages
  <1> DEFINE B == Bypassed(f, i, k)
             H == Halted(f, i, j, k, over)
  <1>3. B \subseteq DOMAIN Stages /\ H \subseteq DOMAIN Stages /\ k \in DOMAIN Stages
    BY <1>2 DEF Bypassed, Halted
  <1>4. /\ Stages[k] \in FeatureStatuses
        /\ {Stages[m] : m \in B \cup H} \subseteq FeatureStatuses
        /\ {Stages[m] : m \in H} \subseteq FeatureStatuses
    BY <1>3, StagesKnown
  <1>5. /\ status' = [status EXCEPT ![f] = Stages[k]]
        /\ cycle' = Counted(f, Entered(i, k))
        /\ overrides' = [overrides EXCEPT ![f] = @ \cup {Stages[m] : m \in B \cup H}]
        /\ asked' = [asked EXCEPT ![f] = @ \cup {Stages[m] : m \in H}]
        /\ UNCHANGED <<blocked, batch, task, verified, doc, ref, registry>>
    BY <1>1 DEF AdvanceTo
  <1>6. cycle' \in [Features -> Nat]
    BY <1>5, CountedType DEF TypeOK, Entered
  <1> HIDE DEF B, H
  <1> QED
    BY <1>4, <1>5, <1>6 DEF TypeOK

LEMMA LateStatuses == {"reviewing", "verifying", "done"} \subseteq FeatureStatuses
  <1>1. {<<"verifying", "done">>, <<"developing", "reviewing">>} \subseteq FeatureEdges
    BY DEF FeatureEdges
  <1> QED
    BY <1>1, EdgesKnown

LEMMA EndType == ASSUME TypeOK, EndStep PROVE TypeOK'
  <1>1. ASSUME NEW f \in Features, CloseOut(f) PROVE TypeOK'
    BY <1>1, LateStatuses, AutoClosedType DEF CloseOut, TypeOK
  <1>2. ASSUME NEW f \in Features, NEW over, NEW passes \in BOOLEAN,
               MergeFeature(f, over, passes)
        PROVE  TypeOK'
    <2>1. BeforeMerging(f) \in FeatureStatuses
      BY LateStatuses DEF BeforeMerging, AutoReviewed, TypeOK
    <2> QED
      BY <1>2, <2>1, LateStatuses DEF MergeFeature, TypeOK
  <1> QED
    BY <1>1, <1>2 DEF EndStep

(* Type correctness of the flow. *)
THEOREM FlowTypeCorrect == Spec => []TypeOK
  <1> USE FlowAssumption
  <1>1. Init => TypeOK
    BY Entry, EntryKnown DEF Init, TypeOK
  <1>2. TypeOK /\ [Next]_vars => TypeOK'
    <2> SUFFICES ASSUME TypeOK, [Next]_vars PROVE TypeOK'
      OBVIOUS
    <2>1. CASE FeatureStep
      BY <2>1, FeatureSteps, TransitionType, AdvanceType
    <2>2. ASSUME NEW t \in Tasks, CreateTask(t) PROVE TypeOK'
      BY <2>2 DEF CreateTask, TypeOK
    <2>3. ASSUME NEW t \in Tasks, NEW v \in BOOLEAN, FinishTask(t, v) PROVE TypeOK'
      BY <2>3 DEF FinishTask, TypeOK
    <2>4. ASSUME NEW t \in Tasks, NEW to \in {"done", "not-planned"}, TransitionTask(t, to)
          PROVE  TypeOK'
      <3>1. "reviewing" \in FeatureStatuses
        BY StagesKnown DEF Stages
      <3>2. AutoReviewed(FeatureOf[t], [task EXCEPT ![t] = to])
              \in [Features -> FeatureStatuses]
        BY <3>1 DEF AutoReviewed, TypeOK
      <3>3. batch' \in BatchStatuses
        BY <2>4, AutoClosedType DEF TransitionTask, TypeOK
      <3> QED
        BY <2>4, <3>2, <3>3 DEF TransitionTask, TypeOK
    <2>5. CASE BatchStep
      BY <2>5 DEF BatchStep, TransitionBatch, BatchMoves, TypeOK
    <2>6. CASE DocStep
      <3>1. ASSUME NEW d \in Docs, NEW a \in BOOLEAN, SubmitDocument(d, a) PROVE TypeOK'
        BY <3>1, HookType, SetRefType DEF SubmitDocument, Unmoved, TypeOK
      <3>2. ASSUME NEW d \in Docs, ApproveDocument(d) PROVE TypeOK'
        BY <3>2, HookType DEF ApproveDocument, Unmoved, TypeOK
      <3>3. ASSUME NEW d \in Docs, NEW by \in Docs, SupersedeDocument(d, by) PROVE TypeOK'
        BY <3>3, HookType DEF SupersedeDocument, Unmoved, TypeOK
      <3>4. ASSUME NEW d \in Docs, RefreshDocument(d) PROVE TypeOK'
        BY <3>4 DEF RefreshDocument, Unmoved, TypeOK
      <3>5. ASSUME NEW d \in Docs, NEW force \in BOOLEAN, DeleteDocument(d, force)
            PROVE  TypeOK'
        BY <3>5, SetRefType DEF DeleteDocument, Unmoved, TypeOK
      <3> QED
        BY <2>6, <3>1, <3>2, <3>3, <3>4, <3>5 DEF DocStep
    <2>7. CASE EndStep
      BY <2>7, EndType
    <2>8. CASE UNCHANGED vars
      BY <2>8 DEF vars, TypeOK
    <2> QED
      BY <2>1, <2>2, <2>3, <2>4, <2>5, <2>6, <2>7, <2>8 DEF Next, TaskStep
  <1> QED
    BY <1>1, <1>2, PTL DEF Spec
-----------------------------------------------------------------------------
(* How each kind of step moves the features. *)

(* Nothing a step does takes a task, or an override record, away again.    *)
Keeps == /\ \A t \in Tasks : task[t] # "absent" => task'[t] # "absent"
         /\ \A f \in Features : overrides[f] \subseteq overrides'[f]

Excused(f, to, over) == over /\ OverridePolicy(to) = "agent" /\ to \in overrides'[f]

LEMMA TwoPolicies ==
    ASSUME FlowAssumption, NEW to, OverridePolicy(to) # "checkpoint"
    PROVE  OverridePolicy(to) = "agent"
  BY DEF FlowAssumption, OverridePolicy

LEMMA TransitionKeeps ==
    ASSUME TypeOK, NEW f \in Features, NEW to, NEW over, Transition(f, to, over)
    PROVE  Keeps /\ task' = task /\ \A g \in Features \ {f} : status'[g] = status[g]
  <1>1. Keeps /\ task' = task
    BY DEF Keeps, Transition, TypeOK
  <1>2. \A g \in Features \ {f} : status'[g] = status[g]
    BY DEF Transition, TypeOK
  <1> QED
    BY <1>1, <1>2

LEMMA TransitionMoves ==
    ASSUME TypeOK, NEW f \in Features, NEW to, NEW over, Transition(f, to, over),
           status'[f] # status[f]
    PROVE  /\ status'[f] = to /\ <<status[f], to>> \in FeatureMoves
           /\ ~ CapReached(f, status[f], to)
           /\ Gated(f, to) => CheckGate(f, status[f], to) \/ Excused(f, to, over)
  BY DEF Transition, TypeOK, Excused

LEMMA AdvanceMoves ==
    ASSUME TypeOK, FlowAssumption, NEW f \in Features, NEW to, NEW over \in BOOLEAN,
           Advance(f, to, over)
    PROVE  /\ Keeps /\ task' = task
           /\ \A g \in Features \ {f} : status'[g] = status[g]
           /\ \E i, k \in 1..7 :
                /\ i <= k /\ status[f] = Stages[i] /\ status'[f] = Stages[k]
                /\ \A m \in (i+1)..k :
                      CheckGate(f, Stages[m-1], Stages[m]) \/ Excused(f, Stages[m], over)
  <1>1. PICK i \in DOMAIN Stages, j \in DOMAIN Stages :
          Stages[i] = status[f] /\ \E k \in i..j : AdvanceTo(f, over, i, j, k)
    BY DEF Advance
  <1>2. PICK k \in i..j : AdvanceTo(f, over, i, j, k)
    BY <1>1
  <1>3. DOMAIN Stages = 1..7
    BY DEF Stages
  <1>4. i \in 1..7 /\ k \in 1..7 /\ i <= k
    BY <1>3
  <1>5. Keeps /\ task' = task
    BY <1>2 DEF Keeps, AdvanceTo, TypeOK
  <1>6. \A g \in Features \ {f} : status'[g] = status[g]
    BY <1>2 DEF AdvanceTo, TypeOK
  <1>7. status[f] = Stages[i] /\ status'[f] = Stages[k]
    BY <1>1, <1>2 DEF AdvanceTo, TypeOK
  <1>8. ASSUME NEW m \in (i+1)..k, ~ CheckGate(f, Stages[m-1], Stages[m])
        PROVE  Excused(f, Stages[m], over)
    <2>1. over /\ OverridePolicy(Stages[m]) # "checkpoint"
      BY <1>2, <1>8 DEF AdvanceTo, Walks, StopsBefore
    <2>2. m \in Bypassed(f, i, k)
      BY <1>8 DEF Bypassed
    <2>3. Stages[m] \in overrides'[f]
      BY <1>2, <2>2 DEF AdvanceTo, TypeOK
    <2> QED
      BY <2>1, <2>3, TwoPolicies DEF Excused
  <1> QED
    BY <1>4, <1>5, <1>6, <1>7, <1>8

LEMMA TaskMoves ==
    ASSUME TypeOK, FlowAssumption, TaskStep
    PROVE  /\ Keeps
           /\ UNCHANGED <<cycle, blocked>>
           /\ \A f \in Features : status'[f] # status[f] =>
                 /\ status[f] \in {"developing", "needs-rework"}
                 /\ status'[f] = "reviewing"
                 /\ \A t \in Children(f)' : task'[t] # "open"
           /\ batch = "active" /\ batch' = "done" => batch' = AutoClosed(status')
  <1>1. ASSUME NEW t \in Tasks, CreateTask(t)
        PROVE  Keeps /\ UNCHANGED <<cycle, blocked, status, batch>>
    BY <1>1 DEF CreateTask, Keeps, TypeOK
  <1>2. ASSUME NEW t \in Tasks, NEW v \in BOOLEAN, FinishTask(t, v)
        PROVE  Keeps /\ UNCHANGED <<cycle, blocked, status, batch>>
    BY <1>2 DEF FinishTask, Keeps, TypeOK
  <1>3. ASSUME NEW t \in Tasks, NEW to \in {"done", "not-planned"}, TransitionTask(t, to)
        PROVE  /\ Keeps
               /\ UNCHANGED <<cycle, blocked>>
               /\ \A f \in Features : status'[f] # status[f] =>
                     /\ status[f] \in {"developing", "needs-rework"}
                     /\ status'[f] = "reviewing"
                     /\ \A u \in Children(f)' : task'[u] # "open"
               /\ batch' = batch \/ batch' = AutoClosed(status')
    <2>1. Keeps /\ UNCHANGED <<cycle, blocked>>
      BY <1>3 DEF TransitionTask, Keeps, TypeOK
    <2>2. batch' = batch \/ batch' = AutoClosed(status')
      BY <1>3 DEF TransitionTask
    <2>3. task' = [task EXCEPT ![t] = to] /\ status' = AutoReviewed(FeatureOf[t], task')
      BY <1>3 DEF TransitionTask
    <2>4. ASSUME NEW f \in Features, status'[f] # status[f]
          PROVE  /\ status[f] \in {"developing", "needs-rework"}
                 /\ status'[f] = "reviewing"
                 /\ \A u \in Children(f)' : task'[u] # "open"
      BY <2>3, <2>4 DEF AutoReviewed, Children, TypeOK
    <2> QED
      BY <2>1, <2>2, <2>4
  <1> QED
    BY <1>1, <1>2, <1>3 DEF TaskStep

LEMMA MergingFromReview ==
    ASSUME NEW from PROVE <<from, "merging">> \in FeatureMoves <=> from = "reviewing"
  <1>1. <<"reviewing", "merging">> \in FeatureEdges
    BY DEF FeatureEdges
  <1>2. {"reviewing", "merging"} \subseteq FeatureStatuses
    BY <1>1, EdgesKnown
  <1>3. <<"reviewing", "merging">> \in FeatureMoves
    BY <1>1, <1>2 DEF FeatureMoves, CanTransition, AllowedTransitions, FeatureStatuses,
                      IsTerminalState, TerminalStates
  <1>4. <<from, "merging">> \in FeatureEdges => from = "reviewing"
    BY DEF FeatureEdges, Aborts
  <1> QED
    BY <1>3, <1>4, MovesAreEdges

(* Close-out and merge only end what is in development or in review.       *)
LEMMA EndMoves ==
    ASSUME TypeOK, EndStep
    PROVE  /\ Keeps
           /\ UNCHANGED <<cycle, blocked>>
           /\ \A f \in Features : status'[f] # status[f] =>
                 /\ status[f] \in {"developing", "reviewing"}
                 /\ status'[f] \in {"verifying", "done"}
           /\ batch' = batch \/ batch' = AutoClosed(status')
  <1>1. ASSUME NEW f \in Features, CloseOut(f)
        PROVE  /\ UNCHANGED <<task, overrides, cycle, blocked>>
               /\ \A g \in Features : status'[g] # status[g] =>
                     status[g] = "reviewing" /\ status'[g] = "done"
               /\ batch' = AutoClosed(status')
    BY <1>1 DEF CloseOut, TypeOK
  <1>2. ASSUME NEW f \in Features, NEW over, NEW passes, MergeFeature(f, over, passes)
        PROVE  /\ UNCHANGED <<task, overrides, cycle, blocked, batch>>
               /\ \A g \in Features : status'[g] # status[g] =>
                     /\ status[g] \in {"developing", "reviewing"}
                     /\ status'[g] \in {"verifying", "done"}
    <2>1. BeforeMerging(f) # status[f] =>
             BeforeMerging(f) = "reviewing" /\ status[f] = "developing"
      BY DEF BeforeMerging, AutoReviewed, TypeOK
    <2>2. UNCHANGED <<task, overrides, cycle, blocked, batch>>
      BY <1>2 DEF MergeFeature
    <2>3. status' = [status EXCEPT ![f] = IF BeforeMerging(f) = "reviewing"
                                          THEN IF passes THEN "done" ELSE "verifying"
                                          ELSE BeforeMerging(f)]
      BY <1>2, MergingFromReview DEF MergeFeature
    <2> QED
      BY <2>1, <2>2, <2>3 DEF TypeOK
  <1>3. UNCHANGED <<task, overrides>> => Keeps
    BY DEF Keeps
  <1> QED
    BY <1>1, <1>2, <1>3 DEF EndStep

LEMMA HookStaysEarly ==
    ASSUME TypeOK, FlowAssumption, NEW d \in Docs, NEW stageOf, HookFires(d, stageOf),
           \A type \in DOMAIN stageOf :
               stageOf[type] \in IF DocOwner[d] = Batch
                                 THEN {"designing", "specifying", "active"}
                                 ELSE {"designing", "specifying", "dev-planning"}
    PROVE  /\ \A f \in Features : status'[f] # status[f] =>
                 /\ <<status[f], status'[f]>> \in FeatureMoves
                 /\ status'[f] \in {"designing", "specifying", "dev-planning"}
           /\ batch' = "done" => batch = "done"
  <1>1. ASSUME NEW f \in Features, status'[f] # status[f]
        PROVE  /\ <<status[f], status'[f]>> \in FeatureMoves
               /\ status'[f] \in {"designing", "specifying", "dev-planning"}
    <2>1. DocOwner[d] \in Features /\ DocType[d] \in DOMAIN stageOf
          /\ status' = HookMoves(DocOwner[d], stageOf[DocType[d]])
      BY <1>1 DEF HookFires
    <2>2. DocOwner[d] # Batch
      BY <2>1 DEF FlowAssumption
    <2>3. stageOf[DocType[d]] \in {"designing", "specifying", "dev-planning"}
      BY <2>1, <2>2
    <2> QED
      BY <1>1, <2>1, <2>3 DEF HookMoves, TypeOK
  <1>2. ASSUME batch' = "done" PROVE batch = "done"
    <2>1. CASE batch' = batch
      BY <1>2, <2>1
    <2>2. CASE DocOwner[d] = Batch /\ DocType[d] \in DOMAIN stageOf
               /\ batch' = HookMovesBatch(stageOf[DocType[d]])
      <3>1. stageOf[DocType[d]] \in {"designing", "specifying", "active"}
        BY <2>2
      <3> QED
        BY <1>2, <2>2, <3>1 DEF HookMovesBatch
    <2> QED
      BY <2>1, <2>2 DEF HookFires
  <1> QED
    BY <1>1, <1>2

LEMMA DocMoves ==
    ASSUME TypeOK, FlowAssumption, DocStep
    PROVE  /\ UNCHANGED <<cycle, blocked, overrides, task>>
           /\ \A f \in Features : status'[f] # status[f] =>
                 /\ <<status[f], status'[f]>> \in FeatureMoves
                 /\ status'[f] \in {"designing", "specifying", "dev-planning"}
           /\ batch' = "done" => batch = "done"
  <1>1. ASSUME NEW d \in Docs, NEW stageOf, HookFires(d, stageOf),
               \/ stageOf = OnSubmit
               \/ stageOf = IF DocOwner[d] = Batch THEN OnApproveBatch ELSE OnApprove
               \/ stageOf = IF DocOwner[d] = Batch THEN <<>> ELSE OnSupersede
        PROVE  /\ \A f \in Features : status'[f] # status[f] =>
                     /\ <<status[f], status'[f]>> \in FeatureMoves
                     /\ status'[f] \in {"designing", "specifying", "dev-planning"}
               /\ batch' = "done" => batch = "done"
    <2>1. \A type \in DOMAIN stageOf :
               stageOf[type] \in IF DocOwner[d] = Batch
                                 THEN {"designing", "specifying", "active"}
                                 ELSE {"designing", "specifying", "dev-planning"}
      BY <1>1 DEF OnSubmit, OnApprove, OnApproveBatch, OnSupersede, RefTypes
    <2> QED
      BY <1>1, <2>1, HookStaysEarly
  <1>2. ASSUME NEW d \in Docs, NEW a \in BOOLEAN, SubmitDocument(d, a)
        PROVE  HookFires(d, OnSubmit) /\ Unmoved
    BY <1>2 DEF SubmitDocument
  <1>3. ASSUME NEW d \in Docs, ApproveDocument(d)
        PROVE  HookFires(d, IF DocOwner[d] = Batch THEN OnApproveBatch ELSE OnApprove)
               /\ Unmoved
    BY <1>3 DEF ApproveDocument
  <1>4. ASSUME NEW d \in Docs, NEW by \in Docs, SupersedeDocument(d, by)
        PROVE  HookFires(d, IF DocOwner[d] = Batch THEN <<>> ELSE OnSupersede) /\ Unmoved
    BY <1>4 DEF SupersedeDocument
  <1>5. ASSUME NEW d \in Docs, NEW force \in BOOLEAN,
               RefreshDocument(d) \/ DeleteDocument(d, force)
        PROVE  UNCHANGED <<status, batch>> /\ Unmoved
    BY <1>5 DEF RefreshDocument, DeleteDocument
  <1>6. Unmoved => UNCHANGED <<cycle, blocked, overrides, task>>
    BY DEF Unmoved
  <1> HIDE DEF Unmoved
  <1> QED
    BY <1>1, <1>2, <1>3, <1>4, <1>5, <1>6 DEF DocStep
-----------------------------------------------------------------------------
(* No feature gets past planning without tasks or a record. *)

PlannedInv ==
    \A f \in Features :
        status[f] \in Early \/ Children(f) # {} \/ "developing" \in overrides[f]

LEMMA KeepsPlanned ==
    ASSUME Keeps, NEW f \in Features, Children(f) # {} \/ "developing" \in overrides[f]
    PROVE  Children(f)' # {} \/ "developing" \in overrides'[f]
  BY DEF Keeps, Children

LEMMA DevelopingGate ==
    ASSUME NEW f, CheckGate(f, "dev-planning", "developing") PROVE Children(f) # {}
  BY DEF CheckGate, RegistryGate, HardcodedGate

LEMMA PlannedByTransition ==
    ASSUME TypeOK, NEW f \in Features, NEW to \in FeatureStatuses, NEW over \in BOOLEAN,
           Transition(f, to, over), status[f] \in Early
    PROVE  status'[f] \in Early \/ Children(f)' # {} \/ "developing" \in overrides'[f]
  <1> SUFFICES ASSUME status'[f] \notin Early
               PROVE  Children(f)' # {} \/ "developing" \in overrides'[f]
    OBVIOUS
  <1>1. /\ status'[f] = to /\ <<status[f], to>> \in FeatureMoves
        /\ Gated(f, to) => CheckGate(f, status[f], to) \/ Excused(f, to, over)
        /\ task' = task
    <2>1. status'[f] # status[f]
      OBVIOUS
    <2> QED
      BY <2>1, TransitionMoves, TransitionKeeps
  <1>2. status[f] = "dev-planning" /\ to = "developing"
    BY <1>1, OneWayOut
  <1>3. Gated(f, to)
    <2>1. Stages[4] = "dev-planning" /\ Stages[5] = "developing" /\ {4, 5} \subseteq DOMAIN Stages
      BY DEF Stages
    <2> QED
      BY <1>2, <2>1 DEF Gated, Phase2
  <1>4. CASE CheckGate(f, status[f], to)
    <2>1. Children(f) # {}
      BY <1>2, <1>4, DevelopingGate
    <2> QED
      BY <1>1, <2>1 DEF Children
  <1>5. CASE Excused(f, to, over)
    BY <1>2, <1>5 DEF Excused
  <1> QED
    BY <1>1, <1>3, <1>4, <1>5

LEMMA PlannedByAdvance ==
    ASSUME TypeOK, FlowAssumption, NEW f \in Features, NEW to, NEW over \in BOOLEAN,
           Advance(f, to, over), status[f] \in Early
    PROVE  status'[f] \in Early \/ Children(f)' # {} \/ "developing" \in overrides'[f]
  <1>1. PICK i \in 1..7, k \in 1..7 :
          /\ i <= k /\ status[f] = Stages[i] /\ status'[f] = Stages[k]
          /\ \A m \in (i+1)..k :
                CheckGate(f, Stages[m-1], Stages[m]) \/ Excused(f, Stages[m], over)
    BY AdvanceMoves
  <1>2. task' = task
    BY AdvanceMoves
  <1>3. \A n \in 1..7 : Stages[n] \in Early <=> n <= 4
    BY DEF Stages, Early
  <1>4. Stages[4] = "dev-planning" /\ Stages[5] = "developing"
    BY DEF Stages
  <1>5. CASE k <= 4
    BY <1>1, <1>3, <1>5
  <1>6. CASE k > 4
    <2>1. i <= 4
      BY <1>1, <1>3
    <2>2. CheckGate(f, Stages[5-1], Stages[5]) \/ Excused(f, Stages[5], over)
      BY <1>1, <1>6, <2>1
    <2>3. CheckGate(f, "dev-planning", "developing") \/ Excused(f, "developing", over)
      BY <1>4, <2>2
    <2>4. CASE CheckGate(f, "dev-planning", "developing")
      BY <1>2, <2>4, DevelopingGate DEF Children
    <2>5. CASE Excused(f, "developing", over)
      BY <2>5 DEF Excused
    <2> QED
      BY <2>3, <2>4, <2>5
  <1> QED
    BY <1>5, <1>6

(* A feature in development, review or beyond has tasks, or an override of *)
(* the developing gate on record, by whatever mixture of transitions,      *)
(* advances and documents it got there.                                    *)
THEOREM PlannedFirst == Spec => []PlannedBeforeDeveloping
  <1> USE FlowAssumption
  <1>1. Init => PlannedInv
    BY Entry DEF Init, PlannedInv, Early
  <1>2. TypeOK /\ PlannedInv /\ [Next]_vars => PlannedInv'
    <2> SUFFICES ASSUME TypeOK, PlannedInv, [Next]_vars, NEW f \in Features
                 PROVE  status'[f] \in Early \/ Children(f)' # {} \/ "developing" \in overrides'[f]
      BY DEF PlannedInv
    <2>0. Keeps /\ status'[f] = status[f]
            => status'[f] \in Early \/ Children(f)' # {} \/ "developing" \in overrides'[f]
      BY KeepsPlanned DEF PlannedInv
    <2>1. ASSUME NEW g \in Features, NEW to \in FeatureStatuses,
                 NEW over \in BOOLEAN, Transition(g, to, over)
          PROVE  status'[f] \in Early \/ Children(f)' # {} \/ "developing" \in overrides'[f]
      <3>2. Keeps /\ \A h \in Features \ {g} : status'[h] = status[h]
        BY <2>1, TransitionKeeps
      <3>3. CASE f # g
        BY <2>0, <3>2, <3>3
      <3>4. CASE f = g /\ status[f] \in Early
        BY <2>1, <3>4, PlannedByTransition
      <3>5. CASE status[f] \notin Early
        BY <3>2, <3>5, KeepsPlanned DEF PlannedInv
      <3> QED
        BY <3>3, <3>4, <3>5
    <2>2. ASSUME NEW g \in Features, NEW to, NEW over \in BOOLEAN, Advance(g, to, over)
          PROVE  status'[f] \in Early \/ Children(f)' # {} \/ "developing" \in overrides'[f]
      <3>2. Keeps /\ \A h \in Features \ {g} : status'[h] = status[h]
        BY <2>2, AdvanceMoves
      <3>3. CASE f # g
        BY <2>0, <3>2, <3>3
      <3>4. CASE f = g /\ status[f] \in Early
        BY <2>2, <3>4, PlannedByAdvance
      <3>5. CASE status[f] \notin Early
        BY <3>2, <3>5, KeepsPlanned DEF PlannedInv
      <3> QED
        BY <3>3, <3>4, <3>5
    <2>3. CASE TaskStep
      <3>1. Keeps /\ (status'[f] # status[f] => status[f] \notin Early)
        BY <2>3, TaskMoves DEF Early
      <3> QED
        BY <2>0, <3>1, KeepsPlanned DEF PlannedInv
    <2>4. CASE BatchStep
      <3>1. UNCHANGED <<status, task, overrides>>
        BY <2>4 DEF BatchStep, TransitionBatch
      <3> QED
        BY <2>0, <3>1 DEF Keeps
    <2>5. CASE DocStep
      <3>1. UNCHANGED <<task, overrides>>
            /\ (status'[f] # status[f] => status'[f] \in Early)
        BY <2>5, DocMoves DEF Early
      <3> QED
        BY <2>0, <3>1 DEF Keeps
    <2>6. CASE UNCHANGED vars
      BY <2>0, <2>6 DEF vars, Keeps
    <2>7. CASE EndStep
      <3>1. Keeps /\ (status'[f] # status[f] => status[f] \notin Early)
        BY <2>7, EndMoves DEF Early
      <3> QED
        BY <2>0, <3>1, KeepsPlanned DEF PlannedInv
    <2> QED
      BY FeatureSteps, <2>1, <2>2, <2>3, <2>4, <2>5, <2>6, <2>7 DEF Next
  <1>3. PlannedInv => PlannedBeforeDeveloping
    BY DEF PlannedInv, PlannedBeforeDeveloping, Early
  <1> QED
    BY <1>1, <1>2, <1>3, FlowTypeCorrect, PTL DEF Spec
-----------------------------------------------------------------------------
(* Review, its cap, and what has ended. *)

LEMMA ReviewEntered ==
    ASSUME NEW from, <<from, "reviewing">> \in FeatureMoves
    PROVE  from \in {"developing", "needs-rework"}
<1>1. <<from, "reviewing">> \in FeatureEdges
  BY MovesAreEdges
<1> QED
  BY <1>1 DEF FeatureEdges, Aborts

LEMMA ReviewGate ==
    ASSUME NEW f, NEW from \in {"developing", "needs-rework"},
           CheckGate(f, from, "reviewing")
    PROVE  AllTasksTerminal(f)
  BY DEF CheckGate, RegistryStages, RegistryGate, HardcodedGate

(* Whatever the tasks, documents and overrides, and whichever of the ways  *)
(* into review is taken, the tasks are ended or the override is on record. *)
THEOREM ReviewAfterWork == Spec => ReviewSeesFinishedWork
  <1> USE FlowAssumption
  <1> DEFINE Ended(f) == \/ \A t \in Children(f)' : task'[t] # "open"
                         \/ /\ "reviewing" \in overrides'[f]
                            /\ OverridePolicy("reviewing") = "agent"
  <1>1. ASSUME TypeOK, [Next]_vars, NEW f \in Features,
               status[f] # "reviewing", status'[f] = "reviewing"
        PROVE  Ended(f)
    <2>0. status'[f] # status[f]
      BY <1>1
    <2>1. ASSUME NEW g \in Features, NEW to \in FeatureStatuses,
                 NEW over \in BOOLEAN, Transition(g, to, over)
          PROVE  Ended(f)
      <3>1. f = g /\ task' = task
        BY <1>1, <2>0, <2>1, TransitionKeeps
      <3>2. /\ to = "reviewing" /\ <<status[f], "reviewing">> \in FeatureMoves
            /\ Gated(f, to) => CheckGate(f, status[f], to) \/ Excused(f, to, over)
        BY <1>1, <2>0, <2>1, <3>1, TransitionMoves
      <3>3. status[f] \in {"developing", "needs-rework"}
        BY <3>2, ReviewEntered
      <3>4. Gated(f, to)
        <4>1. Stages[5] = "developing" /\ Stages[6] = "reviewing" /\ {5, 6} \subseteq DOMAIN Stages
          BY DEF Stages
        <4> QED
          BY <3>2, <3>3, <4>1 DEF Gated, Phase2
      <3>5. CASE CheckGate(f, status[f], to)
        <4>1. AllTasksTerminal(f)
          BY <3>2, <3>3, <3>5, ReviewGate
        <4> QED
          BY <3>1, <4>1 DEF AllTasksTerminal, Children
      <3>6. CASE Excused(f, to, over)
        BY <3>2, <3>6 DEF Excused
      <3> QED
        BY <3>2, <3>4, <3>5, <3>6
    <2>2. ASSUME NEW g \in Features, NEW to, NEW over \in BOOLEAN, Advance(g, to, over)
          PROVE  Ended(f)
      <3>1. f = g /\ task' = task
        BY <1>1, <2>0, <2>2, AdvanceMoves
      <3>2. PICK i \in 1..7, k \in 1..7 :
              /\ i <= k /\ status[f] = Stages[i] /\ status'[f] = Stages[k]
              /\ \A m \in (i+1)..k :
                    CheckGate(f, Stages[m-1], Stages[m]) \/ Excused(f, Stages[m], over)
        BY <1>1, <2>2, <3>1, AdvanceMoves
      <3>3. /\ \A n \in 1..7 : Stages[n] = "reviewing" <=> n = 6
            /\ Stages[5] = "developing"
        BY DEF Stages
      <3>4. k = 6 /\ i < 6
        BY <1>1, <3>2, <3>3
      <3>5. CheckGate(f, Stages[6-1], Stages[6]) \/ Excused(f, Stages[6], over)
        BY <3>2, <3>4
      <3>6. CheckGate(f, "developing", "reviewing") \/ Excused(f, "reviewing", over)
        BY <3>3, <3>5
      <3>7. CASE CheckGate(f, "developing", "reviewing")
        <4>1. AllTasksTerminal(f)
          BY <3>7, ReviewGate
        <4> QED
          BY <3>1, <4>1 DEF AllTasksTerminal, Children
      <3>8. CASE Excused(f, "reviewing", over)
        BY <3>8 DEF Excused
      <3> QED
        BY <3>6, <3>7, <3>8
    <2>3. CASE TaskStep
      BY <1>1, <2>0, <2>3, TaskMoves
    <2>4. CASE BatchStep
      BY <2>0, <2>4 DEF BatchStep, TransitionBatch
    <2>5. CASE DocStep
      BY <1>1, <2>0, <2>5, DocMoves
    <2>6. CASE UNCHANGED vars
      BY <2>0, <2>6 DEF vars
    <2>7. CASE EndStep
      BY <1>1, <2>0, <2>7, EndMoves
    <2> QED
      BY <1>1, FeatureSteps, <2>1, <2>2, <2>3, <2>4, <2>5, <2>6, <2>7 DEF Next
  <1>2. TypeOK /\ [Next]_vars =>
          [ \A f \in Features :
              (status[f] # "reviewing" /\ status'[f] = "reviewing") =>
                  \/ \A t \in Children(f)' : task'[t] # "open"
                  \/ /\ "reviewing" \in overrides'[f]
                     /\ OverridePolicy("reviewing") = "agent" ]_vars
    BY <1>1
  <1> QED
    BY <1>2, FlowTypeCorrect, PTL DEF Spec, ReviewSeesFinishedWork

(* What is blocked was blocked by the cap, and reviews are only counted up.*)
BlockedInv == \A f \in blocked : cycle[f] >= MaxReviewCycles
LEMMA BlockedByCap ==
    ASSUME TypeOK, FlowAssumption, BlockedInv, [Next]_vars PROVE BlockedInv'
  <1> USE FlowAssumption
  <1>0. ASSUME NEW b \in BOOLEAN, NEW f \in Features, NEW g \in blocked
        PROVE  Counted(f, b)[g] >= MaxReviewCycles
    <2>1. g \in Features /\ cycle[g] \in Nat /\ cycle[g] >= MaxReviewCycles
          /\ MaxReviewCycles \in Nat
      BY DEF TypeOK, BlockedInv, FlowAssumption
    <2> QED
      BY <2>1 DEF Counted, TypeOK
  <1>1. ASSUME NEW f \in Features, NEW to, NEW over \in BOOLEAN, Transition(f, to, over)
        PROVE  BlockedInv'
    <2>1. CASE blocked' = blocked
      <3>1. cycle' = cycle \/ \E b \in BOOLEAN : cycle' = Counted(f, b)
        BY <1>1 DEF Transition
      <3> QED
        BY <1>0, <2>1, <3>1 DEF BlockedInv
    <2>2. CASE blocked' = blocked \cup {f} /\ CapReached(f, status[f], to) /\ cycle' = cycle
      BY <2>2 DEF BlockedInv, CapReached
    <2> QED
      BY <1>1, <2>1, <2>2 DEF Transition
  <1>2. ASSUME NEW f \in Features, NEW to, NEW over \in BOOLEAN, Advance(f, to, over)
        PROVE  BlockedInv'
    <2>1. blocked' = blocked /\ \E b \in BOOLEAN : cycle' = Counted(f, b)
      BY <1>2 DEF Advance, AdvanceTo, Entered
    <2> QED
      BY <1>0, <2>1 DEF BlockedInv
  <1>3. CASE TaskStep
    BY <1>3, TaskMoves DEF BlockedInv
  <1>4. CASE BatchStep
    BY <1>4 DEF BatchStep, TransitionBatch, BlockedInv
  <1>5. CASE DocStep
    BY <1>5, DocMoves DEF BlockedInv
  <1>6. CASE UNCHANGED vars
    BY <1>6 DEF vars, BlockedInv
  <1>7. CASE EndStep
    BY <1>7, EndMoves DEF BlockedInv
  <1> QED
    BY FeatureSteps, <1>1, <1>2, <1>3, <1>4, <1>5, <1>6, <1>7 DEF Next

(* No call, with override or without, sends a feature from review to       *)
(* rework once its counted reviews have reached the cap.                   *)
THEOREM CapBeyondOverride == Spec => CapHolds
  <1> USE FlowAssumption
  <1>1. ASSUME TypeOK, BlockedInv, [Next]_vars, NEW f \in Features,
               status[f] = "reviewing", status'[f] = "needs-rework"
        PROVE  cycle[f] < MaxReviewCycles /\ f \notin blocked
    <2>0. status'[f] # status[f]
      BY <1>1
    <2>1. ASSUME NEW g \in Features, NEW to \in FeatureStatuses,
                 NEW over \in BOOLEAN, Transition(g, to, over)
          PROVE  ~ CapReached(f, "reviewing", "needs-rework")
      <3>1. f = g
        BY <1>1, <2>0, <2>1, TransitionKeeps
      <3>2. to = "needs-rework" /\ ~ CapReached(f, status[f], to)
        BY <1>1, <2>0, <2>1, <3>1, TransitionMoves
      <3> QED
        BY <1>1, <3>2
    <2>2. ASSUME NEW g \in Features, NEW to, NEW over \in BOOLEAN, Advance(g, to, over)
          PROVE  FALSE
      <3>1. f = g
        BY <1>1, <2>0, <2>2, AdvanceMoves
      <3>2. \E k \in 1..7 : status'[f] = Stages[k]
        BY <1>1, <2>2, <3>1, AdvanceMoves
      <3> QED
        BY <1>1, <3>2 DEF Stages
    <2>3. ASSUME TaskStep PROVE FALSE
      BY <1>1, <2>0, <2>3, TaskMoves
    <2>4. ASSUME BatchStep PROVE FALSE
      BY <2>0, <2>4 DEF BatchStep, TransitionBatch
    <2>5. ASSUME DocStep PROVE FALSE
      BY <1>1, <2>0, <2>5, DocMoves
    <2>6. ASSUME UNCHANGED vars PROVE FALSE
      BY <2>0, <2>6 DEF vars
    <2>7. ASSUME EndStep PROVE FALSE
      BY <1>1, <2>0, <2>7, EndMoves
    <2>8. ~ CapReached(f, "reviewing", "needs-rework")
      BY <1>1, FeatureSteps, <2>1, <2>2, <2>3, <2>4, <2>5, <2>6, <2>7 DEF Next
    <2>9. cycle[f] \in Nat /\ MaxReviewCycles \in Nat
      BY <1>1 DEF TypeOK, FlowAssumption
    <2> QED
      BY <1>1, <2>8, <2>9 DEF CapReached, BlockedInv
  <1>2. Init => BlockedInv
    BY DEF Init, BlockedInv
  <1>3. TypeOK /\ BlockedInv /\ [Next]_vars => BlockedInv'
    BY BlockedByCap
  <1>4. TypeOK /\ BlockedInv /\ [Next]_vars =>
          [ \A f \in Features :
              (status[f] = "reviewing" /\ status'[f] = "needs-rework") =>
                  cycle[f] < MaxReviewCycles /\ f \notin blocked ]_vars
    BY <1>1
  <1> QED
    BY <1>2, <1>3, <1>4, FlowTypeCorrect, PTL DEF Spec, CapHolds

LEMMA NothingAfterEnd ==
    ASSUME NEW from, NEW to, <<from, to>> \in FeatureMoves
    PROVE  /\ from \notin TerminalStates("feature")
           /\ from = "done" => to \in Aborts
  <1>1. <<from, to>> \in FeatureEdges
    BY MovesAreEdges
  <1>2. from \notin TerminalStates("feature")
    BY DEF FeatureMoves, CanTransition, IsTerminalState
  <1> QED
    BY <1>1, <1>2 DEF FeatureEdges

(* What has ended stays ended, whoever asks. *)
THEOREM EndIsFinal == Spec => EndedStaysEnded
  <1> USE FlowAssumption
  <1> DEFINE Stays(f) == /\ status[f] \in TerminalStates("feature") => status'[f] = status[f]
                         /\ status[f] = "done" => status'[f] \in EffectivelyTerminal
  <1>0. TerminalStates("feature") = Aborts /\ EffectivelyTerminal = {"done"} \cup Aborts
    BY DEF TerminalStates, EffectivelyTerminal, Aborts
  <1>1. ASSUME TypeOK, [Next]_vars, NEW f \in Features PROVE Stays(f)
    <2>0. \/ status'[f] = status[f] \/ <<status[f], status'[f]>> \in FeatureMoves => Stays(f)
      BY <1>0, NothingAfterEnd
    <2>1. ASSUME NEW g \in Features, NEW to \in FeatureStatuses,
                 NEW over \in BOOLEAN, Transition(g, to, over)
          PROVE  Stays(f)
      <3>1. CASE f # g
        BY <1>0, <1>1, <2>1, <3>1, TransitionKeeps
      <3>2. CASE f = g /\ status'[f] # status[f]
        BY <1>1, <2>0, <2>1, <3>2, TransitionMoves
      <3> QED
        BY <1>0, <3>1, <3>2
    <2>2. ASSUME NEW g \in Features, NEW to, NEW over \in BOOLEAN, Advance(g, to, over)
          PROVE  Stays(f)
      <3>1. CASE f # g
        BY <1>0, <1>1, <2>2, <3>1, AdvanceMoves
      <3>2. CASE f = g
        <4>1. PICK i \in 1..7, k \in 1..7 :
                i <= k /\ status[f] = Stages[i] /\ status'[f] = Stages[k]
          BY <1>1, <2>2, <3>2, AdvanceMoves
        <4>2. status[f] \notin Aborts
          BY <4>1 DEF Stages, Aborts
        <4>3. status[f] = "done" => status'[f] = "done"
          BY <4>1 DEF Stages
        <4> QED
          BY <1>0, <4>2, <4>3
      <3> QED
        BY <3>1, <3>2
    <2>3. CASE TaskStep
      BY <1>0, <1>1, <2>3, TaskMoves DEF Aborts
    <2>4. CASE BatchStep
      BY <1>0, <2>4 DEF BatchStep, TransitionBatch
    <2>5. CASE DocStep
      BY <1>0, <1>1, <2>0, <2>5, DocMoves
    <2>6. CASE UNCHANGED vars
      BY <1>0, <2>6 DEF vars
    <2>7. CASE EndStep
      BY <1>0, <1>1, <2>7, EndMoves DEF Aborts
    <2> QED
      BY <1>1, FeatureSteps, <2>1, <2>2, <2>3, <2>4, <2>5, <2>6, <2>7 DEF Next
  <1>2. TypeOK /\ [Next]_vars =>
          [ \A f \in Features :
              /\ status[f] \in TerminalStates("feature") => status'[f] = status[f]
              /\ status[f] = "done" => status'[f] \in EffectivelyTerminal ]_vars
    BY <1>1
  <1> QED
    BY <1>2, FlowTypeCorrect, PTL DEF Spec, EndedStaysEnded
LEMMA NoMoveActiveToDone == <<"active", "done">> \notin BatchMoves
  BY DEF BatchMoves, CanTransition, AllowedTransitions, BatchEdges, Aborts

LEMMA ClosedWhenEnded ==
    ASSUME NEW s, batch = "active", AutoClosed(s) = "done"
    PROVE  /\ \A f \in Features : s[f] \in EffectivelyTerminal
           /\ \E f \in Features : s[f] = "done"
  BY DEF AutoClosed

(* The batch closes by itself only after its features.                     *)
THEOREM BatchLast == Spec => BatchClosesAfterFeatures
  <1> USE FlowAssumption
  <1> DEFINE Over == /\ \A f \in Features : status'[f] \in EffectivelyTerminal
                     /\ \E f \in Features : status'[f] = "done"
  <1>1. ASSUME TypeOK, [Next]_vars, batch = "active", batch' = "done" PROVE Over
    <2>0. AutoClosed(status') = "done" => Over
      BY <1>1, ClosedWhenEnded
    <2>1. ASSUME NEW f \in Features, NEW to \in FeatureStatuses,
                 NEW over \in BOOLEAN, Transition(f, to, over)
          PROVE  batch' = AutoClosed(status')
      BY <1>1, <2>1 DEF Transition
    <2>2. ASSUME NEW f \in Features, NEW to, NEW over \in BOOLEAN, Advance(f, to, over)
          PROVE  batch' = batch
      BY <2>2 DEF Advance, AdvanceTo
    <2>3. CASE TaskStep
      BY <1>1, <2>0, <2>3, TaskMoves
    <2>4. CASE BatchStep
      BY <1>1, <2>4, NoMoveActiveToDone DEF BatchStep, TransitionBatch
    <2>5. CASE DocStep
      BY <1>1, <2>5, DocMoves
    <2>6. CASE UNCHANGED vars
      BY <1>1, <2>6 DEF vars
    <2>7. CASE EndStep
      BY <1>1, <2>0, <2>7, EndMoves
    <2> QED
      BY <1>1, FeatureSteps, <2>0, <2>1, <2>2, <2>3, <2>4, <2>5, <2>6, <2>7 DEF Next
  <1>2. TypeOK /\ [Next]_vars =>
          [ (batch = "active" /\ batch' = "done") =>
              /\ \A f \in Features : status'[f] \in EffectivelyTerminal
              /\ \E f \in Features : status'[f] = "done" ]_vars
    BY <1>1
  <1> QED
    BY <1>2, FlowTypeCorrect, PTL DEF Spec, BatchClosesAfterFeatures
=============================================================================
