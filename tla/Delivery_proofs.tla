-------------------------- MODULE Delivery_proofs --------------------------
(***************************************************************************)
(* Theorems about the delivery of a feature or bug, for any number of      *)
(* callers, records, commits and crashes.                                  *)
(***************************************************************************)
EXTENDS Delivery, TLAPS

-----------------------------------------------------------------------------
(* Calls. *)

(* A call goes on with what it read at its start. *)
LEMMA GoesOn ==
    ASSUME call \in [Callers -> Calls], NEW c \in Callers, NEW at, Go(c, at),
           \/ call[c].at \in MergeSteps /\ at \in MergeSteps
           \/ /\ call[c].at \in {"clear", "unbranch", "forget"}
              /\ at \in {"clear", "unbranch", "forget"}
           \/ call[c].at \in {"add", "save"} /\ at \in {"add", "save"}
    PROVE  /\ call' \in [Callers -> Calls]
           /\ call'[c].at = at
           /\ at \notin {"add", "save"} => call'[c].rec = call[c].rec
           /\ \A d \in Callers \ {c} : call'[d] = call[d]
  <1>1. call' = [call EXCEPT ![c] = [call[c] EXCEPT !.at = at]]
    BY DEF Go
  <1>2. CASE call[c].at \in MergeSteps /\ at \in MergeSteps
    <2>1. call[c] \in [at : MergeSteps, rec : Records, project : GraphProjects, saw : Statuses,
                       strategy : Strategies, cli : BOOLEAN]
      BY <1>2 DEF Calls, MergeSteps
    <2> QED
      BY <1>1, <1>2, <2>1 DEF Calls
  <1>3. CASE /\ call[c].at \in {"clear", "unbranch", "forget"}
             /\ at \in {"clear", "unbranch", "forget"}
    <2>1. call[c] \in [at : {"clear", "unbranch", "forget"}, rec : Records]
      BY <1>3 DEF Calls, MergeSteps
    <2> QED
      BY <1>1, <1>3, <2>1 DEF Calls
  <1>4. CASE call[c].at \in {"add", "save"} /\ at \in {"add", "save"}
    <2>1. call[c] \in [at : {"idle", "add", "save", "rework"}]
      BY <1>4 DEF Calls, MergeSteps
    <2> QED
      BY <1>1, <1>4, <2>1 DEF Calls
  <1> QED
    BY <1>2, <1>3, <1>4

(* A call ends, or a caller takes up another. *)
LEMMA TakesUp ==
    ASSUME call \in [Callers -> Calls], NEW c \in Callers, NEW x \in Calls,
           call' = [call EXCEPT ![c] = x]
    PROVE  /\ call' \in [Callers -> Calls]
           /\ call'[c] = x
           /\ \A d \in Callers \ {c} : call'[d] = call[d]
  OBVIOUS

LEMMA Ends ==
    ASSUME call \in [Callers -> Calls], NEW c \in Callers, End(c)
    PROVE  /\ call' \in [Callers -> Calls]
           /\ call'[c].at = "idle"
           /\ \A d \in Callers \ {c} : call'[d] = call[d]
  BY DEF End, Idle, Calls

(* What a call in the middle of a merge or a cleanup holds. *)
LEMMA CallHolds ==
    ASSUME call \in [Callers -> Calls], NEW c \in Callers
    PROVE  /\ call[c].at \in {"clear", "unbranch", "forget", "update", "rewrite"} \cup MergeSteps =>
                 call[c].rec \in Records
           /\ call[c].at \in {"update", "rewrite"} => call[c].next \in GraphProjects
           /\ call[c].at \in MergeSteps =>
                 /\ call[c].project \in GraphProjects /\ call[c].saw \in Statuses
                 /\ call[c].strategy \in Strategies /\ call[c].cli \in BOOLEAN
  BY DEF Calls, MergeSteps

(* The record store. *)
LEMMA WritesRecord ==
    ASSUME recs \in [Records -> RecordTypes], NEW r \in Records,
           NEW st \in {"active", "merged"}, NEW due \in Nat, NEW project \in GraphProjects,
           Written(r, st, due, project)
    PROVE  /\ recs' \in [Records -> RecordTypes]
           /\ recs'[r].st = st /\ recs'[r].project = project
           /\ \A s \in Records \ {r} : recs'[s] = recs[s]
  <1>1. recs' = [recs EXCEPT ![r] = [st |-> st, due |-> due, project |-> project]]
    BY DEF Written
  <1>2. [st |-> st, due |-> due, project |-> project] \in RecordTypes
    BY DEF RecordTypes, RecordStatuses
  <1> QED
    BY <1>1, <1>2

LEMMA DeletesRecords ==
    ASSUME recs \in [Records -> RecordTypes], NEW rs \in SUBSET Records, Deleted(rs)
    PROVE  /\ recs' \in [Records -> RecordTypes]
           /\ \A r \in rs : /\ recs'[r].st = "none"
                            /\ recs[r].project # "unused" => recs'[r].project # "unused"
           /\ \A s \in Records \ rs : recs'[s] = recs[s]
  <1>1. Gone \in RecordTypes /\ Gone.st = "none" /\ Gone.project = "gone"
    BY DEF Gone, NoRecord, RecordTypes
  <1>2. recs' = [r \in Records |-> IF r \in rs /\ recs[r].st # "none" THEN Gone ELSE recs[r]]
    BY DEF Deleted
  <1> QED
    BY <1>1, <1>2

(* A record on file is one that was written. *)
LEMMA KnownHasProject ==
    ASSUME recs \in [Records -> RecordTypes], NEW r \in KnownRecords
    PROVE  r \in Records /\ recs[r].project \in GraphProjects /\ recs[r].project # "unused"
  BY DeliveryAssumption DEF KnownRecords, RecordTypes, NoRecord, Gone, RecordStatuses

LEMMA NewIsProject == NewProject \in GraphProjects /\ NewProject # "unused"
  BY DeliveryAssumption DEF NewProject

LEMMA TicksRecords ==
    ASSUME recs \in [Records -> RecordTypes], Tick
    PROVE  /\ recs' \in [Records -> RecordTypes]
           /\ \A r \in Records : recs'[r].st = recs[r].st /\ recs'[r].project = recs[r].project
  <1>1. \A r \in Records : recs[r].due > 0 =>
           /\ [recs[r] EXCEPT !.due = @ - 1] \in RecordTypes
           /\ [recs[r] EXCEPT !.due = @ - 1].st = recs[r].st
           /\ [recs[r] EXCEPT !.due = @ - 1].project = recs[r].project
    BY DEF RecordTypes, NoRecord, Gone, RecordStatuses
  <1>2. recs' = [r \in Records |-> IF recs[r].due > 0 THEN [recs[r] EXCEPT !.due = @ - 1]
                                   ELSE recs[r]]
    BY DEF Tick
  <1> QED
    BY <1>1, <1>2

-----------------------------------------------------------------------------
(* Types. *)

(* Only the merge of a feature goes on to move the entity, and only a bug   *)
(* is sent back.                                                           *)
CallsFitKind ==
    \A c \in Callers :
        /\ call[c].at \in {"advance", "merging", "verifying", "build"} => kind = "feature"
        /\ call[c].at = "rework" => kind = "bug"

LEMMA KnownStatuses ==
    /\ "developing" \in KnownStates("feature") /\ "planned" \in KnownStates("bug")
    /\ \A k, s, t : CanTransition(k, s, t) => t \in KnownStates(k)
  <1>1. <<"needs-rework", "developing">> \in AllowedTransitions("feature")
    BY DEF AllowedTransitions, FeatureEdges
  <1>2. <<"triaged", "planned">> \in AllowedTransitions("bug")
    BY DEF AllowedTransitions, BugEdges
  <1>3. \A k, s, t : CanTransition(k, s, t) => t \in KnownStates(k)
    BY DEF CanTransition
  <1> QED
    BY <1>1, <1>2, <1>3 DEF KnownStates

LEMMA DevelopingMoves == CanTransition("feature", "developing", "reviewing")
  <1>1. <<"developing", "reviewing">> \in AllowedTransitions("feature")
    BY DEF AllowedTransitions, FeatureEdges
  <1> QED
    BY <1>1 DEF CanTransition, KnownStates, IsTerminalState, TerminalStates

(* Type correctness, for any workload. *)
TypeInv == TypeOK /\ CallsFitKind

LEMMA InitTyped == Init => TypeInv
  <1> SUFFICES ASSUME Init PROVE TypeInv
    OBVIOUS
  <1> USE DeliveryAssumption
  <1>1. PICK w \in Workloads :
           /\ kind = w.kind /\ tools = w.tools /\ branch = w.started
           /\ dir = IF w.started THEN "present" ELSE "absent"
           /\ recs = [r \in Records |->
                        IF w.started /\ r = CHOOSE s \in Records : TRUE
                        THEN [st |-> "active", due |-> 0, project |-> NewProject] ELSE NoRecord]
    BY DEF Init
  <1>2. recs \in [Records -> RecordTypes]
    BY <1>1, NewIsProject DEF RecordTypes, RecordStatuses
  <1>3. status \in KnownStates(kind)
    BY <1>1, KnownStatuses DEF Init
  <1>4. call \in [Callers -> Calls] /\ CallsFitKind
    BY DEF Init, Idle, Calls, CallsFitKind
  <1>5. /\ {tasksDone, report, branch, edited, label} \subseteq BOOLEAN
        /\ dir \in {"absent", "present", "missing"}
    BY <1>1 DEF Init
  <1>6. /\ {rooted, landed, tip} \subseteq 0..MaxCommits /\ rooted <= landed /\ landed <= tip
        /\ cycle \in 0..(MaxReviewCycles + 1) /\ crashes \in 0..MaxCrashes
    BY DEF Init
  <1> QED
    BY <1>1, <1>2, <1>3, <1>4, <1>5, <1>6 DEF Init, TypeInv, TypeOK

(* What is left of the invariant when a step leaves a part alone. *)
LEMMA CallOnly ==
    ASSUME TypeInv, call' \in [Callers -> Calls], CallsFitKind',
           UNCHANGED <<entityVars, recs, gitVars, hubVars, verifier, crashes>>
    PROVE  TypeInv'
  BY DEF TypeInv, TypeOK, entityVars, gitVars, hubVars

LEMMA RecordsOnly ==
    ASSUME TypeInv, call' \in [Callers -> Calls], CallsFitKind',
           recs' \in [Records -> RecordTypes],
           UNCHANGED <<entityVars, gitVars, hubVars, verifier, crashes>>
    PROVE  TypeInv'
  BY DEF TypeInv, TypeOK, RecordTypes, entityVars, gitVars, hubVars

LEMMA StatusOnly ==
    ASSUME TypeInv, call' \in [Callers -> Calls], CallsFitKind', status' \in KnownStates(kind),
           verifier' \in {"none", "dispatched", "passed"},
           UNCHANGED <<kind, tools, tasksDone, report, verification, cycle, recs, gitVars,
                       hubVars, crashes>>
    PROVE  TypeInv'
  BY DEF TypeInv, TypeOK, gitVars, hubVars

LEMMA DirOnly ==
    ASSUME TypeInv, call' \in [Callers -> Calls], CallsFitKind',
           dir' \in {"absent", "present", "missing"}, edited' \in BOOLEAN,
           branch' \in BOOLEAN,
           UNCHANGED <<entityVars, recs, tip, landed, rooted, hubVars, verifier, crashes>>
    PROVE  TypeInv'
  BY DEF TypeInv, TypeOK, entityVars, hubVars

LEMMA MergeTyped ==
    ASSUME TypeInv, NEW c \in Callers, Merge(c) PROVE TypeInv'
  <1> USE DeliveryAssumption
  <1>0. call \in [Callers -> Calls] /\ recs \in [Records -> RecordTypes]
    BY DEF TypeInv, TypeOK, RecordTypes
  <1>1. CASE MergeBegin(c)
    <2>1. PICK r \in ActiveRecords, strategy \in Strategies, cli \in BOOLEAN :
             call' = [call EXCEPT ![c] =
                        [at |-> "merge", rec |-> r, project |-> recs[r].project, saw |-> status,
                         strategy |-> strategy, cli |-> cli]]
      BY <1>1 DEF MergeBegin
    <2> DEFINE x == [at |-> "merge", rec |-> r, project |-> recs[r].project, saw |-> status,
                     strategy |-> strategy, cli |-> cli]
    <2>2. status \in Statuses
      BY DEF TypeInv, TypeOK, Statuses
    <2>0. r \in Records /\ recs[r].project \in GraphProjects
      BY <1>0, KnownHasProject DEF ActiveRecords, KnownRecords
    <2>3. x \in Calls /\ x.at = "merge"
      BY <2>0, <2>2 DEF Calls, MergeSteps
    <2> HIDE DEF x
    <2>4. call' = [call EXCEPT ![c] = x]
      BY <2>1 DEF x
    <2> QED
      BY <1>0, <1>1, <2>3, <2>4, TakesUp, CallOnly
         DEF MergeBegin, CallsFitKind, TypeInv, entityVars
  <1>2. CASE MergeBranch(c)
    <2>1. /\ call' \in [Callers -> Calls] /\ call'[c].at \in {"record", "confirm", "idle"}
          /\ \A d \in Callers \ {c} : call'[d] = call[d]
      <3>1. CASE CanMerge(call[c].strategy)
        BY <1>0, <1>2, <3>1, GoesOn DEF MergeBranch, MergeSteps
      <3>2. CASE ~ CanMerge(call[c].strategy)
        BY <1>0, <1>2, <3>2, Ends DEF MergeBranch
      <3> QED
        BY <3>1, <3>2
    <2>2. /\ {rooted', landed', tip} \subseteq 0..MaxCommits
          /\ rooted' <= landed' /\ landed' <= tip
      BY <1>2 DEF MergeBranch, TypeInv, TypeOK
    <2> QED
      BY <1>2, <2>1, <2>2
         DEF MergeBranch, CallsFitKind, TypeInv, TypeOK, entityVars, hubVars
  <1>3. CASE MergeConfirm(c)
    BY <1>0, <1>3, GoesOn, CallOnly
       DEF MergeConfirm, MergeSteps, CallsFitKind, TypeInv, entityVars
  <1>4. CASE MarkMerged(c)
    <2>1. /\ call' \in [Callers -> Calls] /\ call'[c].at \in {"stamp", "delete", "idle"}
          /\ \A d \in Callers \ {c} : call'[d] = call[d]
      <3>1. ASSUME NEW at \in {"stamp", "delete"}, Go(c, at)
            PROVE  /\ call' \in [Callers -> Calls] /\ call'[c].at = at
                   /\ \A d \in Callers \ {c} : call'[d] = call[d]
        BY <1>0, <1>4, <3>1, GoesOn DEF MarkMerged, MergeSteps
      <3>2. CASE End(c)
        BY <1>0, <3>2, Ends
      <3> QED
        BY <1>4, <3>1, <3>2 DEF MarkMerged
    <2> QED
      BY <1>4, <2>1, CallOnly DEF MarkMerged, CallsFitKind, TypeInv, entityVars
  <1>9. CASE WriteMerged(c)
    <2>1. /\ call' \in [Callers -> Calls] /\ call'[c].at = "delete"
          /\ \A d \in Callers \ {c} : call'[d] = call[d]
      BY <1>0, <1>9, GoesOn DEF WriteMerged, MergeSteps
    <2>2. recs' \in [Records -> RecordTypes]
      BY <1>0, <1>9, CallHolds, WritesRecord DEF WriteMerged, MergeSteps
    <2> QED
      BY <1>9, <2>1, <2>2, RecordsOnly DEF WriteMerged, CallsFitKind, TypeInv, entityVars
  <1>5. CASE MergeDeletes(c)
    <2>1. /\ call' \in [Callers -> Calls]
          /\ call'[c].at = "idle" \/ (call'[c].at = "advance" /\ kind # "bug")
          /\ \A d \in Callers \ {c} : call'[d] = call[d]
      <3>1. CASE End(c)
        BY <1>0, <3>1, Ends
      <3>2. CASE Go(c, "advance") /\ kind # "bug"
        BY <1>0, <1>5, <3>2, GoesOn DEF MergeDeletes, MergeSteps
      <3>3. End(c) \/ (Go(c, "advance") /\ kind # "bug")
        <4> DEFINE over == kind = "bug" \/ call[c].cli \/ call[c].saw = "done"
        <4>1. (over => End(c)) /\ (~ over => Go(c, "advance"))
          BY <1>5, Zenon DEF MergeDeletes
        <4> QED
          BY <4>1
      <3> QED
        BY <3>1, <3>2, <3>3
    <2>2. branch' \in BOOLEAN
      BY <1>5 DEF MergeDeletes
    <2>3. kind \in {"feature", "bug"} /\ UNCHANGED kind
      BY <1>5 DEF MergeDeletes, TypeInv, TypeOK, entityVars
    <2> QED
      BY <1>5, <2>1, <2>2, <2>3, DirOnly DEF MergeDeletes, CallsFitKind, TypeInv, TypeOK
  <1>6. CASE MergeAdvances(c)
    <2>1. status' \in KnownStates(kind)
      BY <1>6, KnownStatuses, DevelopingMoves
         DEF MergeAdvances, CallsFitKind, TypeInv, TypeOK
    <2> QED
      BY <1>0, <1>6, <2>1, GoesOn, StatusOnly
         DEF MergeAdvances, MergeSteps, CallsFitKind, TypeInv, TypeOK
  <1>7. ASSUME NEW to \in {"merging", "verifying"}, NEW next \in {"verifying", "build"},
               MergeMoves(c, to, next)
        PROVE  TypeInv'
    <2>1. /\ call' \in [Callers -> Calls] /\ call'[c].at \in {"idle", next}
          /\ \A d \in Callers \ {c} : call'[d] = call[d]
      <3>1. CASE Go(c, next)
        BY <1>0, <1>7, <3>1, GoesOn DEF MergeMoves, MergeSteps
      <3>2. CASE End(c)
        BY <1>0, <3>2, Ends
      <3> QED
        BY <1>7, <3>1, <3>2 DEF MergeMoves
    <2>2. kind = "feature" /\ status' \in KnownStates(kind)
      BY <1>7, KnownStatuses DEF MergeMoves, CallsFitKind, TypeInv, TypeOK
    <2> QED
      BY <1>7, <2>1, <2>2, StatusOnly DEF MergeMoves, CallsFitKind, TypeInv, TypeOK
  <1>8. CASE MergeBuilds(c)
    <2>1. status' \in KnownStates(kind)
      BY <1>8, KnownStatuses DEF MergeBuilds, CallsFitKind, TypeInv, TypeOK
    <2> QED
      BY <1>0, <1>8, <2>1, Ends, StatusOnly
         DEF MergeBuilds, CallsFitKind, TypeInv, TypeOK
  <1> QED
    BY <1>1, <1>2, <1>3, <1>4, <1>5, <1>6, <1>7, <1>8, <1>9 DEF Merge

LEMMA WorktreeTyped ==
    ASSUME TypeInv, NEW c \in Callers, Worktree(c) \/ Cleanup(c) PROVE TypeInv'
  <1> USE DeliveryAssumption
  <1>0. /\ call \in [Callers -> Calls] /\ recs \in [Records -> RecordTypes]
        /\ edited \in BOOLEAN /\ branch \in BOOLEAN
        /\ dir \in {"absent", "present", "missing"}
    BY DEF TypeInv, TypeOK, RecordTypes
  <1> DEFINE CallTyped == call' \in [Callers -> Calls] /\ (UNCHANGED kind => CallsFitKind')
  <1>e. ASSUME End(c) PROVE CallTyped
    BY <1>0, <1>e, Ends DEF CallsFitKind, TypeInv
  <1>g. ASSUME NEW at \in {"save", "unbranch", "forget"}, Go(c, at),
               \/ call[c].at = "add" /\ at = "save"
               \/ call[c].at \in {"clear", "unbranch"} /\ at \in {"unbranch", "forget"}
        PROVE  CallTyped
    BY <1>0, <1>g, GoesOn DEF CallsFitKind, TypeInv
  <1>n. ASSUME NEW x \in Calls, call' = [call EXCEPT ![c] = x],
               x.at \in {"add", "clear", "forget", "update", "rewrite", "idle"}
        PROVE  CallTyped
    BY <1>0, <1>n, TakesUp DEF CallsFitKind, TypeInv
  <1>1. CASE CreateBegin(c)
    <2>1. [at |-> "add"] \in Calls
      BY DEF Calls
    <2> QED
      BY <1>1, <2>1, <1>n, CallOnly DEF CreateBegin, entityVars
  <1>2. CASE CreateAdd(c)
    <2>1. CASE CanAddWorktree /\ Go(c, "save")
      <3>1. /\ branch' = TRUE /\ tip' = 0 /\ landed' = 0 /\ rooted' = 0
            /\ dir' = "present" /\ edited' = FALSE
        BY <1>2, <2>1 DEF CreateAdd
      <3>2. CallTyped
        BY <1>2, <2>1, <1>g DEF CreateAdd
      <3>3. /\ {rooted', landed', tip'} \subseteq 0..MaxCommits
            /\ rooted' <= landed' /\ landed' <= tip'
        BY <3>1
      <3>4. UNCHANGED <<kind, tools, status, tasksDone, report, verification, cycle, recs,
                        pr, label, verifier, crashes>>
        BY <1>2 DEF CreateAdd, entityVars, hubVars
      <3>5. {tasksDone', report', branch', edited', label'} \subseteq BOOLEAN
        BY <3>1, <3>4 DEF TypeInv, TypeOK
      <3>6. dir' \in {"absent", "present", "missing"}
        BY <3>1
      <3>7. TypeOK
        BY DEF TypeInv
      <3>8. TypeOK'
        BY <3>2, <3>3, <3>4, <3>5, <3>6, <3>7 DEF TypeOK
      <3> QED
        BY <3>2, <3>4, <3>8 DEF TypeInv
    <2>2. CASE End(c) /\ UNCHANGED gitVars
      BY <1>2, <2>2, <1>e, CallOnly DEF CreateAdd, entityVars
    <2> QED
      BY <1>2, <2>1, <2>2 DEF CreateAdd
  <1>3. CASE CreateSave(c)
    <2>1. CASE FreeIds # {} /\ Written(CHOOSE r \in FreeIds : TRUE, "active", 0, NewProject)
               /\ UNCHANGED gitVars
      <3>1. (CHOOSE r \in FreeIds : TRUE) \in Records
        BY <2>1 DEF FreeIds
      <3>2. recs' \in [Records -> RecordTypes]
        BY <1>0, <2>1, <3>1, NewIsProject, WritesRecord
      <3> QED
        BY <1>3, <2>1, <3>2, <1>e, RecordsOnly DEF CreateSave, entityVars
    <2>2. CASE dir' = "absent" /\ edited' = FALSE /\ UNCHANGED <<recs, branch, tip, landed, rooted>>
      BY <1>0, <1>3, <2>2, <1>e, DirOnly DEF CreateSave, entityVars
    <2> QED
      BY <1>3, <2>1, <2>2 DEF CreateSave
  <1>4. CASE RemoveWorktree(c)
    <2>1. PICK r \in ActiveRecords : call' = [call EXCEPT ![c] = [at |-> "forget", rec |-> r]]
      BY <1>4 DEF RemoveWorktree
    <2>2. [at |-> "forget", rec |-> r] \in Calls
      BY DEF Calls, ActiveRecords
    <2> QED
      BY <1>0, <1>4, <2>1, <2>2, <1>n, DirOnly DEF RemoveWorktree, entityVars
  <1>5. CASE DeleteRecord(c)
    <2>1. {call[c].rec} \in SUBSET Records
      BY <1>0, <1>5, CallHolds DEF DeleteRecord
    <2> QED
      BY <1>0, <1>5, <2>1, <1>e, DeletesRecords, RecordsOnly DEF DeleteRecord, entityVars
  <1>6. CASE Gc(c)
    <2>1. recs' \in [Records -> RecordTypes]
      BY <1>0, <1>6, DeletesRecords DEF Gc
    <2> QED
      BY <1>0, <1>6, <2>1, RecordsOnly DEF Gc, CallsFitKind, TypeInv, entityVars
  <1>7. ASSUME NEW r \in Records, CleanupBegin(c, r) PROVE TypeInv'
    <2>1. [at |-> "clear", rec |-> r] \in Calls
      BY DEF Calls
    <2> QED
      BY <1>7, <2>1, <1>n, CallOnly DEF CleanupBegin, entityVars
  <1>8. CASE CleanupDirectory(c)
    <2>1. /\ CallTyped
          /\ dir' \in {"absent", "present", "missing"} /\ edited' \in BOOLEAN
      BY <1>0, <1>8, <1>e, <1>g DEF CleanupDirectory
    <2> QED
      BY <1>0, <1>8, <2>1, DirOnly DEF CleanupDirectory, entityVars
  <1>a. CASE UpdateBegin(c)
    <2>1. PICK r \in ActiveRecords, project \in GraphProjects :
             call' = [call EXCEPT ![c] = [at |-> "update", rec |-> r, next |-> project,
                                         project |-> recs[r].project]]
      BY <1>a DEF UpdateBegin
    <2>2. r \in Records /\ recs[r].project \in GraphProjects
      BY <1>0, KnownHasProject DEF ActiveRecords, KnownRecords
    <2>3. [at |-> "update", rec |-> r, next |-> project, project |-> recs[r].project] \in Calls
      BY <2>2 DEF Calls
    <2> QED
      BY <1>a, <2>1, <2>3, <1>n, CallOnly DEF UpdateBegin, entityVars
  <1>b. CASE UpdateCompares(c)
    <2>1. PICK x \in Calls : x.at \in {"rewrite", "idle"} /\ call' = [call EXCEPT ![c] = x]
      <3>1. /\ call[c].rec \in Records /\ call[c].next \in GraphProjects
            /\ recs[call[c].rec].st \in RecordStatuses
        BY <1>0, <1>b, CallHolds DEF UpdateCompares, RecordTypes, NoRecord, Gone, RecordStatuses
      <3> DEFINE y == [at |-> "rewrite", rec |-> call[c].rec, next |-> call[c].next,
                       found |-> recs[call[c].rec].st]
      <3>2. y \in Calls /\ y.at = "rewrite"
        BY <3>1 DEF Calls
      <3>3. Idle \in Calls /\ Idle.at = "idle"
        BY DEF Idle, Calls
      <3>4. call' = [call EXCEPT ![c] = y] \/ call' = [call EXCEPT ![c] = Idle]
        BY <1>0, <1>b DEF UpdateCompares
      <3> HIDE DEF y
      <3> QED
        BY <3>2, <3>3, <3>4
    <2> QED
      BY <1>b, <2>1, <1>n, CallOnly DEF UpdateCompares, entityVars
  <1>c. CASE UpdateWrites(c)
    <2>1. recs' \in [Records -> RecordTypes]
      BY <1>0, <1>c, CallHolds, WritesRecord DEF UpdateWrites
    <2> QED
      BY <1>c, <2>1, <1>e, RecordsOnly DEF UpdateWrites, entityVars
  <1>9. CASE CleanupBranch(c)
    <2>1. CallTyped /\ branch' \in BOOLEAN
      BY <1>0, <1>9, <1>e, <1>g DEF CleanupBranch
    <2> QED
      BY <1>0, <1>9, <2>1, DirOnly DEF CleanupBranch, entityVars
  <1> QED
    BY <1>1, <1>2, <1>3, <1>4, <1>5, <1>6, <1>7, <1>8, <1>9, <1>a, <1>b, <1>c
       DEF Worktree, Cleanup

LEMMA MoveTyped ==
    ASSUME TypeInv, NEW c \in Callers, Move(c) PROVE TypeInv'
  <1> USE DeliveryAssumption
  <1>0. /\ call \in [Callers -> Calls] /\ verifier \in {"none", "dispatched", "passed"}
        /\ status \in KnownStates(kind)
        /\ cycle \in 0..(MaxReviewCycles + 1)
    BY DEF TypeInv, TypeOK
  <1>n. ASSUME NEW x \in Calls, call' = [call EXCEPT ![c] = x], x.at \in {"add", "rework", "idle"},
               UNCHANGED kind, kind = "bug"
        PROVE  call' \in [Callers -> Calls] /\ CallsFitKind'
    BY <1>0, <1>n, TakesUp DEF CallsFitKind, TypeInv
  <1>u. ASSUME UNCHANGED <<kind, call>> PROVE call' \in [Callers -> Calls] /\ CallsFitKind'
    BY <1>0, <1>u DEF CallsFitKind, TypeInv
  <1>1. CASE MoveFeature(c)
    BY <1>0, <1>1, <1>u, KnownStatuses, StatusOnly DEF MoveFeature
  <1>2. CASE MoveBug(c)
    <2>1. call' \in [Callers -> Calls] /\ CallsFitKind'
      BY <1>2, <1>n, <1>u DEF MoveBug, Calls
    <2> QED
      BY <1>0, <1>2, <2>1, KnownStatuses, StatusOnly DEF MoveBug
  <1>3. CASE CountRework(c)
    <2>1. call' \in [Callers -> Calls] /\ CallsFitKind'
      BY <1>3, <1>n, <1>u DEF CountRework, Calls
    <2>2. cycle' \in 0..(MaxReviewCycles + 1)
      BY <1>0, <1>3 DEF CountRework
    <2> QED
      BY <1>3, <2>1, <2>2 DEF CountRework, TypeInv, TypeOK, gitVars, hubVars
  <1>4. CASE SendBack(c)
    <2>1. kind = "bug" /\ status' \in KnownStates(kind)
      BY <1>0, <1>4, KnownStatuses DEF SendBack, CallsFitKind, TypeInv
    <2>2. call' \in [Callers -> Calls] /\ CallsFitKind'
      BY <1>0, <1>4, Ends DEF SendBack, CallsFitKind, TypeInv
    <2> QED
      BY <1>0, <1>4, <2>1, <2>2, StatusOnly DEF SendBack
  <1>5. ASSUME NEW override \in BOOLEAN, CloseBug(c, override) PROVE TypeInv'
    <2>1. status' \in KnownStates(kind) /\ verifier' \in {"none", "dispatched", "passed"}
      BY <1>0, <1>5, KnownStatuses DEF CloseBug
    <2> QED
      BY <1>5, <2>1, <1>u, StatusOnly DEF CloseBug
  <1> QED
    BY <1>1, <1>2, <1>3, <1>4, <1>5 DEF Move

LEMMA OthersTyped ==
    ASSUME TypeInv,
           \/ \E c \in Callers : PullRequest(c) \/ Crash(c)
           \/ CommitWork \/ Edit \/ DirectoryDeleted \/ WorkRecorded \/ ClosePR \/ Tick
           \/ VerifierPasses \/ UNCHANGED vars
    PROVE  TypeInv'
  <1> USE DeliveryAssumption
  <1>0. TypeOK /\ CallsFitKind
    BY DEF TypeInv
  <1>u. ASSUME UNCHANGED <<kind, call>> PROVE call' \in [Callers -> Calls] /\ CallsFitKind'
    BY <1>0, <1>u DEF CallsFitKind, TypeOK
  <1>1. ASSUME NEW c \in Callers, PullRequest(c) PROVE TypeInv'
    <2>1. /\ pr' \in {"none", "open", "closed"} /\ label' \in BOOLEAN
          /\ UNCHANGED <<entityVars, recs, gitVars, verifier, crashes, call>>
      BY <1>0, <1>1 DEF PullRequest, CreatePR, UpdatePR, TypeOK
    <2> QED
      BY <1>0, <1>u, <2>1 DEF TypeInv, TypeOK, entityVars, gitVars
  <1>2. ASSUME NEW c \in Callers, Crash(c) PROVE TypeInv'
    <2>1. /\ call' \in [Callers -> Calls] /\ (UNCHANGED kind => CallsFitKind')
      BY <1>0, <1>2, Ends DEF Crash, CallsFitKind, TypeOK
    <2>2. crashes' \in 0..MaxCrashes /\ verifier' = "none"
      BY <1>0, <1>2 DEF Crash, TypeOK
    <2> QED
      BY <1>0, <1>2, <2>1, <2>2 DEF Crash, TypeInv, TypeOK, entityVars, gitVars, hubVars
  <1>3. CASE CommitWork
    <2>1. /\ {rooted, landed, tip'} \subseteq 0..MaxCommits /\ landed <= tip'
          /\ edited' = FALSE
      BY <1>0, <1>3 DEF CommitWork, TypeOK
    <2> QED
      BY <1>0, <1>3, <1>u, <2>1 DEF CommitWork, TypeInv, TypeOK, entityVars, hubVars
  <1>4. CASE Edit \/ DirectoryDeleted
    <2>1. /\ dir' \in {"absent", "present", "missing"} /\ edited' \in BOOLEAN
          /\ branch' \in BOOLEAN
          /\ UNCHANGED <<entityVars, recs, tip, landed, rooted, hubVars, verifier, crashes, call>>
      BY <1>0, <1>4 DEF Edit, DirectoryDeleted, TypeOK
    <2> QED
      BY <1>0, <1>u, <2>1, DirOnly DEF TypeInv, entityVars
  <1>5. CASE WorkRecorded
    <2>1. /\ {tasksDone', report'} \subseteq BOOLEAN
          /\ verification' \in {"none", "partial", "passed"}
      BY <1>0, <1>5 DEF WorkRecorded, TypeOK
    <2> QED
      BY <1>0, <1>5, <1>u, <2>1 DEF WorkRecorded, TypeInv, TypeOK, gitVars, hubVars
  <1>6. CASE ClosePR \/ VerifierPasses
    <2>1. /\ pr' \in {"none", "open", "closed"} /\ verifier' \in {"none", "dispatched", "passed"}
          /\ UNCHANGED <<entityVars, recs, gitVars, label, crashes, call>>
      BY <1>0, <1>6 DEF ClosePR, VerifierPasses, hubVars, TypeOK
    <2> QED
      BY <1>0, <1>u, <2>1 DEF TypeInv, TypeOK, entityVars, gitVars
  <1>7. CASE Tick
    <2>1. recs \in [Records -> RecordTypes]
      BY <1>0 DEF TypeOK, RecordTypes
    <2>2. recs' \in [Records -> RecordTypes]
      BY <1>7, <2>1, TicksRecords
    <2>3. UNCHANGED <<kind, call, entityVars, gitVars, hubVars, verifier, crashes>>
      BY <1>7 DEF Tick, entityVars
    <2> QED
      BY <1>u, <2>2, <2>3, RecordsOnly
  <1>8. CASE UNCHANGED vars
    <2>1. UNCHANGED <<kind, call, entityVars, recs, gitVars, hubVars, verifier, crashes>>
      BY <1>8 DEF vars, entityVars
    <2> QED
      BY <1>u, <2>1, CallOnly
  <1> QED
    BY <1>1, <1>2, <1>3, <1>4, <1>5, <1>6, <1>7, <1>8

LEMMA StepTyped == TypeInv /\ [Next]_vars => TypeInv'
  BY MergeTyped, WorktreeTyped, MoveTyped, OthersTyped DEF Next

LEMMA TypesHold == Spec => []TypeInv
  BY InitTyped, StepTyped, PTL DEF Spec

(* Every record, branch, call and entity has its type in every reachable    *)
(* state; the default branch never has more of the branch by content than   *)
(* the branch has commits, nor more as ancestors than by content.           *)
THEOREM DeliveryTypeCorrect == Spec => []TypeOK
  <1>1. TypeInv => TypeOK
    BY DEF TypeInv
  <1> QED
    BY <1>1, TypesHold, PTL

-----------------------------------------------------------------------------
(* No work is lost. *)

(* The steps that take the branch away: the end of a merge and the cleanup. *)
LEMMA BranchGoes ==
    ASSUME TypeInv, [Next]_vars, branch, ~ branch'
    PROVE  \E c \in Callers : MergeDeletes(c) \/ CleanupBranch(c)
  <1>0. branch' # branch
    OBVIOUS
  <1>1. ASSUME NEW c \in Callers, Merge(c) PROVE MergeDeletes(c)
    BY <1>0, <1>1
       DEF Merge, MergeBegin, MergeBranch, MergeConfirm, MarkMerged, WriteMerged, MergeAdvances, MergeMoves,
           MergeBuilds, gitVars
  <1>2. ASSUME NEW c \in Callers, Worktree(c) \/ Cleanup(c) PROVE CleanupBranch(c)
    BY <1>0, <1>2
       DEF Worktree, Cleanup, CreateBegin, CreateAdd, CreateSave, RemoveWorktree, DeleteRecord,
           Gc, CleanupBegin, CleanupDirectory, UpdateBegin, UpdateCompares, UpdateWrites, gitVars
  <1>3. ASSUME NEW c \in Callers, PullRequest(c) \/ Move(c) \/ Crash(c) PROVE FALSE
    BY <1>0, <1>3
       DEF PullRequest, CreatePR, UpdatePR, Move, MoveFeature, MoveBug, CountRework, SendBack,
           CloseBug, Crash, gitVars
  <1>4. ASSUME CommitWork \/ Edit \/ DirectoryDeleted \/ WorkRecorded \/ ClosePR \/ Tick
                 \/ VerifierPasses \/ UNCHANGED vars
        PROVE  FALSE
    BY <1>0, <1>4
       DEF CommitWork, Edit, DirectoryDeleted, WorkRecorded, ClosePR, Tick, VerifierPasses, vars,
           gitVars
  <1> QED
    BY <1>1, <1>2, <1>3, <1>4 DEF Next

(* A cleanup, or a merge that does not squash, takes the branch only with   *)
(* all its commits in the default branch: git's own -d refuses otherwise,   *)
(* and what it asks for, that the tip is an ancestor, implies that the      *)
(* content is there, whatever merges, commits and crashes came before.      *)
THEOREM DeletionKeepsWork == Spec => NoWorkLost
  <1>1. TypeInv /\ [Next]_vars => [branch /\ ~ branch' => landed = tip \/ Squashed]_vars
    <2> SUFFICES ASSUME TypeInv, [Next]_vars, branch, ~ branch'
                 PROVE  landed = tip \/ Squashed
      OBVIOUS
    <2>1. ASSUME rooted = tip PROVE landed = tip
      <3>1. {rooted, landed, tip} \subseteq 0..MaxCommits /\ rooted <= landed /\ landed <= tip
        BY DEF TypeInv, TypeOK
      <3> QED
        BY <2>1, <3>1, DeliveryAssumption
    <2>2. ASSUME NEW c \in Callers, CleanupBranch(c) PROVE landed = tip
      BY <2>1, <2>2 DEF CleanupBranch, CanDeleteBranch
    <2>3. ASSUME NEW c \in Callers, MergeDeletes(c) PROVE landed = tip \/ Squashed
      <3>1. CanDeleteBranch(~ call[c].cli /\ call[c].strategy = "squash")
        BY <2>3 DEF MergeDeletes
      <3>2. CASE call[c].strategy = "squash"
        BY <2>3, <3>2 DEF MergeDeletes, Squashed
      <3>3. CASE call[c].strategy # "squash"
        BY <2>1, <3>1, <3>3 DEF CanDeleteBranch
      <3> QED
        BY <3>2, <3>3
    <2> QED
      BY <2>2, <2>3, BranchGoes
  <1> QED
    BY <1>1, TypesHold, PTL DEF Spec, NoWorkLost

-----------------------------------------------------------------------------
(* The steps that records, branch and directory do not notice. *)

HoldingSteps == MergeSteps \cup {"clear", "unbranch", "forget", "update", "rewrite"}

(* The record of the new call is on file, or the call had it before. *)
Knows(c) ==
    \/ call'[c].rec \in KnownRecords
    \/ call[c].at \in HoldingSteps /\ call'[c].rec = call[c].rec

QuietCall(c) ==
    \/ call'[c] = call[c]
    \/ /\ call[c].at = "save" => crashes' > 0
       /\ \/ call'[c].at \in {"idle", "rework"}
          \/ call'[c].at = "add" /\ ActiveRecords = {}
          \/ call'[c].at \in MergeSteps \cup {"clear", "update"} /\ Knows(c)
          \/ call'[c].at \in {"unbranch", "forget"} /\ Knows(c) /\ dir' # "present"

Quiet ==
    /\ recs' \in [Records -> RecordTypes]
    /\ \A r \in Records : recs'[r].st = recs[r].st /\ recs'[r].project = recs[r].project
    /\ UNCHANGED branch
    /\ dir' = "present" => dir = "present"
    /\ crashes <= crashes'
    /\ \A c \in Callers : QuietCall(c)

LEMMA QuietMerge ==
    ASSUME TypeInv, NEW c \in Callers, Merge(c), ~ WriteMerged(c), ~ MergeDeletes(c) PROVE Quiet
  <1>0. /\ call \in [Callers -> Calls] /\ recs \in [Records -> RecordTypes]
        /\ crashes \in Nat
    BY DeliveryAssumption DEF TypeInv, TypeOK, RecordTypes
  <1>1. UNCHANGED <<recs, branch, dir, crashes>>
    BY DEF Merge, MergeBegin, MergeBranch, MergeConfirm, MarkMerged, MergeAdvances, MergeMoves,
           MergeBuilds, gitVars
  <1>2. \A d \in Callers : QuietCall(d)
    <2>e. ASSUME End(c), call[c].at # "save" PROVE \A d \in Callers : QuietCall(d)
      BY <1>0, <2>e, Ends DEF QuietCall
    <2>g. ASSUME NEW at \in MergeSteps, Go(c, at), call[c].at \in MergeSteps
          PROVE  \A d \in Callers : QuietCall(d)
      BY <1>0, <2>g, GoesOn DEF QuietCall, Knows, HoldingSteps, MergeSteps
    <2>1. CASE MergeBegin(c)
      <3>1. PICK r \in ActiveRecords, strategy \in Strategies, cli \in BOOLEAN :
               call' = [call EXCEPT ![c] =
                          [at |-> "merge", rec |-> r, project |-> recs[r].project, saw |-> status,
                           strategy |-> strategy, cli |-> cli]]
        BY <2>1 DEF MergeBegin
      <3>2. call'[c].at = "merge" /\ call'[c].rec = r /\ \A d \in Callers \ {c} : call'[d] = call[d]
        BY <1>0, <3>1
      <3> QED
        BY <2>1, <3>2
           DEF MergeBegin, Busy, QuietCall, Knows, KnownRecords, ActiveRecords, MergeSteps
    <2>2. CASE MergeBranch(c)
      BY <2>2, <2>e, <2>g DEF MergeBranch, MergeSteps
    <2>3. CASE MergeConfirm(c)
      BY <2>3, <2>g DEF MergeConfirm, MergeSteps
    <2>7. CASE MarkMerged(c)
      BY <2>7, <2>e, <2>g DEF MarkMerged, MergeSteps
    <2>4. CASE MergeAdvances(c)
      BY <2>4, <2>g DEF MergeAdvances, MergeSteps
    <2>5. CASE MergeMoves(c, "merging", "verifying") \/ MergeMoves(c, "verifying", "build")
      BY <2>5, <2>e, <2>g DEF MergeMoves, MergeSteps
    <2>6. CASE MergeBuilds(c)
      BY <2>6, <2>e DEF MergeBuilds
    <2> QED
      BY <2>1, <2>2, <2>3, <2>4, <2>5, <2>6, <2>7 DEF Merge
  <1> QED
    BY <1>0, <1>1, <1>2 DEF Quiet

LEMMA QuietWorktree ==
    ASSUME TypeInv, NEW c \in Callers, Worktree(c) \/ Cleanup(c),
           ~ (CreateAdd(c) /\ CanAddWorktree), ~ CreateSave(c), ~ DeleteRecord(c), ~ Gc(c),
           ~ CleanupBranch(c), ~ UpdateCompares(c), ~ UpdateWrites(c)
    PROVE  Quiet
  <1>0. /\ call \in [Callers -> Calls] /\ recs \in [Records -> RecordTypes]
        /\ crashes \in Nat
    BY DeliveryAssumption DEF TypeInv, TypeOK, RecordTypes
  <1>e. ASSUME End(c), call[c].at # "save" PROVE \A d \in Callers : QuietCall(d)
    BY <1>0, <1>e, Ends DEF QuietCall
  <1>n. ASSUME NEW x \in Calls, call' = [call EXCEPT ![c] = x]
        PROVE  call'[c] = x /\ \A d \in Callers \ {c} : call'[d] = call[d]
    BY <1>0, <1>n, TakesUp
  <1>1. CASE CreateBegin(c)
    <2>1. [at |-> "add"] \in Calls
      BY DEF Calls
    <2> QED
      BY <1>0, <1>1, <2>1, <1>n DEF CreateBegin, Busy, Quiet, QuietCall, gitVars
  <1>2. CASE CreateAdd(c)
    BY <1>0, <1>2, <1>e DEF CreateAdd, Quiet, gitVars
  <1>3. CASE RemoveWorktree(c)
    <2>1. PICK r \in ActiveRecords : call' = [call EXCEPT ![c] = [at |-> "forget", rec |-> r]]
      BY <1>3 DEF RemoveWorktree
    <2>2. [at |-> "forget", rec |-> r] \in Calls
      BY DEF Calls, ActiveRecords
    <2>3. r \in KnownRecords
      BY DEF KnownRecords, ActiveRecords
    <2> QED
      BY <1>0, <1>3, <2>1, <2>2, <2>3, <1>n
         DEF RemoveWorktree, Busy, Quiet, QuietCall, Knows
  <1>4. ASSUME NEW r \in Records, CleanupBegin(c, r) PROVE Quiet
    <2>1. [at |-> "clear", rec |-> r] \in Calls
      BY DEF Calls
    <2>2. r \in KnownRecords
      BY <1>4 DEF CleanupBegin, IsReadyForCleanup, KnownRecords
    <2> QED
      BY <1>0, <1>4, <2>1, <2>2, <1>n DEF CleanupBegin, Busy, Quiet, QuietCall, Knows, gitVars
  <1>6. CASE UpdateBegin(c)
    <2>1. PICK r \in ActiveRecords, project \in GraphProjects :
             call' = [call EXCEPT ![c] = [at |-> "update", rec |-> r, next |-> project,
                                         project |-> recs[r].project]]
      BY <1>6 DEF UpdateBegin
    <2>2. r \in KnownRecords
      BY DEF KnownRecords, ActiveRecords
    <2>3. call'[c].at = "update" /\ call'[c].rec = r /\ \A d \in Callers \ {c} : call'[d] = call[d]
      BY <1>0, <2>1
    <2> QED
      BY <1>0, <1>6, <2>2, <2>3 DEF UpdateBegin, Busy, Quiet, QuietCall, Knows, gitVars
  <1>5. CASE CleanupDirectory(c)
    <2>1. CASE Go(c, "unbranch") /\ dir' = "absent"
      BY <1>0, <1>5, <2>1, GoesOn
         DEF CleanupDirectory, Quiet, QuietCall, Knows, HoldingSteps
    <2>2. CASE End(c) /\ UNCHANGED dir
      BY <1>0, <1>5, <2>2, <1>e DEF CleanupDirectory, Quiet
    <2> QED
      BY <1>5, <2>1, <2>2 DEF CleanupDirectory
  <1> QED
    BY <1>1, <1>2, <1>3, <1>4, <1>5, <1>6 DEF Worktree, Cleanup

LEMMA QuietOthers ==
    ASSUME TypeInv,
           \/ \E c \in Callers : PullRequest(c) \/ Move(c) \/ Crash(c)
           \/ CommitWork \/ Edit \/ DirectoryDeleted \/ WorkRecorded \/ ClosePR \/ Tick
           \/ VerifierPasses \/ UNCHANGED vars
    PROVE  Quiet
  <1>0. /\ call \in [Callers -> Calls] /\ recs \in [Records -> RecordTypes]
        /\ crashes \in Nat
    BY DeliveryAssumption DEF TypeInv, TypeOK, RecordTypes
  <1>u. ASSUME UNCHANGED <<recs, branch, crashes, call>>, dir' = "present" => dir = "present"
        PROVE  Quiet
    BY <1>0, <1>u DEF Quiet, QuietCall
  <1>1. CASE \E c \in Callers : PullRequest(c)
    BY <1>1, <1>u DEF PullRequest, CreatePR, UpdatePR, gitVars
  <1>2. ASSUME NEW c \in Callers, Move(c) PROVE Quiet
    <2>1. UNCHANGED <<recs, branch, dir, crashes>>
      BY <1>2 DEF Move, MoveFeature, MoveBug, CountRework, SendBack, CloseBug, gitVars
    <2>2. \A d \in Callers : QuietCall(d)
      <3>1. CASE UNCHANGED call
        BY <3>1 DEF QuietCall
      <3>2. ASSUME NEW x \in Calls, call' = [call EXCEPT ![c] = x], call[c].at # "save",
                   x.at = "rework" \/ (x.at = "add" /\ ActiveRecords = {})
            PROVE  \A d \in Callers : QuietCall(d)
        BY <1>0, <3>2, TakesUp DEF QuietCall
      <3>3. CASE SendBack(c)
        BY <1>0, <3>3, Ends DEF SendBack, QuietCall
      <3>4. CASE MoveBug(c)
        <4>1. \/ UNCHANGED call
              \/ call' = [call EXCEPT ![c] = [at |-> "add"]] /\ ActiveRecords = {} /\ ~ Busy(c)
          BY <3>4 DEF MoveBug
        <4> QED
          BY <4>1, <3>1, <3>2 DEF Busy, Calls
      <3>5. CASE CountRework(c)
        <4>1. UNCHANGED call \/ (call' = [call EXCEPT ![c] = [at |-> "rework"]] /\ ~ Busy(c))
          BY <3>5 DEF CountRework
        <4> QED
          BY <4>1, <3>1, <3>2 DEF Busy, Calls
      <3> QED
        BY <1>2, <3>1, <3>3, <3>4, <3>5 DEF Move, MoveFeature, CloseBug
    <2> QED
      BY <1>0, <2>1, <2>2 DEF Quiet
  <1>3. ASSUME NEW c \in Callers, Crash(c) PROVE Quiet
    <2>1. call'[c].at = "idle" /\ \A d \in Callers \ {c} : call'[d] = call[d]
      BY <1>0, <1>3, Ends DEF Crash
    <2> QED
      BY <1>0, <1>3, <2>1 DEF Crash, Quiet, QuietCall, gitVars
  <1>4. CASE CommitWork \/ Edit \/ DirectoryDeleted \/ WorkRecorded \/ ClosePR
               \/ VerifierPasses \/ UNCHANGED vars
    BY <1>4, <1>u
       DEF CommitWork, Edit, DirectoryDeleted, WorkRecorded, ClosePR, VerifierPasses, vars, gitVars
  <1>5. CASE Tick
    <2>1. UNCHANGED <<branch, dir, crashes, call>>
      BY <1>5 DEF Tick, gitVars
    <2> QED
      BY <1>0, <1>5, <2>1, TicksRecords DEF Quiet, QuietCall
  <1> QED
    BY <1>1, <1>2, <1>3, <1>4, <1>5

LEMMA StepCases ==
    ASSUME TypeInv, [Next]_vars
    PROVE  \/ Quiet
           \/ \E c \in Callers :
                 \/ WriteMerged(c) \/ MergeDeletes(c)
                 \/ UpdateCompares(c) \/ UpdateWrites(c)
                 \/ CreateAdd(c) /\ CanAddWorktree
                 \/ CreateSave(c) \/ DeleteRecord(c) \/ Gc(c) \/ CleanupBranch(c)
  BY QuietMerge, QuietWorktree, QuietOthers DEF Next

-----------------------------------------------------------------------------
(* Every directory has a record. *)

(* The record of every call under way has been written once, so its id is   *)
(* not free: a creation never writes a record that another call is about to *)
(* delete.  A directory on disk has a creation at work on its record, or a  *)
(* record on file that no call is taking away.                              *)
HeldWereWritten ==
    \A c \in Callers : call[c].at \in HoldingSteps => recs[call[c].rec].project # "unused"
KnownWereWritten == \A r \in KnownRecords : recs[r].project # "unused"

TakesAway(c, r) == call[c].at \in {"unbranch", "forget"} /\ call[c].rec = r
DirectoryOwned ==
    crashes = 0 /\ dir = "present" =>
       \/ \E c \in Callers : call[c].at = "save"
       \/ \E r \in KnownRecords : \A c \in Callers : ~ TakesAway(c, r)

OwnInv == HeldWereWritten /\ KnownWereWritten /\ DirectoryOwned

LEMMA InitOwned == Init => OwnInv
  <1> SUFFICES ASSUME Init PROVE OwnInv
    OBVIOUS
  <1>1. PICK w \in Workloads :
           /\ dir = IF w.started THEN "present" ELSE "absent"
           /\ recs = [r \in Records |->
                        IF w.started /\ r = CHOOSE s \in Records : TRUE
                        THEN [st |-> "active", due |-> 0, project |-> NewProject] ELSE NoRecord]
    BY DEF Init
  <1>2. \A c \in Callers : call[c].at = "idle"
    BY DEF Init, Idle
  <1>3. HeldWereWritten
    BY <1>2 DEF HeldWereWritten, HoldingSteps, MergeSteps
  <1>4. KnownWereWritten
    BY <1>1, NewIsProject DEF KnownWereWritten, KnownRecords, NoRecord
  <1>5. ASSUME dir = "present" PROVE \E r \in KnownRecords : TRUE
    <2>1. w.started /\ (CHOOSE s \in Records : TRUE) \in Records
      BY <1>1, <1>5, DeliveryAssumption
    <2> QED
      BY <1>1, <2>1 DEF KnownRecords
  <1>6. DirectoryOwned
    BY <1>2, <1>5 DEF DirectoryOwned, TakesAway
  <1> QED
    BY <1>3, <1>4, <1>6 DEF OwnInv

LEMMA QuietOwned == ASSUME TypeInv, OwnInv, Quiet PROVE OwnInv'
  <1>0. /\ call \in [Callers -> Calls] /\ recs \in [Records -> RecordTypes]
        /\ crashes \in Nat /\ crashes' >= crashes
    BY DeliveryAssumption DEF TypeInv, TypeOK, RecordTypes, Quiet
  <1>1. KnownRecords' = KnownRecords
    BY DEF Quiet, KnownRecords
  <1>2. \A c \in Callers : call[c].at \in HoldingSteps => call[c].rec \in Records
    BY <1>0, CallHolds DEF HoldingSteps
  <1>3. HeldWereWritten'
    <2> SUFFICES ASSUME NEW c \in Callers, call'[c].at \in HoldingSteps
                 PROVE  recs'[call'[c].rec].project # "unused"
      BY DEF HeldWereWritten
    <2>1. CASE call'[c] = call[c]
      BY <1>2, <2>1 DEF OwnInv, HeldWereWritten, Quiet
    <2>2. CASE Knows(c)
      BY <1>2, <2>2 DEF OwnInv, HeldWereWritten, KnownWereWritten, Quiet, Knows, KnownRecords
    <2> QED
      BY <2>1, <2>2 DEF Quiet, QuietCall, HoldingSteps, MergeSteps
  <1>4. KnownWereWritten'
    BY <1>1 DEF OwnInv, KnownWereWritten, Quiet, KnownRecords
  <1>5. DirectoryOwned'
    <2> SUFFICES ASSUME crashes' = 0, dir' = "present"
                 PROVE  \/ \E c \in Callers : call'[c].at = "save"
                        \/ \E r \in KnownRecords : \A c \in Callers : ~ TakesAway(c, r)'
      BY <1>1 DEF DirectoryOwned
    <2>1. crashes = 0 /\ dir = "present"
      BY <1>0 DEF Quiet
    <2>2. \A c \in Callers : QuietCall(c)
      BY DEF Quiet
    <2>3. CASE \E c \in Callers : call[c].at = "save"
      BY <2>2, <2>3 DEF QuietCall
    <2>4. ASSUME NEW r \in KnownRecords, \A c \in Callers : ~ TakesAway(c, r)
          PROVE  \A c \in Callers : ~ TakesAway(c, r)'
      BY <2>2, <2>4 DEF QuietCall, TakesAway, MergeSteps
    <2> QED
      BY <2>1, <2>3, <2>4 DEF OwnInv, DirectoryOwned
  <1> QED
    BY <1>3, <1>4, <1>5 DEF OwnInv

LEMMA StepOwned == ASSUME TypeInv, OwnInv, [Next]_vars PROVE OwnInv'
  <1>0. /\ call \in [Callers -> Calls] /\ recs \in [Records -> RecordTypes]
        /\ crashes \in Nat
    BY DeliveryAssumption DEF TypeInv, TypeOK, RecordTypes
  <1>h. \A c \in Callers : call[c].at \in HoldingSteps => call[c].rec \in Records
    BY <1>0, CallHolds DEF HoldingSteps
  (* A caller that goes on with its record, or ends, while records stay.    *)
  <1>s. ASSUME NEW c \in Callers, \A d \in Callers \ {c} : call'[d] = call[d],
               \/ call'[c].at \in {"idle", "save"}
               \/ call[c].at \in HoldingSteps /\ call'[c].rec = call[c].rec,
               \A r \in Records : recs[r].project # "unused" => recs'[r].project # "unused"
        PROVE  HeldWereWritten'
    <2> SUFFICES ASSUME NEW d \in Callers, call'[d].at \in HoldingSteps
                 PROVE  recs'[call'[d].rec].project # "unused"
      BY DEF HeldWereWritten
    <2>1. call[d].at \in HoldingSteps /\ call'[d].rec = call[d].rec
      BY <1>s DEF HoldingSteps, MergeSteps
    <2>2. recs[call[d].rec].project # "unused" /\ call[d].rec \in Records
      BY <1>h, <2>1 DEF OwnInv, HeldWereWritten
    <2> QED
      BY <1>0, <1>s, <2>1, <2>2 DEF RecordTypes
  (* A record is written over by a call that holds it, and ends or goes on.  *)
  <1>w. ASSUME NEW c \in Callers, \A d \in Callers \ {c} : call'[d] = call[d],
               call[c].at \in {"stamp", "rewrite"},
               call'[c].at \in {"idle", "delete"}, call'[c].at = "delete" => call'[c].rec = call[c].rec,
               UNCHANGED <<dir, crashes>>,
               NEW st \in {"active", "merged"}, NEW due \in Nat, NEW project \in GraphProjects,
               Written(call[c].rec, st, due, project)
        PROVE  OwnInv'
    <2>1. call[c].at \in HoldingSteps /\ call[c].rec \in Records
      BY <1>h, <1>w DEF HoldingSteps, MergeSteps
    <2>2. /\ recs'[call[c].rec].st = st /\ recs'[call[c].rec].project = project
          /\ \A s \in Records \ {call[c].rec} : recs'[s] = recs[s]
      BY <1>0, <1>w, <2>1, WritesRecord
    <2>3. project # "unused"
      BY DeliveryAssumption
    <2>4. HeldWereWritten'
      BY <1>s, <1>w, <2>1, <2>2, <2>3
    <2>5. KnownWereWritten'
      BY <2>2, <2>3 DEF OwnInv, KnownWereWritten, KnownRecords
    <2>6. KnownRecords \subseteq KnownRecords'
      BY <2>1, <2>2 DEF KnownRecords
    <2>7. DirectoryOwned'
      BY <1>w, <2>6 DEF OwnInv, DirectoryOwned, TakesAway
    <2> QED
      BY <2>4, <2>5, <2>7 DEF OwnInv
  <1>1. ASSUME NEW c \in Callers, WriteMerged(c) PROVE OwnInv'
    <2>1. call[c].at = "stamp" /\ UNCHANGED <<dir, crashes>> /\ call[c].project \in GraphProjects
      BY <1>0, <1>1, CallHolds DEF WriteMerged, gitVars, MergeSteps
    <2>2. /\ \A d \in Callers \ {c} : call'[d] = call[d]
          /\ call'[c].at = "delete" /\ call'[c].rec = call[c].rec
      BY <1>0, <1>1, <2>1, GoesOn DEF WriteMerged, MergeSteps
    <2>3. Written(call[c].rec, "merged", GracePeriod, call[c].project) /\ GracePeriod \in Nat
      BY <1>1, DeliveryAssumption DEF WriteMerged
    <2> QED
      BY <2>1, <2>2, <2>3, <1>w
  <1>7. ASSUME NEW c \in Callers, UpdateCompares(c) PROVE OwnInv'
    <2>1. call[c].at = "update" /\ UNCHANGED <<recs, dir, crashes>>
      BY <1>7 DEF UpdateCompares, gitVars
    <2>2. /\ \A d \in Callers \ {c} : call'[d] = call[d]
          /\ call'[c].at = "idle" \/ (call'[c].at = "rewrite" /\ call'[c].rec = call[c].rec)
      BY <1>0, <1>7 DEF UpdateCompares, Idle
    <2>3. HeldWereWritten'
      BY <1>s, <2>1, <2>2 DEF HoldingSteps
    <2>4. KnownWereWritten'
      BY <2>1 DEF OwnInv, KnownWereWritten, KnownRecords
    <2>5. DirectoryOwned'
      BY <2>1, <2>2 DEF OwnInv, DirectoryOwned, TakesAway, KnownRecords
    <2> QED
      BY <2>3, <2>4, <2>5 DEF OwnInv
  <1>8. ASSUME NEW c \in Callers, UpdateWrites(c) PROVE OwnInv'
    <2>1. call[c].at = "rewrite" /\ UNCHANGED <<dir, crashes>> /\ call[c].next \in GraphProjects
      BY <1>0, <1>8, CallHolds DEF UpdateWrites, gitVars
    <2>2. call'[c].at = "idle" /\ \A d \in Callers \ {c} : call'[d] = call[d]
      BY <1>0, <1>8, Ends DEF UpdateWrites
    <2>3. Written(call[c].rec, "active", 0, call[c].next)
      BY <1>8 DEF UpdateWrites
    <2> QED
      BY <2>1, <2>2, <2>3, <1>w
  <1>2. ASSUME NEW c \in Callers, MergeDeletes(c) \/ CleanupBranch(c) PROVE OwnInv'
    <2>1. UNCHANGED <<recs, dir, crashes>>
      BY <1>2 DEF MergeDeletes, CleanupBranch
    <2>2. /\ call[c].at \in {"delete", "unbranch"}
          /\ \A d \in Callers \ {c} : call'[d] = call[d]
          /\ \/ call'[c].at = "idle"
             \/ call[c].at = "delete" /\ call'[c].at = "advance" /\ call'[c].rec = call[c].rec
             \/ call[c].at = "unbranch" /\ call'[c].at = "forget" /\ call'[c].rec = call[c].rec
      <3>1. CASE End(c)
        BY <1>0, <1>2, <3>1, Ends DEF MergeDeletes, CleanupBranch
      <3>2. CASE call[c].at = "delete" /\ Go(c, "advance")
        BY <1>0, <3>2, GoesOn DEF MergeSteps
      <3>3. CASE call[c].at = "unbranch" /\ Go(c, "forget")
        BY <1>0, <3>3, GoesOn
      <3> QED
        BY <1>2, <3>1, <3>2, <3>3, Zenon DEF MergeDeletes, CleanupBranch
    <2>3. HeldWereWritten'
      BY <1>0, <1>s, <2>1, <2>2 DEF HoldingSteps, MergeSteps, RecordTypes
    <2>4. KnownWereWritten'
      BY <2>1 DEF OwnInv, KnownWereWritten, KnownRecords
    <2>5. DirectoryOwned'
      BY <2>1, <2>2 DEF OwnInv, DirectoryOwned, TakesAway, KnownRecords
    <2> QED
      BY <2>3, <2>4, <2>5 DEF OwnInv
  <1>3. ASSUME NEW c \in Callers, CreateAdd(c), CanAddWorktree PROVE OwnInv'
    <2>1. UNCHANGED recs
      BY <1>3 DEF CreateAdd
    <2>2. call'[c].at = "save" /\ \A d \in Callers \ {c} : call'[d] = call[d]
      BY <1>0, <1>3, GoesOn DEF CreateAdd
    <2>3. HeldWereWritten'
      BY <1>0, <1>s, <2>1, <2>2 DEF RecordTypes
    <2> QED
      BY <2>1, <2>2, <2>3 DEF OwnInv, KnownWereWritten, KnownRecords, DirectoryOwned
  <1>4. ASSUME NEW c \in Callers, CreateSave(c) PROVE OwnInv'
    <2>1. call'[c].at = "idle" /\ \A d \in Callers \ {c} : call'[d] = call[d]
      BY <1>0, <1>4, Ends DEF CreateSave
    <2>2. CASE dir' = "absent" /\ UNCHANGED recs
      <3>1. HeldWereWritten'
        BY <1>0, <1>s, <2>1, <2>2 DEF RecordTypes
      <3> QED
        BY <2>2, <3>1 DEF OwnInv, KnownWereWritten, KnownRecords, DirectoryOwned
    <2>3. CASE FreeIds # {} /\ Written(CHOOSE r \in FreeIds : TRUE, "active", 0, NewProject)
      <3>0. PICK r \in FreeIds : Written(r, "active", 0, NewProject)
        BY <2>3
      <3>1. r \in Records /\ recs[r].project = "unused"
        BY DEF FreeIds, NoRecord
      <3>2. Written(r, "active", 0, NewProject)
        BY <3>0
      <3>3. /\ recs'[r].st = "active" /\ recs'[r].project # "unused"
            /\ \A s \in Records \ {r} : recs'[s] = recs[s]
        BY <1>0, <3>1, <3>2, NewIsProject, WritesRecord
      <3>4. HeldWereWritten'
        BY <1>0, <1>s, <2>1, <3>1, <3>3 DEF RecordTypes
      <3>5. KnownWereWritten'
        BY <1>0, <3>3 DEF OwnInv, KnownWereWritten, KnownRecords, RecordTypes
      <3>6. \A d \in Callers : ~ TakesAway(d, r)'
        BY <2>1, <3>1 DEF OwnInv, HeldWereWritten, TakesAway, HoldingSteps
      <3>7. r \in KnownRecords'
        BY <3>1, <3>3 DEF KnownRecords
      <3> QED
        BY <3>4, <3>5, <3>6, <3>7 DEF OwnInv, DirectoryOwned
    <2> QED
      BY <1>4, <2>2, <2>3 DEF CreateSave
  <1>5. ASSUME NEW c \in Callers, DeleteRecord(c) PROVE OwnInv'
    <2>1. call[c].at = "forget" /\ call[c].rec \in Records /\ UNCHANGED <<dir, crashes>>
      BY <1>5, <1>h DEF DeleteRecord, gitVars, HoldingSteps
    <2>2. call'[c].at = "idle" /\ \A d \in Callers \ {c} : call'[d] = call[d]
      BY <1>0, <1>5, Ends DEF DeleteRecord
    <2>3. /\ recs'[call[c].rec].st = "none" 
          /\ recs[call[c].rec].project # "unused" => recs'[call[c].rec].project # "unused"
          /\ \A s \in Records \ {call[c].rec} : recs'[s] = recs[s]
      BY <1>0, <1>5, <2>1, DeletesRecords DEF DeleteRecord
    <2>4. HeldWereWritten'
      BY <1>0, <1>s, <2>1, <2>2, <2>3 DEF RecordTypes
    <2>5. KnownWereWritten'
      BY <2>1, <2>3 DEF OwnInv, KnownWereWritten, KnownRecords
    <2>6. DirectoryOwned'
      <3>1. \A r \in KnownRecords : ~ TakesAway(c, r) => r \in KnownRecords'
        BY <2>1, <2>3 DEF KnownRecords, TakesAway
      <3>2. \A d \in Callers : call[d].at = "save" => call'[d].at = "save"
        BY <2>1, <2>2
      <3>3. \A d \in Callers : \A r \in KnownRecords : TakesAway(d, r)' => TakesAway(d, r)
        BY <2>2 DEF TakesAway
      <3> QED
        BY <2>1, <3>1, <3>2, <3>3 DEF OwnInv, DirectoryOwned
    <2> QED
      BY <2>4, <2>5, <2>6 DEF OwnInv
  <1>6. ASSUME NEW c \in Callers, Gc(c) PROVE OwnInv'
    <2>1. dir # "present" /\ UNCHANGED <<dir, call>>
      BY <1>6 DEF Gc, gitVars
    <2>2. \A r \in Records : /\ recs'[r].st = "none"
                             /\ recs[r].project # "unused" => recs'[r].project # "unused"
      BY <1>0, <1>6, DeletesRecords DEF Gc
    <2>3. HeldWereWritten'
      BY <1>h, <2>1, <2>2 DEF OwnInv, HeldWereWritten
    <2> QED
      BY <2>1, <2>2, <2>3 DEF OwnInv, KnownWereWritten, KnownRecords, DirectoryOwned
  <1> QED
    BY <1>1, <1>2, <1>3, <1>4, <1>5, <1>6, <1>7, <1>8, QuietOwned, StepCases

(* A directory on disk, with no call under way, belongs to a record on      *)
(* file, unless a process died: a record that cannot be saved takes its     *)
(* directory back, every removal takes the directory before the record, and *)
(* no removal under way holds a record that is new.                         *)
THEOREM NoDirectoryIsOrphaned == Spec => []NoOrphanDirectory
  <1>1. TypeInv /\ OwnInv /\ [Next]_vars => OwnInv'
    BY StepOwned
  <1>2. OwnInv => NoOrphanDirectory
    <2> SUFFICES ASSUME OwnInv, crashes = 0, dir = "present", \A c \in Callers : ~ Busy(c)
                 PROVE  KnownRecords # {}
      BY DEF NoOrphanDirectory
    <2>1. \A c \in Callers : call[c].at # "save"
      BY DEF Busy
    <2> QED
      BY <2>1 DEF OwnInv, DirectoryOwned
  <1> QED
    BY <1>1, <1>2, InitOwned, TypesHold, PTL DEF Spec

-----------------------------------------------------------------------------
(* One active worktree. *)

(* A creation that is about to ask git finds the branch taken whenever      *)
(* another creation has got further or a record is active already; one      *)
(* that is about to save is alone in that.                                  *)
AddsMeetTheBranch ==
    \A c \in Callers :
       /\ call[c].at = "add"
       /\ ActiveRecords # {} \/ \E d \in Callers : call[d].at = "save"
       => branch
SaversAreAlone ==
    \A c \in Callers : call[c].at = "save" =>
       /\ ActiveRecords = {} /\ branch
       /\ \A d \in Callers : call[d].at = "save" => d = c

(* An update that is about to write found the record as it had read it.     *)
UpdatesFoundActive == \A c \in Callers : call[c].at = "rewrite" => call[c].found = "active"

OneInv == OneActive /\ AddsMeetTheBranch /\ SaversAreAlone /\ UpdatesFoundActive

LEMMA InitOne == Init => OneInv
  <1> SUFFICES ASSUME Init PROVE OneInv
    OBVIOUS
  <1>1. \A c \in Callers : call[c].at = "idle"
    BY DEF Init, Idle
  <1>2. \A r \in ActiveRecords : r = CHOOSE s \in Records : TRUE
    <2>1. PICK w \in Workloads :
             recs = [r \in Records |->
                       IF w.started /\ r = CHOOSE s \in Records : TRUE
                       THEN [st |-> "active", due |-> 0, project |-> NewProject] ELSE NoRecord]
      BY DEF Init
    <2> QED
      BY <2>1 DEF ActiveRecords, NoRecord
  <1> QED
    BY <1>1, <1>2 DEF OneInv, OneActive, AddsMeetTheBranch, SaversAreAlone, UpdatesFoundActive

LEMMA StepOne ==
    ASSUME TypeInv, OneInv, BranchesApart, UpdatesApart, [Next]_vars PROVE OneInv'
  <1>0. /\ call \in [Callers -> Calls] /\ recs \in [Records -> RecordTypes]
        /\ crashes \in Nat
    BY DeliveryAssumption DEF TypeInv, TypeOK, RecordTypes
  <1>h. \A c \in Callers : call[c].at \in HoldingSteps => call[c].rec \in Records
    BY <1>0, CallHolds DEF HoldingSteps
  (* No new active record, no new creation about to save.                   *)
  <1>s. ASSUME ActiveRecords' \subseteq ActiveRecords, UNCHANGED branch,
               \A c \in Callers : call'[c].at = "save" => call[c].at = "save",
               \A c \in Callers : call'[c].at = "add" => call[c].at = "add" \/ ActiveRecords = {},
               \A c \in Callers : call'[c].at = "rewrite" =>
                   call'[c] = call[c] \/ call'[c].found = "active"
        PROVE  OneInv'
    <2>1. OneActive'
      BY <1>s DEF OneInv, OneActive
    <2>2. SaversAreAlone'
      BY <1>s DEF OneInv, SaversAreAlone
    <2>3. AddsMeetTheBranch'
      BY <1>s DEF OneInv, SaversAreAlone, AddsMeetTheBranch
    <2>4. UpdatesFoundActive'
      BY <1>s DEF OneInv, UpdatesFoundActive
    <2> QED
      BY <2>1, <2>2, <2>3, <2>4 DEF OneInv
  (* Nobody is creating.                                                    *)
  <1>b. ASSUME ActiveRecords' = ActiveRecords,
               \A c \in Callers : call'[c].at \notin {"add", "save"},
               \A c \in Callers : call'[c].at = "rewrite" => call'[c] = call[c]
        PROVE  OneInv'
    BY <1>b DEF OneInv, OneActive, SaversAreAlone, AddsMeetTheBranch, UpdatesFoundActive
  <1>1. CASE Quiet
    <2>1. ActiveRecords' = ActiveRecords
      BY <1>1 DEF Quiet, ActiveRecords
    <2> QED
      BY <1>1, <2>1, <1>s DEF Quiet, QuietCall, MergeSteps
  <1>2. ASSUME NEW c \in Callers, WriteMerged(c) PROVE OneInv'
    <2>1. /\ call[c].at = "stamp" /\ UNCHANGED branch
          /\ call[c].rec \in Records /\ call[c].project \in GraphProjects
      BY <1>0, <1>2, CallHolds DEF WriteMerged, gitVars, MergeSteps
    <2>2. call'[c].at = "delete" /\ \A d \in Callers \ {c} : call'[d] = call[d]
      BY <1>0, <1>2, <2>1, GoesOn DEF WriteMerged, MergeSteps
    <2>3. Written(call[c].rec, "merged", GracePeriod, call[c].project) /\ GracePeriod \in Nat
      BY <1>2, DeliveryAssumption DEF WriteMerged
    <2>4. /\ recs'[call[c].rec].st = "merged"
          /\ \A s \in Records \ {call[c].rec} : recs'[s] = recs[s]
      BY <1>0, <2>1, <2>3, WritesRecord
    <2>5. ActiveRecords' \subseteq ActiveRecords
      BY <2>4 DEF ActiveRecords
    <2> QED
      BY <2>1, <2>2, <2>5, <1>s
  (* What the hash still agrees with, and is on file, is active.             *)
  <1>7. ASSUME NEW c \in Callers, UpdateCompares(c) PROVE OneInv'
    <2>1. call[c].at = "update" /\ UNCHANGED <<recs, branch>>
      BY <1>7 DEF UpdateCompares, gitVars
    <2>2. recs[call[c].rec].st # "none"
      BY <2>1 DEF UpdatesApart
    <2>3. /\ \A d \in Callers \ {c} : call'[d] = call[d]
          /\ call'[c].at = "idle" \/ (call'[c].at = "rewrite" /\ call'[c].found = "active")
      <3>1. CASE Fresh(call[c].rec, call[c].project)
        <4>1. recs[call[c].rec].st = "active"
          BY <2>2, <3>1 DEF Fresh
        <4>2. call' = [call EXCEPT ![c] = [at |-> "rewrite", rec |-> call[c].rec,
                          next |-> call[c].next, found |-> recs[call[c].rec].st]]
          BY <1>0, <1>7, <3>1 DEF UpdateCompares
        <4> QED
          BY <1>0, <4>1, <4>2
      <3>2. CASE ~ Fresh(call[c].rec, call[c].project)
        BY <1>0, <1>7, <3>2 DEF UpdateCompares, Idle
      <3> QED
        BY <3>1, <3>2
    <2> QED
      BY <2>1, <2>3, <1>s DEF ActiveRecords
  <1>8. ASSUME NEW c \in Callers, UpdateWrites(c) PROVE OneInv'
    <2>1. /\ call[c].at = "rewrite" /\ UNCHANGED branch
          /\ call[c].rec \in Records /\ call[c].next \in GraphProjects
      BY <1>0, <1>8, CallHolds DEF UpdateWrites, gitVars
    <2>2. call'[c].at = "idle" /\ \A d \in Callers \ {c} : call'[d] = call[d]
      BY <1>0, <1>8, Ends DEF UpdateWrites
    <2>3. recs[call[c].rec].st = "active"
      BY <2>1 DEF UpdatesApart, OneInv, UpdatesFoundActive
    <2>4. \A s \in Records \ {call[c].rec} : recs'[s] = recs[s]
      BY <1>0, <1>8, <2>1, WritesRecord DEF UpdateWrites
    <2>5. ActiveRecords' \subseteq ActiveRecords
      BY <2>1, <2>3, <2>4 DEF ActiveRecords
    <2> QED
      BY <2>1, <2>2, <2>5, <1>s
  <1>3. ASSUME NEW c \in Callers, MergeDeletes(c) \/ CleanupBranch(c) PROVE OneInv'
    <2>1. call[c].at \in {"delete", "unbranch"} /\ UNCHANGED recs
      BY <1>3 DEF MergeDeletes, CleanupBranch
    <2>2. /\ \A d \in Callers \ {c} : call'[d] = call[d]
          /\ call'[c].at \in {"idle", "advance", "forget"}
      <3>1. CASE End(c)
        BY <1>0, <3>1, Ends
      <3>2. CASE call[c].at = "delete" /\ Go(c, "advance")
        BY <1>0, <3>2, GoesOn DEF MergeSteps
      <3>3. CASE call[c].at = "unbranch" /\ Go(c, "forget")
        BY <1>0, <3>3, GoesOn
      <3> QED
        BY <1>3, <3>1, <3>2, <3>3, Zenon DEF MergeDeletes, CleanupBranch
    <2>3. \A d \in Callers : call[d].at \notin {"add", "save"}
      BY <2>1 DEF BranchesApart
    <2> QED
      BY <2>1, <2>2, <2>3, <1>b DEF ActiveRecords
  <1>4. ASSUME NEW c \in Callers, CreateAdd(c), CanAddWorktree PROVE OneInv'
    <2>1. call[c].at = "add" /\ ~ branch /\ branch' /\ UNCHANGED recs
      BY <1>4 DEF CreateAdd, CanAddWorktree
    <2>2. call'[c].at = "save" /\ \A d \in Callers \ {c} : call'[d] = call[d]
      BY <1>0, <1>4, GoesOn DEF CreateAdd
    <2>3. ActiveRecords' = {} /\ \A d \in Callers : call[d].at # "save"
      BY <2>1 DEF OneInv, AddsMeetTheBranch, ActiveRecords
    <2> QED
      BY <2>1, <2>2, <2>3
         DEF OneInv, OneActive, SaversAreAlone, AddsMeetTheBranch, UpdatesFoundActive
  <1>5. ASSUME NEW c \in Callers, CreateSave(c) PROVE OneInv'
    <2>1. call[c].at = "save" /\ UNCHANGED branch
      BY <1>5 DEF CreateSave, gitVars
    <2>2. call'[c].at = "idle" /\ \A d \in Callers \ {c} : call'[d] = call[d]
      BY <1>0, <1>5, Ends DEF CreateSave
    <2>3. ActiveRecords = {} /\ branch /\ \A d \in Callers : call'[d].at # "save"
      BY <2>1, <2>2 DEF OneInv, SaversAreAlone
    <2>4. CASE UNCHANGED recs
      BY <2>1, <2>2, <2>4, <1>s DEF ActiveRecords
    <2>5. CASE FreeIds # {} /\ Written(CHOOSE r \in FreeIds : TRUE, "active", 0, NewProject)
      <3>0. PICK r \in FreeIds : Written(r, "active", 0, NewProject)
        BY <2>5
      <3>1. r \in Records
        BY DEF FreeIds
      <3>2. Written(r, "active", 0, NewProject)
        BY <3>0
      <3>3. \A s \in Records \ {r} : recs'[s] = recs[s]
        BY <1>0, <3>1, <3>2, NewIsProject, WritesRecord
      <3>4. ActiveRecords' \subseteq {r}
        BY <2>3, <3>3 DEF ActiveRecords
      <3> QED
        BY <2>1, <2>2, <2>3, <3>4
           DEF OneInv, OneActive, SaversAreAlone, AddsMeetTheBranch, UpdatesFoundActive
    <2> QED
      BY <1>5, <2>4, <2>5 DEF CreateSave
  <1>6. ASSUME NEW c \in Callers, DeleteRecord(c) \/ Gc(c) PROVE OneInv'
    <2>1. UNCHANGED branch
      BY <1>6 DEF DeleteRecord, Gc, gitVars
    <2>2. /\ \A d \in Callers : call'[d] = call[d] \/ call'[d].at = "idle"
          /\ ActiveRecords' \subseteq ActiveRecords
      <3>1. CASE DeleteRecord(c)
        <4>1. call[c].rec \in Records
          BY <1>h, <3>1 DEF DeleteRecord, HoldingSteps
        <4>2. /\ recs'[call[c].rec].st = "none"
              /\ \A s \in Records \ {call[c].rec} : recs'[s] = recs[s]
          BY <1>0, <3>1, <4>1, DeletesRecords DEF DeleteRecord
        <4>3. call'[c].at = "idle" /\ \A d \in Callers \ {c} : call'[d] = call[d]
          BY <1>0, <3>1, Ends DEF DeleteRecord
        <4> QED
          BY <4>1, <4>2, <4>3 DEF ActiveRecords
      <3>2. CASE Gc(c)
        BY <1>0, <3>2, DeletesRecords DEF Gc, ActiveRecords
      <3> QED
        BY <1>6, <3>1, <3>2
    <2> QED
      BY <2>1, <2>2, <1>s
  <1> QED
    BY <1>1, <1>2, <1>3, <1>4, <1>5, <1>6, <1>7, <1>8, StepCases

(* An entity has one active worktree, for any number of sessions and        *)
(* records, and whatever merges, updates, removals, command-line cleanups,  *)
(* failed saves and crashes come between, as long as no call is about to    *)
(* delete the branch while another is creating, and no record is removed    *)
(* from under an update.                                                    *)
THEOREM OneActiveWorktree == Spec => AtMostOneActive
  <1>1. TypeInv /\ OneInv /\ BranchesApart /\ UpdatesApart /\ [Next]_vars => OneInv'
    BY StepOne
  <1>2. OneInv => OneActive
    BY DEF OneInv
  <1> QED
    BY <1>1, <1>2, InitOne, TypesHold, PTL DEF Spec, AtMostOneActive
=============================================================================
