------------------------------ MODULE Records ------------------------------
(***************************************************************************)
(* Plans, batches, features and the records around them: how they get      *)
(* their numbers, how they are moved, renamed and closed, and the calls    *)
(* that need more than one write.                                          *)
(*                                                                         *)
(* A write of a batch or plan carries no hash: it puts back the whole      *)
(* record as it was loaded, so a load and its write are two steps.  A      *)
(* write of a feature or task compares the hash of the file it was loaded  *)
(* from, so a load and write of one file is a step, and a call of several  *)
(* writes is several.  calls[w] is the call that worker w, a process or a  *)
(* handler of the server, has under way; it may die between any two steps. *)
(***************************************************************************)
EXTENDS Lifecycle, Naturals, Sequences, SequencesExt, TLC

CONSTANTS
    RecordScenes, \* [does, workers, plans, features, given]: the calls made, how
                  \* many at a time, bounds on what is created, where they start
                  \* and the statuses and slugs that are asked for
    Slugs,        \* the names of files
    ReviewCap,    \* the reviews after which a feature is not sent back again
    MaxSeq        \* bound on the numbers used in a plan, and on overrides

(* What the variables hold.  A plan counts its features from 1 in next.     *)
PlanRecords ==
    [pre : {"B", "P"}, no : Nat, slug : Slugs, next : Nat, parent : Nat, overrides : Nat,
     st : KnownStates("batch") \cup KnownStates("strategic-plan")]
Numbers == {"B", "P"} \X Nat \X Nat
Contents == [parent : Nat, number : Numbers, st : KnownStates("feature"), cycle : Nat,
             overrides : Nat, blocked : BOOLEAN]
NoFile == [st |-> "none"]
Rows == [slug : {"none"}] \cup [slug : Slugs, c : Contents]
FeatureRecords == [file : [Slugs -> Contents \cup {NoFile}], row : Rows]
CheckpointRecords == [st : {"pending", "responded"}, feature : Nat]
TaskRecords == [st : KnownStates("task"), summary : BOOLEAN]

ASSUME RecordsAssumption ==
    /\ "none" \notin Slugs
    /\ ReviewCap \in Nat /\ MaxSeq \in Nat
    /\ \A x \in RecordScenes :
          /\ DOMAIN x = {"does", "workers", "plans", "features", "given"}
          /\ x.workers \in Nat /\ x.plans \in Nat /\ x.features \in Nat
          /\ x.given.plans \in Seq(PlanRecords)
          /\ x.given.features \in Seq(FeatureRecords)
          /\ x.given.tasks \in Seq(TaskRecords)
          /\ x.given.slugs \subseteq Slugs

VARIABLES
    rscene,      \* one of RecordScenes
    plans,       \* batches (prefix B) and strategic plans (prefix P)
    feats,       \* features: [file, row], row what the cache says
    tasks,       \* [st, summary]
    incidents,   \* incidents and decisions: [kind, st, bugs], bugs as they were written
    bugs,        \* bug id -> the report, one of Slugs
    checkpoints, \* [st, feature]
    seqdb,       \* plan -> the last number the coordination database gave it
    calls,       \* worker -> the call it is in
    told         \* what callers were told: [reviews, overrides, cut]

rvars == <<rscene, plans, feats, tasks, incidents, bugs, checkpoints, seqdb, calls, told>>

Does(name) == name \in rscene.does
Workers == 1..rscene.workers
NoCall == [op |-> "none"]
Free(w) == calls[w] = NoCall
AtRest == \A w \in Workers : Free(w)
To(w, c) == calls' = [calls EXCEPT ![w] = c]
Over(w) == To(w, NoCall)
Put(g, x, v) == [y \in DOMAIN g \cup {x} |-> IF y = x THEN v ELSE g[y]]

(* A call that gives up between its writes. *)
Cut(w) == /\ Over(w)
          /\ told' = [told EXCEPT !.cut = TRUE]

Kind(p) == IF plans[p].pre = "P" THEN "strategic-plan" ELSE "batch"
Slugged(f) == {s \in Slugs : feats[f].file[s] # NoFile}

(* An id is looked for among the names of the files, where it must not be   *)
(* ambiguous; a read, or a call by the feature's number, asks the cache    *)
(* first.                                                                  *)
ResolvePrefix(f) == IF Cardinality(Slugged(f)) = 1 THEN Slugged(f) ELSE {}
Located(f) ==
    IF feats[f].row.slug \in Slugged(f) THEN {feats[f].row.slug} ELSE ResolvePrefix(f)

(* List: the cache is warm, and every feature it has a row of is listed.   *)
Listed(p) == {f \in DOMAIN feats : /\ feats[f].row.slug # "none"
                                   /\ feats[f].row.c.parent = p}

(* The feature a number is resolved to by a server, whose cache is warm,    *)
(* and by a command, which reads the files.                                *)
ResolveFeatureDisplayID(n) ==
    {f \in DOMAIN feats : feats[f].row.slug # "none" /\ feats[f].row.c.number = n}
ScanForDisplayID(n) ==
    {f \in DOMAIN feats : \E s \in Slugged(f) : feats[f].file[s].number = n}

WithFile(f, s, c) == [feats EXCEPT ![f].file[s] = c]
WithRow(f, s, c) == [feats EXCEPT ![f].file[s] = c, ![f].row = [slug |-> s, c |-> c]]

-----------------------------------------------------------------------------
(* Numbers. *)

MaxOf(S) == CHOOSE x \in S \cup {0} : \A y \in S : y <= x
NextPlanNumber(pre) == 1 + MaxOf({plans[p].no : p \in {q \in DOMAIN plans : plans[q].pre = pre}})

NewPlan(pre, no, slug) ==
    [pre |-> pre, no |-> no, slug |-> slug, next |-> 1, parent |-> 0, overrides |-> 0,
     st |-> EntryState(IF pre = "P" THEN "strategic-plan" ELSE "batch")]

PlanNumbered(w, pre, slug) ==
    /\ Does("plan") /\ Free(w)
    /\ Len(plans) < rscene.plans
    /\ To(w, [op |-> "plan", new |-> NewPlan(pre, NextPlanNumber(pre), slug)])
    /\ UNCHANGED <<rscene, plans, feats, tasks, incidents, bugs, checkpoints, seqdb, told>>

(* A plan of the same number and slug is the same file. *)
PlanCreated(w) ==
    /\ calls[w].op = "plan"
    /\ LET n == calls[w].new
           same == {p \in DOMAIN plans : /\ plans[p].pre = n.pre /\ plans[p].no = n.no
                                         /\ plans[p].slug = n.slug} IN
       plans' = IF same = {} THEN Append(plans, n)
                ELSE [p \in DOMAIN plans |-> IF p \in same THEN n ELSE plans[p]]
    /\ Over(w)
    /\ UNCHANGED <<rscene, feats, tasks, incidents, bugs, checkpoints, seqdb, told>>

(* The row of a plan is there from its first number on. *)
Allocated(p) == IF p \in DOMAIN seqdb THEN seqdb[p] ELSE 0
AllocateFeatureSeq(p) == Allocated(p) + 1

(* The number comes from the database if there is one, from the parent's    *)
(* own counter if there is none or it fails.                               *)
FeatureNumbered(w, p) ==
    /\ Does("create") /\ Free(w)
    /\ Len(feats) < rscene.features
    /\ plans[p].next <= MaxSeq /\ Allocated(p) < MaxSeq
    /\ \E db \in (IF Does("database") THEN {TRUE} ELSE {FALSE})
                 \cup (IF Does("database fails") THEN {FALSE} ELSE {}) :
         LET seq == IF db THEN AllocateFeatureSeq(p) ELSE plans[p].next IN
         /\ seqdb' = IF db THEN Put(seqdb, p, seq) ELSE seqdb
         /\ To(w, [op |-> "create", step |-> "count", plan |-> p, seq |-> seq,
                   new |-> [plans[p] EXCEPT !.next = seq + 1]])
    /\ UNCHANGED <<rscene, plans, feats, tasks, incidents, bugs, checkpoints, told>>

(* The parent is written before the feature, so that a number is not used   *)
(* twice; with a refused name, or a crash, it is used by none.              *)
ParentCountsUnbumped(w) ==
    /\ calls[w].op \in {"create", "move"} /\ calls[w].step = "count"
    /\ plans' = [plans EXCEPT ![calls[w].plan] = [calls[w].new EXCEPT !.next = @ - 1]]
    /\ To(w, [calls[w] EXCEPT !.step = "write"])
    /\ UNCHANGED <<rscene, feats, tasks, incidents, bugs, checkpoints, seqdb, told>>
ParentCounts(w) ==
    /\ calls[w].op \in {"create", "move"} /\ calls[w].step = "count"
    /\ plans' = [plans EXCEPT ![calls[w].plan] = calls[w].new]
    /\ To(w, [calls[w] EXCEPT !.step = "write"])
    /\ UNCHANGED <<rscene, feats, tasks, incidents, bugs, checkpoints, seqdb, told>>

NewFeature(p, number) ==
    [parent |-> p, number |-> number, st |-> EntryState("feature"), cycle |-> 0,
     overrides |-> 0, blocked |-> FALSE]

FeatureWritten(w, s) ==
    /\ calls[w].op = "create" /\ calls[w].step = "write"
    /\ LET p == plans[calls[w].plan]
           c == NewFeature(calls[w].plan, <<p.pre, p.no, calls[w].seq>>) IN
       feats' = Append(feats, [file |-> [t \in Slugs |-> IF t = s THEN c ELSE NoFile],
                               row |-> [slug |-> "none"]])
    /\ told' = [told EXCEPT !.reviews = Append(@, 0), !.overrides = Append(@, 0)]
    /\ To(w, [op |-> "create", step |-> "row", f |-> Len(feats) + 1, slug |-> s])
    /\ UNCHANGED <<rscene, plans, tasks, incidents, bugs, checkpoints, seqdb>>

FeatureRefused(w) ==
    /\ calls[w].op = "create" /\ calls[w].step = "write"
    /\ Over(w)
    /\ UNCHANGED <<rscene, plans, feats, tasks, incidents, bugs, checkpoints, seqdb, told>>

FeatureCached(w) ==
    /\ calls[w].op = "create" /\ calls[w].step = "row"
    /\ LET f == calls[w].f
           s == calls[w].slug IN
       /\ feats[f].file[s] # NoFile
       /\ feats' = WithRow(f, s, feats[f].file[s])
    /\ Over(w)
    /\ UNCHANGED <<rscene, plans, tasks, incidents, bugs, checkpoints, seqdb, told>>

(* kbz move: the number comes from the target's counter, whatever database  *)
(* there is, and is written with a P; no cache hears of it.                *)
MoveNumbered(w, f, p) ==
    /\ Does("move") /\ Free(w)
    /\ plans[p].pre = "B" /\ plans[p].next <= MaxSeq
    /\ \E s \in Slugged(f) :
         /\ feats[f].file[s].parent # p
         /\ To(w, [op |-> "move", step |-> "count", plan |-> p, seq |-> plans[p].next,
                   new |-> [plans[p] EXCEPT !.next = @ + 1], f |-> f, slug |-> s])
    /\ UNCHANGED <<rscene, plans, feats, tasks, incidents, bugs, checkpoints, seqdb, told>>

FeatureReparented(w) ==
    /\ calls[w].op = "move" /\ calls[w].step = "write"
    /\ LET k == calls[w]
           old == feats[k.f].file[k.slug] IN
       IF old = NoFile THEN Cut(w) /\ UNCHANGED feats
       ELSE /\ feats' = WithFile(k.f, k.slug,
                   [old EXCEPT !.parent = k.plan, !.number = <<"P", plans[k.plan].no, k.seq>>])
            /\ Over(w)
            /\ UNCHANGED told
    /\ UNCHANGED <<rscene, plans, tasks, incidents, bugs, checkpoints, seqdb>>

(* A bug's id is new, except that the database gives one slug one id: then  *)
(* the later report replaces the earlier one.                              *)
AllocateID(slug) == IF Does("database") THEN <<slug>> ELSE <<"", Cardinality(DOMAIN bugs) + 1>>

CreateBug(slug, report) ==
    /\ Does("bug")
    /\ bugs' = Put(bugs, AllocateID(slug), report)
    /\ Cardinality(DOMAIN bugs') <= rscene.features
    /\ UNCHANGED <<rscene, plans, feats, tasks, incidents, checkpoints, seqdb, calls, told>>

-----------------------------------------------------------------------------
(* Plans. *)

PostDesigning ==
    {"specifying", "dev-planning", "developing", "reviewing", "done"}
CountPostDesigningFeatures(p) ==
    Cardinality({f \in Listed(p) : feats[f].row.c.st \in PostDesigning})

Moved(p, to) ==
    [plans[p] EXCEPT !.st = to,
        !.overrides = IF plans[p].st = "proposed" /\ to = "active" THEN @ + 1 ELSE @]
PlanMayMove(p, to) ==
    /\ CanTransition(Kind(p), plans[p].st, to)
    /\ (Kind(p) = "batch" /\ plans[p].st = "proposed" /\ to = "active")
           => CountPostDesigningFeatures(p) > 0

UpdatePlanStatus(w, p, to) ==
    /\ Does("plan status") /\ Free(w)
    /\ PlanMayMove(p, to)
    /\ To(w, [op |-> "save", plan |-> p, new |-> Moved(p, to), close |-> FALSE])
    /\ UNCHANGED <<rscene, plans, feats, tasks, incidents, bugs, checkpoints, seqdb, told>>

(* An edit of the texts of a plan; what it loaded is what it writes back.   *)
UpdatePlan(w, p) ==
    /\ Does("plan edit") /\ Free(w)
    /\ To(w, [op |-> "save", plan |-> p, new |-> plans[p], close |-> FALSE])
    /\ UNCHANGED <<rscene, plans, feats, tasks, incidents, bugs, checkpoints, seqdb, told>>

(* Walking up from q one meets p, or a plan already met. *)
Ancestors(q) ==
    LET up[n \in 0..Len(plans)] ==
            IF n = 0 THEN {q} \ {0}
            ELSE up[n - 1] \cup ({plans[r].parent : r \in up[n - 1]} \ {0}) IN
    up[Len(plans)]
DetectStrategicPlanCycleParentOnly(p, q) == p = q
DetectStrategicPlanCycle(p, q) ==
    \/ p \in Ancestors(q)
    \/ \E r \in Ancestors(q) : plans[r].parent # 0 /\ r \in Ancestors(plans[r].parent)

UpdateStrategicPlan(w, p, q) ==
    /\ Does("reparent") /\ Free(w)
    /\ Kind(p) = "strategic-plan"
    /\ q # 0 => Kind(q) = "strategic-plan" /\ ~DetectStrategicPlanCycle(p, q)
    /\ To(w, [op |-> "save", plan |-> p, new |-> [plans[p] EXCEPT !.parent = q], close |-> FALSE])
    /\ UNCHANGED <<rscene, plans, feats, tasks, incidents, bugs, checkpoints, seqdb, told>>

(* A batch all of whose features are finished, one of them done, is closed  *)
(* in two moves.                                                           *)
Finished(st) == st = "done" \/ IsTerminalState("feature", st)
CheckAllFeaturesTerminal(p) ==
    /\ \A f \in Listed(p) : Finished(feats[f].row.c.st)
    /\ \E f \in Listed(p) : feats[f].row.c.st = "done"

MaybeAutoAdvancePlan(w, p) ==
    /\ Does("close") /\ Free(w)
    /\ Kind(p) = "batch" /\ plans[p].st = "active"
    /\ CheckAllFeaturesTerminal(p)
    /\ To(w, [op |-> "save", plan |-> p, new |-> Moved(p, "reviewing"), close |-> TRUE])
    /\ UNCHANGED <<rscene, plans, feats, tasks, incidents, bugs, checkpoints, seqdb, told>>

PlanSavedOnce(w) ==
    /\ calls[w].op = "save"
    /\ plans' = [plans EXCEPT ![calls[w].plan] = calls[w].new]
    /\ Over(w)
    /\ UNCHANGED <<rscene, feats, tasks, incidents, bugs, checkpoints, seqdb, told>>
PlanSaved(w) ==
    /\ calls[w].op = "save"
    /\ plans' = [plans EXCEPT ![calls[w].plan] = calls[w].new]
    /\ IF calls[w].close THEN To(w, [op |-> "close", plan |-> calls[w].plan]) ELSE Over(w)
    /\ UNCHANGED <<rscene, feats, tasks, incidents, bugs, checkpoints, seqdb, told>>

PlanCloses(w) ==
    /\ calls[w].op = "close"
    /\ LET p == calls[w].plan IN
       IF PlanMayMove(p, "done")
       THEN /\ To(w, [op |-> "save", plan |-> p, new |-> Moved(p, "done"), close |-> FALSE])
            /\ UNCHANGED told
       ELSE Cut(w)
    /\ UNCHANGED <<rscene, plans, feats, tasks, incidents, bugs, checkpoints, seqdb>>

-----------------------------------------------------------------------------
(* Features and tasks. *)

(* UpdateEntity with a new slug: the new file, then away with the old one.  *)
(* Only a file that is there is compared with the one that was loaded.     *)
RenameBegins(w, f, s, t) ==
    /\ Does("rename") /\ Free(w)
    /\ s # t
    /\ To(w, [op |-> "rename", step |-> "write", f |-> f, from |-> s, to |-> t,
              c |-> feats[f].file[s]])
    /\ UNCHANGED <<rscene, plans, feats, tasks, incidents, bugs, checkpoints, seqdb, told>>

RenameRemovesFirst(w) ==
    /\ calls[w].op = "rename" /\ calls[w].step = "write"
    /\ feats' = WithFile(calls[w].f, calls[w].from, NoFile)
    /\ To(w, [calls[w] EXCEPT !.step = "remove"])
    /\ UNCHANGED <<rscene, plans, tasks, incidents, bugs, checkpoints, seqdb, told>>
RenameWrites(w) ==
    /\ calls[w].op = "rename" /\ calls[w].step = "write"
    /\ LET k == calls[w] IN
       IF feats[k.f].file[k.to] # NoFile THEN Over(w) /\ UNCHANGED feats
       ELSE /\ feats' = WithFile(k.f, k.to, k.c)
            /\ To(w, [k EXCEPT !.step = "remove"])
    /\ UNCHANGED <<rscene, plans, tasks, incidents, bugs, checkpoints, seqdb, told>>

RenameRemoves(w) ==
    /\ calls[w].op = "rename" /\ calls[w].step = "remove"
    /\ LET k == calls[w] IN
       feats' = [feats EXCEPT ![k.f].file[k.from] = NoFile,
                              ![k.f].row = [slug |-> k.to, c |-> k.c]]
    /\ Over(w)
    /\ UNCHANGED <<rscene, plans, tasks, incidents, bugs, checkpoints, seqdb, told>>

(* A feature is moved; a move to reviewing is counted by a second write.    *)
Transitioned(w, f, s, to) ==
    /\ Does("transition") /\ Free(w)
    /\ CanTransition("feature", feats[f].file[s].st, to)
    /\ ~(to = "needs-rework" /\ feats[f].file[s].cycle >= ReviewCap)
    /\ feats' = WithRow(f, s, [feats[f].file[s] EXCEPT !.st = to])
    /\ IF to = "reviewing"
       THEN /\ told.reviews[f] <= ReviewCap
            /\ told' = [told EXCEPT !.reviews[f] = @ + 1]
            /\ To(w, [op |-> "count", f |-> f])
       ELSE UNCHANGED <<told, calls>>
    /\ UNCHANGED <<rscene, plans, tasks, incidents, bugs, checkpoints, seqdb>>

(* The count is of the record as it is now, and the cache is not told.  A   *)
(* record that cannot be found, or that changes meanwhile, is not counted.  *)
IncrementFeatureReviewCycle(w) ==
    /\ calls[w].op = "count"
    /\ LET f == calls[w].f IN
       \/ /\ \E s \in ResolvePrefix(f) : feats' = [feats EXCEPT ![f].file[s].cycle = @ + 1]
          /\ Over(w)
          /\ UNCHANGED told
       \/ /\ ResolvePrefix(f) = {} \/ rscene.workers > 1
          /\ Cut(w)
          /\ UNCHANGED feats
    /\ UNCHANGED <<rscene, plans, tasks, incidents, bugs, checkpoints, seqdb>>

(* A gate is overridden: the list that was read with the feature, and the   *)
(* new record, replace the list that is there now.                         *)
OverrideBegins(w, f, s) ==
    /\ Does("override") /\ Free(w)
    /\ feats[f].file[s].overrides < MaxSeq
    /\ To(w, [op |-> "override", f |-> f, slug |-> s, list |-> feats[f].file[s].overrides + 1])
    /\ UNCHANGED <<rscene, plans, feats, tasks, incidents, bugs, checkpoints, seqdb, told>>

PersistFeatureOverrides(w) ==
    /\ calls[w].op = "override"
    /\ LET k == calls[w] IN
       IF feats[k.f].file[k.slug] = NoFile THEN Cut(w) /\ UNCHANGED feats
       ELSE /\ feats' = [feats EXCEPT ![k.f].file[k.slug].overrides = k.list]
            /\ told' = [told EXCEPT !.overrides[k.f] = @ + 1]
            /\ Over(w)
    /\ UNCHANGED <<rscene, plans, tasks, incidents, bugs, checkpoints, seqdb>>

(* CompleteTask and finish: the move, then when and how it was completed.   *)
CompleteTask(w, t) ==
    /\ Does("complete") /\ Free(w)
    /\ tasks[t].st = "active"
    /\ \E to \in {"done", "needs-review"} : tasks' = [tasks EXCEPT ![t].st = to]
    /\ To(w, [op |-> "summary", t |-> t])
    /\ UNCHANGED <<rscene, plans, feats, incidents, bugs, checkpoints, seqdb, told>>

CompletionWritten(w) ==
    /\ calls[w].op = "summary"
    /\ \/ /\ tasks' = [tasks EXCEPT ![calls[w].t].summary = TRUE]
          /\ Over(w)
          /\ UNCHANGED told
       \/ /\ rscene.workers > 1
          /\ Cut(w)
          /\ UNCHANGED tasks
    /\ UNCHANGED <<rscene, plans, feats, incidents, bugs, checkpoints, seqdb>>

-----------------------------------------------------------------------------
(* Checkpoints and incidents. *)

(* A feature at its review cap is blocked, and a checkpoint asks what next. *)
(* The checkpoint does not say which feature (0): no caller fills that in.  *)
ReviewCapReached(w, f, s) ==
    /\ Does("cap") /\ Free(w)
    /\ Len(checkpoints) < rscene.features
    /\ feats[f].file[s].st = "reviewing" /\ feats[f].file[s].cycle >= ReviewCap
    /\ feats' = WithFile(f, s, [feats[f].file[s] EXCEPT !.blocked = TRUE])
    /\ To(w, [op |-> "ask", asks |-> 0])
    /\ UNCHANGED <<rscene, plans, tasks, incidents, bugs, checkpoints, seqdb, told>>

CheckpointCreated(w) ==
    /\ calls[w].op = "ask"
    /\ checkpoints' = Append(checkpoints, [st |-> "pending", feature |-> calls[w].asks])
    /\ Over(w)
    /\ UNCHANGED <<rscene, plans, feats, tasks, incidents, bugs, seqdb, told>>

RespondCheckpoint(w, k) ==
    /\ Does("cap") /\ Free(w)
    /\ checkpoints[k].st = "pending"
    /\ checkpoints' = [checkpoints EXCEPT ![k].st = "responded"]
    /\ IF checkpoints[k].feature = 0 THEN UNCHANGED calls
       ELSE To(w, [op |-> "unblock", f |-> checkpoints[k].feature])
    /\ UNCHANGED <<rscene, plans, feats, tasks, incidents, bugs, seqdb, told>>

ClearBlockedReason(w) ==
    /\ calls[w].op = "unblock"
    /\ \E s \in ResolvePrefix(calls[w].f) :
         feats' = [feats EXCEPT ![calls[w].f].file[s].blocked = FALSE]
    /\ Over(w)
    /\ UNCHANGED <<rscene, plans, tasks, incidents, bugs, checkpoints, seqdb, told>>

NewRecord(kind) ==
    /\ Does("incident") /\ Len(incidents) < rscene.features
    /\ incidents' = Append(incidents, [kind |-> kind, st |-> EntryState(kind), bugs |-> {}])
    /\ UNCHANGED <<rscene, plans, feats, tasks, bugs, checkpoints, seqdb, calls, told>>

CreateIncident == NewRecord("incident")
CreateDecision == NewRecord("decision")

UpdateIncident(i, to) ==
    /\ CanTransition(incidents[i].kind, incidents[i].st, to)
    /\ incidents' = [incidents EXCEPT ![i].st = to]
    /\ UNCHANGED <<rscene, plans, feats, tasks, bugs, checkpoints, seqdb, calls, told>>

(* The bug must exist, but it is listed the way the caller wrote its id.    *)
LinkBug(i, b, spelling) ==
    /\ incidents[i].kind = "incident"
    /\ <<b, spelling>> \notin incidents[i].bugs
    /\ incidents' = [incidents EXCEPT ![i].bugs = @ \cup {<<b, spelling>>}]
    /\ UNCHANGED <<rscene, plans, feats, tasks, bugs, checkpoints, seqdb, calls, told>>

(* The process dies in the middle of a call. *)
RecordsCrash(w) ==
    /\ Does("crash") /\ ~Free(w)
    /\ Cut(w)
    /\ UNCHANGED <<rscene, plans, feats, tasks, incidents, bugs, checkpoints, seqdb>>

-----------------------------------------------------------------------------
RecordsInit ==
    /\ rscene \in RecordScenes
    /\ plans = rscene.given.plans
    /\ feats = rscene.given.features
    /\ tasks = rscene.given.tasks
    /\ incidents = <<>> /\ bugs = <<>> /\ checkpoints = <<>>
    /\ seqdb = <<>>
    /\ calls = [w \in Workers |-> NoCall]
    /\ told = [reviews |-> [f \in DOMAIN feats |-> 0], overrides |-> [f \in DOMAIN feats |-> 0],
               cut |-> FALSE]

CallOnAFeature(w) ==
    \E f \in DOMAIN feats :
       \/ \E p \in DOMAIN plans : MoveNumbered(w, f, p)
       \/ \E s \in Located(f) :
             \/ \E t \in Slugs : RenameBegins(w, f, s, t)
             \/ \E to \in rscene.given.statuses : Transitioned(w, f, s, to)
             \/ OverrideBegins(w, f, s)
             \/ ReviewCapReached(w, f, s)

CallOnAPlan(w) ==
    \/ \E pre \in {"B", "P"}, slug \in rscene.given.slugs : PlanNumbered(w, pre, slug)
    \/ \E p \in DOMAIN plans :
          \/ FeatureNumbered(w, p) \/ UpdatePlan(w, p)
          \/ \E to \in rscene.given.statuses : UpdatePlanStatus(w, p, to)
          \/ \E q \in 0..Len(plans) : UpdateStrategicPlan(w, p, q)
          \/ MaybeAutoAdvancePlan(w, p)

CallGoesOn(w) ==
    \/ PlanCreated(w) \/ ParentCounts(w) \/ FeatureRefused(w) \/ FeatureCached(w)
    \/ \E s \in rscene.given.slugs : FeatureWritten(w, s)
    \/ FeatureReparented(w) \/ PlanSaved(w) \/ PlanCloses(w)
    \/ RenameWrites(w) \/ RenameRemoves(w)
    \/ IncrementFeatureReviewCycle(w) \/ PersistFeatureOverrides(w) \/ CompletionWritten(w)
    \/ CheckpointCreated(w) \/ ClearBlockedReason(w)

CallOnAnIncident ==
    \/ CreateIncident \/ CreateDecision
    \/ \E i \in DOMAIN incidents :
          \/ \E to \in KnownStates(incidents[i].kind) : UpdateIncident(i, to)
          \/ \E b \in DOMAIN bugs, spelling \in {"id", "prefix"} : LinkBug(i, b, spelling)

RecordsNext ==
    \/ \E w \in Workers :
          \/ CallOnAFeature(w) \/ CallOnAPlan(w) \/ CallGoesOn(w)
          \/ \E t \in DOMAIN tasks : CompleteTask(w, t)
          \/ \E k \in DOMAIN checkpoints : RespondCheckpoint(w, k)
          \/ RecordsCrash(w)
    \/ \E slug, report \in Slugs : CreateBug(slug, report)
    \/ CallOnAnIncident

RecordsSpec == RecordsInit /\ [][RecordsNext]_rvars

-----------------------------------------------------------------------------
(* The calls that are under way, by their next step, and the types. *)

Counting == [op : {"create"}, step : {"count", "write"}, plan : Nat, seq : Nat, new : PlanRecords]
            \cup [op : {"move"}, step : {"count", "write"}, plan : Nat, seq : Nat,
                  new : PlanRecords, f : Nat, slug : Slugs]
CallRecords ==
    Counting
    \cup {NoCall}
    \cup [op : {"plan"}, new : PlanRecords]
    \cup [op : {"create"}, step : {"row"}, f : Nat, slug : Slugs]
    \cup [op : {"save"}, plan : Nat, new : PlanRecords, close : BOOLEAN]
    \cup [op : {"close"}, plan : Nat]
    \cup [op : {"rename"}, step : {"write", "remove"}, f : Nat, from : Slugs, to : Slugs,
          c : Contents]
    \cup [op : {"override"}, f : Nat, slug : Slugs, list : Nat]
    \cup [op : {"count", "unblock"}, f : Nat]
    \cup [op : {"summary"}, t : Nat]
    \cup [op : {"ask"}, asks : Nat]
BugIDs == {<<s>> : s \in Slugs} \cup ({""} \X Nat)
IncidentRecords == [kind : {"incident", "decision"},
                    st : KnownStates("incident") \cup KnownStates("decision"),
                    bugs : SUBSET (BugIDs \X {"id", "prefix"})]

RecordsTypeOK ==
    /\ rscene \in RecordScenes
    /\ plans \in Seq(PlanRecords)
    /\ feats \in Seq(FeatureRecords)
    /\ tasks \in Seq(TaskRecords)
    /\ incidents \in Seq(IncidentRecords)
    /\ bugs \in [DOMAIN bugs -> Slugs] /\ DOMAIN bugs \subseteq BugIDs /\ IsFiniteSet(DOMAIN bugs)
    /\ checkpoints \in Seq(CheckpointRecords)
    /\ seqdb \in [DOMAIN seqdb -> Nat]
    /\ calls \in [Workers -> CallRecords]
    /\ told \in [reviews : [DOMAIN feats -> Nat], overrides : [DOMAIN feats -> Nat],
                 cut : BOOLEAN]

-----------------------------------------------------------------------------
(* What must hold. *)

(* A number is one feature's, as long as calls come one at a time or every  *)
(* number is the database's (CreateFeature, runMoveFeature): numbers may be *)
(* burnt by refusals and crashes, but never used twice.                    *)
NumberNamesOneFeature ==
    (rscene.workers = 1 \/ Does("database")) =>
        \A f, g \in DOMAIN feats : \A s \in Slugged(f), t \in Slugged(g) :
            f # g => feats[f].file[s].number # feats[g].file[t].number

(* The parents of strategic plans form a tree (detectStrategicPlanCycle).   *)
PlansFormATree ==
    rscene.workers = 1 =>
        \A p \in DOMAIN plans : plans[p].parent # 0 => p \notin Ancestors(plans[p].parent)

(* What a call writes in a second step is there when it is over, unless it  *)
(* died or was refused between the two: the completion of a task, the count *)
(* of reviews that the cap relies on, the record of an override, the close  *)
(* of a batch.                                                             *)
SecondWritesFollow ==
    AtRest /\ ~told.cut =>
        /\ \A t \in DOMAIN tasks : tasks[t].st # "active" => tasks[t].summary
        /\ \A f \in DOMAIN feats : \A s \in Slugged(f) :
              /\ feats[f].file[s].cycle = told.reviews[f]
              /\ feats[f].file[s].overrides = told.overrides[f]
        /\ Does("close") => \A p \in DOMAIN plans : plans[p].st # "reviewing"

(* A record is never without a file; when no call is under way, and none    *)
(* died, it has one, the cache knows it, and its number finds it           *)
(* (UpdateEntity, ResolveFeatureDisplayID).                                *)
RecordsStayFound ==
    rscene.workers = 1 =>
        \A f \in DOMAIN feats :
           /\ Slugged(f) # {}
           /\ AtRest /\ ~told.cut =>
                 /\ Slugged(f) = {feats[f].row.slug}
                 /\ \A s \in Slugged(f) :
                      LET n == feats[f].file[s].number IN
                      (IF Does("move") THEN ScanForDisplayID(n) ELSE ResolveFeatureDisplayID(n)) = {f}
=============================================================================
