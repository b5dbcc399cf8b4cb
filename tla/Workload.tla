----------------------------- MODULE Workload -----------------------------
(***************************************************************************)
(* Estimates and conflicts.  An estimate query adds up what lies under a   *)
(* plan by one listing after another, while tasks and features change.     *)
(* The listings answer from the rows of the cache, and not every write     *)
(* refreshes its row.  A conflict check says of every two of the tasks it  *)
(* is given whether they may run side by side.                             *)
(***************************************************************************)
EXTENDS Integers, Sequences, SequencesExt, FiniteSets, FiniteSetsExt, Functions

CONSTANTS
    StrategicPlans, Batches, FeatureIDs, TaskIDs,
    Loads,            \* [parents, features, tasks, branches]: the records to start from,
                      \* and [part]: what is asked of them, "estimate" or "conflict"
    Scale,            \* the estimates that are accepted: 11 values in the code
    Depth,            \* maxPlanRollupDepth: 50 in the code
    MaxAsked,         \* bound: tasks or features of a conflict check
    MaxWrites         \* bound: changes of a record
ASSUME ScaleIsNatural == Scale \subseteq Nat /\ Depth \in Nat

VARIABLES
    parents,   \* plan or batch -> the plan above it, or "none"
    members,   \* the feature files: feature -> [parent, estimate]
    work,      \* the task files: task -> [feature, status, estimate, deps, files, words]
    featureRows, taskRows,  \* the cache rows of the features and of the tasks
    batchRows, batchesWarm, \* the batches with a row, and whether the server lists these
    branches,  \* feature with an active worktree -> the files changed on its branch
    query,     \* the estimate query under way
    verdicts,  \* the last answer of a conflict check
    wpart,     \* the part of the load
    writes     \* changes so far

cacheRows == <<featureRows, taskRows, batchRows, batchesWarm>>
wvars == <<parents, members, work, cacheRows, branches, query, verdicts, wpart, writes>>

Unset == -1
NoQuery == [plan |-> "none", todo |-> <<>>, total |-> 0, has |-> FALSE, progress |-> 0,
            state |-> "none", quiet |-> TRUE]

(* What there is to start from: a plan or a batch lies under a plan, a     *)
(* feature under either, a task in a feature.                              *)
TaskStates == {"queued", "blocked", "ready", "active", "done", "needs-review", "needs-rework",
               "not-planned", "duplicate"}
PlanOrBatch == StrategicPlans \cup Batches
WorkRows == [feature : FeatureIDs, status : TaskStates, estimate : Nat \cup {Unset},
                deps : SUBSET TaskIDs, files : SUBSET STRING, words : SUBSET STRING]
MemberRows == [parent : PlanOrBatch, estimate : Nat \cup {Unset}]
ASSUME LoadsAreRecords ==
    /\ IsFiniteSet(PlanOrBatch) /\ IsFiniteSet(FeatureIDs) /\ IsFiniteSet(TaskIDs)
    /\ StrategicPlans \cap Batches = {} /\ TaskIDs \cap FeatureIDs = {} /\ "none" \notin PlanOrBatch
    /\ \A load \in Loads : /\ load.parents \in [PlanOrBatch -> StrategicPlans \cup {"none"}]
                           /\ load.features \in [FeatureIDs -> MemberRows]
                           /\ load.tasks \in [TaskIDs -> WorkRows]

-----------------------------------------------------------------------------
(* Writes.  The estimate of a task or a feature is one off the scale; it   *)
(* goes to the file and to no row.                                         *)
Disturbed == query' = [query EXCEPT !.quiet = FALSE]
Written == writes < MaxWrites /\ writes' = writes + 1 /\ Disturbed

ValidateEstimate(points) == points \in Scale

SetTaskEstimate(t, points) ==
    /\ ValidateEstimate(points) /\ work[t].estimate # points
    /\ work' = [work EXCEPT ![t].estimate = points]
    /\ Written
    /\ UNCHANGED <<parents, members, cacheRows, branches, verdicts, wpart>>

SetFeatureEstimate(f, points) ==
    /\ ValidateEstimate(points) /\ members[f].estimate # points
    /\ members' = [members EXCEPT ![f].estimate = points]
    /\ Written
    /\ UNCHANGED <<parents, work, cacheRows, branches, verdicts, wpart>>

(* The server refreshes the row with the whole record.  `kbz next`,        *)
(* `kbz finish` and `kbz move` work without a cache.                       *)
MoveTask(t, status, server) ==
    /\ work[t].status # status
    /\ work' = [work EXCEPT ![t].status = status]
    /\ taskRows' = IF server THEN [taskRows EXCEPT ![t] = work'[t]] ELSE taskRows
    /\ Written
    /\ UNCHANGED <<parents, members, featureRows, batchRows, batchesWarm, branches, verdicts, wpart>>

MoveFeature(f, b) ==
    /\ members[f].parent # b
    /\ members' = [members EXCEPT ![f].parent = b]
    /\ Written
    /\ UNCHANGED <<parents, work, cacheRows, branches, verdicts, wpart>>

(* Any other change of a feature through the server refreshes its row.     *)
UpdateFeature(f) ==
    /\ featureRows[f] # members[f]
    /\ featureRows' = [featureRows EXCEPT ![f] = members[f]]
    /\ Written
    /\ UNCHANGED <<parents, members, work, taskRows, batchRows, batchesWarm, branches, verdicts, wpart>>

(* Plans are listed from their files.                                      *)
MovePlan(p, above) ==
    /\ p # above /\ parents[p] # above
    /\ parents' = [parents EXCEPT ![p] = above]
    /\ Written
    /\ UNCHANGED <<members, work, cacheRows, branches, verdicts, wpart>>

(* The first batch that the server changes makes it list the batches from  *)
(* their rows; no other batch has one until it is changed too.             *)
MoveBatch(b) ==
    /\ b \notin batchRows
    /\ batchRows' = batchRows \cup {b} /\ batchesWarm' = TRUE
    /\ Written
    /\ UNCHANGED <<parents, members, work, featureRows, taskRows, branches, verdicts, wpart>>

(* A start of the server, or a `kbz` command, fills the table again: all   *)
(* rows are deleted, and features and tasks get theirs from the files.     *)
RebuildCache(started) ==
    /\ <<members, work>> # <<featureRows, taskRows>> \/ batchRows # {} \/ (started /\ batchesWarm)
    /\ featureRows' = members /\ taskRows' = work
    /\ batchRows' = {} /\ batchesWarm' = (batchesWarm /\ ~started)
    /\ IF started THEN query' = NoQuery ELSE Disturbed
    /\ UNCHANGED <<parents, members, work, branches, verdicts, wpart, writes>>

-----------------------------------------------------------------------------
(* The rollup of a feature: tasks that were dropped do not count.  Tasks   *)
(* and features are read off their rows.                                   *)
Excluded == {"not-planned", "duplicate"}
TasksOf(f) == {t \in TaskIDs : taskRows[t].feature = f /\ taskRows[t].status \notin Excluded}
Estimated(f) == {t \in TasksOf(f) : taskRows[t].estimate # Unset}
Points(ts) == FoldFunctionOnSet(+, 0, [t \in TaskIDs |-> taskRows[t].estimate], ts)
TaskTotal(f) == IF Estimated(f) = {} THEN Unset ELSE Points(Estimated(f))
Progress(f) == Points({t \in Estimated(f) : taskRows[t].status = "done"})

(* A feature counts with its tasks' total, or else with its own estimate.  *)
\* A slip: the feature's own estimate first.
EffectiveOwn(own, total) == IF own # Unset THEN own ELSE total

Effective(own, total) == IF total # Unset THEN total ELSE own

(* The rollup of a plan reads the batches of the plan, the features of     *)
(* each, the tasks of each, and then the plans below, in that order, each  *)
(* when its turn comes.                                                    *)
Ask(p) ==
    /\ query.state # "asked"
    /\ query' = [NoQuery EXCEPT !.plan = p, !.state = "asked", !.todo = <<<<"plan", p, 0>>>>]
    /\ UNCHANGED <<parents, members, work, cacheRows, branches, verdicts, wpart, writes>>

ListBatches == IF batchesWarm THEN batchRows ELSE Batches

Items(kind, ids, d) == LET s == SetToSeq(ids) IN [i \in DOMAIN s |-> <<kind, s[i], d>>]

PlanStep(p, d) ==
    IF d > Depth THEN [query EXCEPT !.state = "too deep", !.todo = <<>>]
    ELSE [query EXCEPT !.todo = Items("batch", {b \in ListBatches : parents[b] = p}, d)
                                \o <<<<"below", p, d>>>> \o Tail(@)]

BelowStep(p, d) ==
    [query EXCEPT !.todo = Items("plan", {q \in StrategicPlans : parents[q] = p}, d + 1) \o Tail(@)]

(* The features are listed with their own estimates.                       *)
BatchStep(b) ==
    LET fs == SetToSeq({f \in FeatureIDs : featureRows[f].parent = b}) IN
    [query EXCEPT !.todo = [i \in DOMAIN fs |-> <<"feature", fs[i], featureRows[fs[i]].estimate>>]
                           \o Tail(@)]

FeatureStep(f, own) ==
    LET points == Effective(own, TaskTotal(f)) IN
    [query EXCEPT !.todo = Tail(@), !.has = @ \/ points # Unset,
                  !.total = @ + (IF points = Unset THEN 0 ELSE points),
                  !.progress = @ + Progress(f)]

RollupStep ==
    /\ query.state = "asked"
    /\ query' = IF query.todo = <<>> THEN [query EXCEPT !.state = "answered"]
                ELSE LET item == Head(query.todo) IN
                     CASE item[1] = "plan" -> PlanStep(item[2], item[3])
                       [] item[1] = "below" -> BelowStep(item[2], item[3])
                       [] item[1] = "batch" -> BatchStep(item[2])
                       [] item[1] = "feature" -> FeatureStep(item[2], item[3])
    /\ UNCHANGED <<parents, members, work, cacheRows, branches, verdicts, wpart, writes>>

-----------------------------------------------------------------------------
(* Conflicts.  A risk is 0 (none) to 3 (high).                             *)
Worse(r, s) == IF r >= s THEN r ELSE s

(* a and b are [id, feature, deps, files, words].                          *)
FileOverlap(a, b, branch) ==
    LET shared == a.files \cap b.files
        changed == IF a.feature = "none" \/ b.feature = "none" THEN {}
                   ELSE branch[a.feature] \cap branch[b.feature] IN
    IF shared # {} /\ changed # {} THEN 3
    ELSE IF shared \cup changed # {} THEN 2 ELSE 0

(* What can be reached from id in n hops through the tasks given.          *)
Reachable(id, infos) ==
    LET depsOf(x) == UNION {i.deps : i \in {j \in infos : j.id = x}}
        within[n \in 0..Cardinality(infos)] ==
            IF n = 0 THEN depsOf(id)
            ELSE within[n - 1] \cup UNION {depsOf(x) : x \in within[n - 1]} IN
    within[Cardinality(infos)]

\* A slip: only one of the two directions is searched.
DependencyOrderOneWay(a, b, infos) ==
    IF b.id \in a.deps \/ a.id \in b.deps THEN 3
    ELSE IF b.id \in Reachable(a.id, infos) THEN 2 ELSE 0

DependencyOrder(a, b, infos) ==
    IF b.id \in a.deps \/ a.id \in b.deps THEN 3
    ELSE IF b.id \in Reachable(a.id, infos) \/ a.id \in Reachable(b.id, infos) THEN 2 ELSE 0

BoundaryCrossing(a, b) ==
    LET shared == Cardinality(a.words \cap b.words) IN
    IF shared >= 3 THEN 2 ELSE IF shared >= 1 THEN 1 ELSE 0

PairOf(a, b, infos, branch) ==
    LET order == DependencyOrder(a, b, infos)
        risk == Worse(FileOverlap(a, b, branch), Worse(order, BoundaryCrossing(a, b))) IN
    [a |-> a.id, b |-> b.id, risk |-> risk,
     advice |-> IF order # 0 THEN "serialise"
                ELSE IF risk >= 2 THEN "checkpoint_required" ELSE "safe_to_parallelise"]

PairsOf(infos, branch) ==
    {PairOf(infos[p[1]], infos[p[2]], ToSet(infos), branch) :
        p \in {q \in (DOMAIN infos) \X (DOMAIN infos) : q[1] < q[2]}}

(* The words of a task include those of its feature and its specification. *)
Info(t) == [id |-> t, feature |-> work[t].feature, deps |-> work[t].deps, files |-> work[t].files,
            words |-> work[t].words]
NoBranches == [f \in FeatureIDs |-> {}]

(* A check changes no record: one answer is enough (a bound).              *)
Answered(v) == /\ verdicts.of = {}
               /\ verdicts' = v
               /\ UNCHANGED <<parents, members, work, cacheRows, branches, query, wpart, writes>>

(* The server looks at branches; `kbz conflict` does not.  The lookup of a *)
(* feature without an active worktree finds no record, whose branch is     *)
(* then read: the check breaks off and no pair is answered.                *)
BranchesFound(infos, branch) == {infos[i].feature : i \in DOMAIN infos} \subseteq DOMAIN branch

Weighed(infos, branch) == IF BranchesFound(infos, branch) THEN PairsOf(infos, branch) ELSE {}

Check(ids, branch) ==
    /\ Len(ids) >= 2
    /\ Answered([of |-> ToSet(ids), pairs |-> Weighed([i \in DOMAIN ids |-> Info(ids[i])], branch)])

(* Features are compared by the files of their tasks and by their branches *)
(* only.                                                                   *)
FeatureInfo(f) ==
    [id |-> f, feature |-> f, deps |-> {}, words |-> {},
     files |-> UNION {work[t].files : t \in {u \in TaskIDs : work[u].feature = f}}]

CheckFeatures(fs) ==
    Answered([of |-> ToSet(fs), pairs |-> Weighed([i \in DOMAIN fs |-> FeatureInfo(fs[i])], branches)])

(* The queue weighs a ready task against the active ones, without branches *)
(* and through no other task.                                              *)
ActiveTasks == {t \in TaskIDs : work[t].status = "active"}

QueueRisk(t) ==
    LET list == <<t>> \o SetToSeq(ActiveTasks)
        pairs == {p \in PairsOf([i \in DOMAIN list |-> Info(list[i])], NoBranches) : t \in {p.a, p.b}} IN
    [risk |-> Max({p.risk : p \in pairs}), with |-> {p.b : p \in {q \in pairs : q.risk > 0}}]

AnnotateQueue ==
    /\ ActiveTasks # {}
    /\ Answered([of |-> ActiveTasks,
                 pairs |-> {[a |-> t, b |-> "active", risk |-> QueueRisk(t).risk,
                             advice |-> IF QueueRisk(t).with = {} THEN "clear" ELSE "marked"] :
                               t \in {u \in TaskIDs : work[u].status = "ready"}}])

(* How many of its dependencies a task waits for.                          *)
Blocking(t) == {d \in work[t].deps : work[d].status \notin {"done", "not-planned", "duplicate"}}

DependencyStatus(t) ==
    Answered([of |-> {t}, pairs |-> {[a |-> t, b |-> d, risk |-> Cardinality(Blocking(t)),
                                      advice |-> IF d \in Blocking(t) THEN "blocking" ELSE work[d].status] :
                                        d \in work[t].deps}])

-----------------------------------------------------------------------------
Carries(load) ==
    /\ parents = load.parents /\ members = load.features
    /\ work = load.tasks /\ branches = load.branches /\ wpart = load.part
    /\ featureRows = members /\ taskRows = work /\ batchRows = {} /\ batchesWarm = FALSE
    /\ query = NoQuery
    /\ verdicts = [of |-> {}, pairs |-> {}]
    /\ writes = 0

WorkloadInit == \E load \in Loads : Carries(load)

Ordered(ids) == {s \in UNION {[1..n -> ids] : n \in 2..MaxAsked} : \A i, j \in DOMAIN s : s[i] = s[j] => i = j}

Estimating ==
    \/ RollupStep
    \/ \E started \in BOOLEAN : RebuildCache(started)
    \/ \E p \in StrategicPlans : Ask(p) \/ \E q \in StrategicPlans \cup {"none"} : MovePlan(p, q)
    \/ \E t \in TaskIDs : \/ \E points \in 0..4 : SetTaskEstimate(t, points)
                          \/ \E s \in {"done", "not-planned"}, server \in BOOLEAN : MoveTask(t, s, server)
    \/ \E f \in FeatureIDs : \/ \E points \in 0..4 : SetFeatureEstimate(f, points)
                             \/ UpdateFeature(f)
                             \/ \E b \in Batches : MoveFeature(f, b)
    \/ \E b \in Batches : MoveBatch(b)

Weighing ==
    \/ \E ids \in Ordered(TaskIDs) : Check(ids, branches) \/ Check(ids, NoBranches)
    \/ \E fs \in Ordered(FeatureIDs) : CheckFeatures(fs)
    \/ AnnotateQueue
    \/ \E t \in TaskIDs : DependencyStatus(t)

WorkloadNext == (wpart = "estimate" /\ Estimating) \/ (wpart = "conflict" /\ Weighing)
WorkloadSpec == WorkloadInit /\ [][WorkloadNext]_wvars

-----------------------------------------------------------------------------
(* Where edges lead from x: what is in every set that holds the next of x  *)
(* and of its members.                                                     *)
Reached(nodes, edges, x) ==
    {y \in nodes : \A C \in SUBSET nodes :
                     (\A e \in edges : e[1] \in C \cup {x} => e[2] \in C) => y \in C}

FeaturesUnder(p) == {f \in FeatureIDs :
    featureRows[f].parent \in ListBatches \cap Reached(PlanOrBatch, {<<parents[q], q>> : q \in PlanOrBatch}, p)}
WaitsFor(t, ids) == Reached(ids, {e \in ids \X ids : e[2] \in work[e[1]].deps}, t)

(* estimation.go:86, "recursive sum of all child batch and child plan      *)
(* totals", as far as the cache tells them: whatever changes while an      *)
(* answer is put together, what is done is never more than there is to do; *)
(* and when nothing changed, each feature that the rows put in a listed    *)
(* batch below the plan was counted once, with its tasks or without.       *)
RollupAddsUp ==
    query.state = "answered" =>
        /\ query.progress <= query.total
        /\ query.quiet =>
              LET counted == [f \in FeatureIDs |-> Worse(Effective(featureRows[f].estimate, TaskTotal(f)), 0)] IN
              query.total = FoldFunctionOnSet(+, 0, counted, FeaturesUnder(query.plan))

(* docs/orchestration-and-knowledge.md, "No dependency path exists": two   *)
(* of the tasks that were checked together are called safe to run side by  *)
(* side only when neither waits for the other through tasks that were      *)
(* checked too, when they plan no file together, and in whichever order    *)
(* they were named.                                                        *)
SafePairsAreApart ==
    verdicts.of \subseteq TaskIDs =>
        \A p \in {q \in verdicts.pairs : q.advice = "safe_to_parallelise"} :
            /\ p.b \notin WaitsFor(p.a, verdicts.of) /\ p.a \notin WaitsFor(p.b, verdicts.of)
            /\ work[p.a].files \cap work[p.b].files = {}
=============================================================================
