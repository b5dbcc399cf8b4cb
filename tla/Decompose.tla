----------------------------- MODULE Decompose -----------------------------
(***************************************************************************)
(* Breaking a feature into tasks: propose reads the approved dev-plan, or  *)
(* else the acceptance criteria of the specification; review checks a      *)
(* proposal against the specification; apply creates its tasks.  The three *)
(* are separate calls: the agent carries the proposal from one to the      *)
(* next, and both documents may change in between.                         *)
(*                                                                         *)
(* A document is a sequence of lines.  A text is a record of what the code *)
(* asks of it: [name, words, concern, test, testword, short, compound].    *)
(* A slug is <<base, n>>: the slug of a title or a criterion followed by   *)
(* n times "-tests"; the feature's slug in front of all of them is left    *)
(* out.                                                                    *)
(***************************************************************************)
EXTENDS Naturals, Sequences, SequencesExt, FiniteSets

CONSTANTS
    Features,      \* [lines, plan, later]: the specification (a sequence of lines), the
                   \* dev-plan (a sequence of [text, deps, effort, covers], empty when it has
                   \* no task breakdown), whether both are approved, what the specification
                   \* may be changed into, and the bound [calls]: changes of the specification and applied proposals
    MaxRows,       \* bound: task rows of the feature
    MaxStarted     \* bound: tasks promoted

VARIABLES
    feature,   \* one of Features
    spec,      \* [lines, approved]
    planned,   \* the dev-plan is approved
    proposal,  \* the proposal the agent holds, with where it came from
    verdict,   \* what the review said of it
    rows,      \* the tasks created: [slug, status, deps, plan, reviewed]
    slices,    \* the slices the agent was last shown
    changes    \* changes and applications so far

dvars == <<feature, spec, planned, proposal, verdict, rows, slices, changes>>

Nothing == [tasks |-> <<>>, source |-> "none", lines |-> <<>>]
Tests(slug) == <<slug[1], slug[2] + 1>>
Elements(s) == {s[i] : i \in DOMAIN s}

(* The documents of a feature are sequences, of lines or of tasks.         *)
IsList(s) == s \in Seq(Elements(s))
LineKinds == {"head", "box", "separator", "row", "prose", "numbered", "bold"}
IsSlug(s) == s = <<s[1], s[2]>> /\ s[2] \in Nat
IsLine(l) == /\ l.kind \in LineKinds /\ IsSlug(l.text.slug)
             /\ l.kind = "head" => l.criteria \in BOOLEAN
ASSUME DocumentsAreLists ==
    \A f \in Features :
        /\ IsList(f.plan) /\ \A i \in DOMAIN f.plan : IsList(f.plan[i].deps)
        /\ \A s \in {f.lines} \cup f.later : IsList(s) /\ \A i \in DOMAIN s : IsLine(s[i])

-----------------------------------------------------------------------------
(* Reading a specification.  A table row counts after a separator only; a  *)
(* heading of any level ends the acceptance criteria unless its own title  *)
(* announces some.                                                         *)
Criterion(st, l) == [text |-> l.text, section |-> st.section, l2 |-> st.l2]
WithCriterion(st, l) == [st EXCEPT !.found = Append(@, Criterion(st, l))]

SpecLine(st, l) ==
    CASE l.kind = "head" ->
            [st EXCEPT !.section = l.text.name, !.inAC = l.criteria, !.inTable = FALSE,
                       !.l2 = IF l.level = 2 THEN l.text.name ELSE @]
      [] l.kind = "box" -> WithCriterion(st, l)
      [] l.kind # "head" /\ l.kind # "box" /\ ~st.inAC -> st
      [] l.kind = "separator" /\ st.inAC -> [st EXCEPT !.inTable = TRUE]
      [] l.kind = "row" /\ st.inAC -> IF st.inTable THEN WithCriterion(st, l) ELSE st
      [] l.kind = "prose" /\ st.inAC -> [st EXCEPT !.inTable = FALSE]
      [] l.kind \in {"numbered", "bold"} /\ st.inAC ->
            WithCriterion([st EXCEPT !.inTable = FALSE], l)

Criteria(lines) ==
    FoldLeft(SpecLine, [section |-> "", l2 |-> "", inAC |-> FALSE, inTable |-> FALSE,
                        found |-> <<>>], lines).found

(* The slices: level-2 sections that neither are boilerplate nor hold the  *)
(* criteria, each with the criteria under its title.                       *)
SliceHeads(lines) ==
    SelectSeq(lines, LAMBDA l : l.kind = "head" /\ l.level = 2 /\ ~l.meta /\ ~l.criteria)

SliceSize(outcomes, layers) ==
    IF outcomes >= 4 \/ layers >= 3 THEN "large"
    ELSE IF outcomes >= 2 \/ layers >= 2 THEN "medium" ELSE "small"

Outcomes(lines, name) ==
    SelectSeq(Criteria(lines), LAMBDA c : name \in {c.l2, c.section})

SliceOf(lines, l) ==
    LET mine == Outcomes(lines, l.text.name)
        words == l.text.words \cup UNION {c.text.words : c \in Elements(mine)}
        layers == words \cap {"database", "endpoint", "command"} IN
    [name |-> l.text.name, layers |-> layers,
     size |-> SliceSize(Len(mine), Cardinality(layers)),
     deps |-> {m.text.name : m \in {n \in Elements(SliceHeads(lines)) :
                                      n.text.name # l.text.name /\ n.text.name \in words}}]

Slices(lines) == [i \in DOMAIN SliceHeads(lines) |-> SliceOf(lines, SliceHeads(lines)[i])]

-----------------------------------------------------------------------------
(* A proposal from the criteria.  They are grouped by level-2 section: two *)
(* to four of them make one task, otherwise each makes its own.  A task    *)
(* that implements something is followed by a task that tests it, unless   *)
(* all it covers already speaks of tests.                                  *)
CriteriaSections(cs) ==
    FoldLeft(LAMBDA seen, c : IF c.l2 \in Elements(seen) THEN seen ELSE Append(seen, c.l2),
             <<>>, cs)

Under(cs, section) ==
    FoldLeft(LAMBDA mine, c : IF c.l2 = section THEN Append(mine, c) ELSE mine, <<>>, cs)

Covering(slug, text, texts, deps) ==
    [slug |-> slug, text |-> text, covers |-> {t.name : t \in texts}, deps |-> deps, effort |-> 0]

PairedTests(task, texts, paired) ==
    IF paired /\ \E t \in texts : ~t.test
    THEN <<Covering(Tests(task.slug), [task.text EXCEPT !.testword = TRUE, !.short = FALSE],
                    texts, <<task.slug>>)>>
    ELSE <<>>

AreTests(texts) == \A t \in texts : t.concern

TasksFor(slug, text, texts, paired) ==
    LET task == Covering(IF AreTests(texts) THEN Tests(slug) ELSE slug, text, texts, <<>>) IN
    IF AreTests(texts) THEN <<task>> ELSE <<task>> \o PairedTests(task, texts, paired)

Titled(lines, section) ==
    IF section = "" THEN [name |-> "group", words |-> {}, concern |-> FALSE, test |-> FALSE,
                          testword |-> FALSE, short |-> FALSE, compound |-> FALSE, slug |-> <<"group", 0>>]
    ELSE (CHOOSE l \in Elements(lines) : l.kind = "head" /\ l.text.name = section).text

EachItsOwn(cs, paired) ==
    FoldLeft(LAMBDA tasks, c : tasks \o TasksFor(c.text.slug, c.text, {c.text}, paired), <<>>, cs)

\* A slip: the criteria of a section past the fourth are left out.
SectionTasksUpToFour(lines, section, paired) ==
    LET cs == Under(Criteria(lines), section) IN
    EachItsOwn(SubSeq(cs, 1, IF Len(cs) < 4 THEN Len(cs) ELSE 4), paired)

SectionTasks(lines, section, paired) ==
    LET cs == Under(Criteria(lines), section) IN
    IF Len(cs) \in 2..4
    THEN LET title == Titled(lines, section) IN
         TasksFor(title.slug, [title EXCEPT !.short = FALSE], {c.text : c \in Elements(cs)}, paired)
    ELSE EachItsOwn(cs, paired)

FromCriteria(lines, paired) ==
    FoldLeft(LAMBDA tasks, section : tasks \o SectionTasks(lines, section, paired), <<>>,
             CriteriaSections(Criteria(lines)))

(* A proposal from the dev-plan's task breakdown: dependencies are written *)
(* as task numbers, the ones that number no task are left out.             *)
SlugsOf(numbers, plan) ==
    FoldLeft(LAMBDA slugs, n : IF n \in DOMAIN plan THEN Append(slugs, plan[n].text.slug) ELSE slugs,
             <<>>, numbers)

DevPlanTasks(plan) ==
    [i \in DOMAIN plan |->
        [slug |-> plan[i].text.slug, text |-> plan[i].text, effort |-> plan[i].effort,
         covers |-> plan[i].covers, deps |-> SlugsOf(plan[i].deps, plan)]]

DevPlanUsable == planned /\ feature.plan # <<>>

(* decompose propose: it writes nothing.                                   *)
Propose(paired) ==
    /\ spec.approved
    /\ \/ /\ DevPlanUsable
          /\ proposal' = [tasks |-> DevPlanTasks(feature.plan), source |-> "dev-plan", lines |-> spec.lines]
       \/ /\ ~DevPlanUsable
          /\ Criteria(spec.lines) # <<>>
          /\ proposal' = [tasks |-> FromCriteria(spec.lines, paired), source |-> "criteria",
                          lines |-> spec.lines]
    /\ proposal' # proposal
    /\ verdict' = "none"
    /\ slices' = Slices(spec.lines)
    /\ UNCHANGED <<feature, spec, planned, rows, changes>>

(* decompose slice needs no approval.                                      *)
Slice ==
    /\ slices # Slices(spec.lines)
    /\ slices' = Slices(spec.lines)
    /\ UNCHANGED <<feature, spec, planned, proposal, verdict, rows, changes>>

-----------------------------------------------------------------------------
(* The review.  A task whose slug ends in "-tests" and that has one        *)
(* dependency counts as one node with it.                                  *)
TaskSlugs(p) == {t.slug : t \in Elements(p)}

\* A slip: every "-tests" task is folded, also one that waits for several.
CollapseLoose(p) ==
    [s \in TaskSlugs(p) |->
        LET waits == {i \in DOMAIN p : p[i].slug = s /\ s[2] > 0 /\ Len(p[i].deps) > 0} IN
        IF waits = {} THEN s ELSE LET impl == p[CHOOSE i \in waits : TRUE].deps[1] IN
                                  IF impl \in TaskSlugs(p) THEN impl ELSE s]

Collapse(p) ==
    [s \in TaskSlugs(p) |->
        LET last == {i \in DOMAIN p : p[i].slug = s /\ p[i].slug[2] > 0 /\ Len(p[i].deps) = 1} IN
        IF last = {} THEN s
        ELSE LET impl == p[CHOOSE i \in last : \A j \in last : j <= i].deps[1] IN
             IF impl \in TaskSlugs(p) THEN impl ELSE s]

CollapsedDeps(p) ==
    LET repr == Collapse(p) IN
    {e \in {<<repr[t.slug], IF d \in TaskSlugs(p) THEN repr[d] ELSE d>> :
              t \in Elements(p), d \in UNION {Elements(u.deps) : u \in Elements(p)}} :
       /\ e[1] # e[2]
       /\ \E t \in Elements(p) : /\ repr[t.slug] = e[1]
                                 /\ \E d \in Elements(t.deps) : d \in TaskSlugs(p) /\ repr[d] = e[2]}

(* Some nodes each wait for another of them: the search comes back to a    *)
(* node it has not left.                                                   *)
HasCycle(edges) ==
    \E C \in SUBSET {e[1] : e \in edges} :
        /\ C # {}
        /\ \A n \in C : \E e \in edges : e[1] = n /\ e[2] \in C

CyclesFound(p) == HasCycle(CollapsedDeps(p))

(* Two thirds of a criterion's words in the text of a task that lists no   *)
(* criteria cover it too.                                                  *)
IsCovered(c, p) ==
    \/ c.text.words = {}
    \/ \E t \in Elements(p) :
          \/ c.text.name \in t.covers
          \/ /\ t.covers = {}
             /\ Cardinality(c.text.words \cap t.text.words) * 3 >= Cardinality(c.text.words) * 2

Gaps(lines, p) == {c \in Elements(Criteria(lines)) : ~IsCovered(c, p)}

Orphans(p) ==
    LET edges == CollapsedDeps(p) IN
    edges # {} /\ \E t \in Elements(p) : \A e \in edges : Collapse(p)[t.slug] \notin {e[1], e[2]}

Undeclared(p) ==
    LET repr == Collapse(p) IN
    \E t \in Elements(p), u \in Elements(p) :
       /\ repr[t.slug] # repr[u.slug]
       /\ u.text.name \in t.text.words
       /\ CollapsedDeps(p) \cap {<<repr[t.slug], repr[u.slug]>>, <<repr[u.slug], repr[t.slug]>>} = {}

Oversized(p) == \E t \in Elements(p) : t.effort > 8
Untested(p) == \A t \in Elements(p) : ~t.text.testword
Ambiguous(p) == \E t \in Elements(p) : t.text.short
MultiAgent(p) == \E t \in Elements(p) : t.text.compound

ReviewOf(lines, p) ==
    IF Gaps(lines, p) # {} \/ CyclesFound(p) THEN "fail"
    ELSE IF Oversized(p) \/ Ambiguous(p) \/ Untested(p) \/ Undeclared(p) \/ Orphans(p) \/ MultiAgent(p)
    THEN "warn" ELSE "pass"

Review ==
    /\ proposal.tasks # <<>>
    /\ verdict' = ReviewOf(spec.lines, proposal.tasks)
    /\ verdict' # verdict
    /\ UNCHANGED <<feature, spec, planned, proposal, rows, slices, changes>>

-----------------------------------------------------------------------------
(* decompose apply: the feature's queued tasks are dropped, then one task  *)
(* is created per proposed task, then the slugs are resolved.  Of tasks    *)
(* with one slug the last is meant.  It reads neither document.            *)
Superseded(rs) == [i \in DOMAIN rs |-> IF rs[i].status = "queued" THEN [rs[i] EXCEPT !.status = "not-planned"]
                                       ELSE rs[i]]

CreatedFrom(p, reviewed) ==
    [i \in DOMAIN p |-> [slug |-> p[i].slug, status |-> "queued", deps |-> {}, plan |-> changes,
                         reviewed |-> reviewed]]

Resolve(p, kept, slug) == kept + (CHOOSE i \in DOMAIN p : p[i].slug = slug /\
                                     \A j \in DOMAIN p : p[j].slug = slug => j <= i)

WithDeps(created, p, kept) ==
    [i \in DOMAIN p |->
        [created[i] EXCEPT !.deps = {Resolve(p, kept, s) : s \in Elements(p[i].deps) \cap TaskSlugs(p)}]]

CanApply == /\ proposal.tasks # <<>> /\ changes < feature.calls
            /\ Len(rows) + Len(proposal.tasks) <= MaxRows

Apply ==
    /\ CanApply
    /\ LET p == proposal.tasks
           created == CreatedFrom(p, verdict) IN
       rows' = Superseded(rows) \o WithDeps(created, p, Len(rows))
    /\ changes' = changes + 1
    /\ UNCHANGED <<feature, spec, planned, proposal, verdict, slices>>

(* The creation of a task failed: those before it stay, without theirs.    *)
ApplyCut(n) ==
    /\ CanApply
    /\ n \in 1..Len(proposal.tasks) - 1
    /\ rows' = Superseded(rows) \o SubSeq(CreatedFrom(proposal.tasks, verdict), 1, n)
    /\ changes' = changes + 1
    /\ UNCHANGED <<feature, spec, planned, proposal, verdict, slices>>

(* `kbz decompose --apply`: proposes anew, without paired tests, asks a    *)
(* person, and creates the tasks; no task is dropped, no dependency kept.  *)
CliApply ==
    /\ spec.approved /\ changes < feature.calls
    /\ DevPlanUsable \/ Criteria(spec.lines) # <<>>
    /\ LET p == IF DevPlanUsable THEN DevPlanTasks(feature.plan) ELSE FromCriteria(spec.lines, FALSE) IN
       /\ Len(rows) + Len(p) <= MaxRows
       /\ rows' = rows \o CreatedFrom(p, "none")
    /\ changes' = changes + 1
    /\ UNCHANGED <<feature, spec, planned, proposal, verdict, slices>>

(* What becomes of a task: it is promoted once what it depends on is done, *)
(* and it is done.                                                         *)
Promoted(i) ==
    /\ rows[i].status = "queued"
    /\ Cardinality({j \in DOMAIN rows : rows[j].status \in {"ready", "done"}}) < MaxStarted
    /\ \A d \in rows[i].deps : rows[d].status \in {"done", "not-planned"}
    /\ rows' = [rows EXCEPT ![i].status = "ready"]
    /\ UNCHANGED <<feature, spec, planned, proposal, verdict, slices, changes>>

TaskFinished(i) ==
    /\ rows[i].status = "ready"
    /\ rows' = [rows EXCEPT ![i].status = "done"]
    /\ UNCHANGED <<feature, spec, planned, proposal, verdict, slices, changes>>

(* The documents change under the calls; a changed one is a draft again.   *)
EditSpec(s) ==
    /\ changes < feature.calls /\ s # spec.lines
    /\ spec' = [lines |-> s, approved |-> FALSE]
    /\ changes' = changes + 1
    /\ UNCHANGED <<feature, planned, proposal, verdict, rows, slices>>

ApproveSpec ==
    /\ ~spec.approved
    /\ spec' = [spec EXCEPT !.approved = TRUE]
    /\ UNCHANGED <<feature, planned, proposal, verdict, rows, slices, changes>>

ApprovePlan ==
    /\ ~planned
    /\ planned' = TRUE
    /\ UNCHANGED <<feature, spec, proposal, verdict, rows, slices, changes>>

FeatureGiven(f) ==
    /\ feature = f
    /\ spec = [lines |-> feature.lines, approved |-> feature.approved]
    /\ planned = feature.approved
    /\ proposal = Nothing /\ verdict = "none" /\ rows = <<>> /\ slices = <<>> /\ changes = 0

DecomposeInit == \E f \in Features : FeatureGiven(f)

DecomposeNext ==
    \/ \E paired \in BOOLEAN : Propose(paired)
    \/ Slice \/ Review \/ Apply \/ CliApply \/ ApproveSpec \/ ApprovePlan
    \/ \E n \in 1..MaxRows : ApplyCut(n)
    \/ \E i \in DOMAIN rows : Promoted(i) \/ TaskFinished(i)
    \/ \E s \in feature.later : EditSpec(s)

DecomposeSpec == DecomposeInit /\ [][DecomposeNext]_dvars

-----------------------------------------------------------------------------
(* Reviewed, and the caller was not told that it fails.                    *)
Reviewed(i) == rows[i].reviewed \in {"pass", "warn"}
SlugsDiffer(i) == \A j, k \in DOMAIN rows :
    (rows[j].plan = rows[i].plan /\ rows[k].plan = rows[i].plan /\ rows[j].slug = rows[k].slug) => j = k

(* decompose.go:1349-1351, "It collapses impl+test pairs into complete     *)
(* task nodes so that intra-pair dependencies (test -> impl) are not       *)
(* treated as graph edges": among the tasks created from a reviewed        *)
(* proposal whose slugs differ, a cycle can only lie between a task and    *)
(* its own tests: no two pieces of work wait for each other.  A dev-plan   *)
(* that names a dependency of a task twice is left out: the review counts  *)
(* it as two (decompose.go:1318) and misses a cycle of two test tasks.     *)
Whole(i) == IF rows[i].slug[2] > 0 /\ Cardinality(rows[i].deps) = 1
            THEN CHOOSE d \in rows[i].deps : TRUE ELSE i

NamedOnce(plan) == \A i \in DOMAIN plan : \A j, k \in DOMAIN plan[i].deps :
                      plan[i].deps[j] = plan[i].deps[k] => j = k

WorkNeverWaitsInACircle ==
    LET reviewed == {i \in DOMAIN rows : Reviewed(i) /\ SlugsDiffer(i)} IN
    NamedOnce(feature.plan) =>
    ~HasCycle({e \in {<<Whole(i), Whole(d)>> : i \in reviewed, d \in DOMAIN rows} :
                  /\ e[1] # e[2]
                  /\ \E i \in reviewed : Whole(i) = e[1] /\ \E d \in rows[i].deps : Whole(d) = e[2]})

(* What propose makes of the criteria passes the review as long as nobody  *)
(* changes the specification in between, however the criteria are laid out *)
(* and grouped, and whichever of them share a slug: every criterion is     *)
(* covered and nothing waits in a circle.                                  *)
OwnProposalsPass ==
    [][ /\ proposal.source = "criteria" /\ proposal.lines = spec.lines
        /\ proposal' = proposal /\ verdict' # verdict
        => verdict' # "fail" ]_dvars
=============================================================================
