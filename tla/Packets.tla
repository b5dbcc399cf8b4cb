------------------------------ MODULE Packets ------------------------------
(***************************************************************************)
(* What an agent is given.  `next` claims a task and answers a packet:     *)
(* sections of the specification, knowledge, conventions of a role, cut to *)
(* a budget.  `handoff` answers a prompt for a sub-agent: the role, the    *)
(* skill and the knowledge that the binding of the stage asks for.         *)
(* Meanwhile the feature moves on and its worktree comes and goes.         *)
(*                                                                         *)
(* Sizes are numbers; a text is known by its size and its name.            *)
(***************************************************************************)
EXTENDS Integers, Sequences, SequencesExt, FiniteSets, FiniteSetsExt, Functions

CONSTANTS
    Agents,
    PacketScenes, \* [tasks, stage, tier, knowledge, sections, files, pointers, profiles,
                  \*  newRoles, oldRoles, skills, bindings, hints, constraints, surfaced,
                  \*  window, orders, moves]: the files an agent's calls find
    PrefixPairs,  \* pairs <<p, r>>: the role id p is a prefix of the role id r
    Budget        \* assemblyDefaultBudget: 65536 in the code

VARIABLES
    pscene,   \* the scene
    stage,    \* the status of the feature the tasks belong to
    board,    \* task -> [status, estimate, age]
    tree,     \* the feature has an active worktree record
    orders,   \* agent -> the calls it has still to make: [tool, id, role]
    flight,   \* agent -> the `next` call under way
    answers   \* agent -> the last answer

pvars == <<pscene, stage, board, tree, orders, flight, answers>>

No == "none"

(* What ValidateBinding asks of the sub-agents of a stage, as the tests ask *)
(* of the file that comes with the program: workers' roles and workers'    *)
(* skills, or neither.  No file of a skill is without a name.              *)
ASSUME BindingsAreValid ==
    \A scene \in PacketScenes :
        /\ No \notin DOMAIN scene.skills
        /\ \A at \in DOMAIN scene.bindings :
              LET b == scene.bindings[at] IN
              /\ b.subroles \in Seq(STRING) /\ b.subskills \in Seq(STRING) /\ b.skills \in Seq(STRING)
              /\ b.subroles = <<>> <=> b.subskills = <<>>
Missing == [id |-> No] \* no file, no role, no card
NoEstimate == -1            \* no estimate
Landed == [at |-> "idle", id |-> No, role |-> No, stage |-> No, again |-> FALSE]
Total(s) == FoldSeq(LAMBDA n, sum : n + sum, 0, s)

-----------------------------------------------------------------------------
(* Stages.  A task is claimed while its feature is in a working state; a   *)
(* prompt is made while there is a binding for its status.                 *)
WorkingStates == {"designing", "specifying", "dev-planning", "developing", "reviewing",
                  "needs-rework"}
FilesIncluded(s) == s \notin {"designing", "specifying", "dev-planning"}
WorkableStatuses == (WorkingStates \ {"needs-rework"}) \cup {"merging", "verifying"}
ValidTiers == {"bug_fix", "critical", "feature", "retro_fix"}

-----------------------------------------------------------------------------
(* Roles.  A file in .kbz/roles/ hides the one of the same name in         *)
(* .kbz/context/roles/, even when it cannot be read.                       *)
RoleFile(id) == IF id \in DOMAIN pscene.newRoles THEN pscene.newRoles[id]
               ELSE IF id \in DOMAIN pscene.oldRoles THEN pscene.oldRoles[id] ELSE Missing

ValidRole(file, id) == /\ file.id = id /\ file.identity
                       /\ file.words # <<>> /\ IsInjective(file.tools)

RoleLoads(id) == LET file == RoleFile(id) IN file # Missing /\ ValidRole(file, id)

(* The role and those it inherits from, the leaf first; cut where a file   *)
(* does not load or where the chain would come back to itself.             *)
Climb(loads(_), inherits(_), id) ==
    LET chain[n \in 0..6] ==
            IF n = 0 THEN IF loads(id) THEN <<id>> ELSE <<>>
            ELSE LET below == chain[n - 1]
                     up == IF below = <<>> THEN No ELSE inherits(Last(below)) IN
                 IF up = No \/ up \in ToSet(below) \/ ~loads(up) THEN below
                 ELSE Append(below, up) IN
    chain[6]

Inherits(id) == RoleFile(id).inherits
RoleChain(id) == Climb(RoleLoads, Inherits, id)
Complete(chain) == chain # <<>> /\ Inherits(Last(chain)) = No

MergeToolsUnion(base, more) == base \o SelectSeq(more, LAMBDA t : t \notin ToSet(base))

ResolveRole(id) ==
    LET chain == RoleChain(id) IN
    IF ~Complete(chain) THEN Missing
    ELSE [id |-> id,
          words |-> FoldRight(LAMBDA r, words : words \o RoleFile(r).words, chain, <<>>),
          tools |-> FoldRight(LAMBDA r, tools : MergeToolsUnion(tools, RoleFile(r).tools), chain, <<>>),
          fresh |-> RoleFile(id).fresh]

(* The hint of the nearest role on the way up that has one.                *)
ResolveToolHint(id) ==
    LET hinted == SelectSeq(IF RoleChain(id) = <<>> THEN <<id>> ELSE RoleChain(id),
                            LAMBDA r : r \in pscene.hints) IN
    IF hinted = <<>> THEN No ELSE Head(hinted)

(* Profiles share the old directory; the nearest conventions replace those *)
(* above.                                                                  *)
ProfileLoads(id) == id \in DOMAIN pscene.profiles
ProfileInherits(id) == pscene.profiles[id].inherits
ResolveProfile(id) ==
    LET chain == Climb(ProfileLoads, ProfileInherits, id)
        said == SelectSeq(chain, LAMBDA p : pscene.profiles[p].conventions # <<>>) IN
    IF chain = <<>> \/ ProfileInherits(Last(chain)) # No \/ said = <<>> THEN <<>>
    ELSE pscene.profiles[Head(said)].conventions

-----------------------------------------------------------------------------
(* The knowledge of a packet.  Confidence is stored as a quoted text, so   *)
(* List compares the number and assembly, which wants one, reads zero.     *)
KnowledgeListed(tier, least) == SelectSeq(pscene.knowledge, LAMBDA e : e.tier = tier /\ e.confidence >= least)
Shown(e) == 0

SortedBy(s, before(_, _)) ==
    LET order == SetToSortSeq(DOMAIN s, LAMBDA i, j : \/ before(s[i], s[j])
                                                      \/ ~before(s[j], s[i]) /\ i < j) IN
    [i \in DOMAIN s |-> s[order[i]]]
Surest(s) == SortedBy(s, LAMBDA a, b : Shown(a) > Shown(b))
Shakiest(s) == SortedBy(s, LAMBDA a, b : Shown(a) < Shown(b))

LoadKnowledge(role) ==
    Surest(SelectSeq(KnowledgeListed(2, 30) \o KnowledgeListed(3, 50), LAMBDA e : e.scope \in {"project", role}))

(* What finished tasks of the feature learned, once for each topic.        *)
SiblingKnowledge(known) ==
    LET done == {t \in DOMAIN board : board[t].status = "done"}
        from == SelectSeq(KnowledgeListed(2, 30), LAMBDA e : e.from \in done /\ e.forward) IN
    FoldLeft(LAMBDA kept, e : IF e.topic \in {k.topic : k \in ToSet(known \o kept)} THEN kept
                              ELSE Append(kept, e), <<>>, from)

MaxPointers == 10
PointersOf(known) ==
    LET named == {e.from : e \in ToSet(known)} \cap DOMAIN pscene.pointers IN
    Min({MaxPointers, SumSet({pscene.pointers[t] : t \in named})})

(* Every item of a list under a heading about criteria, and elsewhere an   *)
(* item that says what must or should be.                                  *)
ExtractCriteria(sections) ==
    UNION {{l \in ToSet(s.lines) : l.item /\ (s.accepts \/ l.must)} : s \in ToSet(sections)}

-----------------------------------------------------------------------------
(* The packet and its budget.  The numbers are the framing of an entry.    *)
SectionBytes(s) == s.bytes + s.name + 40
KnowledgeBytes(e) == e.bytes + e.name + 30
Fixed(p) == Total(p.constraints) + 20 * p.pointers + 20 * p.files
            + MapThenSumSet(LAMBDA l : l.size + 3, p.criteria) + p.fallback

ByteCount(p) == Total([i \in DOMAIN p.sections |-> SectionBytes(p.sections[i])])
                + Total([i \in DOMAIN p.knowledge |-> KnowledgeBytes(p.knowledge[i])]) + Fixed(p)

TruncateTopic(name, remaining) ==
    IF remaining <= 0 THEN 3
    ELSE IF name <= remaining THEN name ELSE IF remaining <= 3 THEN 3 ELSE remaining

(* What an item gives back when it is cut: its name counts as shortened to *)
(* what is left of the budget, of which nothing is left.                   *)
\* mutation: the name is counted twice
FreedTwice(item, usage) == item.bytes + 2 * item.name + (IF item.kind = "spec" THEN 40 ELSE 30)
Freed(item, usage) == item.bytes + TruncateTopic(item.name, Budget - usage)
                      + (IF item.kind = "spec" THEN 40 ELSE 30)

InTier(s, tier) == SelectSeq(s, LAMBDA e : (e.tier = 3) = (tier = 3))

TrimContext(p) ==
    LET line == Shakiest(InTier(p.knowledge, 3)) \o Shakiest(InTier(p.knowledge, 2)) \o Reverse(p.sections)
        cut == FoldLeft(LAMBDA c, item :
                            IF c.usage <= Budget THEN c
                            ELSE [usage |-> c.usage - Freed(item, c.usage),
                                  items |-> Append(c.items, item)],
                        [usage |-> ByteCount(p), items |-> <<>>], line)
        left == ToSet(line) \ ToSet(cut.items) IN
    [p EXCEPT !.knowledge = SelectSeq(InTier(p.knowledge, 2) \o InTier(p.knowledge, 3), LAMBDA e : e \in left),
              !.sections = SelectSeq(p.sections, LAMBDA s : s \in left),
              !.trimmed = cut.items, !.usage = cut.usage]

(* The packet, from a status that may be old by now; the stage is unknown  *)
(* when a task is claimed again.                                           *)
AssembleContext(role, status) ==
    LET known == LoadKnowledge(role)
        p == [sections |-> pscene.sections, knowledge |-> known, trimmed |-> <<>>,
              constraints |-> ResolveProfile(role),
              criteria |-> ExtractCriteria(pscene.sections),
              siblings |-> SiblingKnowledge(known), pointers |-> PointersOf(known),
              files |-> IF FilesIncluded(status) THEN pscene.files ELSE 0,
              fallback |-> IF pscene.sections = <<>> THEN 50 ELSE 0,
              role |-> role, aware |-> status \in WorkingStates, hint |-> ResolveToolHint(role),
              usage |-> 0]
        whole == [p EXCEPT !.usage = ByteCount(p)] IN
    IF whole.usage > Budget THEN TrimContext(p) ELSE whole

(* The answer leaves out what the siblings learned and where to read on.   *)
ContextToMap(p) == [f \in DOMAIN p \ {"siblings", "pointers"} |-> p[f]]

-----------------------------------------------------------------------------
(* next: which task, the claim, the packet.                                *)
Ahead(a, b) ==
    LET x == board[a] y == board[b] IN
    \/ x.estimate # NoEstimate /\ (y.estimate = NoEstimate \/ x.estimate < y.estimate)
    \/ x.estimate = y.estimate /\ x.age > y.age
    \/ x.estimate = y.estimate /\ x.age = y.age /\ a < b

Ready == {t \in DOMAIN board : board[t].status = "ready"}
TopReady == CHOOSE t \in Ready : \A u \in Ready \ {t} : Ahead(t, u)

AnsweredTo(a, answer) == answers' = [answers EXCEPT ![a] = answer]
Told(kind) == [kind |-> kind]
NextOrder(a, tool) == /\ flight[a].at = "idle" /\ orders[a] # <<>> /\ Head(orders[a]).tool = tool
                    /\ orders' = [orders EXCEPT ![a] = Tail(@)]
Ends(a) == flight' = [flight EXCEPT ![a] = Landed]

(* An id of the feature or of its batch stands for its first ready task.   *)
ResolveTask(a) ==
    LET call == Head(orders[a]) IN
    /\ NextOrder(a, "next")
    /\ IF call.id = "feature" /\ Ready = {} THEN AnsweredTo(a, Told("nothing ready")) /\ UNCHANGED flight
       ELSE /\ flight' = [flight EXCEPT ![a] =
                             [Landed EXCEPT !.at = "claim", !.role = call.role,
                                            !.id = IF call.id = "feature" THEN TopReady ELSE call.id]]
            /\ UNCHANGED answers
    /\ UNCHANGED <<pscene, stage, board, tree>>

StageAllows == stage \in WorkingStates

(* The claim: an active task is taken again, without a look at the stage.  *)
(* The hook makes a worktree for the feature unless that fails.            *)
ClaimTask(a) ==
    LET call == flight[a] status == board[call.id].status IN
    /\ call.at = "claim"
    /\ \/ /\ status = "active"
          /\ flight' = [flight EXCEPT ![a].at = "assemble", ![a].again = TRUE]
          /\ UNCHANGED <<board, tree, answers>>
       \/ /\ status = "ready" /\ StageAllows
          /\ board' = [board EXCEPT ![call.id].status = "active"]
          /\ tree' \in {TRUE, tree}
          /\ flight' = [flight EXCEPT ![a].at = "assemble", ![a].stage = stage]
          /\ UNCHANGED answers
       \/ /\ status \notin {"ready", "active"} \/ (status = "ready" /\ ~StageAllows)
          /\ AnsweredTo(a, Told("refused")) /\ Ends(a)
          /\ UNCHANGED <<board, tree>>
    /\ UNCHANGED <<pscene, stage, orders>>

(* The answer, with the worktree as it is by now.  The lookup of a feature *)
(* without a worktree finds no record, whose path is then read.            *)
Card(role, status) ==
    LET known == status \in DOMAIN pscene.bindings
        id == IF role # No \/ ~known THEN role ELSE Head(pscene.bindings[status].roles) IN
    IF ResolveRole(id) = Missing THEN Missing
    ELSE [id |-> id, known |-> known,
          rules |-> {c \in pscene.constraints : c.role = id /\ c.stage = status}]

Assemble(a) ==
    LET call == flight[a] IN
    /\ call.at = "assemble"
    /\ AnsweredTo(a, IF ~tree THEN Told("panic")
                   ELSE [kind |-> "packet", of |-> ContextToMap(AssembleContext(call.role, call.stage)),
                         card |-> Card(call.role, call.stage), again |-> call.again])
    /\ Ends(a)
    /\ UNCHANGED <<pscene, stage, board, tree, orders>>

-----------------------------------------------------------------------------
(* handoff: the pipeline.                                                  *)
Prefixed(p, r) == p = r \/ <<p, r>> \in PrefixPairs
At(s, i) == IF i \in DOMAIN s THEN s[i] ELSE No

RoleID(b, asked) == IF asked # No THEN asked
                    ELSE IF b.subroles # <<>> THEN Head(b.subroles) ELSE At(b.roles, 1)

(* A worker's role has its skill at the same place of the binding.         *)
WorkerAt(b, asked) ==
    LET fits == {i \in DOMAIN b.subroles : Prefixed(b.subroles[i], asked)} IN
    IF asked = No \/ fits = {} THEN 0 ELSE Min(fits)
\* mutation: whoever is asked for
SkillNameOfWorkers(b, asked) ==
    IF WorkerAt(b, asked) > 0 THEN At(b.subskills, WorkerAt(b, asked))
    ELSE IF b.subskills # <<>> THEN Head(b.subskills) ELSE At(b.skills, 1)
SkillName(b, asked) ==
    IF WorkerAt(b, asked) > 0 THEN At(b.subskills, WorkerAt(b, asked))
    ELSE IF asked = No /\ b.subskills # <<>> THEN Head(b.subskills) ELSE At(b.skills, 1)

Part(position, tokens) == IF tokens = 0 THEN <<>> ELSE <<[position |-> position, tokens |-> tokens]>>

AssembleSections(b, role, skill, hint, said) ==
    Part(1, 10 + said) \o Part(2, 20) \o Part(3, 10)
    \o Part(4, Len(role.words) + skill.words) \o Part(5, skill.avoid) \o Part(6, IF hint = No THEN 0 ELSE 30)
    \o Part(12, IF b.workers THEN 80 ELSE 0)
    \o Part(7, skill.procedure) \o Part(8, skill.output) \o Part(9, pscene.surfaced)
    \o Part(10, skill.criteria) \o Part(11, skill.questions)

Tokens(sections) == Total([i \in DOMAIN sections |-> sections[i].tokens])
RefuseAbove == (pscene.window * 60) \div 100
WarnAbove == (pscene.window * 40) \div 100

(* What was not looked at for long is used all the same, with a warning.   *)
Stale(role, skill) == {x \in {"role"} : ~role.fresh} \cup {x \in {"skill"} : ~skill.fresh}

Prompt(asked, said) ==
    LET b == pscene.bindings[stage]
        id == RoleID(b, asked) name == SkillName(b, asked)
        role == ResolveRole(id)
        parts == AssembleSections(b, role, pscene.skills[name], ResolveToolHint(id), said) IN
    IF stage \notin WorkableStatuses \/ pscene.tier \notin ValidTiers THEN Told("out of pipeline")
    ELSE IF stage \notin DOMAIN pscene.bindings THEN Told("no binding")
    ELSE IF role = Missing THEN Told("no role")
    ELSE IF name \notin DOMAIN pscene.skills THEN Told("no skill")
    ELSE IF Tokens(parts) > RefuseAbove THEN Told("too large")
    ELSE [kind |-> "prompt", role |-> id, skill |-> name, asked |-> asked, stage |-> stage,
          parts |-> parts, warns |-> Tokens(parts) > WarnAbove,
          stale |-> Stale(role, pscene.skills[name]),
          card |-> Card(asked, stage)]

(* A second review brings guidance of its own.                             *)
Guidance == IF stage = "reviewing" /\ pscene.cycle >= 2 THEN 60 ELSE 0

Handoff(a) ==
    LET call == Head(orders[a]) IN
    /\ NextOrder(a, "handoff")
    /\ AnsweredTo(a, IF board[call.id].status \in {"active", "ready", "needs-rework"}
                   THEN Prompt(call.role, Guidance) ELSE Told("refused"))
    /\ UNCHANGED <<pscene, stage, board, tree, flight>>

-----------------------------------------------------------------------------
(* The rest of the system: the feature moves on, a merge or a cleanup ends *)
(* its worktree, a task is finished or sent back.                          *)
AdvanceStage(to) ==
    /\ <<stage, to>> \in pscene.moves
    /\ stage' = to
    /\ UNCHANGED <<pscene, board, tree, orders, flight, answers>>

EndWorktree ==
    /\ tree /\ tree' = FALSE
    /\ UNCHANGED <<pscene, stage, board, orders, flight, answers>>

FinishTask(t) ==
    /\ board[t].status = "active"
    /\ board' = [board EXCEPT ![t].status = "done"]
    /\ UNCHANGED <<pscene, stage, tree, orders, flight, answers>>

Opens(scene) ==
    /\ pscene = scene /\ stage = scene.stage /\ board = scene.tasks /\ tree = FALSE
    /\ orders = scene.orders
    /\ flight = [a \in Agents |-> Landed]
    /\ answers = [a \in Agents |-> Told("nothing yet")]

PacketsInit == \E scene \in PacketScenes : Opens(scene)

PacketsNext ==
    \/ \E a \in Agents : ResolveTask(a) \/ ClaimTask(a) \/ Assemble(a) \/ Handoff(a)
    \/ \E to \in WorkableStatuses \cup WorkingStates : AdvanceStage(to)
    \/ EndWorktree
    \/ \E t \in DOMAIN board : FinishTask(t)

PacketsSpec == PacketsInit /\ [][PacketsNext]_pvars

-----------------------------------------------------------------------------
(* A packet holds no more than the usage it states, and that is within the *)
(* budget unless nothing was left to cut; what is not in it is on the list *)
(* of what was cut, the old and the local first: no section is cut while   *)
(* an entry stays, none of tier 2 while one of tier 3 does                 *)
(* (assembly.go:891).                                                      *)
PacketFits ==
    \A a \in Agents : answers[a].kind = "packet" =>
        LET p == answers[a].of
            cut == ToSet(p.trimmed)
            kept == ToSet(p.knowledge) \cup ToSet(p.sections) IN
        /\ ByteCount([p EXCEPT !.trimmed = <<>>] @@ [pointers |-> 0]) <= p.usage
        /\ p.usage <= Budget \/ kept = {}
        /\ kept \cup cut = ToSet(LoadKnowledge(p.role)) \cup ToSet(pscene.sections)
        /\ (\E x \in cut : x.kind = "spec") => p.knowledge = <<>>
        /\ (\E x \in cut : x.kind = "note" /\ x.tier = 2) => \A e \in ToSet(p.knowledge) : e.tier # 3

(* A prompt pairs its role with the skill made for it: a worker's role has *)
(* the skill at its place in the binding, any other role the stage's own   *)
(* skill, and without a role named the workers' first of both              *)
(* (pipeline.go:401, pipeline.go:442).                                     *)
PromptPairsRoleAndSkill ==
    \A a \in Agents : answers[a].kind = "prompt" =>
        LET p == answers[a] b == pscene.bindings[p.stage]
            worker == {i \in DOMAIN b.subroles : Prefixed(b.subroles[i], p.role)} IN
        IF worker = {} THEN p.skill = b.skills[1] ELSE p.skill \in {b.subskills[i] : i \in worker}

(* A call to next or handoff is answered, and a claim brings its packet:   *)
(* assembly.go:160 says of the worktree's path "Empty string when no       *)
(* worktree exists".                                                       *)
ClaimIsAnswered == \A a \in Agents : answers[a].kind # "panic"
=============================================================================
