---------------------------- MODULE MC_Packets ----------------------------
(***************************************************************************)
(* Small instances for Packets.  Trimming: knowledge and sections that fit *)
(* the budget together or not.  Sharing: two agents ask for work of one    *)
(* feature that moves on.  Delegating: prompts for the roles of the        *)
(* bindings in .kbz/stage-bindings.yaml.                                   *)
(***************************************************************************)
EXTENDS Packets, TLC

PacketNote(topic, tier, confidence, scope, from, bytes) ==
    [kind |-> "note", topic |-> topic, name |-> 10, tier |-> tier, confidence |-> confidence,
     scope |-> scope, from |-> from, forward |-> topic # "kept", bytes |-> bytes]
Sect(heading, accepts, bytes, lines) ==
    [kind |-> "spec", heading |-> heading, name |-> 20, accepts |-> accepts, bytes |-> bytes, lines |-> lines]
Item(text, must) == [text |-> text, size |-> 30, item |-> TRUE, must |-> must]

Notes == <<PacketNote("style", 2, 80, "project", "T1", 20000), PacketNote("kept", 2, 40, "go", "T3", 15000),
           PacketNote("trap", 3, 90, "project", "T3", 25000), PacketNote("guess", 3, 50, "go", No, 10000),
           PacketNote("doubt", 3, 20, "project", No, 60000), PacketNote("other", 2, 90, "web", "T3", 30000)>>
SpecSections == <<Sect("Intent", FALSE, 20000, <<Item("shall", TRUE), Item("may be", FALSE)>>),
           Sect("Acceptance Criteria", TRUE, 30000, <<Item("one", FALSE), Item("shall", TRUE)>>)>>

Sublists(s) == {SelectSeq(s, LAMBDA x : x \in keep) : keep \in SUBSET ToSet(s)}

Role(id, up, words, tools) ==
    [id |-> id, identity |-> TRUE, words |-> words, tools |-> tools, inherits |-> up, fresh |-> id # "base"]
NewRoles ==
    ("base" :> Role("base", No, <<"w">>, <<"entity">>))
    @@ ("implementer" :> Role("implementer", "base", <<"x">>, <<"entity", "finish">>))
    @@ ("implementer-go" :> Role("implementer-go", "implementer", <<"y">>, <<"finish">>))
    @@ ("orchestrator" :> Role("orchestrator", "base", <<"z">>, <<>>))
    @@ ("reviewer-one" :> Role("reviewer-one", "base", <<"r">>, <<>>))
    @@ ("reviewer-two" :> Role("reviewer-two", "reviewer-one", <<"r">>, <<>>))
    @@ ("broken" :> [Role("broken", No, <<>>, <<>>) EXCEPT !.identity = FALSE])
    @@ ("ring" :> Role("ring", "gnir", <<"r">>, <<>>))
    @@ ("gnir" :> Role("gnir", "ring", <<"r">>, <<>>))
OldRoles == ("broken" :> Role("broken", No, <<"b">>, <<>>)) @@ ("go" :> Role("go", No, <<"g">>, <<>>))
Profiles == ("base" :> [inherits |-> No, conventions |-> <<100, 200>>])
            @@ ("go" :> [inherits |-> "base", conventions |-> <<>>])

Skill(n) == [words |-> n, avoid |-> n, procedure |-> 100 * n, output |-> n, criteria |-> 0,
             questions |-> n, fresh |-> n < 2]
SkillFiles == ("implement-task" :> Skill(1)) @@ ("orchestrate-development" :> Skill(2))
          @@ ("orchestrate-review" :> Skill(3)) @@ ("review-code" :> Skill(4))

Binding(workers, role, skill, subroles, subskills) ==
    [workers |-> workers, roles |-> <<role>>, skills |-> <<skill>>, subroles |-> subroles,
     subskills |-> subskills]
Bindings ==
    ("developing" :> Binding(TRUE, "orchestrator", "orchestrate-development", <<"implementer">>, <<"implement-task">>))
    @@ ("reviewing" :> Binding(TRUE, "orchestrator", "orchestrate-review", <<"reviewer-one", "reviewer-two">>,
                               <<"review-code">>))
    @@ ("merging" :> Binding(FALSE, "orchestrator", "orchestrate-review", <<>>, <<>>))
    @@ ("verifying" :> Binding(FALSE, "orchestrator", "missing", <<>>, <<>>))

TaskRow(status, estimate, age) == [status |-> status, estimate |-> estimate, age |-> age]
Call(tool, id, role) == [tool |-> tool, id |-> id, role |-> role]

Common ==
    [tasks |-> ("T1" :> TaskRow("ready", 3, 1)) @@ ("T2" :> TaskRow("ready", NoEstimate, 2)) @@ ("T3" :> TaskRow("done", 1, 1)),
     stage |-> "developing", tier |-> "feature", cycle |-> 1, knowledge |-> Notes, sections |-> SpecSections,
     files |-> 2, pointers |-> [t \in {"T1"} |-> 12], profiles |-> Profiles, newRoles |-> NewRoles,
     oldRoles |-> OldRoles, skills |-> SkillFiles, bindings |-> Bindings, hints |-> {"implementer"},
     constraints |-> {[role |-> "orchestrator", stage |-> "developing", rule |-> "delegate"]},
     surfaced |-> 40, window |-> 1000, orders |-> [a \in Agents |-> <<>>], moves |-> {}]

Trimming ==
    {[Common EXCEPT !.knowledge = notes, !.sections = texts, !.stage = at,
                    !.orders = [a \in Agents |-> IF a = "A1" THEN <<Call("next", "T1", role)>> ELSE <<>>]] :
        notes \in Sublists(Notes), texts \in Sublists(SpecSections), at \in {"developing", "designing"},
        role \in {"go", No}}

Sharing ==
    {[Common EXCEPT !.moves = {<<"developing", "reviewing">>, <<"reviewing", "needs-rework">>,
                               <<"reviewing", "merging">>, <<"needs-rework", "developing">>},
                    !.orders = [a \in Agents |-> <<Call("next", "feature", No), Call(tool, "T1", No)>>]] :
        tool \in {"next", "handoff"}}

Delegating ==
    {[Common EXCEPT !.stage = at, !.window = window, !.cycle = 2, !.tier = tier,
                    !.orders = [a \in Agents |-> IF a = "A1" THEN <<Call("handoff", "T1", role)>> ELSE <<>>]] :
        at \in WorkableStatuses \cup {"needs-rework", "proposed"}, window \in {400, 1000},
        tier \in {"feature", "odd"}, role \in DOMAIN NewRoles \cup {"go", "nobody", No}}

McPacketScenes == Trimming \cup Sharing \cup Delegating
McPrefixPairs == {<<"implementer", "implementer-go">>}
=============================================================================
