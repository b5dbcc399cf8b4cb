---------------------------- MODULE MC_Knowledge ----------------------------
(***************************************************************************)
(* Small instances for Knowledge.  The first two notes are exact copies in *)
(* different scopes; the third contradicts the first; the last is about    *)
(* something else.                                                         *)
(***************************************************************************)
EXTENDS Knowledge

Note(topic, scope, content) == [topic |-> topic, scope |-> scope, content |-> content]
InOne == Note({"a"}, "one", {1, 2, 3})
InTwo == Note({"a"}, "two", {1, 2, 3})
Contradicting == Note({"a", "b"}, "one", {1, 2, 4})
Other == Note({"b"}, "project", {5})

KScene(notes, tiers, does, entries, uses) ==
    [notes |-> notes, tiers |-> tiers, calls |-> does, entries |-> entries, uses |-> uses]
Compacting == KScene({InOne, InTwo, Contradicting}, {3}, {"compact", "report"}, 3, 1)
Flagging   == KScene({InOne, InTwo}, {3}, {"compact", "report", "flag", "confirm", "crash"}, 2, 3)
Pruning    == KScene({InOne, Contradicting}, {2, 3}, {"prune", "time", "promote", "report", "update"}, 1, 3)
Resolving  == KScene({InOne, Contradicting}, {3}, {"resolve", "retire", "confirm", "flag"}, 2, 2)
Surfacing  == KScene({InOne, Other}, {3}, {"surface", "time", "confirm", "crash"}, 2, 0)
MC_KScenes == {Compacting, Flagging, Pruning, Resolving, Surfacing}
=============================================================================
