---------------------------- MODULE MC_Documents ----------------------------
(* Instances of Documents: a feature in a batch of a plan, two files that   *)
(* up to three documents are made of, and the calls made on them, scenario  *)
(* by scenario.                                                             *)
EXTENDS Documents

Design == <<"design", "a">>
Plan == <<"plan", "a">>
Doc(path, type, owner, auto) == [path |-> path, type |-> type, owner |-> owner, auto |-> auto]

Approving ==
    [docs |-> {Doc(Design, "design", "F", FALSE)},
     calls |-> {"approve", "refresh", "evaluate", "classify", "delete"},
     texts |-> 4]
Superseding ==
    [docs |-> {Doc(Design, "design", "F", FALSE), Doc(Plan, "design", "B", FALSE)},
     calls |-> {"approve", "refresh", "supersede"},
     texts |-> 2]
Rewriting == [Superseding EXCEPT !.calls = {"approve", "supersede"}, !.texts = 3]
Planning ==
    [docs |-> {Doc(Plan, "dev-plan", "F", TRUE), Doc(Plan, "report", "B", TRUE)},
     calls |-> {"approve", "refresh", "import", "false_positive", "decompose", "delete"},
     texts |-> 4]
Moving ==
    [docs |-> {Doc(Design, "design", "F", FALSE), Doc(Plan, "report", "B", TRUE)},
     calls |-> {"approve", "refresh", "move"},
     texts |-> 4]
Replanning ==
    [docs |-> {Doc(Design, "design", "F", FALSE)},
     calls |-> {"approve", "refresh", "kbz_move", "move_feature", "delete"},
     texts |-> 4]

MC_Scenarios == {Approving, Superseding, Rewriting, Planning, Moving, Replanning}
MC_Paths == {Design, Plan}
MC_StatusLines == {Design}
MC_ParentOf == [B |-> "P", P |-> "none"]
MC_FirstText == [p \in MC_Paths |-> IF p = Design THEN 1 ELSE 2]
=============================================================================
