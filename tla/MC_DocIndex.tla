---------------------------- MODULE MC_DocIndex ----------------------------
(* Two documents; texts with a skipped heading level, a fenced heading and  *)
(* references before, inside and after nested sections.  In Sharing a       *)
(* concept is given, later, the alias of another that stands behind it.     *)
EXTENDS DocIndex

Line(k, level, title, names) == [k |-> k, level |-> level, title |-> title, refs |-> names, links |-> {}, ac |-> FALSE]
Headed(level, title) == Line("heading", level, title, {})
Prose(names) == Line("text", 0, "Other", names)
Fence == Line("fence", 0, "Other", {})

DesignText == <<Headed(1, "Other"), Line("field", 0, "design", {}), Headed(3, "Decisions"), Prose({"F1"}),
               Headed(2, "Scope"), Fence, Headed(1, "Other"), Fence, Prose({"F1"})>>
SpecText == <<Prose({"F1"}), Headed(2, "Scope"), [Prose({}) EXCEPT !.ac = TRUE, !.links = {"D1"}], Headed(1, "Decisions"),
             Headed(2, "Other"), Prose({"T1"}), Headed(2, "Scope")>>
MC_Texts == {DesignText, SpecText}
MC_HeadingRole == [Other |-> "", Decisions |-> "decision", Scope |-> "constraint"]
MC_HintRole == [Other |-> "", Decisions |-> "decision", Scope |-> ""]

Concept(name, aliases) == [name |-> name, aliases |-> aliases]
Class(path, new, used) == [path |-> path, intro |-> new, used |-> used]
Introducing == <<Class(<<1, 1>>, <<Concept("lock", {"mutex"})>>, <<>>)>>
ByAlias == <<Class(<<1>>, <<Concept("mutex", {})>>, <<"lock">>)>>
Few == (DesignText :> {Introducing}) @@ (SpecText :> {ByAlias})
Twice == <<Class(<<1, 1>>, <<Concept("queue", {}), Concept("lock", {"mutex"})>>, <<>>)>>
Alias == <<Class(<<1, 1>>, <<Concept("queue", {"mutex"})>>, <<>>)>>
Using == <<Class(<<1>>, <<>>, <<"mutex">>), Class(<<2>>, <<>>, <<"queue">>)>>
Shared == (DesignText :> {Twice, Alias, Introducing}) @@ (SpecText :> {Using, ByAlias})
Fewer == (DesignText :> {Introducing}) @@ (SpecText :> {})

Both == {[d \in IndexDocs |-> IF d = "D1" THEN DesignText ELSE SpecText]}
Scene(does, workers, submits) == [does |-> does, workers |-> workers, files |-> Both, submits |-> submits]
Failing == Scene({"ingest", "classify", "fail", "restart"}, 1, Few)
Rebuilding == Scene({"ingest", "classify", "rebuild", "restart"}, 1, Few)
Together == Scene({"ingest", "classify"}, 2, Few)
Editing == Scene({"ingest", "classify", "edit"}, 1, Fewer)
Deleting == Scene({"ingest", "classify", "delete"}, 1, Fewer)
DeletingFails == Scene({"ingest", "delete", "fail"}, 1, Fewer)
Sharing == Scene({"ingest", "classify"}, 1, Shared)
MC_IndexScenes == {Failing, Rebuilding, Together, Editing, Deleting, DeletingFails, Sharing}
=============================================================================
