--------------------------- MODULE MC_Decompose ---------------------------
(***************************************************************************)
(* Small specifications and dev-plans for Decompose.  Dev-plans: every     *)
(* dependency graph over three tasks, under titles that do and do not end  *)
(* in "tests" and titles that are the same.  Specifications: up to two     *)
(* sections with each form of criterion, criteria that share a slug,       *)
(* criteria about tests, and a section of five.                            *)
(***************************************************************************)
EXTENDS Decompose

Text(name, words, slug) ==
    [name |-> name, words |-> words, slug |-> slug, concern |-> FALSE, test |-> FALSE,
     testword |-> FALSE, short |-> FALSE, compound |-> FALSE]
Says(text, concern, test) == [text EXCEPT !.concern = concern, !.test = test, !.testword = test]

Heading(name, level, criteria) ==
    [kind |-> "head", level |-> level, criteria |-> criteria, meta |-> name = "scope",
     text |-> Text(name, {name}, <<name, 0>>)]
SpecRow(kind, text) == [kind |-> kind, text |-> text]

Import == Text("import", {"import", "database"}, <<"import", 0>>)
Export == Text("export", {"export", "endpoint", "storage"}, <<"export", 0>>)
Twin   == Text("twin", {"export", "command"}, <<"export", 0>>)    \* alike in 40 characters
Latest == Says(Text("latest", {"latest"}, <<"latest", 0>>), FALSE, TRUE)
Verify == Says(Text("verify", {"verify", "export"}, <<"verify", 0>>), TRUE, FALSE)
Tested == Says(Text("import tests", {"import", "tests"}, <<"import", 1>>), FALSE, TRUE)

Several(kind, texts) == [i \in DOMAIN texts |-> SpecRow(kind, texts[i])]
Storage == Heading("storage", 2, FALSE)
Accept == Heading("acceptance", 2, TRUE)
Detail == Heading("detail", 3, FALSE)
Table == <<SpecRow("row", Import), SpecRow("separator", Import)>>

SpecTexts == {
    <<Storage>> \o Several("box", <<Import, Export>>) \o <<Accept>> \o Several("bold", <<Verify>>),
    <<Accept>> \o Several("numbered", <<Import, Export, Twin, Latest, Verify>>),
    <<Accept>> \o Table \o Several("row", <<Import, Tested>>) \o <<SpecRow("prose", Import)>>
               \o Several("row", <<Export>>),
    Several("box", <<Export, Twin>>) \o <<Heading("scope", 2, FALSE), Accept, Detail>>
               \o Several("bold", <<Import>>),
    <<Storage>> \o Several("box", <<Tested>>) \o <<Accept>> \o Several("box", <<Import>>),
    <<Storage, Accept>> \o Several("numbered", <<Verify, Verify>>),
    <<Storage>> \o Several("bold", <<Import>>)}

Task(text, deps, effort, covers) == [text |-> text, deps |-> deps, effort |-> effort, covers |-> covers]
Named(slug) == [Text(slug[1], {slug[1], "import", "database"}, slug) EXCEPT !.testword = slug[2] > 0]
NumberLists == {<<>>, <<1>>, <<2>>, <<3>>, <<1, 2>>}

Breakdowns ==
    {[i \in 1..3 |-> Task(Named(titles[i]), deps[i], IF i = 1 THEN 8 ELSE 3, {})] :
        deps \in [1..3 -> NumberLists] \cup {<<<<9>>, <<1, 9>>, <<2, 3>>>>, <<<<2, 2>>, <<1>>, <<>>>>},
        titles \in {<<<<"a", 0>>, <<"a", 1>>, <<"b", 0>>>>, <<<<"a", 0>>, <<"b", 1>>, <<"a", 1>>>>,
                    <<<<"a", 1>>, <<"b", 1>>, <<"b", 0>>>>, <<<<"a", 1>>, <<"a", 1>>, <<"b", 0>>>>}}

OneBox == <<Storage>> \o Several("box", <<Import>>)

McFeatures ==
    {[lines |-> s, plan |-> <<>>, later |-> SpecTexts, calls |-> 2, approved |-> FALSE] : s \in SpecTexts}
    \cup {[lines |-> OneBox, plan |-> b, later |-> {}, calls |-> 1, approved |-> TRUE] : b \in Breakdowns}
    \cup {[lines |-> OneBox, later |-> {}, calls |-> 1, approved |-> FALSE,
           plan |-> <<Task(Named(<<"a", 0>>), <<>>, 13, c), Task(Named(<<"b", 0>>), <<1>>, 0, {})>>] :
             c \in {{"import"}, {"AC-01"}}}
=============================================================================
