------------------------------ MODULE DocIndex ------------------------------
(***************************************************************************)
(* Document intelligence: what is known of the text of a document.  A      *)
(* document is parsed into sections when it is registered; agents classify *)
(* the sections and name the concepts they introduce or use.  The result   *)
(* is kept four times: in an index file per document, in the edges of one  *)
(* graph file, in one registry of concepts and in the rows of a database.  *)
(* A call writes them one after another, and loads the whole graph and the *)
(* whole registry to write them back: icalls[w] is the call that worker w  *)
(* of the server has under way, worker 0 the command `kbz rebuild-index`.  *)
(*                                                                         *)
(* A text is a sequence of lines and a byte offset the number of a line.   *)
(***************************************************************************)
EXTENDS Naturals, Sequences, SequencesExt, FiniteSets, FiniteSetsExt, TLC

CONSTANTS
    IndexDocs,   \* the documents
    Texts,       \* what is written in them: sequences of lines
                 \* [k, level, title, refs, links, ac],
                 \* k one of "heading", "fence", "field" (- Type: title), "blank", "text"
    WorkOf,      \* the feature tasks are handed out of
    HeadingRole, \* the role a heading's words give a section; "" when they give none
    HintRole,    \* the role they suggest to an agent; "" when they suggest none
    IndexScenes  \* [does, workers, files, submits]: the calls made, how many at a time, the
                 \* texts there are at the start and, for each, the classifications agents
                 \* submit, sequences of [path, intro, used], intro of [name, aliases]

VARIABLES
    iscene,    \* one of IndexScenes
    contents,  \* document -> its text; NoText when it has been removed
    known,     \* the documents with a record
    indexes,   \* document -> its index file
    graph,     \* graph.yaml: edges <<from, type, to>>
    registry,  \* concepts.yaml: a sequence of [name, aliases, intro, used]
    db,        \* docint.db: document -> its rows
    held,      \* the server's handle: "closed", "open", or "gone" when the file was removed
    orphan,    \* the rows of the removed file
    icalls,    \* worker -> the call it is in
    unsure     \* history: documents whose last call was cut, failed to write its
               \* rows, or overlapped another

ivars == <<iscene, contents, known, indexes, graph, registry, db, held, orphan, icalls, unsure>>

IDoes(name) == name \in iscene.does
Serving == 1..iscene.workers
Idle == [op |-> "none"]
NoText == <<>>
NoIndex == [st |-> "none"]
NoRows == [st |-> "none"]

-----------------------------------------------------------------------------
(* Layer 1: the sections of a text.                                        *)

Fenced(text, i) == Cardinality({j \in 1..(i - 1) : text[j].k = "fence"}) % 2 = 1
ScanHeadings(text) == {i \in DOMAIN text : text[i].k = "heading" /\ ~Fenced(text, i)}

(* A section ends before the next heading that is not below its own.       *)
SectionEnd(text, i) ==
    Min({Len(text) + 1} \cup {j \in ScanHeadings(text) : j > i /\ text[j].level <= text[i].level})

(* open is the stack of sections a heading may be a child of.              *)
Place(text, tree, i) ==
    LET open   == SelectSeq(tree.open, LAMBDA s : s.level < text[i].level)
        above  == Last(open)
        path   == Append(above.path, above.kids + 1)
    IN  [open |-> Append([open EXCEPT ![Len(open)].kids = @ + 1],
                         [path |-> path, level |-> text[i].level, kids |-> 0]),
         sections |-> Append(tree.sections,
                         [path |-> path, title |-> text[i].title, from |-> i, end |-> SectionEnd(text, i)])]

ParseStructure[text \in Texts] ==
    FoldLeft(LAMBDA tree, i : Place(text, tree, i),
             [open |-> <<[path |-> <<>>, level |-> 0, kids |-> 0]>>, sections |-> <<>>],
             SetToSortSeq(ScanHeadings(text), <)).sections

Sections(text) == Range(ParseStructure[text])
SectionPaths(text) == {s.path : s \in Sections(text)}
Within(s, i) == s.from <= i /\ i < s.end

(* Layer 2: what a text says by itself.  A line belongs to the last, and   *)
(* so the deepest, section around it.                                      *)
SectionForOffset(text, i) ==
    LET around == SelectSeq(ParseStructure[text], LAMBDA s : Within(s, i))
    IN  IF around = <<>> THEN <<>> ELSE Last(around).path

EntityRefs[text \in Texts] ==
    UNION {{<<e, SectionForOffset(text, i)>> : e \in text[i].refs} : i \in DOMAIN text}

CrossDocLinks[text \in Texts] ==
    UNION {{<<l, SectionForOffset(text, i)>> : l \in text[i].links} : i \in DOMAIN text}

MatchConventionalRole(title) == HeadingRole[title]

ConventionalRoles[text \in Texts] ==
    LET byTitle == {s \in Sections(text) : MatchConventionalRole(s.title) # ""}
        byLine  == {s \in Sections(text) \ byTitle : \E i \in DOMAIN text : Within(s, i) /\ text[i].ac}
    IN  {<<s.path, MatchConventionalRole(s.title)>> : s \in byTitle} \cup {<<s.path, "requirement">> : s \in byLine}

(* The list below the first heading, and the type it gives the document.   *)
FrontMatterLines(text) ==
    LET first == Min({i \in DOMAIN text : text[i].k = "heading"} \cup {Len(text)})
        start == Min({i \in DOMAIN text : i > first /\ text[i].k # "blank"} \cup {Len(text) + 1})
    IN  {i \in DOMAIN text : i >= start /\ \A j \in start..i : text[j].k = "field"}

FrontMatter[text \in Texts] ==
    IF FrontMatterLines(text) = {} THEN "" ELSE text[Max(FrontMatterLines(text))].title

(* What the guide suggests to the agent that classifies.                   *)
MatchSuggestedRole(title) == HintRole[title]

SuggestClassifications[text \in Texts] ==
    LET titled == {s \in Sections(text) : MatchSuggestedRole(s.title) # ""}
        listed == {s \in Sections(text) \ titled : s.path = <<1>> /\ FrontMatter[text] # ""}
    IN  {<<s.path, MatchSuggestedRole(s.title)>> : s \in titled} \cup {<<s.path, "narrative">> : s \in listed}

-----------------------------------------------------------------------------
(* Layer 3: classifications, and the registry of the concepts they name.   *)

AllRoles == {"requirement", "decision", "rationale", "constraint", "assumption", "risk",
             "question", "definition", "example", "alternative", "narrative"}

ValidateClassification(c) == c.path # <<>> /\ c.role \in AllRoles

ValidateClassifications(ix, hash, cls) ==
    /\ hash = ix.text
    /\ \A c \in Range(cls) : c.path \in SectionPaths(ix.text) /\ ValidateClassification(c)

ApplyClassifications(ix, cls) == [ix EXCEPT !.cls = cls, !.classified = TRUE]

(* A name is looked for among the names, then among the aliases.           *)
FindConcept(reg, name) ==
    LET named   == {i \in DOMAIN reg : reg[i].name = name}
        aliased == {i \in DOMAIN reg : name \in reg[i].aliases}
    IN  IF named # {} THEN Min(named) ELSE IF aliased # {} THEN Min(aliased) ELSE 0

UpsertConceptRef(reg, name, ref, list) ==
    LET new == [name |-> name, aliases |-> {}, intro |-> {}, used |-> {}]
        at  == FindConcept(reg, name)
    IN  IF at = 0 THEN Append(reg, [new EXCEPT ![list] = {ref}])
                  ELSE [reg EXCEPT ![at][list] = @ \cup {ref}]

MergeAliases(reg, name, aliases) ==
    [reg EXCEPT ![FindConcept(reg, name)].aliases = @ \cup (aliases \ {name})]

UpdateConceptRegistry(reg, d, cls) ==
    LET introduce(r, c) == FoldLeft(LAMBDA q, e :
                MergeAliases(UpsertConceptRef(q, e.name, <<d, c.path>>, "intro"), e.name, e.aliases),
                r, c.intro)
        use(r, c) == FoldLeft(LAMBDA q, name : UpsertConceptRef(q, name, <<d, c.path>>, "used"), r, c.used)
    IN  FoldLeft(LAMBDA r, c : use(introduce(r, c), c), reg, cls)

RemoveDocumentFromRegistry(reg, d) ==
    LET rest == [i \in DOMAIN reg |->
                    [reg[i] EXCEPT !.intro = {r \in @ : r[1] # d}, !.used = {r \in @ : r[1] # d}]]
    IN  SelectSeq(rest, LAMBDA c : c.intro # {} \/ c.used # {})

ReclassifiedFirst(reg, d, cls) == RemoveDocumentFromRegistry(UpdateConceptRegistry(reg, d, cls), d)
Reclassified(reg, d, cls) == UpdateConceptRegistry(RemoveDocumentFromRegistry(reg, d), d, cls)

-----------------------------------------------------------------------------
(* Layer 4: the graph, and the rows of a document in the database.         *)

BuildGraphEdges(d, ix) ==
    LET concepts(c) == {<<<<d, c.path>>, "INTRODUCES", <<e.name>>>> : e \in Range(c.intro)}
                       \cup {<<<<d, c.path>>, "USES", <<name>>>> : name \in Range(c.used)}
    IN  {<<<<d, Front(s.path)>>, "CONTAINS", <<d, s.path>>>> : s \in Sections(ix.text)}
        \cup {<<<<d, r[2]>>, "REFERENCES", <<r[1]>>>> : r \in EntityRefs[ix.text]}
        \cup {<<<<d, l[2]>>, "LINKS_TO", <<l[1]>>>> : l \in CrossDocLinks[ix.text]}
        \cup UNION {concepts(c) : c \in Range(ix.cls)}

EdgesOf(d, edges) == {e \in edges : e[1][1] = d}
MergeGraphEdgesAdding(edges, d, new) == edges \cup new
MergeGraphEdges(edges, d, new) == (edges \ EdgesOf(d, edges)) \cup new

(* The text of a section is cut out of the file by the offsets of the      *)
(* index; a section the file is too short for has its title.               *)
SectionText(file, s) == [i \in s.from..(Min({s.end, Len(file) + 1}) - 1) |-> file[i].refs]
Rows(d, ix, file) ==
    [st |-> "rows", edges |-> BuildGraphEdges(d, ix), refs |-> EntityRefs[ix.text],
     fts |-> {<<s.path, SectionText(file, s)>> : s \in Sections(ix.text)}]

ServerRows == IF held = "gone" THEN orphan ELSE db

FindByEntity(e) ==
    UNION {{<<d, r[2]>> : r \in {q \in ServerRows[d].refs : q[1] = e}}
           : d \in {x \in IndexDocs : ServerRows[x] # NoRows /\ indexes[x] # NoIndex}}

(* By the type of the document; one without a type comes with the designs. *)
TypeOrder(type) == IF type = "specification" THEN 1 ELSE IF type = "dev-plan" THEN 2 ELSE 0
TraceEntity(e) ==
    SetToSortSeq(FindByEntity(e), LAMBDA a, b :
        TypeOrder(FrontMatter[indexes[a[1]].text]) < TypeOrder(FrontMatter[indexes[b[1]].text]))

(* The bytes of a section are cut out of the file by the index's offsets.  *)
GetSection(d, path) ==
    LET s == CHOOSE x \in Sections(indexes[d].text) : x.path = path IN SectionText(contents[d], s)

TraceSections(e) ==
    SelectSeq(TraceEntity(e), LAMBDA x :
        x[2] \in SectionPaths(indexes[x[1]].text) /\ DOMAIN GetSection(x[1], x[2]) # {})

-----------------------------------------------------------------------------
(* Calls.  alone says that no other call has overlapped this one.          *)

To(w, c) == icalls' = [icalls EXCEPT ![w] = c]
Busy == {icalls[w].d : w \in {v \in Serving : icalls[v] # Idle}}
Begin(w, c) ==
    LET others == {v \in DOMAIN icalls \ {w} : icalls[v] # Idle}
    IN  /\ icalls[w] = Idle
        /\ icalls' = [v \in DOMAIN icalls |->
                        IF v = w THEN [alone |-> others = {}] @@ c
                        ELSE IF v \in others THEN [icalls[v] EXCEPT !.alone = FALSE] ELSE icalls[v]]
        /\ unsure' = IF others = {} THEN unsure ELSE unsure \cup Busy \cup {c.d}

NewIndex(text) == [st |-> "index", text |-> text, cls |-> <<>>, classified |-> FALSE]

(* IngestDocument starts a new index, without classifications.             *)
IngestDocument(w, d) ==
    /\ contents[d] # NoText
    /\ Begin(w, [op |-> "ingest", d |-> d, at |-> "graph", ix |-> NewIndex(contents[d]), graph |-> graph])
    /\ UNCHANGED <<iscene, contents, indexes, graph, registry, db, held, orphan>>

IngestSubmitted(w, d) ==
    /\ IDoes("ingest") /\ d \notin known
    /\ known' = known \cup {d}
    /\ IngestDocument(w, d)

(* Handing out a task parses what its feature's documents lack an index of.*)
ExtractSpecSections(w, d) ==
    /\ IDoes("ingest") /\ d \in known /\ indexes[d] = NoIndex /\ TraceSections(WorkOf) = <<>>
    /\ IngestDocument(w, d)
    /\ UNCHANGED known

(* An agent takes the hash and the roles from the guide of a text, which   *)
(* the document may have had before, and adds concepts.                    *)
Submission(text, marks) ==
    [i \in DOMAIN marks |->
        [role |-> IF \E r \in SuggestClassifications[text] : r[1] = marks[i].path
                  THEN (CHOOSE r \in SuggestClassifications[text] : r[1] = marks[i].path)[2]
                  ELSE "rationale"] @@ marks[i]]

ClassifyDocument(w, d, hash, cls) ==
    /\ IDoes("classify")
    /\ indexes[d] # NoIndex
    /\ ValidateClassifications(indexes[d], hash, cls)
    /\ Begin(w, [op |-> "classify", d |-> d, at |-> "registry",
                 ix |-> ApplyClassifications(indexes[d], cls), registry |-> registry, graph |-> {}])
    /\ UNCHANGED <<iscene, contents, known, indexes, graph, registry, db, held, orphan>>

ClassifyAction(w, d) ==
    \E text \in Texts : \E marks \in iscene.submits[text] :
        ClassifyDocument(w, d, text, Submission(text, marks))

SaveConceptRegistry(w) ==
    LET c == icalls[w] IN
    /\ c.op = "classify" /\ c.at = "registry"
    /\ registry' = Reclassified(c.registry, c.d, c.ix.cls)
    /\ To(w, [c EXCEPT !.at = "graph", !.graph = graph, !.registry = <<>>])
    /\ UNCHANGED <<iscene, contents, known, indexes, graph, db, held, orphan, unsure>>

SaveGraph(w) ==
    LET c == icalls[w] IN
    /\ c.op \in {"ingest", "classify"} /\ c.at = "graph"
    /\ graph' = MergeGraphEdges(c.graph, c.d, BuildGraphEdges(c.d, c.ix))
    /\ To(w, [c EXCEPT !.at = "index", !.graph = {}])
    /\ UNCHANGED <<iscene, contents, known, indexes, registry, db, held, orphan, unsure>>

SaveDocumentIndex(w) ==
    LET c == icalls[w] IN
    /\ c.op \in {"ingest", "classify"} /\ c.at = "index"
    /\ indexes' = [indexes EXCEPT ![c.d] = c.ix]
    /\ To(w, [c EXCEPT !.at = "rows"])
    /\ UNCHANGED <<iscene, contents, known, graph, registry, db, held, orphan, unsure>>

(* A classification reads the file again, an ingest has its text already.  *)
UpsertDocumentSQLite(w) ==
    LET c    == icalls[w]
        rows == Rows(c.d, c.ix, IF c.op = "ingest" THEN c.ix.text ELSE contents[c.d])
    IN
    /\ c.op \in {"ingest", "classify"} /\ c.at = "rows"
    /\ IF held = "gone" THEN orphan' = [orphan EXCEPT ![c.d] = rows] /\ UNCHANGED <<db, held>>
                        ELSE db' = [db EXCEPT ![c.d] = rows] /\ held' = "open" /\ UNCHANGED orphan
    /\ unsure' = IF c.alone THEN unsure \ {c.d} ELSE unsure
    /\ To(w, Idle)
    /\ UNCHANGED <<iscene, contents, known, indexes, graph, registry>>

(* An error of the database is logged, and the call succeeds.              *)
RowsNotWritten(w) ==
    LET c == icalls[w] IN
    /\ IDoes("fail") /\ c.op \in {"ingest", "classify"} /\ c.at = "rows"
    /\ unsure' = unsure \cup {c.d}
    /\ To(w, Idle)
    /\ UNCHANGED <<iscene, contents, known, indexes, graph, registry, db, held, orphan>>

(* A deletion removes the file, the record and the index file, in this     *)
(* order, and may get no further than the first or the second: an error in *)
(* removing the index is ignored.  What the document has in the graph, the *)
(* registry and the database stays there.                                  *)
DeleteIndexed(d, removed) ==
    /\ IDoes("delete") /\ d \in known
    /\ removed # {"file", "record", "index"} => IDoes("fail")
    /\ contents' = [contents EXCEPT ![d] = NoText]
    /\ known' = IF "record" \in removed THEN known \ {d} ELSE known
    /\ indexes' = IF "index" \in removed THEN [indexes EXCEPT ![d] = NoIndex] ELSE indexes
    /\ UNCHANGED <<iscene, graph, registry, db, held, orphan, icalls, unsure>>

(* Nothing is told when a file is edited, or written anew.                 *)
EditFile(d, text) ==
    /\ IDoes("edit") \/ contents[d] = NoText
    /\ text # contents[d]
    /\ contents' = [contents EXCEPT ![d] = text]
    /\ UNCHANGED <<iscene, known, indexes, graph, registry, db, held, orphan, icalls, unsure>>

(* The server stops, in the middle of its calls or not, and starts again.  *)
RestartServer ==
    /\ IDoes("restart")
    /\ held # "closed" \/ Busy # {}
    /\ held' = "closed"
    /\ orphan' = [d \in IndexDocs |-> NoRows]
    /\ unsure' = unsure \cup Busy \cup (IF held = "gone" THEN {d \in IndexDocs : orphan[d] # db[d]} ELSE {})
    /\ icalls' = [w \in DOMAIN icalls |-> IF w = 0 THEN icalls[w] ELSE Idle]
    /\ UNCHANGED <<iscene, contents, known, indexes, graph, registry, db>>

(* kbz rebuild-index removes the file, which a running server keeps open,  *)
(* and writes the rows of one document after another.  It passes over one  *)
(* whose index has been removed since it listed them.                      *)
RebuildIndex ==
    LET left == {d \in IndexDocs : indexes[d] # NoIndex} IN
    /\ IDoes("rebuild") /\ icalls[0] = Idle
    /\ icalls' = [w \in DOMAIN icalls |->
                    IF w = 0 THEN [op |-> "rebuild", left |-> left, alone |-> TRUE]
                    ELSE IF icalls[w] # Idle THEN [icalls[w] EXCEPT !.alone = FALSE] ELSE Idle]
    /\ db' = [d \in IndexDocs |-> NoRows]
    /\ IF held = "open" THEN held' = "gone" /\ orphan' = db ELSE UNCHANGED <<held, orphan>>
    /\ unsure' = unsure \cup Busy
    /\ UNCHANGED <<iscene, contents, known, indexes, graph, registry>>

RebuildDocument(d) ==
    LET c == icalls[0] IN
    /\ c.op = "rebuild" /\ d \in c.left
    /\ db' = IF indexes[d] = NoIndex THEN db ELSE [db EXCEPT ![d] = Rows(d, indexes[d], contents[d])]
    /\ To(0, IF c.left = {d} THEN Idle ELSE [c EXCEPT !.left = @ \ {d}])
    /\ UNCHANGED <<iscene, contents, known, indexes, graph, registry, held, orphan, unsure>>

RebuildDies ==
    LET c == icalls[0] IN
    /\ IDoes("restart") /\ c.op = "rebuild"
    /\ unsure' = unsure \cup c.left
    /\ To(0, Idle)
    /\ UNCHANGED <<iscene, contents, known, indexes, graph, registry, db, held, orphan>>

-----------------------------------------------------------------------------
(* What callers are told.                                                  *)

FindByEntityScan(e) ==
    UNION {{<<d, r[2]>> : r \in {q \in EntityRefs[indexes[d].text] : q[1] = e}}
           : d \in {x \in IndexDocs : indexes[x] # NoIndex}}

GetImpact(node) ==
    UNION {{x \in ServerRows[d].edges : x[3] = node} : d \in {y \in IndexDocs : ServerRows[y] # NoRows}}
GetImpactScan(node) == {x \in graph : x[3] = node}

(* An agent's classification of a section counts before its heading.       *)
SectionRole(ix, path) ==
    LET given == SelectSeq(ix.cls, LAMBDA c : c.path = path)
        own   == {r \in ConventionalRoles[ix.text] : r[1] = path}
    IN  IF given # <<>> THEN given[1].role ELSE IF own # {} THEN (CHOOSE r \in own : TRUE)[2] ELSE ""

FindByRole(role) ==
    UNION {{<<d, c.path>> : c \in {x \in Range(indexes[d].cls) : x.role = role}}
           \cup {<<d, r[1]>> : r \in {x \in ConventionalRoles[indexes[d].text] : x[2] = role}}
           : d \in {x \in IndexDocs : indexes[x] # NoIndex}}

(* The word searched for is a reference; type and role may be left empty.  *)
SearchSections(word, type, role) ==
    UNION {{<<d, s[1]>> : s \in {q \in ServerRows[d].fts :
                /\ \E i \in DOMAIN q[2] : word \in q[2][i]
                /\ role # "" => SectionRole(indexes[d], q[1]) = role}}
           : d \in {x \in IndexDocs :
                        /\ ServerRows[x] # NoRows /\ indexes[x] # NoIndex
                        /\ type # "" => FrontMatter[indexes[x].text] = type}}

FindByConcept(name) ==
    LET at == FindConcept(registry, name) IN
    IF at = 0 THEN {} ELSE registry[at].intro \cup registry[at].used

Find(by, x) ==
    CASE by = "concept" -> FindByConcept(x)
      [] by = "entity_id" -> FindByEntity(x)
      [] by = "role" -> FindByRole(x)

PendingClassification == {d \in IndexDocs : indexes[d] # NoIndex /\ ~indexes[d].classified}

Opened(scene) ==
    /\ iscene = scene
    /\ contents \in iscene.files
    /\ known = {} /\ graph = {} /\ registry = <<>>
    /\ indexes = [d \in IndexDocs |-> NoIndex]
    /\ db = [d \in IndexDocs |-> NoRows] /\ orphan = db
    /\ held = "closed" /\ unsure = {}
    /\ icalls = [w \in 0..iscene.workers |-> Idle]

IndexInit == \E scene \in IndexScenes : Opened(scene)

WorkerStep(w) ==
    \/ \E d \in IndexDocs : IngestSubmitted(w, d) \/ ExtractSpecSections(w, d)
    \/ \E d \in IndexDocs : ClassifyAction(w, d)
    \/ SaveConceptRegistry(w) \/ SaveGraph(w) \/ SaveDocumentIndex(w)
    \/ UpsertDocumentSQLite(w) \/ RowsNotWritten(w)

IndexNext ==
    \/ \E w \in Serving : WorkerStep(w)
    \/ \E d \in IndexDocs : RebuildDocument(d)
    \/ \E d \in IndexDocs, removed \in {{"file"}, {"file", "record"}, {"file", "record", "index"}} :
          DeleteIndexed(d, removed)
    \/ \E d \in IndexDocs, t \in Texts : EditFile(d, t)
    \/ RestartServer \/ RebuildIndex \/ RebuildDies

IndexSpec == IndexInit /\ [][IndexNext]_ivars

-----------------------------------------------------------------------------
(* A document no call is working on, whose last call ran by itself to its  *)
(* end.                                                                    *)
Settled == {d \in IndexDocs : /\ indexes[d] # NoIndex /\ d \notin unsure \cup Busy
                              /\ icalls[0] # Idle => d \notin icalls[0].left}
Concerning(answer) == {x \in answer : x[1] \in Settled}
Nodes == {<<x>> : x \in UNION {UNION {text[i].refs : i \in DOMAIN text} : text \in Texts}}
         \cup {<<d, p>> : d \in IndexDocs, p \in UNION {SectionPaths(text) : text \in Texts}}

(* The database answers and the scan of the files the code falls back to   *)
(* say the same of a settled document, whoever else wrote to the graph,    *)
(* rebuilt the rows or restarted the server meanwhile; what a search finds *)
(* there is in the outline, and with a role it is found by role as well.   *)
(* (internal/service/intelligence.go:240, 482; docint/store.go:122, 285)   *)
SourcesAgree == Settled # {} =>
    /\ \A node \in Nodes :
          {x \in GetImpact(node) : x[1][1] \in Settled} = {x \in GetImpactScan(node) : x[1][1] \in Settled}
    /\ \A e \in {n[1] : n \in {m \in Nodes : Len(m) = 1}} :
          /\ Concerning(Find("entity_id", e)) = Concerning(FindByEntityScan(e))
          /\ \A hit \in Concerning(SearchSections(e, "", "")) : hit[2] \in SectionPaths(indexes[hit[1]].text)
          /\ \A role \in AllRoles :
                Concerning(SearchSections(e, "", role)) \subseteq Find("role", role)

(* Every section of a settled, classified document stays filed under a     *)
(* concept that carries each name its classification submitted, as its own *)
(* or as an alias, and is found by that name, whatever other documents     *)
(* added, renamed or withdrew.  The lookup may miss it in one case only: a *)
(* name that is nobody's own and the alias of several concepts is answered *)
(* with the first of them, which may have been given the alias later.      *)
(* (internal/docint/concepts.go:8, 65, 96-112)                             *)
ConceptsAreFound ==
    \A d \in Settled \ PendingClassification : \A c \in Range(indexes[d].cls) :
        \A name \in Range(c.used) \cup {e.name : e \in Range(c.intro)} :
            LET entries == Range(registry)
                aliased == {e \in entries : name \in e.aliases}
                shared  == Cardinality(aliased) > 1 /\ \A e \in entries : e.name # name
            IN  IF shared THEN \E e \in aliased : <<d, c.path>> \in e.intro \cup e.used
                          ELSE <<d, c.path>> \in Find("concept", name)
=============================================================================
