------------------------------ MODULE Documents ------------------------------
(***************************************************************************)
(* Document records: what the workflow knows of a design, a specification  *)
(* or a dev-plan, kept beside the Markdown file that people edit.          *)
(*                                                                         *)
(* The record and the file change independently.  A record holds the hash  *)
(* of the file it last looked at, and an approval is worth something only  *)
(* as long as that hash stands for the text the approver saw.  Several     *)
(* calls write twice (approve, supersede, move, delete, auto-approval): the *)
(* second half is in pend until it happens or its process dies, and other  *)
(* calls and the authors of the files come in between.                     *)
(*                                                                         *)
(* A file is [text, layout, line]: text stands for the words, layout for   *)
(* their whitespace, line for the Status field in it.  The content hash    *)
(* tells all three apart, the canonical hash ignores the layout.           *)
(***************************************************************************)
EXTENDS Naturals, FiniteSets

CONSTANTS
    Paths,           \* <<directory, base name>> of the files under work/
    Scenarios,       \* what is registered, the calls made, and the bound on
                     \* the texts written: [docs, calls, texts]
    Feature, Parents,  \* the feature, and the batches and plans it may be in
    ParentOf,        \* the plan a batch is in, "none" if it is in none
    FirstText,       \* the files at the start: a text, or 0 for no file
    CompleteTexts,   \* the texts that have the required sections
    StatusLines,     \* the paths whose file has a Status field
    Authors,         \* "revert": go back to an old text; "race": edit during a call
    MaxPending       \* bound on the calls between their two writes

VARIABLES
    scenario, \* one of Scenarios
    files,   \* path -> the file, or NoFile
    rec,     \* document id -> its record, or NoRec
    parent,  \* the feature's parent
    refs,    \* feature.design, feature.spec, feature.dev_plan
    intro,   \* document id -> its classifications: "none", "plain", "intro"
    false_positives,  \* the types with a false positive for required_sections
    texts,   \* texts written so far
    pend,    \* the second halves still to come
    told      \* document id -> the text its approval stands for

docvars == <<scenario, files, rec, parent, refs, intro, false_positives, texts, pend, told>>

GatedTypes == {"design", "spec", "dev-plan"}
AutoApproveTypes == {"spec", "dev-plan", "research", "report"}
NoFile == [text |-> 0]
NoRec == [st |-> "none"]
NoDoc == <<>>

(* The id is made of the owner, the type and the base name of the path.    *)
DocID(r) == <<r.owner, r.type, r.path[2]>>
Registrations == scenario.docs
MaxTexts == scenario.texts
Calls(name) == name \in scenario.calls
Docs == {DocID(r) : r \in Registrations}
Known == {d \in Docs : rec[d].st # "none"}
Approved(r) == r.st = "approved"

(* What is registered is under work/, and the texts at the start are       *)
(* numbered.                                                               *)
ASSUME DocumentsAssumption ==
    /\ IsFiniteSet(Paths)
    /\ \A p \in Paths : FirstText[p] \in 0..Cardinality({q \in Paths : FirstText[q] # 0})
    /\ \A s \in Scenarios : /\ s.texts \in Nat
                           /\ \A r \in s.docs : r.path \in Paths /\ r.auto \in BOOLEAN

InferDocType(path, type) ==
    CASE path[1] = "design" -> "design"
      [] path[1] = "spec" -> "spec"
      [] path[1] = "plan" -> "dev-plan"
      [] path[1] = "research" -> "research"
      [] path[1] \in {"reports", "reviews"} -> "report"
      [] OTHER -> type

Exists(path) == files[path] # NoFile
Canonical(f) == [text |-> f.text, line |-> f.line]

(* storage: a write compares the record it was made from, and does not     *)
(* compare when there is no record.                                        *)
Unchanged(d, seen) == rec[d].st = "none" \/ rec[d] = seen
Save(d, r) == rec' = [rec EXCEPT ![d] = r]

(* Unless authors race with the calls, the text of a file does not change  *)
(* under a call on its document; unless they revert, no older file comes   *)
(* to a path that another record knows.                                    *)
PathsOf(p) == IF p.op = "movefeature" THEN {}
              ELSE {p.r.path} \cup IF "path" \in DOMAIN p THEN {p.path} ELSE {}
Quiet(path) == "race" \in Authors \/ \A p \in pend : path \notin PathsOf(p)
Unclaimed(path, d) == "revert" \in Authors \/ \A e \in Known \ {d} : rec[e].path # path
Room == Cardinality(pend) < MaxPending

-----------------------------------------------------------------------------
(* What authors do to the files. *)

EditText(path) ==
    /\ Exists(path) /\ Quiet(path)
    /\ \E t \in 1..MaxTexts :
          /\ t = texts + 1 \/ ("revert" \in Authors /\ t < files[path].text)
          /\ files' = [files EXCEPT ![path].text = t]
          /\ texts' = IF t > texts THEN t ELSE texts
    /\ UNCHANGED <<scenario, rec, parent, refs, intro, false_positives, pend, told>>

EditLayout(path) ==
    /\ Exists(path) /\ Quiet(path) /\ files[path].layout = 0
    /\ files' = [files EXCEPT ![path].layout = 1]
    /\ UNCHANGED <<scenario, rec, parent, refs, intro, false_positives, texts, pend, told>>

-----------------------------------------------------------------------------
(* Registration.  The tool drops auto_approve for the gated types.  A path *)
(* that is not canonical for its owner is reported as an error after all of *)
(* this has happened, so the refusal changes nothing here.                 *)

NewRecord(r, f) ==
    [st |-> "draft", path |-> r.path, type |-> r.type, owner |-> r.owner, hash |-> f,
     canon |-> Canonical(f), eval |-> "none", sup |-> NoDoc, by |-> NoDoc]

SetDocumentRef(owner, type, d) ==
    refs' = IF owner = Feature /\ type \in DOMAIN refs THEN [refs EXCEPT ![type] = d] ELSE refs

AutoApproves(r) == r.auto /\ r.type \notin GatedTypes

SubmitDocument(r) ==
    LET d == DocID(r) IN
    /\ Exists(r.path) /\ rec[d].st = "none"
    /\ AutoApproves(r) => Room /\ r.type \in AutoApproveTypes
    /\ Save(d, NewRecord(r, files[r.path]))
    /\ IF AutoApproves(r)
       THEN /\ pend' = pend \cup {[op |-> "autoapprove", d |-> d, r |-> rec'[d]]}
            /\ UNCHANGED refs
       ELSE /\ SetDocumentRef(r.owner, r.type, d)
            /\ UNCHANGED pend
    /\ UNCHANGED <<scenario, files, parent, intro, false_positives, texts, told>>

AutoApproveEnd(p) ==
    /\ p \in pend /\ p.op = "autoapprove"
    /\ pend' = pend \ {p}
    /\ Save(p.d, [p.r EXCEPT !.st = "approved"])
    /\ told' = [told EXCEPT ![p.d] = p.r.hash.text]
    /\ SetDocumentRef(p.r.owner, p.r.type, p.d)
    /\ UNCHANGED <<scenario, files, parent, intro, false_positives, texts>>

(* doc import submits every file that no record has the path of, which is  *)
(* also what doc audit lists.                                              *)
Unregistered == {path \in Paths : Exists(path) /\ \A d \in Known : rec[d].path # path}

Import(path, owner) ==
    LET r == [path |-> path, type |-> InferDocType(path, "none"), owner |-> owner, auto |-> FALSE] IN
    /\ Calls("import")
    /\ path \in Unregistered /\ DocID(r) \in Docs
    /\ SubmitDocument(r)

-----------------------------------------------------------------------------
(* Approval: the gates, the write of the record, then the Status field of  *)
(* the file and, without comparing, the record again with the new hash.    *)

(* A scenario without false positives declares no required sections. *)
SectionsGate(r) == \/ ~ Calls("false_positive")
                   \/ files[r.path].text \in CompleteTexts
                   \/ r.type \in false_positives
EvaluationGate(r) == Calls("evaluate") => r.eval = "pass"
ConceptGate(d) == rec[d].type \in GatedTypes => intro[d] # "plain"

ApproveDocument(d) ==
    /\ Calls("approve")
    /\ Room
    /\ rec[d].st = "draft" /\ Exists(rec[d].path)
    /\ ConceptGate(d) /\ EvaluationGate(rec[d]) /\ SectionsGate(rec[d])
    /\ Save(d, [rec[d] EXCEPT !.st = "approved", !.hash = files[rec[d].path]])
    /\ told' = [told EXCEPT ![d] = files[rec[d].path].text]
    /\ pend' = pend \cup {[op |-> "approve", d |-> d, r |-> rec'[d]]}
    /\ UNCHANGED <<scenario, files, parent, refs, intro, false_positives, texts>>

PatchStatusField(path) == [files EXCEPT ![path].line = "approved"]

ApproveEnd(p) ==
    /\ p \in pend /\ p.op = "approve"
    /\ pend' = pend \ {p}
    /\ IF Exists(p.r.path) /\ files[p.r.path].line # "none"
       THEN /\ files' = PatchStatusField(p.r.path)
            /\ Save(p.d, [p.r EXCEPT !.hash = files'[p.r.path]])
               ELSE UNCHANGED <<files, rec>>
    /\ UNCHANGED <<scenario, parent, refs, intro, false_positives, texts, told>>

(* A superseded document may be refreshed with the doc tool; the skeleton  *)
(* dev-plan's refresh refuses it.                                          *)
SameLine(r, f) == r.canon.line = f.line
FormattingOnly(r, f) == r.canon = Canonical(f)

RefreshedAlwaysDemotes(r, f) ==
    [r EXCEPT !.hash = f, !.canon = Canonical(f),
              !.st = IF FormattingOnly(r, f) THEN r.st ELSE "draft"]
Refreshed(r, f) ==
    [r EXCEPT !.hash = f, !.canon = Canonical(f),
              !.st = IF r.st = "approved" /\ ~ FormattingOnly(r, f) THEN "draft" ELSE r.st]

RefreshContentHash(d) ==
    /\ Calls("refresh")
    /\ d \in Known /\ Exists(rec[d].path)
    /\ files[rec[d].path] # rec[d].hash
    /\ Save(d, Refreshed(rec[d], files[rec[d].path]))
    /\ UNCHANGED <<scenario, files, parent, refs, intro, false_positives, texts, pend, told>>

(* Any evaluation replaces the one before; it stays when the text changes. *)
AttachQualityEvaluation(d) ==
    /\ Calls("evaluate") /\ rec[d].st \in {"draft", "approved"}
    /\ \E e \in {"fail", "pass"} : rec[d].eval # e /\ Save(d, [rec[d] EXCEPT !.eval = e])
    /\ UNCHANGED <<scenario, files, parent, refs, intro, false_positives, texts, pend, told>>

RecordFalsePositive(d) ==
    /\ Calls("false_positive")
    /\ d \in Known /\ rec[d].type \notin false_positives
    /\ false_positives' = false_positives \cup {rec[d].type}
    /\ UNCHANGED <<scenario, files, rec, parent, refs, intro, texts, pend, told>>

(* doc_intel classify. *)
Classify(d) ==
    /\ Calls("classify")
    /\ d \in Known
    /\ \E c \in {"plain", "intro"} : intro[d] # c /\ intro' = [intro EXCEPT ![d] = c]
    /\ UNCHANGED <<scenario, files, rec, parent, refs, false_positives, texts, pend, told>>

-----------------------------------------------------------------------------
(* Supersession: the successor's link first, then the document itself. *)

SupersedeDocument(d, e) ==
    /\ Calls("supersede")
    /\ Room
    /\ rec[d].st = "approved" /\ e \in Known
    /\ Save(e, [rec[e] EXCEPT !.sup = d])
    /\ pend' = pend \cup {[op |-> "supersede", d |-> d, r |-> rec[d], by |-> e]}
    /\ UNCHANGED <<scenario, files, parent, refs, intro, false_positives, texts, told>>

SupersedeEnd(p) ==
    /\ p \in pend /\ p.op = "supersede"
    /\ pend' = pend \ {p}
    /\ IF Unchanged(p.d, p.r)
       THEN /\ Save(p.d, [p.r EXCEPT !.st = "superseded", !.by = p.by])
               ELSE UNCHANGED rec
    /\ UNCHANGED <<scenario, files, parent, refs, intro, false_positives, texts, told>>

-----------------------------------------------------------------------------
(* Moves.  doc move renames over whatever is at the destination, keeps the *)
(* approval whatever the text, and may change the type.                    *)

MoveDocument(d, path) ==
    LET from == rec[d].path IN
    /\ Calls("move")
    /\ Room /\ d \in Known
    /\ path # from /\ Exists(from) /\ Quiet(from) /\ Quiet(path) /\ Unclaimed(path, d)
    /\ files' = [files EXCEPT ![path] = files[from], ![from] = NoFile]
    /\ pend' = pend \cup {[op |-> "move", d |-> d, r |-> rec[d], path |-> path,
                           f |-> files[from]]}
    /\ UNCHANGED <<scenario, rec, parent, refs, intro, false_positives, texts, told>>

MoveEnd(p) ==
    /\ p \in pend /\ p.op = "move"
    /\ pend' = pend \ {p}
    /\ IF Unchanged(p.d, p.r)
       THEN /\ Save(p.d, [p.r EXCEPT !.path = p.path, !.hash = p.f,
                                     !.type = InferDocType(p.path, p.r.type)])
            /\ told' = IF Approved(p.r) THEN [told EXCEPT ![p.d] = p.f.text] ELSE told
       ELSE UNCHANGED <<rec, told>>
    /\ UNCHANGED <<scenario, files, parent, refs, intro, false_positives, texts>>

(* kbz move: git mv, which needs a free destination, then the record       *)
(* without comparing; the document now belongs to the plan.                *)
GitMoved(from, to) == [files EXCEPT ![to] = files[from], ![from] = NoFile]
CanGitMove(d, to) == /\ Exists(rec[d].path) /\ ~ Exists(to)
                     /\ Quiet(rec[d].path) /\ Quiet(to) /\ Unclaimed(to, d)

KbzMove(d, path, plan) ==
    /\ Calls("kbz_move")
    /\ Room /\ d \in Known
    /\ CanGitMove(d, path)
    /\ files' = GitMoved(rec[d].path, path)
    /\ pend' = pend \cup {[op |-> "repath", d |-> d, r |-> rec[d], path |-> path, owner |-> plan]}
    /\ UNCHANGED <<scenario, rec, parent, refs, intro, false_positives, texts, told>>

Repathed(r, path, owner) ==
    [r EXCEPT !.path = path, !.owner = owner,
              !.hash = IF Exists(path) THEN files[path] ELSE r.hash]

UpdateDocumentPathAndOwner(p) ==
    /\ p \in pend /\ p.op = "repath"
    /\ pend' = pend \ {p}
    /\ IF rec[p.d].st # "none"
       THEN /\ Save(p.d, Repathed(rec[p.d], p.path, p.owner))
            /\ told' = IF Approved(rec[p.d]) /\ Exists(p.path)
                       THEN [told EXCEPT ![p.d] = files[p.path].text] ELSE told
       ELSE UNCHANGED <<rec, told>>
    /\ UNCHANGED <<scenario, files, parent, refs, intro, false_positives, texts>>

(* kbz move of a feature: the parent, then the files and records of its    *)
(* documents, one by one; they all end up owned by the new parent.         *)
MoveFeature(plan) ==
    /\ Calls("move_feature")
    /\ Room /\ plan \in Parents /\ plan # parent
    /\ parent' = plan
    /\ pend' = pend \cup {[op |-> "movefeature", docs |-> {d \in Known : rec[d].owner = Feature},
                           plan |-> plan]}
    /\ UNCHANGED <<scenario, files, rec, refs, intro, false_positives, texts, told>>

MoveNext(p, d, path) ==
    /\ p \in pend /\ p.op = "movefeature"
    /\ d \in p.docs /\ d \in Known
    /\ CanGitMove(d, path)
    /\ files' = GitMoved(rec[d].path, path)
    /\ Save(d, [rec[d] EXCEPT !.path = path, !.owner = p.plan, !.hash = files[rec[d].path]])
    /\ told' = IF Approved(rec[d]) THEN [told EXCEPT ![d] = files[rec[d].path].text] ELSE told
    /\ pend' = (pend \ {p}) \cup {[p EXCEPT !.docs = @ \ {d}]}
    /\ UNCHANGED <<scenario, parent, refs, intro, false_positives, texts>>

-----------------------------------------------------------------------------
(* Removal: the file and the feature's reference, then the record with its *)
(* index.                                                                  *)

DeleteDocument(d, force) ==
    /\ Calls("delete")
    /\ Room /\ d \in Known
    /\ Approved(rec[d]) => force
    /\ Quiet(rec[d].path)
    /\ files' = [files EXCEPT ![rec[d].path] = NoFile]
    /\ SetDocumentRef(rec[d].owner, rec[d].type, NoDoc)
    /\ pend' = pend \cup {[op |-> "delete", d |-> d, r |-> rec[d]]}
    /\ UNCHANGED <<scenario, rec, parent, intro, false_positives, texts, told>>

DeleteEnd(p) ==
    /\ p \in pend /\ p.op = "delete"
    /\ pend' = pend \ {p}
    /\ Save(p.d, NoRec)
    /\ intro' = [intro EXCEPT ![p.d] = "none"]
    /\ UNCHANGED <<scenario, files, parent, refs, false_positives, texts, told>>

(* decompose apply writes a skeleton dev-plan unless the feature has a     *)
(* dev-plan elsewhere; the file is overwritten whoever edited it.  A new   *)
(* record is approved past every gate, a known one is refreshed and then   *)
(* approved if the gates let it; a superseded one stays as it is.          *)
SkeletonRecord(d, r, f) ==
    IF d \notin Known THEN [NewRecord(r, f) EXCEPT !.st = "approved"]
    ELSE IF rec[d].st = "superseded" THEN rec[d]
    ELSE IF EvaluationGate(rec[d]) /\ (~ Calls("false_positive") \/ f.text \in CompleteTexts)
         THEN [Refreshed(rec[d], f) EXCEPT !.st = "approved"]
         ELSE Refreshed(rec[d], f)

WriteSkeletonDevPlan(r) ==
    LET d == DocID(r)
        f == [text |-> texts + 1, layout |-> 0, line |-> "none"] IN
    /\ Calls("decompose")
    /\ r.type = "dev-plan" /\ r.owner = Feature /\ texts < MaxTexts /\ Quiet(r.path)
    /\ \A e \in Known : rec[e].type = r.type /\ rec[e].owner = r.owner => rec[e].path = r.path
    /\ d \in Known => rec[d].path = r.path
    /\ texts' = texts + 1
    /\ files' = [files EXCEPT ![r.path] = f]
    /\ Save(d, SkeletonRecord(d, r, f))
    /\ IF d \in Known THEN UNCHANGED refs ELSE SetDocumentRef(r.owner, r.type, d)
    /\ told' = IF Approved(rec'[d]) THEN [told EXCEPT ![d] = f.text] ELSE told
    /\ UNCHANGED <<scenario, parent, intro, false_positives, pend>>

Crash(p) ==
    /\ p \in pend
    /\ pend' = pend \ {p}
    /\ UNCHANGED <<scenario, files, rec, parent, refs, intro, false_positives, texts, told>>

-----------------------------------------------------------------------------
(* What the rest of the workflow asks of the records. *)

Has(owner, type) == \E d \in Known : /\ rec[d].owner = owner /\ rec[d].type = type
                                     /\ Approved(rec[d])

(* The stage gate.  The reference opens it whatever type it is of now.     *)
checkDocumentGate(type) ==
    \/ refs[type] \in Known /\ Approved(rec[refs[type]])
    \/ Has(Feature, type)
    \/ Has(parent, type)
    \/ ParentOf[parent] # "none" /\ Has(ParentOf[parent], type)

(* doc gaps: the feature's own documents, and the parent's approved ones   *)
(* when it owns none of the type.                                          *)
PresentInAnyStatus(type) == \E d \in Known : /\ rec[d].owner \in {Feature, parent}
                                             /\ rec[d].type = type
Present(type) ==
    \/ Has(Feature, type)
    \/ /\ \A d \in Known : rec[d].owner = Feature => rec[d].type # type
       /\ Has(parent, type)

-----------------------------------------------------------------------------
TypesOfGates == {r.type : r \in Registrations} \cap GatedTypes

DocumentsInit ==
    /\ scenario \in Scenarios
    /\ files = [p \in Paths |->
                   IF FirstText[p] = 0 THEN NoFile
                   ELSE [text |-> FirstText[p], layout |-> 0,
                         line |-> IF p \in StatusLines THEN "draft" ELSE "none"]]
    /\ rec = [d \in Docs |-> NoRec]
    /\ parent \in Parents
    /\ refs = [t \in TypesOfGates |-> NoDoc]
    /\ intro = [d \in Docs |-> "none"]
    /\ false_positives = {}
    /\ texts = Cardinality({p \in Paths : FirstText[p] # 0})
    /\ pend = {}
    /\ told = [d \in Docs |-> 0]

DocumentsNext ==
    \/ \E p \in Paths : EditText(p) \/ EditLayout(p)
    \/ \E r \in Registrations : SubmitDocument(r) \/ WriteSkeletonDevPlan(r)
    \/ \E p \in Paths, o \in {Feature} \cup Parents : Import(p, o)
    \/ \E d \in Docs : \/ ApproveDocument(d) \/ RefreshContentHash(d)
                       \/ AttachQualityEvaluation(d) \/ RecordFalsePositive(d) \/ Classify(d)
    \/ \E d, e \in Docs : SupersedeDocument(d, e)
    \/ \E d \in Docs, p \in Paths : MoveDocument(d, p)
    \/ \E d \in Docs, p \in Paths, o \in Parents : KbzMove(d, p, o)
    \/ \E plan \in Parents : MoveFeature(plan)
    \/ \E d \in Docs, force \in BOOLEAN : DeleteDocument(d, force)
    \/ \E p \in pend : \/ AutoApproveEnd(p) \/ ApproveEnd(p) \/ SupersedeEnd(p) \/ MoveEnd(p)
                       \/ UpdateDocumentPathAndOwner(p) \/ DeleteEnd(p) \/ Crash(p)
    \/ \E p \in pend, d \in Docs, path \in Paths : MoveNext(p, d, path)

DocumentsSpec == DocumentsInit /\ [][DocumentsNext]_docvars

(* The files, the records and the second halves of calls.                  *)
Lines == {"none", "draft", "approved"}
FileStates == [text : Nat \ {0}, layout : {0, 1}, line : Lines]
DocTypes == {r.type : r \in Registrations} \cup AutoApproveTypes \cup {"design", "none"}
Owners == {r.owner : r \in Registrations} \cup {Feature} \cup Parents
Records == [st : {"draft", "approved", "superseded"}, path : Paths, type : DocTypes, owner : Owners,
            hash : FileStates, canon : [text : Nat \ {0}, line : Lines], eval : {"none", "fail", "pass"},
            sup : Docs \cup {NoDoc}, by : Docs \cup {NoDoc}]
SecondHalves ==
    [op : {"approve", "autoapprove", "delete"}, d : Docs, r : Records]
    \cup [op : {"supersede"}, d : Docs, r : Records, by : Docs]
    \cup [op : {"move"}, d : Docs, r : Records, path : Paths, f : FileStates]
    \cup [op : {"repath"}, d : Docs, r : Records, path : Paths, owner : Parents]
    \cup [op : {"movefeature"}, docs : SUBSET Docs, plan : Parents]
DocumentsTypeOK ==
    /\ scenario \in Scenarios
    /\ files \in [Paths -> FileStates \cup {NoFile}]
    /\ rec \in [Docs -> Records \cup {NoRec}]
    /\ texts \in Nat /\ \A path \in Paths : files[path].text <= texts
    /\ pend \subseteq SecondHalves
    /\ told \in [Docs -> Nat]

-----------------------------------------------------------------------------
Between(d) == \E p \in pend : p.op \in {"approve", "autoapprove"} /\ p.d = d

(* As long as the file is what the record's hash says, an approved record  *)
(* stands for the text that was approved (or was on file when somebody     *)
(* moved the document, which keeps the approval on purpose): no sequence of *)
(* edits, refreshes, moves, supersessions and half-done calls carries an   *)
(* approval over to words nobody approved.  Authors who go back to an      *)
(* earlier text break this (documents.go:1110).                            *)
ApprovalCoversText ==
    \A d \in Known :
        Approved(rec[d]) /\ files[rec[d].path] = rec[d].hash /\ ~ Between(d)
        => files[rec[d].path].text = told[d]

(* A superseded document stays superseded until it is deleted, except that *)
(* the second write of an approval, which does not compare, puts back the  *)
(* record as it was approved (documents.go:600).                           *)
SupersededIsFinal ==
    [][\A d \in Docs : rec[d].st = "superseded"
          => rec'[d].st \in {"superseded", "none"} \/ Between(d)]_docvars

(* The gap report and the stage gate look the documents up in different    *)
(* ways, by parent and grandparent, reference, type and status; what the   *)
(* report does not call a gap opens the gate.                              *)
GapsAgreeWithGates == \A t \in TypesOfGates : Present(t) => checkDocumentGate(t)
=============================================================================
