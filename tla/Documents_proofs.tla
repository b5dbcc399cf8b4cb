-------------------------- MODULE Documents_proofs --------------------------
(***************************************************************************)
(* What holds of document records for every set of files, registrations    *)
(* and calls: a superseded document stays superseded, and an approval      *)
(* stands for the text that was approved.                                  *)
(***************************************************************************)
EXTENDS Documents, FiniteSetTheorems, TLAPS

-----------------------------------------------------------------------------
(* Types.                                                                  *)

LEMMA Texts ==
    ASSUME DocumentsTypeOK, NEW path \in Paths
    PROVE  /\ files[path].text \in Nat
           /\ Exists(path) <=> files[path].text # 0
           /\ Exists(path) <=> files[path] \in FileStates
    BY DEF DocumentsTypeOK, Exists, FileStates, NoFile

LEMMA KnownRecords ==
    ASSUME DocumentsTypeOK, NEW d \in Docs
    PROVE  /\ rec[d].st # "none" <=> rec[d] \in Records
           /\ d \in Known <=> rec[d].st # "none"
           /\ rec[d].st = "none" <=> rec[d] = NoRec
           /\ rec[d].st \in {"draft", "approved", "superseded"} <=> rec[d] \in Records
    BY DEF DocumentsTypeOK, Records, NoRec, Known

LEMMA Fields ==
    ASSUME NEW r \in Records
    PROVE  /\ r.st \in {"draft", "approved", "superseded"} /\ r.path \in Paths /\ r.hash \in FileStates
           /\ r.hash.text \in Nat /\ r.canon.text \in Nat
           /\ \A s \in {"draft", "approved", "superseded"} : [r EXCEPT !.st = s] \in Records
           /\ \A f \in FileStates : /\ [r EXCEPT !.hash = f] \in Records
                                    /\ [r EXCEPT !.hash = f].st = r.st
                                    /\ [r EXCEPT !.hash = f].path = r.path
                                    /\ [r EXCEPT !.hash = f].hash = f
                                    /\ [r EXCEPT !.hash = f].canon = r.canon
    BY DEF Records, FileStates

LEMMA Halves ==
    ASSUME DocumentsTypeOK, NEW p \in pend, p.op # "movefeature"
    PROVE  /\ p.d \in Docs /\ p.r \in Records
           /\ p.op \in {"approve", "autoapprove", "delete", "supersede", "move", "repath"}
           /\ p.op \in {"move", "repath"} <=> "path" \in DOMAIN p
           /\ p.op \in {"move", "repath"} => p.path \in Paths
           /\ p.op = "move" => p.f \in FileStates
           /\ p.op = "repath" => p.owner \in Parents
           /\ p.op = "supersede" => p.by \in Docs
           /\ p.r.path \in PathsOf(p)
           /\ p.op \in {"move", "repath"} => p.path \in PathsOf(p)
    BY DEF DocumentsTypeOK, SecondHalves, PathsOf

LEMMA Registered ==
    ASSUME DocumentsTypeOK, NEW r \in Registrations
    PROVE  /\ DocID(r) \in Docs /\ r.path \in Paths /\ r.auto \in BOOLEAN /\ r.type \in DocTypes
           /\ r.owner \in Owners
    BY DocumentsAssumption DEF DocumentsTypeOK, Registrations, Docs, DocTypes, Owners

LEMMA Inferred ==
    ASSUME NEW path, NEW type \in DocTypes
    PROVE  InferDocType(path, type) \in DocTypes
    BY DEF InferDocType, DocTypes, AutoApproveTypes

LEMMA MaxIsNumber ==
    ASSUME DocumentsTypeOK
    PROVE  MaxTexts \in Nat
    BY DocumentsAssumption DEF DocumentsTypeOK, MaxTexts

(* The record a registration makes.                                        *)
LEMMA Made ==
    ASSUME NEW r, r.path \in Paths, r.type \in DocTypes, r.owner \in Owners, NEW f \in FileStates
    PROVE  /\ NewRecord(r, f) \in Records
           /\ NewRecord(r, f).st = "draft" /\ NewRecord(r, f).path = r.path
           /\ NewRecord(r, f).hash = f /\ NewRecord(r, f).canon.text = f.text
           /\ [NewRecord(r, f) EXCEPT !.st = "approved"] \in Records
           /\ [NewRecord(r, f) EXCEPT !.st = "approved"].st = "approved"
           /\ [NewRecord(r, f) EXCEPT !.st = "approved"].path = r.path
           /\ [NewRecord(r, f) EXCEPT !.st = "approved"].hash = f
           /\ [NewRecord(r, f) EXCEPT !.st = "approved"].canon.text = f.text
    BY DEF NewRecord, Records, Canonical, FileStates

(* A refresh takes both hashes from the file, and keeps an approval only   *)
(* when the words did not change.                                          *)
LEMMA Refresh ==
    ASSUME NEW r \in Records, NEW f \in FileStates
    PROVE  /\ Refreshed(r, f) \in Records
           /\ Refreshed(r, f).path = r.path /\ Refreshed(r, f).hash = f /\ Refreshed(r, f).canon.text = f.text
           /\ Refreshed(r, f).st = r.st \/ (r.st = "approved" /\ Refreshed(r, f).st = "draft")
           /\ Refreshed(r, f).st = "approved" => r.st = "approved" /\ r.canon.text = f.text
<1> DEFINE s == IF r.st = "approved" /\ ~ FormattingOnly(r, f) THEN "draft" ELSE r.st
<1>1. s \in {"draft", "approved", "superseded"}
    BY DEF Records
<1>2. s = r.st \/ (r.st = "approved" /\ s = "draft")
    OBVIOUS
<1>3. s = "approved" => r.st = "approved" /\ r.canon.text = f.text
    BY DEF FormattingOnly, Canonical
<1>4. Refreshed(r, f) = [r EXCEPT !.hash = f, !.canon = Canonical(f), !.st = s]
    BY DEF Refreshed
<1> HIDE DEF s
<1>5. Canonical(f) \in [text : Nat \ {0}, line : Lines] /\ Canonical(f).text = f.text
    BY DEF Canonical, FileStates
<1>6. /\ Refreshed(r, f) \in Records /\ Refreshed(r, f).path = r.path /\ Refreshed(r, f).hash = f
      /\ Refreshed(r, f).canon = Canonical(f) /\ Refreshed(r, f).st = s
    BY <1>1, <1>4, <1>5, ZenonT(40) DEF Records
<1> QED
    BY <1>2, <1>3, <1>5, <1>6

(* What can be registered does not change.                                 *)
LEMMA SameScenario ==
    ASSUME scenario' = scenario
    PROVE  /\ Docs' = Docs /\ Records' = Records /\ SecondHalves' = SecondHalves
           /\ Registrations' = Registrations /\ MaxTexts' = MaxTexts
    BY DEF Docs, Records, SecondHalves, Registrations, MaxTexts, DocTypes, Owners

LEMMA TypesKept ==
    ASSUME DocumentsTypeOK, scenario' = scenario,
           files' \in [Paths -> FileStates \cup {NoFile}],
           rec' \in [Docs -> Records \cup {NoRec}],
           texts' \in Nat, \A path \in Paths : files'[path].text <= texts',
           pend' \subseteq SecondHalves, told' \in [Docs -> Nat]
    PROVE  DocumentsTypeOK'
    BY SameScenario DEF DocumentsTypeOK

LEMMA FileTyped ==
    ASSUME DocumentsTypeOK, NEW path \in Paths, Exists(path)
    PROVE  /\ files[path] \in FileStates /\ files[path].text \in Nat \ {0} /\ files[path].text <= texts
           /\ \A t \in Nat \ {0} : [files[path] EXCEPT !.text = t] \in FileStates
           /\ [files[path] EXCEPT !.line = "approved"] \in FileStates
           /\ [files[path] EXCEPT !.line = "approved"].text = files[path].text
           /\ [files[path] EXCEPT !.layout = 1] \in FileStates
           /\ [files[path] EXCEPT !.layout = 1].text = files[path].text
<1>1. files[path] \in FileStates /\ files[path].text <= texts
    BY Texts DEF DocumentsTypeOK
<1>2. ASSUME NEW f \in FileStates
      PROVE  /\ f.text \in Nat \ {0}
             /\ \A t \in Nat \ {0} : [f EXCEPT !.text = t] \in FileStates
             /\ [f EXCEPT !.line = "approved"] \in FileStates /\ [f EXCEPT !.line = "approved"].text = f.text
             /\ [f EXCEPT !.layout = 1] \in FileStates /\ [f EXCEPT !.layout = 1].text = f.text
    BY DEF FileStates, Lines
<1> QED
    BY <1>1, <1>2

(* A new text is newer than every other.                                   *)
LEMMA TextsTyped ==
    ASSUME DocumentsTypeOK, NEW path \in Paths, EditText(path)
    PROVE  /\ Exists(path) /\ Quiet(path)
           /\ \E t \in Nat \ {0} : /\ files' = [files EXCEPT ![path].text = t]
                                   /\ texts' \in Nat /\ texts <= texts' /\ t <= texts'
                                   /\ "revert" \notin Authors => t = texts + 1
           /\ UNCHANGED <<scenario, rec, pend, told>>
<1>1. PICK t \in 1..MaxTexts : /\ t = texts + 1 \/ "revert" \in Authors
                               /\ files' = [files EXCEPT ![path].text = t]
                               /\ texts' = IF t > texts THEN t ELSE texts
    BY DEF EditText
<1>2. t \in Nat \ {0} /\ texts \in Nat
    BY MaxIsNumber DEF DocumentsTypeOK
<1>3. texts' \in Nat /\ texts <= texts' /\ t <= texts'
    BY <1>1, <1>2
<1> QED
    BY <1>1, <1>2, <1>3 DEF EditText

LEMMA SubmitFacts ==
    ASSUME DocumentsTypeOK, NEW r, r.path \in Paths, r.type \in DocTypes, r.owner \in Owners, DocID(r) \in Docs,
           SubmitDocument(r)
    PROVE  LET d == DocID(r)
               n == NewRecord(r, files[r.path])
           IN  /\ Exists(r.path) /\ rec[d].st = "none" /\ rec' = [rec EXCEPT ![d] = n]
               /\ n \in Records /\ n.st = "draft" /\ n.path = r.path
               /\ n.hash = files[r.path] /\ n.canon.text = files[r.path].text
               /\ \/ pend' = pend
                  \/ pend' = pend \cup {[op |-> "autoapprove", d |-> d, r |-> n]}
               /\ UNCHANGED <<scenario, files, texts, told>>
<1> DEFINE d == DocID(r)
           n == NewRecord(r, files[r.path])
<1>1. /\ Exists(r.path) /\ rec[d].st = "none" /\ rec' = [rec EXCEPT ![d] = n]
      /\ UNCHANGED <<scenario, files, texts, told>>
      /\ pend' = pend \/ pend' = pend \cup {[op |-> "autoapprove", d |-> d, r |-> rec'[d]]}
    BY DEF SubmitDocument, Save
<1>2. files[r.path] \in FileStates
    BY <1>1, FileTyped
<1>3. /\ n \in Records /\ n.st = "draft" /\ n.path = r.path
      /\ n.hash = files[r.path] /\ n.canon.text = files[r.path].text
    <2>1. PICK f \in FileStates : f = files[r.path]
        BY <1>2
    <2>2. /\ NewRecord(r, f) \in Records /\ NewRecord(r, f).st = "draft" /\ NewRecord(r, f).path = r.path
          /\ NewRecord(r, f).hash = f /\ NewRecord(r, f).canon.text = f.text
        BY DEF NewRecord, Records, Canonical, FileStates
    <2> QED
        BY <2>1, <2>2
<1>4. rec'[d] = n
    BY <1>1 DEF DocumentsTypeOK
<1> QED
    BY <1>1, <1>3, <1>4

(* A skeleton's record: new and approved, left alone when superseded, or   *)
(* refreshed and approved when the gates let it.                           *)
LEMMA SkeletonFacts ==
    ASSUME DocumentsTypeOK, NEW r \in Registrations, WriteSkeletonDevPlan(r)
    PROVE  \E f \in FileStates, n \in Records :
               LET d == DocID(r) IN
               /\ f.text = texts + 1 /\ texts' = texts + 1 /\ Quiet(r.path)
               /\ files' = [files EXCEPT ![r.path] = f] /\ rec' = [rec EXCEPT ![d] = n]
               /\ rec[d].st # "none" => rec[d].path = r.path
               /\ \/ n = rec[d] /\ n.st = "superseded"
                  \/ n.path = r.path /\ n.hash = f /\ n.canon.text = f.text /\ rec[d].st # "superseded"
               /\ n.st # "none"
               /\ told' = IF n.st = "approved" THEN [told EXCEPT ![d] = f.text] ELSE told
               /\ UNCHANGED <<scenario, pend>>
<1> DEFINE d == DocID(r)
           f == [text |-> texts + 1, layout |-> 0, line |-> "none"]
           n == SkeletonRecord(d, r, f)
<1>1. /\ texts' = texts + 1 /\ Quiet(r.path) /\ files' = [files EXCEPT ![r.path] = f]
      /\ rec' = [rec EXCEPT ![d] = n] /\ (d \in Known => rec[d].path = r.path)
      /\ told' = IF Approved(rec'[d]) THEN [told EXCEPT ![d] = f.text] ELSE told
      /\ UNCHANGED <<scenario, pend>>
    BY DEF WriteSkeletonDevPlan, Save
<1>2. texts \in Nat /\ d \in Docs /\ r.path \in Paths /\ r.type \in DocTypes /\ r.owner \in Owners
    BY Registered DEF DocumentsTypeOK
<1>3. f \in FileStates /\ f.text = texts + 1
    BY <1>2 DEF FileStates, Lines
<1> HIDE DEF f
<1>4. /\ n \in Records
      /\ \/ n = rec[d] /\ n.st = "superseded"
         \/ n.path = r.path /\ n.hash = f /\ n.canon.text = f.text /\ rec[d].st # "superseded"
    <2>1. CASE d \notin Known
        <3>1. n = [NewRecord(r, f) EXCEPT !.st = "approved"]
            BY <2>1 DEF SkeletonRecord
        <3> QED
            BY <1>2, <1>3, <2>1, <3>1, Made, KnownRecords
    <2>2. CASE d \in Known /\ rec[d].st = "superseded"
        BY <1>2, <2>2, KnownRecords DEF SkeletonRecord
    <2>3. CASE d \in Known /\ rec[d].st # "superseded"
        <3>1. rec[d] \in Records /\ rec[d].path = r.path
            BY <1>1, <1>2, <2>3, KnownRecords
        <3> DEFINE q == Refreshed(rec[d], f)
        <3>2. q \in Records /\ q.path = r.path /\ q.hash = f /\ q.canon.text = f.text
            BY <1>3, <3>1, Refresh
        <3>3. n = q \/ n = [q EXCEPT !.st = "approved"]
            BY <2>3 DEF SkeletonRecord
        <3> HIDE DEF q, n
        <3>4. [q EXCEPT !.st = "approved"] \in Records
            BY <3>2, Fields
        <3>5. LET a == [q EXCEPT !.st = "approved"] IN a.path = q.path /\ a.hash = q.hash /\ a.canon = q.canon
            BY <3>2 DEF Records
        <3> QED
            BY <2>3, <3>2, <3>3, <3>4, <3>5
    <2> QED
        BY <2>1, <2>2, <2>3
<1> HIDE DEF n
<1>5. rec'[d] = n
    BY <1>1, <1>2 DEF DocumentsTypeOK
<1>6. rec[d].st # "none" => rec[d].path = r.path
    BY <1>1, <1>2, KnownRecords
<1>7. n.st # "none" /\ told' = IF n.st = "approved" THEN [told EXCEPT ![d] = f.text] ELSE told
    BY <1>1, <1>4, <1>5, Fields DEF Approved
<1> QED
    BY <1>1, <1>3, <1>4, <1>6, <1>7

LEMMA OneFile ==
    ASSUME DocumentsTypeOK, NEW path \in Paths, NEW f \in FileStates \cup {NoFile}, f.text <= texts,
           files' = [files EXCEPT ![path] = f], texts' = texts
    PROVE  /\ files' \in [Paths -> FileStates \cup {NoFile}] /\ texts' \in Nat
           /\ \A q \in Paths : files'[q].text <= texts'
    BY DEF DocumentsTypeOK

LEMMA FileMoves ==
    ASSUME DocumentsTypeOK, NEW from \in Paths, NEW to \in Paths, Exists(from), from # to,
           files' = [files EXCEPT ![to] = files[from], ![from] = NoFile], texts' = texts
    PROVE  /\ files' \in [Paths -> FileStates \cup {NoFile}] /\ texts' \in Nat
           /\ \A q \in Paths : files'[q].text <= texts'
           /\ files'[to] = files[from] /\ files'[from] = NoFile
           /\ \A q \in Paths \ {from, to} : files'[q] = files[q]
    BY Texts DEF DocumentsTypeOK, NoFile

(* The scenario stays, and files, records, second halves and what was told *)
(* keep their types.                                                       *)
LEMMA TypeInit == DocumentsInit => DocumentsTypeOK
<1> SUFFICES ASSUME DocumentsInit PROVE DocumentsTypeOK
    OBVIOUS
<1> DEFINE there == {p \in Paths : FirstText[p] # 0}
<1>1. Cardinality(there) \in Nat
    BY DocumentsAssumption, FS_Subset, FS_CardinalityType
<1>2. \A p \in Paths : FirstText[p] \in 0..Cardinality(there)
    BY DocumentsAssumption
<1> HIDE DEF there
<1>3. texts = Cardinality(there)
    BY DEF DocumentsInit, there
<1>4. files = [p \in Paths |-> IF FirstText[p] = 0 THEN NoFile
                               ELSE [text |-> FirstText[p], layout |-> 0,
                                     line |-> IF p \in StatusLines THEN "draft" ELSE "none"]]
    BY DEF DocumentsInit
<1>5. ASSUME NEW p \in Paths PROVE files[p] \in FileStates \cup {NoFile} /\ files[p].text <= texts
    <2>1. FirstText[p] \in Nat /\ FirstText[p] <= texts
        BY <1>1, <1>2, <1>3
    <2>2. CASE FirstText[p] = 0
        BY <1>4, <2>1, <2>2 DEF NoFile
    <2>3. CASE FirstText[p] # 0
        BY <1>4, <2>1, <2>3 DEF FileStates, Lines
    <2> QED
        BY <2>2, <2>3
<1>6. files \in [Paths -> FileStates \cup {NoFile}]
    BY <1>4, <1>5
<1> QED
    BY <1>1, <1>3, <1>5, <1>6 DEF DocumentsInit, DocumentsTypeOK

LEMMA TypeSteps ==
    ASSUME DocumentsTypeOK, DocumentsNext
    PROVE  DocumentsTypeOK'
<1> USE DEF Save
<1>1. /\ files \in [Paths -> FileStates \cup {NoFile}] /\ rec \in [Docs -> Records \cup {NoRec}]
      /\ texts \in Nat /\ (\A path \in Paths : files[path].text <= texts)
      /\ pend \subseteq SecondHalves /\ told \in [Docs -> Nat]
    BY DEF DocumentsTypeOK
<1>2. ASSUME NEW path \in Paths, EditText(path) PROVE DocumentsTypeOK'
    <2>1. PICK t \in Nat \ {0} : /\ files' = [files EXCEPT ![path].text = t]
                                 /\ texts' \in Nat /\ texts <= texts' /\ t <= texts'
        BY <1>2, TextsTyped
    <2>2. Exists(path) /\ UNCHANGED <<scenario, rec, pend, told>>
        BY <1>2, TextsTyped
    <2>3. [files[path] EXCEPT !.text = t] \in FileStates /\ [files[path] EXCEPT !.text = t].text = t
        BY <2>2, FileTyped DEF FileStates
    <2>4. files' = [files EXCEPT ![path] = [files[path] EXCEPT !.text = t]]
        BY <2>1
    <2>5. files' \in [Paths -> FileStates \cup {NoFile}] /\ \A q \in Paths : files'[q].text <= texts'
        <3> DEFINE g == [files[path] EXCEPT !.text = t]
        <3> HIDE DEF g
        <3>1. g \in FileStates /\ g.text = t /\ files' = [files EXCEPT ![path] = g]
            BY <2>3, <2>4 DEF g
        <3>2. \A q \in Paths : files[q].text \in Nat
            BY Texts
        <3> QED
            BY <1>1, <2>1, <3>1, <3>2
    <2> QED
        BY <1>1, <2>1, <2>2, <2>5, TypesKept
<1>3. ASSUME NEW path \in Paths, EditLayout(path) PROVE DocumentsTypeOK'
    <2>1. Exists(path) /\ files' = [files EXCEPT ![path] = [files[path] EXCEPT !.layout = 1]]
        BY <1>3 DEF EditLayout
    <2>2. UNCHANGED <<scenario, rec, pend, told, texts>>
        BY <1>3 DEF EditLayout
    <2>3. PICK g \in FileStates : g = [files[path] EXCEPT !.layout = 1] /\ g.text <= texts
        BY <2>1, FileTyped
    <2> QED
        BY <1>1, <2>1, <2>2, <2>3, OneFile, TypesKept
<1>4. ASSUME NEW r, r.path \in Paths, r.type \in DocTypes, r.owner \in Owners, DocID(r) \in Docs,
             SubmitDocument(r)
      PROVE  DocumentsTypeOK'
    <2> DEFINE d == DocID(r)
               n == NewRecord(r, files[r.path])
    <2>1. /\ rec' = [rec EXCEPT ![d] = n] /\ n \in Records
          /\ pend' = pend \/ pend' = pend \cup {[op |-> "autoapprove", d |-> d, r |-> n]}
          /\ UNCHANGED <<scenario, files, texts, told>>
        BY <1>4, SubmitFacts
    <2> HIDE DEF n, d
    <2>2. d \in Docs
        BY <1>4 DEF d
    <2>3. rec' \in [Docs -> Records \cup {NoRec}] /\ pend' \subseteq SecondHalves
        BY <1>1, <2>1, <2>2 DEF SecondHalves
    <2> QED
        BY <1>1, <2>1, <2>3, TypesKept
<1>5. ASSUME NEW r \in Registrations, WriteSkeletonDevPlan(r) PROVE DocumentsTypeOK'
    <2>1. PICK f \in FileStates, n \in Records :
              /\ f.text = texts + 1 /\ texts' = texts + 1
              /\ files' = [files EXCEPT ![r.path] = f] /\ rec' = [rec EXCEPT ![DocID(r)] = n]
              /\ told' = IF n.st = "approved" THEN [told EXCEPT ![DocID(r)] = f.text] ELSE told
              /\ UNCHANGED <<scenario, pend>>
        BY <1>5, SkeletonFacts
    <2>2. DocID(r) \in Docs /\ r.path \in Paths
        BY Registered
    <2>3. files' \in [Paths -> FileStates \cup {NoFile}] /\ texts' \in Nat /\ \A q \in Paths : files'[q].text <= texts'
        BY <1>1, <2>1, <2>2, Texts
    <2>4. rec' \in [Docs -> Records \cup {NoRec}] /\ told' \in [Docs -> Nat]
        BY <1>1, <2>1, <2>2
    <2> QED
        BY <1>1, <2>1, <2>3, <2>4, TypesKept
<1>6. ASSUME NEW path \in Paths, NEW o \in {Feature} \cup Parents, Import(path, o) PROVE DocumentsTypeOK'
    <2> DEFINE r == [path |-> path, type |-> InferDocType(path, "none"), owner |-> o, auto |-> FALSE]
    <2>1. DocID(r) \in Docs /\ SubmitDocument(r)
        BY <1>6 DEF Import
    <2>2. r.path \in Paths /\ r.owner \in Owners
        BY DEF Owners
    <2>3. r.type \in DocTypes
        <3>1. "none" \in DocTypes
            BY DEF DocTypes
        <3> QED
            BY <3>1, Inferred
    <2> HIDE DEF r
    <2> QED
        BY <1>4, <2>1, <2>2, <2>3
<1>7. ASSUME NEW d \in Docs,
             ApproveDocument(d) \/ RefreshContentHash(d) \/ AttachQualityEvaluation(d) \/ RecordFalsePositive(d)
             \/ Classify(d)
      PROVE  DocumentsTypeOK'
    <2>1. CASE ApproveDocument(d)
        <3>1. rec[d].st = "draft" /\ Exists(rec[d].path)
            BY <2>1 DEF ApproveDocument
        <3>2. rec[d] \in Records /\ rec[d].path \in Paths
            BY <3>1, KnownRecords, Fields
        <3>3. files[rec[d].path] \in FileStates /\ files[rec[d].path].text \in Nat
            BY <3>1, <3>2, FileTyped
        <3> DEFINE n == [rec[d] EXCEPT !.st = "approved", !.hash = files[rec[d].path]]
        <3>4. n \in Records
            BY <3>2, <3>3 DEF Records
        <3>5. /\ rec' = [rec EXCEPT ![d] = n] /\ told' = [told EXCEPT ![d] = files[rec[d].path].text]
              /\ pend' = pend \cup {[op |-> "approve", d |-> d, r |-> rec'[d]]}
              /\ UNCHANGED <<scenario, files, texts>>
            BY <2>1 DEF ApproveDocument
        <3> HIDE DEF n
        <3>6. rec' \in [Docs -> Records \cup {NoRec}] /\ rec'[d] \in Records /\ told' \in [Docs -> Nat]
            BY <1>1, <3>3, <3>4, <3>5
        <3>7. pend' \subseteq SecondHalves
            BY <1>1, <3>5, <3>6 DEF SecondHalves
        <3> QED
            BY <1>1, <3>5, <3>6, <3>7, TypesKept
    <2>2. CASE RefreshContentHash(d)
        <3>1. /\ d \in Known /\ Exists(rec[d].path)
              /\ rec' = [rec EXCEPT ![d] = Refreshed(rec[d], files[rec[d].path])]
              /\ UNCHANGED <<scenario, files, texts, pend, told>>
            BY <2>2 DEF RefreshContentHash
        <3>2. rec[d] \in Records /\ files[rec[d].path] \in FileStates
            BY <3>1, KnownRecords, Fields, FileTyped
        <3>3. Refreshed(rec[d], files[rec[d].path]) \in Records
            BY <3>2, Refresh
        <3>4. rec' \in [Docs -> Records \cup {NoRec}]
            BY <1>1, <3>1, <3>3
        <3> QED
            BY <1>1, <3>1, <3>4, TypesKept
    <2>3. CASE AttachQualityEvaluation(d)
        <3>1. PICK e \in {"fail", "pass"} : rec' = [rec EXCEPT ![d] = [rec[d] EXCEPT !.eval = e]]
            BY <2>3 DEF AttachQualityEvaluation
        <3>2. rec[d] \in Records /\ UNCHANGED <<scenario, files, texts, pend, told>>
            BY <2>3, KnownRecords DEF AttachQualityEvaluation
        <3>3. [rec[d] EXCEPT !.eval = e] \in Records
            BY <3>2 DEF Records
        <3>4. rec' \in [Docs -> Records \cup {NoRec}]
            BY <1>1, <3>1, <3>3
        <3> QED
            BY <1>1, <3>2, <3>4, TypesKept
    <2>4. CASE RecordFalsePositive(d) \/ Classify(d)
        <3>1. UNCHANGED <<scenario, files, rec, texts, pend, told>>
            BY <2>4 DEF RecordFalsePositive, Classify
        <3> QED
            BY <1>1, <3>1, TypesKept
    <2> QED
        BY <1>7, <2>1, <2>2, <2>3, <2>4
<1>8. ASSUME NEW d \in Docs, NEW e \in Docs, SupersedeDocument(d, e) PROVE DocumentsTypeOK'
    <2>1. /\ rec[d].st = "approved" /\ e \in Known /\ rec' = [rec EXCEPT ![e] = [rec[e] EXCEPT !.sup = d]]
          /\ pend' = pend \cup {[op |-> "supersede", d |-> d, r |-> rec[d], by |-> e]}
          /\ UNCHANGED <<scenario, files, texts, told>>
        BY <1>8 DEF SupersedeDocument
    <2>2. rec[d] \in Records /\ rec[e] \in Records
        BY <2>1, KnownRecords
    <2>3. [rec[e] EXCEPT !.sup = d] \in Records
        BY <2>2 DEF Records
    <2>4. rec' \in [Docs -> Records \cup {NoRec}]
        BY <1>1, <2>1, <2>3
    <2>5. pend' \subseteq SecondHalves
        BY <1>1, <2>1, <2>2 DEF SecondHalves
    <2> QED
        BY <1>1, <2>1, <2>4, <2>5, TypesKept
<1>9. ASSUME NEW d \in Docs, NEW path \in Paths, MoveDocument(d, path) PROVE DocumentsTypeOK'
    <2>1. /\ d \in Known /\ Exists(rec[d].path) /\ rec[d].path # path
          /\ files' = [files EXCEPT ![path] = files[rec[d].path], ![rec[d].path] = NoFile]
          /\ pend' = pend \cup {[op |-> "move", d |-> d, r |-> rec[d], path |-> path, f |-> files[rec[d].path]]}
          /\ UNCHANGED <<scenario, rec, texts, told>>
        BY <1>9 DEF MoveDocument
    <2>2. rec[d] \in Records /\ rec[d].path \in Paths /\ files[rec[d].path] \in FileStates
        BY <2>1, KnownRecords, Fields, FileTyped
    <2>3. pend' \subseteq SecondHalves
        BY <1>1, <2>1, <2>2 DEF SecondHalves
    <2> QED
        BY <1>1, <2>1, <2>2, <2>3, FileMoves, TypesKept
<1>10. ASSUME NEW d \in Docs, NEW path \in Paths, NEW o \in Parents, KbzMove(d, path, o) PROVE DocumentsTypeOK'
    <2>1. /\ d \in Known /\ Exists(rec[d].path) /\ rec[d].path # path
          /\ files' = [files EXCEPT ![path] = files[rec[d].path], ![rec[d].path] = NoFile]
          /\ pend' = pend \cup {[op |-> "repath", d |-> d, r |-> rec[d], path |-> path, owner |-> o]}
          /\ UNCHANGED <<scenario, rec, texts, told>>
        BY <1>10 DEF KbzMove, CanGitMove, GitMoved
    <2>2. rec[d] \in Records /\ rec[d].path \in Paths
        BY <2>1, KnownRecords, Fields
    <2>3. pend' \subseteq SecondHalves
        BY <1>1, <2>1, <2>2 DEF SecondHalves
    <2> QED
        BY <1>1, <2>1, <2>2, <2>3, FileMoves, TypesKept
<1>11. ASSUME NEW plan \in Parents, MoveFeature(plan) PROVE DocumentsTypeOK'
    <2>1. /\ pend' = pend \cup {[op |-> "movefeature", docs |-> {d \in Known : rec[d].owner = Feature}, plan |-> plan]}
          /\ UNCHANGED <<scenario, files, rec, texts, told>>
        BY <1>11 DEF MoveFeature
    <2>2. {d \in Known : rec[d].owner = Feature} \subseteq Docs
        BY DEF Known
    <2>3. pend' \subseteq SecondHalves
        BY <1>1, <2>1, <2>2 DEF SecondHalves
    <2> QED
        BY <1>1, <2>1, <2>3, TypesKept
<1>12. ASSUME NEW d \in Docs, NEW force \in BOOLEAN, DeleteDocument(d, force) PROVE DocumentsTypeOK'
    <2>1. /\ d \in Known /\ files' = [files EXCEPT ![rec[d].path] = NoFile]
          /\ pend' = pend \cup {[op |-> "delete", d |-> d, r |-> rec[d]]}
          /\ UNCHANGED <<scenario, rec, texts, told>>
        BY <1>12 DEF DeleteDocument
    <2>2. rec[d] \in Records /\ rec[d].path \in Paths
        BY <2>1, KnownRecords, Fields
    <2>3. pend' \subseteq SecondHalves
        BY <1>1, <2>1, <2>2 DEF SecondHalves
    <2>4. NoFile.text <= texts
        BY <1>1 DEF NoFile
    <2> QED
        BY <1>1, <2>1, <2>2, <2>3, <2>4, OneFile, TypesKept
<1>13. ASSUME NEW p \in pend,
              AutoApproveEnd(p) \/ ApproveEnd(p) \/ SupersedeEnd(p) \/ MoveEnd(p) \/ UpdateDocumentPathAndOwner(p)
              \/ DeleteEnd(p)
       PROVE  DocumentsTypeOK'
    <2>1. p.op # "movefeature" /\ pend' \subseteq SecondHalves /\ scenario' = scenario /\ texts' = texts
        BY <1>1, <1>13 DEF AutoApproveEnd, ApproveEnd, SupersedeEnd, MoveEnd, UpdateDocumentPathAndOwner, DeleteEnd
    <2>2. p.d \in Docs /\ p.r \in Records /\ p.r.path \in Paths
        BY <2>1, Halves, Fields
    <2>3. CASE AutoApproveEnd(p)
        <3>1. /\ rec' = [rec EXCEPT ![p.d] = [p.r EXCEPT !.st = "approved"]]
              /\ told' = [told EXCEPT ![p.d] = p.r.hash.text] /\ files' = files
            BY <2>3 DEF AutoApproveEnd
        <3>2. rec' \in [Docs -> Records \cup {NoRec}] /\ told' \in [Docs -> Nat]
            BY <1>1, <2>2, <3>1, Fields
        <3> QED
            BY <1>1, <2>1, <3>1, <3>2, TypesKept
    <2>4. CASE ApproveEnd(p)
        <3>1. told' = told
            BY <2>4 DEF ApproveEnd
        <3>2. CASE Exists(p.r.path) /\ files[p.r.path].line # "none"
            <4>1. /\ files' = [files EXCEPT ![p.r.path].line = "approved"]
                  /\ rec' = [rec EXCEPT ![p.d] = [p.r EXCEPT !.hash = files'[p.r.path]]]
                BY <2>4, <3>2 DEF ApproveEnd, PatchStatusField
            <4>2. PICK g \in FileStates : g = [files[p.r.path] EXCEPT !.line = "approved"] /\ g.text <= texts
                BY <2>2, <3>2, FileTyped
            <4>3. files' = [files EXCEPT ![p.r.path] = g] /\ files'[p.r.path] = g
                BY <1>1, <2>2, <4>1, <4>2
            <4>4. rec' \in [Docs -> Records \cup {NoRec}]
                BY <1>1, <2>2, <4>1, <4>2, <4>3, Fields
            <4>5. /\ files' \in [Paths -> FileStates \cup {NoFile}] /\ texts' \in Nat
                  /\ \A q \in Paths : files'[q].text <= texts'
                BY <2>1, <2>2, <4>2, <4>3, OneFile
            <4> QED
                BY <1>1, <2>1, <3>1, <4>4, <4>5, TypesKept
        <3>3. CASE ~(Exists(p.r.path) /\ files[p.r.path].line # "none")
            <4>1. UNCHANGED <<files, rec>>
                BY <2>4, <3>3 DEF ApproveEnd
            <4> QED
                BY <1>1, <2>1, <3>1, <4>1, TypesKept
        <3> QED
            BY <3>2, <3>3
    <2>5. CASE SupersedeEnd(p)
        <3>1. /\ UNCHANGED <<files, told>>
              /\ \/ rec' = rec
                 \/ rec' = [rec EXCEPT ![p.d] = [p.r EXCEPT !.st = "superseded", !.by = p.by]]
            BY <2>5 DEF SupersedeEnd
        <3>2. p.by \in Docs
            BY <2>1, <2>5, Halves DEF SupersedeEnd
        <3>3. [p.r EXCEPT !.st = "superseded", !.by = p.by] \in Records
            BY <2>2, <3>2 DEF Records
        <3>4. rec' \in [Docs -> Records \cup {NoRec}]
            BY <1>1, <2>2, <3>1, <3>3
        <3> QED
            BY <1>1, <2>1, <3>1, <3>4, TypesKept
    <2>6. CASE MoveEnd(p)
        <3>1. p.path \in Paths /\ p.f \in FileStates
            BY <2>1, <2>6, Halves DEF MoveEnd
        <3> DEFINE n == [p.r EXCEPT !.path = p.path, !.hash = p.f, !.type = InferDocType(p.path, p.r.type)]
        <3>2. n \in Records
            <4>1. p.r.type \in DocTypes
                BY <2>2 DEF Records
            <4>2. InferDocType(p.path, p.r.type) \in DocTypes
                BY <4>1, Inferred
            <4> QED
                BY <2>2, <3>1, <4>2 DEF Records
        <3>3. /\ rec' = rec \/ rec' = [rec EXCEPT ![p.d] = n]
              /\ told' = told \/ told' = [told EXCEPT ![p.d] = p.f.text]
              /\ files' = files
            BY <2>6 DEF MoveEnd
        <3> HIDE DEF n
        <3>4. p.f.text \in Nat
            BY <3>1 DEF FileStates
        <3>5. rec' \in [Docs -> Records \cup {NoRec}] /\ told' \in [Docs -> Nat]
            BY <1>1, <2>2, <3>2, <3>3, <3>4
        <3> QED
            BY <1>1, <2>1, <3>3, <3>5, TypesKept
    <2>7. CASE UpdateDocumentPathAndOwner(p)
        <3>1. p.path \in Paths /\ p.owner \in Parents
            BY <2>1, <2>7, Halves DEF UpdateDocumentPathAndOwner
        <3> DEFINE n == Repathed(rec[p.d], p.path, p.owner)
        <3>2. rec[p.d].st # "none" => n \in Records
            <4>1. SUFFICES ASSUME rec[p.d].st # "none" PROVE n \in Records
                OBVIOUS
            <4>2. rec[p.d] \in Records
                BY <2>2, <4>1, KnownRecords
            <4>3. (IF Exists(p.path) THEN files[p.path] ELSE rec[p.d].hash) \in FileStates
                BY <3>1, <4>2, FileTyped, Fields
            <4>4. p.owner \in Owners
                BY <3>1 DEF Owners
            <4> QED
                BY <3>1, <4>2, <4>3, <4>4 DEF Repathed, Records
        <3>3. /\ rec' = rec \/ (rec[p.d].st # "none" /\ rec' = [rec EXCEPT ![p.d] = n])
              /\ told' = told \/ told' = [told EXCEPT ![p.d] = files[p.path].text]
              /\ files' = files
            BY <2>7 DEF UpdateDocumentPathAndOwner
        <3> HIDE DEF n
        <3>4. files[p.path].text \in Nat
            BY <3>1, Texts
        <3>5. rec' \in [Docs -> Records \cup {NoRec}] /\ told' \in [Docs -> Nat]
            BY <1>1, <2>2, <3>2, <3>3, <3>4
        <3> QED
            BY <1>1, <2>1, <3>3, <3>5, TypesKept
    <2>8. CASE DeleteEnd(p)
        <3>1. rec' = [rec EXCEPT ![p.d] = NoRec] /\ UNCHANGED <<files, told>>
            BY <2>8 DEF DeleteEnd
        <3>2. rec' \in [Docs -> Records \cup {NoRec}]
            BY <1>1, <2>2, <3>1
        <3> QED
            BY <1>1, <2>1, <3>1, <3>2, TypesKept
    <2> QED
        BY <1>13, <2>3, <2>4, <2>5, <2>6, <2>7, <2>8
<1>14. ASSUME NEW p \in pend, Crash(p) PROVE DocumentsTypeOK'
    <2>1. pend' \subseteq SecondHalves /\ UNCHANGED <<scenario, files, rec, texts, told>>
        BY <1>1, <1>14 DEF Crash
    <2> QED
        BY <1>1, <2>1, TypesKept
<1>15. ASSUME NEW p \in pend, NEW d \in Docs, NEW path \in Paths, MoveNext(p, d, path) PROVE DocumentsTypeOK'
    <2>1. /\ p.op = "movefeature" /\ d \in Known /\ Exists(rec[d].path) /\ ~ Exists(path)
          /\ files' = [files EXCEPT ![path] = files[rec[d].path], ![rec[d].path] = NoFile]
          /\ rec' = [rec EXCEPT ![d] = [rec[d] EXCEPT !.path = path, !.owner = p.plan, !.hash = files[rec[d].path]]]
          /\ told' = IF Approved(rec[d]) THEN [told EXCEPT ![d] = files[rec[d].path].text] ELSE told
          /\ pend' = (pend \ {p}) \cup {[p EXCEPT !.docs = @ \ {d}]}
          /\ UNCHANGED <<scenario, texts>>
        BY <1>15 DEF MoveNext, CanGitMove, GitMoved
    <2>2. p \in [op : {"movefeature"}, docs : SUBSET Docs, plan : Parents]
        BY <1>1, <2>1 DEF SecondHalves
    <2>3. /\ rec[d] \in Records /\ rec[d].path \in Paths /\ files[rec[d].path] \in FileStates
          /\ files[rec[d].path].text \in Nat
        BY <2>1, KnownRecords, Fields, FileTyped
    <2>4. p.plan \in Owners
        BY <2>2 DEF Owners
    <2>5. [rec[d] EXCEPT !.path = path, !.owner = p.plan, !.hash = files[rec[d].path]] \in Records
        BY <2>3, <2>4 DEF Records
    <2>6. rec' \in [Docs -> Records \cup {NoRec}] /\ told' \in [Docs -> Nat]
        BY <1>1, <2>1, <2>3, <2>5
    <2>7. [p EXCEPT !.docs = @ \ {d}] \in [op : {"movefeature"}, docs : SUBSET Docs, plan : Parents]
        BY <2>2
    <2>8. pend' \subseteq SecondHalves
        BY <1>1, <2>1, <2>7 DEF SecondHalves
    <2>9. rec[d].path # path
        BY <2>1
    <2> QED
        BY <1>1, <2>1, <2>3, <2>6, <2>8, <2>9, FileMoves, TypesKept
<1>16. ASSUME NEW r \in Registrations, SubmitDocument(r) PROVE DocumentsTypeOK'
    BY <1>4, <1>16, Registered
<1> QED
    BY <1>2, <1>3, <1>5, <1>6, <1>7, <1>8, <1>9, <1>10, <1>11, <1>12, <1>13, <1>14, <1>15, <1>16
    DEF DocumentsNext

(* A record is a document's or there is none, a file is a text with its    *)
(* layout and Status line, and what is left of a call fits the call.       *)
THEOREM DocumentsTypeCorrect == DocumentsSpec => []DocumentsTypeOK
<1>1. DocumentsTypeOK /\ UNCHANGED docvars => DocumentsTypeOK'
    BY SameScenario DEF docvars, DocumentsTypeOK
<1> QED
    BY <1>1, TypeInit, TypeSteps, PTL DEF DocumentsSpec

-----------------------------------------------------------------------------
(* Superseded documents.                                                   *)

LEMMA SameStatus ==
    ASSUME NEW r \in Records
    PROVE  /\ \A e \in {"fail", "pass"} : LET n == [r EXCEPT !.eval = e] IN
                  n.st = r.st /\ n.path = r.path /\ n.hash = r.hash /\ n.canon = r.canon
           /\ \A e \in Docs : LET n == [r EXCEPT !.sup = e] IN
                  n.st = r.st /\ n.path = r.path /\ n.hash = r.hash /\ n.canon = r.canon
           /\ \A e \in Docs : LET n == [r EXCEPT !.st = "superseded", !.by = e] IN
                  n.st = "superseded" /\ n.path = r.path
           /\ \A o : \A path \in Paths, f \in FileStates : LET n == [r EXCEPT !.path = path, !.owner = o, !.hash = f] IN
                  n.st = r.st /\ n.path = path /\ n.hash = f /\ n.canon = r.canon
           /\ \A o : \A path \in Paths, f \in FileStates : LET n == [r EXCEPT !.path = path, !.hash = f, !.type = o] IN
                  n.st = r.st /\ n.path = path /\ n.hash = f /\ n.canon = r.canon
           /\ \A s : LET n == [r EXCEPT !.st = s] IN
                  n.st = s /\ n.path = r.path /\ n.hash = r.hash /\ n.canon = r.canon
           /\ \A f \in FileStates : LET n == [r EXCEPT !.st = "approved", !.hash = f] IN
                  n.st = "approved" /\ n.path = r.path /\ n.hash = f /\ n.canon = r.canon
    BY DEF Records

LEMMA RepathedFacts ==
    ASSUME DocumentsTypeOK, NEW r \in Records, NEW path \in Paths, NEW o
    PROVE  LET n == Repathed(r, path, o) IN
           /\ n.st = r.st /\ n.path = path /\ n.canon = r.canon
           /\ Exists(path) => n.hash = files[path]
<1>1. (IF Exists(path) THEN files[path] ELSE r.hash) \in FileStates
    BY FileTyped, Fields
<1> QED
    BY <1>1, SameStatus DEF Repathed

(* A superseded document stays superseded until it is deleted, whatever    *)
(* calls are half done, except that the second write of an approval puts   *)
(* back the record it began with (documents.go:600).                       *)
THEOREM SupersededStaysFinal == DocumentsSpec => SupersededIsFinal
<1>1. ASSUME DocumentsTypeOK, DocumentsNext, NEW d \in Docs, rec[d].st = "superseded", ~ Between(d)
      PROVE  rec'[d].st \in {"superseded", "none"}
    <2> USE DEF Save
    <2> DEFINE Kept == rec'[d].st \in {"superseded", "none"}
    <2>1. rec[d] \in Records /\ rec \in [Docs -> Records \cup {NoRec}]
        BY <1>1, KnownRecords DEF DocumentsTypeOK
    <2>2. ASSUME NEW e \in Docs, NEW n, rec' = [rec EXCEPT ![e] = n], e = d => n.st \in {"superseded", "none"}
          PROVE  Kept
        BY <1>1, <2>1, <2>2
    <2>3. rec' = rec => Kept
        BY <1>1
    <2> HIDE DEF Kept
    <2>4. ASSUME NEW path \in Paths, EditText(path) \/ EditLayout(path) PROVE Kept
        BY <2>3, <2>4 DEF EditText, EditLayout
    <2>5. ASSUME NEW r, DocID(r) \in Docs, SubmitDocument(r) PROVE Kept
        <3>1. rec[DocID(r)].st = "none" /\ rec' = [rec EXCEPT ![DocID(r)] = NewRecord(r, files[r.path])]
            BY <2>5 DEF SubmitDocument
        <3>2. DocID(r) # d
            BY <1>1, <3>1
        <3> QED
            BY <2>2, <2>5, <3>1, <3>2
    <2>6. ASSUME NEW r \in Registrations, SubmitDocument(r) \/ WriteSkeletonDevPlan(r) PROVE Kept
        <3>1. CASE SubmitDocument(r)
            BY <1>1, <2>5, <3>1, Registered
        <3>2. CASE WriteSkeletonDevPlan(r)
            <4>1. PICK n \in Records :
                      /\ rec' = [rec EXCEPT ![DocID(r)] = n]
                      /\ (n = rec[DocID(r)] /\ n.st = "superseded") \/ rec[DocID(r)].st # "superseded"
                BY <1>1, <3>2, SkeletonFacts
            <4>2. DocID(r) \in Docs
                BY <1>1, Registered
            <4>3. DocID(r) = d => n.st \in {"superseded", "none"}
                BY <1>1, <4>1
            <4> QED
                BY <2>2, <4>1, <4>2, <4>3
        <3> QED
            BY <2>6, <3>1, <3>2
    <2>7. ASSUME NEW path \in Paths, NEW o \in {Feature} \cup Parents, Import(path, o) PROVE Kept
        <3> DEFINE r == [path |-> path, type |-> InferDocType(path, "none"), owner |-> o, auto |-> FALSE]
        <3>1. DocID(r) \in Docs /\ SubmitDocument(r)
            BY <2>7 DEF Import
        <3> HIDE DEF r
        <3> QED
            BY <2>5, <3>1
    <2>8. ASSUME NEW e \in Docs,
                 ApproveDocument(e) \/ RefreshContentHash(e) \/ AttachQualityEvaluation(e) \/ RecordFalsePositive(e)
                 \/ Classify(e)
          PROVE  Kept
        <3>1. CASE ApproveDocument(e)
            <4>1. rec[e].st = "draft" /\ \E n : rec' = [rec EXCEPT ![e] = n]
                BY <3>1 DEF ApproveDocument
            <4>2. e # d
                BY <1>1, <4>1
            <4> QED
                BY <2>2, <4>1, <4>2
        <3>2. CASE RefreshContentHash(e)
            <4>1. /\ e \in Known /\ Exists(rec[e].path)
                  /\ rec' = [rec EXCEPT ![e] = Refreshed(rec[e], files[rec[e].path])]
                BY <3>2 DEF RefreshContentHash
            <4>2. rec[e] \in Records /\ files[rec[e].path] \in FileStates
                BY <1>1, <4>1, KnownRecords, Fields, FileTyped
            <4>3. Refreshed(rec[e], files[rec[e].path]).st = rec[e].st \/ rec[e].st = "approved"
                BY <4>2, Refresh
            <4>4. e = d => Refreshed(rec[e], files[rec[e].path]).st \in {"superseded", "none"}
                BY <1>1, <4>3
            <4> HIDE DEF Kept
            <4> QED
                BY <2>2, <4>1, <4>4
        <3>3. CASE AttachQualityEvaluation(e)
            <4>1. rec[e].st \in {"draft", "approved"} /\ \E n : rec' = [rec EXCEPT ![e] = n]
                BY <3>3 DEF AttachQualityEvaluation
            <4>2. e # d
                BY <1>1, <4>1
            <4> QED
                BY <2>2, <4>1, <4>2
        <3>4. CASE RecordFalsePositive(e) \/ Classify(e)
            BY <2>3, <3>4 DEF RecordFalsePositive, Classify
        <3> QED
            BY <2>8, <3>1, <3>2, <3>3, <3>4
    <2>9. ASSUME NEW c \in Docs, NEW e \in Docs, SupersedeDocument(c, e) PROVE Kept
        <3>1. e \in Known /\ rec' = [rec EXCEPT ![e] = [rec[e] EXCEPT !.sup = c]]
            BY <2>9 DEF SupersedeDocument
        <3>2. rec[e] \in Records
            BY <1>1, <3>1, KnownRecords
        <3>3. [rec[e] EXCEPT !.sup = c].st = rec[e].st
            BY <3>2, SameStatus
        <3> QED
            BY <1>1, <2>2, <3>1, <3>3
    <2>10. ASSUME NEW e \in Docs, NEW path \in Paths,
                  MoveDocument(e, path) \/ \E o \in Parents : KbzMove(e, path, o)
           PROVE  Kept
        BY <2>3, <2>10 DEF MoveDocument, KbzMove
    <2>11. ASSUME NEW plan \in Parents, MoveFeature(plan) PROVE Kept
        BY <2>3, <2>11 DEF MoveFeature
    <2>12. ASSUME NEW e \in Docs, NEW force \in BOOLEAN, DeleteDocument(e, force) PROVE Kept
        BY <2>3, <2>12 DEF DeleteDocument
    <2>13. ASSUME NEW p \in pend,
                  AutoApproveEnd(p) \/ ApproveEnd(p) \/ SupersedeEnd(p) \/ MoveEnd(p) \/ UpdateDocumentPathAndOwner(p)
                  \/ DeleteEnd(p) \/ Crash(p)
           PROVE  Kept
        <3>1. CASE AutoApproveEnd(p)
            <4>1. p.op = "autoapprove" /\ \E n : rec' = [rec EXCEPT ![p.d] = n]
                BY <3>1 DEF AutoApproveEnd
            <4>2. p.d \in Docs /\ p.d # d
                BY <1>1, <4>1, Halves DEF Between
            <4> QED
                BY <2>2, <4>1, <4>2
        <3>2. CASE ApproveEnd(p)
            <4>1. p.op = "approve" /\ (rec' = rec \/ \E n : rec' = [rec EXCEPT ![p.d] = n])
                BY <3>2 DEF ApproveEnd
            <4>2. p.d \in Docs /\ p.d # d
                BY <1>1, <4>1, Halves DEF Between
            <4> QED
                BY <2>2, <2>3, <4>1, <4>2
        <3>3. CASE SupersedeEnd(p)
            <4>1. /\ p.op = "supersede"
                  /\ \/ rec' = rec
                     \/ rec' = [rec EXCEPT ![p.d] = [p.r EXCEPT !.st = "superseded", !.by = p.by]]
                BY <3>3 DEF SupersedeEnd
            <4>2. p.d \in Docs /\ [p.r EXCEPT !.st = "superseded", !.by = p.by].st = "superseded"
                BY <1>1, <4>1, Halves, SameStatus
            <4> QED
                BY <2>2, <2>3, <4>1, <4>2
        <3>4. CASE MoveEnd(p)
            <4> DEFINE n == [p.r EXCEPT !.path = p.path, !.hash = p.f, !.type = InferDocType(p.path, p.r.type)]
            <4>1. /\ p.op = "move"
                  /\ \/ rec' = rec
                     \/ (rec[p.d].st = "none" \/ rec[p.d] = p.r) /\ rec' = [rec EXCEPT ![p.d] = n]
                BY <3>4 DEF MoveEnd, Unchanged
            <4>2. p.d \in Docs /\ n.st = p.r.st
                BY <1>1, <4>1, Halves, SameStatus
            <4> HIDE DEF n
            <4> QED
                BY <1>1, <2>2, <2>3, <4>1, <4>2
        <3>5. CASE UpdateDocumentPathAndOwner(p)
            <4> DEFINE n == Repathed(rec[p.d], p.path, p.owner)
            <4>1. p.op = "repath" /\ (rec' = rec \/ (rec[p.d].st # "none" /\ rec' = [rec EXCEPT ![p.d] = n]))
                BY <3>5 DEF UpdateDocumentPathAndOwner
            <4>2. p.d \in Docs /\ p.path \in Paths
                BY <1>1, <4>1, Halves
            <4>3. rec[p.d].st # "none" => n.st = rec[p.d].st
                BY <1>1, <4>2, KnownRecords, RepathedFacts
            <4> HIDE DEF n
            <4> QED
                BY <1>1, <2>2, <2>3, <4>1, <4>2, <4>3
        <3>6. CASE DeleteEnd(p)
            <4>1. p.op = "delete" /\ rec' = [rec EXCEPT ![p.d] = NoRec]
                BY <3>6 DEF DeleteEnd
            <4>2. p.d \in Docs /\ NoRec.st = "none"
                BY <1>1, <4>1, Halves DEF NoRec
            <4> QED
                BY <2>2, <4>1, <4>2
        <3>7. CASE Crash(p)
            BY <2>3, <3>7 DEF Crash
        <3> QED
            BY <2>13, <3>1, <3>2, <3>3, <3>4, <3>5, <3>6, <3>7
    <2>14. ASSUME NEW p \in pend, NEW e \in Docs, NEW path \in Paths, MoveNext(p, e, path) PROVE Kept
        <3> DEFINE n == [rec[e] EXCEPT !.path = path, !.owner = p.plan, !.hash = files[rec[e].path]]
        <3>1. e \in Known /\ Exists(rec[e].path) /\ rec' = [rec EXCEPT ![e] = n]
            BY <2>14 DEF MoveNext, CanGitMove
        <3>2. rec[e] \in Records /\ files[rec[e].path] \in FileStates
            BY <1>1, <3>1, KnownRecords, Fields, FileTyped
        <3>3. n.st = rec[e].st
            BY <3>2, SameStatus
        <3> HIDE DEF n
        <3> QED
            BY <1>1, <2>2, <3>1, <3>3
    <2>15. DocumentsNext
        BY <1>1
    <2> HIDE DEF Save
    <2>16. Kept
        BY <2>15, <2>4, <2>6, <2>7, <2>8, <2>9, <2>10, <2>11, <2>12, <2>13, <2>14 DEF DocumentsNext
    <2> QED
        BY <2>16 DEF Kept
<1>2. DocumentsTypeOK /\ [DocumentsNext]_docvars =>
         [\A d \in Docs : rec[d].st = "superseded"
             => rec'[d].st \in {"superseded", "none"} \/ Between(d)]_docvars
    BY <1>1
<1> QED
    BY <1>2, DocumentsTypeCorrect, PTL DEF DocumentsSpec, SupersededIsFinal

-----------------------------------------------------------------------------
(* Approvals.                                                              *)
(*                                                                         *)
(* Nobody goes back to an old text or edits a file in the middle of a call *)
(* on its document; without that an approval may cover a text nobody       *)
(* approved.  The texts on disk, in the record and in the canonical hash   *)
(* are then in order: a file is never older than the records that know it, *)
(* and a record is never older than its canonical hash.                    *)
NoRaces == Authors \cap {"revert", "race"} = {}

Live(r) == r.st \in {"draft", "approved"}
InOrder(r) == /\ r.canon.text <= r.hash.text /\ r.hash.text <= texts
              /\ Exists(r.path) => r.hash.text <= files[r.path].text
DocOK(d) == /\ Approved(rec[d]) => rec[d].hash.text = told[d]
            /\ Live(rec[d]) => InOrder(rec[d])

(* The calls whose second half will write the record of its own document,  *)
(* as seen when the call began: the file is still the one the call saw,    *)
(* or where the call moved it.                                             *)
Taking == {"move", "repath", "delete"}
Owning == {p \in pend : p.op \notin {"supersede", "movefeature"}}
Approving(p) ==
    p.op \in {"approve", "autoapprove"}
        => /\ Exists(p.r.path) /\ files[p.r.path].text = p.r.hash.text /\ p.r.canon.text <= p.r.hash.text
           /\ p.op = "approve" => p.r.st = "approved" /\ told[p.d] = p.r.hash.text
Moving(p) ==
    /\ p.op \in Taking => ~ Exists(p.r.path)
    /\ p.op = "move" => /\ Exists(p.path) /\ files[p.path].text = p.f.text
                        /\ Live(p.r) => p.r.canon.text <= p.f.text
    /\ p.op = "repath" => /\ Exists(p.path)
                          /\ Live(rec[p.d]) => rec[p.d].canon.text <= files[p.path].text
HalfOK(p) == /\ rec[p.d].st # "none" /\ rec[p.d].path = p.r.path
             /\ Approving(p) /\ Moving(p)
OneMoveAtATime == \A p, q \in Owning : p.d = q.d /\ p.op \in Taking /\ q.op \in Taking => p = q

ApprovalInv == /\ \A d \in Docs : DocOK(d)
               /\ \A p \in Owning : HalfOK(p)
               /\ OneMoveAtATime

LEMMA ThereOrNot ==
    ASSUME NEW f \in FileStates \cup {NoFile}
    PROVE  f.text \in Nat /\ (f # NoFile <=> f.text # 0)
    BY DEF FileStates, NoFile

LEMMA Ordered ==
    ASSUME DocumentsTypeOK, ApprovalInv, NEW d \in Docs, Live(rec[d])
    PROVE  /\ rec[d] \in Records /\ rec[d].path \in Paths /\ rec[d].canon.text \in Nat /\ rec[d].hash.text \in Nat
           /\ texts \in Nat /\ rec[d].canon.text <= rec[d].hash.text /\ rec[d].hash.text <= texts
           /\ rec[d].canon.text <= texts
           /\ files[rec[d].path].text \in Nat
           /\ Exists(rec[d].path) => /\ rec[d].hash.text <= files[rec[d].path].text
                                     /\ rec[d].canon.text <= files[rec[d].path].text
<1>1. rec[d] \in Records
    BY KnownRecords DEF Live
<1>2. rec[d].path \in Paths /\ rec[d].canon.text \in Nat /\ rec[d].hash.text \in Nat
    BY <1>1, Fields
<1>3. files[rec[d].path].text \in Nat /\ texts \in Nat
    BY <1>2, Texts DEF DocumentsTypeOK
<1>4. InOrder(rec[d])
    BY DEF ApprovalInv, DocOK
<1> QED
    BY <1>1, <1>2, <1>3, <1>4 DEF InOrder

(* No call is between its halves on a file that is quiet.                  *)
LEMMA QuietMeansFree ==
    ASSUME DocumentsTypeOK, ApprovalInv, NoRaces, NEW path \in Paths, Quiet(path), NEW p \in Owning
    PROVE  /\ p.r.path # path /\ rec[p.d].path # path
           /\ p.op \in {"move", "repath"} => p.path # path
<1>1. p \in pend /\ p.op # "movefeature" /\ path \notin PathsOf(p)
    BY DEF Owning, Quiet, NoRaces
<1> QED
    BY <1>1, Halves DEF ApprovalInv, HalfOK

(* A step whose files keep their text, or belong to no call in progress,   *)
(* leaves a half alone whose document's record it does not touch ...       *)
SameText(path) == files'[path].text = files[path].text
FilesMove(D) ==
    \A path \in Paths : SameText(path)
        \/ /\ Quiet(path)
           /\ files'[path].text = 0 \/ files'[path].text > texts \/ \A e \in Known \ D : rec[e].path # path

LEMMA HalfKept ==
    ASSUME DocumentsTypeOK, DocumentsTypeOK', ApprovalInv, NoRaces, scenario' = scenario,
           NEW D, FilesMove(D), NEW p \in Owning,
           rec'[p.d].st # "none", rec'[p.d].path = rec[p.d].path,
           told'[p.d] = told[p.d] \/ told'[p.d] = p.r.hash.text,
           p.op = "repath" /\ Live(rec'[p.d]) => Live(rec[p.d]) /\ rec'[p.d].canon.text <= rec[p.d].canon.text
    PROVE  HalfOK(p)'
<1>1. HalfOK(p) /\ p \in pend /\ p.op \notin {"movefeature", "supersede"}
    BY DEF ApprovalInv, Owning
<1>2. p.d \in Docs /\ p.r \in Records /\ p.r.path \in Paths /\ (p.op \in {"move", "repath"} => p.path \in Paths)
    BY <1>1, Halves, Fields
<1>3. SameText(p.r.path) /\ (p.op \in {"move", "repath"} => SameText(p.path))
    BY <1>2, QuietMeansFree DEF FilesMove
<1>4. /\ files[p.r.path] \in FileStates \cup {NoFile} /\ files'[p.r.path] \in FileStates \cup {NoFile}
      /\ p.op \in {"move", "repath"} => /\ files[p.path] \in FileStates \cup {NoFile}
                                        /\ files'[p.path] \in FileStates \cup {NoFile}
    BY <1>2 DEF DocumentsTypeOK
<1>5. /\ Exists(p.r.path)' <=> Exists(p.r.path)
      /\ p.op \in {"move", "repath"} => (Exists(p.path)' <=> Exists(p.path))
    BY <1>3, <1>4, ThereOrNot DEF SameText, Exists
<1>6. Approving(p)'
    BY <1>1, <1>3, <1>5 DEF HalfOK, Approving, SameText
<1>7. p.op = "repath" /\ Live(rec'[p.d]) => rec'[p.d].canon.text <= files'[p.path].text
    <2>1. SUFFICES ASSUME p.op = "repath", Live(rec'[p.d])
                   PROVE  rec'[p.d].canon.text <= files'[p.path].text
        OBVIOUS
    <2>2. Live(rec[p.d]) /\ rec'[p.d].canon.text <= rec[p.d].canon.text /\ rec[p.d].canon.text <= files[p.path].text
        BY <1>1, <2>1 DEF HalfOK, Moving
    <2>3. rec'[p.d] \in Records' /\ Records' = Records
        BY <1>2, <2>1, SameScenario DEF DocumentsTypeOK, NoRec, Live
    <2>4. rec'[p.d].canon.text \in Nat /\ rec[p.d].canon.text \in Nat /\ files[p.path].text \in Nat
        BY <1>2, <1>4, <2>1, <2>2, <2>3, Fields, Ordered, ThereOrNot
    <2>5. \A a, b, c \in Nat : a <= b /\ b <= c => a <= c
        OBVIOUS
    <2> QED
        BY <1>3, <2>1, <2>2, <2>4, <2>5 DEF SameText
<1>8. Moving(p)'
    BY <1>1, <1>3, <1>5, <1>7 DEF HalfOK, Moving, SameText, Taking
<1> QED
    BY <1>1, <1>6, <1>8 DEF HalfOK

(* ... and keeps every other record in order.                              *)
LEMMA DocKept ==
    ASSUME DocumentsTypeOK, DocumentsTypeOK', ApprovalInv, scenario' = scenario, texts <= texts',
           NEW D, FilesMove(D), NEW e \in Docs \ D, rec'[e] = rec[e], told'[e] = told[e]
    PROVE  DocOK(e)'
<1>1. Approved(rec[e])' => (rec[e].hash.text = told[e])'
    BY DEF ApprovalInv, DocOK, Approved
<1>2. ASSUME Live(rec[e]) PROVE InOrder(rec[e])'
    <2>1. texts' \in Nat
        BY DEF DocumentsTypeOK
    <2>2. /\ rec[e].path \in Paths /\ rec[e].canon.text \in Nat /\ rec[e].hash.text \in Nat
          /\ texts \in Nat /\ rec[e].canon.text <= rec[e].hash.text /\ rec[e].hash.text <= texts
          /\ files[rec[e].path].text \in Nat
          /\ Exists(rec[e].path) => rec[e].hash.text <= files[rec[e].path].text
        BY <1>2, Ordered
    <2>3. e \in Known \ D
        BY <1>2 DEF Known, Live
    <2>4. files'[rec[e].path] \in FileStates \cup {NoFile} /\ files[rec[e].path] \in FileStates \cup {NoFile}
        BY <2>2 DEF DocumentsTypeOK
    <2>5. SameText(rec[e].path) \/ files'[rec[e].path].text = 0 \/ files'[rec[e].path].text > texts
        BY <2>2, <2>3 DEF FilesMove
    <2>6. Exists(rec[e].path)' => rec[e].hash.text <= files'[rec[e].path].text
        <3>1. CASE SameText(rec[e].path)
            BY <2>2, <2>4, <3>1, ThereOrNot DEF SameText, Exists
        <3>2. CASE files'[rec[e].path].text = 0
            BY <2>4, <3>2, ThereOrNot DEF Exists
        <3>3. CASE files'[rec[e].path].text > texts
            <4>1. files'[rec[e].path].text \in Nat
                BY <2>4, ThereOrNot
            <4>2. \A a, b, c \in Nat : a <= b /\ c > b => a <= c
                OBVIOUS
            <4> QED
                BY <2>2, <3>3, <4>1, <4>2
        <3> QED
            BY <2>5, <3>1, <3>2, <3>3
    <2>7. rec[e].hash.text <= texts'
        <3>1. \A a, b, c \in Nat : a <= b /\ b <= c => a <= c
            OBVIOUS
        <3> QED
            BY <2>1, <2>2, <3>1
    <2> QED
        BY <2>2, <2>6, <2>7 DEF InOrder
<1> QED
    BY <1>1, <1>2 DEF DocOK

(* A step on the documents D.                                              *)
LEMMA StepOn ==
    ASSUME DocumentsTypeOK, DocumentsTypeOK', ApprovalInv, NoRaces, scenario' = scenario, texts <= texts',
           NEW D, FilesMove(D),
           \A e \in Docs \ D : rec'[e] = rec[e] /\ told'[e] = told[e],
           \A d \in D : DocOK(d)',
           \A p \in Owning' : (p \in pend /\ p.d \notin D) \/ HalfOK(p)',
           OneMoveAtATime'
    PROVE  ApprovalInv'
<1>1. Docs' = Docs
    BY SameScenario
<1>2. ASSUME NEW e \in Docs PROVE DocOK(e)'
    BY <1>2, DocKept
<1>3. ASSUME NEW p \in Owning' PROVE HalfOK(p)'
    <2>1. CASE p \in pend /\ p.d \notin D
        <3>1. p \in Owning /\ HalfOK(p)
            BY <1>3, <2>1 DEF Owning, ApprovalInv
        <3>2. p.d \in Docs
            BY <3>1, Halves DEF Owning
        <3>3. rec'[p.d] = rec[p.d] /\ told'[p.d] = told[p.d] /\ rec[p.d].st # "none"
            BY <2>1, <3>1, <3>2 DEF HalfOK
        <3>4. p.op = "repath" /\ Live(rec'[p.d]) => Live(rec[p.d]) /\ rec'[p.d].canon.text <= rec[p.d].canon.text
            <4>1. \A n \in Nat : n <= n
                OBVIOUS
            <4> QED
                BY <3>2, <3>3, <4>1, Ordered
        <3> QED
            BY <3>1, <3>3, <3>4, HalfKept
    <2> QED
        BY <1>3, <2>1
<1> QED
    BY <1>1, <1>2, <1>3 DEF ApprovalInv

LEMMA FewerMoves ==
    ASSUME OneMoveAtATime, \A p \in Owning' : p \in pend \/ p.op \notin Taking
    PROVE  OneMoveAtATime'
    BY DEF OneMoveAtATime, Owning

(* A move or a removal begins when no other is under way on the document.  *)
LEMMA OneMoreMove ==
    ASSUME DocumentsTypeOK, ApprovalInv, NoRaces, NEW x, x.d \in Docs, rec[x.d].path \in Paths,
           Quiet(rec[x.d].path), pend' = pend \cup {x}
    PROVE  OneMoveAtATime'
<1>1. \A p \in Owning : p.d # x.d
    BY QuietMeansFree
<1> QED
    BY <1>1 DEF OneMoveAtATime, Owning, ApprovalInv

(* As long as a record's file is there, only approvals are under way on    *)
(* it, and they saw the text that is there.                                *)
LEMMA OnFile ==
    ASSUME DocumentsTypeOK, ApprovalInv, NEW q \in Owning, Exists(rec[q.d].path)
    PROVE  /\ q.op \in {"approve", "autoapprove"} /\ rec[q.d].path = q.r.path
           /\ files[rec[q.d].path].text = q.r.hash.text
<1>1. HalfOK(q) /\ q \in pend /\ q.op \notin {"movefeature", "supersede"}
    BY DEF ApprovalInv, Owning
<1>2. q.op \notin Taking
    BY <1>1 DEF HalfOK, Moving
<1> QED
    BY <1>1, <1>2, Halves DEF HalfOK, Approving, Taking

(* A move or a removal is alone on its document.                           *)
LEMMA Alone ==
    ASSUME DocumentsTypeOK, ApprovalInv, NEW p \in Owning, p.op \in Taking, NEW q \in Owning, q.d = p.d
    PROVE  q = p
<1>1. HalfOK(p) /\ HalfOK(q) /\ q \in pend /\ q.op \notin {"movefeature", "supersede"}
    BY DEF ApprovalInv, Owning
<1>2. q.op \in Taking
    BY <1>1, Halves DEF HalfOK, Moving, Approving, Taking
<1> QED
    BY <1>2 DEF ApprovalInv, OneMoveAtATime

(* Nothing that approvals depend on changes.                               *)
LEMMA NothingChanges ==
    ASSUME DocumentsTypeOK, DocumentsTypeOK', ApprovalInv, NoRaces, UNCHANGED <<scenario, files, rec, texts, told>>,
           Owning' \subseteq Owning
    PROVE  ApprovalInv'
<1>1. FilesMove({})
    BY DEF FilesMove, SameText
<1>2. texts <= texts'
    BY DEF DocumentsTypeOK
<1>3. OneMoveAtATime'
    BY DEF ApprovalInv, OneMoveAtATime
<1>4. \A p \in Owning' : p \in pend
    BY DEF Owning
<1> QED
    BY <1>1, <1>2, <1>3, <1>4, StepOn

(* The record changes where approvals do not look.                         *)
LEMMA NoMatter ==
    ASSUME DocumentsTypeOK, DocumentsTypeOK', ApprovalInv, NoRaces, UNCHANGED <<scenario, files, texts, told>>,
           Owning' \subseteq Owning,
           NEW d \in Docs, NEW n \in Records, rec' = [rec EXCEPT ![d] = n], rec[d].st # "none",
           n.st = rec[d].st, n.path = rec[d].path, n.hash = rec[d].hash, n.canon = rec[d].canon
    PROVE  ApprovalInv'
<1>1. FilesMove({d})
    BY DEF FilesMove, SameText
<1>2. texts <= texts'
    BY DEF DocumentsTypeOK
<1>3. OneMoveAtATime'
    BY DEF ApprovalInv, OneMoveAtATime
<1>4. rec'[d] = n /\ \A e \in Docs \ {d} : rec'[e] = rec[e] /\ told'[e] = told[e]
    BY DEF DocumentsTypeOK
<1>5. DocOK(d)'
    BY <1>4 DEF ApprovalInv, DocOK, Approved, Live, InOrder, Exists
<1>6. ASSUME NEW p \in Owning', p.d = d PROVE HalfOK(p)'
    <2>1. p \in Owning /\ rec'[p.d].st # "none" /\ rec'[p.d].path = rec[p.d].path /\ told'[p.d] = told[p.d]
        BY <1>4, <1>6
    <2>2. p.op = "repath" /\ Live(rec'[p.d]) => Live(rec[p.d]) /\ rec'[p.d].canon.text <= rec[p.d].canon.text
        <3>1. n.canon.text \in Nat
            BY Fields
        <3>2. \A m \in Nat : m <= m
            OBVIOUS
        <3> QED
            BY <1>4, <1>6, <3>1, <3>2 DEF Live
    <2> QED
        BY <1>1, <2>1, <2>2, HalfKept
<1>7. \A p \in Owning' : (p \in pend /\ p.d \notin {d}) \/ HalfOK(p)'
    BY <1>6 DEF Owning
<1> QED
    BY <1>1, <1>2, <1>3, <1>4, <1>5, <1>7, StepOn

LEMMA EditSteps ==
    ASSUME DocumentsTypeOK, DocumentsTypeOK', ApprovalInv, NoRaces, NEW path \in Paths, EditText(path) \/ EditLayout(path)
    PROVE  ApprovalInv'
<1>1. CASE EditText(path)
    <2>1. PICK t \in Nat \ {0} : /\ files' = [files EXCEPT ![path].text = t] /\ t = texts + 1 /\ texts' = texts + 1
        <3>1. texts \in Nat /\ MaxTexts \in Nat /\ "revert" \notin Authors
            BY MaxIsNumber DEF NoRaces, DocumentsTypeOK
        <3>2. PICK t \in 1..MaxTexts : /\ t = texts + 1 \/ "revert" \in Authors
                                      /\ files' = [files EXCEPT ![path].text = t]
                                      /\ texts' = IF t > texts THEN t ELSE texts
            BY <1>1 DEF EditText
        <3>3. t \in Nat \ {0} /\ t = texts + 1 /\ t > texts
            BY <3>1, <3>2
        <3> QED
            BY <3>2, <3>3
    <2>2. Exists(path) /\ Quiet(path) /\ UNCHANGED <<scenario, rec, pend, told>>
        BY <1>1 DEF EditText
    <2>3. files'[path].text = t
        <3>1. files'[path] = [files[path] EXCEPT !.text = t]
            BY <2>1 DEF DocumentsTypeOK
        <3>2. \A f \in FileStates : [f EXCEPT !.text = t].text = t
            BY DEF FileStates
        <3> QED
            BY <2>2, <3>1, <3>2, FileTyped
    <2>4. texts \in Nat /\ t > texts /\ texts <= texts'
        BY <2>1 DEF DocumentsTypeOK
    <2>5. FilesMove({})
        <3>1. \A q \in Paths \ {path} : files'[q] = files[q]
            BY <2>1 DEF DocumentsTypeOK
        <3> QED
            BY <2>2, <2>3, <2>4, <3>1 DEF FilesMove, SameText
    <2>6. OneMoveAtATime' /\ \A p \in Owning' : p \in pend
        BY <2>2 DEF ApprovalInv, OneMoveAtATime, Owning
    <2> QED
        BY <2>2, <2>4, <2>5, <2>6, StepOn
<1>2. CASE EditLayout(path)
    <2>1. /\ Exists(path) /\ files' = [files EXCEPT ![path].layout = 1]
          /\ UNCHANGED <<scenario, rec, pend, told, texts>>
        BY <1>2 DEF EditLayout
    <2>2. files'[path].text = files[path].text
        <3>1. files'[path] = [files[path] EXCEPT !.layout = 1]
            BY <2>1 DEF DocumentsTypeOK
        <3> QED
            BY <2>1, <3>1, FileTyped
    <2>3. FilesMove({})
        BY <2>1, <2>2 DEF FilesMove, SameText, DocumentsTypeOK
    <2>4. texts <= texts'
        BY <2>1 DEF DocumentsTypeOK
    <2>5. OneMoveAtATime' /\ \A p \in Owning' : p \in pend
        BY <2>1 DEF ApprovalInv, OneMoveAtATime, Owning
    <2> QED
        BY <2>1, <2>3, <2>4, <2>5, StepOn
<1> QED
    BY <1>1, <1>2

LEMMA RegistrationSteps ==
    ASSUME DocumentsTypeOK, DocumentsTypeOK', ApprovalInv, NoRaces,
           NEW r, r.path \in Paths, r.type \in DocTypes, r.owner \in Owners, DocID(r) \in Docs, SubmitDocument(r)
    PROVE  ApprovalInv'
<1> DEFINE d == DocID(r)
           n == NewRecord(r, files[r.path])
           x == [op |-> "autoapprove", d |-> d, r |-> n]
<1>1. /\ Exists(r.path) /\ rec[d].st = "none" /\ rec' = [rec EXCEPT ![d] = n] /\ d \in Docs
      /\ n \in Records /\ n.st = "draft" /\ n.path = r.path
      /\ n.hash = files[r.path] /\ n.canon.text = files[r.path].text
      /\ pend' = pend \/ pend' = pend \cup {x}
      /\ UNCHANGED <<scenario, files, texts, told>>
    BY SubmitFacts
<1> HIDE DEF d, n
<1>2. FilesMove({d})
    BY <1>1 DEF FilesMove, SameText
<1>3. rec'[d] = n /\ \A e \in Docs \ {d} : rec'[e] = rec[e] /\ told'[e] = told[e]
    BY <1>1 DEF DocumentsTypeOK
<1>4. texts \in Nat /\ files[r.path].text \in Nat /\ files[r.path].text <= texts
    BY Texts DEF DocumentsTypeOK
<1>5. DocOK(d)'
    BY <1>1, <1>3, <1>4 DEF DocOK, Approved, Live, InOrder
<1>6. ASSUME NEW p \in Owning' PROVE (p \in pend /\ p.d # d) \/ HalfOK(p)'
    <2>1. CASE p \in pend
        BY <1>1, <1>6, <2>1 DEF Owning, ApprovalInv, HalfOK
    <2>2. CASE p = x
        <3>1. p.op = "autoapprove" /\ p.d = d /\ p.r = n
            BY <2>2
        <3> QED
            BY <1>1, <1>3, <1>4, <3>1 DEF HalfOK, Approving, Moving, Exists, Taking
    <2> QED
        BY <1>1, <1>6, <2>1, <2>2 DEF Owning
<1>7. OneMoveAtATime'
    <2>1. \A p \in Owning' : p \in pend \/ p.op \notin Taking
        BY <1>1 DEF Owning, Taking
    <2> QED
        BY <2>1, FewerMoves DEF ApprovalInv
<1> QED
    BY <1>1, <1>2, <1>3, <1>4, <1>5, <1>6, <1>7, StepOn

LEMMA SkeletonStep ==
    ASSUME DocumentsTypeOK, DocumentsTypeOK', ApprovalInv, NoRaces, NEW r \in Registrations, WriteSkeletonDevPlan(r)
    PROVE  ApprovalInv'
<1> DEFINE d == DocID(r)
<1>1. PICK f \in FileStates, n \in Records :
          /\ f.text = texts + 1 /\ texts' = texts + 1 /\ Quiet(r.path)
          /\ files' = [files EXCEPT ![r.path] = f] /\ rec' = [rec EXCEPT ![d] = n]
          /\ rec[d].st # "none" => rec[d].path = r.path
          /\ \/ n = rec[d] /\ n.st = "superseded"
             \/ n.path = r.path /\ n.hash = f /\ n.canon.text = f.text /\ rec[d].st # "superseded"
          /\ n.st # "none"
          /\ told' = IF n.st = "approved" THEN [told EXCEPT ![d] = f.text] ELSE told
          /\ UNCHANGED <<scenario, pend>>
    BY SkeletonFacts
<1>2. d \in Docs /\ r.path \in Paths
    BY Registered
<1> HIDE DEF d
<1>3. texts \in Nat /\ texts <= texts' /\ f.text > texts /\ f.text <= f.text /\ f.text <= texts'
    BY <1>1 DEF DocumentsTypeOK
<1>4. /\ rec'[d] = n /\ (n.st = "approved" => told'[d] = f.text) /\ files'[r.path] = f
      /\ \A e \in Docs \ {d} : rec'[e] = rec[e] /\ told'[e] = told[e]
      /\ \A path \in Paths \ {r.path} : files'[path] = files[path]
    BY <1>1, <1>2 DEF DocumentsTypeOK
<1>5. FilesMove({d})
    BY <1>1, <1>3, <1>4 DEF FilesMove, SameText
<1>6. DocOK(d)'
    BY <1>1, <1>3, <1>4 DEF DocOK, Approved, Live, InOrder
<1>7. ASSUME NEW p \in Owning' PROVE p \in pend /\ p.d # d
    <2>1. p \in Owning /\ p \in pend /\ rec[p.d].st # "none"
        BY <1>1, <1>7 DEF Owning, ApprovalInv, HalfOK
    <2>2. rec[p.d].path # r.path
        BY <1>1, <1>2, <2>1, QuietMeansFree
    <2> QED
        BY <1>1, <2>1, <2>2
<1>8. OneMoveAtATime'
    BY <1>1 DEF ApprovalInv, OneMoveAtATime, Owning
<1> QED
    BY <1>1, <1>2, <1>3, <1>4, <1>5, <1>6, <1>7, <1>8, StepOn

(* An approval, a refresh and every other look at the file takes the text  *)
(* that is there; whoever else is approving saw the same.                  *)
LEMMA LooksAtFile ==
    ASSUME DocumentsTypeOK, DocumentsTypeOK', ApprovalInv, NoRaces, UNCHANGED <<scenario, files, texts>>,
           NEW d \in Docs, Exists(rec[d].path), rec[d].st # "none",
           NEW n \in Records, rec' = [rec EXCEPT ![d] = n], n.path = rec[d].path,
           n.hash = files[rec[d].path], n.canon.text <= files[rec[d].path].text,
           \A e \in Docs \ {d} : told'[e] = told[e],
           told'[d] = told[d] \/ told'[d] = files[rec[d].path].text,
           n.st = "approved" => told'[d] = files[rec[d].path].text,
           \A p \in Owning' : p \in pend \/ (p.op \notin Taking /\ HalfOK(p)')
    PROVE  ApprovalInv'
<1>1. FilesMove({d})
    BY DEF FilesMove, SameText
<1>2. texts \in Nat /\ texts <= texts'
    BY DEF DocumentsTypeOK
<1>3. rec'[d] = n /\ \A e \in Docs \ {d} : rec'[e] = rec[e]
    BY DEF DocumentsTypeOK
<1>4. rec[d].path \in Paths
    BY KnownRecords, Fields
<1>5. files[rec[d].path].text \in Nat /\ files[rec[d].path].text <= texts
    BY <1>4, Texts DEF DocumentsTypeOK
<1>6. \A m \in Nat : m <= m
    OBVIOUS
<1>7. DocOK(d)'
    BY <1>3, <1>5, <1>6 DEF DocOK, Approved, Live, InOrder
<1>8. ASSUME NEW p \in Owning' PROVE (p \in pend /\ p.d # d) \/ HalfOK(p)'
    <2>1. CASE p \in pend /\ p.d = d
        <3>1. p \in Owning
            BY <1>8, <2>1 DEF Owning
        <3>2. p.op # "repath" /\ files[rec[d].path].text = p.r.hash.text
            BY <2>1, <3>1, OnFile
        <3>3. rec'[p.d].st # "none" /\ rec'[p.d].path = rec[p.d].path
            <4>1. n.st # "none"
                BY Fields
            <4> QED
                BY <1>3, <2>1, <4>1
        <3> QED
            BY <1>1, <2>1, <3>1, <3>2, <3>3, HalfKept
    <2> QED
        BY <1>8, <2>1
<1>9. OneMoveAtATime'
    <2>1. \A p \in Owning' : p \in pend \/ p.op \notin Taking
        OBVIOUS
    <2> QED
        BY <2>1, FewerMoves DEF ApprovalInv
<1> QED
    BY <1>1, <1>2, <1>3, <1>7, <1>8, <1>9, StepOn

LEMMA DocSteps ==
    ASSUME DocumentsTypeOK, DocumentsTypeOK', ApprovalInv, NoRaces, NEW d \in Docs,
           ApproveDocument(d) \/ RefreshContentHash(d) \/ AttachQualityEvaluation(d) \/ RecordFalsePositive(d)
           \/ Classify(d)
    PROVE  ApprovalInv'
<1>1. CASE ApproveDocument(d)
    <2> DEFINE n == [rec[d] EXCEPT !.st = "approved", !.hash = files[rec[d].path]]
               x == [op |-> "approve", d |-> d, r |-> n]
    <2>1. /\ rec[d].st = "draft" /\ Exists(rec[d].path) /\ rec' = [rec EXCEPT ![d] = n]
          /\ told' = [told EXCEPT ![d] = files[rec[d].path].text]
          /\ pend' = pend \cup {[op |-> "approve", d |-> d, r |-> rec'[d]]}
          /\ UNCHANGED <<scenario, files, texts>>
        BY <1>1 DEF ApproveDocument, Save
    <2>2. /\ rec[d].path \in Paths /\ rec[d] \in Records /\ rec[d].canon.text <= files[rec[d].path].text
          /\ files[rec[d].path] \in FileStates
        BY <2>1, Ordered, FileTyped DEF Live
    <2>3. n \in Records /\ n.st = "approved" /\ n.path = rec[d].path /\ n.hash = files[rec[d].path] /\ n.canon = rec[d].canon
        BY <2>2 DEF Records
    <2> HIDE DEF n
    <2>4. rec'[d] = n /\ told'[d] = files[rec[d].path].text /\ \A e \in Docs \ {d} : told'[e] = told[e]
        BY <2>1 DEF DocumentsTypeOK
    <2>5. ASSUME NEW p \in Owning', p \notin pend PROVE p.op \notin Taking /\ HalfOK(p)'
        <3>1. p.op = "approve" /\ p.d = d /\ p.r = n
            BY <2>1, <2>4, <2>5 DEF Owning
        <3>2. p.op \notin Taking
            BY <3>1 DEF Taking
        <3> QED
            BY <2>1, <2>2, <2>3, <2>4, <3>1, <3>2 DEF HalfOK, Approving, Moving, Exists
    <2> QED
        BY <2>1, <2>2, <2>3, <2>4, <2>5, LooksAtFile
<1>2. CASE RefreshContentHash(d)
    <2> DEFINE f == files[rec[d].path]
               n == Refreshed(rec[d], f)
    <2>1. /\ d \in Known /\ Exists(rec[d].path) /\ rec' = [rec EXCEPT ![d] = n]
          /\ UNCHANGED <<scenario, files, texts, pend, told>>
        BY <1>2 DEF RefreshContentHash, Save
    <2>2. rec[d] \in Records /\ rec[d].st # "none" /\ rec[d].path \in Paths /\ f \in FileStates /\ f.text \in Nat
        BY <2>1, KnownRecords, Fields, FileTyped
    <2>3. /\ n \in Records /\ n.path = rec[d].path /\ n.hash = f /\ n.canon.text = f.text
          /\ n.st = "approved" => rec[d].st = "approved" /\ rec[d].canon.text = f.text
        BY <2>2, Refresh
    <2> HIDE DEF n
    <2>4. n.st = "approved" => told[d] = f.text
        <3>1. SUFFICES ASSUME n.st = "approved" PROVE told[d] = f.text
            OBVIOUS
        <3>2. /\ rec[d].hash.text \in Nat /\ rec[d].hash.text <= f.text /\ f.text <= rec[d].hash.text
              /\ rec[d].hash.text = told[d]
            BY <2>1, <2>3, <3>1, Ordered DEF Live, ApprovalInv, DocOK, Approved
        <3> QED
            BY <2>2, <3>2
    <2>5. \A m \in Nat : m <= m
        OBVIOUS
    <2>6. \A p \in Owning' : p \in pend
        BY <2>1 DEF Owning
    <2> QED
        BY <2>1, <2>2, <2>3, <2>4, <2>5, <2>6, LooksAtFile
<1>3. CASE AttachQualityEvaluation(d)
    <2>1. PICK e \in {"fail", "pass"} : rec' = [rec EXCEPT ![d] = [rec[d] EXCEPT !.eval = e]]
        BY <1>3 DEF AttachQualityEvaluation, Save
    <2>2. rec[d].st \in {"draft", "approved"} /\ UNCHANGED <<scenario, files, texts, pend, told>>
        BY <1>3 DEF AttachQualityEvaluation
    <2>3. rec[d] \in Records
        BY <2>2, KnownRecords
    <2> DEFINE n == [rec[d] EXCEPT !.eval = e]
    <2>4. n.st = rec[d].st /\ n.path = rec[d].path /\ n.hash = rec[d].hash /\ n.canon = rec[d].canon
        BY <2>3, SameStatus
    <2>5. n \in Records
        BY <2>3 DEF Records
    <2> HIDE DEF n
    <2>6. rec' = [rec EXCEPT ![d] = n] /\ Owning' = Owning /\ rec[d].st # "none"
        BY <2>1, <2>2 DEF n, Owning
    <2> QED
        BY <2>2, <2>4, <2>5, <2>6, NoMatter
<1>4. CASE RecordFalsePositive(d) \/ Classify(d)
    <2>1. UNCHANGED <<scenario, files, rec, texts, pend, told>>
        BY <1>4 DEF RecordFalsePositive, Classify
    <2>2. Owning' = Owning
        BY <2>1 DEF Owning
    <2> QED
        BY <2>1, <2>2, NothingChanges
<1> QED
    BY <1>1, <1>2, <1>3, <1>4

LEMMA SupersedeStep ==
    ASSUME DocumentsTypeOK, DocumentsTypeOK', ApprovalInv, NoRaces, NEW d \in Docs, NEW e \in Docs, SupersedeDocument(d, e)
    PROVE  ApprovalInv'
<1> DEFINE n == [rec[e] EXCEPT !.sup = d]
<1>1. /\ rec' = [rec EXCEPT ![e] = n] /\ e \in Known /\ UNCHANGED <<scenario, files, texts, told>>
      /\ pend' = pend \cup {[op |-> "supersede", d |-> d, r |-> rec[d], by |-> e]}
    BY DEF SupersedeDocument, Save
<1>2. rec[e] \in Records /\ rec[e].st # "none"
    BY <1>1, KnownRecords
<1>3. /\ n \in Records
      /\ n.st = rec[e].st /\ n.path = rec[e].path /\ n.hash = rec[e].hash /\ n.canon = rec[e].canon
    BY <1>2, SameStatus DEF Records
<1>4. Owning' \subseteq Owning
    BY <1>1 DEF Owning
<1> HIDE DEF n
<1> QED
    BY <1>1, <1>2, <1>3, <1>4, NoMatter

(* A renamed file: nobody is between two halves at either end of it, and   *)
(* no other record knows the destination.                                  *)
LEMMA Renamed ==
    ASSUME DocumentsTypeOK, ApprovalInv, NoRaces, NEW d \in Docs, rec[d].path \in Paths, NEW to \in Paths,
           rec[d].path # to, Exists(rec[d].path), Quiet(rec[d].path), Quiet(to), Unclaimed(to, d),
           files' = [files EXCEPT ![to] = files[rec[d].path], ![rec[d].path] = NoFile], texts' = texts
    PROVE  /\ FilesMove({d}) /\ texts <= texts'
           /\ files'[to] = files[rec[d].path] /\ Exists(to)' /\ files'[rec[d].path] = NoFile
           /\ files[rec[d].path].text \in Nat /\ files[rec[d].path].text <= texts
           /\ \A p \in Owning : p.d # d
<1>1. /\ files'[to] = files[rec[d].path] /\ files'[rec[d].path] = NoFile
      /\ \A q \in Paths \ {rec[d].path, to} : files'[q] = files[q]
    BY FileMoves
<1>2. \A e \in Known \ {d} : rec[e].path # to
    BY DEF Unclaimed, NoRaces
<1>3. NoFile.text = 0
    BY DEF NoFile
<1>4. FilesMove({d})
    BY <1>1, <1>2, <1>3 DEF FilesMove, SameText
<1>5. texts <= texts' /\ files[rec[d].path].text \in Nat /\ files[rec[d].path].text <= texts
    BY Texts DEF DocumentsTypeOK
<1>6. \A p \in Owning : p.d # d
    BY QuietMeansFree
<1>7. Exists(to)'
    BY <1>1 DEF Exists
<1> QED
    BY <1>1, <1>4, <1>5, <1>6, <1>7

LEMMA MoveStep ==
    ASSUME DocumentsTypeOK, DocumentsTypeOK', ApprovalInv, NoRaces, NEW d \in Docs, NEW path \in Paths,
           MoveDocument(d, path) \/ \E o \in Parents : KbzMove(d, path, o)
    PROVE  ApprovalInv'
<1>1. /\ d \in Known /\ Exists(rec[d].path) /\ rec[d].path # path
      /\ Quiet(rec[d].path) /\ Quiet(path) /\ Unclaimed(path, d)
      /\ files' = [files EXCEPT ![path] = files[rec[d].path], ![rec[d].path] = NoFile]
      /\ UNCHANGED <<scenario, rec, texts, told>>
    BY DEF MoveDocument, KbzMove, CanGitMove, GitMoved
<1>2. PICK x : /\ pend' = pend \cup {x} /\ x.d = d /\ x.r = rec[d] /\ x.path = path
               /\ \/ x.op = "move" /\ x.f = files[rec[d].path]
                  \/ x.op = "repath"
    <2>1. CASE MoveDocument(d, path)
        <3> DEFINE y == [op |-> "move", d |-> d, r |-> rec[d], path |-> path, f |-> files[rec[d].path]]
        <3>1. pend' = pend \cup {y}
            BY <2>1 DEF MoveDocument
        <3>2. y.op = "move" /\ y.d = d /\ y.r = rec[d] /\ y.path = path /\ y.f = files[rec[d].path]
            OBVIOUS
        <3> HIDE DEF y
        <3> QED
            BY <3>1, <3>2
    <2>2. CASE \E o \in Parents : KbzMove(d, path, o)
        <3>1. PICK o \in Parents : KbzMove(d, path, o)
            BY <2>2
        <3> DEFINE y == [op |-> "repath", d |-> d, r |-> rec[d], path |-> path, owner |-> o]
        <3>2. pend' = pend \cup {y}
            BY <3>1 DEF KbzMove
        <3>3. y.op = "repath" /\ y.d = d /\ y.r = rec[d] /\ y.path = path
            OBVIOUS
        <3> HIDE DEF y
        <3> QED
            BY <3>2, <3>3
    <2> QED
        BY <2>1, <2>2
<1>3. rec[d] \in Records /\ rec[d].path \in Paths /\ rec[d].st # "none"
    BY <1>1, KnownRecords, Fields
<1>4. /\ FilesMove({d}) /\ texts <= texts'
      /\ files'[path] = files[rec[d].path] /\ Exists(path)' /\ files'[rec[d].path] = NoFile
      /\ \A p \in Owning : p.d # d
    BY <1>1, <1>3, Renamed
<1>5. DocOK(d)'
    BY <1>1, <1>4 DEF ApprovalInv, DocOK, Approved, Live, InOrder, Exists
<1>6. HalfOK(x)'
    <2>1. Live(rec[d]) => rec[d].canon.text <= files[rec[d].path].text
        BY <1>1, Ordered
    <2> QED
        BY <1>1, <1>2, <1>3, <1>4, <2>1 DEF HalfOK, Approving, Moving, Exists
<1>7. \A p \in Owning' : (p \in pend /\ p.d \notin {d}) \/ HalfOK(p)'
    BY <1>2, <1>4, <1>6 DEF Owning
<1>8. OneMoveAtATime'
    BY <1>1, <1>2, <1>3, OneMoreMove
<1> QED
    BY <1>1, <1>4, <1>5, <1>7, <1>8, StepOn

LEMMA FeatureSteps ==
    ASSUME DocumentsTypeOK, DocumentsTypeOK', ApprovalInv, NoRaces,
           \/ \E plan \in Parents : MoveFeature(plan)
           \/ \E p \in pend, d \in Docs, path \in Paths : MoveNext(p, d, path)
    PROVE  ApprovalInv'
<1>1. CASE \E plan \in Parents : MoveFeature(plan)
    <2>1. PICK plan \in Parents : MoveFeature(plan)
        BY <1>1
    <2> DEFINE x == [op |-> "movefeature", docs |-> {d \in Known : rec[d].owner = Feature}, plan |-> plan]
    <2>2. /\ UNCHANGED <<scenario, files, rec, texts, told>>
          /\ pend' = pend \cup {x} /\ x.op = "movefeature"
        BY <2>1 DEF MoveFeature
    <2> HIDE DEF x
    <2>3. Owning' \subseteq Owning
        BY <2>2 DEF Owning
    <2> QED
        BY <2>2, <2>3, NothingChanges
<1>2. CASE \E p \in pend, d \in Docs, path \in Paths : MoveNext(p, d, path)
    <2>1. PICK p \in pend, d \in Docs, path \in Paths : MoveNext(p, d, path)
        BY <1>2
    <2> DEFINE f == files[rec[d].path]
               n == [rec[d] EXCEPT !.path = path, !.owner = p.plan, !.hash = f]
    <2>2. /\ p.op = "movefeature" /\ d \in Known /\ Exists(rec[d].path) /\ rec[d].path # path
          /\ Quiet(rec[d].path) /\ Quiet(path) /\ Unclaimed(path, d)
          /\ files' = [files EXCEPT ![path] = f, ![rec[d].path] = NoFile]
          /\ rec' = [rec EXCEPT ![d] = n]
          /\ told' = IF Approved(rec[d]) THEN [told EXCEPT ![d] = f.text] ELSE told
          /\ pend' = (pend \ {p}) \cup {[p EXCEPT !.docs = @ \ {d}]}
          /\ UNCHANGED <<scenario, texts>>
        BY <2>1 DEF MoveNext, CanGitMove, GitMoved, Save
    <2>3. rec[d] \in Records /\ rec[d].path \in Paths /\ f \in FileStates
        BY <2>2, KnownRecords, Fields, FileTyped
    <2>4. /\ FilesMove({d}) /\ texts <= texts' /\ f.text \in Nat /\ f.text <= texts
          /\ files'[path] = f /\ Exists(path)'
          /\ \A q \in Owning : q.d # d
        BY <2>2, <2>3, Renamed
    <2>5. n.st = rec[d].st /\ n.path = path /\ n.hash = f /\ n.canon = rec[d].canon
        BY <2>3, SameStatus
    <2>6. Live(rec[d]) => rec[d].canon.text <= f.text
        BY <2>2, Ordered
    <2> HIDE DEF f, n
    <2>7. /\ rec'[d] = n /\ (Approved(rec[d]) => told'[d] = f.text)
          /\ \A e \in Docs \ {d} : rec'[e] = rec[e] /\ told'[e] = told[e]
        BY <2>2 DEF DocumentsTypeOK
    <2>8. \A m \in Nat : m <= m
        OBVIOUS
    <2>9. DocOK(d)'
        BY <2>2, <2>4, <2>5, <2>6, <2>7, <2>8 DEF DocOK, Approved, Live, InOrder
    <2>10. Owning' \subseteq Owning
        <3>1. p \in [op : {"movefeature"}, docs : SUBSET Docs, plan : Parents]
            BY <2>2 DEF DocumentsTypeOK, SecondHalves
        <3>2. [p EXCEPT !.docs = @ \ {d}].op = "movefeature"
            BY <3>1
        <3> QED
            BY <2>2, <3>2 DEF Owning
    <2>11. OneMoveAtATime' /\ \A q \in Owning' : q \in pend /\ q.d # d
        BY <2>4, <2>10 DEF ApprovalInv, OneMoveAtATime, Owning
    <2> QED
        BY <2>2, <2>4, <2>7, <2>9, <2>11, StepOn
<1> QED
    BY <1>1, <1>2

LEMMA DeleteStep ==
    ASSUME DocumentsTypeOK, DocumentsTypeOK', ApprovalInv, NoRaces, NEW d \in Docs, NEW force \in BOOLEAN,
           DeleteDocument(d, force)
    PROVE  ApprovalInv'
<1>1. /\ d \in Known /\ Quiet(rec[d].path) /\ files' = [files EXCEPT ![rec[d].path] = NoFile]
      /\ pend' = pend \cup {[op |-> "delete", d |-> d, r |-> rec[d]]}
      /\ UNCHANGED <<scenario, rec, texts, told>>
    BY DEF DeleteDocument
<1>2. rec[d] \in Records /\ rec[d].path \in Paths /\ rec[d].st # "none"
    BY <1>1, KnownRecords, Fields
<1>3. NoFile.text = 0 /\ files'[rec[d].path] = NoFile /\ \A q \in Paths \ {rec[d].path} : files'[q] = files[q]
    BY <1>1, <1>2 DEF DocumentsTypeOK, NoFile
<1>4. FilesMove({})
    BY <1>1, <1>3 DEF FilesMove, SameText
<1>5. texts <= texts'
    BY <1>1 DEF DocumentsTypeOK
<1>6. PICK x : pend' = pend \cup {x} /\ x.d = d /\ x.r = rec[d] /\ x.op = "delete"
    <2> DEFINE y == [op |-> "delete", d |-> d, r |-> rec[d]]
    <2>1. pend' = pend \cup {y} /\ y.d = d /\ y.r = rec[d] /\ y.op = "delete"
        BY <1>1
    <2> HIDE DEF y
    <2> QED
        BY <2>1
<1>7. HalfOK(x)'
    BY <1>1, <1>2, <1>3, <1>6 DEF HalfOK, Approving, Moving, Exists
<1>8. OneMoveAtATime'
    BY <1>1, <1>2, <1>6, OneMoreMove
<1>9. \A p \in Owning' : p \in pend \/ HalfOK(p)'
    BY <1>6, <1>7 DEF Owning
<1> QED
    BY <1>1, <1>4, <1>5, <1>8, <1>9, StepOn

(* The second half of a move or a removal finds the record it began with,  *)
(* and leaves no other call on the document.                               *)
LEMMA TakingEnds ==
    ASSUME DocumentsTypeOK, DocumentsTypeOK', ApprovalInv, NoRaces, UNCHANGED <<scenario, files, texts>>,
           NEW p \in Owning, p.op \in Taking, pend' = pend \ {p},
           \A e \in Docs \ {p.d} : rec'[e] = rec[e] /\ told'[e] = told[e],
           DocOK(p.d)'
    PROVE  ApprovalInv'
<1>1. FilesMove({p.d})
    BY DEF FilesMove, SameText
<1>2. texts <= texts'
    BY DEF DocumentsTypeOK
<1>3. \A q \in Owning' : q \in pend /\ q.d \notin {p.d}
    BY Alone DEF Owning
<1>4. OneMoveAtATime'
    BY DEF ApprovalInv, OneMoveAtATime, Owning
<1> QED
    BY <1>1, <1>2, <1>3, <1>4, StepOn

LEMMA TakingSteps ==
    ASSUME DocumentsTypeOK, DocumentsTypeOK', ApprovalInv, NoRaces, NEW p \in pend,
           MoveEnd(p) \/ UpdateDocumentPathAndOwner(p) \/ DeleteEnd(p)
    PROVE  ApprovalInv'
<1>1. /\ p.op \in Taking /\ p.op # "movefeature" /\ p.op # "supersede" /\ pend' = pend \ {p}
      /\ UNCHANGED <<scenario, files, texts>>
    BY DEF MoveEnd, UpdateDocumentPathAndOwner, DeleteEnd, Taking
<1>2. p \in Owning /\ HalfOK(p)
    BY <1>1 DEF Owning, ApprovalInv
<1>3. p.d \in Docs /\ p.r \in Records
    BY <1>1, Halves
<1>4. Owning' \subseteq Owning
    BY <1>1 DEF Owning
<1>5. \A m \in Nat : m <= m
    OBVIOUS
<1>6. CASE MoveEnd(p)
    <2> DEFINE n == [p.r EXCEPT !.path = p.path, !.hash = p.f, !.type = InferDocType(p.path, p.r.type)]
    <2>1. /\ p.op = "move"
          /\ \/ UNCHANGED <<rec, told>>
             \/ /\ rec[p.d].st = "none" \/ rec[p.d] = p.r
                /\ rec' = [rec EXCEPT ![p.d] = n]
                /\ told' = IF Approved(p.r) THEN [told EXCEPT ![p.d] = p.f.text] ELSE told
        BY <1>6 DEF MoveEnd, Unchanged, Save
    <2>2. /\ p.path \in Paths /\ p.f \in FileStates /\ rec[p.d].st # "none" /\ Exists(p.path)
          /\ files[p.path].text = p.f.text /\ (Live(p.r) => p.r.canon.text <= p.f.text)
        BY <1>1, <1>2, <2>1, Halves DEF HalfOK, Moving
    <2>3. n.st = p.r.st /\ n.path = p.path /\ n.hash = p.f /\ n.canon = p.r.canon
        BY <1>3, <2>2, SameStatus
    <2>4. p.f.text \in Nat /\ p.f.text <= texts
        BY <2>2, Texts DEF DocumentsTypeOK
    <2> HIDE DEF n
    <2>5. CASE UNCHANGED <<rec, told>>
        BY <1>1, <1>4, <2>5, NothingChanges
    <2>6. CASE /\ rec' = [rec EXCEPT ![p.d] = n]
               /\ told' = IF Approved(p.r) THEN [told EXCEPT ![p.d] = p.f.text] ELSE told
        <3>1. /\ rec'[p.d] = n /\ (Approved(p.r) => told'[p.d] = p.f.text)
              /\ \A e \in Docs \ {p.d} : rec'[e] = rec[e] /\ told'[e] = told[e]
            BY <1>3, <2>6 DEF DocumentsTypeOK
        <3>2. DocOK(p.d)'
            BY <1>1, <1>5, <2>2, <2>3, <2>4, <3>1 DEF DocOK, Approved, Live, InOrder
        <3> QED
            BY <1>1, <1>2, <3>1, <3>2, TakingEnds
    <2> QED
        BY <2>1, <2>2, <2>5, <2>6
<1>7. CASE UpdateDocumentPathAndOwner(p)
    <2> DEFINE r == rec[p.d]
               n == Repathed(r, p.path, p.owner)
    <2>1. /\ p.op = "repath" /\ r.st # "none" /\ Exists(p.path) /\ p.path \in Paths
          /\ Live(r) => r.canon.text <= files[p.path].text
        BY <1>1, <1>2, <1>7, Halves DEF HalfOK, Moving, UpdateDocumentPathAndOwner
    <2>2. /\ rec' = [rec EXCEPT ![p.d] = n]
          /\ told' = IF Approved(r) /\ Exists(p.path) THEN [told EXCEPT ![p.d] = files[p.path].text] ELSE told
        BY <1>7, <2>1 DEF UpdateDocumentPathAndOwner, Save
    <2>3. n.st = r.st /\ n.path = p.path /\ n.hash = files[p.path] /\ n.canon = r.canon
        BY <1>3, <2>1, KnownRecords, RepathedFacts
    <2>4. files[p.path].text \in Nat /\ files[p.path].text <= texts
        BY <2>1, Texts DEF DocumentsTypeOK
    <2> HIDE DEF n
    <2>5. /\ rec'[p.d] = n /\ (Approved(r) => told'[p.d] = files[p.path].text)
          /\ \A e \in Docs \ {p.d} : rec'[e] = rec[e] /\ told'[e] = told[e]
        BY <1>3, <2>1, <2>2 DEF DocumentsTypeOK
    <2>6. DocOK(p.d)'
        BY <1>1, <1>5, <2>1, <2>3, <2>4, <2>5 DEF DocOK, Approved, Live, InOrder
    <2> QED
        BY <1>1, <1>2, <2>5, <2>6, TakingEnds
<1>8. CASE DeleteEnd(p)
    <2>1. rec' = [rec EXCEPT ![p.d] = NoRec] /\ told' = told
        BY <1>8 DEF DeleteEnd, Save
    <2>2. rec'[p.d] = NoRec /\ \A e \in Docs \ {p.d} : rec'[e] = rec[e] /\ told'[e] = told[e]
        BY <1>3, <2>1 DEF DocumentsTypeOK
    <2>3. DocOK(p.d)'
        BY <2>2 DEF DocOK, Approved, Live, NoRec
    <2> QED
        BY <1>1, <1>2, <2>2, <2>3, TakingEnds
<1> QED
    BY <1>6, <1>7, <1>8

(* The second half of an approval puts back the record as it was approved, *)
(* whatever happened to it since; its file is still there with that text.  *)
LEMMA ApprovingSteps ==
    ASSUME DocumentsTypeOK, DocumentsTypeOK', ApprovalInv, NoRaces, NEW p \in pend,
           ApproveEnd(p) \/ AutoApproveEnd(p)
    PROVE  ApprovalInv'
<1>1. /\ p.op \in {"approve", "autoapprove"} /\ pend' = pend \ {p} /\ UNCHANGED <<scenario, texts>>
      /\ p.op # "movefeature"
    BY DEF ApproveEnd, AutoApproveEnd
<1>2. p \in Owning /\ HalfOK(p) /\ p.op \notin Taking
    BY <1>1 DEF Owning, ApprovalInv, Taking
<1>3. /\ p.d \in Docs /\ p.r \in Records /\ p.r.path \in Paths /\ p.r.hash \in FileStates
      /\ p.r.hash.text \in Nat /\ p.r.canon.text \in Nat
    BY <1>1, Halves, Fields
<1>4. /\ rec[p.d].st # "none" /\ rec[p.d].path = p.r.path /\ Exists(p.r.path)
      /\ files[p.r.path].text = p.r.hash.text /\ p.r.canon.text <= p.r.hash.text
      /\ p.op = "approve" => p.r.st = "approved" /\ told[p.d] = p.r.hash.text
    BY <1>1, <1>2 DEF HalfOK, Approving
<1>5. p.r.hash.text <= texts
    BY <1>3, <1>4, FileTyped
<1>6. Owning' \subseteq Owning /\ OneMoveAtATime' /\ texts <= texts'
    BY <1>1 DEF Owning, ApprovalInv, OneMoveAtATime, DocumentsTypeOK
<1>7. \A m \in Nat : m <= m
    OBVIOUS
<1>8. ASSUME NEW n \in Records, rec' = [rec EXCEPT ![p.d] = n], n.st = "approved", n.path = p.r.path,
             n.hash.text = p.r.hash.text, n.canon = p.r.canon,
             \A path \in Paths : SameText(path),
             told'[p.d] = p.r.hash.text, \A e \in Docs \ {p.d} : told'[e] = told[e]
      PROVE  ApprovalInv'
    <2>1. FilesMove({p.d})
        BY <1>8 DEF FilesMove
    <2>2. rec'[p.d] = n /\ \A e \in Docs \ {p.d} : rec'[e] = rec[e] /\ told'[e] = told[e]
        BY <1>3, <1>8 DEF DocumentsTypeOK
    <2>3. files'[p.r.path].text = p.r.hash.text
        BY <1>3, <1>4, <1>8 DEF SameText
    <2>4. DocOK(p.d)'
        BY <1>1, <1>3, <1>4, <1>5, <1>7, <1>8, <2>2, <2>3 DEF DocOK, Approved, Live, InOrder
    <2>5. ASSUME NEW q \in Owning', q.d = p.d PROVE HalfOK(q)'
        <3>1. q \in Owning
            BY <1>6
        <3>2. q.op # "repath" /\ rec[q.d].path = p.r.path /\ files[p.r.path].text = q.r.hash.text
            BY <1>4, <2>5, <3>1, OnFile
        <3>3. rec'[q.d].st # "none" /\ rec'[q.d].path = rec[q.d].path /\ told'[q.d] = q.r.hash.text
            BY <1>4, <1>8, <2>2, <2>5, <3>2
        <3> QED
            BY <1>1, <2>1, <3>1, <3>2, <3>3, HalfKept
    <2>6. \A q \in Owning' : (q \in pend /\ q.d \notin {p.d}) \/ HalfOK(q)'
        BY <1>1, <2>5 DEF Owning
    <2> QED
        BY <1>1, <1>6, <2>1, <2>2, <2>4, <2>6, StepOn
<1>9. CASE AutoApproveEnd(p)
    <2> DEFINE n == [p.r EXCEPT !.st = "approved"]
    <2>1. /\ rec' = [rec EXCEPT ![p.d] = n] /\ told' = [told EXCEPT ![p.d] = p.r.hash.text] /\ files' = files
        BY <1>9 DEF AutoApproveEnd, Save
    <2>2. n \in Records /\ n.st = "approved" /\ n.path = p.r.path /\ n.hash = p.r.hash /\ n.canon = p.r.canon
        BY <1>3 DEF Records
    <2> HIDE DEF n
    <2>3. told'[p.d] = p.r.hash.text /\ \A e \in Docs \ {p.d} : told'[e] = told[e]
        BY <1>3, <2>1 DEF DocumentsTypeOK
    <2>4. \A path \in Paths : SameText(path)
        BY <2>1 DEF SameText
    <2> QED
        BY <1>8, <2>1, <2>2, <2>3, <2>4
<1>10. CASE ApproveEnd(p)
    <2>1. p.op = "approve" /\ told' = told
        BY <1>10 DEF ApproveEnd
    <2>2. CASE files[p.r.path].line # "none"
        <3> DEFINE g == files'[p.r.path]
                   n == [p.r EXCEPT !.hash = g]
        <3>1. /\ files' = [files EXCEPT ![p.r.path].line = "approved"] /\ rec' = [rec EXCEPT ![p.d] = n]
            BY <1>4, <1>10, <2>2 DEF ApproveEnd, PatchStatusField, Save
        <3>2. g = [files[p.r.path] EXCEPT !.line = "approved"] /\ \A q \in Paths \ {p.r.path} : files'[q] = files[q]
            BY <1>3, <3>1 DEF DocumentsTypeOK
        <3>3. g \in FileStates /\ g.text = files[p.r.path].text
            BY <1>3, <1>4, <3>2, FileTyped
        <3>4. n \in Records /\ n.st = "approved" /\ n.path = p.r.path /\ n.hash = g /\ n.canon = p.r.canon
            BY <1>3, <1>4, <2>1, <3>3, Fields
        <3>5. \A path \in Paths : SameText(path)
            BY <3>2, <3>3 DEF SameText
        <3> HIDE DEF n, g
        <3> QED
            BY <1>3, <1>4, <1>8, <2>1, <3>1, <3>3, <3>4, <3>5
    <2>3. CASE ~ (files[p.r.path].line # "none")
        <3>1. UNCHANGED <<files, rec>>
            BY <1>10, <2>3 DEF ApproveEnd
        <3> QED
            BY <1>1, <1>6, <2>1, <3>1, NothingChanges
    <2> QED
        BY <2>2, <2>3
<1> QED
    BY <1>9, <1>10

LEMMA SupersedeEnds ==
    ASSUME DocumentsTypeOK, DocumentsTypeOK', ApprovalInv, NoRaces, NEW p \in pend, SupersedeEnd(p) \/ Crash(p)
    PROVE  ApprovalInv'
<1>1. pend' = pend \ {p} /\ UNCHANGED <<scenario, files, texts, told>>
    BY DEF SupersedeEnd, Crash
<1>2. Owning' \subseteq Owning /\ OneMoveAtATime' /\ texts <= texts'
    BY <1>1 DEF Owning, ApprovalInv, OneMoveAtATime, DocumentsTypeOK
<1>3. CASE rec' = rec
    BY <1>1, <1>2, <1>3, NothingChanges
<1>4. CASE SupersedeEnd(p) /\ Unchanged(p.d, p.r)
    <2> DEFINE n == [p.r EXCEPT !.st = "superseded", !.by = p.by]
    <2>1. p.op = "supersede" /\ rec' = [rec EXCEPT ![p.d] = n] /\ (rec[p.d].st = "none" \/ rec[p.d] = p.r)
        BY <1>4 DEF SupersedeEnd, Unchanged, Save
    <2>2. p.d \in Docs /\ n.st = "superseded" /\ n.path = p.r.path
        BY <2>1, Halves, SameStatus
    <2> HIDE DEF n
    <2>3. rec'[p.d] = n /\ \A e \in Docs \ {p.d} : rec'[e] = rec[e] /\ told'[e] = told[e]
        BY <1>1, <2>1, <2>2 DEF DocumentsTypeOK
    <2>4. FilesMove({p.d})
        BY <1>1 DEF FilesMove, SameText
    <2>5. DocOK(p.d)'
        BY <2>2, <2>3 DEF DocOK, Approved, Live
    <2>6. ASSUME NEW q \in Owning', q.d = p.d PROVE HalfOK(q)'
        <3>1. q \in Owning /\ rec[q.d].st # "none"
            BY <1>2, <2>6 DEF ApprovalInv, HalfOK
        <3>2. rec'[q.d].st # "none" /\ rec'[q.d].path = rec[q.d].path /\ told'[q.d] = told[q.d] /\ ~ Live(rec'[q.d])
            BY <1>1, <2>1, <2>2, <2>3, <2>6, <3>1 DEF Live
        <3> QED
            BY <1>1, <2>4, <3>1, <3>2, HalfKept
    <2>7. \A q \in Owning' : (q \in pend /\ q.d \notin {p.d}) \/ HalfOK(q)'
        BY <1>1, <2>6 DEF Owning
    <2> QED
        BY <1>1, <1>2, <2>3, <2>4, <2>5, <2>7, StepOn
<1> QED
    BY <1>3, <1>4 DEF SupersedeEnd, Crash

LEMMA ApprovalInit == DocumentsInit => ApprovalInv
<1> SUFFICES ASSUME DocumentsInit PROVE ApprovalInv
    OBVIOUS
<1>1. \A d \in Docs : rec[d] = NoRec
    BY DEF DocumentsInit
<1>2. Owning = {}
    BY DEF DocumentsInit, Owning
<1>3. \A d \in Docs : DocOK(d)
    BY <1>1 DEF DocOK, Approved, Live, NoRec
<1> QED
    BY <1>2, <1>3 DEF ApprovalInv, OneMoveAtATime

LEMMA ApprovalSteps ==
    ASSUME NoRaces, DocumentsTypeOK, DocumentsTypeOK', ApprovalInv, DocumentsNext
    PROVE  ApprovalInv'
<1>1. ASSUME NEW path \in Paths, EditText(path) \/ EditLayout(path) PROVE ApprovalInv'
    BY <1>1, EditSteps
<1>2. ASSUME NEW r \in Registrations, SubmitDocument(r) PROVE ApprovalInv'
    BY <1>2, Registered, RegistrationSteps
<1>3. ASSUME NEW r \in Registrations, WriteSkeletonDevPlan(r) PROVE ApprovalInv'
    BY <1>3, SkeletonStep
<1>4. ASSUME NEW path \in Paths, NEW o \in {Feature} \cup Parents, Import(path, o) PROVE ApprovalInv'
    <2> DEFINE r == [path |-> path, type |-> InferDocType(path, "none"), owner |-> o, auto |-> FALSE]
    <2>1. DocID(r) \in Docs /\ SubmitDocument(r)
        BY <1>4 DEF Import
    <2>2. r.path \in Paths /\ r.owner \in Owners
        BY DEF Owners
    <2>3. r.type \in DocTypes
        <3>1. "none" \in DocTypes
            BY DEF DocTypes
        <3> QED
            BY <3>1, Inferred
    <2> HIDE DEF r
    <2> QED
        BY <2>1, <2>2, <2>3, RegistrationSteps
<1>5. ASSUME NEW d \in Docs,
             ApproveDocument(d) \/ RefreshContentHash(d) \/ AttachQualityEvaluation(d) \/ RecordFalsePositive(d)
             \/ Classify(d)
      PROVE  ApprovalInv'
    BY <1>5, DocSteps
<1>6. ASSUME NEW d \in Docs, NEW e \in Docs, SupersedeDocument(d, e) PROVE ApprovalInv'
    BY <1>6, SupersedeStep
<1>7. ASSUME NEW d \in Docs, NEW path \in Paths, MoveDocument(d, path) \/ \E o \in Parents : KbzMove(d, path, o)
      PROVE  ApprovalInv'
    BY <1>7, MoveStep
<1>8. ASSUME \/ \E plan \in Parents : MoveFeature(plan)
             \/ \E p \in pend, d \in Docs, path \in Paths : MoveNext(p, d, path)
      PROVE  ApprovalInv'
    BY <1>8, FeatureSteps
<1>9. ASSUME NEW d \in Docs, NEW force \in BOOLEAN, DeleteDocument(d, force) PROVE ApprovalInv'
    BY <1>9, DeleteStep
<1>10. ASSUME NEW p \in pend, MoveEnd(p) \/ UpdateDocumentPathAndOwner(p) \/ DeleteEnd(p) PROVE ApprovalInv'
    BY <1>10, TakingSteps
<1>11. ASSUME NEW p \in pend, ApproveEnd(p) \/ AutoApproveEnd(p) PROVE ApprovalInv'
    BY <1>11, ApprovingSteps
<1>12. ASSUME NEW p \in pend, SupersedeEnd(p) \/ Crash(p) PROVE ApprovalInv'
    BY <1>12, SupersedeEnds
<1>13. DocumentsNext
    OBVIOUS
<1> QED
    BY <1>1, <1>2, <1>3, <1>4, <1>5, <1>6, <1>7, <1>8, <1>9, <1>10, <1>11, <1>12, <1>13 DEF DocumentsNext

(* When nobody goes back to an old text and nobody edits a file in the     *)
(* middle of a call on its document, an approval never stands for words    *)
(* that nobody approved, whatever calls overlap and whichever of them die  *)
(* between their two writes (documents.go:1110).                           *)
THEOREM ApprovalsCoverTheirText == NoRaces => (DocumentsSpec => []ApprovalCoversText)
<1> SUFFICES ASSUME NoRaces PROVE DocumentsSpec => []ApprovalCoversText
    OBVIOUS
<1>1. DocumentsTypeOK /\ DocumentsTypeOK' /\ ApprovalInv /\ [DocumentsNext]_docvars => ApprovalInv'
    <2>1. SUFFICES ASSUME DocumentsTypeOK, DocumentsTypeOK', ApprovalInv, UNCHANGED docvars PROVE ApprovalInv'
        BY ApprovalSteps
    <2>2. UNCHANGED <<scenario, files, rec, texts, told>> /\ Owning' = Owning
        BY <2>1 DEF docvars, Owning
    <2> QED
        BY <2>1, <2>2, NothingChanges
<1>2. ApprovalInv /\ DocumentsTypeOK => ApprovalCoversText
    BY DEF ApprovalInv, DocOK, ApprovalCoversText, Known
<1> QED
    BY <1>1, <1>2, ApprovalInit, DocumentsTypeCorrect, PTL DEF DocumentsSpec

-----------------------------------------------------------------------------
(* What the gap report does not call a gap opens the gate: whichever way   *)
(* it finds the document, by the feature or by its parent, the gate's      *)
(* lookup finds one too (doc_service.go:1042).  This is of the two lookups *)
(* themselves: it needs no invariant of the records, so it holds between   *)
(* the two writes of a call as well.                                       *)
THEOREM GapsOpenNoGate == DocumentsSpec => []GapsAgreeWithGates
<1>1. GapsAgreeWithGates
    BY DEF GapsAgreeWithGates, Present, checkDocumentGate
<1> QED
    BY <1>1, PTL
=============================================================================
