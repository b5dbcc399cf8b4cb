--------------------------- MODULE Records_proofs ---------------------------
(***************************************************************************)
(* Theorems about plans, batches, features and the records around them,    *)
(* for any scenes, names and bounds the assumption allows.                 *)
(***************************************************************************)
EXTENDS Records, TLAPS, FiniteSetTheorems, NaturalsInduction, WellFoundedInduction

(* A record of a feature is told from a file that is not there. *)
LEMMA FeatureStates ==
    /\ "none" \notin KnownStates("feature")
    /\ EntryState("feature") \in KnownStates("feature")
    /\ EntryState("incident") \in KnownStates("incident")
    /\ EntryState("decision") \in KnownStates("decision")
    /\ EntryState("batch") \in KnownStates("batch")
    /\ EntryState("strategic-plan") \in KnownStates("strategic-plan")
    /\ {"active", "done", "needs-review"} \subseteq KnownStates("task")
  <1>1. EntryState("feature") = "proposed"
    <2>1. \A s : <<"feature", s>> \in EntryStates <=> s = "proposed"
      BY DEF EntryStates
    <2>2. "proposed" \in {e[2] : e \in EntryStates}
      <3>1. <<"feature", "proposed">> \in EntryStates BY DEF EntryStates
      <3> QED BY <3>1
    <2> QED BY <2>1, <2>2 DEF EntryState
  <1>2. "none" \notin KnownStates("feature")
    <2>1. TerminalStates("feature") = {"superseded", "cancelled"}
      BY DEF TerminalStates
    <2>2. AllowedTransitions("feature") = FeatureEdges
      BY DEF AllowedTransitions
    <2>3. \A e \in FeatureEdges : e[1] # "none" /\ e[2] # "none"
      BY DEF FeatureEdges, Aborts
    <2> QED BY <2>1, <2>2, <2>3, <1>1 DEF KnownStates
  <1>3. {"active", "done", "needs-review"} \subseteq KnownStates("task")
    <2>1. AllowedTransitions("task") = TaskEdges
      BY DEF AllowedTransitions
    <2>2. <<"active", "done">> \in TaskEdges /\ <<"active", "needs-review">> \in TaskEdges
      BY DEF TaskEdges
    <2> QED BY <2>1, <2>2 DEF KnownStates
  <1> QED
    BY <1>2, <1>3 DEF KnownStates

LEMMA ThereOrNot ==
    ASSUME NEW x \in Contents \cup {NoFile}
    PROVE  x # NoFile <=> x \in Contents
  <1>1. ASSUME NEW c \in Contents PROVE c # NoFile
    <2>1. c.st # "none" BY FeatureStates DEF Contents
    <2>2. NoFile.st = "none" BY DEF NoFile
    <2> QED BY <2>1, <2>2
  <1> QED BY <1>1

-----------------------------------------------------------------------------
(* Types. *)

(* What a call is, by its name. *)
LEMMA CallShapes ==
    ASSUME NEW k \in CallRecords
    PROVE  /\ k.op = "plan" => k \in [op : {"plan"}, new : PlanRecords]
           /\ k.op \in {"create", "move"} /\ k.step \in {"count", "write"} => k \in Counting
           /\ k.op = "move" => k \in Counting /\ k.f \in Nat /\ k.slug \in Slugs
           /\ k.op = "create" /\ k.step = "row" =>
                 k \in [op : {"create"}, step : {"row"}, f : Nat, slug : Slugs]
           /\ k.op = "save" =>
                 k \in [op : {"save"}, plan : Nat, new : PlanRecords, close : BOOLEAN]
           /\ k.op = "close" => k \in [op : {"close"}, plan : Nat]
           /\ k.op = "rename" =>
                 k \in [op : {"rename"}, step : {"write", "remove"}, f : Nat, from : Slugs,
                        to : Slugs, c : Contents]
           /\ k.op = "override" => k \in [op : {"override"}, f : Nat, slug : Slugs, list : Nat]
           /\ k.op \in {"count", "unblock"} => k \in [op : {"count", "unblock"}, f : Nat]
           /\ k.op = "summary" => k \in [op : {"summary"}, t : Nat]
           /\ k.op = "ask" => k \in [op : {"ask"}, asks : Nat]
  <1>1. NoCall.op = "none"
    BY DEF NoCall
  <1>2. CASE k \in Counting
    BY <1>2 DEF Counting
  <1>3. CASE k = NoCall
    BY <1>3, <1>1
  <1>4. CASE k \notin Counting /\ k # NoCall
    BY <1>4 DEF CallRecords
  <1> QED
    BY <1>2, <1>3, <1>4

LEMMA CountingFields ==
    ASSUME NEW k \in Counting
    PROVE  /\ k.op \in {"create", "move"} /\ k.step \in {"count", "write"}
           /\ k.plan \in Nat /\ k.seq \in Nat /\ k.new \in PlanRecords
           /\ [k EXCEPT !.step = "write"] \in Counting
           /\ k.op = "move" => k.f \in Nat /\ k.slug \in Slugs
  <1>1. CASE k.op = "create"
    BY <1>1 DEF Counting
  <1>2. CASE k.op = "move"
    BY <1>2 DEF Counting
  <1> QED
    BY <1>1, <1>2 DEF Counting

(* A call that needs a plan has one that is there. *)
PlansFound ==
    \A w \in Workers :
       calls[w] \in Counting \/ calls[w].op \in {"save", "close"} =>
          calls[w].plan \in DOMAIN plans

Typed == RecordsTypeOK /\ PlansFound

(* A step that leaves plans and counters alone, and goes on with a call      *)
(* that needs no plan, keeps the types if features and reports do.          *)
NeedsNoPlan(k) == k \in CallRecords \ Counting /\ k.op \notin {"save", "close"}

LEMMA QuietTypes ==
    ASSUME Typed, NEW w \in Workers, NEW k, NeedsNoPlan(k), To(w, k),
           UNCHANGED <<rscene, plans, seqdb>>
    PROVE  calls' \in [Workers -> CallRecords]' /\ PlansFound' /\ (plans \in Seq(PlanRecords))'
           /\ (rscene \in RecordScenes)' /\ (seqdb \in [DOMAIN seqdb -> Nat])'
  <1>1. Workers' = Workers
    BY DEF Workers
  <1>2. calls \in [Workers -> CallRecords] /\ k \in CallRecords
    BY DEF Typed, RecordsTypeOK, NeedsNoPlan
  <1>3. calls' \in [Workers -> CallRecords] /\ calls'[w] = k
        /\ \A v \in Workers : v # w => calls'[v] = calls[v]
    BY <1>2 DEF To
  <1>4. PlansFound'
    BY <1>1, <1>3 DEF PlansFound, Typed, NeedsNoPlan
  <1> QED
    BY <1>1, <1>3, <1>4 DEF Typed, RecordsTypeOK

LEMMA NoCallIsQuiet == NeedsNoPlan(NoCall)
  <1>1. NoCall.op = "none"
    BY DEF NoCall
  <1>2. NoCall \notin Counting
    BY <1>1, CountingFields
  <1> QED
    BY <1>1, <1>2 DEF NeedsNoPlan, CallRecords

(* A sequence with some of its elements replaced. *)
LEMMA Rewritten ==
    ASSUME NEW S, NEW q \in Seq(S), NEW r, r = [i \in DOMAIN q |-> r[i]],
           \A i \in DOMAIN q : r[i] \in S
    PROVE  r \in Seq(S) /\ DOMAIN r = DOMAIN q /\ Len(r) = Len(q)
  <1>1. DOMAIN q = 1..Len(q) /\ Len(q) \in Nat
    OBVIOUS
  <1>2. r \in [1..Len(q) -> S]
    BY <1>1
  <1> QED
    BY <1>1, <1>2

LEMMA Replaced ==
    ASSUME NEW S, NEW q \in Seq(S), NEW i, NEW e, i \in DOMAIN q => e \in S
    PROVE  [q EXCEPT ![i] = e] \in Seq(S) /\ DOMAIN [q EXCEPT ![i] = e] = DOMAIN q
  <1> DEFINE r == [q EXCEPT ![i] = e]
  <1>1. r = [j \in DOMAIN q |-> r[j]] /\ \A j \in DOMAIN q : r[j] \in S
    OBVIOUS
  <1> HIDE DEF r
  <1>2. r \in Seq(S) /\ DOMAIN r = DOMAIN q
    BY <1>1, Rewritten
  <1> QED
    BY <1>2 DEF r

(* A feature with one file replaced, or one file and its row. *)
LEMMA FileTypes ==
    ASSUME feats \in Seq(FeatureRecords), NEW f, NEW s \in Slugs,
           NEW c, f \in DOMAIN feats => c \in Contents \cup {NoFile}
    PROVE  WithFile(f, s, c) \in Seq(FeatureRecords) /\ DOMAIN WithFile(f, s, c) = DOMAIN feats
  <1> DEFINE r == WithFile(f, s, c)
  <1>1. r = [i \in DOMAIN feats |-> r[i]]
    BY DEF WithFile
  <1>2. \A i \in DOMAIN feats : r[i] \in FeatureRecords
    <2> SUFFICES ASSUME NEW i \in DOMAIN feats PROVE r[i] \in FeatureRecords
      OBVIOUS
    <2>1. feats[i] \in FeatureRecords
      OBVIOUS
    <2>2. CASE i = f
      <3>1. r[i] = [feats[i] EXCEPT !.file = [feats[i].file EXCEPT ![s] = c]]
        BY <2>2 DEF WithFile
      <3> QED BY <2>1, <2>2, <3>1 DEF FeatureRecords
    <2>3. CASE i # f
      BY <2>1, <2>3 DEF WithFile
    <2> QED BY <2>2, <2>3
  <1> HIDE DEF r
  <1>3. r \in Seq(FeatureRecords) /\ DOMAIN r = DOMAIN feats
    BY <1>1, <1>2, Rewritten
  <1> QED
    BY <1>3 DEF r

LEMMA RowTypes ==
    ASSUME feats \in Seq(FeatureRecords), NEW f, NEW s \in Slugs, NEW t \in Slugs,
           NEW c, NEW d,
           f \in DOMAIN feats => c \in Contents /\ d \in Contents \cup {NoFile}
    PROVE  LET r == [feats EXCEPT ![f].file[s] = d, ![f].row = [slug |-> t, c |-> c]]
           IN r \in Seq(FeatureRecords) /\ DOMAIN r = DOMAIN feats
  <1> DEFINE r == [feats EXCEPT ![f].file[s] = d, ![f].row = [slug |-> t, c |-> c]]
  <1>1. r = [i \in DOMAIN feats |-> r[i]]
    OBVIOUS
  <1>2. \A i \in DOMAIN feats : r[i] \in FeatureRecords
    <2> SUFFICES ASSUME NEW i \in DOMAIN feats PROVE r[i] \in FeatureRecords
      OBVIOUS
    <2>1. feats[i] \in FeatureRecords
      OBVIOUS
    <2>2. CASE i = f
      <3>1. r[i] = [feats[i] EXCEPT !.file = [feats[i].file EXCEPT ![s] = d],
                                    !.row = [slug |-> t, c |-> c]]
        BY <2>2
      <3>2. [slug |-> t, c |-> c] \in Rows
        BY <2>2 DEF Rows
      <3> QED BY <2>1, <2>2, <3>1, <3>2 DEF FeatureRecords
    <2>3. CASE i # f
      BY <2>1, <2>3
    <2> QED BY <2>2, <2>3
  <1> HIDE DEF r
  <1>3. r \in Seq(FeatureRecords) /\ DOMAIN r = DOMAIN feats
    BY <1>1, <1>2, Rewritten
  <1> QED
    BY <1>3 DEF r

(* The files of a feature hold records. *)
LEMMA FileThere ==
    ASSUME feats \in Seq(FeatureRecords), NEW f \in DOMAIN feats
    PROVE  /\ Slugged(f) \subseteq Slugs /\ ResolvePrefix(f) \subseteq Slugged(f)
           /\ Located(f) \subseteq Slugged(f)
           /\ \A s \in Slugs : feats[f].file[s] \in Contents \cup {NoFile}
           /\ \A s \in Slugs : s \in Slugged(f) <=> feats[f].file[s] \in Contents
  <1>1. feats[f].file \in [Slugs -> Contents \cup {NoFile}]
    <2>1. feats[f] \in FeatureRecords
      OBVIOUS
    <2> QED BY <2>1 DEF FeatureRecords
  <1>2. Slugged(f) \subseteq Slugs /\ ResolvePrefix(f) \subseteq Slugged(f)
        /\ Located(f) \subseteq Slugged(f)
    BY DEF Slugged, ResolvePrefix, Located
  <1>3. \A s \in Slugs : feats[f].file[s] \in Contents \cup {NoFile}
    BY <1>1
  <1>4. \A s \in Slugs : s \in Slugged(f) <=> feats[f].file[s] \in Contents
    BY <1>3, ThereOrNot DEF Slugged
  <1> QED
    BY <1>2, <1>3, <1>4

-----------------------------------------------------------------------------
(* Numbers of plans. *)

LEMMA LeastOf ==
    ASSUME NEW R, IsWellFoundedOn(R, Nat), NEW T, T \subseteq Nat, T # {}
    PROVE  \E x \in T : \A y \in T : ~ (<<y, x>> \in R)
  BY WFMin

LEMMA LeastNumber ==
    ASSUME NEW T \in SUBSET Nat, T # {} PROVE \E x \in T : \A y \in T : x <= y
  <1>1. PICK R : IsWellFoundedOn(R, Nat) /\ \A a, b \in Nat : a < b => <<a, b>> \in R
    BY NatLessThanWellFounded DEF OpToRel
  <1>2. \E x \in T : \A y \in T : ~ (<<y, x>> \in R)
    BY <1>1, LeastOf
  <1>3. PICK x \in T : \A y \in T : ~ (<<y, x>> \in R)
    BY <1>2
  <1>4. \A y \in T : ~ (y < x)
    BY <1>1, <1>3
  <1>5. \A a, b \in Nat : ~ (a < b) => b <= a
    OBVIOUS
  <1> QED
    BY <1>4, <1>5

(* There is a greatest of the numbers of finitely many. *)
LEMMA MaxIsThere ==
    ASSUME NEW n \in Nat, NEW g \in [1..n -> Nat], NEW S, S \subseteq {g[i] : i \in 1..n}
    PROVE  MaxOf(S) \in Nat /\ \A y \in S : y <= MaxOf(S)
  <1>1. \E u \in Nat : \A i \in 1..n : g[i] <= u
    <2> DEFINE T == {k \in 0..n : ~ \E u \in Nat : \A i \in 1..k : g[i] <= u}
    <2>1. ASSUME T # {} PROVE FALSE
      <3>1. T \in SUBSET Nat
        OBVIOUS
      <3>2. PICK k \in T : \A j \in T : k <= j
        BY <2>1, <3>1, LeastNumber
      <3>3. k # 0
        <4>1. \A i \in 1..0 : g[i] <= 0 OBVIOUS
        <4> QED BY <4>1
      <3>4. k \in 1..n /\ k - 1 \in 0..n /\ ~ (k <= k - 1)
        BY <3>3
      <3>5. k - 1 \notin T
        BY <3>2, <3>4
      <3>6. PICK u \in Nat : \A i \in 1..(k - 1) : g[i] <= u
        BY <3>4, <3>5
      <3>7. u + g[k] \in Nat /\ \A i \in 1..k : g[i] <= u + g[k]
        <4>1. \A i \in 1..k : i \in 1..(k - 1) \/ i = k
          BY <3>4
        <4>2. \A i \in 1..k : g[i] \in Nat
          BY <3>4
        <4>3. \A a, b, c \in Nat : (a <= b => a <= b + c) /\ c <= b + c /\ b + c \in Nat
          OBVIOUS
        <4> QED BY <3>4, <3>6, <4>1, <4>2, <4>3
      <3> QED BY <3>2, <3>7
    <2>2. n \in 0..n
      OBVIOUS
    <2> QED BY <2>1, <2>2
  <1>2. S \subseteq Nat
    OBVIOUS
  <1> DEFINE U == {u \in Nat : \A y \in S : y <= u}
  <1>3. U # {} /\ U \in SUBSET Nat
    BY <1>1
  <1>4. PICK m \in U : \A u \in U : m <= u
    BY <1>3, LeastNumber
  <1>5. m \in S \cup {0}
    <2>1. ASSUME m \notin S, m # 0 PROVE FALSE
      <3>1. m - 1 \in Nat /\ ~ (m <= m - 1)
        BY <2>1, <1>4
      <3>2. \A a, b \in Nat : a <= b /\ a # b => a <= b - 1
        OBVIOUS
      <3>3. \A y \in S : y <= m - 1
        BY <1>2, <1>4, <2>1, <3>2
      <3> QED BY <1>4, <3>1, <3>3
    <2> QED BY <2>1
  <1>6. \E x \in S \cup {0} : \A y \in S : y <= x
    BY <1>4, <1>5
  <1>7. MaxOf(S) \in S \cup {0} /\ \A y \in S : y <= MaxOf(S)
    BY <1>6 DEF MaxOf
  <1> HIDE DEF U
  <1>8. \A x \in S \cup {0} : x \in Nat
    BY <1>2
  <1> QED
    BY <1>7, <1>8

(* A new plan has a number that no plan of its prefix has. *)
LEMMA NextNumber ==
    ASSUME plans \in Seq(PlanRecords), NEW pre
    PROVE  /\ NextPlanNumber(pre) \in Nat
           /\ \A p \in DOMAIN plans : plans[p].pre = pre => plans[p].no # NextPlanNumber(pre)
  <1> DEFINE g == [p \in 1..Len(plans) |-> plans[p].no]
             S == {plans[p].no : p \in {q \in DOMAIN plans : plans[q].pre = pre}}
  <1>1. Len(plans) \in Nat /\ DOMAIN plans = 1..Len(plans)
        /\ \A p \in DOMAIN plans : plans[p].no \in Nat
    <2>1. \A p \in DOMAIN plans : plans[p] \in PlanRecords
      OBVIOUS
    <2> QED BY <2>1 DEF PlanRecords
  <1>2. g \in [1..Len(plans) -> Nat] /\ S \subseteq {g[i] : i \in 1..Len(plans)}
    BY <1>1
  <1>3. \A p \in DOMAIN plans : plans[p].pre = pre => plans[p].no \in S
    OBVIOUS
  <1>4. NextPlanNumber(pre) = 1 + MaxOf(S)
    BY DEF NextPlanNumber
  <1> HIDE DEF g, S
  <1>5. MaxOf(S) \in Nat /\ \A y \in S : y <= MaxOf(S)
    BY <1>1, <1>2, MaxIsThere
  <1>6. \A a, b \in Nat : a <= b => a # 1 + b /\ 1 + b \in Nat
    OBVIOUS
  <1> QED
    BY <1>1, <1>3, <1>4, <1>5, <1>6

LEMMA NewPlanType ==
    ASSUME plans \in Seq(PlanRecords), NEW pre \in {"B", "P"}, NEW slug \in Slugs
    PROVE  NewPlan(pre, NextPlanNumber(pre), slug) \in PlanRecords
  BY NextNumber, FeatureStates DEF NewPlan, PlanRecords

LEMMA PlanWritten ==
    ASSUME plans \in Seq(PlanRecords), NEW p, NEW n \in PlanRecords
    PROVE  /\ [plans EXCEPT ![p] = n] \in Seq(PlanRecords)
           /\ DOMAIN [plans EXCEPT ![p] = n] = DOMAIN plans
  BY Replaced

(* What a change of status writes. *)
LEMMA MovedType ==
    ASSUME plans \in Seq(PlanRecords), NEW p \in DOMAIN plans, NEW to, PlanMayMove(p, to)
    PROVE  /\ Moved(p, to) \in PlanRecords
           /\ Moved(p, to).pre = plans[p].pre /\ Moved(p, to).no = plans[p].no
           /\ Moved(p, to).next = plans[p].next /\ Moved(p, to).parent = plans[p].parent
           /\ Moved(p, to).st = to
  <1>1. plans[p] \in PlanRecords
    OBVIOUS
  <1>2. to \in KnownStates("batch") \cup KnownStates("strategic-plan")
    BY DEF PlanMayMove, CanTransition, Kind
  <1> DEFINE o == IF plans[p].st = "proposed" /\ to = "active" THEN plans[p].overrides + 1
                  ELSE plans[p].overrides
  <1>3. o \in Nat
    <2>1. plans[p].overrides \in Nat BY <1>1 DEF PlanRecords
    <2> QED BY <2>1
  <1>4. Moved(p, to) = [plans[p] EXCEPT !.st = to, !.overrides = o]
    BY DEF Moved
  <1> HIDE DEF o
  <1>5. \A x \in PlanRecords :
           LET y == [x EXCEPT !.st = to, !.overrides = o] IN
           /\ y \in PlanRecords /\ y.pre = x.pre /\ y.no = x.no
           /\ y.next = x.next /\ y.parent = x.parent /\ y.st = to
    BY <1>2, <1>3 DEF PlanRecords
  <1> QED
    BY <1>1, <1>4, <1>5

-----------------------------------------------------------------------------
(* The types, action by action. *)

ToldType(F, x) == x \in [reviews : [F -> Nat], overrides : [F -> Nat], cut : BOOLEAN]

LEMMA CutType ==
    ASSUME NEW F, ToldType(F, told)
    PROVE  ToldType(F, [told EXCEPT !.cut = TRUE])
  BY DEF ToldType

LEMMA FromQuiet ==
    ASSUME Typed, NEW w \in Workers, NEW k, NeedsNoPlan(k), To(w, k),
           UNCHANGED <<rscene, plans, seqdb, incidents, bugs>>,
           feats' \in Seq(FeatureRecords), ToldType(DOMAIN feats', told'),
           tasks' \in Seq(TaskRecords),
           checkpoints' \in Seq(CheckpointRecords)
    PROVE  Typed'
  <1>1. calls' \in [Workers -> CallRecords]' /\ PlansFound' /\ (plans \in Seq(PlanRecords))'
        /\ (rscene \in RecordScenes)' /\ (seqdb \in [DOMAIN seqdb -> Nat])'
    BY QuietTypes
  <1>2. (incidents \in Seq(IncidentRecords))' /\ (bugs \in [DOMAIN bugs -> Slugs])'
        /\ (DOMAIN bugs \subseteq BugIDs)' /\ IsFiniteSet(DOMAIN bugs)'
    BY DEF Typed, RecordsTypeOK
  <1> QED
    BY <1>1, <1>2 DEF Typed, RecordsTypeOK, ToldType

(* A call is over, given up or not, and features keep their types.         *)
LEMMA OverTypes ==
    ASSUME Typed, NEW w \in Workers, (Over(w) /\ UNCHANGED told) \/ Cut(w),
           UNCHANGED <<rscene, plans, seqdb, incidents, bugs>>,
           feats' \in Seq(FeatureRecords), DOMAIN feats' = DOMAIN feats,
           tasks' \in Seq(TaskRecords),
           checkpoints' \in Seq(CheckpointRecords)
    PROVE  Typed'
  <1>1. ToldType(DOMAIN feats, told)
    BY DEF Typed, RecordsTypeOK, ToldType
  <1>2. ToldType(DOMAIN feats', told') /\ To(w, NoCall)
    BY <1>1, CutType DEF Over, Cut
  <1> QED
    BY <1>2, NoCallIsQuiet, FromQuiet

LEMMA Lengthened ==
    ASSUME NEW n \in Nat, NEW q \in [1..n -> Nat]
    PROVE  Append(q, 0) \in [1..(n + 1) -> Nat]
  <1>1. q \in Seq(Nat) /\ Len(q) = n
    OBVIOUS
  <1>2. Append(q, 0) \in Seq(Nat) /\ Len(Append(q, 0)) = n + 1
    BY <1>1
  <1> DEFINE r == Append(q, 0)
  <1> HIDE DEF r
  <1>3. r \in Seq(Nat) /\ Len(r) = n + 1 => r \in [1..(n + 1) -> Nat]
    OBVIOUS
  <1> QED
    BY <1>2, <1>3 DEF r

LEMMA CreateTypes ==
    ASSUME Typed, NEW w \in Workers,
           (\E s \in rscene.given.slugs : FeatureWritten(w, s)) \/ FeatureRefused(w)
           \/ FeatureCached(w)
    PROVE  Typed'
  <1> USE DEF Typed, RecordsTypeOK
  <1>0. calls[w] \in CallRecords
    OBVIOUS
  <1>1. ASSUME NEW s \in rscene.given.slugs, FeatureWritten(w, s) PROVE Typed'
    <2> DEFINE p == plans[calls[w].plan]
               c == NewFeature(calls[w].plan, <<p.pre, p.no, calls[w].seq>>)
               r == [file |-> [t \in Slugs |-> IF t = s THEN c ELSE NoFile],
                     row |-> [slug |-> "none"]]
               k == [op |-> "create", step |-> "row", f |-> Len(feats) + 1, slug |-> s]
    <2>1. calls[w] \in Counting
      BY <1>0, <1>1, CallShapes DEF FeatureWritten
    <2>2. calls[w].plan \in Nat /\ calls[w].seq \in Nat /\ p \in PlanRecords
      <3>1. calls[w].plan \in DOMAIN plans BY <2>1 DEF PlansFound
      <3>2. p \in PlanRecords BY <3>1
      <3> QED BY <2>1, <3>2, CountingFields
    <2>3. c \in Contents
      BY <2>2, FeatureStates DEF NewFeature, Contents, Numbers, PlanRecords
    <2>4. s \in Slugs
      BY RecordsAssumption
    <2> HIDE DEF c, p
    <2>5. r \in FeatureRecords
      BY <2>3 DEF FeatureRecords, Rows
    <2>6. k \in [op : {"create"}, step : {"row"}, f : Nat, slug : Slugs] /\ k.step = "row"
      BY <2>4
    <2>7. feats' = Append(feats, r) /\ To(w, k)
          /\ told' = [told EXCEPT !.reviews = Append(@, 0), !.overrides = Append(@, 0)]
          /\ UNCHANGED <<rscene, plans, tasks, incidents, bugs, checkpoints, seqdb>>
      BY <1>1 DEF FeatureWritten, c, p
    <2> HIDE DEF r, k
    <2>8. feats' \in Seq(FeatureRecords) /\ DOMAIN feats = 1..Len(feats)
          /\ DOMAIN feats' = 1..(Len(feats) + 1) /\ Len(feats) \in Nat
      BY <2>5, <2>7
    <2>9. \A q \in [DOMAIN feats -> Nat] : Append(q, 0) \in [DOMAIN feats' -> Nat]
      BY <2>8, Lengthened
    <2>10. ToldType(DOMAIN feats', told')
      BY <2>7, <2>9 DEF ToldType
    <2>11. NeedsNoPlan(k)
      <3>1. k \notin Counting /\ k.op = "create"
        BY <2>6, CountingFields
      <3> QED BY <2>6, <3>1 DEF NeedsNoPlan, CallRecords
    <2> QED
      BY <2>7, <2>8, <2>10, <2>11, FromQuiet
  <1>2. CASE FeatureRefused(w)
    BY <1>2, OverTypes DEF FeatureRefused
  <1>3. CASE FeatureCached(w)
    <2> DEFINE f == calls[w].f
               s == calls[w].slug
    <2>1. s \in Slugs /\ feats[f].file[s] # NoFile /\ feats' = WithRow(f, s, feats[f].file[s])
          /\ Over(w) /\ UNCHANGED <<rscene, plans, tasks, incidents, bugs, checkpoints, seqdb, told>>
      BY <1>0, <1>3, CallShapes DEF FeatureCached
    <2>2. feats' \in Seq(FeatureRecords) /\ DOMAIN feats' = DOMAIN feats
      <3>1. f \in DOMAIN feats => feats[f].file[s] \in Contents
        BY <2>1, FileThere DEF Slugged
      <3> QED BY <2>1, <3>1, RowTypes DEF WithRow
    <2> QED
      BY <2>1, <2>2, OverTypes
  <1> QED
    BY <1>1, <1>2, <1>3

LEMMA ContentEdits ==
    ASSUME NEW c \in Contents
    PROVE  /\ \A n \in Nat : [c EXCEPT !.overrides = n] \in Contents
           /\ [c EXCEPT !.cycle = @ + 1] \in Contents
           /\ \A b \in BOOLEAN : [c EXCEPT !.blocked = b] \in Contents
           /\ \A st \in KnownStates("feature") : [c EXCEPT !.st = st] \in Contents
           /\ \A p \in Nat, n \in Numbers : [c EXCEPT !.parent = p, !.number = n] \in Contents
  <1>1. ASSUME NEW n \in Nat PROVE [c EXCEPT !.overrides = n] \in Contents
    BY DEF Contents
  <1>2. [c EXCEPT !.cycle = @ + 1] \in Contents
    <2>1. c.cycle + 1 \in Nat BY DEF Contents
    <2> QED BY <2>1 DEF Contents
  <1>3. ASSUME NEW b \in BOOLEAN PROVE [c EXCEPT !.blocked = b] \in Contents
    BY DEF Contents
  <1>4. ASSUME NEW st \in KnownStates("feature") PROVE [c EXCEPT !.st = st] \in Contents
    BY DEF Contents
  <1>5. ASSUME NEW p \in Nat, NEW n \in Numbers
        PROVE  [c EXCEPT !.parent = p, !.number = n] \in Contents
    BY DEF Contents
  <1> QED
    BY <1>1, <1>2, <1>3, <1>4, <1>5

LEMMA ToldCounts ==
    ASSUME NEW F, ToldType(F, told), NEW f
    PROVE  /\ ToldType(F, [told EXCEPT !.overrides[f] = @ + 1])
           /\ ToldType(F, [told EXCEPT !.reviews[f] = @ + 1])
  <1>1. ASSUME NEW g \in [F -> Nat] PROVE [g EXCEPT ![f] = @ + 1] \in [F -> Nat]
    <2>1. \A x \in F : g[x] \in Nat /\ g[x] + 1 \in Nat
      OBVIOUS
    <2>2. [g EXCEPT ![f] = @ + 1] = [x \in F |-> IF x = f THEN g[x] + 1 ELSE g[x]]
      OBVIOUS
    <2> QED BY <2>1, <2>2
  <1>2. told.reviews \in [F -> Nat] /\ told.overrides \in [F -> Nat]
    BY DEF ToldType
  <1>3. /\ [told.overrides EXCEPT ![f] = @ + 1] \in [F -> Nat]
        /\ [told.reviews EXCEPT ![f] = @ + 1] \in [F -> Nat]
    BY <1>1, <1>2
  <1>4. \A g \in [F -> Nat] : ToldType(F, [told EXCEPT !.overrides = g])
                             /\ ToldType(F, [told EXCEPT !.reviews = g])
    BY DEF ToldType
  <1> QED
    BY <1>3, <1>4

LEMMA FeatureTypes ==
    ASSUME Typed, NEW w \in Workers,
           FeatureReparented(w) \/ RenameWrites(w) \/ RenameRemoves(w)
           \/ IncrementFeatureReviewCycle(w) \/ PersistFeatureOverrides(w) \/ ClearBlockedReason(w)
    PROVE  Typed'
  <1> USE DEF Typed, RecordsTypeOK
  <1>0. calls[w] \in CallRecords
    OBVIOUS
  <1>1. CASE FeatureReparented(w)
    <2> DEFINE k == calls[w]
               old == feats[k.f].file[k.slug]
               n == <<"P", plans[k.plan].no, k.seq>>
    <2>1. k \in Counting /\ k.plan \in Nat /\ k.seq \in Nat /\ k.slug \in Slugs
          /\ k.plan \in DOMAIN plans
      <3>1. k \in Counting /\ k.op = "move"
        BY <1>0, <1>1, CallShapes DEF FeatureReparented
      <3> QED BY <3>1, CountingFields DEF PlansFound
    <2>2. n \in Numbers
      <3>1. plans[k.plan] \in PlanRecords BY <2>1
      <3> QED BY <2>1, <3>1 DEF Numbers, PlanRecords
    <2> DEFINE c == [old EXCEPT !.parent = k.plan, !.number = n]
    <2>3. \/ Cut(w) /\ UNCHANGED feats
          \/ old # NoFile /\ feats' = WithFile(k.f, k.slug, c) /\ Over(w) /\ UNCHANGED told
      BY <1>1 DEF FeatureReparented
    <2>4. old # NoFile /\ k.f \in DOMAIN feats => c \in Contents
      <3>1. old # NoFile /\ k.f \in DOMAIN feats => old \in Contents
        BY <2>1, FileThere DEF Slugged
      <3> QED BY ContentEdits, <2>1, <2>2, <3>1
    <2> HIDE DEF c, old
    <2>5. feats' \in Seq(FeatureRecords) /\ DOMAIN feats' = DOMAIN feats
      BY <2>1, <2>3, <2>4, FileTypes
    <2>6. UNCHANGED <<rscene, plans, tasks, incidents, bugs, checkpoints, seqdb>>
      BY <1>1 DEF FeatureReparented
    <2> QED
      BY <2>3, <2>5, <2>6, OverTypes
  <1>2. CASE RenameWrites(w)
    <2> DEFINE k == calls[w]
    <2>1. k.op = "rename" /\ k.f \in Nat /\ k.from \in Slugs /\ k.to \in Slugs /\ k.c \in Contents
          /\ k \in [op : {"rename"}, step : {"write", "remove"}, f : Nat, from : Slugs,
                    to : Slugs, c : Contents]
      BY <1>0, <1>2, CallShapes DEF RenameWrites
    <2>2. CASE feats[k.f].file[k.to] # NoFile
      <3>1. Over(w) /\ UNCHANGED feats /\ UNCHANGED told
            /\ UNCHANGED <<rscene, plans, tasks, incidents, bugs, checkpoints, seqdb>>
        BY <1>2, <2>2 DEF RenameWrites
      <3> QED BY <3>1, OverTypes
    <2>3. CASE feats[k.f].file[k.to] = NoFile
      <3> DEFINE m == [k EXCEPT !.step = "remove"]
      <3>1. feats' = WithFile(k.f, k.to, k.c) /\ To(w, m)
            /\ UNCHANGED <<rscene, plans, tasks, incidents, bugs, checkpoints, seqdb, told>>
        BY <1>2, <2>3 DEF RenameWrites
      <3>2. feats' \in Seq(FeatureRecords) /\ DOMAIN feats' = DOMAIN feats
        <4> DEFINE f == k.f
                   t == k.to
                   c == k.c
        <4>1. t \in Slugs /\ c \in Contents \cup {NoFile} /\ feats' = WithFile(f, t, c)
          BY <2>1, <3>1
        <4> HIDE DEF f, t, c
        <4> QED BY <4>1, FileTypes
      <3>3. m \in [op : {"rename"}, step : {"write", "remove"}, f : Nat, from : Slugs,
                   to : Slugs, c : Contents]
        BY <2>1
      <3>4. NeedsNoPlan(m)
        <4>1. m.op = "rename" BY <2>1
        <4>2. m \notin Counting BY <4>1, CountingFields
        <4> HIDE DEF m
        <4> QED BY <3>3, <4>1, <4>2 DEF NeedsNoPlan, CallRecords
      <3>5. ToldType(DOMAIN feats', told')
        BY <3>1, <3>2 DEF ToldType
      <3> HIDE DEF m
      <3> QED BY <3>1, <3>2, <3>4, <3>5, FromQuiet
    <2> QED BY <2>2, <2>3
  <1>3. CASE RenameRemoves(w)
    <2> DEFINE k == calls[w]
    <2>1. k.from \in Slugs /\ k.to \in Slugs /\ k.c \in Contents
      BY <1>0, <1>3, CallShapes DEF RenameRemoves
    <2>2. feats' = [feats EXCEPT ![k.f].file[k.from] = NoFile,
                                 ![k.f].row = [slug |-> k.to, c |-> k.c]]
          /\ Over(w) /\ UNCHANGED <<rscene, plans, tasks, incidents, bugs, checkpoints, seqdb, told>>
      BY <1>3 DEF RenameRemoves
    <2>3. feats' \in Seq(FeatureRecords) /\ DOMAIN feats' = DOMAIN feats
      BY <2>1, <2>2, RowTypes
    <2> QED
      BY <2>2, <2>3, OverTypes
  <1>4. CASE IncrementFeatureReviewCycle(w)
    <2> DEFINE f == calls[w].f
    <2>1. UNCHANGED <<rscene, plans, tasks, incidents, bugs, checkpoints, seqdb>>
      BY <1>4 DEF IncrementFeatureReviewCycle
    <2>2. CASE Cut(w) /\ UNCHANGED feats
      BY <2>1, <2>2, OverTypes
    <2>3. ASSUME NEW s \in ResolvePrefix(f), feats' = [feats EXCEPT ![f].file[s].cycle = @ + 1],
                 Over(w), UNCHANGED told
          PROVE  Typed'
      <3> DEFINE c == [feats[f].file[s] EXCEPT !.cycle = @ + 1]
      <3>1. feats' = WithFile(f, s, c)
        BY <2>3 DEF WithFile
      <3>2. s \in Slugs /\ (f \in DOMAIN feats => c \in Contents)
        BY ContentEdits, FileThere DEF ResolvePrefix, Slugged
      <3> HIDE DEF c
      <3>3. feats' \in Seq(FeatureRecords) /\ DOMAIN feats' = DOMAIN feats
        BY <3>1, <3>2, FileTypes
      <3> QED BY <2>1, <2>3, <3>3, OverTypes
    <2> QED
      BY <1>4, <2>2, <2>3 DEF IncrementFeatureReviewCycle
  <1>5. CASE PersistFeatureOverrides(w)
    <2> DEFINE k == calls[w]
    <2>1. k.f \in Nat /\ k.slug \in Slugs /\ k.list \in Nat
      BY <1>0, <1>5, CallShapes DEF PersistFeatureOverrides
    <2>2. UNCHANGED <<rscene, plans, tasks, incidents, bugs, checkpoints, seqdb>>
      BY <1>5 DEF PersistFeatureOverrides
    <2>3. CASE feats[k.f].file[k.slug] = NoFile
      <3>1. Cut(w) /\ UNCHANGED feats
        BY <1>5, <2>3 DEF PersistFeatureOverrides
      <3> QED BY <2>2, <3>1, OverTypes
    <2>4. CASE feats[k.f].file[k.slug] # NoFile
      <3> DEFINE c == [feats[k.f].file[k.slug] EXCEPT !.overrides = k.list]
      <3>1. feats' = WithFile(k.f, k.slug, c) /\ told' = [told EXCEPT !.overrides[k.f] = @ + 1]
            /\ To(w, NoCall)
        BY <1>5, <2>4 DEF PersistFeatureOverrides, WithFile, Over
      <3>2. k.f \in DOMAIN feats => c \in Contents
        BY ContentEdits, <2>1, <2>4, FileThere DEF Slugged
      <3> HIDE DEF c
      <3>3. feats' \in Seq(FeatureRecords) /\ DOMAIN feats' = DOMAIN feats
        BY <2>1, <3>1, <3>2, FileTypes
      <3>4. ToldType(DOMAIN feats', told')
        <4>1. ToldType(DOMAIN feats, told)
          BY DEF ToldType
        <4> QED BY <3>1, <3>3, <4>1, ToldCounts
      <3> QED BY <2>2, <3>1, <3>3, <3>4, NoCallIsQuiet, FromQuiet
    <2> QED BY <2>3, <2>4
  <1>6. CASE ClearBlockedReason(w)
    <2> DEFINE f == calls[w].f
    <2>1. PICK s \in ResolvePrefix(f) : feats' = [feats EXCEPT ![f].file[s].blocked = FALSE]
      BY <1>6 DEF ClearBlockedReason
    <2>2. Over(w) /\ UNCHANGED <<rscene, plans, tasks, incidents, bugs, checkpoints, seqdb, told>>
      BY <1>6 DEF ClearBlockedReason
    <2> DEFINE c == [feats[f].file[s] EXCEPT !.blocked = FALSE]
    <2>3. feats' = WithFile(f, s, c)
      BY <2>1 DEF WithFile
    <2>4. s \in Slugs /\ (f \in DOMAIN feats => c \in Contents)
      BY ContentEdits, FileThere DEF ResolvePrefix, Slugged
    <2> HIDE DEF c
    <2>5. feats' \in Seq(FeatureRecords) /\ DOMAIN feats' = DOMAIN feats
      BY <2>3, <2>4, FileTypes
    <2> QED BY <2>2, <2>5, OverTypes
  <1> QED
    BY <1>1, <1>2, <1>3, <1>4, <1>5, <1>6

(* The calls on features, tasks and checkpoints that begin here. *)
LEMMA BeginTypes ==
    ASSUME Typed, NEW w \in Workers,
           \/ \E f \in DOMAIN feats : \E s \in Located(f) :
                 \/ \E t \in Slugs : RenameBegins(w, f, s, t)
                 \/ \E to : Transitioned(w, f, s, to)
                 \/ OverrideBegins(w, f, s)
                 \/ ReviewCapReached(w, f, s)
           \/ \E t \in DOMAIN tasks : CompleteTask(w, t)
           \/ \E k \in DOMAIN checkpoints : RespondCheckpoint(w, k)
    PROVE  Typed'
  <1>a. /\ feats \in Seq(FeatureRecords) /\ tasks \in Seq(TaskRecords)
        /\ checkpoints \in Seq(CheckpointRecords)
        /\ ToldType(DOMAIN feats, told) /\ calls \in [Workers -> CallRecords]
    BY DEF ToldType, Typed, RecordsTypeOK
  <1>1. ASSUME NEW f \in DOMAIN feats, NEW s \in Located(f), NEW t \in Slugs,
               RenameBegins(w, f, s, t)
        PROVE  Typed'
    <2> DEFINE k == [op |-> "rename", step |-> "write", f |-> f, from |-> s, to |-> t,
                     c |-> feats[f].file[s]]
    <2>1. To(w, k) /\ UNCHANGED <<rscene, plans, feats, tasks, incidents, bugs, checkpoints, seqdb, told>>
      BY <1>1 DEF RenameBegins
    <2>2. k \in [op : {"rename"}, step : {"write", "remove"}, f : Nat, from : Slugs,
                 to : Slugs, c : Contents]
      <3>1. s \in Slugs /\ feats[f].file[s] \in Contents
        BY <1>a, FileThere
      <3>2. f \in Nat
        BY <1>a
      <3> QED BY <3>1, <3>2
    <2>3. k.op = "rename"
      OBVIOUS
    <2> HIDE DEF k
    <2>4. NeedsNoPlan(k)
      <3>1. k \notin Counting BY <2>3, CountingFields
      <3> QED BY <2>2, <2>3, <3>1 DEF NeedsNoPlan, CallRecords
    <2> QED BY <1>a, <2>1, <2>4, FromQuiet
  <1>2. ASSUME NEW f \in DOMAIN feats, NEW s \in Located(f), NEW to, Transitioned(w, f, s, to)
        PROVE  Typed'
    <2> DEFINE c == [feats[f].file[s] EXCEPT !.st = to]
               k == [op |-> "count", f |-> f]
    <2>1. s \in Slugs /\ c \in Contents
      <3>1. s \in Slugs /\ feats[f].file[s] \in Contents
        BY <1>a, FileThere
      <3>2. to \in KnownStates("feature")
        BY <1>2 DEF Transitioned, CanTransition
      <3> QED BY <3>1, <3>2, ContentEdits
    <2>2. feats' = WithRow(f, s, c)
          /\ UNCHANGED <<rscene, plans, tasks, incidents, bugs, checkpoints, seqdb>>
      BY <1>2 DEF Transitioned
    <2> HIDE DEF c
    <2>3. feats' \in Seq(FeatureRecords) /\ DOMAIN feats' = DOMAIN feats
      BY <1>a, <2>1, <2>2, RowTypes DEF WithRow
    <2>4. CASE to = "reviewing"
      <3>1. told' = [told EXCEPT !.reviews[f] = @ + 1] /\ To(w, k)
        BY <1>2, <2>4 DEF Transitioned
      <3>2. ToldType(DOMAIN feats', told')
        BY <1>a, <2>3, <3>1, ToldCounts
      <3>3. k \in [op : {"count", "unblock"}, f : Nat] /\ k.op = "count"
        BY <1>a
      <3> HIDE DEF k
      <3>4. NeedsNoPlan(k)
        <4>1. k \notin Counting BY <3>3, CountingFields
        <4> QED BY <3>3, <4>1 DEF NeedsNoPlan, CallRecords
      <3> QED BY <1>a, <2>2, <2>3, <3>1, <3>2, <3>4, FromQuiet
    <2>5. CASE to # "reviewing"
      <3>1. UNCHANGED <<told, calls>>
        BY <1>2, <2>5 DEF Transitioned
      <3>2. calls[w] = NoCall /\ calls \in [Workers -> CallRecords]
        BY <1>a, <1>2 DEF Transitioned, Free
      <3>3. To(w, NoCall)
        BY <3>1, <3>2 DEF To
      <3>4. ToldType(DOMAIN feats', told')
        BY <1>a, <2>3, <3>1
      <3> QED BY <1>a, <2>2, <2>3, <3>3, <3>4, NoCallIsQuiet, FromQuiet
    <2> QED BY <2>4, <2>5
  <1>3. ASSUME NEW f \in DOMAIN feats, NEW s \in Located(f), OverrideBegins(w, f, s)
        PROVE  Typed'
    <2> DEFINE k == [op |-> "override", f |-> f, slug |-> s, list |-> feats[f].file[s].overrides + 1]
    <2>1. To(w, k) /\ UNCHANGED <<rscene, plans, feats, tasks, incidents, bugs, checkpoints, seqdb, told>>
      BY <1>3 DEF OverrideBegins
    <2>2. k \in [op : {"override"}, f : Nat, slug : Slugs, list : Nat] /\ k.op = "override"
      <3>1. s \in Slugs /\ feats[f].file[s] \in Contents
        BY <1>a, FileThere
      <3>2. f \in Nat /\ feats[f].file[s].overrides \in Nat
        <4>1. \A x \in Contents : x.overrides \in Nat BY DEF Contents
        <4> QED BY <1>a, <3>1, <4>1
      <3>3. feats[f].file[s].overrides + 1 \in Nat
        BY <3>2
      <3> QED BY <3>1, <3>2, <3>3
    <2> HIDE DEF k
    <2>4. NeedsNoPlan(k)
      <3>1. k \notin Counting BY <2>2, CountingFields
      <3> QED BY <2>2, <3>1 DEF NeedsNoPlan, CallRecords
    <2> QED BY <1>a, <2>1, <2>4, FromQuiet
  <1>4. ASSUME NEW f \in DOMAIN feats, NEW s \in Located(f), ReviewCapReached(w, f, s)
        PROVE  Typed'
    <2> DEFINE c == [feats[f].file[s] EXCEPT !.blocked = TRUE]
               k == [op |-> "ask", asks |-> 0]
    <2>1. s \in Slugs /\ c \in Contents
      BY <1>a, FileThere, ContentEdits
    <2>2. feats' = WithFile(f, s, c) /\ To(w, k)
          /\ UNCHANGED <<rscene, plans, tasks, incidents, bugs, checkpoints, seqdb, told>>
      BY <1>4 DEF ReviewCapReached
    <2>3. k \in [op : {"ask"}, asks : Nat] /\ k.op = "ask"
      OBVIOUS
    <2> HIDE DEF c, k
    <2>4. NeedsNoPlan(k)
      <3>1. k \notin Counting BY <2>3, CountingFields
      <3> QED BY <2>3, <3>1 DEF NeedsNoPlan, CallRecords
    <2>5. feats' \in Seq(FeatureRecords) /\ DOMAIN feats' = DOMAIN feats
      BY <1>a, <2>1, <2>2, FileTypes
    <2>6. ToldType(DOMAIN feats', told')
      BY <1>a, <2>2, <2>5
    <2> QED BY <1>a, <2>2, <2>4, <2>5, <2>6, FromQuiet
  <1>5. ASSUME NEW t \in DOMAIN tasks, CompleteTask(w, t) PROVE Typed'
    <2> DEFINE k == [op |-> "summary", t |-> t]
    <2>1. To(w, k) /\ UNCHANGED <<rscene, plans, feats, incidents, bugs, checkpoints, seqdb, told>>
      BY <1>5 DEF CompleteTask
    <2>2. PICK to \in {"done", "needs-review"} : tasks' = [tasks EXCEPT ![t].st = to]
      BY <1>5 DEF CompleteTask
    <2>3. tasks' = [tasks EXCEPT ![t] = [tasks[t] EXCEPT !.st = to]]
      BY <2>2
    <2>4. [tasks[t] EXCEPT !.st = to] \in TaskRecords
      <3>1. tasks[t] \in TaskRecords BY <1>a
      <3> QED BY <3>1, FeatureStates DEF TaskRecords
    <2>5. tasks' \in Seq(TaskRecords)
      BY <1>a, <2>3, <2>4, Replaced
    <2>6. k \in [op : {"summary"}, t : Nat] /\ k.op = "summary"
      BY <1>a
    <2> HIDE DEF k
    <2>7. NeedsNoPlan(k)
      <3>1. k \notin Counting BY <2>6, CountingFields
      <3> QED BY <2>6, <3>1 DEF NeedsNoPlan, CallRecords
    <2> QED BY <1>a, <2>1, <2>5, <2>7, FromQuiet
  <1>6. ASSUME NEW j \in DOMAIN checkpoints, RespondCheckpoint(w, j) PROVE Typed'
    <2> DEFINE n == checkpoints[j].feature
               u == [op |-> "unblock", f |-> n]
               e == [checkpoints[j] EXCEPT !.st = "responded"]
    <2>1. UNCHANGED <<rscene, plans, feats, tasks, incidents, bugs, seqdb, told>>
          /\ checkpoints' = [checkpoints EXCEPT ![j] = e] /\ calls[w] = NoCall
      BY <1>6 DEF RespondCheckpoint, Free
    <2>2. n \in Nat /\ e \in CheckpointRecords
      <3>1. checkpoints[j] \in CheckpointRecords BY <1>a
      <3> QED BY <3>1 DEF CheckpointRecords
    <2>3. PICK k : To(w, k) /\ (k = NoCall \/ k = u)
      <3>1. CASE n = 0
        <4>1. To(w, NoCall)
          BY <1>a, <1>6, <2>1, <3>1 DEF RespondCheckpoint, To
        <4> QED BY <4>1
      <3>2. CASE n # 0
        BY <1>6, <3>2 DEF RespondCheckpoint
      <3> QED BY <3>1, <3>2
    <2>4. u \in [op : {"count", "unblock"}, f : Nat] /\ u.op = "unblock"
      BY <2>2
    <2> HIDE DEF u, e, n
    <2>5. NeedsNoPlan(k)
      <3>1. u \notin Counting BY <2>4, CountingFields
      <3> QED BY <2>3, <2>4, <3>1, NoCallIsQuiet DEF NeedsNoPlan, CallRecords
    <2>6. checkpoints' \in Seq(CheckpointRecords)
      BY <1>a, <2>1, <2>2, Replaced
    <2> QED BY <1>a, <2>1, <2>3, <2>5, <2>6, FromQuiet
  <1> QED
    BY <1>1, <1>2, <1>3, <1>4, <1>5, <1>6

LEMMA FromPlans ==
    ASSUME Typed, NEW w \in Workers, NEW k \in CallRecords, To(w, k),
           k \in Counting \/ k.op \in {"save", "close"} => k.plan \in DOMAIN plans',
           plans' \in Seq(PlanRecords), DOMAIN plans \subseteq DOMAIN plans',
           (seqdb \in [DOMAIN seqdb -> Nat])',
           UNCHANGED <<rscene, feats, tasks, incidents, bugs, checkpoints>>,
           UNCHANGED told \/ Cut(w)
    PROVE  Typed'
  <1>1. Workers' = Workers
    BY DEF Workers
  <1>2. calls \in [Workers -> CallRecords] /\ ToldType(DOMAIN feats, told)
    BY DEF Typed, RecordsTypeOK, ToldType
  <1>3. calls' \in [Workers -> CallRecords] /\ calls'[w] = k
        /\ \A v \in Workers : v # w => calls'[v] = calls[v]
    BY <1>2 DEF To
  <1>4. PlansFound'
    BY <1>1, <1>3 DEF PlansFound, Typed
  <1>5. ToldType(DOMAIN feats', told')
    BY <1>2, CutType DEF Cut
  <1> QED
    BY <1>1, <1>3, <1>4, <1>5 DEF Typed, RecordsTypeOK, ToldType

(* A call about to write a plan. *)
SaveOf(p, n, close) == [op |-> "save", plan |-> p, new |-> n, close |-> close]

LEMMA SaveType ==
    ASSUME plans \in Seq(PlanRecords), NEW p \in DOMAIN plans, NEW n \in PlanRecords,
           NEW close \in BOOLEAN
    PROVE  /\ SaveOf(p, n, close) \in CallRecords /\ SaveOf(p, n, close).op = "save"
           /\ SaveOf(p, n, close).plan = p /\ SaveOf(p, n, close).new = n
           /\ SaveOf(p, n, close) \notin Counting
  <1> DEFINE k == SaveOf(p, n, close)
  <1>1. k \in [op : {"save"}, plan : Nat, new : PlanRecords, close : BOOLEAN] /\ k.op = "save"
        /\ k.plan = p /\ k.new = n
    BY DEF SaveOf
  <1> HIDE DEF k
  <1>2. k \in CallRecords
    BY <1>1 DEF CallRecords
  <1>3. k \notin Counting
    BY <1>1, CountingFields
  <1> QED
    BY <1>1, <1>2, <1>3 DEF k

LEMMA SaveTypes ==
    ASSUME Typed, NEW w \in Workers, NEW p \in DOMAIN plans, NEW n \in PlanRecords,
           NEW close \in BOOLEAN, To(w, SaveOf(p, n, close)),
           UNCHANGED <<rscene, plans, feats, tasks, incidents, bugs, checkpoints, seqdb, told>>
    PROVE  Typed'
  <1>1. plans \in Seq(PlanRecords) /\ seqdb \in [DOMAIN seqdb -> Nat]
    BY DEF Typed, RecordsTypeOK
  <1> DEFINE k == SaveOf(p, n, close)
  <1>2. k \in CallRecords /\ k.plan = p
    BY <1>1, SaveType
  <1> HIDE DEF k
  <1>3. To(w, k)
    BY DEF k
  <1> QED
    BY <1>1, <1>2, <1>3, FromPlans

LEMMA PlanTypes ==
    ASSUME Typed, NEW w \in Workers, NEW p \in DOMAIN plans,
           \/ UpdatePlan(w, p)
           \/ \E to : UpdatePlanStatus(w, p, to)
           \/ \E q \in 0..Len(plans) : UpdateStrategicPlan(w, p, q)
           \/ MaybeAutoAdvancePlan(w, p)
    PROVE  Typed'
  <1>1. plans \in Seq(PlanRecords) /\ plans[p] \in PlanRecords /\ Len(plans) \in Nat
    BY DEF Typed, RecordsTypeOK
  <1>2. CASE UpdatePlan(w, p)
    BY <1>1, <1>2, SaveTypes DEF UpdatePlan, SaveOf
  <1>3. ASSUME NEW to, UpdatePlanStatus(w, p, to) PROVE Typed'
    <2>1. Moved(p, to) \in PlanRecords
      BY <1>1, <1>3, MovedType DEF UpdatePlanStatus
    <2> QED BY <1>3, <2>1, SaveTypes DEF UpdatePlanStatus, SaveOf
  <1>4. ASSUME NEW q \in 0..Len(plans), UpdateStrategicPlan(w, p, q) PROVE Typed'
    <2>1. [plans[p] EXCEPT !.parent = q] \in PlanRecords
      <3>1. q \in Nat BY <1>1
      <3> QED BY <1>1, <3>1 DEF PlanRecords
    <2> QED BY <1>4, <2>1, SaveTypes DEF UpdateStrategicPlan, SaveOf
  <1>5. CASE MaybeAutoAdvancePlan(w, p)
    <2>1. Moved(p, "reviewing") \in PlanRecords
      <3>1. plans[p].st = "active" /\ Kind(p) = "batch"
        BY <1>5 DEF MaybeAutoAdvancePlan
      <3>2. "reviewing" \in KnownStates("batch")
        <4>1. <<"active", "reviewing">> \in BatchEdges BY DEF BatchEdges
        <4>2. AllowedTransitions("batch") = BatchEdges BY DEF AllowedTransitions
        <4> QED BY <4>1, <4>2 DEF KnownStates
      <3>3. Moved(p, "reviewing") = [plans[p] EXCEPT !.st = "reviewing"]
        BY <1>1, <3>1 DEF Moved, PlanRecords
      <3> QED BY <1>1, <3>2, <3>3 DEF PlanRecords
    <2> QED BY <1>5, <2>1, SaveTypes DEF MaybeAutoAdvancePlan, SaveOf
  <1> QED
    BY <1>2, <1>3, <1>4, <1>5

(* A call that counts a feature in a plan. *)
CountOf(p, seq, n) == [op |-> "create", step |-> "count", plan |-> p, seq |-> seq, new |-> n]
MoveOf(p, seq, n, f, s) ==
    [op |-> "move", step |-> "count", plan |-> p, seq |-> seq, new |-> n, f |-> f, slug |-> s]

LEMMA CountType ==
    ASSUME NEW p \in Nat, NEW seq \in Nat, NEW n \in PlanRecords, NEW f \in Nat, NEW s \in Slugs
    PROVE  CountOf(p, seq, n) \in Counting /\ MoveOf(p, seq, n, f, s) \in Counting
  BY DEF CountOf, MoveOf, Counting

LEMMA NextChanged ==
    ASSUME NEW x \in PlanRecords, NEW n \in Nat
    PROVE  /\ [x EXCEPT !.next = n] \in PlanRecords
           /\ [x EXCEPT !.next = n].pre = x.pre /\ [x EXCEPT !.next = n].no = x.no
           /\ [x EXCEPT !.next = n].next = n /\ [x EXCEPT !.next = n].parent = x.parent
           /\ [x EXCEPT !.next = n].st = x.st
           /\ x.next \in Nat /\ x.no \in Nat
  BY DEF PlanRecords

LEMMA PutIs ==
    ASSUME NEW S, NEW g, g \in [DOMAIN g -> S], NEW x, NEW v \in S, NEW d, d = Put(g, x, v)
    PROVE  /\ d \in [DOMAIN d -> S] /\ DOMAIN d = DOMAIN g \cup {x} /\ d[x] = v
           /\ \A y \in DOMAIN g : y # x => d[y] = g[y]
  BY DEF Put

LEMMA AllocatedType ==
    ASSUME seqdb \in [DOMAIN seqdb -> Nat], NEW p
    PROVE  Allocated(p) \in Nat /\ AllocateFeatureSeq(p) \in Nat
  <1>1. Allocated(p) \in Nat
    BY DEF Allocated
  <1> QED
    BY <1>1 DEF AllocateFeatureSeq

LEMMA FeatureNumberedIs ==
    ASSUME Typed, NEW w \in Workers, NEW p \in DOMAIN plans, FeatureNumbered(w, p)
    PROVE  \E seq \in Nat :
              /\ To(w, CountOf(p, seq, [plans[p] EXCEPT !.next = seq + 1]))
              /\ \/ /\ ~Does("database") \/ Does("database fails")
                    /\ seq = plans[p].next /\ UNCHANGED seqdb
                 \/ /\ Does("database")
                    /\ seq = AllocateFeatureSeq(p) /\ seqdb' = Put(seqdb, p, seq)
              /\ [plans[p] EXCEPT !.next = seq + 1] \in PlanRecords
              /\ (seqdb \in [DOMAIN seqdb -> Nat])'
              /\ CountOf(p, seq, [plans[p] EXCEPT !.next = seq + 1]) \in Counting
  <1>1. plans[p] \in PlanRecords /\ p \in Nat /\ seqdb \in [DOMAIN seqdb -> Nat]
    BY DEF Typed, RecordsTypeOK
  <1>2. plans[p].next \in Nat /\ AllocateFeatureSeq(p) \in Nat
    BY <1>1, NextChanged, AllocatedType
  <1>3. ASSUME NEW seq \in Nat
        PROVE  /\ [plans[p] EXCEPT !.next = seq + 1] \in PlanRecords
               /\ CountOf(p, seq, [plans[p] EXCEPT !.next = seq + 1]) \in Counting
    <2>1. [plans[p] EXCEPT !.next = seq + 1] \in PlanRecords
      BY <1>1, NextChanged
    <2> QED BY <1>1, <2>1 DEF CountOf, Counting
  <1>4. PICK db \in (IF Does("database") THEN {TRUE} ELSE {FALSE})
                    \cup (IF Does("database fails") THEN {FALSE} ELSE {}) :
           LET seq == IF db THEN AllocateFeatureSeq(p) ELSE plans[p].next IN
           /\ seqdb' = IF db THEN Put(seqdb, p, seq) ELSE seqdb
           /\ To(w, CountOf(p, seq, [plans[p] EXCEPT !.next = seq + 1]))
    BY DEF FeatureNumbered, CountOf
  <1>5. CASE db = FALSE
    <2>1. ~Does("database") \/ Does("database fails")
      BY <1>5
    <2> QED BY <1>1, <1>2, <1>3, <1>4, <1>5, <2>1
  <1>6. CASE db = TRUE
    <2>1. Does("database")
      BY <1>6
    <2> DEFINE seq == AllocateFeatureSeq(p)
    <2>2. seqdb' = Put(seqdb, p, seq) /\ To(w, CountOf(p, seq, [plans[p] EXCEPT !.next = seq + 1]))
          /\ seq \in Nat
      BY <1>2, <1>4, <1>6
    <2>3. (seqdb \in [DOMAIN seqdb -> Nat])'
      BY <1>1, <2>2, PutIs
    <2> HIDE DEF seq
    <2>4. seq = AllocateFeatureSeq(p)
      BY DEF seq
    <2> QED BY <1>3, <2>1, <2>2, <2>3, <2>4
  <1> QED
    BY <1>5, <1>6

LEMMA MoveNumberedIs ==
    ASSUME Typed, NEW w \in Workers, NEW f \in DOMAIN feats, NEW p \in DOMAIN plans,
           MoveNumbered(w, f, p)
    PROVE  \E s \in Slugged(f) :
              LET n == [plans[p] EXCEPT !.next = plans[p].next + 1]
                  k == MoveOf(p, plans[p].next, n, f, s) IN
              /\ To(w, k) /\ n \in PlanRecords /\ k \in Counting /\ plans[p].next \in Nat
              /\ UNCHANGED <<rscene, plans, feats, tasks, incidents, bugs, checkpoints, seqdb, told>>
  <1>1. plans[p] \in PlanRecords /\ p \in Nat /\ f \in Nat
    BY DEF Typed, RecordsTypeOK
  <1>2. plans[p].next \in Nat /\ plans[p].next + 1 \in Nat
    <2>1. plans[p].next \in Nat
      BY <1>1 DEF PlanRecords
    <2> QED BY <2>1
  <1>3. [plans[p] EXCEPT !.next = plans[p].next + 1] \in PlanRecords
    BY <1>1, <1>2, NextChanged
  <1>4. PICK s \in Slugged(f) :
           To(w, MoveOf(p, plans[p].next, [plans[p] EXCEPT !.next = plans[p].next + 1], f, s))
    BY DEF MoveNumbered, MoveOf
  <1>5. s \in Slugs
    BY DEF Slugged
  <1> QED
    BY <1>1, <1>2, <1>3, <1>4, <1>5, CountType DEF MoveNumbered

LEMMA CountTypes ==
    ASSUME Typed, NEW w \in Workers,
           \/ \E p \in DOMAIN plans : FeatureNumbered(w, p)
           \/ \E f \in DOMAIN feats, p \in DOMAIN plans : MoveNumbered(w, f, p)
           \/ ParentCounts(w) \/ PlanSaved(w) \/ PlanCloses(w) \/ PlanCreated(w)
           \/ \E pre \in {"B", "P"}, slug \in rscene.given.slugs : PlanNumbered(w, pre, slug)
    PROVE  Typed'
  <1>0. plans \in Seq(PlanRecords) /\ seqdb \in [DOMAIN seqdb -> Nat] /\ calls[w] \in CallRecords
        /\ rscene \in RecordScenes
    BY DEF Typed, RecordsTypeOK
  <1>a. NoCall \in CallRecords /\ NoCall \notin Counting /\ NoCall.op \notin {"save", "close"}
    BY NoCallIsQuiet DEF NeedsNoPlan
  <1>1. ASSUME NEW p \in DOMAIN plans, FeatureNumbered(w, p) PROVE Typed'
    <2>1. PICK k : To(w, k) /\ k \in Counting /\ k.plan = p /\ (seqdb \in [DOMAIN seqdb -> Nat])'
      BY <1>1, FeatureNumberedIs DEF CountOf
    <2>2. UNCHANGED <<rscene, plans, feats, tasks, incidents, bugs, checkpoints, told>>
      BY <1>1 DEF FeatureNumbered
    <2>3. k \in CallRecords
      BY <2>1 DEF CallRecords
    <2> QED BY <1>0, <2>1, <2>2, <2>3, FromPlans
  <1>2. ASSUME NEW f \in DOMAIN feats, NEW p \in DOMAIN plans, MoveNumbered(w, f, p) PROVE Typed'
    <2>1. PICK k : To(w, k) /\ k \in Counting /\ k.plan = p
                   /\ UNCHANGED <<rscene, plans, feats, tasks, incidents, bugs, checkpoints, seqdb, told>>
      BY <1>2, MoveNumberedIs DEF MoveOf
    <2>2. k \in CallRecords
      BY <2>1 DEF CallRecords
    <2> QED BY <1>0, <2>1, <2>2, FromPlans
  <1>3. CASE ParentCounts(w)
    <2> DEFINE k == calls[w]
               m == [k EXCEPT !.step = "write"]
    <2>1. k \in Counting /\ plans' = [plans EXCEPT ![k.plan] = k.new] /\ To(w, m)
          /\ UNCHANGED <<rscene, feats, tasks, incidents, bugs, checkpoints, seqdb, told>>
      BY <1>0, <1>3, CallShapes DEF ParentCounts
    <2>2. m \in Counting /\ m.plan = k.plan /\ k.new \in PlanRecords
      <3>1. m.plan = k.plan
        BY <2>1 DEF Counting
      <3> QED BY <2>1, <3>1, CountingFields
    <2>3. k.plan \in DOMAIN plans
      BY <2>1 DEF Typed, PlansFound
    <2>4. plans' \in Seq(PlanRecords) /\ DOMAIN plans' = DOMAIN plans
      BY <1>0, <2>1, <2>2, PlanWritten
    <2>5. m \in CallRecords
      BY <2>2 DEF CallRecords
    <2> HIDE DEF m
    <2> QED BY <1>0, <2>1, <2>2, <2>3, <2>4, <2>5, FromPlans
  <1>4. CASE PlanSaved(w)
    <2> DEFINE k == calls[w]
               c == [op |-> "close", plan |-> k.plan]
    <2>1. k \in [op : {"save"}, plan : Nat, new : PlanRecords, close : BOOLEAN]
          /\ plans' = [plans EXCEPT ![k.plan] = k.new]
          /\ UNCHANGED <<rscene, feats, tasks, incidents, bugs, checkpoints, seqdb, told>>
      BY <1>0, <1>4, CallShapes DEF PlanSaved
    <2>2. k.plan \in DOMAIN plans
      BY <2>1 DEF Typed, PlansFound
    <2>3. plans' \in Seq(PlanRecords) /\ DOMAIN plans' = DOMAIN plans
      BY <1>0, <2>1, PlanWritten
    <2>4. c \in [op : {"close"}, plan : Nat] /\ c.plan = k.plan
      BY <2>1
    <2>5. To(w, NoCall) \/ To(w, c)
      BY <1>4 DEF PlanSaved, Over
    <2> HIDE DEF c
    <2>6. c \in CallRecords
      BY <2>4 DEF CallRecords
    <2> QED BY <1>0, <1>a, <2>1, <2>2, <2>3, <2>4, <2>5, <2>6, FromPlans
  <1>5. CASE PlanCloses(w)
    <2> DEFINE p == calls[w].plan
    <2>1. p \in DOMAIN plans /\ UNCHANGED <<rscene, plans, feats, tasks, incidents, bugs, checkpoints, seqdb>>
      BY <1>5 DEF PlanCloses, Typed, PlansFound
    <2>2. CASE PlanMayMove(p, "done")
      <3>1. Moved(p, "done") \in PlanRecords
        BY <1>0, <2>1, <2>2, MovedType
      <3> QED BY <1>5, <2>1, <2>2, <3>1, SaveTypes DEF PlanCloses, SaveOf
    <2>3. CASE ~PlanMayMove(p, "done")
      <3>1. Cut(w)
        BY <1>5, <2>3 DEF PlanCloses
      <3> QED BY <1>0, <1>a, <2>1, <3>1, FromPlans DEF Cut, Over
    <2> QED BY <2>2, <2>3
  <1>6. CASE PlanCreated(w)
    <2> DEFINE n == calls[w].new
               same == {p \in DOMAIN plans : plans[p].pre = n.pre /\ plans[p].no = n.no
                                             /\ plans[p].slug = n.slug}
    <2>1. n \in PlanRecords /\ To(w, NoCall)
          /\ UNCHANGED <<rscene, feats, tasks, incidents, bugs, checkpoints, seqdb, told>>
      BY <1>0, <1>6, CallShapes DEF PlanCreated, Over
    <2>2. plans' = IF same = {} THEN Append(plans, n)
                   ELSE [p \in DOMAIN plans |-> IF p \in same THEN n ELSE plans[p]]
      BY <1>6 DEF PlanCreated
    <2> HIDE DEF n, same
    <2>3. plans' \in Seq(PlanRecords) /\ DOMAIN plans \subseteq DOMAIN plans'
      <3>1. CASE same = {}
        BY <1>0, <2>1, <2>2, <3>1
      <3>2. CASE same # {}
        <4>1. plans' = [p \in DOMAIN plans |-> plans'[p]] /\ \A p \in DOMAIN plans : plans'[p] \in PlanRecords
          BY <1>0, <2>1, <2>2, <3>2
        <4> QED BY <1>0, <4>1, Rewritten
      <3> QED BY <3>1, <3>2
    <2> QED BY <1>0, <1>a, <2>1, <2>3, FromPlans
  <1>7. ASSUME NEW pre \in {"B", "P"}, NEW slug \in rscene.given.slugs, PlanNumbered(w, pre, slug)
        PROVE  Typed'
    <2> DEFINE n == NewPlan(pre, NextPlanNumber(pre), slug)
               k == [op |-> "plan", new |-> n]
    <2>1. n \in PlanRecords
      BY <1>0, RecordsAssumption, NewPlanType
    <2>2. To(w, k) /\ UNCHANGED <<rscene, plans, feats, tasks, incidents, bugs, checkpoints, seqdb, told>>
      BY <1>7 DEF PlanNumbered
    <2> HIDE DEF n
    <2>3. k \in [op : {"plan"}, new : PlanRecords] /\ k.op = "plan"
      BY <2>1
    <2> HIDE DEF k
    <2>4. k \in CallRecords /\ k \notin Counting
      BY <2>3, CountingFields DEF CallRecords
    <2> QED BY <1>0, <2>2, <2>3, <2>4, FromPlans
  <1> QED
    BY <1>1, <1>2, <1>3, <1>4, <1>5, <1>6, <1>7

LEMMA OtherTypes ==
    ASSUME Typed,
           \/ \E slug, report \in Slugs : CreateBug(slug, report)
           \/ CallOnAnIncident
    PROVE  Typed'
  <1>1. ASSUME NEW b, NEW i, b \in [DOMAIN b -> Slugs], DOMAIN b \subseteq BugIDs, IsFiniteSet(DOMAIN b),
               i \in Seq(IncidentRecords), bugs' = b, incidents' = i,
               UNCHANGED <<rscene, plans, feats, tasks, checkpoints, seqdb, calls, told>>
        PROVE  Typed'
    <2>1. Workers' = Workers
      BY <1>1 DEF Workers
    <2>2. PlansFound'
      BY <1>1, <2>1 DEF Typed, PlansFound
    <2> QED BY <1>1, <2>1, <2>2 DEF Typed, RecordsTypeOK
  <1>2. bugs \in [DOMAIN bugs -> Slugs] /\ DOMAIN bugs \subseteq BugIDs /\ IsFiniteSet(DOMAIN bugs)
        /\ incidents \in Seq(IncidentRecords)
    BY DEF Typed, RecordsTypeOK
  <1>3. ASSUME NEW slug \in Slugs, NEW report \in Slugs, CreateBug(slug, report) PROVE Typed'
    <2> DEFINE id == AllocateID(slug)
               b == Put(bugs, id, report)
    <2>1. bugs' = b /\ incidents' = incidents
          /\ UNCHANGED <<rscene, plans, feats, tasks, checkpoints, seqdb, calls, told>>
      BY <1>3 DEF CreateBug
    <2>2. id \in BugIDs
      <3>1. Cardinality(DOMAIN bugs) \in Nat
        BY <1>2, FS_CardinalityType
      <3>2. Cardinality(DOMAIN bugs) + 1 \in Nat
        BY <3>1
      <3> QED BY <3>2 DEF AllocateID, BugIDs
    <2> HIDE DEF id
    <2>3. b \in [DOMAIN b -> Slugs] /\ DOMAIN b = DOMAIN bugs \cup {id}
      BY <1>2 DEF Put
    <2>4. IsFiniteSet(DOMAIN b)
      BY <1>2, <2>3, FS_AddElement
    <2> HIDE DEF b
    <2> QED BY <1>1, <1>2, <2>1, <2>2, <2>3, <2>4
  <1>4. CASE CallOnAnIncident
    <2>1. ASSUME NEW kind \in {"incident", "decision"}, NewRecord(kind) PROVE Typed'
      <3> DEFINE r == [kind |-> kind, st |-> EntryState(kind), bugs |-> {}]
      <3>1. r \in IncidentRecords
        BY <2>1, FeatureStates DEF IncidentRecords
      <3>2. incidents' = Append(incidents, r)
            /\ UNCHANGED <<rscene, plans, feats, tasks, bugs, checkpoints, seqdb, calls, told>>
        BY <2>1 DEF NewRecord
      <3> HIDE DEF r
      <3>3. Append(incidents, r) \in Seq(IncidentRecords)
        BY <1>2, <3>1
      <3> QED BY <1>1, <1>2, <3>2, <3>3
    <2>2. ASSUME NEW i \in DOMAIN incidents,
                 NEW to \in KnownStates(incidents[i].kind), UpdateIncident(i, to)
          PROVE  Typed'
      <3> DEFINE r == [incidents[i] EXCEPT !.st = to]
      <3>1. incidents' = [incidents EXCEPT ![i] = r]
            /\ UNCHANGED <<rscene, plans, feats, tasks, bugs, checkpoints, seqdb, calls, told>>
        BY <2>2 DEF UpdateIncident
      <3>2. r \in IncidentRecords
        <4>1. incidents[i] \in IncidentRecords BY <1>2
        <4>2. to \in KnownStates("incident") \cup KnownStates("decision")
          BY <2>2, <4>1 DEF IncidentRecords
        <4> QED BY <4>1, <4>2 DEF IncidentRecords
      <3> HIDE DEF r
      <3>3. incidents' \in Seq(IncidentRecords)
        BY <1>2, <3>1, <3>2, Replaced
      <3> QED BY <1>1, <1>2, <3>1, <3>3
    <2>3. ASSUME NEW i \in DOMAIN incidents, NEW b \in DOMAIN bugs, NEW spelling \in {"id", "prefix"},
                 LinkBug(i, b, spelling)
          PROVE  Typed'
      <3> DEFINE r == [incidents[i] EXCEPT !.bugs = incidents[i].bugs \cup {<<b, spelling>>}]
      <3>1. incidents' = [incidents EXCEPT ![i] = r]
            /\ UNCHANGED <<rscene, plans, feats, tasks, bugs, checkpoints, seqdb, calls, told>>
        BY <2>3 DEF LinkBug
      <3>2. r \in IncidentRecords
        <4>1. incidents[i] \in IncidentRecords BY <1>2
        <4>2. <<b, spelling>> \in BugIDs \X {"id", "prefix"} BY <1>2
        <4>3. incidents[i].bugs \cup {<<b, spelling>>} \in SUBSET (BugIDs \X {"id", "prefix"})
          BY <4>1, <4>2 DEF IncidentRecords
        <4> QED BY <4>1, <4>3 DEF IncidentRecords
      <3> HIDE DEF r
      <3>3. incidents' \in Seq(IncidentRecords)
        BY <1>2, <3>1, <3>2, Replaced
      <3> QED BY <1>1, <1>2, <3>1, <3>3
    <2> QED
      BY <1>4, <2>1, <2>2, <2>3 DEF CallOnAnIncident, CreateIncident, CreateDecision
  <1> QED
    BY <1>3, <1>4

LEMMA EndTypes ==
    ASSUME Typed, NEW w \in Workers,
           CompletionWritten(w) \/ CheckpointCreated(w) \/ RecordsCrash(w)
    PROVE  Typed'
  <1>a. /\ feats \in Seq(FeatureRecords) /\ tasks \in Seq(TaskRecords)
        /\ checkpoints \in Seq(CheckpointRecords) /\ calls[w] \in CallRecords
    BY DEF Typed, RecordsTypeOK
  <1>1. CASE CompletionWritten(w)
    <2> DEFINE t == calls[w].t
               r == [tasks EXCEPT ![t] = [tasks[t] EXCEPT !.summary = TRUE]]
    <2>1. (Over(w) /\ UNCHANGED told) \/ Cut(w)
      BY <1>1 DEF CompletionWritten
    <2>2. UNCHANGED <<rscene, plans, feats, incidents, bugs, checkpoints, seqdb>>
      BY <1>1 DEF CompletionWritten
    <2>3. tasks' = r \/ tasks' = tasks
      BY <1>1 DEF CompletionWritten
    <2>4. t \in DOMAIN tasks => [tasks[t] EXCEPT !.summary = TRUE] \in TaskRecords
      <3>1. t \in DOMAIN tasks => tasks[t] \in TaskRecords BY <1>a
      <3> QED BY <3>1 DEF TaskRecords
    <2>5. r \in Seq(TaskRecords)
      BY <1>a, <2>4, Replaced
    <2> HIDE DEF r
    <2> QED BY <1>a, <2>1, <2>2, <2>3, <2>5, OverTypes
  <1>2. CASE CheckpointCreated(w)
    <2> DEFINE r == [st |-> "pending", feature |-> calls[w].asks]
    <2>1. r \in CheckpointRecords
      BY <1>a, <1>2, CallShapes DEF CheckpointCreated, CheckpointRecords
    <2>2. checkpoints' = Append(checkpoints, r) /\ Over(w)
          /\ UNCHANGED <<rscene, plans, feats, tasks, incidents, bugs, seqdb, told>>
      BY <1>2 DEF CheckpointCreated
    <2> HIDE DEF r
    <2>3. Append(checkpoints, r) \in Seq(CheckpointRecords)
      BY <1>a, <2>1
    <2> QED BY <1>a, <2>2, <2>3, OverTypes
  <1>3. CASE RecordsCrash(w)
    BY <1>3, <1>a, OverTypes DEF RecordsCrash
  <1> QED
    BY <1>1, <1>2, <1>3

LEMMA TypedStep ==
    ASSUME Typed, [RecordsNext]_rvars PROVE Typed'
  <1>1. ASSUME NEW w \in Workers, CallOnAFeature(w) PROVE Typed'
    <2>1. CASE \E f \in DOMAIN feats, p \in DOMAIN plans : MoveNumbered(w, f, p)
      BY <2>1, CountTypes
    <2>2. CASE ~ \E f \in DOMAIN feats, p \in DOMAIN plans : MoveNumbered(w, f, p)
      <3>1. \E f \in DOMAIN feats : \E s \in Located(f) :
                 \/ \E t \in Slugs : RenameBegins(w, f, s, t)
                 \/ \E to : Transitioned(w, f, s, to)
                 \/ OverrideBegins(w, f, s)
                 \/ ReviewCapReached(w, f, s)
        BY <1>1, <2>2 DEF CallOnAFeature
      <3> QED BY <3>1, BeginTypes
    <2> QED BY <2>1, <2>2
  <1>2. ASSUME NEW w \in Workers, CallOnAPlan(w) PROVE Typed'
    <2>1. CASE \E pre \in {"B", "P"}, slug \in rscene.given.slugs : PlanNumbered(w, pre, slug)
      BY <2>1, CountTypes
    <2>2. ASSUME NEW p \in DOMAIN plans, FeatureNumbered(w, p) PROVE Typed'
      BY <2>2, CountTypes
    <2>3. ASSUME NEW p \in DOMAIN plans,
                 \/ UpdatePlan(w, p)
                 \/ \E to : UpdatePlanStatus(w, p, to)
                 \/ \E q \in 0..Len(plans) : UpdateStrategicPlan(w, p, q)
                 \/ MaybeAutoAdvancePlan(w, p)
          PROVE  Typed'
      BY <2>3, PlanTypes
    <2> QED BY <1>2, <2>1, <2>2, <2>3 DEF CallOnAPlan
  <1>3. ASSUME NEW w \in Workers, CallGoesOn(w) PROVE Typed'
    <2>1. CASE (\E s \in rscene.given.slugs : FeatureWritten(w, s)) \/ FeatureRefused(w)
               \/ FeatureCached(w)
      BY <2>1, CreateTypes
    <2>2. CASE FeatureReparented(w) \/ RenameWrites(w) \/ RenameRemoves(w)
               \/ IncrementFeatureReviewCycle(w) \/ PersistFeatureOverrides(w)
               \/ ClearBlockedReason(w)
      BY <2>2, FeatureTypes
    <2>3. CASE ParentCounts(w) \/ PlanSaved(w) \/ PlanCloses(w) \/ PlanCreated(w)
      BY <2>3, CountTypes
    <2>4. CASE CompletionWritten(w) \/ CheckpointCreated(w)
      BY <2>4, EndTypes
    <2> QED BY <1>3, <2>1, <2>2, <2>3, <2>4 DEF CallGoesOn
  <1>4. ASSUME NEW w \in Workers, NEW t \in DOMAIN tasks, CompleteTask(w, t) PROVE Typed'
    BY <1>4, BeginTypes
  <1>5. ASSUME NEW w \in Workers, NEW k \in DOMAIN checkpoints, RespondCheckpoint(w, k) PROVE Typed'
    BY <1>5, BeginTypes
  <1>6. ASSUME NEW w \in Workers, RecordsCrash(w) PROVE Typed'
    BY <1>6, EndTypes
  <1>7. CASE (\E slug, report \in Slugs : CreateBug(slug, report)) \/ CallOnAnIncident
    BY <1>7, OtherTypes
  <1>8. CASE UNCHANGED rvars
    BY <1>8 DEF rvars, Typed, RecordsTypeOK, PlansFound, Workers
  <1> QED
    BY <1>1, <1>2, <1>3, <1>4, <1>5, <1>6, <1>7, <1>8 DEF RecordsNext

LEMMA TypedInit == ASSUME RecordsInit PROVE Typed
  <1>1. rscene \in RecordScenes /\ plans \in Seq(PlanRecords) /\ feats \in Seq(FeatureRecords)
        /\ tasks \in Seq(TaskRecords)
    BY RecordsAssumption DEF RecordsInit
  <1>2. incidents = <<>> /\ bugs = <<>> /\ checkpoints = <<>> /\ seqdb = <<>>
        /\ calls = [w \in Workers |-> NoCall]
        /\ told = [reviews |-> [f \in DOMAIN feats |-> 0],
                   overrides |-> [f \in DOMAIN feats |-> 0], cut |-> FALSE]
    BY DEF RecordsInit
  <1>3. calls \in [Workers -> CallRecords] /\ PlansFound
    BY <1>2, NoCallIsQuiet DEF NeedsNoPlan, PlansFound
  <1>4. \A S : <<>> \in [DOMAIN <<>> -> S] /\ DOMAIN <<>> = {}
    OBVIOUS
  <1>5. IsFiniteSet({})
    BY FS_EmptySet
  <1> QED
    BY <1>1, <1>2, <1>3, <1>4, <1>5 DEF Typed, RecordsTypeOK

(* Every variable holds what it is meant to, and a call under way names a   *)
(* plan that is there.                                                     *)
THEOREM RecordsTypeCorrect == RecordsSpec => []RecordsTypeOK
  <1>1. Typed /\ [RecordsNext]_rvars => Typed'
    BY TypedStep
  <1>2. RecordsInit => Typed
    BY TypedInit
  <1>3. Typed => RecordsTypeOK
    BY DEF Typed
  <1> QED
    BY <1>1, <1>2, <1>3, PTL DEF RecordsSpec

-----------------------------------------------------------------------------
(* Numbers of features. *)

(* What the theorem asks of where a scene starts and of its calls.  Where   *)
(* numbers count - calls one at a time, or the database - the plans that   *)
(* are given have names of their own, without the prefix if features are   *)
(* moved, for kbz move numbers a feature of a batch with a P.  Then no     *)
(* plans are created beside the given ones, and never by two calls at a    *)
(* time.  The numbers that are given are behind the counters of the plans; *)
(* the database starts from nothing, and numbers come from nowhere else.   *)
GivenNumbers(x, f) ==
    {x.given.features[f].file[s].number :
        s \in {t \in Slugs : x.given.features[f].file[t] # NoFile}}
NumbersGiven ==
    \A x \in RecordScenes : x.workers = 1 \/ "database" \in x.does =>
       /\ \A p, q \in DOMAIN x.given.plans : p # q =>
             \/ x.given.plans[p].no # x.given.plans[q].no
             \/ x.given.plans[p].pre # x.given.plans[q].pre /\ "move" \notin x.does
       /\ "plan" \in x.does => "move" \notin x.does /\ x.workers = 1
       /\ "database" \in x.does =>
             /\ x.given.features = <<>>
             /\ "move" \notin x.does /\ "database fails" \notin x.does
       /\ \A f, g \in DOMAIN x.given.features :
             f # g => GivenNumbers(x, f) \cap GivenNumbers(x, g) = {}
       /\ \A f \in DOMAIN x.given.features : \A n \in GivenNumbers(x, f) :
             \E p \in DOMAIN x.given.plans :
                /\ n[2] = x.given.plans[p].no
                /\ n[1] = x.given.plans[p].pre \/ "move" \in x.does
                /\ n[3] < x.given.plans[p].next

NumbersCount == rscene.workers = 1 \/ Does("database")

(* The number a plan gives out next, and the numbers it may have given.    *)
Counter(p) == IF Does("database") THEN AllocateFeatureSeq(p) ELSE plans[p].next
InPlan(n, p) == n[2] = plans[p].no /\ (n[1] = plans[p].pre \/ Does("move"))
UsedUp(n) == \E p \in DOMAIN plans : InPlan(n, p) /\ n[3] < Counter(p)

(* The numbers of a feature: in its files, and in renames under way.       *)
InFiles(f) == {feats[f].file[s].number : s \in Slugged(f)}
InCalls(f) == {calls[w].c.number : w \in {v \in Workers : calls[v].op = "rename" /\ calls[v].f = f}}
Carried(f) == InFiles(f) \cup InCalls(f)

(* The number a counting call has for its feature. *)
Taken(k) == <<IF k.op = "move" THEN "P" ELSE plans[k.plan].pre, plans[k.plan].no, k.seq>>

PlansApart ==
    \A p, q \in DOMAIN plans : p # q =>
       \/ plans[p].no # plans[q].no
       \/ plans[p].pre # plans[q].pre /\ ~Does("move")

(* A plan that a call is about to write keeps its name, and its counter if  *)
(* calls come one at a time; one that it is about to create has a new name. *)
Loaded(k) ==
    /\ k.op = "save" \/ k \in Counting =>
          k.new.pre = plans[k.plan].pre /\ k.new.no = plans[k.plan].no
    /\ k.op = "save" /\ rscene.workers = 1 => k.new.next = plans[k.plan].next
    /\ k.op = "plan" =>
          /\ Does("plan")
          /\ \A p \in DOMAIN plans : plans[p].pre = k.new.pre => plans[p].no # k.new.no
    /\ k.op = "rename" => k.f \in DOMAIN feats

(* A counting call has the number its plan is at, and has counted it or is  *)
(* about to.                                                               *)
Ahead(k) ==
    k \in Counting =>
       /\ k.op = "move" => Does("move")
       /\ IF Does("database") \/ k.step = "write" THEN k.seq < Counter(k.plan)
          ELSE k.seq = plans[k.plan].next /\ k.new.next = k.seq + 1

NumbersApart ==
    /\ \A f, g \in DOMAIN feats : f # g => Carried(f) \cap Carried(g) = {}
    /\ \A w \in Workers : calls[w] \in Counting =>
          /\ \A f \in DOMAIN feats : Taken(calls[w]) \notin Carried(f)
          /\ \A v \in Workers : v # w /\ calls[v] \in Counting => Taken(calls[v]) # Taken(calls[w])

NumbersInv ==
    NumbersCount =>
       /\ PlansApart
       /\ \A w \in Workers : Loaded(calls[w]) /\ Ahead(calls[w])
       /\ \A f \in DOMAIN feats : \A n \in Carried(f) : UsedUp(n)
       /\ NumbersApart

(* What a scene where numbers count does and does not do. *)
LEMMA CountingScenes ==
    ASSUME NumbersGiven, NumbersCount, rscene \in RecordScenes
    PROVE  /\ ~Does("database") => rscene.workers = 1
           /\ Does("database") => ~Does("move") /\ ~Does("database fails")
           /\ Does("plan") => ~Does("move") /\ rscene.workers = 1
           /\ rscene.workers = 1 => Workers = {1}
  <1>1. rscene.workers = 1 => Workers = {1}
    BY DEF Workers
  <1> QED
    BY <1>1 DEF NumbersGiven, NumbersCount, Does

(* A number that is used up in a plan is below the counter of that plan.   *)
LEMMA Fresh ==
    ASSUME Typed, PlansApart, NEW p \in DOMAIN plans, NEW n, InPlan(n, p), UsedUp(n)
    PROVE  n[3] < Counter(p)
  <1>1. PICK q \in DOMAIN plans : InPlan(n, q) /\ n[3] < Counter(q)
    BY DEF UsedUp
  <1>2. p = q
    BY <1>1 DEF PlansApart, InPlan
  <1> QED
    BY <1>1, <1>2

LEMMA CounterType ==
    ASSUME Typed, NEW p \in DOMAIN plans PROVE Counter(p) \in Nat
  <1>1. plans[p] \in PlanRecords /\ seqdb \in [DOMAIN seqdb -> Nat]
    BY DEF Typed, RecordsTypeOK
  <1>2. plans[p].next \in Nat /\ AllocateFeatureSeq(p) \in Nat
    BY <1>1, AllocatedType DEF PlanRecords
  <1> QED
    BY <1>2 DEF Counter
(* A step that keeps the names of the plans and takes no counter back       *)
(* leaves the other calls what they were.                                  *)
CountersGrow ==
    /\ DOMAIN plans \subseteq DOMAIN plans' /\ DOMAIN feats \subseteq DOMAIN feats'
    /\ UNCHANGED rscene
    /\ \A p \in DOMAIN plans : /\ plans'[p].pre = plans[p].pre /\ plans'[p].no = plans[p].no
                               /\ Counter(p) <= Counter(p)'

LEMMA CounterTypeNext ==
    ASSUME Typed', NEW p \in DOMAIN plans' PROVE Counter(p)' \in Nat
  <1>1. plans'[p] \in PlanRecords /\ seqdb' \in [DOMAIN seqdb' -> Nat]
    BY DEF Typed, RecordsTypeOK
  <1>2. plans'[p].next \in Nat
    BY <1>1 DEF PlanRecords
  <1>3. Allocated(p)' \in Nat
    BY <1>1 DEF Allocated
  <1>4. AllocateFeatureSeq(p)' \in Nat
    BY <1>3 DEF AllocateFeatureSeq
  <1> QED
    BY <1>2, <1>4 DEF Counter

LEMMA Others ==
    ASSUME NumbersGiven, Typed, Typed', NumbersCount, NEW w \in Workers, NEW v \in Workers,
           v # w, UNCHANGED calls[v], CountersGrow, Loaded(calls[v]), Ahead(calls[v])
    PROVE  /\ Loaded(calls[v])' /\ Ahead(calls[v])'
           /\ calls[v] \in Counting => UNCHANGED Taken(calls[v])
  <1>0. rscene \in RecordScenes /\ rscene' = rscene
    BY DEF Typed, RecordsTypeOK, CountersGrow
  <1>1. rscene.workers # 1
    <2>1. rscene.workers = 1 => Workers = {1}
      BY <1>0, CountingScenes
    <2>2. Workers = {1} => v = w
      OBVIOUS
    <2> QED BY <2>1, <2>2
  <1>2. Does("database") /\ ~Does("move") /\ ~Does("plan") /\ rscene' = rscene
    BY <1>0, <1>1, CountingScenes
  <1> DEFINE k == calls[v]
  <1>3. k \in CallRecords /\ (k \in Counting \/ k.op \in {"save", "close"} => k.plan \in DOMAIN plans)
    BY DEF Typed, RecordsTypeOK, PlansFound
  <1>4. Loaded(k)'
    BY <1>1, <1>2, <1>3 DEF Loaded, CountersGrow, Does
  <1>5. k \in Counting => k.seq < Counter(k.plan)'
    <2>1. ASSUME k \in Counting PROVE k.seq < Counter(k.plan) /\ Counter(k.plan) <= Counter(k.plan)'
      BY <1>2, <1>3, <2>1 DEF Ahead, CountersGrow
    <2>2. ASSUME k \in Counting
          PROVE  k.seq \in Nat /\ Counter(k.plan) \in Nat /\ (Counter(k.plan) \in Nat)'
      <3>1. k.plan \in DOMAIN plans /\ k.plan \in DOMAIN plans'
        BY <1>3, <2>2 DEF CountersGrow
      <3>2. \A p \in DOMAIN plans' : Counter(p)' \in Nat
        BY CounterTypeNext
      <3> QED BY <2>2, <3>1, <3>2, CounterType, CountingFields
    <2> QED BY <2>1, <2>2
  <1>6. Ahead(k)'
    BY <1>2, <1>5 DEF Ahead, Does
  <1>7. k \in Counting => Taken(k)' = Taken(k)
    BY <1>3 DEF Taken, CountersGrow
  <1> QED
    BY <1>4, <1>6, <1>7

LEMMA UsedUpStays ==
    ASSUME Typed, Typed', CountersGrow, NEW n, n[3] \in Nat, UsedUp(n) PROVE UsedUp(n)'
  <1>1. PICK p \in DOMAIN plans : InPlan(n, p) /\ n[3] < Counter(p)
    BY DEF UsedUp
  <1>2. p \in DOMAIN plans' /\ Counter(p) <= Counter(p)' /\ InPlan(n, p)'
    BY <1>1 DEF CountersGrow, InPlan, Does
  <1>3. Counter(p) \in Nat /\ Counter(p)' \in Nat
    BY <1>2, CounterType, CounterTypeNext
  <1>4. n[3] < Counter(p)'
    BY <1>1, <1>2, <1>3
  <1> QED
    BY <1>2, <1>4 DEF UsedUp

LEMMA CarriedType ==
    ASSUME Typed, NEW f \in DOMAIN feats PROVE Carried(f) \subseteq Numbers
  <1>1. InFiles(f) \subseteq Numbers
    <2>1. \A s \in Slugged(f) : feats[f].file[s] \in Contents
      BY FileThere DEF Typed, RecordsTypeOK
    <2> QED BY <2>1 DEF InFiles, Contents
  <1>2. InCalls(f) \subseteq Numbers
    <2>1. ASSUME NEW v \in Workers, calls[v].op = "rename" PROVE calls[v].c.number \in Numbers
      <3>1. calls[v] \in CallRecords
        BY DEF Typed, RecordsTypeOK
      <3>2. calls[v].c \in Contents
        BY <2>1, <3>1, CallShapes
      <3> QED BY <3>2 DEF Contents
    <2> QED BY <2>1 DEF InCalls
  <1> QED
    BY <1>1, <1>2 DEF Carried

(* A call that goes on, or is over, with the number it had, if it had one;  *)
(* no feature takes a number.                                              *)
LEMMA NumbersKept ==
    ASSUME NumbersGiven, Typed, Typed', NumbersInv, NumbersCount, CountersGrow,
           NEW w \in Workers, NEW k \in CallRecords, To(w, k),
           DOMAIN plans' = DOMAIN plans \/ PlansApart', DOMAIN feats' = DOMAIN feats,
           Loaded(k)', Ahead(k)',
           k \in Counting => calls[w] \in Counting /\ Taken(k)' = Taken(calls[w]),
           \A f \in DOMAIN feats : Carried(f)' \subseteq Carried(f)
    PROVE  NumbersInv'
  <1>1. Workers' = Workers /\ calls'[w] = k /\ \A v \in Workers : v # w => calls'[v] = calls[v]
    BY DEF Workers, CountersGrow, To, Typed, RecordsTypeOK
  <1>2. PlansApart'
    BY DEF PlansApart, NumbersInv, CountersGrow, Does
  <1>3. \A v \in Workers : v # w => /\ Loaded(calls[v])' /\ Ahead(calls[v])'
                                    /\ calls[v] \in Counting => Taken(calls[v])' = Taken(calls[v])
    BY <1>1, Others DEF NumbersInv
  <1>4. \A v \in Workers' : Loaded(calls[v])' /\ Ahead(calls[v])'
    BY <1>1, <1>3
  <1>5. ASSUME NEW f \in DOMAIN feats', NEW n \in Carried(f)' PROVE UsedUp(n)'
    <2>1. f \in DOMAIN feats /\ n \in Carried(f) /\ n \in Numbers
      BY <1>5, CarriedType
    <2>2. n[3] \in Nat
      BY <2>1 DEF Numbers
    <2> QED BY <2>1, <2>2, UsedUpStays DEF NumbersInv
  <1>6. \A v \in Workers : calls'[v] \in Counting =>
           calls[v] \in Counting /\ Taken(calls[v])' = Taken(calls[v])
    BY <1>1, <1>3
  <1>7. NumbersApart'
    BY <1>1, <1>6 DEF NumbersApart, NumbersInv
  <1> QED
    BY <1>2, <1>4, <1>5, <1>7 DEF NumbersInv

(* A call that counts a feature takes the number its plan is at.            *)
LEMMA NumberTaken ==
    ASSUME NumbersGiven, Typed, Typed', NumbersInv, NumbersCount, CountersGrow,
           NEW w \in Workers, Free(w), NEW k \in Counting, To(w, k), k.plan \in DOMAIN plans,
           UNCHANGED <<plans, feats>>,
           k.op = "move" => Does("move"), k.seq = Counter(k.plan),
           Loaded(k)', Ahead(k)'
    PROVE  NumbersInv'
  <1>1. Workers' = Workers /\ calls'[w] = k /\ \A v \in Workers : v # w => calls'[v] = calls[v]
    BY DEF Workers, CountersGrow, To, Typed, RecordsTypeOK
  <1>2. PlansApart'
    BY DEF PlansApart, NumbersInv, CountersGrow, Does
  <1>3. \A v \in Workers : v # w => /\ Loaded(calls[v])' /\ Ahead(calls[v])'
                                    /\ calls[v] \in Counting => Taken(calls[v])' = Taken(calls[v])
    BY <1>1, Others DEF NumbersInv
  <1>4. \A v \in Workers' : Loaded(calls[v])' /\ Ahead(calls[v])'
    BY <1>1, <1>3
  <1>5. calls[w].op # "rename" /\ k.op # "rename"
    <2>1. NoCall.op = "none"
      BY DEF NoCall
    <2> QED BY <2>1, CountingFields DEF Free
  <1>6. \A f \in DOMAIN feats : Carried(f)' = Carried(f)
    BY <1>1, <1>5 DEF Carried, InFiles, InCalls, Slugged
  <1>7. ASSUME NEW f \in DOMAIN feats', NEW n \in Carried(f)' PROVE UsedUp(n)'
    <2>1. f \in DOMAIN feats /\ n \in Carried(f) /\ n \in Numbers
      BY <1>6, <1>7, CarriedType
    <2>2. n[3] \in Nat
      BY <2>1 DEF Numbers
    <2> QED BY <2>1, <2>2, UsedUpStays DEF NumbersInv
  <1> DEFINE n == Taken(k)
  <1>8. n[3] = Counter(k.plan) /\ InPlan(n, k.plan)
    BY DEF Taken, InPlan
  <1>9. ASSUME UsedUp(n) PROVE FALSE
    <2>1. n[3] < Counter(k.plan)
      BY <1>8, <1>9, Fresh DEF NumbersInv
    <2> QED BY <1>8, <2>1, CounterType
  <1> HIDE DEF n
  <1>10. \A f \in DOMAIN feats : n \notin Carried(f)
    BY <1>9 DEF NumbersInv
  <1>11. ASSUME NEW v \in Workers, v # w, calls[v] \in Counting PROVE Taken(calls[v]) # n
    <2>1. Does("database") /\ ~Does("move")
      <3>1. rscene \in RecordScenes
        BY DEF Typed, RecordsTypeOK
      <3>2. Workers = {1} => v = w
        OBVIOUS
      <3> QED BY <1>11, <3>1, <3>2, CountingScenes
    <2>2. calls[v].seq < Counter(calls[v].plan) /\ calls[v].plan \in DOMAIN plans
      BY <1>11, <2>1 DEF NumbersInv, Ahead, Typed, PlansFound
    <2>3. calls[v].op # "move"
      BY <1>11, <2>1 DEF NumbersInv, Ahead
    <2> DEFINE m == Taken(calls[v])
    <2>4. InPlan(m, calls[v].plan) /\ m[3] < Counter(calls[v].plan)
      BY <2>2, <2>3 DEF Taken, InPlan
    <2>5. UsedUp(m)
      BY <2>2, <2>4 DEF UsedUp
    <2> HIDE DEF m
    <2> QED BY <1>9, <2>5 DEF m
  <1>12. Taken(k)' = n
    BY DEF Taken, n
  <1>13. NumbersApart'
    <2>1. \A f, g \in DOMAIN feats' : f # g => Carried(f)' \cap Carried(g)' = {}
      BY <1>6 DEF NumbersInv, NumbersApart
    <2>2. \A v \in Workers : calls'[v] \in Counting =>
             \/ v = w /\ Taken(calls[v])' = n
             \/ v # w /\ calls[v] \in Counting /\ Taken(calls[v])' = Taken(calls[v])
      BY <1>1, <1>3, <1>12
    <2>3. \A v \in Workers : calls'[v] \in Counting =>
             /\ \A f \in DOMAIN feats' : Taken(calls[v])' \notin Carried(f)'
             /\ \A u \in Workers : u # v /\ calls'[u] \in Counting =>
                                      Taken(calls[u])' # Taken(calls[v])'
      BY <1>6, <1>10, <1>11, <2>2 DEF NumbersInv, NumbersApart
    <2> QED BY <1>1, <2>1, <2>3 DEF NumbersApart
  <1> QED
    BY <1>2, <1>4, <1>7, <1>13 DEF NumbersInv

(* A feature is given the number that a call has taken for it.              *)
LEMMA NumberGiven ==
    ASSUME NumbersGiven, Typed, Typed', NumbersInv, NumbersCount, CountersGrow,
           NEW w \in Workers, NEW k \in CallRecords, To(w, k), UNCHANGED plans,
           calls[w] \in Counting, calls[w].step = "write", k \notin Counting, Loaded(k)',
           NEW g \in DOMAIN feats',
           Carried(g)' \subseteq (IF g \in DOMAIN feats THEN Carried(g) ELSE {})
                                 \cup {Taken(calls[w])},
           \A f \in DOMAIN feats' : f # g => f \in DOMAIN feats /\ Carried(f)' \subseteq Carried(f)
    PROVE  NumbersInv'
  <1>1. Workers' = Workers /\ calls'[w] = k /\ \A v \in Workers : v # w => calls'[v] = calls[v]
    BY DEF Workers, CountersGrow, To, Typed, RecordsTypeOK
  <1>2. PlansApart'
    BY DEF PlansApart, NumbersInv, CountersGrow, Does
  <1>3. \A v \in Workers : v # w => /\ Loaded(calls[v])' /\ Ahead(calls[v])'
                                    /\ calls[v] \in Counting => Taken(calls[v])' = Taken(calls[v])
    BY <1>1, Others DEF NumbersInv
  <1>4. \A v \in Workers' : Loaded(calls[v])' /\ Ahead(calls[v])'
    BY <1>1, <1>3 DEF Ahead
  <1> DEFINE n == Taken(calls[w])
  <1>5. calls[w].seq < Counter(calls[w].plan) /\ calls[w].plan \in DOMAIN plans
        /\ (calls[w].op = "move" => Does("move")) /\ calls[w].seq \in Nat
    BY CountingFields DEF NumbersInv, Ahead, Typed, PlansFound
  <1>6. UsedUp(n) /\ n[3] \in Nat
    <2>1. InPlan(n, calls[w].plan) /\ n[3] = calls[w].seq
      BY <1>5 DEF Taken, InPlan
    <2> HIDE DEF n
    <2> QED BY <1>5, <2>1 DEF UsedUp
  <1>7. \A f \in DOMAIN feats : n \notin Carried(f)
    BY DEF NumbersInv, NumbersApart
  <1>8. \A v \in Workers : v # w /\ calls[v] \in Counting => Taken(calls[v]) # n
    BY DEF NumbersInv, NumbersApart
  <1> HIDE DEF n
  <1>9. Carried(g)' \subseteq (IF g \in DOMAIN feats THEN Carried(g) ELSE {}) \cup {n}
    BY DEF n
  <1>10. ASSUME NEW f \in DOMAIN feats', NEW m \in Carried(f)' PROVE UsedUp(m)'
    <2>1. CASE m = n
      BY <1>6, <2>1, UsedUpStays
    <2>2. CASE m # n
      <3>1. f \in DOMAIN feats /\ m \in Carried(f)
        BY <1>9, <1>10, <2>2
      <3>2. m \in Numbers
        BY <3>1, CarriedType
      <3>3. m[3] \in Nat
        BY <3>2 DEF Numbers
      <3> QED BY <3>1, <3>3, UsedUpStays DEF NumbersInv
    <2> QED BY <2>1, <2>2
  <1>11. ASSUME NEW f \in DOMAIN feats', NEW h \in DOMAIN feats', f # h
         PROVE  Carried(f)' \cap Carried(h)' = {}
    <2>1. \A a, b \in DOMAIN feats : a # b => Carried(a) \cap Carried(b) = {}
      BY DEF NumbersInv, NumbersApart
    <2>2. CASE f = g
      BY <1>7, <1>9, <1>11, <2>1, <2>2
    <2>3. CASE h = g
      BY <1>7, <1>9, <1>11, <2>1, <2>3
    <2>4. CASE f # g /\ h # g
      BY <1>11, <2>1, <2>4
    <2> QED BY <2>2, <2>3, <2>4
  <1>12. \A v \in Workers : calls'[v] \in Counting =>
            /\ v # w /\ calls[v] \in Counting /\ Taken(calls[v])' = Taken(calls[v])
            /\ Taken(calls[v]) # n
    BY <1>1, <1>3, <1>8
  <1>13. NumbersApart'
    <2>1. ASSUME NEW v \in Workers, calls'[v] \in Counting, NEW f \in DOMAIN feats'
          PROVE  Taken(calls[v])' \notin Carried(f)'
      <3>1. \A a \in DOMAIN feats : Taken(calls[v]) \notin Carried(a)
        BY <1>12, <2>1 DEF NumbersInv, NumbersApart
      <3>2. Taken(calls[v])' = Taken(calls[v]) /\ Taken(calls[v]) # n
        BY <1>12, <2>1
      <3>3. CASE f = g
        BY <1>9, <3>1, <3>2, <3>3
      <3>4. CASE f # g
        BY <3>1, <3>2, <3>4
      <3> QED BY <3>3, <3>4
    <2>2. \A v, u \in Workers : calls'[v] \in Counting /\ u # v /\ calls'[u] \in Counting =>
             Taken(calls[u])' # Taken(calls[v])'
      BY <1>12 DEF NumbersInv, NumbersApart
    <2> QED BY <1>1, <1>11, <2>1, <2>2 DEF NumbersApart
  <1> QED
    BY <1>2, <1>4, <1>10, <1>13 DEF NumbersInv

(* The steps in which no number is taken, given or counted: the call that  *)
(* goes on needs none, and what is in the files of a feature was so before, *)
(* or in a rename.                                                         *)
LEMMA QuietNumbers ==
    ASSUME NumbersGiven, Typed, Typed', NumbersInv, NumbersCount,
           NEW w \in Workers, NEW k, To(w, k), k \notin Counting, Loaded(k),
           UNCHANGED <<rscene, plans, seqdb>>, DOMAIN feats' = DOMAIN feats,
           k.op = "rename" => k.c.number \in Carried(k.f),
           \A f \in DOMAIN feats : InFiles(f)' \subseteq Carried(f)
    PROVE  NumbersInv'
  <1>1. Workers' = Workers /\ calls'[w] = k /\ \A v \in Workers : v # w => calls'[v] = calls[v]
    BY DEF Workers, To, Typed, RecordsTypeOK
  <1>2. k \in CallRecords
    BY <1>1 DEF Typed, RecordsTypeOK
  <1>3. \A p \in DOMAIN plans : Counter(p)' = Counter(p) /\ Counter(p) \in Nat
    BY CounterType DEF Counter, AllocateFeatureSeq, Allocated, Does
  <1>4. CountersGrow
    BY <1>3 DEF CountersGrow
  <1>5. Loaded(k)' /\ Ahead(k)'
    BY DEF Loaded, Ahead, Does
  <1>6. ASSUME NEW f \in DOMAIN feats, NEW v \in Workers, calls'[v].op = "rename", calls'[v].f = f
        PROVE  calls'[v].c.number \in Carried(f)
    <2>1. CASE v = w
      BY <1>1, <1>6, <2>1
    <2>2. CASE v # w
      BY <1>1, <1>6, <2>2 DEF Carried, InCalls
    <2> QED BY <2>1, <2>2
  <1>7. \A f \in DOMAIN feats : Carried(f)' \subseteq Carried(f)
    <2>1. \A f \in DOMAIN feats : InCalls(f)' \subseteq Carried(f)
      BY <1>1, <1>6 DEF InCalls
    <2> QED BY <2>1 DEF Carried
  <1> QED
    BY <1>2, <1>4, <1>5, <1>7, NumbersKept

(* A call under this name has nothing to do with numbers. *)
LEMMA Light ==
    ASSUME NEW k, k.op \notin {"create", "move", "save", "plan", "rename"}
    PROVE  k \notin Counting /\ Loaded(k)
  <1>1. k \notin Counting
    BY CountingFields
  <1> QED
    BY <1>1 DEF Loaded

LEMMA LightNumbers ==
    ASSUME NumbersGiven, Typed, Typed', NumbersInv, NumbersCount,
           NEW w \in Workers, NEW k, To(w, k),
           k.op \notin {"create", "move", "save", "plan", "rename"},
           UNCHANGED <<rscene, plans, seqdb>>, DOMAIN feats' = DOMAIN feats,
           \A f \in DOMAIN feats : InFiles(f)' \subseteq Carried(f)
    PROVE  NumbersInv'
  BY QuietNumbers, Light

(* One file of a feature is written. *)
(* One file of a feature is written, perhaps with its row. *)
FileWritten(f, s, c) ==
    \/ feats' = WithFile(f, s, c)
    \/ \E x : feats' = [feats EXCEPT ![f].file[s] = c, ![f].row = x]

LEMMA FileIs ==
    ASSUME Typed, NEW f, NEW s \in Slugs, NEW c, FileWritten(f, s, c)
    PROVE  /\ DOMAIN feats' = DOMAIN feats
           /\ \A g \in DOMAIN feats : \A t \in Slugs :
                 /\ g = f /\ t = s => feats'[g].file[t] = c
                 /\ ~(g = f /\ t = s) => feats'[g].file[t] = feats[g].file[t]
  <1>1. DOMAIN feats' = DOMAIN feats
    BY DEF FileWritten, WithFile
  <1>2. ASSUME NEW g \in DOMAIN feats, NEW t \in Slugs
        PROVE  feats'[g].file[t] = IF g = f /\ t = s THEN c ELSE feats[g].file[t]
    <2>1. feats[g] \in FeatureRecords
      BY DEF Typed, RecordsTypeOK
    <2>2. feats[g].file \in [Slugs -> Contents \cup {NoFile}]
          /\ feats[g] = [file |-> feats[g].file, row |-> feats[g].row]
      BY <2>1 DEF FeatureRecords
    <2>3. CASE g # f
      BY <2>3 DEF FileWritten, WithFile
    <2>4. CASE g = f /\ feats' = WithFile(f, s, c)
      <3>1. feats'[g] = [feats[g] EXCEPT !.file = [feats[g].file EXCEPT ![s] = c]]
        BY <2>4 DEF WithFile
      <3> QED BY <2>2, <2>4, <3>1
    <2>5. ASSUME g = f, NEW x, feats' = [feats EXCEPT ![f].file[s] = c, ![f].row = x]
          PROVE  feats'[g].file[t] = IF t = s THEN c ELSE feats[g].file[t]
      <3>1. feats'[g] = [feats[g] EXCEPT !.file = [feats[g].file EXCEPT ![s] = c], !.row = x]
        BY <2>5
      <3> QED BY <2>2, <3>1
    <2> QED BY <2>3, <2>4, <2>5 DEF FileWritten
  <1> QED
    BY <1>1, <1>2

LEMMA FileNumbers ==
    ASSUME Typed, NEW f, NEW s \in Slugs, NEW c, FileWritten(f, s, c)
    PROVE  /\ DOMAIN feats' = DOMAIN feats
           /\ \A g \in DOMAIN feats : \A n \in InFiles(g)' :
                 n \in InFiles(g) \/ (g = f /\ c # NoFile /\ n = c.number)
  <1>0. DOMAIN feats' = DOMAIN feats
    BY FileIs
  <1>1. \A g \in DOMAIN feats : \A t \in Slugs :
           /\ g = f /\ t = s => feats'[g].file[t] = c
           /\ ~(g = f /\ t = s) => feats'[g].file[t] = feats[g].file[t]
    BY FileIs
  <1>2. ASSUME NEW g \in DOMAIN feats, NEW n \in InFiles(g)'
        PROVE  n \in InFiles(g) \/ (g = f /\ c # NoFile /\ n = c.number)
    <2>1. PICK t \in Slugs : feats'[g].file[t] # NoFile /\ n = feats'[g].file[t].number
      BY DEF InFiles, Slugged
    <2> QED BY <1>1, <2>1 DEF InFiles, Slugged
  <1> QED
    BY <1>0, <1>2

(* Writing what is there, but for its number, or what a rename has loaded. *)
LEMMA WriteNumbers ==
    ASSUME NumbersGiven, Typed, Typed', NumbersInv, NumbersCount,
           NEW w \in Workers, NEW k, To(w, k), k \notin Counting, Loaded(k),
           k.op = "rename" => k.c.number \in Carried(k.f),
           UNCHANGED <<rscene, plans, seqdb>>,
           NEW f, NEW s \in Slugs, NEW c,
           \/ feats' = WithFile(f, s, c)
           \/ \E x : feats' = [feats EXCEPT ![f].file[s] = c, ![f].row = x],
           f \in DOMAIN feats /\ c # NoFile => c.number \in Carried(f)
    PROVE  NumbersInv'
  <1>1. /\ DOMAIN feats' = DOMAIN feats
        /\ \A g \in DOMAIN feats : \A n \in InFiles(g)' :
              n \in InFiles(g) \/ (g = f /\ c # NoFile /\ n = c.number)
    <2>1. FileWritten(f, s, c)
      BY DEF FileWritten
    <2> QED BY <2>1, FileNumbers
  <1>2. \A g \in DOMAIN feats : InFiles(g)' \subseteq Carried(g)
    BY <1>1 DEF Carried
  <1> QED
    BY <1>1, <1>2, QuietNumbers

LEMMA SameFiles ==
    ASSUME UNCHANGED feats
    PROVE  /\ DOMAIN feats' = DOMAIN feats
           /\ \A f \in DOMAIN feats : InFiles(f)' \subseteq Carried(f)
  BY DEF InFiles, Carried, Slugged

(* The calls that name no other number than the one in the file they write. *)
LEMMA NumberOfFile ==
    ASSUME Typed, NEW f \in DOMAIN feats, NEW s \in Slugs, feats[f].file[s] # NoFile
    PROVE  /\ feats[f].file[s] \in Contents /\ feats[f].file[s].number \in Carried(f)
           /\ \A st : [feats[f].file[s] EXCEPT !.st = st].number = feats[f].file[s].number
           /\ \A n : [feats[f].file[s] EXCEPT !.overrides = n].number = feats[f].file[s].number
           /\ \A b : [feats[f].file[s] EXCEPT !.blocked = b].number = feats[f].file[s].number
           /\ [feats[f].file[s] EXCEPT !.cycle = @ + 1].number = feats[f].file[s].number
  <1>1. feats[f].file[s] \in Contents
    BY FileThere DEF Typed, RecordsTypeOK, Slugged
  <1>2. feats[f].file[s].number \in Carried(f)
    BY DEF Carried, InFiles, Slugged
  <1> DEFINE c == feats[f].file[s]
  <1>3. c \in Contents
    BY <1>1
  <1> HIDE DEF c
  <1>4. /\ \A st : [c EXCEPT !.st = st].number = c.number
        /\ \A n : [c EXCEPT !.overrides = n].number = c.number
        /\ \A b : [c EXCEPT !.blocked = b].number = c.number
        /\ [c EXCEPT !.cycle = @ + 1].number = c.number
    BY <1>3 DEF Contents
  <1> QED
    BY <1>1, <1>2, <1>4 DEF c

LEMMA BeginNumbers ==
    ASSUME NumbersGiven, Typed, Typed', NumbersInv, NumbersCount, NEW w \in Workers,
           \/ \E f \in DOMAIN feats : \E s \in Located(f) :
                 \/ \E t \in Slugs : RenameBegins(w, f, s, t)
                 \/ \E to : Transitioned(w, f, s, to)
                 \/ OverrideBegins(w, f, s)
                 \/ ReviewCapReached(w, f, s)
           \/ \E t \in DOMAIN tasks : CompleteTask(w, t)
           \/ \E k \in DOMAIN checkpoints : RespondCheckpoint(w, k)
    PROVE  NumbersInv'
  <1>a. feats \in Seq(FeatureRecords) /\ calls \in [Workers -> CallRecords]
    BY DEF Typed, RecordsTypeOK
  <1>b. \A f \in DOMAIN feats : \A s \in Located(f) : s \in Slugs /\ feats[f].file[s] # NoFile
    BY <1>a, FileThere DEF Slugged
  <1>c. ASSUME Free(w), UNCHANGED calls PROVE To(w, NoCall) /\ NoCall.op = "none"
    BY <1>a, <1>c DEF Free, To, NoCall
  <1>1. ASSUME NEW f \in DOMAIN feats, NEW s \in Located(f), NEW t \in Slugs,
               RenameBegins(w, f, s, t)
        PROVE  NumbersInv'
    <2> DEFINE k == [op |-> "rename", step |-> "write", f |-> f, from |-> s, to |-> t,
                     c |-> feats[f].file[s]]
    <2>1. To(w, k) /\ UNCHANGED <<rscene, plans, feats, seqdb>>
      BY <1>1 DEF RenameBegins
    <2>2. k.op = "rename" /\ k.f = f /\ k.c = feats[f].file[s]
      OBVIOUS
    <2> HIDE DEF k
    <2>3. k \notin Counting /\ Loaded(k)
      BY <2>2, CountingFields DEF Loaded
    <2>4. k.c.number \in Carried(k.f)
      BY <1>b, <2>2, NumberOfFile
    <2> QED BY <2>1, <2>3, <2>4, SameFiles, QuietNumbers
  <1>2. ASSUME NEW f \in DOMAIN feats, NEW s \in Located(f), NEW to, Transitioned(w, f, s, to)
        PROVE  NumbersInv'
    <2> DEFINE c == [feats[f].file[s] EXCEPT !.st = to]
               k == [op |-> "count", f |-> f]
    <2>1. c.number \in Carried(f)
      BY <1>b, NumberOfFile
    <2>2. feats' = WithRow(f, s, c) /\ UNCHANGED <<rscene, plans, seqdb>>
      BY <1>2 DEF Transitioned
    <2>3. PICK m : To(w, m) /\ (m = k \/ m.op = "none")
      BY <1>2, <1>c DEF Transitioned
    <2>4. m.op \in {"count", "none"}
      BY <2>3
    <2> HIDE DEF c, k
    <2>5. m \notin Counting /\ Loaded(m)
      BY <2>4, Light
    <2> QED BY <1>b, <2>1, <2>2, <2>3, <2>4, <2>5, WriteNumbers DEF WithRow
  <1>3. ASSUME NEW f \in DOMAIN feats, NEW s \in Located(f), OverrideBegins(w, f, s)
        PROVE  NumbersInv'
    <2> DEFINE k == [op |-> "override", f |-> f, slug |-> s, list |-> feats[f].file[s].overrides + 1]
    <2>1. To(w, k) /\ UNCHANGED <<rscene, plans, feats, seqdb>> /\ k.op = "override"
      BY <1>3 DEF OverrideBegins
    <2> HIDE DEF k
    <2> QED BY <2>1, SameFiles, LightNumbers
  <1>4. ASSUME NEW f \in DOMAIN feats, NEW s \in Located(f), ReviewCapReached(w, f, s)
        PROVE  NumbersInv'
    <2> DEFINE c == [feats[f].file[s] EXCEPT !.blocked = TRUE]
               k == [op |-> "ask", asks |-> 0]
    <2>1. c.number \in Carried(f)
      BY <1>b, NumberOfFile
    <2>2. feats' = WithFile(f, s, c) /\ To(w, k) /\ UNCHANGED <<rscene, plans, seqdb>>
          /\ k.op = "ask"
      BY <1>4 DEF ReviewCapReached
    <2> HIDE DEF c, k
    <2>3. k \notin Counting /\ Loaded(k)
      BY <2>2, Light
    <2> QED BY <1>b, <2>1, <2>2, <2>3, WriteNumbers
  <1>5. ASSUME NEW t \in DOMAIN tasks, CompleteTask(w, t) PROVE NumbersInv'
    <2> DEFINE k == [op |-> "summary", t |-> t]
    <2>1. To(w, k) /\ UNCHANGED <<rscene, plans, feats, seqdb>> /\ k.op = "summary"
      BY <1>5 DEF CompleteTask
    <2> HIDE DEF k
    <2> QED BY <2>1, SameFiles, LightNumbers
  <1>6. ASSUME NEW j \in DOMAIN checkpoints, RespondCheckpoint(w, j) PROVE NumbersInv'
    <2> DEFINE u == [op |-> "unblock", f |-> checkpoints[j].feature]
    <2>1. UNCHANGED <<rscene, plans, feats, seqdb>>
      BY <1>6 DEF RespondCheckpoint
    <2>2. PICK k : To(w, k) /\ (k = u \/ k.op = "none")
      BY <1>6, <1>c DEF RespondCheckpoint
    <2>3. k.op \in {"unblock", "none"}
      BY <2>2
    <2> HIDE DEF u
    <2> QED BY <2>1, <2>2, <2>3, SameFiles, LightNumbers
  <1> QED
    BY <1>1, <1>2, <1>3, <1>4, <1>5, <1>6

LEMMA GoOnNumbers ==
    ASSUME NumbersGiven, Typed, Typed', NumbersInv, NumbersCount, NEW w \in Workers,
           \/ RenameWrites(w) \/ RenameRemoves(w) \/ IncrementFeatureReviewCycle(w)
           \/ PersistFeatureOverrides(w) \/ ClearBlockedReason(w) \/ CompletionWritten(w)
           \/ CheckpointCreated(w) \/ RecordsCrash(w) \/ FeatureRefused(w) \/ FeatureCached(w)
    PROVE  NumbersInv'
  <1>a. feats \in Seq(FeatureRecords) /\ calls[w] \in CallRecords
    BY DEF Typed, RecordsTypeOK
  <1>b. NoCall.op = "none"
    BY DEF NoCall
  <1>c. NoCall \notin Counting /\ Loaded(NoCall)
    BY <1>b, Light
  <1>d. \A f \in DOMAIN feats : \A s \in ResolvePrefix(f) : s \in Slugs /\ feats[f].file[s] # NoFile
    BY <1>a, FileThere DEF Slugged
  <1>1. CASE RenameWrites(w)
    <2> DEFINE k == calls[w]
               m == [k EXCEPT !.step = "remove"]
               f == k.f
               t == k.to
               c == k.c
    <2>1. k.op = "rename" /\ t \in Slugs
          /\ k \in [op : {"rename"}, step : {"write", "remove"}, f : Nat, from : Slugs,
                    to : Slugs, c : Contents]
      BY <1>a, <1>1, CallShapes DEF RenameWrites
    <2>2. f \in DOMAIN feats /\ c.number \in Carried(f)
      BY <2>1 DEF NumbersInv, Loaded, Carried, InCalls
    <2>3. CASE Over(w) /\ UNCHANGED feats
      BY <1>1, <1>b, <2>3, SameFiles, LightNumbers DEF RenameWrites, Over
    <2>4. CASE feats' = WithFile(f, t, c) /\ To(w, m)
      <3>1. m.op = "rename" /\ m.f = f /\ m.c = c
        BY <2>1
      <3>2. UNCHANGED <<rscene, plans, seqdb>>
        BY <1>1 DEF RenameWrites
      <3> HIDE DEF m, f, t, c
      <3>3. m \notin Counting /\ Loaded(m)
        BY <2>2, <3>1, CountingFields DEF Loaded
      <3> QED BY <2>1, <2>2, <2>4, <3>1, <3>2, <3>3, WriteNumbers
    <2> QED BY <1>1, <2>3, <2>4 DEF RenameWrites
  <1>2. CASE RenameRemoves(w)
    <2> DEFINE k == calls[w]
               c == NoFile
    <2>1. k.from \in Slugs
      BY <1>a, <1>2, CallShapes DEF RenameRemoves
    <2>2. feats' = [feats EXCEPT ![k.f].file[k.from] = c,
                                 ![k.f].row = [slug |-> k.to, c |-> k.c]]
          /\ To(w, NoCall) /\ UNCHANGED <<rscene, plans, seqdb>> /\ c = NoFile
      BY <1>2 DEF RenameRemoves, Over
    <2> HIDE DEF c
    <2> QED BY <1>b, <1>c, <2>1, <2>2, WriteNumbers
  <1>3. CASE IncrementFeatureReviewCycle(w)
    <2> DEFINE f == calls[w].f
    <2>1. To(w, NoCall) /\ UNCHANGED <<rscene, plans, seqdb>>
      BY <1>3 DEF IncrementFeatureReviewCycle, Over, Cut
    <2>2. CASE UNCHANGED feats
      BY <1>b, <2>1, <2>2, SameFiles, LightNumbers
    <2>3. ASSUME NEW s \in ResolvePrefix(f), feats' = [feats EXCEPT ![f].file[s].cycle = @ + 1]
          PROVE  NumbersInv'
      <3> DEFINE c == [feats[f].file[s] EXCEPT !.cycle = @ + 1]
      <3>1. feats' = WithFile(f, s, c)
        BY <2>3 DEF WithFile
      <3>2. f \in DOMAIN feats => c.number \in Carried(f)
        BY <1>d, NumberOfFile
      <3>3. s \in Slugs
        BY DEF ResolvePrefix, Slugged
      <3> HIDE DEF c
      <3> QED BY <1>b, <1>c, <2>1, <3>1, <3>2, <3>3, WriteNumbers
    <2> QED BY <1>3, <2>2, <2>3 DEF IncrementFeatureReviewCycle
  <1>4. CASE PersistFeatureOverrides(w)
    <2> DEFINE k == calls[w]
    <2>1. To(w, NoCall) /\ UNCHANGED <<rscene, plans, seqdb>> /\ k.slug \in Slugs
      BY <1>a, <1>4, CallShapes DEF PersistFeatureOverrides, Over, Cut
    <2>2. CASE UNCHANGED feats
      BY <1>b, <2>1, <2>2, SameFiles, LightNumbers
    <2>3. CASE feats[k.f].file[k.slug] # NoFile
      <3> DEFINE c == [feats[k.f].file[k.slug] EXCEPT !.overrides = k.list]
      <3>1. feats' = WithFile(k.f, k.slug, c)
        BY <1>4, <2>3 DEF PersistFeatureOverrides, WithFile
      <3>2. k.f \in DOMAIN feats => c.number \in Carried(k.f)
        BY <2>1, <2>3, NumberOfFile
      <3> HIDE DEF c
      <3> QED BY <1>b, <1>c, <2>1, <3>1, <3>2, WriteNumbers
    <2> QED BY <1>4, <2>2, <2>3 DEF PersistFeatureOverrides
  <1>5. CASE ClearBlockedReason(w)
    <2> DEFINE f == calls[w].f
    <2>1. PICK s \in ResolvePrefix(f) : feats' = [feats EXCEPT ![f].file[s].blocked = FALSE]
      BY <1>5 DEF ClearBlockedReason
    <2>2. To(w, NoCall) /\ UNCHANGED <<rscene, plans, seqdb>>
      BY <1>5 DEF ClearBlockedReason, Over
    <2> DEFINE c == [feats[f].file[s] EXCEPT !.blocked = FALSE]
    <2>3. feats' = WithFile(f, s, c)
      BY <2>1 DEF WithFile
    <2>4. f \in DOMAIN feats => c.number \in Carried(f)
      BY <1>d, NumberOfFile
    <2>5. s \in Slugs
      BY DEF ResolvePrefix, Slugged
    <2> HIDE DEF c
    <2> QED BY <1>b, <1>c, <2>2, <2>3, <2>4, <2>5, WriteNumbers
  <1>6. CASE CompletionWritten(w) \/ CheckpointCreated(w) \/ RecordsCrash(w) \/ FeatureRefused(w)
    <2>1. To(w, NoCall) /\ UNCHANGED <<rscene, plans, feats, seqdb>>
      BY <1>6 DEF CompletionWritten, CheckpointCreated, RecordsCrash, FeatureRefused, Over, Cut
    <2> QED BY <1>b, <2>1, SameFiles, LightNumbers
  <1>7. CASE FeatureCached(w)
    <2> DEFINE f == calls[w].f
               s == calls[w].slug
               c == feats[f].file[s]
    <2>1. s \in Slugs /\ c # NoFile /\ feats' = WithRow(f, s, c) /\ To(w, NoCall)
          /\ UNCHANGED <<rscene, plans, seqdb>>
      BY <1>a, <1>7, CallShapes DEF FeatureCached, Over
    <2>2. f \in DOMAIN feats => c.number \in Carried(f)
      BY <2>1, NumberOfFile
    <2> HIDE DEF c, f, s
    <2> QED BY <1>b, <1>c, <2>1, <2>2, WriteNumbers DEF WithRow
  <1> QED
    BY <1>1, <1>2, <1>3, <1>4, <1>5, <1>6, <1>7

(* Plans that are loaded to be changed or closed, or numbered.              *)
LEMMA SaveNumbers ==
    ASSUME NumbersGiven, Typed, Typed', NumbersInv, NumbersCount, NEW w \in Workers,
           NEW p \in DOMAIN plans, NEW n \in PlanRecords, NEW close \in BOOLEAN,
           To(w, SaveOf(p, n, close)),
           UNCHANGED <<rscene, plans, feats, seqdb>>,
           n.pre = plans[p].pre, n.no = plans[p].no, n.next = plans[p].next
    PROVE  NumbersInv'
  <1> DEFINE k == SaveOf(p, n, close)
  <1>1. k.op = "save" /\ k.plan = p /\ k.new = n /\ k \notin Counting
    BY SaveType DEF Typed, RecordsTypeOK
  <1>2. To(w, k)
    OBVIOUS
  <1> HIDE DEF k
  <1>3. Loaded(k)
    BY <1>1 DEF Loaded
  <1> QED
    BY <1>1, <1>2, <1>3, SameFiles, QuietNumbers

LEMMA PlanNumbers ==
    ASSUME NumbersGiven, Typed, Typed', NumbersInv, NumbersCount, NEW w \in Workers,
           \/ \E p \in DOMAIN plans :
                 \/ UpdatePlan(w, p)
                 \/ \E to : UpdatePlanStatus(w, p, to)
                 \/ \E q \in 0..Len(plans) : UpdateStrategicPlan(w, p, q)
                 \/ MaybeAutoAdvancePlan(w, p)
           \/ PlanCloses(w)
           \/ \E pre \in {"B", "P"}, slug \in rscene.given.slugs : PlanNumbered(w, pre, slug)
    PROVE  NumbersInv'
  <1>a. plans \in Seq(PlanRecords) /\ rscene \in RecordScenes
    BY DEF Typed, RecordsTypeOK
  <1>b. \A p \in DOMAIN plans : plans[p] \in PlanRecords
    BY <1>a
  <1>1. ASSUME NEW p \in DOMAIN plans, UpdatePlan(w, p) PROVE NumbersInv'
    BY <1>1, <1>b, SaveNumbers DEF UpdatePlan, SaveOf
  <1>2. ASSUME NEW p \in DOMAIN plans, NEW to, UpdatePlanStatus(w, p, to) PROVE NumbersInv'
    <2>1. /\ Moved(p, to) \in PlanRecords
          /\ Moved(p, to).pre = plans[p].pre /\ Moved(p, to).no = plans[p].no
          /\ Moved(p, to).next = plans[p].next
      BY <1>a, <1>2, MovedType DEF UpdatePlanStatus
    <2> QED BY <1>2, <2>1, SaveNumbers DEF UpdatePlanStatus, SaveOf
  <1>3. ASSUME NEW p \in DOMAIN plans, NEW q \in 0..Len(plans), UpdateStrategicPlan(w, p, q)
        PROVE  NumbersInv'
    <2>1. \A x \in PlanRecords : LET n == [x EXCEPT !.parent = q] IN
             n \in PlanRecords /\ n.pre = x.pre /\ n.no = x.no /\ n.next = x.next
      <3>1. q \in Nat BY <1>a
      <3> QED BY <3>1 DEF PlanRecords
    <2> DEFINE n == [plans[p] EXCEPT !.parent = q]
    <2>2. n \in PlanRecords /\ n.pre = plans[p].pre /\ n.no = plans[p].no /\ n.next = plans[p].next
      BY <1>b, <2>1
    <2>3. To(w, SaveOf(p, n, FALSE)) /\ UNCHANGED <<rscene, plans, feats, seqdb>>
      BY <1>3 DEF UpdateStrategicPlan, SaveOf
    <2> HIDE DEF n
    <2> QED BY <2>2, <2>3, SaveNumbers
  <1>4. ASSUME NEW p \in DOMAIN plans, MaybeAutoAdvancePlan(w, p) PROVE NumbersInv'
    <2>1. Moved(p, "reviewing") = [plans[p] EXCEPT !.st = "reviewing"]
      BY <1>4, <1>b DEF Moved, PlanRecords, MaybeAutoAdvancePlan
    <2>2. "reviewing" \in KnownStates("batch")
      <3>1. <<"active", "reviewing">> \in BatchEdges BY DEF BatchEdges
      <3>2. AllowedTransitions("batch") = BatchEdges BY DEF AllowedTransitions
      <3> QED BY <3>1, <3>2 DEF KnownStates
    <2>3. \A x \in PlanRecords : LET n == [x EXCEPT !.st = "reviewing"] IN
             n \in PlanRecords /\ n.pre = x.pre /\ n.no = x.no /\ n.next = x.next
      BY <2>2 DEF PlanRecords
    <2> DEFINE n == [plans[p] EXCEPT !.st = "reviewing"]
    <2>4. n \in PlanRecords /\ n.pre = plans[p].pre /\ n.no = plans[p].no /\ n.next = plans[p].next
      BY <1>b, <2>3
    <2>5. To(w, SaveOf(p, n, TRUE)) /\ UNCHANGED <<rscene, plans, feats, seqdb>>
      BY <1>4, <2>1 DEF MaybeAutoAdvancePlan, SaveOf
    <2> HIDE DEF n
    <2> QED BY <2>4, <2>5, SaveNumbers
  <1>5. CASE PlanCloses(w)
    <2> DEFINE p == calls[w].plan
    <2>1. p \in DOMAIN plans /\ UNCHANGED <<rscene, plans, feats, seqdb>>
      BY <1>5 DEF PlanCloses, Typed, PlansFound
    <2>2. CASE PlanMayMove(p, "done")
      <3>1. /\ Moved(p, "done") \in PlanRecords
            /\ Moved(p, "done").pre = plans[p].pre /\ Moved(p, "done").no = plans[p].no
            /\ Moved(p, "done").next = plans[p].next
        BY <1>a, <2>1, <2>2, MovedType
      <3> QED BY <1>5, <2>1, <2>2, <3>1, SaveNumbers DEF PlanCloses, SaveOf
    <2>3. CASE ~PlanMayMove(p, "done")
      <3>1. To(w, NoCall) /\ NoCall.op = "none"
        BY <1>5, <2>3 DEF PlanCloses, Cut, Over, NoCall
      <3> QED BY <2>1, <3>1, SameFiles, LightNumbers
    <2> QED BY <2>2, <2>3
  <1>6. ASSUME NEW pre \in {"B", "P"}, NEW slug \in rscene.given.slugs, PlanNumbered(w, pre, slug)
        PROVE  NumbersInv'
    <2> DEFINE n == NewPlan(pre, NextPlanNumber(pre), slug)
               k == [op |-> "plan", new |-> n]
    <2>1. n.pre = pre /\ n.no = NextPlanNumber(pre)
      BY DEF NewPlan
    <2>2. To(w, k) /\ Does("plan") /\ UNCHANGED <<rscene, plans, feats, seqdb>>
      BY <1>6 DEF PlanNumbered
    <2> HIDE DEF n
    <2>3. k.op = "plan" /\ k.new = n
      OBVIOUS
    <2> HIDE DEF k
    <2>4. k \notin Counting
      BY <2>3, CountingFields
    <2>5. \A q \in DOMAIN plans : plans[q].pre = n.pre => plans[q].no # n.no
      BY <1>a, <2>1, NextNumber
    <2>6. Loaded(k)
      BY <2>2, <2>3, <2>4, <2>5 DEF Loaded
    <2> QED BY <2>2, <2>3, <2>4, <2>6, SameFiles, QuietNumbers
  <1> QED
    BY <1>1, <1>2, <1>3, <1>4, <1>5, <1>6

(* Features that are counted and given their numbers, and plans written.    *)
LEMMA CountNumbers ==
    ASSUME NumbersGiven, Typed, Typed', NumbersInv, NumbersCount, NEW w \in Workers,
           \/ \E p \in DOMAIN plans : FeatureNumbered(w, p)
           \/ \E f \in DOMAIN feats, p \in DOMAIN plans : MoveNumbered(w, f, p)
           \/ ParentCounts(w) \/ PlanSaved(w) \/ PlanCreated(w)
    PROVE  NumbersInv'
  <1>a. /\ plans \in Seq(PlanRecords) /\ rscene \in RecordScenes /\ calls[w] \in CallRecords
        /\ seqdb \in [DOMAIN seqdb -> Nat] /\ plans' \in Seq(PlanRecords)
        /\ \A q \in DOMAIN plans : plans[q].next \in Nat /\ plans[q] \in PlanRecords
    <2>1. plans \in Seq(PlanRecords)
      BY DEF Typed, RecordsTypeOK
    <2>2. \A q \in DOMAIN plans : plans[q] \in PlanRecords
      BY <2>1
    <2>3. \A q \in DOMAIN plans : plans[q].next \in Nat
      BY <2>2 DEF PlanRecords
    <2> QED BY <2>1, <2>2, <2>3 DEF Typed, RecordsTypeOK
  <1>b. /\ ~Does("database") => rscene.workers = 1
        /\ Does("database") => ~Does("move") /\ ~Does("database fails")
        /\ Does("plan") => ~Does("move") /\ rscene.workers = 1
        /\ rscene.workers = 1 => Workers = {1}
    BY <1>a, CountingScenes
  <1>1. ASSUME NEW p \in DOMAIN plans, FeatureNumbered(w, p) PROVE NumbersInv'
    <2>1. PICK seq \in Nat :
              /\ To(w, CountOf(p, seq, [plans[p] EXCEPT !.next = seq + 1]))
              /\ \/ /\ ~Does("database") \/ Does("database fails")
                    /\ seq = plans[p].next /\ UNCHANGED seqdb
                 \/ /\ Does("database")
                    /\ seq = AllocateFeatureSeq(p) /\ seqdb' = Put(seqdb, p, seq)
              /\ [plans[p] EXCEPT !.next = seq + 1] \in PlanRecords
              /\ CountOf(p, seq, [plans[p] EXCEPT !.next = seq + 1]) \in Counting
      BY <1>1, FeatureNumberedIs
    <2> DEFINE n == [plans[p] EXCEPT !.next = seq + 1]
    <2>k. PICK k : k = CountOf(p, seq, n)
      OBVIOUS
    <2>2. UNCHANGED <<rscene, plans, feats>> /\ Free(w)
      BY <1>1 DEF FeatureNumbered
    <2>3. n.pre = plans[p].pre /\ n.no = plans[p].no /\ n.next = seq + 1
      BY <1>a, NextChanged
    <2>4. To(w, k) /\ k \in Counting /\ k.op = "create" /\ k.step = "count" /\ k.plan = p
          /\ k.seq = seq /\ k.new = n
      BY <2>1, <2>k DEF CountOf
    <2> HIDE DEF n
    <2>5. seq = Counter(p)
      BY <1>b, <2>1 DEF Counter
    <2>6. CASE Does("database")
      <3>1. seqdb' = Put(seqdb, p, seq) /\ seq = AllocateFeatureSeq(p)
        BY <1>b, <2>1, <2>6
      <3>2. seqdb'[p] = seq /\ DOMAIN seqdb' = DOMAIN seqdb \cup {p}
            /\ \A q \in DOMAIN seqdb : q # p => seqdb'[q] = seqdb[q]
        BY <1>a, <3>1 DEF Put
      <3>3. Counter(p)' = seq + 1
        BY <2>2, <2>6, <3>2 DEF Counter, AllocateFeatureSeq, Allocated, Does
      <3>4. \A q \in DOMAIN plans : q # p => Counter(q)' = Counter(q)
        BY <2>2, <2>6, <3>2 DEF Counter, AllocateFeatureSeq, Allocated, Does
      <3>5. \A q \in DOMAIN plans : Counter(q) <= Counter(q)'
        <4>1. \A q \in DOMAIN plans : Counter(q) \in Nat
          BY CounterType
        <4> QED BY <2>5, <3>3, <3>4, <4>1
      <3>6. CountersGrow
        BY <2>2, <3>5 DEF CountersGrow
      <3>7. Loaded(k)'
        BY <2>2, <2>3, <2>4 DEF Loaded
      <3>8. k.seq < Counter(k.plan)'
        BY <2>4, <3>3
      <3>9. Ahead(k)'
        BY <2>2, <2>4, <2>6, <3>8 DEF Ahead, Does
      <3> QED BY <2>2, <2>4, <2>5, <3>6, <3>7, <3>9, NumberTaken
    <2>7. CASE ~Does("database")
      <3>1. seqdb' = seqdb /\ seq = plans[p].next
        BY <2>1, <2>7
      <3>2. \A q \in DOMAIN plans : Counter(q)' = Counter(q) /\ Counter(q) \in Nat
        BY <2>2, <3>1, CounterType DEF Counter, AllocateFeatureSeq, Allocated, Does
      <3>3. CountersGrow
        BY <2>2, <3>2 DEF CountersGrow
      <3>4. Loaded(k)'
        BY <2>2, <2>3, <2>4 DEF Loaded
      <3>5. Ahead(k)'
        BY <2>2, <2>3, <2>4, <2>7, <3>1 DEF Ahead, Does
      <3> QED BY <2>2, <2>4, <2>5, <3>3, <3>4, <3>5, NumberTaken
    <2> QED BY <2>6, <2>7
  <1>2. ASSUME NEW f \in DOMAIN feats, NEW p \in DOMAIN plans, MoveNumbered(w, f, p)
        PROVE  NumbersInv'
    <2> DEFINE n == [plans[p] EXCEPT !.next = plans[p].next + 1]
    <2>1. PICK s \in Slugged(f) :
             /\ To(w, MoveOf(p, plans[p].next, n, f, s)) /\ n \in PlanRecords
             /\ MoveOf(p, plans[p].next, n, f, s) \in Counting
             /\ UNCHANGED <<rscene, plans, feats, seqdb>>
      BY <1>2, MoveNumberedIs
    <2>k. PICK k : k = MoveOf(p, plans[p].next, n, f, s)
      OBVIOUS
    <2>2. Free(w) /\ Does("move")
      BY <1>2 DEF MoveNumbered
    <2>3. n.pre = plans[p].pre /\ n.no = plans[p].no /\ n.next = plans[p].next + 1
      BY <1>a, NextChanged
    <2>4. To(w, k) /\ k \in Counting /\ k.op = "move" /\ k.step = "count" /\ k.plan = p
          /\ k.seq = plans[p].next /\ k.new = n
      BY <2>1, <2>k DEF MoveOf
    <2> HIDE DEF n
    <2>5. ~Does("database") /\ k.seq = Counter(k.plan)
      BY <1>b, <2>2, <2>4 DEF Counter
    <2>6. \A q \in DOMAIN plans : Counter(q)' = Counter(q) /\ Counter(q) \in Nat
      BY <2>1, CounterType DEF Counter, AllocateFeatureSeq, Allocated, Does
    <2>7. CountersGrow
      BY <2>1, <2>6 DEF CountersGrow
    <2>8. Loaded(k)'
      BY <2>1, <2>3, <2>4 DEF Loaded
    <2>9. Ahead(k)'
      BY <2>1, <2>2, <2>3, <2>4, <2>5 DEF Ahead, Does
    <2> QED BY <2>1, <2>2, <2>4, <2>5, <2>7, <2>8, <2>9, NumberTaken
  <1>3. CASE ParentCounts(w)
    <2>k. PICK k, m : k = calls[w] /\ m = [k EXCEPT !.step = "write"]
      OBVIOUS
    <2>1. k \in Counting /\ k.step = "count" /\ plans' = [plans EXCEPT ![k.plan] = k.new]
          /\ To(w, m) /\ UNCHANGED <<rscene, feats, seqdb>>
      BY <1>a, <1>3, <2>k, CallShapes DEF ParentCounts
    <2>2. m \in Counting /\ k.new \in PlanRecords /\ k.seq \in Nat
      BY <2>1, <2>k, CountingFields
    <2>3. m.op = k.op /\ m.step = "write" /\ m.plan = k.plan /\ m.seq = k.seq /\ m.new = k.new
      BY <2>1, <2>k DEF Counting
    <2>4. k.plan \in DOMAIN plans
      BY <2>1, <2>k DEF Typed, PlansFound
    <2>5. DOMAIN plans' = DOMAIN plans /\ plans'[k.plan] = k.new
          /\ \A q \in DOMAIN plans : q # k.plan => plans'[q] = plans[q]
      BY <1>a, <2>1, <2>4
    <2>6. k.new.pre = plans[k.plan].pre /\ k.new.no = plans[k.plan].no
      BY <2>1, <2>k DEF NumbersInv, Loaded
    <2>7. Does("database") => /\ k.seq < Counter(k.plan)
                              /\ \A q \in DOMAIN plans : Counter(q)' = Counter(q)
      BY <2>1, <2>k DEF NumbersInv, Ahead, Counter, AllocateFeatureSeq, Allocated, Does
    <2>8. ~Does("database") => /\ k.seq = Counter(k.plan) /\ Counter(k.plan)' = k.seq + 1
                               /\ \A q \in DOMAIN plans : q # k.plan => Counter(q)' = Counter(q)
      BY <2>1, <2>5, <2>k DEF NumbersInv, Ahead, Counter, Does
    <2>9. \A q \in DOMAIN plans : Counter(q) \in Nat
      BY CounterType
    <2>10. CountersGrow
      <3>1. \A q \in DOMAIN plans : Counter(q) <= Counter(q)'
        <4>1. CASE Does("database")
          BY <2>7, <2>9, <4>1
        <4>2. CASE ~Does("database")
          BY <2>2, <2>8, <2>9, <4>2
        <4> QED BY <4>1, <4>2
      <3>2. \A q \in DOMAIN plans : plans'[q].pre = plans[q].pre /\ plans'[q].no = plans[q].no
        BY <2>5, <2>6
      <3> QED BY <2>1, <2>5, <3>1, <3>2 DEF CountersGrow
    <2>11. k.seq < Counter(k.plan)'
      <3>1. CASE Does("database")
        BY <2>4, <2>7, <3>1
      <3>2. CASE ~Does("database")
        BY <2>2, <2>8, <3>2
      <3> QED BY <3>1, <3>2
    <2>12. k.op = "move" => Does("move")
      BY <2>1, <2>k DEF NumbersInv, Ahead
    <2>13. Ahead(m)'
      BY <2>1, <2>3, <2>11, <2>12 DEF Ahead, Does
    <2>14. Loaded(m)'
      <3>1. m.op \in {"create", "move"}
        BY <2>2, CountingFields
      <3> QED BY <2>3, <2>5, <3>1 DEF Loaded
    <2>15. Taken(m)' = Taken(k)
      BY <2>3, <2>5, <2>6 DEF Taken
    <2>16. \A f \in DOMAIN feats : Carried(f)' \subseteq Carried(f)
      <3>1. Workers' = Workers /\ calls'[w] = m /\ \A v \in Workers : v # w => calls'[v] = calls[v]
        BY <2>1 DEF Workers, To, Typed, RecordsTypeOK
      <3>2. m.op # "rename"
        BY <2>2, CountingFields
      <3> QED BY <2>1, <3>1, <3>2 DEF Carried, InFiles, InCalls, Slugged
    <2>17. m \in CallRecords
      BY <2>2 DEF CallRecords
    <2> QED BY <2>k, <2>1, <2>2, <2>5, <2>10, <2>13, <2>14, <2>15, <2>16, <2>17, NumbersKept
  <1>4. CASE PlanSaved(w)
    <2> DEFINE k == calls[w]
               c == [op |-> "close", plan |-> k.plan]
    <2>1. k.op = "save" /\ k \in [op : {"save"}, plan : Nat, new : PlanRecords, close : BOOLEAN]
          /\ plans' = [plans EXCEPT ![k.plan] = k.new] /\ UNCHANGED <<rscene, feats, seqdb>>
      BY <1>a, <1>4, CallShapes DEF PlanSaved
    <2>2. k.plan \in DOMAIN plans
      BY <2>1 DEF Typed, PlansFound
    <2>3. DOMAIN plans' = DOMAIN plans /\ plans'[k.plan] = k.new
          /\ \A q \in DOMAIN plans : q # k.plan => plans'[q] = plans[q]
      BY <1>a, <2>1, <2>2
    <2>4. k.new.pre = plans[k.plan].pre /\ k.new.no = plans[k.plan].no
          /\ (rscene.workers = 1 => k.new.next = plans[k.plan].next)
      BY <2>1 DEF NumbersInv, Loaded
    <2>5. \A q \in DOMAIN plans : Counter(q)' = Counter(q) /\ Counter(q) \in Nat
      <3>1. CASE Does("database")
        BY <2>1, <3>1, CounterType DEF Counter, AllocateFeatureSeq, Allocated, Does
      <3>2. CASE ~Does("database")
        BY <1>b, <2>1, <2>3, <2>4, <3>2, CounterType DEF Counter, Does
      <3> QED BY <3>1, <3>2
    <2>6. CountersGrow
      BY <2>1, <2>3, <2>4, <2>5 DEF CountersGrow
    <2>7. PICK m : To(w, m) /\ (m = NoCall \/ m = c)
      BY <1>4 DEF PlanSaved, Over
    <2>8. m.op \in {"none", "close"}
      BY <2>7 DEF NoCall
    <2> HIDE DEF c
    <2>9. m \notin Counting
      BY <2>8, CountingFields
    <2>10. Loaded(m)' /\ Ahead(m)'
      BY <2>8, <2>9 DEF Loaded, Ahead
    <2>11. Workers' = Workers /\ calls'[w] = m /\ \A v \in Workers : v # w => calls'[v] = calls[v]
      BY <2>1, <2>7 DEF Workers, To, Typed, RecordsTypeOK
    <2>12. \A f \in DOMAIN feats : Carried(f)' \subseteq Carried(f)
      BY <2>1, <2>8, <2>11 DEF Carried, InFiles, InCalls, Slugged
    <2>13. m \in CallRecords
      BY <2>11 DEF Typed, RecordsTypeOK
    <2> QED BY <2>1, <2>3, <2>6, <2>7, <2>9, <2>10, <2>12, <2>13, NumbersKept
  <1>5. CASE PlanCreated(w)
    <2> DEFINE n == calls[w].new
               same == {p \in DOMAIN plans : plans[p].pre = n.pre /\ plans[p].no = n.no
                                             /\ plans[p].slug = n.slug}
    <2>1. calls[w].op = "plan" /\ n \in PlanRecords /\ To(w, NoCall)
          /\ UNCHANGED <<rscene, feats, seqdb>>
      BY <1>a, <1>5, CallShapes DEF PlanCreated, Over
    <2>2. Does("plan") /\ \A p \in DOMAIN plans : plans[p].pre = n.pre => plans[p].no # n.no
      BY <2>1 DEF NumbersInv, Loaded
    <2>3. plans' = IF same = {} THEN Append(plans, n)
                   ELSE [p \in DOMAIN plans |-> IF p \in same THEN n ELSE plans[p]]
      BY <1>5 DEF PlanCreated
    <2>4. same = {}
      BY <2>2
    <2> HIDE DEF same, n
    <2>5. DOMAIN plans' = DOMAIN plans \cup {Len(plans) + 1} /\ plans'[Len(plans) + 1] = n
          /\ \A p \in DOMAIN plans : plans'[p] = plans[p] /\ p # Len(plans) + 1
      BY <1>a, <2>1, <2>3, <2>4
    <2>6. ~Does("move")
      BY <1>b, <2>2
    <2>7. PlansApart'
      BY <2>1, <2>2, <2>5, <2>6 DEF PlansApart, NumbersInv, Does
    <2>8. \A q \in DOMAIN plans : Counter(q)' = Counter(q) /\ Counter(q) \in Nat
      BY <2>1, <2>5, CounterType DEF Counter, AllocateFeatureSeq, Allocated, Does
    <2>9. CountersGrow
      BY <2>1, <2>5, <2>8 DEF CountersGrow
    <2>10. NoCall.op = "none" /\ NoCall \notin Counting
      <3>1. NoCall.op = "none" BY DEF NoCall
      <3> QED BY <3>1, CountingFields
    <2>11. Loaded(NoCall)' /\ Ahead(NoCall)'
      BY <2>10 DEF Loaded, Ahead
    <2>12. Workers' = Workers /\ calls'[w] = NoCall
           /\ \A v \in Workers : v # w => calls'[v] = calls[v]
      BY <2>1 DEF Workers, To, Typed, RecordsTypeOK
    <2>13. \A f \in DOMAIN feats : Carried(f)' \subseteq Carried(f)
      BY <2>1, <2>10, <2>12 DEF Carried, InFiles, InCalls, Slugged
    <2>14. NoCall \in CallRecords
      BY DEF CallRecords
    <2> QED BY <2>1, <2>7, <2>9, <2>10, <2>11, <2>13, <2>14, NumbersKept
  <1> QED
    BY <1>1, <1>2, <1>3, <1>4, <1>5

(* Features that get the number a call has for them. *)
LEMMA GiveNumbers ==
    ASSUME NumbersGiven, Typed, Typed', NumbersInv, NumbersCount, NEW w \in Workers,
           (\E s \in rscene.given.slugs : FeatureWritten(w, s)) \/ FeatureReparented(w)
    PROVE  NumbersInv'
  <1>a. feats \in Seq(FeatureRecords) /\ calls[w] \in CallRecords /\ rscene \in RecordScenes
    BY DEF Typed, RecordsTypeOK
  <1>b. \A q \in DOMAIN plans : Counter(q) \in Nat
    BY CounterType
  <1>c. ASSUME UNCHANGED <<rscene, plans, seqdb>>, DOMAIN feats \subseteq DOMAIN feats'
        PROVE  CountersGrow
    <2>1. \A q \in DOMAIN plans : Counter(q)' = Counter(q)
      BY <1>c DEF Counter, AllocateFeatureSeq, Allocated, Does
    <2> QED BY <1>b, <1>c, <2>1 DEF CountersGrow
  <1>1. ASSUME NEW s \in rscene.given.slugs, FeatureWritten(w, s) PROVE NumbersInv'
    <2>g. PICK g : g = Len(feats) + 1
      OBVIOUS
    <2> DEFINE c == NewFeature(calls[w].plan,
                        <<plans[calls[w].plan].pre, plans[calls[w].plan].no, calls[w].seq>>)
               e == [file |-> [t \in Slugs |-> IF t = s THEN c ELSE NoFile],
                     row |-> [slug |-> "none"]]
    <2>1. calls[w] \in Counting /\ calls[w].step = "write" /\ calls[w].op = "create"
          /\ feats' = Append(feats, e)
          /\ To(w, [op |-> "create", step |-> "row", f |-> g, slug |-> s])
          /\ UNCHANGED <<rscene, plans, seqdb>>
      BY <1>a, <1>1, <2>g, CallShapes DEF FeatureWritten
    <2>2. PICK k : k = [op |-> "create", step |-> "row", f |-> g, slug |-> s]
      OBVIOUS
    <2>3. k.op = "create" /\ k.step = "row" /\ To(w, k)
      BY <2>1, <2>2
    <2>4. k \notin Counting
      BY <2>3, CountingFields
    <2>5. c.number = Taken(calls[w])
      BY <2>1 DEF NewFeature, Taken
    <2>6. \A t \in Slugs : e.file[t] # NoFile => e.file[t].number = c.number
      OBVIOUS
    <2> HIDE DEF c, e
    <2>7. DOMAIN feats' = DOMAIN feats \cup {g} /\ g \notin DOMAIN feats /\ feats'[g] = e
          /\ \A f \in DOMAIN feats : feats'[f] = feats[f]
      BY <1>a, <2>g, <2>1
    <2>8. Workers' = Workers /\ calls'[w] = k /\ \A v \in Workers : v # w => calls'[v] = calls[v]
      BY <2>1, <2>3 DEF Workers, To, Typed, RecordsTypeOK
    <2>9. Loaded(k)'
      BY <2>3, <2>4 DEF Loaded
    <2>10. \A f \in DOMAIN feats : Carried(f)' \subseteq Carried(f)
      BY <2>3, <2>7, <2>8 DEF Carried, InFiles, InCalls, Slugged
    <2>11. \A n \in Carried(g)' : n = Taken(calls[w])
      <3>1. \A n \in InFiles(g)' : n = Taken(calls[w])
        BY <2>5, <2>6, <2>7 DEF InFiles, Slugged
      <3>2. \A v \in Workers : calls[v].op = "rename" => calls[v].f \in DOMAIN feats
        BY DEF NumbersInv, Loaded
      <3>3. \A v \in Workers : ~(calls'[v].op = "rename" /\ calls'[v].f = g)
        BY <2>3, <2>7, <2>8, <3>2
      <3>4. \A n : n \notin InCalls(g)'
        BY <2>8, <3>3 DEF InCalls
      <3> QED BY <3>1, <3>4 DEF Carried
    <2>12. \A f \in DOMAIN feats' : f # g => f \in DOMAIN feats /\ Carried(f)' \subseteq Carried(f)
      BY <2>7, <2>10
    <2>13. CountersGrow
      BY <1>c, <2>1, <2>7
    <2>14. k \in CallRecords
      BY <2>8 DEF Typed, RecordsTypeOK
    <2> QED
      BY <2>1, <2>3, <2>4, <2>7, <2>9, <2>11, <2>12, <2>13, <2>14, NumberGiven
  <1>2. CASE FeatureReparented(w)
    <2>1. PICK f, s, old : f = calls[w].f /\ s = calls[w].slug /\ old = feats[f].file[s]
      OBVIOUS
    <2> DEFINE n == <<"P", plans[calls[w].plan].no, calls[w].seq>>
               c == [old EXCEPT !.parent = calls[w].plan, !.number = n]
    <2>2. calls[w] \in Counting /\ calls[w].step = "write" /\ calls[w].op = "move" /\ s \in Slugs
          /\ To(w, NoCall) /\ UNCHANGED <<rscene, plans, seqdb>>
      BY <1>a, <1>2, <2>1, CallShapes DEF FeatureReparented, Over, Cut
    <2>3. NoCall.op = "none" /\ NoCall \notin Counting /\ NoCall \in CallRecords
      <3>1. NoCall.op = "none"
        BY DEF NoCall
      <3> QED BY <3>1, CountingFields DEF CallRecords
    <2>4. CASE UNCHANGED feats
      BY <2>2, <2>3, <2>4, SameFiles, LightNumbers
    <2>5. CASE old # NoFile /\ feats' = WithFile(f, s, c)
      <3>1. f \in DOMAIN feats => c.number = Taken(calls[w])
        <4>1. f \in DOMAIN feats => old \in Contents
          BY <2>1, <2>2, <2>5, NumberOfFile
        <4>2. old \in Contents => c.number = n
          <5> HIDE DEF n
          <5> QED BY DEF Contents
        <4>3. n = Taken(calls[w])
          BY <2>2 DEF Taken
        <4> QED BY <4>1, <4>2, <4>3
      <3> HIDE DEF c
      <3>2. /\ DOMAIN feats' = DOMAIN feats
            /\ \A g \in DOMAIN feats : \A m \in InFiles(g)' :
                  m \in InFiles(g) \/ (g = f /\ m = c.number)
        BY <2>2, <2>5, FileNumbers DEF FileWritten
      <3>3. CASE f \notin DOMAIN feats
        <4>1. \A g \in DOMAIN feats : InFiles(g)' \subseteq Carried(g)
          BY <3>2, <3>3 DEF Carried
        <4> QED BY <2>2, <2>3, <3>2, <4>1, LightNumbers
      <3>4. CASE f \in DOMAIN feats
        <4>1. Workers' = Workers /\ calls'[w] = NoCall
              /\ \A v \in Workers : v # w => calls'[v] = calls[v]
          BY <2>2 DEF Workers, To, Typed, RecordsTypeOK
        <4>2. \A g \in DOMAIN feats : InCalls(g)' \subseteq InCalls(g)
          BY <2>3, <4>1 DEF InCalls
        <4>3. \A g \in DOMAIN feats' : g # f => g \in DOMAIN feats /\ Carried(g)' \subseteq Carried(g)
          BY <3>2, <4>2 DEF Carried
        <4>4. Carried(f)' \subseteq Carried(f) \cup {Taken(calls[w])}
          BY <3>1, <3>2, <3>4, <4>2 DEF Carried
        <4>5. CountersGrow
          BY <1>c, <2>2, <3>2
        <4>6. Loaded(NoCall)'
          BY <2>3 DEF Loaded
        <4> QED BY <2>2, <2>3, <3>2, <3>4, <4>3, <4>4, <4>5, <4>6, NumberGiven
      <3> QED BY <3>3, <3>4
    <2> QED BY <1>2, <2>1, <2>4, <2>5 DEF FeatureReparented
  <1> QED
    BY <1>1, <1>2

LEMMA SceneKept == ASSUME [RecordsNext]_rvars PROVE rscene' = rscene
  <1>1. ASSUME NEW w \in Workers, CallOnAFeature(w) PROVE rscene' = rscene
    BY <1>1, ZenonT(40) DEF CallOnAFeature, MoveNumbered, RenameBegins, Transitioned, OverrideBegins,
                ReviewCapReached
  <1>2. ASSUME NEW w \in Workers, CallOnAPlan(w) PROVE rscene' = rscene
    BY <1>2 DEF CallOnAPlan, PlanNumbered, FeatureNumbered, UpdatePlan, UpdatePlanStatus,
                UpdateStrategicPlan, MaybeAutoAdvancePlan
  <1>3. ASSUME NEW w \in Workers, CallGoesOn(w) PROVE rscene' = rscene
    BY <1>3 DEF CallGoesOn, PlanCreated, ParentCounts, FeatureRefused, FeatureCached,
                FeatureWritten, FeatureReparented, PlanSaved, PlanCloses, RenameWrites,
                RenameRemoves, IncrementFeatureReviewCycle, PersistFeatureOverrides,
                CompletionWritten, CheckpointCreated, ClearBlockedReason
  <1>4. CASE CallOnAnIncident
    BY <1>4 DEF CallOnAnIncident, CreateIncident, CreateDecision, NewRecord, UpdateIncident, LinkBug
  <1> QED
    BY <1>1, <1>2, <1>3, <1>4
    DEF RecordsNext, CompleteTask, RespondCheckpoint, RecordsCrash, CreateBug, rvars

(* The steps that touch neither plans nor features nor calls. *)
LEMMA OtherNumbers ==
    ASSUME NumbersInv, UNCHANGED <<rscene, plans, feats, seqdb, calls>>
    PROVE  NumbersInv'
  <1>1. \A f : Carried(f)' = Carried(f)
    BY DEF Carried, InFiles, InCalls, Slugged, Workers
  <1>2. \A p : Counter(p)' = Counter(p)
    BY DEF Counter, AllocateFeatureSeq, Allocated, Does
  <1>3. \A n : UsedUp(n)' = UsedUp(n)
    BY <1>2 DEF UsedUp, InPlan, Does
  <1>4. Workers' = Workers /\ NumbersCount' = NumbersCount /\ PlansApart' = PlansApart
    BY DEF Workers, NumbersCount, PlansApart, Does
  <1>5. \A w \in Workers : Loaded(calls[w])' = Loaded(calls[w]) /\ Ahead(calls[w])' = Ahead(calls[w])
                           /\ Taken(calls[w])' = Taken(calls[w])
    BY <1>2 DEF Loaded, Ahead, Taken, Does
  <1>6. NumbersApart' = NumbersApart
    BY <1>1, <1>4, <1>5 DEF NumbersApart
  <1> QED
    BY <1>1, <1>3, <1>4, <1>5, <1>6 DEF NumbersInv

LEMMA NumbersStep ==
    ASSUME NumbersGiven, Typed, Typed', NumbersInv, [RecordsNext]_rvars
    PROVE  NumbersInv'
  <1>1. CASE ~NumbersCount
    BY <1>1, SceneKept DEF NumbersInv, NumbersCount, Does
  <1> SUFFICES ASSUME NumbersCount PROVE NumbersInv'
    BY <1>1
  <1>2. ASSUME NEW w \in Workers, CallOnAFeature(w) PROVE NumbersInv'
    <2>1. ASSUME NEW f \in DOMAIN feats, NEW p \in DOMAIN plans, MoveNumbered(w, f, p)
          PROVE  NumbersInv'
      BY <2>1, CountNumbers
    <2>2. ASSUME NEW f \in DOMAIN feats, NEW s \in Located(f),
                 \/ \E t \in Slugs : RenameBegins(w, f, s, t)
                 \/ \E to : Transitioned(w, f, s, to)
                 \/ OverrideBegins(w, f, s)
                 \/ ReviewCapReached(w, f, s)
          PROVE  NumbersInv'
      BY <2>2, BeginNumbers
    <2> QED BY <1>2, <2>1, <2>2 DEF CallOnAFeature
  <1>3. ASSUME NEW w \in Workers, CallOnAPlan(w) PROVE NumbersInv'
    <2>1. ASSUME NEW p \in DOMAIN plans, FeatureNumbered(w, p) PROVE NumbersInv'
      BY <2>1, CountNumbers
    <2>2. ASSUME NEW p \in DOMAIN plans,
                 \/ UpdatePlan(w, p)
                 \/ \E to : UpdatePlanStatus(w, p, to)
                 \/ \E q \in 0..Len(plans) : UpdateStrategicPlan(w, p, q)
                 \/ MaybeAutoAdvancePlan(w, p)
          PROVE  NumbersInv'
      BY <2>2, PlanNumbers
    <2>3. ASSUME NEW pre \in {"B", "P"}, NEW slug \in rscene.given.slugs, PlanNumbered(w, pre, slug)
          PROVE  NumbersInv'
      BY <2>3, PlanNumbers
    <2> QED BY <1>3, <2>1, <2>2, <2>3 DEF CallOnAPlan
  <1>4. ASSUME NEW w \in Workers, CallGoesOn(w) PROVE NumbersInv'
    <2>1. CASE \/ FeatureRefused(w) \/ FeatureCached(w) \/ RenameWrites(w) \/ RenameRemoves(w)
               \/ IncrementFeatureReviewCycle(w) \/ PersistFeatureOverrides(w)
               \/ CompletionWritten(w) \/ CheckpointCreated(w) \/ ClearBlockedReason(w)
      BY <2>1, GoOnNumbers
    <2>2. CASE PlanCreated(w) \/ ParentCounts(w) \/ PlanSaved(w)
      BY <2>2, CountNumbers
    <2>3. CASE PlanCloses(w)
      BY <2>3, PlanNumbers
    <2>4. CASE (\E s \in rscene.given.slugs : FeatureWritten(w, s)) \/ FeatureReparented(w)
      BY <2>4, GiveNumbers
    <2> QED BY <1>4, <2>1, <2>2, <2>3, <2>4 DEF CallGoesOn
  <1>5. ASSUME NEW w \in Workers,
               \/ \E t \in DOMAIN tasks : CompleteTask(w, t)
               \/ \E k \in DOMAIN checkpoints : RespondCheckpoint(w, k)
        PROVE  NumbersInv'
    BY <1>5, BeginNumbers
  <1>6. ASSUME NEW w \in Workers, RecordsCrash(w) PROVE NumbersInv'
    BY <1>6, GoOnNumbers
  <1>7. CASE \/ \E slug, report \in Slugs : CreateBug(slug, report)
             \/ CallOnAnIncident \/ UNCHANGED rvars
    <2>1. UNCHANGED <<rscene, plans, feats, seqdb, calls>>
      BY <1>7 DEF CreateBug, CallOnAnIncident, CreateIncident, CreateDecision, NewRecord,
                  UpdateIncident, LinkBug, rvars
    <2> QED BY <2>1, OtherNumbers
  <1> QED
    BY <1>2, <1>3, <1>4, <1>5, <1>6, <1>7 DEF RecordsNext

LEMMA NumbersInit == ASSUME NumbersGiven, RecordsInit PROVE NumbersInv
  <1> SUFFICES ASSUME NumbersCount
               PROVE  /\ PlansApart
                      /\ \A w \in Workers : Loaded(calls[w]) /\ Ahead(calls[w])
                      /\ \A f \in DOMAIN feats : \A n \in Carried(f) : UsedUp(n)
                      /\ NumbersApart
    BY DEF NumbersInv
  <1>1. rscene \in RecordScenes /\ plans = rscene.given.plans /\ feats = rscene.given.features
        /\ \A w \in Workers : calls[w] = NoCall
    BY DEF RecordsInit
  <1>2. rscene.workers = 1 \/ "database" \in rscene.does
    BY DEF NumbersCount, Does
  <1>3. PlansApart
    BY <1>1, <1>2, ZenonT(40) DEF NumbersGiven, PlansApart, Does
  <1>4. NoCall.op = "none"
    BY DEF NoCall
  <1>5. NoCall \notin Counting /\ Loaded(NoCall)
    BY <1>4, Light
  <1>6. \A f \in DOMAIN feats : Carried(f) = GivenNumbers(rscene, f)
    BY <1>1, <1>4 DEF Carried, InFiles, InCalls, Slugged, GivenNumbers
  <1>7. NumbersApart
    BY <1>1, <1>2, <1>5, <1>6, ZenonT(80) DEF NumbersGiven, NumbersApart
  <1>8. ASSUME NEW f \in DOMAIN feats, NEW n \in Carried(f) PROVE UsedUp(n)
    <2>1. ~Does("database")
      <3>1. Does("database") => feats = <<>>
        BY <1>1, <1>2 DEF NumbersGiven, Does
      <3> QED BY <3>1
    <2>2. PICK p \in DOMAIN plans :
             /\ n[2] = plans[p].no
             /\ n[1] = plans[p].pre \/ "move" \in rscene.does
             /\ n[3] < plans[p].next
      BY <1>1, <1>2, <1>6 DEF NumbersGiven
    <2> QED BY <2>1, <2>2 DEF UsedUp, InPlan, Counter, Does
  <1> QED
    BY <1>1, <1>3, <1>5, <1>7, <1>8 DEF Ahead

LEMMA NumbersTellApart == ASSUME NumbersInv PROVE NumberNamesOneFeature
  <1> SUFFICES ASSUME NumbersCount, NEW f \in DOMAIN feats, NEW g \in DOMAIN feats,
                      NEW s \in Slugged(f), NEW t \in Slugged(g), f # g
               PROVE  feats[f].file[s].number # feats[g].file[t].number
    BY DEF NumberNamesOneFeature, NumbersCount
  <1>1. feats[f].file[s].number \in Carried(f) /\ feats[g].file[t].number \in Carried(g)
    BY DEF Carried, InFiles
  <1>2. Carried(f) \cap Carried(g) = {}
    BY DEF NumbersInv, NumbersApart
  <1> QED
    BY <1>1, <1>2

(* A number names one feature, however many plans there are, whatever is    *)
(* created, renamed, moved, refused or cut short: with calls one at a time, *)
(* or with any number of them when every number is the database's.  The     *)
(* invariant is that a number that a feature carries, or that a rename has  *)
(* in hand, is below the counter of the one plan it can be of, and that a  *)
(* call that is still counting has a number of its own.                    *)
THEOREM NumbersAreUnique ==
    ASSUME NumbersGiven PROVE RecordsSpec => []NumberNamesOneFeature
  <1> DEFINE Inv == Typed /\ NumbersInv
  <1>1. RecordsInit => Inv
    BY TypedInit, NumbersInit
  <1>2. Inv /\ [RecordsNext]_rvars => Inv'
    BY TypedStep, NumbersStep
  <1>3. Inv => NumberNamesOneFeature
    BY NumbersTellApart
  <1> HIDE DEF Inv
  <1> QED
    BY <1>1, <1>2, <1>3, PTL DEF RecordsSpec

-----------------------------------------------------------------------------
(* The files of a feature, and what is counted in them. *)

Files(F) == {s \in Slugs : F.file[s] # NoFile}

(* A feature with a file written, and one with a file and its row. *)
Wrote(F, s, c) == [F EXCEPT !.file[s] = c]
WroteRow(F, s, c, x) == [F EXCEPT !.file[s] = c, !.row = x]

(* A feature in order, of which r reviews and o overrides were told: it has *)
(* one file, which counts them, and the cache knows it and its number.      *)
InOrder(F, r, o, moves) ==
    /\ F.row.slug \in Slugs /\ Files(F) = {F.row.slug}
    /\ F.file[F.row.slug].cycle = r /\ F.file[F.row.slug].overrides = o
    /\ ~moves => F.row.c.number = F.file[F.row.slug].number

(* Call k has something left to write of feature f. *)
Minds(k, f) ==
    /\ k.op \in {"count", "override", "rename"} \/ (k.op = "create" /\ k.step = "row")
    /\ k.f = f

(* A feature with call k under way: what is in order but for what the call  *)
(* has still to write.                                                     *)
UnderWay(F, k, f, r, o, moves) ==
    IF ~Minds(k, f) THEN InOrder(F, r, o, moves)
    ELSE \/ k.op = "count" /\ r # 0 /\ InOrder(F, r - 1, o, moves)
         \/ k.op = "override" /\ InOrder(F, r, o, moves) /\ k.slug = F.row.slug /\ k.list = o + 1
         \/ /\ k.op = "rename" /\ k.from = F.row.slug /\ k.to # k.from
            /\ k.c = F.file[k.from]
            /\ InOrder(Wrote(F, k.to, NoFile), r, o, moves)
            /\ F.file[k.to] = IF k.step = "write" THEN NoFile ELSE k.c
         \/ /\ k.op = "create" /\ F.row.slug = "none" /\ Files(F) = {k.slug}
            /\ F.file[k.slug].cycle = r /\ F.file[k.slug].overrides = o

InTune ==
    ~told.cut => \A f \in DOMAIN feats :
       UnderWay(feats[f], calls[1], f, told.reviews[f], told.overrides[f], Does("move"))

(* A feature that has a file, also when the rename that is under way is     *)
(* over or is cut.                                                         *)
Kept(F, k, f) ==
    /\ Files(F) # {}
    /\ k.op = "rename" /\ k.f = f =>
          k.to # k.from /\ (k.step = "remove" => F.file[k.to] # NoFile)

AllKept ==
    /\ calls[1].op = "move" => Does("move")
    /\ \A f \in DOMAIN feats : Kept(feats[f], calls[1], f)

-----------------------------------------------------------------------------
(* What was told of cuts is told for good. *)
LEMMA CutStays == ASSUME Typed, [RecordsNext]_rvars, ~told'.cut PROVE ~told.cut
  <1>a. told \in [reviews : [DOMAIN feats -> Nat], overrides : [DOMAIN feats -> Nat],
                  cut : BOOLEAN]
    BY DEF Typed, RecordsTypeOK
  <1>b. ASSUME UNCHANGED told PROVE ~told.cut
    BY <1>b
  <1>c. ASSUME NEW w, Cut(w) PROVE FALSE
    BY <1>a, <1>c DEF Cut
  <1>1. ASSUME NEW w \in Workers, CallOnAFeature(w) PROVE ~told.cut
    <2>1. ASSUME NEW f, NEW s, NEW to, Transitioned(w, f, s, to) PROVE ~told.cut
      <3>1. told' = [told EXCEPT !.reviews[f] = @ + 1] \/ UNCHANGED told
        BY <2>1 DEF Transitioned
      <3> QED BY <1>a, <1>b, <3>1
    <2> QED
      BY <1>1, <1>b, <2>1
      DEF CallOnAFeature, MoveNumbered, RenameBegins, OverrideBegins, ReviewCapReached
  <1>2. ASSUME NEW w \in Workers, CallOnAPlan(w) PROVE ~told.cut
    BY <1>2, <1>b DEF CallOnAPlan, PlanNumbered, FeatureNumbered, UpdatePlan, UpdatePlanStatus,
                UpdateStrategicPlan, MaybeAutoAdvancePlan
  <1>3. ASSUME NEW w \in Workers, CallGoesOn(w) PROVE ~told.cut
    <2>1. ASSUME NEW s, FeatureWritten(w, s) PROVE ~told.cut
      <3>1. told' = [told EXCEPT !.reviews = Append(@, 0), !.overrides = Append(@, 0)]
        BY <2>1 DEF FeatureWritten
      <3> QED BY <1>a, <3>1
    <2>2. CASE PersistFeatureOverrides(w)
      <3>1. \/ told' = [told EXCEPT !.overrides[calls[w].f] = @ + 1]
            \/ Cut(w)
        BY <2>2 DEF PersistFeatureOverrides
      <3> QED BY <1>a, <1>c, <3>1
    <2>3. CASE FeatureReparented(w) \/ PlanCloses(w) \/ IncrementFeatureReviewCycle(w)
               \/ CompletionWritten(w)
      <3>1. UNCHANGED told \/ Cut(w)
        BY <2>3 DEF FeatureReparented, PlanCloses, IncrementFeatureReviewCycle, CompletionWritten
      <3> QED BY <1>b, <1>c, <3>1
    <2>4. CASE \/ PlanCreated(w) \/ ParentCounts(w) \/ FeatureRefused(w) \/ FeatureCached(w)
               \/ PlanSaved(w) \/ RenameWrites(w) \/ RenameRemoves(w) \/ CheckpointCreated(w)
               \/ ClearBlockedReason(w)
      BY <2>4, <1>b DEF PlanCreated, ParentCounts, FeatureRefused, FeatureCached, PlanSaved,
                        RenameWrites, RenameRemoves, CheckpointCreated, ClearBlockedReason
    <2> QED BY <1>3, <2>1, <2>2, <2>3, <2>4 DEF CallGoesOn
  <1>4. CASE CallOnAnIncident
    BY <1>4, <1>b DEF CallOnAnIncident, CreateIncident, CreateDecision, NewRecord, UpdateIncident,
                      LinkBug
  <1>5. ASSUME NEW w \in Workers, RecordsCrash(w) PROVE ~told.cut
    BY <1>5, <1>c DEF RecordsCrash
  <1> QED
    BY <1>1, <1>2, <1>3, <1>4, <1>5, <1>b
    DEF RecordsNext, CompleteTask, RespondCheckpoint, CreateBug, rvars

LEMMA WroteFields ==
    ASSUME NEW F \in FeatureRecords, NEW s \in Slugs, NEW c, NEW G, G = Wrote(F, s, c)
    PROVE  /\ G.row = F.row /\ \A t \in Slugs : G.file[t] = IF t = s THEN c ELSE F.file[t]
           /\ c # NoFile => Files(G) = Files(F) \cup {s}
           /\ c = NoFile => Files(G) = Files(F) \ {s}
  <1>1. F.file \in [Slugs -> Contents \cup {NoFile}] /\ F = [file |-> F.file, row |-> F.row]
    BY DEF FeatureRecords
  <1>2. G = [file |-> [F.file EXCEPT ![s] = c], row |-> F.row]
    BY <1>1 DEF Wrote
  <1>3. G.row = F.row /\ \A t \in Slugs : G.file[t] = IF t = s THEN c ELSE F.file[t]
    BY <1>1, <1>2
  <1> QED
    BY <1>3 DEF Files

LEMMA WroteRowFields ==
    ASSUME NEW F \in FeatureRecords, NEW s \in Slugs, NEW c, NEW x, NEW G,
           G = WroteRow(F, s, c, x)
    PROVE  /\ G.row = x /\ \A t \in Slugs : G.file[t] = IF t = s THEN c ELSE F.file[t]
           /\ c # NoFile => Files(G) = Files(F) \cup {s}
           /\ c = NoFile => Files(G) = Files(F) \ {s}
  <1>1. F.file \in [Slugs -> Contents \cup {NoFile}] /\ F = [file |-> F.file, row |-> F.row]
    BY DEF FeatureRecords
  <1>2. G = [file |-> [F.file EXCEPT ![s] = c], row |-> x]
    BY <1>1 DEF WroteRow
  <1>3. G.row = x /\ \A t \in Slugs : G.file[t] = IF t = s THEN c ELSE F.file[t]
    BY <1>1, <1>2
  <1> QED
    BY <1>3 DEF Files

(* The one file of a feature in order is written again. *)
LEMMA OrderKept ==
    ASSUME NEW F \in FeatureRecords, NEW r, NEW o, NEW moves, InOrder(F, r, o, moves),
           NEW s, s = F.row.slug, NEW c \in Contents, ~moves => c.number = F.file[s].number
    PROVE  /\ InOrder(Wrote(F, s, c), c.cycle, c.overrides, moves)
           /\ InOrder(WroteRow(F, s, c, [slug |-> s, c |-> c]), c.cycle, c.overrides, moves)
  <1> DEFINE x == [slug |-> s, c |-> c]
             G == Wrote(F, s, c)
             H == WroteRow(F, s, c, x)
  <1>1. s \in Slugs /\ Files(F) = {s} /\ (~moves => F.row.c.number = F.file[s].number)
    BY DEF InOrder
  <1>2. c # NoFile
    BY ThereOrNot
  <1>x. x.slug = s /\ x.c = c
    OBVIOUS
  <1> HIDE DEF x
  <1>g. G = Wrote(F, s, c) /\ H = WroteRow(F, s, c, x)
    OBVIOUS
  <1> HIDE DEF G, H
  <1>3. G.file[s] = c /\ Files(G) = {s} /\ G.row = F.row
    BY <1>1, <1>2, <1>g, WroteFields
  <1>4. H.file[s] = c /\ Files(H) = {s} /\ H.row = x
    BY <1>1, <1>2, <1>g, WroteRowFields
  <1>5. InOrder(G, c.cycle, c.overrides, moves)
    BY <1>1, <1>3 DEF InOrder
  <1>6. InOrder(H, c.cycle, c.overrides, moves)
    BY <1>1, <1>4, <1>x DEF InOrder
  <1> QED
    BY <1>5, <1>6 DEF G, H, x

LEMMA AloneCalls ==
    ASSUME Typed, rscene.workers = 1
    PROVE  /\ Workers = {1} /\ calls[1] \in CallRecords
           /\ \A k : To(1, k) => calls'[1] = k
           /\ Over(1) => calls'[1] = NoCall
           /\ Cut(1) => calls'[1] = NoCall /\ told'.cut
  <1>1. Workers = {1}
    BY DEF Workers
  <1>2. calls \in [{1} -> CallRecords] /\ told.cut \in BOOLEAN
        /\ told \in [reviews : [DOMAIN feats -> Nat], overrides : [DOMAIN feats -> Nat],
                     cut : BOOLEAN]
    BY <1>1 DEF Typed, RecordsTypeOK
  <1>3. \A k : To(1, k) => calls'[1] = k
    BY <1>2 DEF To
  <1>4. Cut(1) => told'.cut
    BY <1>2 DEF Cut
  <1> QED
    BY <1>1, <1>2, <1>3, <1>4 DEF Over, Cut

(* A call under another name has nothing left to write of a feature. *)
LEMMA MindsNone ==
    ASSUME NEW k, k.op \notin {"count", "override", "rename"}, k.op # "create" \/ k.step # "row"
    PROVE  \A f : ~Minds(k, f)
  BY DEF Minds

LEMMA NoCallMinds == (\A f : ~Minds(NoCall, f)) /\ NoCall.op = "none"
  BY DEF Minds, NoCall

(* A step on one feature leaves the others as they are. *)
LEMMA OneFeature ==
    ASSUME AllKept, InTune, UNCHANGED rscene, NEW g, DOMAIN feats' = DOMAIN feats,
           \A f \in DOMAIN feats : f # g =>
              /\ feats'[f] = feats[f] /\ ~Minds(calls[1], f) /\ ~Minds(calls'[1], f)
              /\ ~told'.cut => /\ told'.reviews[f] = told.reviews[f]
                               /\ told'.overrides[f] = told.overrides[f],
           calls'[1].op = "move" => Does("move"),
           ~told'.cut => ~told.cut,
           g \in DOMAIN feats =>
              /\ Kept(feats'[g], calls'[1], g)
              /\ ~told'.cut => UnderWay(feats'[g], calls'[1], g, told'.reviews[g],
                                        told'.overrides[g], Does("move"))
    PROVE  AllKept' /\ InTune'
  <1>1. Does("move")' = Does("move")
    BY DEF Does
  <1>2. ASSUME NEW f \in DOMAIN feats, f # g PROVE Kept(feats'[f], calls'[1], f)
    BY <1>2 DEF AllKept, Kept, Minds
  <1>3. ASSUME NEW f \in DOMAIN feats, f # g, ~told'.cut
        PROVE  UnderWay(feats'[f], calls'[1], f, told'.reviews[f], told'.overrides[f], Does("move"))
    <2>1. UnderWay(feats[f], calls[1], f, told.reviews[f], told.overrides[f], Does("move"))
      BY <1>3 DEF InTune
    <2>2. ~Minds(calls[1], f) /\ ~Minds(calls'[1], f) /\ feats'[f] = feats[f]
          /\ told'.reviews[f] = told.reviews[f] /\ told'.overrides[f] = told.overrides[f]
      BY <1>3
    <2> QED BY <2>1, <2>2 DEF UnderWay
  <1>4. AllKept'
    BY <1>1, <1>2 DEF AllKept
  <1>5. InTune'
    BY <1>1, <1>3 DEF InTune
  <1> QED
    BY <1>4, <1>5

(* A step that writes nothing of a feature, in a call that has nothing to   *)
(* write of one.                                                           *)
LEMMA NoFeature ==
    ASSUME Typed, AllKept, InTune, UNCHANGED <<rscene, feats>>,
           \A f : ~Minds(calls[1], f), \A f : ~Minds(calls'[1], f),
           calls'[1].op = "move" => Does("move"),
           UNCHANGED told \/ told'.cut
    PROVE  AllKept' /\ InTune'
  <1>1. 0 \notin DOMAIN feats
    <2>1. feats \in Seq(FeatureRecords)
      BY DEF Typed, RecordsTypeOK
    <2> QED BY <2>1
  <1> QED
    BY <1>1, OneFeature

(* A call that is cut, or dies. *)
LEMMA CutKeeps ==
    ASSUME AllKept, UNCHANGED <<rscene, feats>>, calls'[1] = NoCall, told'.cut
    PROVE  AllKept' /\ InTune'
  BY NoCallMinds DEF AllKept, Kept, InTune

(* A feature that no call has in hand is in order, unless a call was cut.   *)
LEMMA Ready ==
    ASSUME Typed, InTune, NEW f \in DOMAIN feats, ~Minds(calls[1], f), ~told.cut
    PROVE  /\ InOrder(feats[f], told.reviews[f], told.overrides[f], Does("move"))
           /\ feats[f] \in FeatureRecords
           /\ feats[f].row.slug \in Slugs /\ Slugged(f) = {feats[f].row.slug}
           /\ Files(feats[f]) = {feats[f].row.slug}
           /\ Located(f) = Slugged(f)
           /\ feats[f].file[feats[f].row.slug] \in Contents
  <1>1. InOrder(feats[f], told.reviews[f], told.overrides[f], Does("move"))
    BY DEF InTune, UnderWay
  <1>2. feats[f] \in FeatureRecords /\ feats \in Seq(FeatureRecords)
    BY DEF Typed, RecordsTypeOK
  <1>3. feats[f].row.slug \in Slugs /\ Slugged(f) = {feats[f].row.slug}
        /\ Files(feats[f]) = {feats[f].row.slug}
    BY <1>1 DEF InOrder, Files, Slugged
  <1>4. Located(f) = Slugged(f)
    BY <1>3 DEF Located
  <1>5. feats[f].file[feats[f].row.slug] \in Contents
    BY <1>2, <1>3, FileThere
  <1> QED
    BY <1>1, <1>2, <1>3, <1>4, <1>5

LEMMA StatusEdited ==
    ASSUME NEW c \in Contents, NEW st \in KnownStates("feature")
    PROVE  LET d == [c EXCEPT !.st = st]
           IN /\ d \in Contents /\ d.cycle = c.cycle /\ d.overrides = c.overrides
              /\ d.number = c.number
  BY DEF Contents

LEMMA OverridesEdited ==
    ASSUME NEW c \in Contents, NEW n \in Nat
    PROVE  LET d == [c EXCEPT !.overrides = n]
           IN /\ d \in Contents /\ d.cycle = c.cycle /\ d.overrides = n /\ d.number = c.number
  BY DEF Contents

LEMMA BlockedEdited ==
    ASSUME NEW c \in Contents, NEW b \in BOOLEAN
    PROVE  LET d == [c EXCEPT !.blocked = b]
           IN /\ d \in Contents /\ d.cycle = c.cycle /\ d.overrides = c.overrides
              /\ d.number = c.number
  BY DEF Contents

LEMMA CycleEdited ==
    ASSUME NEW c \in Contents
    PROVE  LET d == [c EXCEPT !.cycle = @ + 1]
           IN /\ d \in Contents /\ d.cycle = c.cycle + 1 /\ d.overrides = c.overrides
              /\ d.number = c.number
  BY DEF Contents

(* One more count, from 0. *)
LEMMA CountAppended ==
    ASSUME NEW n \in Nat, NEW t \in [1..n -> Nat]
    PROVE  Append(t, 0)[n + 1] = 0 /\ \A i \in 1..n : Append(t, 0)[i] = t[i]
  <1>1. t \in Seq(Nat) /\ Len(t) = n
    OBVIOUS
  <1> QED
    BY <1>1

(* What is told of the reviews and overrides of a feature. *)
LEMMA ToldOf ==
    ASSUME Typed, NEW f \in DOMAIN feats
    PROVE  /\ told.reviews[f] \in Nat /\ told.overrides[f] \in Nat
           /\ told' = [told EXCEPT !.reviews[f] = @ + 1] =>
                 /\ told'.reviews[f] = told.reviews[f] + 1 /\ told'.overrides = told.overrides
                 /\ \A g \in DOMAIN feats : g # f => told'.reviews[g] = told.reviews[g]
           /\ told' = [told EXCEPT !.overrides[f] = @ + 1] =>
                 /\ told'.overrides[f] = told.overrides[f] + 1 /\ told'.reviews = told.reviews
                 /\ \A g \in DOMAIN feats : g # f => told'.overrides[g] = told.overrides[g]
  <1>1. told \in [reviews : [DOMAIN feats -> Nat], overrides : [DOMAIN feats -> Nat],
                  cut : BOOLEAN]
    BY DEF Typed, RecordsTypeOK
  <1> QED
    BY <1>1

(* A call begins that renames a feature, or overrides a gate of it. *)
LEMMA RenameBeginsKeeps ==
    ASSUME Typed, rscene.workers = 1, AllKept, InTune, NEW f \in DOMAIN feats,
           NEW s \in Located(f), NEW t \in Slugs, RenameBegins(1, f, s, t)
    PROVE  AllKept' /\ InTune'
  <1> DEFINE k == [op |-> "rename", step |-> "write", f |-> f, from |-> s, to |-> t,
                   c |-> feats[f].file[s]]
  <1>1. calls[1] = NoCall /\ calls'[1] = k /\ UNCHANGED <<rscene, feats, told>> /\ s # t
    BY AloneCalls DEF RenameBegins, Free
  <1>2. /\ k.op = "rename" /\ k.step = "write" /\ k.f = f /\ k.from = s /\ k.to = t
        /\ k.c = feats[f].file[s]
    OBVIOUS
  <1> HIDE DEF k
  <1>3. \A g : ~Minds(calls[1], g) /\ (g # f => ~Minds(k, g))
    BY <1>1, <1>2, NoCallMinds DEF Minds
  <1>4. Kept(feats[f], k, f)
    BY <1>1, <1>2 DEF AllKept, Kept
  <1>5. ASSUME ~told.cut
        PROVE  UnderWay(feats[f], k, f, told.reviews[f], told.overrides[f], Does("move"))
    <2>1. /\ InOrder(feats[f], told.reviews[f], told.overrides[f], Does("move"))
          /\ s = feats[f].row.slug /\ s \in Slugs /\ Files(feats[f]) = {s}
          /\ feats[f] \in FeatureRecords
      BY <1>3, <1>5, Ready
    <2>2. feats[f].file[t] = NoFile
      BY <1>1, <2>1 DEF Files
    <2>3. Wrote(feats[f], t, NoFile) = feats[f]
      BY <2>1, <2>2 DEF Wrote, FeatureRecords
    <2> QED BY <1>1, <1>2, <2>1, <2>2, <2>3 DEF UnderWay, Minds
  <1> QED
    BY <1>1, <1>2, <1>3, <1>4, <1>5, OneFeature

LEMMA OverrideBeginsKeeps ==
    ASSUME Typed, rscene.workers = 1, AllKept, InTune, NEW f \in DOMAIN feats,
           NEW s \in Located(f), OverrideBegins(1, f, s)
    PROVE  AllKept' /\ InTune'
  <1> DEFINE k == [op |-> "override", f |-> f, slug |-> s,
                   list |-> feats[f].file[s].overrides + 1]
  <1>1. calls[1] = NoCall /\ calls'[1] = k /\ UNCHANGED <<rscene, feats, told>>
    BY AloneCalls DEF OverrideBegins, Free
  <1>2. /\ k.op = "override" /\ k.f = f /\ k.slug = s
        /\ k.list = feats[f].file[s].overrides + 1
    OBVIOUS
  <1> HIDE DEF k
  <1>3. \A g : ~Minds(calls[1], g) /\ (g # f => ~Minds(k, g))
    BY <1>1, <1>2, NoCallMinds DEF Minds
  <1>4. Kept(feats[f], k, f)
    BY <1>2 DEF AllKept, Kept
  <1>5. ASSUME ~told.cut
        PROVE  UnderWay(feats[f], k, f, told.reviews[f], told.overrides[f], Does("move"))
    <2>1. /\ InOrder(feats[f], told.reviews[f], told.overrides[f], Does("move"))
          /\ s = feats[f].row.slug
      BY <1>3, <1>5, Ready
    <2>2. feats[f].file[s].overrides = told.overrides[f]
      BY <2>1 DEF InOrder
    <2> QED BY <1>2, <2>1, <2>2 DEF UnderWay, Minds
  <1> QED
    BY <1>1, <1>2, <1>3, <1>4, <1>5, OneFeature

(* The one file of a feature in order is written again, and with it         *)
(* perhaps the row.                                                        *)
LEMMA FileAgain ==
    ASSUME Typed, rscene.workers = 1, AllKept, InTune, UNCHANGED rscene,
           NEW f, NEW s \in Slugs, NEW c,
           f \in DOMAIN feats /\ ~told'.cut =>
              \E m, n : InOrder(feats[f], m, n, Does("move")),
           f \in DOMAIN feats => /\ feats[f].file[s] # NoFile
                                 /\ c \in Contents
                                 /\ ~Does("move") => c.number = feats[f].file[s].number,
           feats' = WithFile(f, s, c) \/ feats' = WithRow(f, s, c),
           \A g \in DOMAIN feats : g # f => ~Minds(calls[1], g) /\ ~Minds(calls'[1], g),
           calls'[1].op \notin {"move", "rename"},
           ~told'.cut => ~told.cut,
           ~told'.cut => \A g \in DOMAIN feats : g # f =>
                            /\ told'.reviews[g] = told.reviews[g]
                            /\ told'.overrides[g] = told.overrides[g],
           NEW r, NEW o,
           f \in DOMAIN feats /\ ~told'.cut => c.cycle = r /\ c.overrides = o,
           f \in DOMAIN feats /\ ~told'.cut =>
              \A F : InOrder(F, r, o, Does("move")) =>
                        UnderWay(F, calls'[1], f, told'.reviews[f], told'.overrides[f], Does("move"))
    PROVE  AllKept' /\ InTune'
  <1> DEFINE x == [slug |-> s, c |-> c]
  <1>1. /\ DOMAIN feats' = DOMAIN feats
        /\ \A g \in DOMAIN feats : g # f => feats'[g] = feats[g]
        /\ f \in DOMAIN feats =>
              feats'[f] = Wrote(feats[f], s, c) \/ feats'[f] = WroteRow(feats[f], s, c, x)
    <2>1. CASE feats' = WithFile(f, s, c)
      BY <2>1 DEF WithFile, Wrote
    <2>2. CASE feats' = WithRow(f, s, c)
      BY <2>2 DEF WithRow, WroteRow
    <2> QED BY <2>1, <2>2
  <1> HIDE DEF x
  <1>2. ASSUME f \in DOMAIN feats PROVE Kept(feats'[f], calls'[1], f)
    <2>1. feats[f] \in FeatureRecords /\ c # NoFile
      BY <1>2, ThereOrNot DEF Typed, RecordsTypeOK
    <2>2. Files(feats'[f]) = Files(feats[f]) \cup {s}
      BY <1>1, <1>2, <2>1, WroteFields, WroteRowFields
    <2> QED BY <2>2 DEF Kept
  <1>3. ASSUME f \in DOMAIN feats, ~told'.cut
        PROVE  UnderWay(feats'[f], calls'[1], f, told'.reviews[f], told'.overrides[f], Does("move"))
    <2>1. PICK m, n : InOrder(feats[f], m, n, Does("move"))
      BY <1>3
    <2>2. s = feats[f].row.slug /\ feats[f] \in FeatureRecords
      BY <1>3, <2>1 DEF InOrder, Files, Typed, RecordsTypeOK
    <2>3. InOrder(feats'[f], c.cycle, c.overrides, Does("move"))
      BY <1>1, <1>3, <2>1, <2>2, OrderKept DEF x
    <2> QED BY <1>3, <2>3
  <1> QED
    BY <1>1, <1>2, <1>3, OneFeature

(* The calls that write the one file of a feature. *)
LEMMA FileAtHand ==
    ASSUME Typed, NEW f \in DOMAIN feats, NEW s \in Slugged(f)
    PROVE  s \in Slugs /\ feats[f].file[s] # NoFile /\ feats[f].file[s] \in Contents
  <1>1. feats \in Seq(FeatureRecords)
    BY DEF Typed, RecordsTypeOK
  <1> QED
    BY <1>1, FileThere DEF Slugged

LEMMA TransitionedKeeps ==
    ASSUME Typed, rscene.workers = 1, AllKept, InTune, ~told'.cut => ~told.cut,
           NEW f \in DOMAIN feats, NEW s \in Located(f), NEW to, Transitioned(1, f, s, to)
    PROVE  AllKept' /\ InTune'
  <1> DEFINE b == feats[f].file[s]
             c == [b EXCEPT !.st = to]
             k == [op |-> "count", f |-> f]
  <1>1. calls[1] = NoCall /\ UNCHANGED rscene /\ feats' = WithRow(f, s, c)
    BY DEF Transitioned, Free
  <1>2. s \in Slugs /\ b # NoFile /\ b \in Contents
    <2>1. s \in Slugged(f)
      BY FileThere DEF Typed, RecordsTypeOK
    <2> QED BY <2>1, FileAtHand
  <1>3. to \in KnownStates("feature")
    BY DEF Transitioned, CanTransition
  <1> HIDE DEF b
  <1>4. c \in Contents /\ c.cycle = b.cycle /\ c.overrides = b.overrides /\ c.number = b.number
    BY <1>2, <1>3, StatusEdited
  <1>5. k.op = "count" /\ k.f = f
    OBVIOUS
  <1> HIDE DEF c, k
  <1>6. \A g : ~Minds(calls[1], g)
    BY <1>1, NoCallMinds
  <1>7. ASSUME ~told'.cut
        PROVE  /\ InOrder(feats[f], told.reviews[f], told.overrides[f], Does("move"))
               /\ c.cycle = told.reviews[f] /\ c.overrides = told.overrides[f]
    <2>1. InOrder(feats[f], told.reviews[f], told.overrides[f], Does("move"))
          /\ Slugged(f) = {feats[f].row.slug} /\ Located(f) = Slugged(f)
      BY <1>6, <1>7, Ready
    <2>2. s = feats[f].row.slug
      BY <2>1
    <2>3. b.cycle = told.reviews[f] /\ b.overrides = told.overrides[f]
      BY <2>1, <2>2 DEF InOrder, b
    <2> QED BY <1>4, <2>1, <2>3
  <1>8. CASE to = "reviewing"
    <2>1. told' = [told EXCEPT !.reviews[f] = @ + 1] /\ calls'[1] = k
      BY <1>8, AloneCalls DEF Transitioned, k
    <2>2. /\ told.reviews[f] \in Nat /\ told'.reviews[f] = told.reviews[f] + 1
          /\ told'.overrides = told.overrides
          /\ \A g \in DOMAIN feats : g # f => told'.reviews[g] = told.reviews[g]
      BY <2>1, ToldOf
    <2>3. \A g : g # f => ~Minds(k, g)
      BY <1>5 DEF Minds
    <2>4. \A F : InOrder(F, told.reviews[f], told.overrides[f], Does("move")) =>
                    UnderWay(F, k, f, told'.reviews[f], told'.overrides[f], Does("move"))
      <3>1. told'.reviews[f] # 0 /\ told'.reviews[f] - 1 = told.reviews[f]
        BY <2>2
      <3> QED BY <1>5, <2>2, <3>1 DEF UnderWay, Minds
    <2> DEFINE r == told.reviews[f]
               o == told.overrides[f]
    <2>5. ~told'.cut =>
              /\ \E m, n : InOrder(feats[f], m, n, Does("move"))
              /\ c.cycle = r /\ c.overrides = o
      BY <1>7
    <2>6. \A F : InOrder(F, r, o, Does("move")) =>
                    UnderWay(F, calls'[1], f, told'.reviews[f], told'.overrides[f], Does("move"))
      BY <2>1, <2>4
    <2>7. /\ \A g \in DOMAIN feats : g # f => /\ ~Minds(calls[1], g) /\ ~Minds(calls'[1], g)
                                             /\ told'.reviews[g] = told.reviews[g]
                                             /\ told'.overrides[g] = told.overrides[g]
          /\ calls'[1].op \notin {"move", "rename"}
      BY <1>5, <1>6, <2>1, <2>2, <2>3
    <2>8. feats[f].file[s] # NoFile /\ (~Does("move") => c.number = feats[f].file[s].number)
      BY <1>2, <1>4 DEF b
    <2> HIDE DEF r, o
    <2> QED BY <1>1, <1>2, <1>4, <2>5, <2>6, <2>7, <2>8, FileAgain
  <1>9. CASE to # "reviewing"
    <2>1. UNCHANGED told /\ calls'[1] = NoCall
      BY <1>1, <1>9 DEF Transitioned
    <2>2. \A F : InOrder(F, told.reviews[f], told.overrides[f], Does("move")) =>
                    UnderWay(F, NoCall, f, told'.reviews[f], told'.overrides[f], Does("move"))
      BY <2>1, NoCallMinds DEF UnderWay
    <2> QED BY <1>1, <1>2, <1>4, <1>6, <1>7, <2>1, <2>2, NoCallMinds, FileAgain DEF b
  <1> QED
    BY <1>8, <1>9

(* A feature is blocked, or unblocked. *)
LEMMA BlockedKeeps ==
    ASSUME Typed, rscene.workers = 1, AllKept, InTune, UNCHANGED <<rscene, told>>,
           NEW f, NEW s \in Slugs, NEW b \in BOOLEAN,
           f \in DOMAIN feats => s \in Slugged(f),
           feats' = WithFile(f, s, [feats[f].file[s] EXCEPT !.blocked = b]),
           \A g : ~Minds(calls[1], g), \A g : ~Minds(calls'[1], g),
           calls'[1].op \notin {"move", "rename"}
    PROVE  AllKept' /\ InTune'
  <1> DEFINE d == feats[f].file[s]
             c == [d EXCEPT !.blocked = b]
             r == told.reviews[f]
             o == told.overrides[f]
  <1>1. feats' = WithFile(f, s, c)
    OBVIOUS
  <1>2. f \in DOMAIN feats => d # NoFile /\ d \in Contents
    BY FileAtHand
  <1> HIDE DEF d
  <1>3. f \in DOMAIN feats => /\ c \in Contents /\ c.cycle = d.cycle /\ c.overrides = d.overrides
                              /\ c.number = d.number
    BY <1>2, BlockedEdited
  <1> HIDE DEF c
  <1>4. ASSUME f \in DOMAIN feats, ~told'.cut
        PROVE  /\ InOrder(feats[f], r, o, Does("move"))
               /\ c.cycle = r /\ c.overrides = o
    <2>1. InOrder(feats[f], r, o, Does("move")) /\ Slugged(f) = {feats[f].row.slug}
      BY <1>4, Ready
    <2>2. d.cycle = r /\ d.overrides = o
      BY <1>4, <2>1 DEF InOrder, d
    <2> QED BY <1>3, <1>4, <2>1, <2>2
  <1>5. ASSUME f \in DOMAIN feats, ~told'.cut, NEW F, InOrder(F, r, o, Does("move"))
        PROVE  UnderWay(F, calls'[1], f, told'.reviews[f], told'.overrides[f], Does("move"))
    BY <1>5 DEF UnderWay
  <1>6. f \in DOMAIN feats =>
           /\ feats[f].file[s] # NoFile /\ c \in Contents
           /\ ~Does("move") => c.number = feats[f].file[s].number
    BY <1>2, <1>3 DEF d
  <1> QED
    BY <1>1, <1>4, <1>5, <1>6, FileAgain

LEMMA ReviewCapKeeps ==
    ASSUME Typed, rscene.workers = 1, AllKept, InTune, NEW f \in DOMAIN feats,
           NEW s \in Located(f), ReviewCapReached(1, f, s)
    PROVE  AllKept' /\ InTune'
  <1> DEFINE k == [op |-> "ask", asks |-> 0]
  <1>1. calls[1] = NoCall /\ calls'[1] = k /\ UNCHANGED <<rscene, told>>
        /\ feats' = WithFile(f, s, [feats[f].file[s] EXCEPT !.blocked = TRUE])
    BY AloneCalls DEF ReviewCapReached, Free
  <1>2. k.op = "ask"
    OBVIOUS
  <1> HIDE DEF k
  <1>3. s \in Slugged(f) /\ s \in Slugs
    BY FileThere DEF Typed, RecordsTypeOK
  <1>4. (\A g : ~Minds(calls[1], g)) /\ \A g : ~Minds(k, g)
    BY <1>1, <1>2, NoCallMinds, MindsNone
  <1> QED
    BY <1>1, <1>2, <1>3, <1>4, BlockedKeeps

LEMMA UnblockKeeps ==
    ASSUME Typed, rscene.workers = 1, AllKept, InTune, ClearBlockedReason(1)
    PROVE  AllKept' /\ InTune'
  <1> DEFINE f == calls[1].f
  <1>1. calls[1].op = "unblock" /\ calls'[1] = NoCall /\ UNCHANGED <<rscene, told>>
    BY AloneCalls DEF ClearBlockedReason
  <1>2. PICK s \in ResolvePrefix(f) : feats' = [feats EXCEPT ![f].file[s].blocked = FALSE]
    BY DEF ClearBlockedReason
  <1>3. s \in Slugged(f) /\ s \in Slugs
    BY DEF ResolvePrefix, Slugged
  <1>4. feats' = WithFile(f, s, [feats[f].file[s] EXCEPT !.blocked = FALSE])
    BY <1>2 DEF WithFile
  <1>5. (\A g : ~Minds(calls[1], g)) /\ (\A g : ~Minds(NoCall, g)) /\ NoCall.op = "none"
    BY <1>1, NoCallMinds, MindsNone
  <1> QED
    BY <1>1, <1>3, <1>4, <1>5, BlockedKeeps

(* A review is counted. *)
LEMMA CountKeeps ==
    ASSUME Typed, rscene.workers = 1, AllKept, InTune, ~told'.cut => ~told.cut,
           IncrementFeatureReviewCycle(1)
    PROVE  AllKept' /\ InTune'
  <1> DEFINE f == calls[1].f
  <1>1. calls[1].op = "count" /\ UNCHANGED rscene /\ calls'[1] = NoCall
    BY AloneCalls DEF IncrementFeatureReviewCycle
  <1>2. CASE Cut(1) /\ UNCHANGED feats
    BY <1>1, <1>2, AloneCalls, CutKeeps
  <1>3. CASE UNCHANGED told /\ \E s \in ResolvePrefix(f) : feats' = [feats EXCEPT ![f].file[s].cycle = @ + 1]
    <2>1. PICK s \in ResolvePrefix(f) : feats' = [feats EXCEPT ![f].file[s].cycle = @ + 1]
      BY <1>3
    <2> DEFINE d == feats[f].file[s]
               c == [d EXCEPT !.cycle = @ + 1]
               r == told.reviews[f]
               o == told.overrides[f]
    <2>2. s \in Slugged(f) /\ s \in Slugs
      BY DEF ResolvePrefix, Slugged
    <2>3. feats' = WithFile(f, s, c)
      BY <2>1 DEF WithFile
    <2>4. f \in DOMAIN feats => d # NoFile /\ d \in Contents
      BY <2>2, FileAtHand
    <2> HIDE DEF d
    <2>5. f \in DOMAIN feats => /\ c \in Contents /\ c.cycle = d.cycle + 1
                                /\ c.overrides = d.overrides /\ c.number = d.number
      BY <2>4, CycleEdited
    <2> HIDE DEF c
    <2>6. \A g : g # f => ~Minds(calls[1], g)
      BY DEF Minds
    <2>7. ASSUME f \in DOMAIN feats, ~told'.cut
          PROVE  /\ InOrder(feats[f], r - 1, o, Does("move"))
                 /\ c.cycle = r /\ c.overrides = o
      <3>1. InOrder(feats[f], r - 1, o, Does("move"))
        BY <1>1, <1>3, <2>7 DEF InTune, UnderWay, Minds
      <3>2. s = feats[f].row.slug
        BY <2>2, <3>1 DEF InOrder, Files, Slugged
      <3>3. d.cycle = r - 1 /\ d.overrides = o
        BY <3>1, <3>2 DEF InOrder, d
      <3>4. r \in Nat
        BY <2>7, ToldOf
      <3> QED BY <2>5, <2>7, <3>1, <3>3, <3>4
    <2>8. ASSUME f \in DOMAIN feats, ~told'.cut, NEW F, InOrder(F, r, o, Does("move"))
          PROVE  UnderWay(F, calls'[1], f, told'.reviews[f], told'.overrides[f], Does("move"))
      BY <1>1, <1>3, <2>8, NoCallMinds DEF UnderWay
    <2>9. f \in DOMAIN feats =>
             /\ feats[f].file[s] # NoFile /\ c \in Contents
             /\ ~Does("move") => c.number = feats[f].file[s].number
      BY <2>4, <2>5 DEF d
    <2>10. f \in DOMAIN feats /\ ~told'.cut =>
              /\ \E m, n : InOrder(feats[f], m, n, Does("move"))
              /\ c.cycle = r /\ c.overrides = o
              /\ \A F : InOrder(F, r, o, Does("move")) =>
                    UnderWay(F, calls'[1], f, told'.reviews[f], told'.overrides[f], Does("move"))
      BY <2>7, <2>8
    <2>11. /\ \A g \in DOMAIN feats : g # f => /\ ~Minds(calls'[1], g)
                                              /\ told'.reviews[g] = told.reviews[g]
                                              /\ told'.overrides[g] = told.overrides[g]
           /\ calls'[1].op \notin {"move", "rename"} /\ UNCHANGED rscene
      BY <1>1, <1>3, NoCallMinds
    <2> HIDE DEF f, r, o
    <2> QED
      BY <2>2, <2>3, <2>6, <2>9, <2>10, <2>11, FileAgain, SMTT(80)
  <1> QED
    BY <1>2, <1>3 DEF IncrementFeatureReviewCycle

(* An override is written. *)
LEMMA OverrideKeeps ==
    ASSUME Typed, rscene.workers = 1, AllKept, InTune, ~told'.cut => ~told.cut,
           PersistFeatureOverrides(1)
    PROVE  AllKept' /\ InTune'
  <1> DEFINE k == calls[1]
             f == k.f
             s == k.slug
  <1>1. k.op = "override" /\ UNCHANGED rscene /\ calls'[1] = NoCall
        /\ f \in Nat /\ s \in Slugs /\ k.list \in Nat
    BY AloneCalls, CallShapes DEF PersistFeatureOverrides
  <1>2. CASE Cut(1) /\ UNCHANGED feats
    BY <1>1, <1>2, AloneCalls, CutKeeps
  <1>3. CASE /\ feats[f].file[s] # NoFile
             /\ feats' = [feats EXCEPT ![f].file[s].overrides = k.list]
             /\ told' = [told EXCEPT !.overrides[f] = @ + 1]
    <2> DEFINE d == feats[f].file[s]
               c == [d EXCEPT !.overrides = k.list]
               r == told.reviews[f]
               o == told.overrides[f] + 1
    <2>3. feats' = WithFile(f, s, c)
      BY <1>3 DEF WithFile
    <2>4. f \in DOMAIN feats => d # NoFile /\ d \in Contents
      BY <1>1, <1>3, FileAtHand DEF Slugged
    <2> HIDE DEF d
    <2>5. f \in DOMAIN feats => /\ c \in Contents /\ c.cycle = d.cycle
                                /\ c.overrides = k.list /\ c.number = d.number
      BY <1>1, <2>4, OverridesEdited
    <2> HIDE DEF c
    <2>6. \A g : g # f => ~Minds(calls[1], g)
      BY DEF Minds
    <2>t. f \in DOMAIN feats =>
             /\ told'.overrides[f] = o /\ told'.reviews = told.reviews
             /\ \A g \in DOMAIN feats : g # f => told'.overrides[g] = told.overrides[g]
      BY <1>3, ToldOf
    <2>u. f \notin DOMAIN feats => \A g \in DOMAIN feats : /\ told'.overrides[g] = told.overrides[g]
                                                           /\ told'.reviews[g] = told.reviews[g]
      BY <1>3 DEF Typed, RecordsTypeOK
    <2>7. ASSUME f \in DOMAIN feats, ~told'.cut
          PROVE  /\ InOrder(feats[f], r, told.overrides[f], Does("move"))
                 /\ c.cycle = r /\ c.overrides = o
      <3>1. InOrder(feats[f], r, told.overrides[f], Does("move")) /\ s = feats[f].row.slug
            /\ k.list = o
        BY <1>1, <2>7 DEF InTune, UnderWay, Minds
      <3>2. d.cycle = r
        BY <3>1 DEF InOrder, d
      <3> QED BY <2>5, <2>7, <3>1, <3>2
    <2>8. ASSUME f \in DOMAIN feats, ~told'.cut, NEW F, InOrder(F, r, o, Does("move"))
          PROVE  UnderWay(F, calls'[1], f, told'.reviews[f], told'.overrides[f], Does("move"))
      BY <1>1, <2>t, <2>8, NoCallMinds DEF UnderWay
    <2>9. f \in DOMAIN feats =>
             /\ feats[f].file[s] # NoFile /\ c \in Contents
             /\ ~Does("move") => c.number = feats[f].file[s].number
      BY <2>4, <2>5 DEF d
    <2>10. \A g \in DOMAIN feats : g # f => /\ told'.overrides[g] = told.overrides[g]
                                            /\ told'.reviews[g] = told.reviews[g]
      BY <2>t, <2>u
    <2>11. f \in DOMAIN feats /\ ~told'.cut =>
              /\ \E m, n : InOrder(feats[f], m, n, Does("move"))
              /\ c.cycle = r /\ c.overrides = o
              /\ \A F : InOrder(F, r, o, Does("move")) =>
                    UnderWay(F, calls'[1], f, told'.reviews[f], told'.overrides[f], Does("move"))
      BY <2>7, <2>8
    <2>12. /\ \A g : ~Minds(calls'[1], g)
           /\ calls'[1].op \notin {"move", "rename"}
           /\ s \in Slugs /\ UNCHANGED rscene
      BY <1>1, NoCallMinds
    <2> HIDE DEF k, f, r, o, s
    <2> QED
      BY <2>3, <2>6, <2>9, <2>10, <2>11, <2>12, FileAgain, SMTT(80)
  <1> QED
    BY <1>2, <1>3 DEF PersistFeatureOverrides, Over

(* A feature gets the number of its new parent. *)
LEMMA ReparentedKeeps ==
    ASSUME Typed, rscene.workers = 1, AllKept, InTune, FeatureReparented(1)
    PROVE  AllKept' /\ InTune'
  <1> DEFINE k == calls[1]
             f == k.f
             s == k.slug
             old == feats[f].file[s]
             n == <<"P", plans[k.plan].no, k.seq>>
             c == [old EXCEPT !.parent = k.plan, !.number = n]
  <1>1. k.op = "move" /\ k.step = "write" /\ UNCHANGED rscene /\ calls'[1] = NoCall
    BY AloneCalls DEF FeatureReparented
  <1>2. k \in Counting /\ f \in Nat /\ s \in Slugs /\ k.plan \in Nat /\ k.seq \in Nat
        /\ k.plan \in DOMAIN plans /\ Does("move")
    BY <1>1, AloneCalls, CallShapes, CountingFields DEF Typed, PlansFound, AllKept
  <1>3. CASE old = NoFile
    BY <1>1, <1>3, AloneCalls, CutKeeps DEF FeatureReparented
  <1>4. CASE old # NoFile
    <2>1. feats' = WithFile(f, s, c) /\ UNCHANGED told
      BY <1>4 DEF FeatureReparented
    <2>2. n \in Numbers
      <3>1. plans[k.plan] \in PlanRecords
        BY <1>2 DEF Typed, RecordsTypeOK
      <3> QED BY <1>2, <3>1 DEF Numbers, PlanRecords
    <2>3. f \in DOMAIN feats => old \in Contents
      BY <1>2, <1>4, FileAtHand DEF Slugged
    <2> HIDE DEF old, n
    <2>4. f \in DOMAIN feats => /\ c \in Contents /\ c.cycle = old.cycle
                                /\ c.overrides = old.overrides
      BY <1>2, <2>2, <2>3 DEF Contents
    <2> HIDE DEF c
    <2> DEFINE r == told.reviews[f]
               o == told.overrides[f]
    <2>5. \A g : ~Minds(calls[1], g) /\ ~Minds(calls'[1], g)
      BY <1>1, MindsNone, NoCallMinds
    <2>6. f \in DOMAIN feats /\ ~told'.cut =>
              /\ \E m, p : InOrder(feats[f], m, p, Does("move"))
              /\ c.cycle = r /\ c.overrides = o
              /\ \A F : InOrder(F, r, o, Does("move")) =>
                    UnderWay(F, calls'[1], f, told'.reviews[f], told'.overrides[f], Does("move"))
      <3> SUFFICES ASSUME f \in DOMAIN feats, ~told'.cut
                   PROVE  /\ \E m, p : InOrder(feats[f], m, p, Does("move"))
                          /\ c.cycle = r /\ c.overrides = o
                          /\ \A F : InOrder(F, r, o, Does("move")) =>
                                UnderWay(F, calls'[1], f, told'.reviews[f], told'.overrides[f],
                                         Does("move"))
        OBVIOUS
      <3>1. InOrder(feats[f], r, o, Does("move")) /\ Slugged(f) = {feats[f].row.slug}
        BY <2>1, <2>5, Ready
      <3>2. s = feats[f].row.slug
        BY <1>2, <1>4, <3>1 DEF Slugged, old
      <3>3. old.cycle = r /\ old.overrides = o
        BY <3>1, <3>2 DEF InOrder, old
      <3>4. \A F : InOrder(F, r, o, Does("move")) =>
                UnderWay(F, calls'[1], f, told'.reviews[f], told'.overrides[f], Does("move"))
        BY <2>1, <2>5 DEF UnderWay
      <3> QED BY <2>4, <3>1, <3>3, <3>4
    <2>7. f \in DOMAIN feats => feats[f].file[s] # NoFile /\ c \in Contents
      BY <1>4, <2>4 DEF old
    <2>8. /\ Does("move") /\ s \in Slugs /\ UNCHANGED <<rscene, told>>
          /\ calls'[1].op \notin {"move", "rename"}
      BY <1>1, <1>2, <2>1, NoCallMinds
    <2> HIDE DEF k, f, s, r, o
    <2> QED BY <2>1, <2>5, <2>6, <2>7, <2>8, FileAgain
  <1> QED
    BY <1>3, <1>4

(* The row of a new feature is written. *)
LEMMA CachedKeeps ==
    ASSUME Typed, rscene.workers = 1, AllKept, InTune, FeatureCached(1)
    PROVE  AllKept' /\ InTune'
  <1> DEFINE k == calls[1]
             f == k.f
             s == k.slug
             c == feats[f].file[s]
             x == [slug |-> s, c |-> c]
  <1>1. k.op = "create" /\ k.step = "row" /\ UNCHANGED <<rscene, told>> /\ calls'[1] = NoCall
        /\ s \in Slugs
    BY AloneCalls, CallShapes DEF FeatureCached
  <1>2. c # NoFile /\ feats' = WithRow(f, s, c)
    BY DEF FeatureCached
  <1>3. /\ DOMAIN feats' = DOMAIN feats
        /\ \A g \in DOMAIN feats : g # f => feats'[g] = feats[g]
        /\ f \in DOMAIN feats => feats'[f] = WroteRow(feats[f], s, c, x)
    BY <1>2 DEF WithRow, WroteRow
  <1>x. x.slug = s /\ x.c = c
    OBVIOUS
  <1> HIDE DEF x
  <1>4. \A g : /\ g # f => ~Minds(calls[1], g)
               /\ ~Minds(calls'[1], g)
    BY <1>1, NoCallMinds DEF Minds
  <1>5. ASSUME f \in DOMAIN feats
        PROVE  /\ feats'[f].row = x /\ feats'[f].file[s] = c
               /\ Files(feats'[f]) = Files(feats[f]) \cup {s}
    <2>1. feats[f] \in FeatureRecords
      BY <1>5 DEF Typed, RecordsTypeOK
    <2> HIDE DEF c, f, s
    <2> QED BY <1>1, <1>2, <1>3, <1>5, <2>1, WroteRowFields
  <1>6. ASSUME f \in DOMAIN feats, ~told'.cut
        PROVE  UnderWay(feats'[f], NoCall, f, told'.reviews[f], told'.overrides[f], Does("move"))
    <2>1. /\ Files(feats[f]) = {s} /\ c.cycle = told.reviews[f]
          /\ c.overrides = told.overrides[f]
      BY <1>1, <1>6 DEF InTune, UnderWay, Minds
    <2>2. InOrder(feats'[f], told.reviews[f], told.overrides[f], Does("move"))
      <3>1. feats'[f].row.slug = s /\ feats'[f].row.c = c
        BY <1>5, <1>6, <1>x
      <3> HIDE DEF c, f, s
      <3> QED BY <1>1, <1>5, <1>6, <2>1, <3>1 DEF InOrder
    <2> QED BY <1>1, <2>2, NoCallMinds DEF UnderWay
  <1>7. ASSUME f \in DOMAIN feats PROVE Kept(feats'[f], NoCall, f)
    BY <1>5, <1>7, NoCallMinds DEF Kept
  <1> HIDE DEF f, s, c
  <1> QED
    BY <1>1, <1>3, <1>4, <1>6, <1>7, NoCallMinds, OneFeature

(* A rename writes the new file, and removes the old one. *)
LEMMA RenameWritesKeeps ==
    ASSUME Typed, rscene.workers = 1, AllKept, InTune, RenameWrites(1)
    PROVE  AllKept' /\ InTune'
  <1> DEFINE k == calls[1]
             f == k.f
             j == [k EXCEPT !.step = "remove"]
  <1>1. /\ k.op = "rename" /\ k.step = "write" /\ UNCHANGED <<rscene, told>>
        /\ k.from \in Slugs /\ k.to \in Slugs /\ k.c \in Contents
        /\ k \in [op : {"rename"}, step : {"write", "remove"}, f : Nat, from : Slugs,
                  to : Slugs, c : Contents]
    BY AloneCalls, CallShapes DEF RenameWrites
  <1>2. j.op = "rename" /\ j.step = "remove" /\ j.f = f /\ j.from = k.from /\ j.to = k.to
        /\ j.c = k.c
    BY <1>1
  <1> HIDE DEF j
  <1>3. \A g : g # f => ~Minds(calls[1], g) /\ ~Minds(j, g) /\ ~Minds(NoCall, g)
    BY <1>2, NoCallMinds DEF Minds
  <1>4. CASE feats[f].file[k.to] # NoFile
    <2>1. calls'[1] = NoCall /\ UNCHANGED feats
      BY <1>4, AloneCalls DEF RenameWrites
    <2>2. ASSUME f \in DOMAIN feats, ~told.cut PROVE FALSE
      BY <1>1, <1>4, <2>2 DEF InTune, UnderWay, Minds
    <2>3. f \in DOMAIN feats => Kept(feats[f], NoCall, f)
      BY NoCallMinds DEF AllKept, Kept
    <2> HIDE DEF k, f
    <2> QED BY <1>1, <1>3, <2>1, <2>2, <2>3, NoCallMinds, OneFeature DEF k
  <1>5. CASE feats[f].file[k.to] = NoFile
    <2>1. calls'[1] = j /\ feats' = WithFile(f, k.to, k.c)
      BY <1>5, AloneCalls DEF RenameWrites, j
    <2>2. /\ DOMAIN feats' = DOMAIN feats
          /\ \A g \in DOMAIN feats : g # f => feats'[g] = feats[g]
          /\ f \in DOMAIN feats => feats'[f] = Wrote(feats[f], k.to, k.c)
      BY <2>1 DEF WithFile, Wrote
    <2>3. k.c # NoFile
      BY <1>1, ThereOrNot
    <2>4. ASSUME f \in DOMAIN feats
          PROVE  /\ feats'[f].row = feats[f].row
                 /\ \A t \in Slugs : feats'[f].file[t] = IF t = k.to THEN k.c ELSE feats[f].file[t]
                 /\ Files(feats'[f]) = Files(feats[f]) \cup {k.to}
                 /\ Wrote(feats'[f], k.to, NoFile) = feats[f]
                 /\ k.to # k.from
      <3>1. feats[f] \in FeatureRecords
        BY <2>4 DEF Typed, RecordsTypeOK
      <3>2. /\ feats'[f].row = feats[f].row
            /\ \A t \in Slugs : feats'[f].file[t] = IF t = k.to THEN k.c ELSE feats[f].file[t]
            /\ Files(feats'[f]) = Files(feats[f]) \cup {k.to}
        <4> DEFINE F == feats[f]
                   G == feats'[f]
                   t == k.to
                   c == k.c
        <4>1. F \in FeatureRecords /\ t \in Slugs /\ G = Wrote(F, t, c) /\ c # NoFile
          BY <1>1, <2>2, <2>3, <2>4, <3>1
        <4> HIDE DEF F, G, t, c
        <4>2. /\ G.row = F.row
              /\ \A u \in Slugs : G.file[u] = IF u = t THEN c ELSE F.file[u]
              /\ Files(G) = Files(F) \cup {t}
          BY <4>1, WroteFields
        <4> QED BY <4>2 DEF F, G, t, c
      <3>3. Wrote(feats'[f], k.to, NoFile) = feats[f]
        BY <1>1, <1>5, <2>2, <2>4, <3>1 DEF Wrote, FeatureRecords
      <3>4. k.to # k.from
        BY <1>1, <2>4 DEF AllKept, Kept
      <3> QED BY <3>2, <3>3, <3>4
    <2>5. ASSUME f \in DOMAIN feats PROVE Kept(feats'[f], j, f)
      BY <1>1, <1>2, <2>3, <2>4, <2>5 DEF Kept
    <2>6. ASSUME f \in DOMAIN feats, ~told'.cut
          PROVE  UnderWay(feats'[f], j, f, told'.reviews[f], told'.overrides[f], Does("move"))
      <3>1. /\ k.from = feats[f].row.slug /\ k.c = feats[f].file[k.from]
            /\ InOrder(Wrote(feats[f], k.to, NoFile), told.reviews[f], told.overrides[f],
                       Does("move"))
        BY <1>1, <2>6 DEF InTune, UnderWay, Minds
      <3>2. Wrote(feats[f], k.to, NoFile) = feats[f]
        <4>1. feats[f] \in FeatureRecords
          BY <2>6 DEF Typed, RecordsTypeOK
        <4> QED BY <1>5, <4>1 DEF Wrote, FeatureRecords
      <3>3. feats'[f].file[k.to] = k.c /\ feats'[f].file[k.from] = k.c
            /\ feats'[f].row.slug = k.from
        BY <1>1, <2>4, <2>6, <3>1
      <3> QED BY <1>1, <1>2, <2>4, <2>6, <3>1, <3>2, <3>3 DEF UnderWay, Minds
    <2> HIDE DEF k, f
    <2> QED BY <1>1, <1>2, <1>3, <2>1, <2>2, <2>5, <2>6, OneFeature DEF k
  <1> QED
    BY <1>4, <1>5

LEMMA RenameRemovesKeeps ==
    ASSUME Typed, rscene.workers = 1, AllKept, InTune, RenameRemoves(1)
    PROVE  AllKept' /\ InTune'
  <1> DEFINE k == calls[1]
             f == k.f
             x == [slug |-> k.to, c |-> k.c]
  <1>1. /\ k.op = "rename" /\ k.step = "remove" /\ UNCHANGED <<rscene, told>>
        /\ k.from \in Slugs /\ k.to \in Slugs /\ k.c \in Contents /\ calls'[1] = NoCall
    BY AloneCalls, CallShapes DEF RenameRemoves
  <1>2. \A g : (g # f => ~Minds(calls[1], g)) /\ ~Minds(calls'[1], g)
    BY <1>1, NoCallMinds DEF Minds
  <1>3. /\ DOMAIN feats' = DOMAIN feats
        /\ \A g \in DOMAIN feats : g # f => feats'[g] = feats[g]
        /\ f \in DOMAIN feats => feats'[f] = WroteRow(feats[f], k.from, NoFile, x)
    BY DEF RenameRemoves, WroteRow
  <1>x. x.slug = k.to /\ x.c = k.c
    OBVIOUS
  <1> HIDE DEF x
  <1>4. ASSUME f \in DOMAIN feats
        PROVE  /\ feats'[f].row = x
               /\ \A t \in Slugs : feats'[f].file[t] = IF t = k.from THEN NoFile ELSE feats[f].file[t]
               /\ Files(feats'[f]) = Files(feats[f]) \ {k.from}
    <2> DEFINE F == feats[f]
               G == feats'[f]
               t == k.from
               c == NoFile
    <2>1. F \in FeatureRecords /\ t \in Slugs /\ G = WroteRow(F, t, c, x) /\ c = NoFile
      BY <1>1, <1>3, <1>4 DEF Typed, RecordsTypeOK
    <2> HIDE DEF F, G, t, c
    <2>2. /\ G.row = x
          /\ \A u \in Slugs : G.file[u] = IF u = t THEN c ELSE F.file[u]
          /\ Files(G) = Files(F) \ {t}
      BY <2>1, WroteRowFields
    <2> QED BY <2>2 DEF F, G, t, c
  <1>5. ASSUME f \in DOMAIN feats PROVE Kept(feats'[f], NoCall, f)
    <2>1. k.to # k.from /\ feats[f].file[k.to] # NoFile
      BY <1>1, <1>5 DEF AllKept, Kept
    <2>2. k.to \in Files(feats'[f])
      BY <1>1, <1>4, <1>5, <2>1 DEF Files
    <2> QED BY <2>2, NoCallMinds DEF Kept
  <1>6. ASSUME f \in DOMAIN feats, ~told'.cut
        PROVE  UnderWay(feats'[f], NoCall, f, told'.reviews[f], told'.overrides[f], Does("move"))
    <2> DEFINE F == feats[f]
               H == Wrote(F, k.to, NoFile)
    <2>1. /\ k.from = F.row.slug /\ k.to # k.from /\ k.c = F.file[k.from]
          /\ InOrder(H, told.reviews[f], told.overrides[f], Does("move"))
          /\ F.file[k.to] = k.c
      BY <1>1, <1>6 DEF InTune, UnderWay, Minds
    <2>2. F \in FeatureRecords
      BY <1>6 DEF Typed, RecordsTypeOK
    <2>3. H.row = F.row /\ H.file[k.from] = k.c /\ Files(H) = Files(F) \ {k.to}
      <3> DEFINE t == k.to
                 c == NoFile
      <3>1. t \in Slugs /\ H = Wrote(F, t, c) /\ c = NoFile
        BY <1>1
      <3> HIDE DEF t, c, H, F
      <3>2. H.row = F.row /\ Files(H) = Files(F) \ {t}
            /\ \A u \in Slugs : H.file[u] = IF u = t THEN c ELSE F.file[u]
        BY <2>2, <3>1, WroteFields
      <3> QED BY <1>1, <2>1, <3>2 DEF t
    <2> HIDE DEF H
    <2>4. /\ Files(F) \ {k.to} = {k.from} /\ k.c.cycle = told.reviews[f]
          /\ k.c.overrides = told.overrides[f]
      BY <2>1, <2>3 DEF InOrder
    <2>5. Files(feats'[f]) = {k.to}
      <3>1. k.to \in Files(F)
        BY <1>1, <2>1, ThereOrNot DEF Files
      <3> QED BY <1>4, <1>6, <2>1, <2>4, <3>1
    <2>6. feats'[f].row.slug = k.to /\ feats'[f].row.c = k.c /\ feats'[f].file[k.to] = k.c
      BY <1>1, <1>4, <1>6, <1>x, <2>1
    <2>7. InOrder(feats'[f], told.reviews[f], told.overrides[f], Does("move"))
      BY <1>1, <2>4, <2>5, <2>6 DEF InOrder
    <2> QED BY <1>1, <2>7, NoCallMinds DEF UnderWay
  <1> HIDE DEF k, f
  <1> QED
    BY <1>1, <1>2, <1>3, <1>5, <1>6, NoCallMinds, OneFeature DEF k

LEMMA NewContents ==
    ASSUME NEW p, NEW n
    PROVE  LET c == NewFeature(p, n) IN
           c.cycle = 0 /\ c.overrides = 0 /\ c.number = n /\ c # NoFile
  <1>1. EntryState("feature") # "none"
    BY FeatureStates
  <1> QED
    BY <1>1 DEF NewFeature, NoFile

(* A new feature has its file, and the call its row still to write. *)
LEMMA FeatureWrittenKeeps ==
    ASSUME Typed, rscene.workers = 1, AllKept, InTune, ~told'.cut => ~told.cut,
           NEW s \in rscene.given.slugs, FeatureWritten(1, s)
    PROVE  AllKept' /\ InTune'
  <1> DEFINE g == Len(feats) + 1
             p == calls[1].plan
             c == NewFeature(p, <<plans[p].pre, plans[p].no, calls[1].seq>>)
             e == [file |-> [t \in Slugs |-> IF t = s THEN c ELSE NoFile],
                   row |-> [slug |-> "none"]]
             k == [op |-> "create", step |-> "row", f |-> g, slug |-> s]
  <1>1. /\ calls[1].op = "create" /\ calls[1].step = "write" /\ UNCHANGED rscene
        /\ feats' = Append(feats, e) /\ calls'[1] = k
        /\ told' = [told EXCEPT !.reviews = Append(@, 0), !.overrides = Append(@, 0)]
    BY AloneCalls DEF FeatureWritten
  <1>2. s \in Slugs /\ rscene \in RecordScenes
    BY RecordsAssumption DEF Typed, RecordsTypeOK
  <1>3. c.cycle = 0 /\ c.overrides = 0 /\ c # NoFile
    BY NewContents
  <1> HIDE DEF c
  <1>4. /\ e.row.slug = "none" /\ Files(e) = {s} /\ e.file[s] = c
    BY <1>2, <1>3 DEF Files
  <1>5. k.op = "create" /\ k.step = "row" /\ k.f = g /\ k.slug = s
    OBVIOUS
  <1> HIDE DEF e, k
  <1>6. /\ feats \in Seq(FeatureRecords) /\ DOMAIN feats = 1..Len(feats)
        /\ told \in [reviews : [DOMAIN feats -> Nat], overrides : [DOMAIN feats -> Nat],
                     cut : BOOLEAN]
    BY DEF Typed, RecordsTypeOK
  <1>7. /\ DOMAIN feats' = DOMAIN feats \cup {g} /\ g \notin DOMAIN feats /\ feats'[g] = e
        /\ \A f \in DOMAIN feats : feats'[f] = feats[f]
    BY <1>1, <1>6
  <1>8. /\ told'.reviews[g] = 0 /\ told'.overrides[g] = 0
        /\ \A f \in DOMAIN feats : /\ told'.reviews[f] = told.reviews[f]
                                   /\ told'.overrides[f] = told.overrides[f]
    <2>1. Len(feats) \in Nat /\ g = Len(feats) + 1
      BY <1>6
    <2> HIDE DEF g
    <2>2. told.reviews \in [1..Len(feats) -> Nat] /\ told.overrides \in [1..Len(feats) -> Nat]
      BY <1>6
    <2>3. told'.reviews = Append(told.reviews, 0) /\ told'.overrides = Append(told.overrides, 0)
      BY <1>1, <1>6
    <2>4. told'.reviews[g] = 0 /\ \A f \in DOMAIN feats : told'.reviews[f] = told.reviews[f]
      BY <1>6, <2>1, <2>2, <2>3, CountAppended
    <2>5. told'.overrides[g] = 0
          /\ \A f \in DOMAIN feats : told'.overrides[f] = told.overrides[f]
      BY <1>6, <2>1, <2>2, <2>3, CountAppended
    <2> QED BY <2>4, <2>5
  <1>9. \A f \in DOMAIN feats : ~Minds(k, f) /\ ~Minds(calls[1], f)
    BY <1>1, <1>5, <1>7 DEF Minds
  <1>10. Does("move")' = Does("move")
    BY <1>1 DEF Does
  <1> HIDE DEF g
  <1>11. Kept(e, k, g)
    BY <1>4, <1>5 DEF Kept
  <1>12. \A f \in DOMAIN feats : Kept(feats[f], k, f)
    BY <1>5 DEF AllKept, Kept
  <1>13. AllKept'
    BY <1>1, <1>5, <1>7, <1>10, <1>11, <1>12 DEF AllKept
  <1>14. ASSUME ~told'.cut PROVE InTune'
    <2>1. UnderWay(e, k, g, 0, 0, Does("move"))
      BY <1>3, <1>4, <1>5 DEF UnderWay, Minds
    <2>2. ASSUME NEW f \in DOMAIN feats
          PROVE  UnderWay(feats[f], k, f, told.reviews[f], told.overrides[f], Does("move"))
      BY <1>9, <1>14 DEF InTune, UnderWay
    <2> QED BY <1>1, <1>7, <1>8, <1>10, <2>1, <2>2 DEF InTune
  <1>15. InTune' \/ ~told'.cut
    BY DEF InTune
  <1> QED
    BY <1>13, <1>14, <1>15

(* The scenes start with features in order. *)
FeaturesGiven ==
    \A x \in RecordScenes : x.workers = 1 =>
        \A f \in DOMAIN x.given.features :
           InOrder(x.given.features[f], 0, 0, "move" \in x.does)

LEMMA QuietOps ==
    ASSUME NEW k, k.op \in {"none", "move", "plan", "save", "close", "unblock", "summary", "ask"}
    PROVE  \A f : ~Minds(k, f)
  BY MindsNone

LEMMA FilesStep ==
    ASSUME Typed, rscene.workers = 1, AllKept, InTune, [RecordsNext]_rvars
    PROVE  AllKept' /\ InTune'
  <1>a. Workers = {1} /\ calls[1] \in CallRecords /\ (~told'.cut => ~told.cut) /\ UNCHANGED rscene
    BY AloneCalls, CutStays, SceneKept
  <1>b. \A k : To(1, k) => calls'[1] = k
    BY AloneCalls
  <1>n. NoCall.op = "none"
    BY NoCallMinds
  <1>c. ASSUME UNCHANGED <<feats, told>>, calls[1].op # "create" \/ calls[1].step # "row",
               calls[1].op \notin {"count", "override", "rename"},
               calls'[1].op \in {"none", "move", "plan", "save", "close", "unblock", "summary",
                                 "ask"}
                  \/ (calls'[1].op = "create" /\ calls'[1].step # "row"),
               calls'[1].op = "move" => Does("move")
        PROVE  AllKept' /\ InTune'
    <2>1. \A f : ~Minds(calls[1], f)
      BY <1>c, MindsNone
    <2>2. \A f : ~Minds(calls'[1], f)
      BY <1>c, MindsNone
    <2> QED BY <1>a, <1>c, <2>1, <2>2, NoFeature
  <1>d. ASSUME Cut(1), UNCHANGED feats PROVE AllKept' /\ InTune'
    BY <1>a, <1>d, AloneCalls, CutKeeps
  <1>e. ASSUME UNCHANGED <<feats, told, calls>> PROVE AllKept' /\ InTune'
    BY <1>a, <1>e DEF AllKept, InTune, Does
  <1>1. CASE CallOnAFeature(1)
    <2>1. ASSUME NEW f \in DOMAIN feats, NEW p \in DOMAIN plans, MoveNumbered(1, f, p)
          PROVE  AllKept' /\ InTune'
      <3>1. calls[1].op = "none" /\ UNCHANGED <<feats, told>> /\ Does("move")
        BY <1>n, <2>1 DEF MoveNumbered, Free
      <3>2. calls'[1].op = "move"
        BY <1>b, <2>1 DEF MoveNumbered
      <3> QED BY <1>c, <3>1, <3>2
    <2>2. ASSUME NEW f \in DOMAIN feats, NEW s \in Located(f),
                 \/ \E t \in Slugs : RenameBegins(1, f, s, t)
                 \/ \E to : Transitioned(1, f, s, to)
                 \/ OverrideBegins(1, f, s)
                 \/ ReviewCapReached(1, f, s)
          PROVE  AllKept' /\ InTune'
      BY <1>a, <2>2, RenameBeginsKeeps, TransitionedKeeps, OverrideBeginsKeeps, ReviewCapKeeps
    <2> QED BY <1>1, <2>1, <2>2 DEF CallOnAFeature
  <1>2. CASE CallOnAPlan(1)
    <2>1. calls[1].op = "none" /\ UNCHANGED <<feats, told>>
      BY <1>2, <1>n DEF CallOnAPlan, PlanNumbered, FeatureNumbered, UpdatePlan, UpdatePlanStatus,
                UpdateStrategicPlan, MaybeAutoAdvancePlan, Free
    <2>2. \/ calls'[1].op \in {"plan", "save"}
          \/ calls'[1].op = "create" /\ calls'[1].step = "count"
      <3>1. ASSUME NEW p, FeatureNumbered(1, p)
            PROVE  calls'[1].op = "create" /\ calls'[1].step = "count"
        <4>1. PICK seq, n : calls'[1] = [op |-> "create", step |-> "count", plan |-> p,
                                         seq |-> seq, new |-> n]
          BY <3>1, <1>b DEF FeatureNumbered
        <4> QED BY <4>1
      <3>2. ASSUME NEW pre, NEW slug, PlanNumbered(1, pre, slug) PROVE calls'[1].op = "plan"
        BY <3>2, <1>b DEF PlanNumbered
      <3>3. ASSUME NEW p, \/ UpdatePlan(1, p) \/ MaybeAutoAdvancePlan(1, p)
                          \/ \E to : UpdatePlanStatus(1, p, to)
                          \/ \E q : UpdateStrategicPlan(1, p, q)
            PROVE  calls'[1].op = "save"
        <4>1. PICK n, c : calls'[1] = [op |-> "save", plan |-> p, new |-> n, close |-> c]
          <5>1. CASE UpdatePlan(1, p)
            BY <5>1, <1>b DEF UpdatePlan
          <5>2. CASE MaybeAutoAdvancePlan(1, p)
            BY <5>2, <1>b DEF MaybeAutoAdvancePlan
          <5>3. ASSUME NEW to, UpdatePlanStatus(1, p, to)
                PROVE  \E n, c : calls'[1] = [op |-> "save", plan |-> p, new |-> n, close |-> c]
            BY <5>3, <1>b DEF UpdatePlanStatus
          <5>4. ASSUME NEW q, UpdateStrategicPlan(1, p, q)
                PROVE  \E n, c : calls'[1] = [op |-> "save", plan |-> p, new |-> n, close |-> c]
            BY <5>4, <1>b DEF UpdateStrategicPlan
          <5> QED BY <3>3, <5>1, <5>2, <5>3, <5>4
        <4> QED BY <4>1
      <3> QED BY <1>2, <3>1, <3>2, <3>3 DEF CallOnAPlan
    <2> QED BY <1>c, <2>1, <2>2
  <1>3. CASE CallGoesOn(1)
    <2>1. CASE PlanCreated(1) \/ FeatureRefused(1) \/ CheckpointCreated(1)
      <3>1. calls[1].op \in {"plan", "create", "ask"} /\ UNCHANGED <<feats, told>>
            /\ (calls[1].op = "create" => calls[1].step = "write") /\ calls'[1].op = "none"
        BY <2>1, <1>b, <1>n DEF PlanCreated, FeatureRefused, CheckpointCreated, Over
      <3> QED BY <1>c, <3>1
    <2>2. CASE ParentCounts(1)
      <3>1. /\ calls[1].op \in {"create", "move"} /\ calls[1].step = "count"
            /\ UNCHANGED <<feats, told>> /\ calls'[1] = [calls[1] EXCEPT !.step = "write"]
        BY <2>2, <1>b DEF ParentCounts
      <3>2. calls[1] \in Counting
        BY <1>a, <3>1, CallShapes
      <3>3. calls'[1].op = calls[1].op /\ calls'[1].step = "write"
        BY <3>1, <3>2 DEF Counting
      <3>4. calls[1].op = "move" => Does("move")
        BY DEF AllKept
      <3> QED BY <1>c, <3>1, <3>3, <3>4
    <2>3. CASE PlanSaved(1)
      <3>1. calls[1].op = "save" /\ UNCHANGED <<feats, told>> /\ calls'[1].op \in {"close", "none"}
        BY <2>3, <1>b, <1>n DEF PlanSaved, Over
      <3> QED BY <1>c, <3>1
    <2>4. CASE PlanCloses(1)
      <3>1. calls[1].op = "close" /\ UNCHANGED feats
            /\ (Cut(1) \/ (UNCHANGED told /\ calls'[1].op = "save"))
        BY <2>4, <1>b DEF PlanCloses
      <3> QED BY <1>c, <1>d, <3>1
    <2>5. CASE CompletionWritten(1)
      <3>1. calls[1].op = "summary" /\ UNCHANGED feats
            /\ (Cut(1) \/ (UNCHANGED told /\ calls'[1].op = "none"))
        BY <2>5, <1>b, <1>n DEF CompletionWritten, Over
      <3> QED BY <1>c, <1>d, <3>1
    <2>6. ASSUME NEW s \in rscene.given.slugs, FeatureWritten(1, s) PROVE AllKept' /\ InTune'
      BY <1>a, <2>6, FeatureWrittenKeeps
    <2>7. CASE FeatureCached(1)
      BY <2>7, CachedKeeps
    <2>8. CASE FeatureReparented(1)
      BY <2>8, ReparentedKeeps
    <2>9. CASE RenameWrites(1)
      BY <2>9, RenameWritesKeeps
    <2>10. CASE RenameRemoves(1)
      BY <2>10, RenameRemovesKeeps
    <2>11. CASE IncrementFeatureReviewCycle(1)
      BY <1>a, <2>11, CountKeeps
    <2>12. CASE PersistFeatureOverrides(1)
      BY <1>a, <2>12, OverrideKeeps
    <2>13. CASE ClearBlockedReason(1)
      BY <2>13, UnblockKeeps
    <2> QED
      BY <1>3, <2>1, <2>2, <2>3, <2>4, <2>5, <2>6, <2>7, <2>8, <2>9, <2>10, <2>11, <2>12, <2>13
      DEF CallGoesOn
  <1>4. ASSUME NEW t \in DOMAIN tasks, CompleteTask(1, t) PROVE AllKept' /\ InTune'
    <2>1. calls[1].op = "none" /\ UNCHANGED <<feats, told>> /\ calls'[1].op = "summary"
      BY <1>4, <1>b, <1>n DEF CompleteTask, Free
    <2> QED BY <1>c, <2>1
  <1>5. ASSUME NEW i \in DOMAIN checkpoints, RespondCheckpoint(1, i) PROVE AllKept' /\ InTune'
    <2>1. calls[1] = NoCall /\ UNCHANGED <<feats, told>>
          /\ (UNCHANGED calls \/ calls'[1].op = "unblock")
      BY <1>5, <1>b DEF RespondCheckpoint, Free
    <2> QED BY <1>c, <1>e, <1>n, <2>1
  <1>6. CASE RecordsCrash(1)
    BY <1>6, <1>d DEF RecordsCrash
  <1>7. CASE \/ \E slug, report \in Slugs : CreateBug(slug, report)
             \/ CallOnAnIncident \/ UNCHANGED rvars
    <2>1. UNCHANGED <<feats, told, calls>>
      BY <1>7 DEF CreateBug, CallOnAnIncident, CreateIncident, CreateDecision, NewRecord,
                  UpdateIncident, LinkBug, rvars
    <2> QED BY <1>e, <2>1
  <1> QED
    BY <1>a, <1>1, <1>2, <1>3, <1>4, <1>5, <1>6, <1>7 DEF RecordsNext

LEMMA FilesInit == ASSUME FeaturesGiven, RecordsInit, rscene.workers = 1 PROVE AllKept /\ InTune
  <1>1. Workers = {1} /\ calls[1] = NoCall /\ feats = rscene.given.features
        /\ rscene \in RecordScenes
    BY DEF RecordsInit, Workers
  <1>2. \A f \in DOMAIN feats : InOrder(feats[f], 0, 0, Does("move"))
    BY <1>1 DEF FeaturesGiven, Does
  <1>3. \A f \in DOMAIN feats : told.reviews[f] = 0 /\ told.overrides[f] = 0
    BY DEF RecordsInit
  <1>4. AllKept
    BY <1>1, <1>2, NoCallMinds DEF AllKept, Kept, InOrder
  <1>5. InTune
    BY <1>1, <1>2, <1>3, NoCallMinds DEF InTune, UnderWay
  <1> QED
    BY <1>4, <1>5

(* With one worker, the features are kept and in tune. *)
FilesInv == rscene.workers = 1 => AllKept /\ InTune

LEMMA FilesAlways == ASSUME FeaturesGiven PROVE RecordsSpec => [](Typed /\ FilesInv)
  <1>1. RecordsInit => Typed /\ FilesInv
    BY TypedInit, FilesInit DEF FilesInv
  <1>2. Typed /\ FilesInv /\ [RecordsNext]_rvars => Typed' /\ FilesInv'
    BY TypedStep, FilesStep, SceneKept DEF FilesInv
  <1> QED
    BY <1>1, <1>2, PTL DEF RecordsSpec

LEMMA FoundByNumber ==
    ASSUME Typed, NumbersInv, FilesInv PROVE RecordsStayFound
  <1> SUFFICES ASSUME rscene.workers = 1, NEW f \in DOMAIN feats
               PROVE  /\ Slugged(f) # {}
                      /\ AtRest /\ ~told.cut =>
                           /\ Slugged(f) = {feats[f].row.slug}
                           /\ \A s \in Slugged(f) :
                                LET n == feats[f].file[s].number IN
                                (IF Does("move") THEN ScanForDisplayID(n)
                                 ELSE ResolveFeatureDisplayID(n)) = {f}
    BY DEF RecordsStayFound
  <1>1. AllKept /\ InTune
    BY DEF FilesInv
  <1>2. Slugged(f) # {}
    BY <1>1 DEF AllKept, Kept, Files, Slugged
  <1> SUFFICES ASSUME AtRest, ~told.cut
               PROVE  /\ Slugged(f) = {feats[f].row.slug}
                      /\ \A s \in Slugged(f) :
                           LET n == feats[f].file[s].number IN
                           (IF Does("move") THEN ScanForDisplayID(n)
                            ELSE ResolveFeatureDisplayID(n)) = {f}
    BY <1>2
  <1>3. \A g : ~Minds(calls[1], g)
    BY AloneCalls, NoCallMinds DEF AtRest, Free
  <1>4. \A g \in DOMAIN feats :
           /\ feats[g].row.slug \in Slugs /\ Slugged(g) = {feats[g].row.slug}
           /\ InOrder(feats[g], told.reviews[g], told.overrides[g], Does("move"))
    BY <1>1, <1>3, Ready
  <1>5. NumberNamesOneFeature
    BY NumbersTellApart
  <1>6. \A g, h \in DOMAIN feats : \A s \in Slugged(g), t \in Slugged(h) :
           g # h => feats[g].file[s].number # feats[h].file[t].number
    BY <1>5 DEF NumberNamesOneFeature
  <1>7. ASSUME NEW s \in Slugged(f) PROVE ScanForDisplayID(feats[f].file[s].number) = {f}
    BY <1>6, <1>7 DEF ScanForDisplayID
  <1>8. ASSUME NEW s \in Slugged(f), ~Does("move")
        PROVE  ResolveFeatureDisplayID(feats[f].file[s].number) = {f}
    <2> DEFINE n == feats[f].file[s].number
    <2>1. \A g \in DOMAIN feats : feats[g].row.c.number = feats[g].file[feats[g].row.slug].number
                                  /\ feats[g].row.slug # "none"
      BY <1>4, <1>8, RecordsAssumption DEF InOrder
    <2>2. s = feats[f].row.slug
      BY <1>4
    <2>3. \A g \in DOMAIN feats : g # f => feats[g].row.c.number # n
      BY <1>4, <1>6, <2>1
    <2> QED BY <2>1, <2>2, <2>3 DEF ResolveFeatureDisplayID
  <1> QED
    BY <1>4, <1>7, <1>8

(* A record is never without a file; between calls, when none was cut, the  *)
(* cache knows the file and the number of the record finds it.  The         *)
(* invariant says of a feature in the hands of a call what the call has     *)
(* still to write: the other file of a rename, the count of a review, the   *)
(* list of overrides, the row of a new feature.                             *)
THEOREM RecordsAreFound ==
    ASSUME NumbersGiven, FeaturesGiven PROVE RecordsSpec => []RecordsStayFound
  <1>1. RecordsInit => NumbersInv
    BY NumbersInit
  <1>2. RecordsSpec => [](Typed /\ FilesInv)
    BY FilesAlways
  <1>3. NumbersInv /\ Typed /\ Typed' /\ [RecordsNext]_rvars => NumbersInv'
    BY NumbersStep
  <1>4. Typed /\ NumbersInv /\ FilesInv => RecordsStayFound
    BY FoundByNumber
  <1> QED
    BY <1>1, <1>2, <1>3, <1>4, PTL DEF RecordsSpec


-----------------------------------------------------------------------------
(* What a call writes in a second step. *)

(* The scenes start with the completion of completed tasks. *)
TasksGiven ==
    \A x \in RecordScenes : \A t \in DOMAIN x.given.tasks :
        x.given.tasks[t].st # "active" => x.given.tasks[t].summary

Completes ==
    ~told.cut => \A t \in DOMAIN tasks : tasks[t].st # "active" =>
       tasks[t].summary \/ \E w \in Workers : calls[w].op = "summary" /\ calls[w].t = t

LEMMA OtherCompletes ==
    ASSUME Typed, Completes, UNCHANGED <<rscene, tasks>>, ~told'.cut => ~told.cut,
           NEW w \in Workers, calls[w].op # "summary", NEW k, To(w, k)
    PROVE  Completes'
  <1>1. Workers' = Workers /\ calls \in [Workers -> CallRecords]
    BY DEF Workers, Typed, RecordsTypeOK
  <1>2. \A v \in Workers : calls[v].op = "summary" => calls'[v] = calls[v]
    BY <1>1 DEF To
  <1> QED
    BY <1>1, <1>2 DEF Completes

LEMMA CompletesStep == ASSUME Typed, Completes, [RecordsNext]_rvars PROVE Completes'
  <1>a. (~told'.cut => ~told.cut) /\ UNCHANGED rscene /\ NoCall.op # "summary"
    BY CutStays, SceneKept, NoCallMinds
  <1>b. calls \in [Workers -> CallRecords] /\ Workers' = Workers
    BY <1>a DEF Typed, RecordsTypeOK, Workers
  <1>c. ASSUME NEW w \in Workers, Cut(w) PROVE Completes'
    <2>1. told'.cut
      BY <1>c DEF Cut, Typed, RecordsTypeOK
    <2> QED BY <2>1 DEF Completes
  <1>d. ASSUME NEW w \in Workers, calls[w].op # "summary", UNCHANGED tasks,
               \E k : To(w, k)
        PROVE  Completes'
    BY <1>a, <1>d, OtherCompletes
  <1>e. ASSUME UNCHANGED <<tasks, calls>> PROVE Completes'
    BY <1>a, <1>b, <1>e DEF Completes
  <1>1. ASSUME NEW w \in Workers, CallOnAFeature(w) PROVE Completes'
    <2>1. calls[w] = NoCall /\ UNCHANGED tasks /\ (UNCHANGED calls \/ \E k : To(w, k))
      BY <1>1, ZenonT(80) DEF CallOnAFeature, MoveNumbered, RenameBegins, Transitioned, OverrideBegins,
                  ReviewCapReached, Free
    <2> QED BY <1>a, <1>d, <1>e, <2>1
  <1>2. ASSUME NEW w \in Workers, CallOnAPlan(w) PROVE Completes'
    <2>1. calls[w] = NoCall /\ UNCHANGED tasks
      BY <1>2 DEF CallOnAPlan, PlanNumbered, FeatureNumbered, UpdatePlan, UpdatePlanStatus,
                  UpdateStrategicPlan, MaybeAutoAdvancePlan, Free
    <2>2. \E k : To(w, k)
      BY <1>2, ZenonT(40) DEF CallOnAPlan, PlanNumbered, FeatureNumbered, UpdatePlan, UpdatePlanStatus,
                  UpdateStrategicPlan, MaybeAutoAdvancePlan
    <2> QED BY <1>a, <1>d, <2>1, <2>2
  <1>3. ASSUME NEW w \in Workers, CallGoesOn(w) PROVE Completes'
    <2>1. CASE CompletionWritten(w)
      <3>1. CASE Cut(w)
        BY <1>c, <3>1
      <3>2. CASE ~Cut(w)
        <4> DEFINE t == calls[w].t
        <4>1. /\ tasks' = [tasks EXCEPT ![t].summary = TRUE] /\ Over(w) /\ UNCHANGED told
              /\ calls[w].op = "summary"
          BY <2>1, <3>2 DEF CompletionWritten
        <4>2. tasks \in Seq(TaskRecords)
          BY DEF Typed, RecordsTypeOK
        <4>3. DOMAIN tasks' = DOMAIN tasks
              /\ \A u \in DOMAIN tasks : /\ tasks'[u].st = tasks[u].st
                                         /\ tasks[u].summary => tasks'[u].summary
                                         /\ u = t => tasks'[u].summary
          BY <4>1, <4>2 DEF TaskRecords
        <4>4. \A v \in Workers : v # w => calls'[v] = calls[v]
          BY <1>b, <4>1 DEF Over, To
        <4>5. ASSUME NEW u \in DOMAIN tasks, tasks[u].st # "active", ~told.cut
              PROVE  tasks'[u].summary
                     \/ \E v \in Workers : calls'[v].op = "summary" /\ calls'[v].t = u
          <5>1. tasks[u].summary \/ \E v \in Workers : calls[v].op = "summary" /\ calls[v].t = u
            BY <4>5 DEF Completes
          <5>2. ASSUME NEW v \in Workers, calls[v].op = "summary", calls[v].t = u
                PROVE  tasks'[u].summary
                       \/ \E x \in Workers : calls'[x].op = "summary" /\ calls'[x].t = u
            BY <4>3, <4>4, <4>5, <5>2
          <5> QED BY <4>3, <5>1, <5>2
        <4> QED BY <1>b, <4>1, <4>3, <4>5 DEF Completes
      <3> QED BY <3>1, <3>2
    <2>2. CASE PlanCreated(w) \/ ParentCounts(w) \/ FeatureRefused(w) \/ FeatureCached(w)
               \/ (\E s \in rscene.given.slugs : FeatureWritten(w, s)) \/ PlanSaved(w)
               \/ RenameWrites(w) \/ RenameRemoves(w) \/ CheckpointCreated(w)
               \/ ClearBlockedReason(w)
      <3>1. calls[w].op # "summary" /\ UNCHANGED tasks
        BY <2>2 DEF PlanCreated, ParentCounts, FeatureRefused, FeatureCached, FeatureWritten,
                    PlanSaved, RenameWrites, RenameRemoves, CheckpointCreated, ClearBlockedReason
      <3>2. \E k : To(w, k)
        BY <2>2 DEF PlanCreated, ParentCounts, FeatureRefused, FeatureCached, FeatureWritten,
                    PlanSaved, RenameWrites, RenameRemoves, CheckpointCreated,
                    ClearBlockedReason, Over
      <3> QED BY <1>d, <3>1, <3>2
    <2>3. CASE FeatureReparented(w) \/ PlanCloses(w) \/ IncrementFeatureReviewCycle(w)
               \/ PersistFeatureOverrides(w)
      <3>1. calls[w].op # "summary" /\ UNCHANGED tasks /\ (Cut(w) \/ \E k : To(w, k))
        BY <2>3 DEF FeatureReparented, PlanCloses, IncrementFeatureReviewCycle,
                    PersistFeatureOverrides, Over
      <3> QED BY <1>c, <1>d, <3>1
    <2> QED BY <1>3, <2>1, <2>2, <2>3 DEF CallGoesOn
  <1>4. ASSUME NEW w \in Workers, NEW t \in DOMAIN tasks, CompleteTask(w, t) PROVE Completes'
    <2> DEFINE k == [op |-> "summary", t |-> t]
    <2>1. calls[w] = NoCall /\ calls'[w] = k /\ (\A v \in Workers : v # w => calls'[v] = calls[v])
          /\ UNCHANGED told
      BY <1>4, <1>b DEF CompleteTask, Free, To
    <2>2. k.op = "summary" /\ k.t = t
      OBVIOUS
    <2> HIDE DEF k
    <2>3. DOMAIN tasks' = DOMAIN tasks /\ \A u \in DOMAIN tasks : u # t => tasks'[u] = tasks[u]
      BY <1>4 DEF CompleteTask
    <2> QED BY <1>a, <1>b, <2>1, <2>2, <2>3 DEF Completes
  <1>5. ASSUME NEW w \in Workers, NEW i \in DOMAIN checkpoints, RespondCheckpoint(w, i)
        PROVE  Completes'
    <2>1. calls[w] = NoCall /\ UNCHANGED tasks /\ (UNCHANGED calls \/ \E k : To(w, k))
      BY <1>5 DEF RespondCheckpoint, Free
    <2> QED BY <1>a, <1>d, <1>e, <2>1
  <1>6. ASSUME NEW w \in Workers, RecordsCrash(w) PROVE Completes'
    BY <1>6, <1>c DEF RecordsCrash
  <1>7. CASE \/ \E slug, report \in Slugs : CreateBug(slug, report)
             \/ CallOnAnIncident \/ UNCHANGED rvars
    <2>1. UNCHANGED <<tasks, calls>>
      BY <1>7 DEF CreateBug, CallOnAnIncident, CreateIncident, CreateDecision, NewRecord,
                  UpdateIncident, LinkBug, rvars
    <2> QED BY <1>e, <2>1
  <1> QED
    BY <1>1, <1>2, <1>3, <1>4, <1>5, <1>6, <1>7 DEF RecordsNext

LEMMA CompletesInit == ASSUME TasksGiven, RecordsInit PROVE Completes
  BY DEF RecordsInit, TasksGiven, Completes

-----------------------------------------------------------------------------
(* The plans, with calls one at a time. *)

Counts(k) == k.op \in {"create", "move"} /\ k.step = "count"
Writes(k) == k.op = "save" \/ Counts(k)

(* What a step does that writes no plan: the call it leaves, if not the one *)
(* it found, is not about a plan.                                          *)
PlansAside ==
    /\ UNCHANGED plans
    /\ \/ UNCHANGED <<calls, told>>
       \/ told'.cut /\ calls'[1] = NoCall
       \/ /\ calls[1].op \notin {"save", "close"}
          /\ ~Writes(calls'[1]) /\ calls'[1].op \notin {"plan", "close"}

(* A call begins that writes plan p, as it was loaded but for one change. *)
PlanAtHand(p) ==
    /\ UNCHANGED plans /\ calls[1] = NoCall
    /\ calls'[1].plan = p /\ calls'[1].new \in PlanRecords /\ Writes(calls'[1])
    /\ \/ /\ calls'[1].new.st = plans[p].st
          /\ calls'[1].new.parent = plans[p].parent
       \/ /\ Does("plan status") /\ calls'[1].new.parent = plans[p].parent
       \/ /\ Does("close") /\ calls'[1].op = "save" /\ calls'[1].close
          /\ calls'[1].new.parent = plans[p].parent
       \/ /\ calls'[1].new.st = plans[p].st
          /\ calls'[1].new.parent \in 0..Len(plans)
          /\ calls'[1].new.parent # 0 => p \notin Ancestors(calls'[1].new.parent)

PlanThoughtOf ==
    /\ UNCHANGED plans /\ calls[1] = NoCall
    /\ calls'[1].op = "plan"
    /\ calls'[1].new.st \in {EntryState("batch"), EntryState("strategic-plan")}
    /\ calls'[1].new.parent = 0

(* The call writes the plan it has at hand, and may be about to close it.   *)
PlanWrittenBack ==
    /\ Writes(calls[1])
    /\ plans' = [plans EXCEPT ![calls[1].plan] = calls[1].new]
    /\ \/ ~Writes(calls'[1]) /\ calls'[1].op \notin {"plan", "close"}
          /\ (calls[1].op = "save" => ~calls[1].close)
       \/ /\ calls[1].op = "save" /\ calls[1].close
          /\ calls'[1].op = "close" /\ calls'[1].plan = calls[1].plan

PlanToBeClosed ==
    /\ UNCHANGED plans /\ calls[1].op = "close"
    /\ calls'[1].op = "save" /\ calls'[1].plan = calls[1].plan /\ calls'[1].new.st = "done"
    /\ ~calls'[1].close /\ calls'[1].new \in PlanRecords
    /\ calls'[1].new.parent = plans[calls[1].plan].parent

LEMMA PlanBegins ==
    ASSUME Typed, rscene.workers = 1, NEW p \in DOMAIN plans,
           \/ FeatureNumbered(1, p) \/ UpdatePlan(1, p)
           \/ \E to : UpdatePlanStatus(1, p, to)
           \/ \E q \in 0..Len(plans) : UpdateStrategicPlan(1, p, q)
           \/ MaybeAutoAdvancePlan(1, p)
           \/ \E f \in DOMAIN feats : MoveNumbered(1, f, p)
    PROVE  PlanAtHand(p)
  <1>a. Workers = {1} /\ \A k : To(1, k) => calls'[1] = k
    BY AloneCalls
  <1>b. plans[p] \in PlanRecords /\ plans \in Seq(PlanRecords) /\ Len(plans) \in Nat
    BY DEF Typed, RecordsTypeOK
  <1>1. CASE FeatureNumbered(1, p)
    <2>1. PICK seq \in Nat : /\ calls'[1] = CountOf(p, seq, [plans[p] EXCEPT !.next = seq + 1])
                             /\ [plans[p] EXCEPT !.next = seq + 1] \in PlanRecords
      BY <1>1, <1>a, FeatureNumberedIs
    <2> DEFINE n == [plans[p] EXCEPT !.next = seq + 1]
    <2>2. n.st = plans[p].st /\ n.parent = plans[p].parent /\ n \in PlanRecords
      BY <1>b, <2>1, NextChanged
    <2> HIDE DEF n
    <2>3. calls'[1] = CountOf(p, seq, n)
      BY <2>1 DEF n
    <2>4. Counts(calls'[1]) /\ calls'[1].plan = p /\ calls'[1].new = n
      BY <2>3 DEF CountOf, Counts
    <2>5. UNCHANGED plans /\ calls[1] = NoCall
      BY <1>1 DEF FeatureNumbered, Free
    <2> QED BY <2>2, <2>4, <2>5 DEF PlanAtHand, Writes
  <1>2. CASE UpdatePlan(1, p)
    <2>1. calls'[1] = SaveOf(p, plans[p], FALSE) /\ UNCHANGED plans /\ calls[1] = NoCall
      BY <1>2, <1>a DEF UpdatePlan, SaveOf, Free
    <2>2. calls'[1].op = "save" /\ calls'[1].plan = p /\ calls'[1].new = plans[p]
      BY <2>1 DEF SaveOf
    <2> QED BY <1>b, <2>1, <2>2 DEF PlanAtHand, Writes
  <1>3. ASSUME NEW to, UpdatePlanStatus(1, p, to) PROVE PlanAtHand(p)
    <2>0. PICK n : n = Moved(p, to)
      OBVIOUS
    <2>1. calls'[1] = [op |-> "save", plan |-> p, new |-> n, close |-> FALSE]
      BY <1>3, <1>a, <2>0 DEF UpdatePlanStatus
    <2>2. n \in PlanRecords /\ n.parent = plans[p].parent
      BY <1>b, <1>3, <2>0, MovedType DEF UpdatePlanStatus
    <2>3. calls'[1].op = "save" /\ calls'[1].plan = p /\ calls'[1].new = n
      BY <2>1
    <2>4. UNCHANGED plans /\ calls[1] = NoCall /\ Does("plan status")
      BY <1>3 DEF UpdatePlanStatus, Free
    <2> QED BY <2>2, <2>3, <2>4 DEF PlanAtHand, Writes
  <1>4. ASSUME NEW q \in 0..Len(plans), UpdateStrategicPlan(1, p, q) PROVE PlanAtHand(p)
    <2> DEFINE n == [plans[p] EXCEPT !.parent = q]
    <2>1. calls'[1] = SaveOf(p, n, FALSE) /\ UNCHANGED plans /\ calls[1] = NoCall
          /\ (q # 0 => p \notin Ancestors(q))
      BY <1>4, <1>a DEF UpdateStrategicPlan, SaveOf, Free, DetectStrategicPlanCycle
    <2>2. n \in PlanRecords /\ n.parent = q /\ n.st = plans[p].st
      <3>1. q \in Nat
        BY <1>b
      <3> QED BY <1>b, <3>1 DEF PlanRecords
    <2> HIDE DEF n
    <2>3. calls'[1].op = "save" /\ calls'[1].plan = p /\ calls'[1].new = n
      BY <2>1 DEF SaveOf
    <2> QED BY <2>1, <2>2, <2>3 DEF PlanAtHand, Writes
  <1>5. CASE MaybeAutoAdvancePlan(1, p)
    <2>1. calls'[1] = SaveOf(p, Moved(p, "reviewing"), TRUE) /\ UNCHANGED plans
          /\ calls[1] = NoCall /\ Does("close") /\ plans[p].st = "active" /\ Kind(p) = "batch"
      BY <1>5, <1>a DEF MaybeAutoAdvancePlan, SaveOf, Free
    <2>2. PlanMayMove(p, "reviewing")
      <3>1. <<"active", "reviewing">> \in BatchEdges BY DEF BatchEdges
      <3>2. AllowedTransitions("batch") = BatchEdges BY DEF AllowedTransitions
      <3>3. CanTransition("batch", "active", "reviewing")
        BY <3>1, <3>2 DEF CanTransition, KnownStates, IsTerminalState, TerminalStates
      <3> QED BY <2>1, <3>3 DEF PlanMayMove
    <2>3. /\ Moved(p, "reviewing") \in PlanRecords
          /\ Moved(p, "reviewing").parent = plans[p].parent
      BY <1>b, <2>2, MovedType
    <2>4. /\ calls'[1].op = "save" /\ calls'[1].plan = p /\ calls'[1].close = TRUE
          /\ calls'[1].new = Moved(p, "reviewing")
      BY <2>1 DEF SaveOf
    <2> QED BY <2>1, <2>3, <2>4 DEF PlanAtHand, Writes
  <1>6. ASSUME NEW f \in DOMAIN feats, MoveNumbered(1, f, p) PROVE PlanAtHand(p)
    <2> DEFINE n == [plans[p] EXCEPT !.next = plans[p].next + 1]
    <2>1. PICK s : calls'[1] = MoveOf(p, plans[p].next, n, f, s) /\ n \in PlanRecords
                   /\ plans[p].next \in Nat
      BY <1>a, <1>6, MoveNumberedIs
    <2>2. n.st = plans[p].st /\ n.parent = plans[p].parent
      BY <1>b, <2>1, NextChanged
    <2> HIDE DEF n
    <2>3. Counts(calls'[1]) /\ calls'[1].plan = p /\ calls'[1].new = n
      BY <2>1 DEF MoveOf, Counts
    <2>4. UNCHANGED plans /\ calls[1] = NoCall
      BY <1>6 DEF MoveNumbered, Free
    <2> QED BY <2>1, <2>2, <2>3, <2>4 DEF PlanAtHand, Writes
  <1> QED
    BY <1>1, <1>2, <1>3, <1>4, <1>5, <1>6

LEMMA PlanSteps ==
    ASSUME Typed, rscene.workers = 1, [RecordsNext]_rvars
    PROVE  \/ PlansAside
           \/ \E p \in DOMAIN plans : PlanAtHand(p)
           \/ PlanThoughtOf \/ PlanCreated(1) \/ PlanWrittenBack \/ PlanToBeClosed
  <1>a. Workers = {1} /\ calls[1] \in CallRecords /\ \A k : To(1, k) => calls'[1] = k
    BY AloneCalls
  <1>n. NoCall.op = "none" /\ ~Writes(NoCall)
    BY NoCallMinds DEF Writes, Counts
  <1>b. \A k : To(1, k) => calls'[1] = k
    BY <1>a
  <1>c. ASSUME Cut(1), UNCHANGED plans PROVE PlansAside
    BY <1>c, AloneCalls DEF PlansAside
  <1>1. CASE CallOnAFeature(1)
    <2>1. ASSUME NEW f \in DOMAIN feats, NEW s \in Located(f),
                 \/ \E t \in Slugs : RenameBegins(1, f, s, t)
                 \/ \E to : Transitioned(1, f, s, to)
                 \/ OverrideBegins(1, f, s)
                 \/ ReviewCapReached(1, f, s)
          PROVE  PlansAside
      <3>1. UNCHANGED plans /\ calls[1] = NoCall
        BY <2>1 DEF RenameBegins, Transitioned, OverrideBegins, ReviewCapReached, Free
      <3>2. (UNCHANGED <<calls, told>>)
            \/ calls'[1].op \in {"rename", "count", "override", "ask"}
        <4>1. ASSUME NEW t, RenameBegins(1, f, s, t) PROVE calls'[1].op = "rename"
          BY <4>1, <1>b DEF RenameBegins
        <4>2. ASSUME NEW to, Transitioned(1, f, s, to)
              PROVE  (UNCHANGED <<calls, told>>) \/ calls'[1].op = "count"
          BY <4>2, <1>b DEF Transitioned
        <4>3. CASE OverrideBegins(1, f, s)
          BY <4>3, <1>b DEF OverrideBegins
        <4>4. CASE ReviewCapReached(1, f, s)
          BY <4>4, <1>b DEF ReviewCapReached
        <4> QED BY <2>1, <4>1, <4>2, <4>3, <4>4
      <3> QED BY <1>n, <3>1, <3>2 DEF PlansAside, Writes, Counts
    <2> QED BY <1>1, <2>1, PlanBegins DEF CallOnAFeature
  <1>2. CASE CallOnAPlan(1)
    <2>1. ASSUME NEW pre \in {"B", "P"}, NEW slug, PlanNumbered(1, pre, slug) PROVE PlanThoughtOf
      <3> DEFINE n == NewPlan(pre, NextPlanNumber(pre), slug)
      <3>1. calls'[1] = [op |-> "plan", new |-> n] /\ UNCHANGED plans /\ calls[1] = NoCall
        BY <2>1, <1>b DEF PlanNumbered, Free
      <3>2. n.parent = 0 /\ n.st \in {EntryState("batch"), EntryState("strategic-plan")}
        BY DEF NewPlan
      <3> HIDE DEF n
      <3> QED BY <3>1, <3>2 DEF PlanThoughtOf
    <2> QED BY <1>2, <2>1, PlanBegins DEF CallOnAPlan
  <1>3. CASE CallGoesOn(1)
    <2>1. CASE PlanCreated(1)
      BY <2>1
    <2>2. CASE ParentCounts(1)
      <3>1. /\ Counts(calls[1]) /\ calls'[1] = [calls[1] EXCEPT !.step = "write"]
            /\ plans' = [plans EXCEPT ![calls[1].plan] = calls[1].new]
        BY <2>2, <1>b DEF ParentCounts, Counts
      <3>2. calls[1] \in Counting
        BY <1>a, <3>1, CallShapes DEF Counts
      <3>3. calls'[1].op = calls[1].op /\ calls'[1].step = "write"
        BY <3>1, <3>2 DEF Counting
      <3> QED BY <3>1, <3>3 DEF PlanWrittenBack, Writes, Counts
    <2>3. CASE PlanSaved(1)
      <3>1. /\ calls[1].op = "save" /\ plans' = [plans EXCEPT ![calls[1].plan] = calls[1].new]
            /\ IF calls[1].close THEN calls'[1] = [op |-> "close", plan |-> calls[1].plan]
               ELSE calls'[1] = NoCall
        BY <2>3, <1>b DEF PlanSaved, Over
      <3> QED BY <1>n, <3>1 DEF PlanWrittenBack, Writes
    <2>4. CASE PlanCloses(1)
      <3>1. CASE Cut(1)
        BY <2>4, <3>1, <1>c DEF PlanCloses
      <3>2. CASE ~Cut(1)
        <4> DEFINE p == calls[1].plan
        <4>1. /\ calls[1].op = "close" /\ UNCHANGED plans
              /\ calls'[1] = SaveOf(p, Moved(p, "done"), FALSE) /\ PlanMayMove(p, "done")
          BY <2>4, <3>2, <1>b DEF PlanCloses, SaveOf
        <4>2. p \in DOMAIN plans /\ plans \in Seq(PlanRecords)
          BY <1>a, <4>1 DEF Typed, RecordsTypeOK, PlansFound
        <4>3. /\ Moved(p, "done") \in PlanRecords /\ Moved(p, "done").st = "done"
              /\ Moved(p, "done").parent = plans[p].parent
          BY <4>1, <4>2, MovedType
        <4> HIDE DEF p
        <4>4. /\ calls'[1].op = "save" /\ calls'[1].plan = p /\ calls'[1].close = FALSE
              /\ calls'[1].new = Moved(p, "done")
          BY <4>1 DEF SaveOf
        <4> QED BY <4>1, <4>3, <4>4 DEF PlanToBeClosed, p
      <3> QED BY <3>1, <3>2
    <2>5. ASSUME NEW s, FeatureWritten(1, s) PROVE PlansAside
      <3>1. UNCHANGED plans /\ calls[1].op = "create" /\ calls'[1].op = "create"
            /\ calls'[1].step = "row"
        BY <2>5, <1>b DEF FeatureWritten
      <3> QED BY <3>1 DEF PlansAside, Writes, Counts
    <2>6. CASE RenameWrites(1)
      <3>1. UNCHANGED plans /\ calls[1].op = "rename"
            /\ calls'[1] \in {NoCall, [calls[1] EXCEPT !.step = "remove"]}
        BY <2>6, <1>b DEF RenameWrites, Over
      <3>2. calls'[1].op \in {"none", "rename"}
        BY <3>1, <1>a, <1>n, CallShapes
      <3> QED BY <3>1, <3>2 DEF PlansAside, Writes, Counts
    <2>7. CASE FeatureRefused(1) \/ FeatureCached(1) \/ RenameRemoves(1) \/ CheckpointCreated(1)
               \/ ClearBlockedReason(1)
      <3>1. UNCHANGED plans /\ calls[1].op \notin {"save", "close"} /\ calls'[1] = NoCall
        BY <2>7, <1>b
        DEF FeatureRefused, FeatureCached, RenameRemoves, CheckpointCreated, ClearBlockedReason,
            Over
      <3> QED BY <1>n, <3>1 DEF PlansAside
    <2>8. CASE FeatureReparented(1) \/ IncrementFeatureReviewCycle(1) \/ PersistFeatureOverrides(1)
               \/ CompletionWritten(1)
      <3>1. UNCHANGED plans /\ calls[1].op \notin {"save", "close"}
            /\ (Cut(1) \/ calls'[1] = NoCall)
        BY <2>8, <1>b DEF FeatureReparented, IncrementFeatureReviewCycle,
                          PersistFeatureOverrides, CompletionWritten, Over
      <3> QED BY <1>c, <1>n, <3>1 DEF PlansAside
    <2> QED BY <1>3, <2>1, <2>2, <2>3, <2>4, <2>5, <2>6, <2>7, <2>8 DEF CallGoesOn
  <1>4. ASSUME NEW t \in DOMAIN tasks, CompleteTask(1, t) PROVE PlansAside
    <2>1. UNCHANGED plans /\ calls[1] = NoCall /\ calls'[1].op = "summary"
      BY <1>4, <1>b DEF CompleteTask, Free
    <2> QED BY <1>n, <2>1 DEF PlansAside, Writes, Counts
  <1>5. ASSUME NEW i \in DOMAIN checkpoints, RespondCheckpoint(1, i) PROVE PlansAside
    <2>1. UNCHANGED <<plans, told>> /\ calls[1] = NoCall
          /\ (UNCHANGED calls \/ calls'[1].op = "unblock")
      BY <1>5, <1>b DEF RespondCheckpoint, Free
    <2> QED BY <1>n, <2>1 DEF PlansAside, Writes, Counts
  <1>6. CASE RecordsCrash(1)
    BY <1>6, <1>c DEF RecordsCrash
  <1>7. CASE \/ \E slug, report \in Slugs : CreateBug(slug, report)
             \/ CallOnAnIncident \/ UNCHANGED rvars
    <2>1. UNCHANGED <<plans, told, calls>>
      BY <1>7 DEF CreateBug, CallOnAnIncident, CreateIncident, CreateDecision, NewRecord,
                  UpdateIncident, LinkBug, rvars
    <2> QED BY <2>1 DEF PlansAside
  <1> QED
    BY <1>a, <1>1, <1>2, <1>3, <1>4, <1>5, <1>6, <1>7 DEF RecordsNext

(* The scenes that close batches make one call at a time, and move batches   *)
(* in no other way.                                                        *)
ClosesGiven ==
    \A x \in RecordScenes : "close" \in x.does =>
        /\ x.workers = 1 /\ "plan status" \notin x.does
        /\ \A p \in DOMAIN x.given.plans : x.given.plans[p].st # "reviewing"

(* A batch under review is about to be closed by the call that is under way. *)
Closes ==
    Does("close") /\ ~told.cut =>
        /\ \A p \in DOMAIN plans : plans[p].st = "reviewing" =>
              /\ calls[1].op \in {"close", "save"} /\ calls[1].plan = p
              /\ calls[1].op = "save" => calls[1].new.st # "reviewing"
        /\ calls[1].op = "save" /\ calls[1].new.st = "reviewing" => calls[1].close
        /\ calls[1].op = "plan" \/ Counts(calls[1]) => calls[1].new.st # "reviewing"

LEMMA NotReviewing ==
    EntryState("batch") # "reviewing" /\ EntryState("strategic-plan") # "reviewing"
  <1>1. \A s : /\ <<"batch", s>> \in EntryStates => s # "reviewing"
               /\ <<"strategic-plan", s>> \in EntryStates => s # "reviewing"
    BY DEF EntryStates
  <1>2. \E s \in {e[2] : e \in EntryStates} : <<"batch", s>> \in EntryStates
    BY DEF EntryStates
  <1>3. \E s \in {e[2] : e \in EntryStates} : <<"strategic-plan", s>> \in EntryStates
    BY DEF EntryStates
  <1> QED
    BY <1>1, <1>2, <1>3 DEF EntryState

LEMMA ClosesStep == ASSUME ClosesGiven, Typed, Closes, [RecordsNext]_rvars PROVE Closes'
  <1>a. (~told'.cut => ~told.cut) /\ UNCHANGED rscene
    BY CutStays, SceneKept
  <1> SUFFICES ASSUME Does("close"), ~told'.cut PROVE Closes'
    BY <1>a DEF Closes, Does
  <1>b. rscene.workers = 1 /\ ~Does("plan status") /\ ~told.cut
    BY <1>a DEF ClosesGiven, Does, Typed, RecordsTypeOK
  <1>n. NoCall.op = "none" /\ ~Counts(NoCall)
    BY NoCallMinds DEF Counts
  <1>p. plans \in Seq(PlanRecords) /\ calls[1] \in CallRecords
    BY <1>b, AloneCalls DEF Typed, RecordsTypeOK
  <1>1. CASE PlansAside
    <2>1. CASE UNCHANGED <<calls, told>>
      BY <1>1, <1>a, <2>1 DEF PlansAside, Closes, Does, Counts
    <2>2. CASE ~UNCHANGED <<calls, told>>
      BY <1>1, <1>a, <1>b, <2>2 DEF PlansAside, Closes, Does, Writes
    <2> QED BY <2>1, <2>2
  <1>2. ASSUME NEW p \in DOMAIN plans, PlanAtHand(p) PROVE Closes'
    <2>1. \A r \in DOMAIN plans : plans[r].st # "reviewing"
      BY <1>2, <1>b, <1>n DEF PlanAtHand, Closes
    <2>2. calls'[1].new.st = "reviewing" => calls'[1].op = "save" /\ calls'[1].close
      BY <1>2, <1>b, <2>1 DEF PlanAtHand
    <2>3. ~(calls'[1].op = "save" /\ Counts(calls'[1])) /\ calls'[1].op # "plan"
      BY <1>2 DEF PlanAtHand, Writes, Counts
    <2> QED BY <1>2, <2>1, <2>2, <2>3 DEF PlanAtHand, Closes, Counts
  <1>3. CASE PlanThoughtOf
    BY <1>3, <1>b, <1>n, NotReviewing DEF PlanThoughtOf, Closes, Counts
  <1>4. CASE PlanCreated(1)
    <2>1. calls[1].op = "plan" /\ calls'[1] = NoCall /\ calls[1].new.st # "reviewing"
      BY <1>4, <1>b, AloneCalls DEF PlanCreated, Closes
    <2>2. \A r \in DOMAIN plans : plans[r].st # "reviewing"
      BY <1>b, <2>1 DEF Closes
    <2>3. \A r \in DOMAIN plans' : r \notin DOMAIN plans \/ plans'[r] # plans[r]
                                      => plans'[r] = calls[1].new
      <3>1. CASE plans' = Append(plans, calls[1].new)
        BY <1>p, <3>1
      <3>2. CASE plans' # Append(plans, calls[1].new)
        BY <1>4, <3>2 DEF PlanCreated
      <3> QED BY <3>1, <3>2
    <2>4. \A r \in DOMAIN plans' : plans'[r].st # "reviewing"
      BY <2>1, <2>2, <2>3
    <2> QED BY <1>n, <2>1, <2>4 DEF Closes
  <1>5. CASE PlanWrittenBack
    <2>1. /\ DOMAIN plans' = DOMAIN plans
          /\ \A r \in DOMAIN plans : plans'[r] = IF r = calls[1].plan THEN calls[1].new
                                                 ELSE plans[r]
      BY <1>5 DEF PlanWrittenBack
    <2>2. \A r \in DOMAIN plans : r # calls[1].plan => plans[r].st # "reviewing"
      BY <1>b DEF Closes
    <2>3. CASE Counts(calls[1])
      <3>1. calls[1].new.st # "reviewing" /\ calls[1].op # "save"
        BY <1>b, <2>3 DEF Closes, Counts
      <3> QED BY <1>5, <2>1, <2>2, <3>1 DEF PlanWrittenBack, Closes, Writes
    <2>4. CASE calls[1].op = "save" /\ ~calls[1].close
      <3>1. calls[1].new.st # "reviewing"
        BY <1>b, <2>4 DEF Closes
      <3> QED BY <1>5, <2>1, <2>2, <2>4, <3>1 DEF PlanWrittenBack, Closes, Writes
    <2>5. CASE calls[1].op = "save" /\ calls[1].close
      <3>1. calls'[1].op = "close" /\ calls'[1].plan = calls[1].plan /\ ~Counts(calls'[1])
        BY <1>5, <2>5 DEF PlanWrittenBack, Counts
      <3> QED BY <2>1, <2>2, <3>1 DEF Closes
    <2> QED BY <1>5, <2>3, <2>4, <2>5 DEF PlanWrittenBack, Writes
  <1>6. CASE PlanToBeClosed
    <2>1. \A r \in DOMAIN plans : r # calls[1].plan => plans[r].st # "reviewing"
      BY <1>b DEF Closes
    <2> QED BY <1>6, <2>1 DEF PlanToBeClosed, Closes, Counts
  <1> QED
    BY <1>b, <1>1, <1>2, <1>3, <1>4, <1>5, <1>6, PlanSteps

LEMMA ClosesInit == ASSUME ClosesGiven, RecordsInit PROVE Closes
  <1> SUFFICES ASSUME Does("close") PROVE Closes
    BY DEF Closes
  <1>x. /\ rscene \in RecordScenes /\ plans = rscene.given.plans
        /\ calls = [w \in Workers |-> NoCall]
    BY DEF RecordsInit
  <1>0. rscene.workers = 1 /\ \A p \in DOMAIN plans : plans[p].st # "reviewing"
    BY <1>x DEF ClosesGiven, Does
  <1>1. calls[1] = NoCall
    BY <1>x, <1>0 DEF Workers
  <1>2. NoCall.op = "none"
    BY NoCallMinds
  <1> QED
    BY <1>0, <1>1, <1>2 DEF Closes, Counts

-----------------------------------------------------------------------------
(* Scenes with several workers, in which nothing is counted in a feature. *)

Zero(c) == c # NoFile => c.cycle = 0 /\ c.overrides = 0

(* With several workers a rename, or an override, may put back an older      *)
(* count: such scenes neither review nor override.                         *)
CountsGiven ==
    \A x \in RecordScenes : x.workers # 1 =>
        /\ x.does \cap {"transition", "override"} = {}
        /\ \A f \in DOMAIN x.given.features : \A s \in Slugs : Zero(x.given.features[f].file[s])

Uncounted ==
    rscene.workers # 1 =>
       /\ \A f \in DOMAIN feats : \A s \in Slugs : Zero(feats[f].file[s])
       /\ \A f \in DOMAIN feats : told.reviews[f] = 0 /\ told.overrides[f] = 0
       /\ \A w \in Workers : /\ calls[w].op \notin {"count", "override"}
                             /\ calls[w].op = "rename" => Zero(calls[w].c)

SameCounts == told'.reviews = told.reviews /\ told'.overrides = told.overrides

LEMMA StaysUncounted ==
    ASSUME Typed, Uncounted, UNCHANGED rscene, SameCounts,
           NEW w \in Workers, NEW k, To(w, k) \/ UNCHANGED calls,
           k.op \notin {"count", "override"}, k.op = "rename" => Zero(k.c),
           DOMAIN feats' = DOMAIN feats,
           \A g \in DOMAIN feats : \A t \in Slugs :
              feats'[g].file[t] = feats[g].file[t] \/ Zero(feats'[g].file[t])
    PROVE  Uncounted'
  <1>1. \A v \in Workers : calls'[v] \in {calls[v], k} /\ Workers' = Workers
    BY DEF Workers, To, Typed, RecordsTypeOK
  <1> QED
    BY <1>1 DEF Uncounted, SameCounts

LEMMA WroteZero ==
    ASSUME Typed, NEW f, NEW s \in Slugs, NEW c, FileWritten(f, s, c),
           f \in DOMAIN feats => Zero(c)
    PROVE  /\ DOMAIN feats' = DOMAIN feats
           /\ \A g \in DOMAIN feats : \A t \in Slugs :
                 feats'[g].file[t] = feats[g].file[t] \/ Zero(feats'[g].file[t])
  <1>0. DOMAIN feats' = DOMAIN feats
    BY FileIs
  <1>1. \A g \in DOMAIN feats : \A t \in Slugs :
           /\ g = f /\ t = s => feats'[g].file[t] = c
           /\ ~(g = f /\ t = s) => feats'[g].file[t] = feats[g].file[t]
    BY FileIs
  <1> QED
    BY <1>0, <1>1

LEMMA ZeroEdits ==
    ASSUME NEW c \in Contents, Zero(c)
    PROVE  /\ \A b \in BOOLEAN : Zero([c EXCEPT !.blocked = b])
           /\ \A p, n : Zero([c EXCEPT !.parent = p, !.number = n])
  <1>1. c.cycle = 0 /\ c.overrides = 0
    BY ThereOrNot DEF Zero
  <1> QED
    BY <1>1 DEF Zero, Contents

LEMMA UncountedStep ==
    ASSUME CountsGiven, Typed, Uncounted, [RecordsNext]_rvars PROVE Uncounted'
  <1>a. UNCHANGED rscene
    BY SceneKept
  <1> SUFFICES ASSUME rscene.workers # 1 PROVE Uncounted'
    BY <1>a DEF Uncounted
  <1>b. ~Does("transition") /\ ~Does("override")
    BY DEF CountsGiven, Does, Typed, RecordsTypeOK
  <1>n. NoCall.op = "none"
    BY NoCallMinds
  <1>z. /\ \A f \in DOMAIN feats : \A s \in Slugs : Zero(feats[f].file[s])
        /\ \A w \in Workers : /\ calls[w].op \notin {"count", "override"}
                              /\ calls[w].op = "rename" => Zero(calls[w].c)
    BY DEF Uncounted
  <1>t. told \in [reviews : [DOMAIN feats -> Nat], overrides : [DOMAIN feats -> Nat],
                  cut : BOOLEAN]
        /\ feats \in Seq(FeatureRecords)
    BY DEF Typed, RecordsTypeOK
  <1>c. ASSUME NEW w \in Workers, NEW k, To(w, k), UNCHANGED feats,
               k.op \notin {"count", "override", "rename"}, UNCHANGED told \/ Cut(w)
        PROVE  Uncounted'
    <2>1. SameCounts
      BY <1>c, <1>t DEF SameCounts, Cut
    <2> QED BY <1>a, <1>c, <2>1, StaysUncounted
  <1>d. ASSUME NEW w \in Workers, NEW k, To(w, k), k.op \notin {"count", "override", "rename"},
               UNCHANGED told, NEW f, NEW s \in Slugs, NEW c, FileWritten(f, s, c),
               f \in DOMAIN feats => Zero(c)
        PROVE  Uncounted'
    <2>1. DOMAIN feats' = DOMAIN feats
          /\ \A g \in DOMAIN feats : \A t \in Slugs :
                feats'[g].file[t] = feats[g].file[t] \/ Zero(feats'[g].file[t])
      BY <1>d, WroteZero
    <2> QED BY <1>a, <1>d, <2>1, StaysUncounted DEF SameCounts
  <1>e. ASSUME UNCHANGED <<feats, told, calls>> PROVE Uncounted'
    BY <1>a, <1>e DEF Uncounted, Workers
  <1>f. ASSUME NEW f \in DOMAIN feats, NEW s \in Slugged(f)
        PROVE  /\ s \in Slugs /\ feats[f].file[s] \in Contents
               /\ Zero(feats[f].file[s])
    BY <1>f, <1>z, FileAtHand
  <1>1. ASSUME NEW w \in Workers, CallOnAFeature(w) PROVE Uncounted'
    <2>1. ASSUME NEW f \in DOMAIN feats, NEW p \in DOMAIN plans, MoveNumbered(w, f, p)
          PROVE  Uncounted'
      <3>1. PICK k : To(w, k) /\ k.op = "move"
        BY <2>1 DEF MoveNumbered
      <3>2. UNCHANGED <<feats, told>>
        BY <2>1 DEF MoveNumbered
      <3> QED BY <1>c, <3>1, <3>2
    <2>2. ASSUME NEW f \in DOMAIN feats, NEW s \in Located(f) PROVE s \in Slugged(f)
      BY <2>2, FileThere DEF Typed, RecordsTypeOK
    <2>3. ASSUME NEW f \in DOMAIN feats, NEW s \in Located(f), NEW t \in Slugs,
                 RenameBegins(w, f, s, t)
          PROVE  Uncounted'
      <3> DEFINE k == [op |-> "rename", step |-> "write", f |-> f, from |-> s, to |-> t,
                       c |-> feats[f].file[s]]
      <3>1. To(w, k) /\ UNCHANGED <<feats, told>> /\ k.op = "rename" /\ k.c = feats[f].file[s]
        BY <2>3 DEF RenameBegins
      <3>2. Zero(feats[f].file[s])
        BY <1>f, <2>2
      <3> HIDE DEF k
      <3> QED BY <1>a, <3>1, <3>2, StaysUncounted DEF SameCounts
    <2>4. ASSUME NEW f \in DOMAIN feats, NEW s \in Located(f), ReviewCapReached(w, f, s)
          PROVE  Uncounted'
      <3> DEFINE k == [op |-> "ask", asks |-> 0]
                 b == feats[f].file[s]
                 c == [b EXCEPT !.blocked = TRUE]
      <3>1. To(w, k) /\ k.op = "ask" /\ UNCHANGED told /\ feats' = WithFile(f, s, c)
        BY <2>4 DEF ReviewCapReached
      <3>2. s \in Slugs /\ b \in Contents /\ Zero(b)
        BY <1>f, <2>2
      <3> HIDE DEF b, k
      <3>3. Zero(c)
        BY <3>2, ZeroEdits
      <3> HIDE DEF c
      <3> QED BY <1>d, <3>1, <3>2, <3>3 DEF FileWritten
    <2>5. ASSUME NEW f, NEW s, (\E to : Transitioned(w, f, s, to)) \/ OverrideBegins(w, f, s)
          PROVE  FALSE
      BY <1>b, <2>5 DEF Transitioned, OverrideBegins
    <2> QED BY <1>1, <2>1, <2>3, <2>4, <2>5 DEF CallOnAFeature
  <1>2. ASSUME NEW w \in Workers, CallOnAPlan(w) PROVE Uncounted'
    <2>1. UNCHANGED <<feats, told>>
      BY <1>2 DEF CallOnAPlan, PlanNumbered, FeatureNumbered, UpdatePlan, UpdatePlanStatus,
                UpdateStrategicPlan, MaybeAutoAdvancePlan
    <2>2. \E k : To(w, k) /\ k.op \in {"plan", "create", "save"}
      <3>1. ASSUME NEW p, FeatureNumbered(w, p) PROVE \E k : To(w, k) /\ k.op = "create"
        <4>1. PICK seq, n : To(w, [op |-> "create", step |-> "count", plan |-> p,
                                         seq |-> seq, new |-> n])
          BY <3>1 DEF FeatureNumbered
        <4> QED BY <4>1
      <3>2. ASSUME NEW pre, NEW slug, PlanNumbered(w, pre, slug)
            PROVE  \E k : To(w, k) /\ k.op = "plan"
        BY <3>2 DEF PlanNumbered
      <3>3. ASSUME NEW p, \/ UpdatePlan(w, p) \/ MaybeAutoAdvancePlan(w, p)
                          \/ \E to : UpdatePlanStatus(w, p, to)
                          \/ \E q : UpdateStrategicPlan(w, p, q)
            PROVE  \E k : To(w, k) /\ k.op = "save"
        <4>1. PICK n, c : To(w, [op |-> "save", plan |-> p, new |-> n, close |-> c])
          <5>1. CASE UpdatePlan(w, p)
            BY <5>1 DEF UpdatePlan
          <5>2. CASE MaybeAutoAdvancePlan(w, p)
            BY <5>2 DEF MaybeAutoAdvancePlan
          <5>3. ASSUME NEW to, UpdatePlanStatus(w, p, to)
                PROVE  \E n, c : To(w, [op |-> "save", plan |-> p, new |-> n, close |-> c])
            BY <5>3 DEF UpdatePlanStatus
          <5>4. ASSUME NEW q, UpdateStrategicPlan(w, p, q)
                PROVE  \E n, c : To(w, [op |-> "save", plan |-> p, new |-> n, close |-> c])
            BY <5>4 DEF UpdateStrategicPlan
          <5> QED BY <3>3, <5>1, <5>2, <5>3, <5>4
        <4> QED BY <4>1
      <3> QED BY <1>2, <3>1, <3>2, <3>3 DEF CallOnAPlan
    <2> QED BY <1>c, <2>1, <2>2
  <1>3. ASSUME NEW w \in Workers, CallGoesOn(w) PROVE Uncounted'
    <2>k. calls[w] \in CallRecords
      BY DEF Typed, RecordsTypeOK
    <2>1. CASE PlanCreated(w) \/ FeatureRefused(w) \/ CheckpointCreated(w)
      <3>1. UNCHANGED <<feats, told>> /\ To(w, NoCall)
        BY <2>1 DEF PlanCreated, FeatureRefused, CheckpointCreated, Over
      <3> QED BY <1>c, <1>n, <3>1
    <2>2. CASE ParentCounts(w)
      <3>1. calls[w] \in Counting
        BY <2>2, <2>k, CallShapes DEF ParentCounts
      <3>2. [calls[w] EXCEPT !.step = "write"].op = calls[w].op
        BY <3>1 DEF Counting
      <3>3. /\ UNCHANGED <<feats, told>> /\ To(w, [calls[w] EXCEPT !.step = "write"])
            /\ calls[w].op \in {"create", "move"}
        BY <2>2 DEF ParentCounts
      <3> QED BY <1>c, <3>2, <3>3
    <2>3. CASE PlanSaved(w)
      <3>1. UNCHANGED <<feats, told>>
            /\ (To(w, NoCall) \/ To(w, [op |-> "close", plan |-> calls[w].plan]))
        BY <2>3 DEF PlanSaved, Over
      <3> QED BY <1>c, <1>n, <3>1
    <2>4. CASE PlanCloses(w)
      <3>1. UNCHANGED feats
        BY <2>4 DEF PlanCloses
      <3>2. CASE Cut(w)
        BY <1>c, <1>n, <3>1, <3>2 DEF Cut, Over
      <3>3. CASE ~Cut(w)
        <4>1. PICK n : To(w, [op |-> "save", plan |-> calls[w].plan, new |-> n,
                              close |-> FALSE])
          BY <2>4, <3>3 DEF PlanCloses
        <4>2. UNCHANGED told
          BY <2>4, <3>3 DEF PlanCloses
        <4> QED BY <1>c, <3>1, <4>1, <4>2
      <3> QED BY <3>2, <3>3
    <2>5. CASE CompletionWritten(w)
      <3>1. UNCHANGED feats /\ To(w, NoCall) /\ (UNCHANGED told \/ Cut(w))
        BY <2>5 DEF CompletionWritten, Over, Cut
      <3> QED BY <1>c, <1>n, <3>1
    <2>6. ASSUME NEW s \in rscene.given.slugs, FeatureWritten(w, s) PROVE Uncounted'
      <3> DEFINE g == Len(feats) + 1
                 p == calls[w].plan
                 c == NewFeature(p, <<plans[p].pre, plans[p].no, calls[w].seq>>)
                 e == [file |-> [t \in Slugs |-> IF t = s THEN c ELSE NoFile],
                       row |-> [slug |-> "none"]]
                 k == [op |-> "create", step |-> "row", f |-> g, slug |-> s]
      <3>1. /\ feats' = Append(feats, e) /\ To(w, k) /\ k.op = "create"
            /\ told' = [told EXCEPT !.reviews = Append(@, 0), !.overrides = Append(@, 0)]
        BY <2>6 DEF FeatureWritten
      <3>2. c.cycle = 0 /\ c.overrides = 0
        BY NewContents
      <3> HIDE DEF c
      <3>3. \A t \in Slugs : Zero(e.file[t])
        BY <3>2 DEF Zero
      <3> HIDE DEF e, k
      <3>4. /\ DOMAIN feats' = DOMAIN feats \cup {g} /\ feats'[g] = e
            /\ \A f \in DOMAIN feats : feats'[f] = feats[f]
        BY <1>t, <3>1
      <3>5. /\ told'.reviews[g] = 0 /\ told'.overrides[g] = 0
            /\ \A f \in DOMAIN feats : /\ told'.reviews[f] = told.reviews[f]
                                       /\ told'.overrides[f] = told.overrides[f]
        <4>0. g = Len(feats) + 1 /\ Len(feats) \in Nat
          BY <1>t
        <4> HIDE DEF g
        <4>1. told.reviews \in [1..Len(feats) -> Nat] /\ told.overrides \in [1..Len(feats) -> Nat]
              /\ DOMAIN feats = 1..Len(feats)
          BY <1>t
        <4>2. /\ told'.reviews = Append(told.reviews, 0)
              /\ told'.overrides = Append(told.overrides, 0)
          BY <1>t, <3>1
        <4>3. told'.reviews[g] = 0 /\ \A f \in DOMAIN feats : told'.reviews[f] = told.reviews[f]
          BY <4>0, <4>1, <4>2, CountAppended
        <4>4. told'.overrides[g] = 0
              /\ \A f \in DOMAIN feats : told'.overrides[f] = told.overrides[f]
          BY <4>0, <4>1, <4>2, CountAppended
        <4> QED BY <4>3, <4>4
      <3>6. \A v \in Workers : calls'[v] \in {calls[v], k} /\ Workers' = Workers
        BY <1>a, <3>1 DEF Workers, To, Typed, RecordsTypeOK
      <3> HIDE DEF g
      <3>7. \A f \in DOMAIN feats' : \A t \in Slugs : Zero(feats'[f].file[t])
        BY <1>z, <3>3, <3>4
      <3>8. \A f \in DOMAIN feats' : told'.reviews[f] = 0 /\ told'.overrides[f] = 0
        <4>1. \A f \in DOMAIN feats : told.reviews[f] = 0 /\ told.overrides[f] = 0
          BY DEF Uncounted
        <4> QED BY <3>4, <3>5, <4>1
      <3>9. \A v \in Workers' : /\ calls'[v].op \notin {"count", "override"}
                                /\ calls'[v].op = "rename" => Zero(calls'[v].c)
        BY <1>z, <3>1, <3>6
      <3> QED BY <3>7, <3>8, <3>9 DEF Uncounted, Zero
    <2>7. CASE FeatureCached(w)
      <3> DEFINE f == calls[w].f
                 s == calls[w].slug
                 c == feats[f].file[s]
      <3>1. To(w, NoCall) /\ UNCHANGED told /\ feats' = WithRow(f, s, c) /\ c # NoFile
        BY <2>7 DEF FeatureCached, Over
      <3>2. s \in Slugs
        BY <2>k, <2>7, CallShapes DEF FeatureCached
      <3>3. f \in DOMAIN feats => Zero(c)
        BY <1>z, <3>2
      <3>4. FileWritten(f, s, c)
        BY <3>1 DEF WithRow, FileWritten
      <3> HIDE DEF f, s, c
      <3> QED BY <1>d, <1>n, <3>1, <3>2, <3>3, <3>4
    <2>8. CASE FeatureReparented(w)
      <3> DEFINE f == calls[w].f
                 s == calls[w].slug
                 old == feats[f].file[s]
                 c == [old EXCEPT !.parent = calls[w].plan,
                                  !.number = <<"P", plans[calls[w].plan].no, calls[w].seq>>]
      <3>1. To(w, NoCall) /\ s \in Slugs
        BY <2>k, <2>8, CallShapes DEF FeatureReparented, Over, Cut
      <3>2. CASE old = NoFile
        BY <1>c, <1>n, <2>8, <3>1, <3>2 DEF FeatureReparented
      <3>3. CASE old # NoFile
        <4>1. feats' = WithFile(f, s, c) /\ UNCHANGED told
          BY <2>8, <3>3 DEF FeatureReparented
        <4>2. f \in DOMAIN feats => s \in Slugged(f)
          BY <3>1, <3>3 DEF Slugged
        <4>3. f \in DOMAIN feats => old \in Contents /\ Zero(old)
          BY <1>f, <4>2
        <4> HIDE DEF old
        <4>4. f \in DOMAIN feats => Zero(c)
          BY <4>3, ZeroEdits
        <4> HIDE DEF f, s, c
        <4> QED BY <1>d, <1>n, <3>1, <4>1, <4>4 DEF FileWritten
      <3> QED BY <3>2, <3>3
    <2>9. CASE RenameWrites(w)
      <3> DEFINE k == calls[w]
                 j == [k EXCEPT !.step = "remove"]
                 f == k.f
                 s == k.to
                 c == k.c
      <3>1. k \in [op : {"rename"}, step : {"write", "remove"}, f : Nat, from : Slugs,
                   to : Slugs, c : Contents]
            /\ UNCHANGED told
        BY <2>k, <2>9, CallShapes DEF RenameWrites
      <3>2. j.op = "rename" /\ j.c = c /\ Zero(c) /\ s \in Slugs
        BY <1>z, <3>1
      <3> HIDE DEF j
      <3>3. CASE Over(w) /\ UNCHANGED feats
        BY <1>c, <1>n, <3>1, <3>3 DEF Over
      <3>4. CASE ~(Over(w) /\ UNCHANGED feats)
        <4>1. feats' = WithFile(f, s, c) /\ To(w, j)
          BY <2>9, <3>4 DEF RenameWrites, j
        <4> HIDE DEF k, f, s, c
        <4>2. DOMAIN feats' = DOMAIN feats
              /\ \A g \in DOMAIN feats : \A t \in Slugs :
                    feats'[g].file[t] = feats[g].file[t] \/ Zero(feats'[g].file[t])
          BY <3>2, <4>1, WroteZero DEF FileWritten
        <4> QED BY <1>a, <3>1, <3>2, <4>1, <4>2, StaysUncounted DEF SameCounts
      <3> QED BY <3>3, <3>4
    <2>10. CASE RenameRemoves(w)
      <3> DEFINE f == calls[w].f
                 s == calls[w].from
      <3>1. s \in Slugs /\ To(w, NoCall) /\ UNCHANGED told
        BY <2>k, <2>10, CallShapes DEF RenameRemoves, Over
      <3>2. FileWritten(f, s, NoFile)
        BY <2>10 DEF RenameRemoves, FileWritten
      <3>3. Zero(NoFile)
        BY DEF Zero
      <3> HIDE DEF f, s
      <3> QED BY <1>d, <1>n, <3>1, <3>2, <3>3
    <2>11. CASE ClearBlockedReason(w)
      <3> DEFINE f == calls[w].f
      <3>1. PICK s \in ResolvePrefix(f) :
                feats' = WithFile(f, s, [feats[f].file[s] EXCEPT !.blocked = FALSE])
        BY <2>11 DEF ClearBlockedReason, WithFile
      <3>2. s \in Slugged(f) /\ To(w, NoCall) /\ UNCHANGED told
        BY <2>11 DEF ResolvePrefix, ClearBlockedReason, Over
      <3> DEFINE b == feats[f].file[s]
                 c == [b EXCEPT !.blocked = FALSE]
      <3>3. feats' = WithFile(f, s, c) /\ s \in Slugs
        BY <3>1, <3>2 DEF Slugged
      <3>4. f \in DOMAIN feats => b \in Contents /\ Zero(b)
        BY <1>f, <3>2
      <3> HIDE DEF b, f
      <3>5. f \in DOMAIN feats => Zero(c)
        BY <3>4, ZeroEdits
      <3> HIDE DEF c
      <3> QED BY <1>d, <1>n, <3>2, <3>3, <3>5 DEF FileWritten
    <2>12. ASSUME IncrementFeatureReviewCycle(w) \/ PersistFeatureOverrides(w) PROVE FALSE
      BY <1>z, <2>12 DEF IncrementFeatureReviewCycle, PersistFeatureOverrides
    <2> QED
      BY <1>3, <2>1, <2>2, <2>3, <2>4, <2>5, <2>6, <2>7, <2>8, <2>9, <2>10, <2>11, <2>12
      DEF CallGoesOn
  <1>4. ASSUME NEW w \in Workers, NEW t \in DOMAIN tasks, CompleteTask(w, t) PROVE Uncounted'
    <2>1. UNCHANGED <<feats, told>> /\ To(w, [op |-> "summary", t |-> t])
      BY <1>4 DEF CompleteTask
    <2> QED BY <1>c, <2>1
  <1>5. ASSUME NEW w \in Workers, NEW i \in DOMAIN checkpoints, RespondCheckpoint(w, i)
        PROVE  Uncounted'
    <2>1. UNCHANGED <<feats, told>>
          /\ (UNCHANGED calls \/ To(w, [op |-> "unblock", f |-> checkpoints[i].feature]))
      BY <1>5 DEF RespondCheckpoint
    <2> QED BY <1>c, <1>e, <2>1
  <1>6. ASSUME NEW w \in Workers, RecordsCrash(w) PROVE Uncounted'
    <2>1. UNCHANGED feats /\ Cut(w) /\ To(w, NoCall)
      BY <1>6 DEF RecordsCrash, Cut, Over
    <2> QED BY <1>c, <1>n, <2>1
  <1>7. CASE \/ \E slug, report \in Slugs : CreateBug(slug, report)
             \/ CallOnAnIncident \/ UNCHANGED rvars
    <2>1. UNCHANGED <<feats, told, calls>>
      BY <1>7 DEF CreateBug, CallOnAnIncident, CreateIncident, CreateDecision, NewRecord,
                  UpdateIncident, LinkBug, rvars
    <2> QED BY <1>e, <2>1
  <1> QED
    BY <1>1, <1>2, <1>3, <1>4, <1>5, <1>6, <1>7 DEF RecordsNext

LEMMA UncountedInit == ASSUME CountsGiven, RecordsInit PROVE Uncounted
  <1>1. NoCall.op = "none"
    BY NoCallMinds
  <1> QED
    BY <1>1 DEF RecordsInit, CountsGiven, Uncounted

LEMMA SecondWrites ==
    ASSUME Typed, FilesInv, Uncounted, Completes, Closes, ClosesGiven PROVE SecondWritesFollow
  <1> SUFFICES ASSUME AtRest, ~told.cut
               PROVE  /\ \A t \in DOMAIN tasks : tasks[t].st # "active" => tasks[t].summary
                      /\ \A f \in DOMAIN feats : \A s \in Slugged(f) :
                            /\ feats[f].file[s].cycle = told.reviews[f]
                            /\ feats[f].file[s].overrides = told.overrides[f]
                      /\ Does("close") => \A p \in DOMAIN plans : plans[p].st # "reviewing"
    BY DEF SecondWritesFollow
  <1>n. NoCall.op = "none" /\ \A f : ~Minds(NoCall, f)
    BY NoCallMinds
  <1>1. \A t \in DOMAIN tasks : tasks[t].st # "active" => tasks[t].summary
    BY <1>n DEF Completes, AtRest, Free
  <1>2. ASSUME NEW f \in DOMAIN feats, NEW s \in Slugged(f)
        PROVE  /\ feats[f].file[s].cycle = told.reviews[f]
               /\ feats[f].file[s].overrides = told.overrides[f]
    <2>1. CASE rscene.workers = 1
      <3>1. ~Minds(calls[1], f)
        BY <1>n, <2>1, AloneCalls DEF AtRest, Free
      <3>2. /\ InOrder(feats[f], told.reviews[f], told.overrides[f], Does("move"))
            /\ Slugged(f) = {feats[f].row.slug}
        BY <2>1, <3>1, Ready DEF FilesInv
      <3> QED BY <1>2, <3>2 DEF InOrder
    <2>2. CASE rscene.workers # 1
      BY <1>2, <2>2 DEF Uncounted, Slugged, Zero
    <2> QED BY <2>1, <2>2
  <1>3. ASSUME Does("close"), NEW p \in DOMAIN plans PROVE plans[p].st # "reviewing"
    <2>1. rscene.workers = 1
      BY <1>3 DEF ClosesGiven, Does, Typed, RecordsTypeOK
    <2>2. calls[1].op = "none"
      BY <1>n, <2>1, AloneCalls DEF AtRest, Free
    <2> QED BY <1>3, <2>2 DEF Closes
  <1> QED
    BY <1>1, <1>2, <1>3

(* What a call writes in a second step is there when it is over, unless a   *)
(* call was cut: however many features, reviews, overrides and tasks.       *)
THEOREM SecondWritesAreMade ==
    ASSUME TasksGiven, FeaturesGiven, CountsGiven, ClosesGiven
    PROVE  RecordsSpec => []SecondWritesFollow
  <1> DEFINE Inv == Uncounted /\ Completes /\ Closes
  <1>1. RecordsInit => Inv
    BY UncountedInit, CompletesInit, ClosesInit
  <1>2. Typed /\ Inv /\ [RecordsNext]_rvars => Inv'
    BY UncountedStep, CompletesStep, ClosesStep
  <1>3. RecordsSpec => [](Typed /\ FilesInv)
    BY FilesAlways
  <1>4. Typed /\ FilesInv /\ Inv => SecondWritesFollow
    BY SecondWrites
  <1> HIDE DEF Inv
  <1> QED
    BY <1>1, <1>2, <1>3, <1>4, PTL DEF RecordsSpec


-----------------------------------------------------------------------------
(* The tree of strategic plans. *)

(* Parents are plans, and of a lower rank than their children. *)
Ranked(P, rank) ==
    \A p \in DOMAIN P : P[p].parent # 0 =>
        P[p].parent \in DOMAIN P /\ rank[P[p].parent] < rank[p]
Tree(P) == \E rank \in [DOMAIN P -> Nat] : Ranked(P, rank)

(* The walk up from q, m plans long. *)
OneUp(X) == X \cup ({plans[r].parent : r \in X} \ {0})
Walk(u, m, q) == u = [n \in 0..m |-> IF n = 0 THEN {q} \ {0} ELSE OneUp(u[n - 1])]

LEMMA WalkIsThere == ASSUME NEW q, NEW m \in Nat PROVE \E u : Walk(u, m, q)
  <1> DEFINE T == {n \in Nat : ~ \E u : Walk(u, n, q)}
  <1>1. ASSUME T # {} PROVE FALSE
    <2>1. T \in SUBSET Nat
      OBVIOUS
    <2>2. PICK k \in T : \A j \in T : k <= j
      BY <1>1, <2>1, LeastNumber
    <2>3. k # 0
      <3> DEFINE u == [n \in 0..0 |-> {q} \ {0}]
      <3>1. u = [n \in 0..0 |-> IF n = 0 THEN {q} \ {0} ELSE OneUp(u[n - 1])]
        OBVIOUS
      <3>2. Walk(u, 0, q)
        BY <3>1 DEF Walk
      <3> QED BY <3>2
    <2>4. k - 1 \in Nat /\ ~ (k <= k - 1)
      BY <2>3
    <2>5. PICK u : Walk(u, k - 1, q)
      BY <2>2, <2>4
    <2> DEFINE v == [n \in 0..k |-> IF n = k THEN OneUp(u[k - 1]) ELSE u[n]]
    <2>6. \A n \in 0..k : v[n] = IF n = 0 THEN {q} \ {0} ELSE OneUp(v[n - 1])
      <3>1. \A n \in 0..(k - 1) : u[n] = IF n = 0 THEN {q} \ {0} ELSE OneUp(u[n - 1])
        BY <2>5 DEF Walk
      <3>2. \A n \in 0..(k - 1) : v[n] = u[n]
        BY <2>4
      <3>3. v[k] = OneUp(u[k - 1])
        BY <2>4
      <3> HIDE DEF v
      <3>4. ASSUME NEW n \in 0..k PROVE v[n] = IF n = 0 THEN {q} \ {0} ELSE OneUp(v[n - 1])
        <4>1. CASE n = k
          <5>1. v[n - 1] = u[k - 1] /\ n # 0
            BY <2>3, <2>4, <3>2, <4>1
          <5> QED BY <3>3, <4>1, <5>1
        <4>2. CASE n # k
          <5>1. n \in 0..(k - 1) /\ (n # 0 => n - 1 \in 0..(k - 1))
            BY <2>4, <4>2
          <5> QED BY <3>1, <3>2, <5>1
        <4> QED BY <4>1, <4>2
      <3> QED BY <3>4
    <2>7. v = [n \in 0..k |-> IF n = 0 THEN {q} \ {0} ELSE OneUp(v[n - 1])]
      <3>1. v = [n \in 0..k |-> v[n]]
        OBVIOUS
      <3> HIDE DEF v
      <3> QED BY <2>6, <3>1
    <2> HIDE DEF v
    <2>8. Walk(v, k, q)
      BY <2>7 DEF Walk
    <2> QED BY <2>2, <2>8
  <1> QED
    BY <1>1

LEMMA WalkStarts == ASSUME NEW q, NEW m \in Nat, NEW u, Walk(u, m, q) PROVE u[0] = {q} \ {0}
  <1>1. \A n \in 0..m : u[n] = IF n = 0 THEN {q} \ {0} ELSE OneUp(u[n - 1])
    BY DEF Walk
  <1> QED
    BY <1>1

LEMMA WalkSteps ==
    ASSUME NEW q, NEW m \in Nat, NEW u, Walk(u, m, q) PROVE \A n \in 1..m : u[n] = OneUp(u[n - 1])
  <1>1. \A n \in 0..m : u[n] = IF n = 0 THEN {q} \ {0} ELSE OneUp(u[n - 1])
    BY DEF Walk
  <1> QED
    BY <1>1

LEMMA AncestorsWalk ==
    ASSUME plans \in Seq(PlanRecords), NEW q
    PROVE  \E u : Walk(u, Len(plans), q) /\ Ancestors(q) = u[Len(plans)]
  <1> DEFINE u == CHOOSE f : Walk(f, Len(plans), q)
  <1>1. Len(plans) \in Nat
    OBVIOUS
  <1>2. Walk(u, Len(plans), q)
    BY <1>1, WalkIsThere
  <1>3. Ancestors(q) = u[Len(plans)]
    BY DEF Ancestors, Walk, OneUp
  <1> HIDE DEF u
  <1> QED
    BY <1>2, <1>3

(* Those met on the way up are plans, of no higher rank. *)
LEMMA WalkBelow ==
    ASSUME NEW rank \in [DOMAIN plans -> Nat], Ranked(plans, rank), NEW q \in DOMAIN plans,
           NEW m \in Nat, NEW u, Walk(u, m, q), NEW n \in 0..m
    PROVE  u[n] \subseteq {r \in DOMAIN plans : rank[r] <= rank[q]}
  <1> DEFINE S == {r \in DOMAIN plans : rank[r] <= rank[q]}
             T == {k \in 0..m : ~ (u[k] \subseteq S)}
  <1>1. ASSUME T # {} PROVE FALSE
    <2>1. T \in SUBSET Nat
      OBVIOUS
    <2>2. PICK k \in T : \A j \in T : k <= j
      BY <1>1, <2>1, LeastNumber
    <2>3. k # 0
      <3>1. q \in S
        OBVIOUS
      <3>2. u[0] = {q} \ {0}
        BY WalkStarts
      <3> QED BY <3>1, <3>2
    <2>4. k - 1 \in 0..m /\ ~ (k <= k - 1) /\ k \in 1..m
      BY <2>3
    <2>5. u[k - 1] \subseteq S
      BY <2>2, <2>4
    <2>6. u[k] = OneUp(u[k - 1])
      <3>1. \A j \in 1..m : u[j] = OneUp(u[j - 1])
        BY WalkSteps
      <3> QED BY <2>4, <3>1
    <2>7. ASSUME NEW r \in S, plans[r].parent # 0 PROVE plans[r].parent \in S
      <3>1. plans[r].parent \in DOMAIN plans /\ rank[plans[r].parent] < rank[r]
        BY <2>7 DEF Ranked
      <3>2. \A a, b, c \in Nat : a < b /\ b <= c => a <= c
        OBVIOUS
      <3>3. /\ r \in DOMAIN plans /\ rank[r] \in Nat /\ rank[q] \in Nat /\ rank[r] <= rank[q]
            /\ rank[plans[r].parent] \in Nat
        BY <3>1
      <3>4. rank[plans[r].parent] <= rank[q]
        BY <3>1, <3>2, <3>3
      <3> QED BY <3>1, <3>4
    <2> HIDE DEF S
    <2>8. u[k] \subseteq S
      BY <2>5, <2>6, <2>7 DEF OneUp
    <2> QED BY <2>2, <2>8
  <1> QED
    BY <1>1

LEMMA AncestorsBelow ==
    ASSUME plans \in Seq(PlanRecords), NEW rank \in [DOMAIN plans -> Nat], Ranked(plans, rank),
           NEW q \in DOMAIN plans
    PROVE  \A r \in Ancestors(q) : r \in DOMAIN plans /\ rank[r] <= rank[q]
  <1>1. Len(plans) \in Nat
    OBVIOUS
  <1>2. PICK u : Walk(u, Len(plans), q) /\ Ancestors(q) = u[Len(plans)]
    BY AncestorsWalk
  <1>3. u[Len(plans)] \subseteq {r \in DOMAIN plans : rank[r] <= rank[q]}
    BY <1>1, <1>2, WalkBelow
  <1> QED
    BY <1>2, <1>3

(* As many steps up as there are plans meet them all. *)
LEMMA WalkEnds ==
    ASSUME NEW L \in Nat, NEW q, q # 0, NEW u, Walk(u, L, q),
           \A n \in 0..L : u[n] \subseteq 1..L
    PROVE  q \in u[L] /\ OneUp(u[L]) = u[L]
  <1>1. u[0] = {q} /\ \A n \in 0..(L - 1) : u[n + 1] = OneUp(u[n])
    <2>1. u[0] = {q} \ {0}
      BY WalkStarts
    <2>2. \A n \in 1..L : u[n] = OneUp(u[n - 1])
      BY WalkSteps
    <2>3. ASSUME NEW n \in 0..(L - 1) PROVE u[n + 1] = OneUp(u[n])
      <3>1. n + 1 \in 1..L /\ (n + 1) - 1 = n
        OBVIOUS
      <3> QED BY <2>2, <3>1
    <2> QED BY <2>1, <2>3
  <1>2. \A n \in 0..(L - 1) : u[n] \subseteq u[n + 1]
    BY <1>1 DEF OneUp
  <1>3. \A n \in 0..L : q \in u[n]
    <2> DEFINE T == {k \in 0..L : q \notin u[k]}
    <2>1. ASSUME T # {} PROVE FALSE
      <3>1. T \in SUBSET Nat
        OBVIOUS
      <3>2. PICK k \in T : \A j \in T : k <= j
        BY <2>1, <3>1, LeastNumber
      <3>3. k # 0
        BY <1>1
      <3>4. k - 1 \in 0..(L - 1) /\ ~ (k <= k - 1) /\ (k - 1) + 1 = k
        BY <3>3
      <3>5. q \in u[k - 1]
        BY <3>2, <3>4
      <3>6. u[k - 1] \subseteq u[k]
        BY <1>2, <3>4
      <3> QED BY <3>5, <3>6
    <2> QED BY <2>1
  <1> SUFFICES ASSUME OneUp(u[L]) # u[L] PROVE FALSE
    BY <1>3
  <1>4. ASSUME NEW n \in 0..(L - 1), u[n + 1] = u[n] PROVE FALSE
    <2> DEFINE T == {k \in n..L : u[k] # u[n]}
    <2>1. ASSUME T # {} PROVE FALSE
      <3>1. T \in SUBSET Nat
        OBVIOUS
      <3>2. PICK k \in T : \A j \in T : k <= j
        BY <2>1, <3>1, LeastNumber
      <3>3. k # n
        BY <3>2
      <3>4. k - 1 \in n..(L - 1) /\ k - 1 \in 0..(L - 1) /\ ~ (k <= k - 1) /\ (k - 1) + 1 = k
        BY <3>3
      <3>5. k - 1 \notin T
        BY <3>2, <3>4
      <3>6. u[k - 1] = u[n]
        BY <3>4, <3>5
      <3>7. u[k] = OneUp(u[k - 1]) /\ u[n + 1] = OneUp(u[n])
        BY <1>1, <3>4
      <3>8. u[k] = u[n]
        BY <1>4, <3>6, <3>7
      <3> QED BY <3>2, <3>8
    <2>2. L \in n..L /\ L \notin T
      BY <2>1
    <2>3. u[L] = u[n]
      BY <2>2
    <2>4. OneUp(u[n]) = u[n]
      BY <1>1, <1>4
    <2> QED BY <2>3, <2>4
  <1>5. /\ IsFiniteSet(1..L) /\ Cardinality(1..L) = L
    <2>1. 1 \in Int /\ L \in Int
      OBVIOUS
    <2>2. IsFiniteSet(1..L) /\ Cardinality(1..L) = IF 1 > L THEN 0 ELSE L - 1 + 1
      BY <2>1, FS_Interval
    <2> QED BY <2>2
  <1>6. \A n \in 0..L : IsFiniteSet(u[n]) /\ Cardinality(u[n]) \in Nat /\ Cardinality(u[n]) <= L
    <2> SUFFICES ASSUME NEW n \in 0..L
                 PROVE  IsFiniteSet(u[n]) /\ Cardinality(u[n]) \in Nat /\ Cardinality(u[n]) <= L
      OBVIOUS
    <2>1. u[n] \in SUBSET (1..L)
      OBVIOUS
    <2>2. IsFiniteSet(u[n]) /\ Cardinality(u[n]) <= L
      BY <1>5, <2>1, FS_Subset
    <2> QED BY <2>2, FS_CardinalityType
  <1>7. \A n \in 0..L : n < Cardinality(u[n])
    <2> DEFINE T == {k \in 0..L : ~ (k < Cardinality(u[k]))}
    <2>1. ASSUME T # {} PROVE FALSE
      <3>1. T \in SUBSET Nat
        OBVIOUS
      <3>2. PICK k \in T : \A j \in T : k <= j
        BY <2>1, <3>1, LeastNumber
      <3>3. k # 0
        <4>1. IsFiniteSet(u[0]) /\ Cardinality(u[0]) \in Nat /\ u[0] # {}
          <5>1. 0 \in 0..L
            OBVIOUS
          <5> QED BY <1>1, <1>6, <5>1
        <4>2. Cardinality(u[0]) # 0
          BY <4>1, FS_EmptySet
        <4>3. 0 < Cardinality(u[0])
          BY <4>1, <4>2
        <4> QED BY <3>2, <4>3
      <3>4. k - 1 \in 0..(L - 1) /\ k - 1 \in 0..L /\ ~ (k <= k - 1) /\ (k - 1) + 1 = k
        BY <3>3
      <3>5. k - 1 < Cardinality(u[k - 1])
        BY <3>2, <3>4
      <3>6. u[k - 1] \in SUBSET u[k] /\ u[k - 1] # u[k]
        BY <1>2, <1>4, <3>4
      <3>7. Cardinality(u[k - 1]) <= Cardinality(u[k])
            /\ Cardinality(u[k - 1]) # Cardinality(u[k])
        <4>1. IsFiniteSet(u[k])
          BY <1>6
        <4> QED BY <3>6, <4>1, FS_Subset
      <3>8. Cardinality(u[k - 1]) \in Nat /\ Cardinality(u[k]) \in Nat
        BY <1>6, <3>4
      <3>9. k < Cardinality(u[k])
        BY <3>4, <3>5, <3>7, <3>8
      <3> QED BY <3>2, <3>9
    <2> QED BY <2>1
  <1>8. L \in 0..L
    OBVIOUS
  <1> QED
    BY <1>6, <1>7, <1>8

LEMMA AncestorsClosed ==
    ASSUME plans \in Seq(PlanRecords), Tree(plans), NEW q \in DOMAIN plans
    PROVE  /\ q \in Ancestors(q)
           /\ \A r \in Ancestors(q) : plans[r].parent # 0 => plans[r].parent \in Ancestors(q)
  <1>1. Len(plans) \in Nat /\ DOMAIN plans = 1..Len(plans)
    OBVIOUS
  <1>2. PICK u : Walk(u, Len(plans), q) /\ Ancestors(q) = u[Len(plans)]
    BY AncestorsWalk
  <1>3. PICK rank \in [DOMAIN plans -> Nat] : Ranked(plans, rank)
    BY DEF Tree
  <1>4. ASSUME NEW n \in 0..Len(plans) PROVE u[n] \subseteq 1..Len(plans)
    <2>1. u[n] \subseteq {r \in DOMAIN plans : rank[r] <= rank[q]}
      BY <1>1, <1>2, <1>3, WalkBelow
    <2> QED BY <1>1, <2>1
  <1>5. q # 0
    BY <1>1
  <1>6. q \in u[Len(plans)] /\ OneUp(u[Len(plans)]) = u[Len(plans)]
    BY <1>1, <1>2, <1>4, <1>5, WalkEnds
  <1> QED
    BY <1>2, <1>6 DEF OneUp

(* A plan may be put below another that it is not above. *)
LEMMA Grafted ==
    ASSUME plans \in Seq(PlanRecords), Tree(plans), NEW p \in DOMAIN plans, NEW n,
           n.parent # 0 => n.parent \in DOMAIN plans /\ p \notin Ancestors(n.parent)
    PROVE  Tree([plans EXCEPT ![p] = n])
  <1> DEFINE Q == [plans EXCEPT ![p] = n]
  <1>1. DOMAIN Q = DOMAIN plans /\ Q[p] = n /\ \A r \in DOMAIN plans : r # p => Q[r] = plans[r]
    OBVIOUS
  <1> HIDE DEF Q
  <1>2. PICK rank \in [DOMAIN plans -> Nat] : Ranked(plans, rank)
    BY DEF Tree
  <1>3. CASE n.parent = 0
    <2>1. Ranked(Q, rank)
      BY <1>1, <1>2, <1>3 DEF Ranked
    <2> QED BY <1>1, <2>1 DEF Tree, Q
  <1>4. CASE n.parent # 0
    <2> DEFINE q == n.parent
               A == Ancestors(q)
               high == [r \in DOMAIN plans |-> IF r \in A THEN rank[r] ELSE rank[r] + rank[q] + 1]
    <2>1. q \in DOMAIN plans /\ p \notin A /\ q \in A
          /\ \A r \in A : plans[r].parent # 0 => plans[r].parent \in A
      BY <1>4, AncestorsClosed
    <2>2. /\ high \in [DOMAIN plans -> Nat]
          /\ \A r \in DOMAIN plans : IF r \in A THEN high[r] = rank[r]
                                     ELSE high[r] = rank[r] + rank[q] + 1
      <3>1. rank[q] \in Nat /\ \A r \in DOMAIN plans : rank[r] \in Nat
        BY <2>1
      <3> HIDE DEF A, q
      <3> QED BY <3>1
    <2> HIDE DEF A, q, high
    <2>3. ASSUME NEW r \in DOMAIN plans, Q[r].parent # 0
          PROVE  Q[r].parent \in DOMAIN plans /\ high[Q[r].parent] < high[r]
      <3>1. CASE r = p
        <4>1. Q[r].parent = q
          BY <1>1, <3>1 DEF q
        <4>2. rank[q] \in Nat /\ rank[p] \in Nat
          BY <2>1
        <4>3. high[q] = rank[q] /\ high[p] = rank[p] + rank[q] + 1
          BY <2>1, <2>2
        <4> QED BY <2>1, <3>1, <4>1, <4>2, <4>3
      <3>2. CASE r # p
        <4> DEFINE s == plans[r].parent
        <4>1. Q[r].parent = s /\ s # 0
          BY <1>1, <2>3, <3>2
        <4>2. s \in DOMAIN plans /\ rank[s] < rank[r]
          BY <1>2, <4>1 DEF Ranked
        <4>3. r \in A => s \in A
          BY <2>1, <4>1
        <4> HIDE DEF s
        <4>4. rank[s] \in Nat /\ rank[r] \in Nat /\ rank[q] \in Nat
          BY <2>1, <4>2
        <4>5. high[s] < high[r]
          <5>1. CASE r \in A
            BY <2>2, <4>2, <4>3, <5>1
          <5>2. CASE r \notin A
            <6>1. high[r] = rank[r] + rank[q] + 1
              BY <2>2, <5>2
            <6>2. high[s] = rank[s] \/ high[s] = rank[s] + rank[q] + 1
              BY <2>2, <4>2
            <6> QED BY <4>2, <4>4, <6>1, <6>2
          <5> QED BY <5>1, <5>2
        <4> QED BY <4>1, <4>2, <4>5
      <3> QED BY <3>1, <3>2
    <2>4. Ranked(Q, high)
      BY <1>1, <2>3 DEF Ranked
    <2> QED BY <1>1, <2>2, <2>4 DEF Tree, Q
  <1> QED
    BY <1>3, <1>4

(* A plan that stays where it was. *)
LEMMA SamePlace ==
    ASSUME plans \in Seq(PlanRecords), Tree(plans), NEW p \in DOMAIN plans, NEW n,
           n.parent = plans[p].parent
    PROVE  Tree([plans EXCEPT ![p] = n])
  <1> DEFINE Q == [plans EXCEPT ![p] = n]
  <1>1. DOMAIN Q = DOMAIN plans /\ \A r \in DOMAIN plans : Q[r].parent = plans[r].parent
    OBVIOUS
  <1>2. PICK rank \in [DOMAIN plans -> Nat] : Ranked(plans, rank)
    BY DEF Tree
  <1> HIDE DEF Q
  <1>3. Ranked(Q, rank)
    BY <1>1, <1>2 DEF Ranked
  <1>4. Tree(Q)
    BY <1>1, <1>2, <1>3 DEF Tree
  <1> QED
    BY <1>4 DEF Q

(* A plan that begins, in a place of its own or for others of its name, is   *)
(* below no plan.                                                          *)
LEMMA CreatedInATree ==
    ASSUME Typed, rscene.workers = 1, Tree(plans), PlanCreated(1), calls[1].new.parent = 0
    PROVE  Tree(plans')
  <1> DEFINE n == calls[1].new
  <1>a. plans \in Seq(PlanRecords)
    BY DEF Typed, RecordsTypeOK
  <1>1. PICK rank \in [DOMAIN plans -> Nat] : Ranked(plans, rank)
    BY DEF Tree
  <1>2. n.parent = 0
    OBVIOUS
  <1>3. CASE plans' = Append(plans, n)
    <2> DEFINE high == [r \in DOMAIN plans' |-> IF r \in DOMAIN plans THEN rank[r] ELSE 0]
    <2>1. DOMAIN plans \subseteq DOMAIN plans'
          /\ \A r \in DOMAIN plans' : IF r \in DOMAIN plans THEN plans'[r] = plans[r]
                                      ELSE plans'[r] = n
      BY <1>a, <1>3
    <2>2. high \in [DOMAIN plans' -> Nat] /\ \A r \in DOMAIN plans : high[r] = rank[r]
      BY <2>1
    <2> HIDE DEF high, n
    <2>3. Ranked(plans', high)
      BY <1>1, <1>2, <2>1, <2>2 DEF Ranked
    <2> QED BY <2>2, <2>3 DEF Tree
  <1>4. CASE plans' # Append(plans, n)
    <2>1. DOMAIN plans' = DOMAIN plans
          /\ \A r \in DOMAIN plans : plans'[r] = plans[r] \/ plans'[r] = n
      BY <1>4 DEF PlanCreated
    <2> HIDE DEF n
    <2>2. Ranked(plans', rank)
      BY <1>1, <1>2, <2>1 DEF Ranked
    <2> QED BY <2>1, <2>2 DEF Tree
  <1> QED
    BY <1>3, <1>4

(* The scenes that make one call at a time begin with a tree of plans. *)
PlansGiven == \A x \in RecordScenes : x.workers = 1 => Tree(x.given.plans)

(* It is a tree, and will be one when the call has written its plan. *)
WriteKeepsTree(k) == Tree([plans EXCEPT ![k.plan] = k.new])
InATree ==
    rscene.workers = 1 =>
        /\ Tree(plans)
        /\ Writes(calls[1]) => WriteKeepsTree(calls[1])
        /\ calls[1].op = "plan" => calls[1].new.parent = 0

LEMMA InATreeStep == ASSUME Typed, InATree, [RecordsNext]_rvars PROVE InATree'
  <1>a. UNCHANGED rscene
    BY SceneKept
  <1> SUFFICES ASSUME rscene.workers = 1 PROVE InATree'
    BY <1>a DEF InATree
  <1>n. NoCall.op = "none" /\ ~Writes(NoCall)
    BY NoCallMinds DEF Writes, Counts
  <1>p. /\ plans \in Seq(PlanRecords)
        /\ calls[1].op = "close" => calls[1].plan \in DOMAIN plans
    BY AloneCalls DEF Typed, RecordsTypeOK, PlansFound
  <1>t. Tree(plans)
    BY DEF InATree
  <1>w. ASSUME NEW p \in DOMAIN plans, UNCHANGED plans, calls'[1].plan = p,
               calls'[1].op # "plan", Tree([plans EXCEPT ![p] = calls'[1].new])
        PROVE  InATree'
    BY <1>t, <1>w DEF InATree, WriteKeepsTree
  <1>1. CASE PlansAside
    <2>1. CASE UNCHANGED calls
      BY <1>1, <2>1 DEF PlansAside, InATree, WriteKeepsTree, Writes, Counts
    <2>2. CASE ~UNCHANGED calls
      <3>1. ~Writes(calls'[1]) /\ calls'[1].op # "plan" /\ UNCHANGED plans
        BY <1>1, <1>n, <2>2 DEF PlansAside
      <3> QED BY <1>t, <3>1 DEF InATree, Writes, Counts
    <2> QED BY <2>1, <2>2
  <1>2. ASSUME NEW p \in DOMAIN plans, PlanAtHand(p) PROVE InATree'
    <2> DEFINE n == calls'[1].new
    <2>1. /\ \/ n.parent = plans[p].parent
             \/ /\ n.parent \in 0..Len(plans)
                /\ n.parent # 0 => p \notin Ancestors(n.parent)
          /\ calls'[1].plan = p /\ calls'[1].op # "plan" /\ UNCHANGED plans
      BY <1>2 DEF PlanAtHand, Writes, Counts
    <2>2. CASE n.parent = plans[p].parent
      <3> HIDE DEF n
      <3>1. Tree([plans EXCEPT ![p] = n])
        BY <1>p, <1>t, <2>2, SamePlace
      <3> QED BY <1>w, <2>1, <3>1 DEF n
    <2>3. CASE n.parent # plans[p].parent
      <3>1. n.parent # 0 => n.parent \in DOMAIN plans /\ p \notin Ancestors(n.parent)
        BY <1>p, <2>1, <2>3
      <3> HIDE DEF n
      <3>2. Tree([plans EXCEPT ![p] = n])
        BY <1>p, <1>t, <3>1, Grafted
      <3> QED BY <1>w, <2>1, <3>2 DEF n
    <2> QED BY <2>2, <2>3
  <1>3. CASE PlanThoughtOf
    BY <1>3, <1>t DEF PlanThoughtOf, InATree, Writes, Counts
  <1>4. CASE PlanCreated(1)
    <2>1. calls[1].new.parent = 0
      BY <1>4 DEF PlanCreated, InATree
    <2>2. Tree(plans')
      BY <1>4, <1>t, <2>1, CreatedInATree
    <2>3. calls'[1] = NoCall
      BY <1>4, AloneCalls DEF PlanCreated
    <2> QED BY <1>n, <2>2, <2>3 DEF InATree, Writes, Counts
  <1>5. CASE PlanWrittenBack
    <2>1. Tree(plans')
      BY <1>5 DEF PlanWrittenBack, InATree, WriteKeepsTree
    <2>2. ~Writes(calls'[1]) /\ calls'[1].op # "plan"
      BY <1>5 DEF PlanWrittenBack, Writes, Counts
    <2> QED BY <2>1, <2>2 DEF InATree, Writes, Counts
  <1>6. CASE PlanToBeClosed
    <2> DEFINE p == calls[1].plan
               n == calls'[1].new
    <2>1. p \in DOMAIN plans /\ n.parent = plans[p].parent /\ calls'[1].plan = p
          /\ calls'[1].op # "plan" /\ UNCHANGED plans
      BY <1>6, <1>p DEF PlanToBeClosed
    <2> HIDE DEF p, n
    <2>2. Tree([plans EXCEPT ![p] = n])
      BY <1>p, <1>t, <2>1, SamePlace
    <2> QED BY <1>w, <2>1, <2>2 DEF n
  <1> QED
    BY <1>1, <1>2, <1>3, <1>4, <1>5, <1>6, PlanSteps

LEMMA InATreeInit == ASSUME PlansGiven, RecordsInit PROVE InATree
  <1> SUFFICES ASSUME rscene.workers = 1 PROVE InATree
    BY DEF InATree
  <1>x. /\ rscene \in RecordScenes /\ plans = rscene.given.plans
        /\ calls = [w \in Workers |-> NoCall]
    BY DEF RecordsInit
  <1>1. Tree(plans)
    BY <1>x DEF PlansGiven
  <1>2. calls[1] = NoCall
    BY <1>x DEF Workers
  <1>3. NoCall.op = "none" /\ ~Writes(NoCall)
    BY NoCallMinds DEF Writes, Counts
  <1> QED
    BY <1>1, <1>2, <1>3 DEF InATree

(* The parents of the strategic plans form a tree, however many plans there  *)
(* are and however deep: no plan is put below itself, or below one that is  *)
(* below it (detectStrategicPlanCycle), as long as calls come one at a time. *)
THEOREM PlansAreATree == ASSUME PlansGiven PROVE RecordsSpec => []PlansFormATree
  <1>1. RecordsInit => Typed /\ InATree
    BY TypedInit, InATreeInit
  <1>2. Typed /\ [RecordsNext]_rvars => Typed'
    BY TypedStep
  <1>3. Typed /\ InATree /\ [RecordsNext]_rvars => InATree'
    BY InATreeStep
  <1>4. ASSUME Typed, InATree PROVE PlansFormATree
    <2> SUFFICES ASSUME rscene.workers = 1, NEW p \in DOMAIN plans, plans[p].parent # 0
                 PROVE  p \notin Ancestors(plans[p].parent)
      BY DEF PlansFormATree
    <2> DEFINE q == plans[p].parent
    <2>1. plans \in Seq(PlanRecords)
      BY <1>4 DEF Typed, RecordsTypeOK
    <2>2. PICK rank \in [DOMAIN plans -> Nat] : Ranked(plans, rank)
      BY <1>4 DEF InATree, Tree
    <2>3. q \in DOMAIN plans /\ rank[q] < rank[p]
      BY <2>2 DEF Ranked
    <2> HIDE DEF q
    <2>4. \A r \in Ancestors(q) : r \in DOMAIN plans /\ rank[r] <= rank[q]
      BY <2>1, <2>2, <2>3, AncestorsBelow
    <2>5. rank[p] \in Nat /\ rank[q] \in Nat /\ ~ (rank[p] <= rank[q])
      BY <2>3
    <2> QED BY <2>4, <2>5 DEF q
  <1> QED
    BY <1>1, <1>2, <1>3, <1>4, PTL DEF RecordsSpec
=============================================================================
