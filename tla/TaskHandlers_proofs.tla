------------------------ MODULE TaskHandlers_proofs ------------------------
(***************************************************************************)
(* Theorems about the calls taken apart, for any tasks and dependencies:   *)
(* first of any number of sessions, then of one session whose process does *)
(* not die, which implements the board of TaskBoard.                       *)
(***************************************************************************)
EXTENDS TaskHandlersSerial, FiniteSetTheorems, SequenceTheorems, TLAPS

-----------------------------------------------------------------------------
(* Programs. *)

LEMMA Tails ==
    ASSUME NEW S, NEW p \in Seq(S), p # <<>>
    PROVE  /\ Tail(p) \in Seq(S) /\ Len(Tail(p)) = Len(p) - 1
           /\ \A i \in 1 .. Len(p) - 1 : Tail(p)[i] = p[i + 1]
           /\ Head(p) = p[1] /\ p[1] \in S /\ Len(p) \in Nat \ {0}
  OBVIOUS

LEMMA LastTail ==
    ASSUME NEW S, NEW p \in Seq(S), Len(p) = 1
    PROVE  Tail(p) = <<>>
  <1>1. p # <<>>
    OBVIOUS
  <1>2. Tail(p) \in Seq(S) /\ Len(Tail(p)) = 0
    BY <1>1, Tails
  <1> QED
    BY <1>2, EmptySeq

LEMMA Joins ==
    ASSUME NEW S, NEW p \in Seq(S), NEW q \in Seq(S)
    PROVE  /\ p \o q \in Seq(S) /\ Len(p \o q) = Len(p) + Len(q)
           /\ \A i \in 1 .. Len(p) : (p \o q)[i] = p[i]
           /\ \A i \in 1 .. Len(q) : (p \o q)[Len(p) + i] = q[i]
           /\ \A i \in 1 .. Len(p) + Len(q) : i > Len(p) =>
                 i - Len(p) \in 1 .. Len(q) /\ (p \o q)[i] = q[i - Len(p)]
  OBVIOUS

(* Each goes through a finite set once, element by element. *)
LEMMA EachCovers ==
    ASSUME NEW S, IsFiniteSet(S), NEW kind, NEW s
    PROVE  /\ Cardinality(S) \in Nat
           /\ Each(kind, S, s) = [i \in 1 .. Cardinality(S) |-> Instruction(kind, SetToSeq(S)[i], s)]
           /\ \A i \in 1 .. Cardinality(S) : SetToSeq(S)[i] \in S
           /\ \A u \in S : \E i \in 1 .. Cardinality(S) : SetToSeq(S)[i] = u
  <1> DEFINE n == Cardinality(S)
  <1>1. n \in Nat /\ ExistsBijection(1 .. n, S)
    BY FS_CardinalityType
  <1>2. PICK g \in Bijection(1 .. n, S) : TRUE
    BY <1>1 DEF ExistsBijection
  <1>3. g \in [1 .. n -> S] /\ IsInjective(g)
    BY <1>2 DEF Bijection, Injection, IsInjective
  <1>4. SetToSeq(S) \in [1 .. n -> S] /\ IsInjective(SetToSeq(S))
    BY <1>3 DEF SetToSeq
  <1>5. SetToSeq(S) \in Injection(1 .. n, S)
    BY <1>4 DEF Injection, IsInjective
  <1>6. IsFiniteSet(1 .. n) /\ Cardinality(1 .. n) = n
    BY <1>1, FS_Interval
  <1>7. SetToSeq(S) \in Surjection(1 .. n, S)
    BY <1>5, <1>6, FS_Injection
  <1> QED
    BY <1>1, <1>4, <1>7 DEF Surjection, Each

LEMMA EachTyped ==
    ASSUME NEW S \in SUBSET Tasks, NEW kind \in Moving, NEW s \in TaskStatuses
    PROVE  /\ Each(kind, S, s) \in Seq(Instructions)
           /\ Len(Each(kind, S, s)) = Cardinality(S)
           /\ \A i \in 1 .. Len(Each(kind, S, s)) :
                 /\ Each(kind, S, s)[i].do = kind /\ Each(kind, S, s)[i].to = s
                 /\ Each(kind, S, s)[i].task \in S
           /\ \A u \in S : \E i \in 1 .. Len(Each(kind, S, s)) : Each(kind, S, s)[i].task = u
  <1>1. IsFiniteSet(S)
    BY HandlersAssumption, FS_Subset
  <1> DEFINE n == Cardinality(S)
             f == SetToSeq(S)
             e == [i \in 1 .. n |-> Instruction(kind, f[i], s)]
  <1>2. /\ n \in Nat /\ Each(kind, S, s) = e
        /\ \A i \in 1 .. n : f[i] \in S
        /\ \A u \in S : \E i \in 1 .. n : f[i] = u
    BY <1>1, EachCovers
  <1> HIDE DEF f, n
  <1>3. \A i \in 1 .. n : e[i] \in Instructions /\ e[i].do = kind /\ e[i].to = s /\ e[i].task = f[i]
    BY <1>2 DEF Instruction, Instructions, Moving
  <1>4. e \in Seq(Instructions) /\ Len(e) = n
    BY <1>2, <1>3
  <1> QED
    BY <1>2, <1>3, <1>4 DEF n

-----------------------------------------------------------------------------
(* Types. *)

(* A write is under way only where the program has one to do. *)
WritesUnderWay == \A c \in Sessions : phase[c] # "load" => At(c, Writes)
TypeInv == TypeOK /\ WritesUnderWay

LEMMA TaskTable ==
    ASSUME NEW a, NEW b, CanTransition("task", a, b)
    PROVE  /\ a \in TaskStatuses /\ b \in TaskStatuses \ {"queued"}
           /\ ~ IsTaskDependencySatisfied(a)
  <1>1. <<a, b>> \in TaskEdges /\ a \notin {"done", "not-planned", "duplicate"}
    BY DEF CanTransition, AllowedTransitions, IsTerminalState, TerminalStates
  <1> QED
    BY <1>1 DEF TaskEdges, TaskStatuses, IsTaskDependencySatisfied, DependencyTerminalStates

(* The programs of the calls, and what a step leaves of one. *)
LEMMA ShortPrograms ==
    ASSUME NEW S
    PROVE  /\ <<>> \in Seq(S)
           /\ \A a \in S : <<a>> \in Seq(S) /\ Len(<<a>>) = 1 /\ <<a>>[1] = a
           /\ \A a, b \in S : /\ <<a, b>> \in Seq(S) /\ Len(<<a, b>>) = 2
                              /\ <<a, b>>[1] = a /\ <<a, b>>[2] = b
           /\ \A a, b, c, d \in S :
                 /\ <<a, b, c, d>> \in Seq(S) /\ Len(<<a, b, c, d>>) = 4
                 /\ <<a, b, c, d>>[1] = a /\ <<a, b, c, d>>[2] = b
                 /\ <<a, b, c, d>>[3] = c /\ <<a, b, c, d>>[4] = d
  OBVIOUS

LEMMA Pairs ==
    ASSUME NEW S, NEW a \in S, NEW b \in S
    PROVE  <<a>> \o <<b>> = <<a, b>> /\ <<a>> \o <<>> = <<a>>
  <1>1. /\ <<a>> \in Seq(S) /\ Len(<<a>>) = 1 /\ <<a>>[1] = a
        /\ <<b>> \in Seq(S) /\ Len(<<b>>) = 1 /\ <<b>>[1] = b
        /\ <<a, b>> \in Seq(S) /\ Len(<<a, b>>) = 2 /\ <<a, b>>[1] = a /\ <<a, b>>[2] = b
    OBVIOUS
  <1>2. <<a>> \o <<b>> \in Seq(S) /\ Len(<<a>> \o <<b>>) = 2
    BY <1>1
  <1>3. (<<a>> \o <<b>>)[1] = a /\ (<<a>> \o <<b>>)[2] = b
    BY <1>1
  <1>4. \A i \in 1 .. 2 : (<<a>> \o <<b>>)[i] = <<a, b>>[i]
    BY <1>1, <1>3
  <1>5. <<a>> \o <<b>> = <<a, b>>
    BY <1>1, <1>2, <1>4, SeqEqual
  <1>6. <<a>> \o <<>> = <<a>>
    OBVIOUS
  <1> QED
    BY <1>5, <1>6

LEMMA CurrentTyped ==
    ASSUME TypeInv, NEW c \in Sessions, ~ Quiet(c)
    PROVE  /\ Current(c) = prog[c][1] /\ Current(c) \in Instructions
           /\ Current(c).task \in Tasks
           /\ Current(c).do \in Moving => Current(c).to \in TaskStatuses
           /\ Tail(prog[c]) \in Seq(Instructions)
           /\ prog[c] \in Seq(Instructions) /\ prog[c] # <<>> /\ 1 \in 1 .. Len(prog[c])
  <1>1. prog[c] \in Seq(Instructions) /\ prog[c] # <<>>
    BY DEF TypeInv, TypeOK, Quiet
  <1>2. /\ Head(prog[c]) = prog[c][1] /\ prog[c][1] \in Instructions
        /\ Tail(prog[c]) \in Seq(Instructions) /\ Len(prog[c]) \in Nat \ {0}
    BY <1>1, Tails
  <1>3. \A i \in Instructions : i.task \in Tasks /\ (i.do \in Moving => i.to \in TaskStatuses)
    BY DEF Instructions
  <1>4. 1 \in 1 .. Len(prog[c])
    BY <1>2
  <1> QED
    BY <1>1, <1>2, <1>3, <1>4 DEF Current

LEMMA WrittenTyped ==
    ASSUME NEW c \in Sessions, NEW i \in Instructions, i.do \in Writes, NEW r \in Records
    PROVE  /\ Written(c, i, r) \in Records
           /\ i.do \in {"status", "try", "promote"} => Written(c, i, r).status = i.to
           /\ i.do \in {"claim", "complete"} => Written(c, i, r).status = r.status
  <1>1. CASE i.do \in {"status", "try", "promote"}
    <2>1. i.to \in TaskStatuses
      BY <1>1 DEF Instructions, Moving
    <2>2. Written(c, i, r) = [r EXCEPT !.status = i.to]
      BY <1>1 DEF Written
    <2> QED
      BY <1>1, <2>1, <2>2 DEF Records
  <1>2. CASE i.do = "claim"
    BY <1>2 DEF Written, Records
  <1>3. CASE i.do = "complete"
    BY <1>3 DEF Written, Records
  <1> QED
    BY <1>1, <1>2, <1>3 DEF Writes

LEMMA AfterWriteIs ==
    ASSUME NEW i \in Instructions, i.do \in Writes, NEW r \in Records
    PROVE  /\ AfterWrite(i, r) \in Seq(Instructions)
           /\ i.do \in {"claim", "promote"} => AfterWrite(i, r) = <<>>
           /\ i.do \in {"status", "try", "complete"} =>
                 /\ Len(AfterWrite(i, r)) \in 1 .. 2
                 /\ AfterWrite(i, r)[1].do = "upsert"
                 /\ AfterWrite(i, r)[1].task = i.task
                 /\ AfterWrite(i, r)[1].to = r.status
                 /\ Len(AfterWrite(i, r)) = 2 =>
                       AfterWrite(i, r)[2].do = "hook" /\ AfterWrite(i, r)[2].task = i.task
                 /\ i.do # "complete" /\ IsTaskDependencySatisfied(i.to) =>
                       Len(AfterWrite(i, r)) = 2
                 /\ i.do = "complete" \/ ~ IsTaskDependencySatisfied(i.to) =>
                       Len(AfterWrite(i, r)) = 1
  <1> DEFINE up == Instruction("upsert", i.task, r.status)
             hook == Instruction("hook", i.task, "")
  <1>0. i.task \in Tasks /\ r.status \in TaskStatuses
    BY DEF Instructions, Records
  <1>1. /\ up \in Instructions /\ up.do = "upsert" /\ up.task = i.task /\ up.to = r.status
        /\ hook \in Instructions /\ hook.do = "hook" /\ hook.task = i.task
    BY <1>0 DEF Instruction, Instructions, Moving, Kinds
  <1>2. Refresh(i, r) = <<up>>
    BY DEF Refresh
  <1>3. /\ IsTaskDependencySatisfied(i.to) => Wake(i) = <<hook>>
        /\ ~ IsTaskDependencySatisfied(i.to) => Wake(i) = <<>>
    <2>1. ASSUME IsTaskDependencySatisfied(i.to) PROVE Wake(i) = <<hook>>
      BY <2>1 DEF Wake
    <2>2. ASSUME ~ IsTaskDependencySatisfied(i.to) PROVE Wake(i) = <<>>
      BY <2>2 DEF Wake
    <2> QED
      BY <2>1, <2>2
  <1> HIDE DEF up, hook
  <1>4. /\ IsTaskDependencySatisfied(i.to) => Refresh(i, r) \o Wake(i) = <<up, hook>>
        /\ ~ IsTaskDependencySatisfied(i.to) => Refresh(i, r) \o Wake(i) = <<up>>
    <2>1. <<up>> \o <<hook>> = <<up, hook>> /\ <<up>> \o <<>> = <<up>>
      BY <1>1, Pairs
    <2> QED
      BY ONLY <1>2, <1>3, <2>1, Zenon
  <1>5. CASE i.do \in {"claim", "promote"}
    <2>1. AfterWrite(i, r) = <<>>
      BY <1>5 DEF AfterWrite
    <2> QED
      BY <1>5, <2>1, ShortPrograms
  <1>6. CASE i.do = "complete"
    <2>1. AfterWrite(i, r) = <<up>>
      BY <1>2, <1>6 DEF AfterWrite
    <2> QED
      BY <1>1, <1>6, <2>1, ShortPrograms
  <1>7. CASE i.do \in {"status", "try"}
    <2>1. AfterWrite(i, r) = Refresh(i, r) \o Wake(i)
      BY <1>7 DEF AfterWrite
    <2>2. CASE IsTaskDependencySatisfied(i.to)
      <3>1. AfterWrite(i, r) = <<up, hook>>
        BY <1>4, <2>1, <2>2
      <3> QED
        BY <1>1, <1>7, <2>2, <3>1, ShortPrograms
    <2>3. CASE ~ IsTaskDependencySatisfied(i.to)
      <3>1. AfterWrite(i, r) = <<up>>
        BY <1>4, <2>1, <2>3
      <3> QED
        BY <1>1, <1>7, <2>3, <3>1, ShortPrograms
    <2> QED
      BY <2>2, <2>3
  <1> QED
    BY <1>5, <1>6, <1>7 DEF Writes

(* What is left of the invariant when a step changes little. *)
LEMMA ProgramOnly ==
    ASSUME TypeInv, NEW c \in Sessions, NEW p \in Seq(Instructions), Run(c, p),
           phase[c] = "load", UNCHANGED <<file, phase, held, dirty>>,
           row' \in [Tasks -> TaskStatuses], listed' \in [Sessions -> [Tasks -> TaskStatuses]],
           answer' \in {<<>>} \cup {<<S>> : S \in SUBSET Tasks}, crashes' \in 0 .. MaxCrashes
    PROVE  TypeInv'
  <1>1. prog' \in [Sessions -> Seq(Instructions)] /\ \A d \in Sessions \ {c} : prog'[d] = prog[d]
    BY DEF TypeInv, TypeOK, Run
  <1>2. WritesUnderWay'
    BY <1>1 DEF TypeInv, WritesUnderWay, At, Quiet
  <1> QED
    BY <1>1, <1>2 DEF TypeInv, TypeOK

LEMMA LetsGo ==
    ASSUME TypeInv, NEW c \in Sessions, Forget(c), NEW p \in Seq(Instructions), Run(c, p)
    PROVE  /\ prog' \in [Sessions -> Seq(Instructions)] /\ prog'[c] = p
           /\ \A d \in Sessions \ {c} : prog'[d] = prog[d]
           /\ held' \in [Sessions -> Records] /\ held'[c] = New
           /\ \A d \in Sessions \ {c} : held'[d] = held[d]
           /\ phase' \in [Sessions -> {"load", "verify", "rename"}] /\ phase'[c] = "load"
           /\ \A d \in Sessions \ {c} : phase'[d] = phase[d]
           /\ WritesUnderWay'
  <1>1. New \in Records
    BY DEF New, Records, TaskStatuses
  <1> QED
    BY <1>1 DEF TypeInv, TypeOK, Forget, Run, WritesUnderWay, At, Quiet

LEMMA FailLeaves ==
    ASSUME TypeInv, NEW c \in Sessions, ~ Quiet(c), Fail(c)
    PROVE  \E p \in Seq(Instructions) :
              /\ Run(c, p)
              /\ IF Current(c).do \in {"try", "promote"} THEN p = Tail(prog[c]) ELSE p = <<>>
  BY CurrentTyped, ShortPrograms DEF Fail, Continue, Abort

LEMMA CallTyped ==
    ASSUME TypeInv, NEW c \in Sessions, Call(c)
    PROVE  \E p \in Seq(Instructions) : Begin(c, p)
  <1>0. \A kind \in Kinds \ Moving, t \in Tasks : Instruction(kind, t, "") \in Instructions
    BY DEF Instruction, Instructions
  <1>m. \A t \in Tasks, s \in TaskStatuses : Instruction("status", t, s) \in Instructions
    BY DEF Instruction, Instructions, Moving
  <1>s. {"active", "done", "needs-review"} \subseteq TaskStatuses
    BY DEF TaskStatuses
  <1>k. {"ready?", "deps?", "active?", "claim", "complete", "commit", "queue"} \subseteq Kinds \ Moving
    BY DEF Kinds, Writes, Moving
  <1>t. Serves[c] \subseteq Tasks
    BY HandlersAssumption
  <1>1. ASSUME NEW t \in Serves[c], ClaimCall(c, t) PROVE \E p \in Seq(Instructions) : Begin(c, p)
    <2>1. << Instruction("ready?", t, ""), Instruction("deps?", t, ""),
             Instruction("status", t, "active"), Instruction("claim", t, "") >> \in Seq(Instructions)
      BY <1>0, <1>m, <1>s, <1>k, <1>t, ShortPrograms
    <2> QED
      BY <1>1, <2>1 DEF ClaimCall
  <1>2. ASSUME NEW t \in Serves[c], FinishRefusedCall(c, t) PROVE \E p \in Seq(Instructions) : Begin(c, p)
    <2>1. << Instruction("status", t, "active") >> \in Seq(Instructions)
      BY <1>m, <1>s, <1>t, ShortPrograms
    <2> QED
      BY <1>2, <2>1 DEF FinishRefusedCall
  <1>3. ASSUME NEW t \in Serves[c], NEW s, FinishCall(c, t, s) PROVE \E p \in Seq(Instructions) : Begin(c, p)
    <2>1. (IF file[t].status = "ready" THEN << Instruction("status", t, "active") >> ELSE <<>>)
             \in Seq(Instructions)
      BY <1>m, <1>s, <1>t, ShortPrograms
    <2>2. << Instruction("active?", t, ""), Instruction("status", t, s),
             Instruction("complete", t, ""), Instruction("commit", t, "") >> \in Seq(Instructions)
      <3>1. s \in TaskStatuses
        BY <1>3, <1>s DEF FinishCall
      <3> QED
        BY <1>0, <1>m, <1>k, <1>t, <3>1, ShortPrograms
    <2>3. (IF file[t].status = "ready" THEN << Instruction("status", t, "active") >> ELSE <<>>)
          \o << Instruction("active?", t, ""), Instruction("status", t, s),
                Instruction("complete", t, ""), Instruction("commit", t, "") >> \in Seq(Instructions)
      BY <2>1, <2>2, Joins
    <2> QED
      BY <1>3, <2>3 DEF FinishCall
  <1>4. ASSUME NEW t \in Serves[c], NEW s, TransitionCall(c, t, s)
        PROVE  \E p \in Seq(Instructions) : Begin(c, p)
    <2>1. s \in TaskStatuses
      BY <1>4, TaskTable DEF TransitionCall
    <2>2. << Instruction("status", t, s), Instruction("commit", t, "") >> \in Seq(Instructions)
      BY <1>0, <1>m, <1>k, <1>t, <2>1, ShortPrograms
    <2> QED
      BY <1>4, <2>2 DEF TransitionCall
  <1>5. CASE QueueCall(c)
    <2>1. << Instruction("queue", CHOOSE t \in Tasks : TRUE, "") >> \in Seq(Instructions)
      BY <1>0, <1>k, HandlersAssumption, ShortPrograms
    <2> QED
      BY <1>5, <2>1 DEF QueueCall
  <1> QED
    BY <1>1, <1>2, <1>3, <1>4, <1>5 DEF Call

LEMMA StepTyped ==
    ASSUME TypeInv, NEW c \in Sessions, Step(c) PROVE TypeInv'
  <1>0. /\ phase[c] # "load" => At(c, Writes)
        /\ row \in [Tasks -> TaskStatuses] /\ listed \in [Sessions -> [Tasks -> TaskStatuses]]
        /\ answer \in {<<>>} \cup {<<S>> : S \in SUBSET Tasks} /\ crashes \in 0 .. MaxCrashes
        /\ FileStatus \in [Tasks -> TaskStatuses]
    BY DEF TypeInv, WritesUnderWay, TypeOK, FileStatus, Records
  <1>q. ASSUME NEW kinds, At(c, kinds) PROVE ~ Quiet(c) /\ Current(c).do \in kinds
    BY <1>q DEF At, Current
  <1>n. ASSUME NEW kinds, At(c, kinds), kinds \cap Writes = {} PROVE phase[c] = "load"
    BY <1>0, <1>n DEF At
  <1>t. ASSUME ~ Quiet(c), Continue(c) \/ Abort(c)
        PROVE  \E p \in Seq(Instructions) : Run(c, p)
    BY <1>t, CurrentTyped, ShortPrograms DEF Continue, Abort
  <1>u. ASSUME ~ Quiet(c), phase[c] = "load", UNCHANGED <<file, phase, held, dirty>>,
               Continue(c) \/ Abort(c),
               row' \in [Tasks -> TaskStatuses], listed' \in [Sessions -> [Tasks -> TaskStatuses]],
               answer' \in {<<>>} \cup {<<S>> : S \in SUBSET Tasks}, UNCHANGED crashes
        PROVE  TypeInv'
    BY <1>0, <1>t, <1>u, ProgramOnly
  <1>1. CASE CheckDeps(c) \/ CheckStatus(c)
    BY <1>0, <1>1, <1>q, <1>n, <1>u DEF CheckDeps, CheckStatus, Writes
  <1>2. CASE Load(c)
    <2>1. ~ Quiet(c) /\ At(c, Writes) /\ Current(c).task \in Tasks
      BY <1>2, <1>q, CurrentTyped DEF Load
    <2>2. CASE MayWrite(Current(c), file[Current(c).task])
      <3>1. /\ phase' = [phase EXCEPT ![c] = "verify"] /\ UNCHANGED prog
            /\ held' = [held EXCEPT ![c] = file[Current(c).task]]
            /\ UNCHANGED <<file, row, listed, dirty, answer, crashes>>
        BY <1>2, <2>2 DEF Load
      <3> QED
        BY <2>1, <3>1 DEF TypeInv, TypeOK, WritesUnderWay, At, Quiet
    <2>3. CASE ~ MayWrite(Current(c), file[Current(c).task])
      <3>1. Fail(c) /\ UNCHANGED <<file, row, phase, held, listed, dirty, answer, crashes>>
        BY <1>2, <2>3 DEF Load
      <3> QED
        BY <1>0, <1>2, <2>1, <3>1, <1>u DEF Load, Fail
    <2> QED
      BY <2>2, <2>3
  <1>3. CASE Verify(c)
    <2>1. ~ Quiet(c) /\ At(c, Writes) /\ phase[c] = "verify"
      BY <1>3, <1>q DEF Verify
    <2>2. CASE file[Current(c).task] = held[c]
      <3>1. /\ phase' = [phase EXCEPT ![c] = "rename"] /\ UNCHANGED <<prog, held>>
            /\ UNCHANGED <<file, row, listed, dirty, answer, crashes>>
        BY <1>3, <2>2 DEF Verify
      <3> QED
        BY <2>1, <3>1 DEF TypeInv, TypeOK, WritesUnderWay, At, Quiet
    <2>3. CASE file[Current(c).task] # held[c]
      <3>1. Forget(c) /\ Fail(c) /\ UNCHANGED <<file, row, listed, dirty, answer, crashes>>
        BY <1>3, <2>3 DEF Verify
      <3>2. PICK p \in Seq(Instructions) : Run(c, p)
        BY <2>1, <3>1, FailLeaves
      <3> QED
        BY <3>1, <3>2, LetsGo DEF TypeInv, TypeOK
    <2> QED
      BY <2>2, <2>3
  <1>4. CASE Rename(c)
    <2> DEFINE i == Current(c)
               r == Written(c, i, held[c])
    <2>1. ~ Quiet(c) /\ i.do \in Writes /\ i \in Instructions /\ i.task \in Tasks
          /\ held[c] \in Records /\ Tail(prog[c]) \in Seq(Instructions)
      BY <1>4, <1>q, CurrentTyped DEF Rename, TypeInv, TypeOK
    <2>2. r \in Records /\ AfterWrite(i, r) \in Seq(Instructions)
      BY <2>1, WrittenTyped, AfterWriteIs
    <2>3. /\ file' = [file EXCEPT ![i.task] = r] /\ Forget(c) /\ dirty' = TRUE
          /\ Run(c, AfterWrite(i, r) \o Tail(prog[c]))
          /\ UNCHANGED <<row, listed, answer, crashes>>
      BY <1>4 DEF Rename
    <2> HIDE DEF i, r
    <2>4. AfterWrite(i, r) \o Tail(prog[c]) \in Seq(Instructions)
      BY <2>1, <2>2, Joins
    <2> QED
      BY <2>1, <2>2, <2>3, <2>4, LetsGo DEF TypeInv, TypeOK
  <1>5. CASE Upsert(c)
    <2>1. At(c, {"upsert"}) /\ phase[c] = "load" /\ ~ Quiet(c) /\ Current(c).task \in Tasks
          /\ Current(c).to \in TaskStatuses
      BY <1>5, <1>q, <1>n, CurrentTyped DEF Upsert, Writes, Moving
    <2>2. row' \in [Tasks -> TaskStatuses]
      BY <1>0, <1>5, <2>1 DEF Upsert
    <2> QED
      BY <1>0, <1>5, <2>1, <2>2, <1>u DEF Upsert
  <1>6. CASE RunHook(c)
    <2>1. ~ Quiet(c) /\ phase[c] = "load" /\ Tail(prog[c]) \in Seq(Instructions)
      BY <1>6, <1>q, <1>n, CurrentTyped DEF RunHook, Writes
    <2>2. Each("promote", Unblocked(Current(c).task), "ready") \in Seq(Instructions)
      BY EachTyped DEF Unblocked, Moving, TaskStatuses
    <2>3. Each("promote", Unblocked(Current(c).task), "ready") \o Tail(prog[c]) \in Seq(Instructions)
      BY <2>1, <2>2, Joins
    <2> QED
      BY <1>0, <1>6, <2>1, <2>3, ProgramOnly DEF RunHook
  <1>7. CASE ListQueue(c)
    <2>1. ~ Quiet(c) /\ phase[c] = "load" /\ Current(c).task \in Tasks
      BY <1>7, <1>q, <1>n, CurrentTyped DEF ListQueue, Writes
    <2>2. Each("try", Promotable, "ready") \in Seq(Instructions)
      BY EachTyped DEF Promotable, Moving, TaskStatuses
    <2>3. << Instruction("answer", Current(c).task, "") >> \in Seq(Instructions)
      <3>1. Instruction("answer", Current(c).task, "") \in Instructions
        BY <2>1 DEF Instruction, Instructions, Moving, Kinds
      <3> QED
        BY <3>1, ShortPrograms
    <2>4. Each("try", Promotable, "ready") \o << Instruction("answer", Current(c).task, "") >>
             \in Seq(Instructions)
      BY <2>2, <2>3, Joins
    <2> QED
      BY <1>0, <1>7, <2>1, <2>4, ProgramOnly DEF ListQueue
  <1>8. CASE Answer(c)
    <2>1. ~ Quiet(c) /\ phase[c] = "load"
      BY <1>8, <1>q, <1>n DEF Answer, Writes
    <2> QED
      BY <1>0, <1>8, <2>1, <1>u DEF Answer
  <1>9. CASE CommitState(c)
    <2>1. ~ Quiet(c) /\ phase[c] = "load"
      BY <1>9, <1>q, <1>n DEF CommitState, Writes
    <2>2. PICK p \in Seq(Instructions) : Run(c, p)
      BY <1>9, <1>t, <2>1 DEF CommitState
    <2>3. prog' \in [Sessions -> Seq(Instructions)] /\ \A d \in Sessions \ {c} : prog'[d] = prog[d]
      BY <2>2 DEF TypeInv, TypeOK, Run
    <2>4. dirty' \in BOOLEAN /\ UNCHANGED <<file, row, phase, held, listed, answer, crashes>>
      BY <1>9 DEF CommitState
    <2>5. WritesUnderWay'
      BY <2>1, <2>3, <2>4 DEF TypeInv, WritesUnderWay, At, Quiet
    <2> QED
      BY <2>3, <2>4, <2>5 DEF TypeInv, TypeOK
  <1>10. CASE ListFiles(c)
    <2>1. ~ Quiet(c) /\ phase[c] = "load"
      BY <1>10, <1>q, <1>n DEF ListFiles, Writes
    <2> QED
      BY <1>0, <1>10, <2>1, <1>u DEF ListFiles
  <1>11. CASE Rebuild(c)
    <2>1. ~ Quiet(c) /\ phase[c] = "load"
      BY <1>11, <1>q, <1>n DEF Rebuild, Writes
    <2>2. Unlisted \in [Tasks -> TaskStatuses]
      BY DEF Unlisted, TaskStatuses
    <2>3. row' \in [Tasks -> TaskStatuses] /\ listed' \in [Sessions -> [Tasks -> TaskStatuses]]
      BY <1>0, <1>11, <2>2 DEF Rebuild
    <2> QED
      BY <1>0, <1>11, <2>1, <2>3, <1>u DEF Rebuild
  <1> QED
    BY <1>1, <1>2, <1>3, <1>4, <1>5, <1>6, <1>7, <1>8, <1>9, <1>10, <1>11 DEF Step

LEMMA InitTyped == Init => TypeInv
  <1> SUFFICES ASSUME Init PROVE TypeInv
    OBVIOUS
  <1>1. New \in Records /\ [New EXCEPT !.status = "ready"] \in Records
    BY DEF New, Records, TaskStatuses
  <1>2. file \in [Tasks -> Records]
    BY <1>1 DEF Init
  <1>3. FileStatus \in [Tasks -> TaskStatuses]
    BY <1>2 DEF FileStatus, Records
  <1>4. Unlisted \in [Tasks -> TaskStatuses]
    BY DEF Unlisted, TaskStatuses
  <1>5. crashes \in 0 .. MaxCrashes
    BY HandlersAssumption DEF Init
  <1>6. prog \in [Sessions -> Seq(Instructions)]
    BY DEF Init
  <1>7. WritesUnderWay
    BY DEF Init, WritesUnderWay
  <1> QED
    BY <1>1, <1>2, <1>3, <1>4, <1>5, <1>6, <1>7 DEF Init, TypeInv, TypeOK

LEMMA NextTyped == TypeInv /\ [Next]_vars => TypeInv'
  <1> SUFFICES ASSUME TypeInv, [Next]_vars PROVE TypeInv'
    OBVIOUS
  <1>0. /\ row \in [Tasks -> TaskStatuses] /\ listed \in [Sessions -> [Tasks -> TaskStatuses]]
        /\ crashes \in 0 .. MaxCrashes
    BY DEF TypeInv, TypeOK
  <1>1. ASSUME NEW c \in Sessions, Call(c) PROVE TypeInv'
    <2>1. PICK p \in Seq(Instructions) : Begin(c, p)
      BY <1>1, CallTyped
    <2>2. phase[c] = "load"
      BY <2>1 DEF Begin, TypeInv, WritesUnderWay, At
    <2> QED
      BY <1>0, <2>1, <2>2, ProgramOnly DEF Begin
  <1>2. ASSUME NEW c \in Sessions, Crash(c) PROVE TypeInv'
    <2>1. PICK t \in Tasks : Run(c, << Instruction("list", t, ""), Instruction("rebuild", t, "") >>)
      BY <1>2, HandlersAssumption DEF Crash
    <2>2. << Instruction("list", t, ""), Instruction("rebuild", t, "") >> \in Seq(Instructions)
      <3>1. /\ Instruction("list", t, "") \in Instructions
            /\ Instruction("rebuild", t, "") \in Instructions
        BY DEF Instruction, Instructions, Moving, Kinds
      <3> QED
        BY <3>1, ShortPrograms
    <2>3. crashes < MaxCrashes /\ crashes' = crashes + 1
      BY <1>2 DEF Crash
    <2>4. crashes' \in 0 .. MaxCrashes
      BY <1>0, <2>3, HandlersAssumption
    <2>5. Forget(c) /\ UNCHANGED <<file, row, listed, dirty>> /\ answer' = <<>>
      BY <1>2, Zenon DEF Crash
    <2> QED
      BY <2>1, <2>2, <2>4, <2>5, LetsGo DEF TypeInv, TypeOK
  <1>3. CASE HandCommit
    BY <1>3 DEF HandCommit, TypeInv, TypeOK, WritesUnderWay, At, Quiet
  <1>4. CASE UNCHANGED vars
    BY <1>4 DEF vars, TypeInv, TypeOK, WritesUnderWay, At, Quiet
  <1> QED
    BY <1>1, <1>2, <1>3, <1>4, StepTyped DEF Next

LEMMA TypesHold == Spec => []TypeInv
  BY InitTyped, NextTyped, PTL DEF Spec

(* Every reachable state of the calls taken apart is well typed, whatever   *)
(* calls, sessions and crashes there are: in particular a session's program *)
(* is always made of instructions about tasks that exist.                  *)
THEOREM HandlersTypeCorrect == Spec => []TypeOK
  <1>1. TypeInv => TypeOK
    BY DEF TypeInv
  <1> QED
    BY <1>1, TypesHold, PTL

-----------------------------------------------------------------------------
(* No wake-up is lost between calls that run side by side, on three         *)
(* conditions.  Each is needed: the process may not die, since a hook that  *)
(* has not run is gone with it; two sessions do not make calls about the    *)
(* same task, since the older of two cache refreshes could arrive last; and *)
(* nobody inspects the queue meanwhile, whose promotions refresh the rows   *)
(* of tasks that are not the session's.                                    *)
SideBySide ==
    /\ MaxCrashes = 0
    /\ \A c, d \in Sessions : c # d => Serves[c] \cap Serves[d] = {}
    /\ "queue" \notin Ops

Ended(s) == IsTaskDependencySatisfied(s)

(* Carrying the instruction i out gives u its promotion. *)
Wakes(i, u) == \/ i.do = "hook" /\ i.task \in DependsOn[u]
               \/ i.do = "promote" /\ i.task = u
Pending(p, u) == \E j \in 1 .. Len(p) : Wakes(p[j], u)

First(p, kinds) == p # <<>> /\ p[1].do \in kinds

(* The next step of a program refreshes a row, and the one after that wakes *)
(* those that wait for its task.                                           *)
HookNext(p) == Len(p) > 1 /\ p[2].do = "hook" /\ p[2].task = p[1].task
Waking(p, d) ==
    First(p, {"upsert"}) /\ p[1].task = d /\ Ended(p[1].to) /\ HookNext(p)

(* The programs of the calls other than a queue inspection: they move the  *)
(* tasks of their session, they refresh a row before they do anything      *)
(* else, and no wake-up comes after an instruction that may end the call.  *)
Shaped(c, p) ==
    \A j \in 1 .. Len(p) :
        /\ p[j].do \notin {"try", "queue", "answer", "list", "rebuild"}
        /\ p[j].do \in {"status", "claim", "complete", "upsert"} => p[j].task \in Serves[c]
        /\ p[j].do \in {"status", "upsert"} => p[j].to # "queued"
        /\ p[j].do = "promote" => p[j].to = "ready"
        /\ p[j].do = "upsert" => j = 1
        /\ p[j].do \in {"hook", "promote"} =>
              \A k \in 1 .. j - 1 : p[k].do \in {"hook", "promote", "upsert"}
WellShaped == \A c \in Sessions : Shaped(c, prog[c])

(* Only a task that is no longer queued is claimed, completed or refreshed. *)
StartedOnes ==
    \A c \in Sessions : \A j \in 1 .. Len(prog[c]) :
        prog[c][j].do \in {"claim", "complete", "upsert"} =>
            file[prog[c][j].task].status # "queued"
QueuedRows == \A t \in Tasks : file[t].status = "queued" => row[t] = "queued"

(* What a session holds for a write, and what it is about to refresh. *)
HeldRecord(c) ==
    phase[c] # "load" =>
        /\ file[prog[c][1].task].status = "queued" => held[c] = file[prog[c][1].task]
        /\ prog[c][1].do \in {"claim", "complete"} =>
              /\ held[c].status # "queued"
              /\ Ended(held[c].status) => Ended(row[prog[c][1].task])
Upserted(c) ==
    First(prog[c], {"upsert"}) =>
        /\ Ended(prog[c][1].to) => Ended(row[prog[c][1].task]) \/ HookNext(prog[c])
        /\ ~ Ended(prog[c][1].to) => ~ Ended(file[prog[c][1].task].status)
HeldRecords == \A c \in Sessions : HeldRecord(c)
Upserts == \A c \in Sessions : Upserted(c)

(* A task that has ended has its row refreshed, or is about to, with the   *)
(* hook to follow.                                                         *)
RowsFollow ==
    \A d \in Tasks : Ended(file[d].status) /\ ~ Ended(row[d]) =>
                        \E c \in Sessions : Waking(prog[c], d)

(* A queued task whose dependencies have all ended, by file or by row, has *)
(* its promotion ahead of it.                                              *)
Waits(u) == /\ file[u].status = "queued" /\ DependsOn[u] # {}
            /\ \A d \in DependsOn[u] : Ended(row[d]) \/ Ended(file[d].status)
WakesCome == \A u \in Tasks : Waits(u) => \E c \in Sessions : Pending(prog[c], u)

WakeInv == /\ WellShaped /\ StartedOnes /\ QueuedRows /\ HeldRecords /\ Upserts
           /\ RowsFollow /\ WakesCome

-----------------------------------------------------------------------------
(* What a step does to a program's shape and to the wake-ups in it. *)

LEMMA PendingTail ==
    ASSUME NEW p \in Seq(Instructions), p # <<>>, NEW u, Pending(p, u), ~ Wakes(p[1], u)
    PROVE  Pending(Tail(p), u)
  <1>1. PICK j \in 1 .. Len(p) : Wakes(p[j], u)
    BY DEF Pending
  <1>2. j # 1 /\ Len(p) \in Nat
    BY <1>1
  <1>3. j - 1 \in 1 .. Len(p) - 1 /\ (j - 1) + 1 = j
    BY <1>2
  <1>4. Tail(p)[j - 1] = p[j] /\ j - 1 \in 1 .. Len(Tail(p))
    BY <1>3, Tails
  <1> QED
    BY <1>1, <1>4 DEF Pending

LEMMA PendingJoin ==
    ASSUME NEW p \in Seq(Instructions), NEW q \in Seq(Instructions), NEW u,
           Pending(p, u) \/ Pending(q, u)
    PROVE  Pending(p \o q, u)
  <1>1. Len(p) \in Nat /\ Len(q) \in Nat
    OBVIOUS
  <1>2. CASE Pending(p, u)
    <2>1. PICK j \in 1 .. Len(p) : Wakes(p[j], u)
      BY <1>2 DEF Pending
    <2>2. j \in 1 .. Len(p \o q) /\ (p \o q)[j] = p[j]
      BY <1>1, Joins
    <2> QED
      BY <2>1, <2>2 DEF Pending
  <1>3. CASE Pending(q, u)
    <2>1. PICK j \in 1 .. Len(q) : Wakes(q[j], u)
      BY <1>3 DEF Pending
    <2>2. Len(p) + j \in 1 .. Len(p \o q) /\ (p \o q)[Len(p) + j] = q[j]
      BY <1>1, Joins
    <2> QED
      BY <2>1, <2>2 DEF Pending
  <1> QED
    BY <1>2, <1>3

LEMMA ShapedTail ==
    ASSUME NEW c \in Sessions, NEW p \in Seq(Instructions), p # <<>>, Shaped(c, p)
    PROVE  /\ Shaped(c, Tail(p))
           /\ \A j \in 1 .. Len(Tail(p)) :
                 /\ Tail(p)[j].do # "upsert"
                 /\ Tail(p)[j].do \in {"hook", "promote"} =>
                       p[1].do \in {"hook", "promote", "upsert"}
  <1>1. /\ Len(Tail(p)) = Len(p) - 1 /\ Len(p) \in Nat \ {0}
        /\ \A j \in 1 .. Len(p) - 1 : Tail(p)[j] = p[j + 1]
    BY Tails
  <1>2. \A j \in 1 .. Len(Tail(p)) :
           /\ Tail(p)[j] = p[j + 1] /\ j + 1 \in 1 .. Len(p) /\ j + 1 # 1
           /\ 1 \in 1 .. (j + 1) - 1
           /\ \A k \in 1 .. j - 1 : /\ Tail(p)[k] = p[k + 1]
                                    /\ k + 1 \in 1 .. (j + 1) - 1
    BY <1>1
  <1> QED
    BY <1>2 DEF Shaped

LEMMA ShapedWrite ==
    ASSUME NEW c \in Sessions, NEW p \in Seq(Instructions), p # <<>>, Shaped(c, p),
           p[1].do \in Writes, NEW r \in Records, p[1].do # "promote" => r.status # "queued"
    PROVE  Shaped(c, AfterWrite(p[1], r) \o Tail(p))
  <1> DEFINE a == AfterWrite(p[1], r)
  <1>1. /\ p[1] \in Instructions /\ 1 \in 1 .. Len(p) /\ Tail(p) \in Seq(Instructions)
        /\ Shaped(c, Tail(p))
        /\ \A j \in 1 .. Len(Tail(p)) :
              /\ Tail(p)[j].do # "upsert"
              /\ Tail(p)[j].do \in {"hook", "promote"} =>
                    p[1].do \in {"hook", "promote", "upsert"}
    BY Tails, ShapedTail
  <1>2. p[1].do \in {"status", "promote", "claim", "complete"}
        /\ (p[1].do \in {"status", "claim", "complete"} => p[1].task \in Serves[c])
    BY <1>1 DEF Shaped, Writes
  <1>3. a \in Seq(Instructions)
    BY <1>1, AfterWriteIs
  <1>4. CASE p[1].do \in {"claim", "promote"}
    <2>1. a = <<>>
      BY <1>1, <1>4, AfterWriteIs
    <2>2. a \o Tail(p) = Tail(p)
      BY <1>1, <2>1
    <2> QED
      BY <1>1, <2>2
  <1>5. CASE p[1].do \in {"status", "complete"}
    <2>1. /\ Len(a) \in 1 .. 2
          /\ a[1].do = "upsert" /\ a[1].task = p[1].task /\ a[1].to = r.status
          /\ Len(a) = 2 => a[2].do = "hook" /\ a[2].task = p[1].task
      BY <1>1, <1>5, AfterWriteIs
    <2> DEFINE q == a \o Tail(p)
    <2>2. /\ q \in Seq(Instructions) /\ Len(q) = Len(a) + Len(Tail(p)) /\ Len(Tail(p)) \in Nat
          /\ \A i \in 1 .. Len(a) : q[i] = a[i]
          /\ \A i \in 1 .. Len(q) : i > Len(a) =>
                i - Len(a) \in 1 .. Len(Tail(p)) /\ q[i] = Tail(p)[i - Len(a)]
      BY <1>1, <1>3, Joins
    <2> HIDE DEF a, q
    <2>3. /\ q[1].do = "upsert" /\ q[1].task = p[1].task /\ q[1].to = r.status
          /\ Len(a) = 2 => q[2].do = "hook" /\ q[2].task = p[1].task
      BY <2>1, <2>2
    <2> SUFFICES ASSUME NEW j \in 1 .. Len(q)
                 PROVE  /\ q[j].do \notin {"try", "queue", "answer", "list", "rebuild"}
                        /\ q[j].do \in {"status", "claim", "complete", "upsert"} =>
                              q[j].task \in Serves[c]
                        /\ q[j].do \in {"status", "upsert"} => q[j].to # "queued"
                        /\ q[j].do = "promote" => q[j].to = "ready"
                        /\ q[j].do = "upsert" => j = 1
                        /\ q[j].do \in {"hook", "promote"} =>
                              \A k \in 1 .. j - 1 : q[k].do \in {"hook", "promote", "upsert"}
      BY DEF Shaped, q, a
    <2>4. CASE j = 1
      BY <1>2, <1>5, <2>3, <2>4
    <2>5. CASE j = 2 /\ Len(a) = 2
      <3>1. \A k \in 1 .. j - 1 : k = 1
        BY <2>5
      <3> QED
        BY <2>3, <2>5, <3>1
    <2>6. CASE j > Len(a)
      <3>1. PICK m \in 1 .. Len(Tail(p)) : q[j] = Tail(p)[m]
        BY <2>2, <2>6
      <3>2. q[j].do \notin {"upsert", "hook", "promote"}
        BY <1>1, <1>5, <3>1
      <3>3. /\ q[j].do \notin {"try", "queue", "answer", "list", "rebuild"}
            /\ q[j].do \in {"status", "claim", "complete", "upsert"} => q[j].task \in Serves[c]
            /\ q[j].do \in {"status", "upsert"} => q[j].to # "queued"
        BY <1>1, <3>1 DEF Shaped
      <3> QED
        BY <3>2, <3>3
    <2>7. j = 1 \/ (j = 2 /\ Len(a) = 2) \/ j > Len(a)
      BY ONLY <2>1, <2>2, j \in 1 .. Len(q)
    <2> QED
      BY <2>4, <2>5, <2>6, <2>7, Zenon
  <1> QED
    BY <1>2, <1>4, <1>5

LEMMA ShapedHook ==
    ASSUME NEW c \in Sessions, NEW p \in Seq(Instructions), p # <<>>, Shaped(c, p),
           p[1].do = "hook", NEW S \in SUBSET Tasks
    PROVE  Shaped(c, Each("promote", S, "ready") \o Tail(p))
  <1> DEFINE a == Each("promote", S, "ready")
             q == a \o Tail(p)
  <1>1. /\ Tail(p) \in Seq(Instructions) /\ Shaped(c, Tail(p))
        /\ \A j \in 1 .. Len(Tail(p)) : Tail(p)[j].do # "upsert"
    BY Tails, ShapedTail
  <1>2. /\ a \in Seq(Instructions)
        /\ \A j \in 1 .. Len(a) : a[j].do = "promote" /\ a[j].to = "ready"
    BY EachTyped DEF Moving, TaskStatuses
  <1>3. /\ q \in Seq(Instructions) /\ Len(q) = Len(a) + Len(Tail(p))
        /\ Len(a) \in Nat /\ Len(Tail(p)) \in Nat
        /\ \A i \in 1 .. Len(a) : q[i] = a[i]
        /\ \A i \in 1 .. Len(q) : i > Len(a) =>
              i - Len(a) \in 1 .. Len(Tail(p)) /\ q[i] = Tail(p)[i - Len(a)]
    BY <1>1, <1>2, Joins
  <1> HIDE DEF a, q
  <1> SUFFICES ASSUME NEW j \in 1 .. Len(q)
               PROVE  /\ q[j].do \notin {"try", "queue", "answer", "list", "rebuild"}
                      /\ q[j].do \in {"status", "claim", "complete", "upsert"} =>
                            q[j].task \in Serves[c]
                      /\ q[j].do \in {"status", "upsert"} => q[j].to # "queued"
                      /\ q[j].do = "promote" => q[j].to = "ready"
                      /\ q[j].do = "upsert" => j = 1
                      /\ q[j].do \in {"hook", "promote"} =>
                            \A k \in 1 .. j - 1 : q[k].do \in {"hook", "promote", "upsert"}
    BY DEF Shaped, q, a
  <1>4. CASE j \in 1 .. Len(a)
    <2>1. \A k \in 1 .. j - 1 : k \in 1 .. Len(a)
      BY <1>3, <1>4
    <2> QED
      BY <1>2, <1>3, <1>4, <2>1
  <1>5. CASE j > Len(a)
    <2>1. j - Len(a) \in 1 .. Len(Tail(p)) /\ q[j] = Tail(p)[j - Len(a)]
      BY <1>3, <1>5
    <2>2. ASSUME q[j].do \in {"hook", "promote"}, NEW k \in 1 .. j - 1
          PROVE  q[k].do \in {"hook", "promote", "upsert"}
      <3>1. CASE k \in 1 .. Len(a)
        BY <1>2, <1>3, <3>1
      <3>2. CASE k > Len(a)
        <4>1. k \in 1 .. Len(q) /\ k - Len(a) \in 1 .. (j - Len(a)) - 1
          BY <1>3, <3>2
        <4>2. q[k] = Tail(p)[k - Len(a)]
          BY <1>3, <3>2, <4>1
        <4> QED
          BY <1>1, <2>1, <2>2, <4>1, <4>2 DEF Shaped
      <3> QED
        BY <1>3, <3>1, <3>2
    <2>3. q[j].do # "upsert"
      BY <1>1, <2>1
    <2>4. PICK m \in 1 .. Len(Tail(p)) : q[j] = Tail(p)[m]
      BY <2>1
    <2>5. /\ q[j].do \notin {"try", "queue", "answer", "list", "rebuild"}
          /\ q[j].do \in {"status", "claim", "complete", "upsert"} => q[j].task \in Serves[c]
          /\ q[j].do \in {"status", "upsert"} => q[j].to # "queued"
          /\ q[j].do = "promote" => q[j].to = "ready"
      BY <1>1, <2>4 DEF Shaped
    <2> QED
      BY <2>2, <2>3, <2>5
  <1> QED
    BY <1>3, <1>4, <1>5

-----------------------------------------------------------------------------
(* The steps, one kind after the other. *)

OthersWait(c) ==
    \A e \in Sessions \ {c} : prog'[e] = prog[e] /\ phase'[e] = phase[e] /\ held'[e] = held[e]

(* A step that takes an instruction off the program, or ends the call. *)
LEMMA ShrinkKeepsWakes ==
    ASSUME TypeInv, TypeInv', WakeInv, NEW c \in Sessions, UNCHANGED <<file, row>>,
           OthersWait(c), prog[c] # <<>>, phase'[c] = "load",
           \/ /\ prog'[c] = Tail(prog[c]) /\ prog[c][1].do \notin {"upsert", "hook"}
              /\ prog[c][1].do = "promote" => file[prog[c][1].task].status # "queued"
           \/ prog'[c] = <<>> /\ prog[c][1].do \notin {"upsert", "hook", "promote"}
    PROVE  WakeInv'
  <1>0. /\ prog[c] \in Seq(Instructions) /\ Shaped(c, prog[c])
        /\ Len(prog[c]) \in Nat \ {0} /\ Len(<<>>) = 0
    BY DEF TypeInv, TypeOK, WakeInv, WellShaped
  <1>1. /\ Shaped(c, Tail(prog[c])) /\ Tail(prog[c]) \in Seq(Instructions)
        /\ Len(Tail(prog[c])) = Len(prog[c]) - 1
        /\ \A j \in 1 .. Len(prog[c]) - 1 : Tail(prog[c])[j] = prog[c][j + 1]
        /\ \A j \in 1 .. Len(Tail(prog[c])) :
              /\ Tail(prog[c])[j].do # "upsert"
              /\ Tail(prog[c])[j].do \in {"hook", "promote"} =>
                    prog[c][1].do \in {"hook", "promote", "upsert"}
    BY <1>0, Tails, ShapedTail
  <1>2. \/ prog'[c] = Tail(prog[c])
        \/ 1 .. Len(prog'[c]) = {} /\ prog'[c] = <<>>
    BY <1>0
  <1>11. \A j \in 1 .. Len(prog'[c]) : j + 1 \in 1 .. Len(prog[c]) /\ prog'[c][j] = prog[c][j + 1]
    <2>1. CASE prog'[c] = Tail(prog[c])
      BY <1>0, <1>1, <2>1
    <2>2. CASE 1 .. Len(prog'[c]) = {}
      BY <2>2
    <2> QED
      BY <1>2, <2>1, <2>2
  <1>3. WellShaped'
    <2>1. Shaped(c, prog'[c])
      <3>1. CASE prog'[c] = Tail(prog[c])
        BY <1>1, <3>1
      <3>2. CASE 1 .. Len(prog'[c]) = {}
        BY <3>2 DEF Shaped
      <3> QED
        BY <1>2, <3>1, <3>2
    <2>2. \A e \in Sessions \ {c} : Shaped(e, prog'[e])
      BY DEF WakeInv, WellShaped, OthersWait
    <2> QED
      BY <2>1, <2>2 DEF WellShaped
  <1>4. StartedOnes'
    <2> SUFFICES ASSUME NEW e \in Sessions, NEW j \in 1 .. Len(prog'[e]),
                        prog'[e][j].do \in {"claim", "complete", "upsert"}
                 PROVE  file[prog'[e][j].task].status # "queued"
      BY DEF StartedOnes
    <2>1. CASE e = c
      <3>1. j + 1 \in 1 .. Len(prog[c]) /\ prog'[c][j] = prog[c][j + 1]
        BY <1>11, <2>1
      <3> QED
        BY <2>1, <3>1 DEF WakeInv, StartedOnes
    <2>2. CASE e # c
      BY <2>2 DEF WakeInv, StartedOnes, OthersWait
    <2> QED
      BY <2>1, <2>2
  <1>5. QueuedRows'
    BY DEF WakeInv, QueuedRows
  <1>6. HeldRecords'
    BY DEF WakeInv, HeldRecords, HeldRecord, OthersWait
  <1>7. ~ First(prog'[c], {"upsert"})
    <2>1. CASE prog'[c] = Tail(prog[c]) /\ Tail(prog[c]) # <<>>
      <3>1. 1 \in 1 .. Len(Tail(prog[c]))
        BY <1>1, <2>1
      <3> QED
        BY <1>1, <2>1, <3>1 DEF First
    <2> QED
      BY <1>2, <2>1 DEF First
  <1>8. Upserts'
    BY <1>7 DEF WakeInv, Upserts, Upserted, OthersWait
  <1>9. RowsFollow'
    <2>1. \A d \in Tasks : ~ Waking(prog[c], d)
      BY DEF Waking, First
    <2> QED
      BY <2>1 DEF WakeInv, RowsFollow, OthersWait
  <1>10. WakesCome'
    <2> SUFFICES ASSUME NEW u \in Tasks, Waits(u) PROVE \E e \in Sessions : Pending(prog'[e], u)
      BY DEF WakesCome, Waits
    <2>1. PICK e \in Sessions : Pending(prog[e], u)
      BY DEF WakeInv, WakesCome
    <2>2. CASE e # c
      BY <2>1, <2>2 DEF OthersWait
    <2>3. CASE e = c
      <3>1. ~ Wakes(prog[c][1], u)
        BY DEF Wakes, Waits
      <3>2. Pending(Tail(prog[c]), u)
        BY <1>0, <2>1, <2>3, <3>1, PendingTail
      <3>3. prog[c][1].do \in {"hook", "promote", "upsert"}
        BY <1>1, <3>2 DEF Pending, Wakes
      <3> QED
        BY <3>2, <3>3
    <2> QED
      BY <2>2, <2>3
  <1> QED
    BY <1>3, <1>4, <1>5, <1>6, <1>8, <1>9, <1>10 DEF WakeInv

(* A step that leaves the programs alone: the first two thirds of a write. *)
LEMMA HoldKeepsWakes ==
    ASSUME SideBySide, TypeInv, TypeInv', WakeInv, NEW c \in Sessions,
           UNCHANGED <<file, row, prog>>, OthersWait(c), At(c, Writes),
           \/ phase[c] # "load" /\ held'[c] = held[c]
           \/ held'[c] = file[Current(c).task]
    PROVE  WakeInv'
  <1>0. /\ prog[c] \in Seq(Instructions) /\ prog[c] # <<>> /\ Shaped(c, prog[c])
        /\ Current(c) = prog[c][1] /\ prog[c][1].task \in Tasks /\ 1 \in 1 .. Len(prog[c])
        /\ prog[c][1].do \in Writes
    BY CurrentTyped DEF WakeInv, WellShaped, At, Current
  <1>1. HeldRecord(c)'
    <2>1. CASE phase[c] # "load" /\ held'[c] = held[c]
      BY <2>1 DEF WakeInv, HeldRecords, HeldRecord
    <2>2. CASE held'[c] = file[Current(c).task]
      <3>1. SUFFICES ASSUME prog[c][1].do \in {"claim", "complete"}
                     PROVE  /\ held'[c].status # "queued"
                            /\ Ended(held'[c].status) => Ended(row[prog[c][1].task])
        BY <1>0, <2>2 DEF HeldRecord
      <3>2. held'[c].status # "queued"
        BY <1>0, <2>2, <3>1 DEF WakeInv, StartedOnes
      <3>3. ASSUME Ended(held'[c].status), ~ Ended(row[prog[c][1].task]) PROVE FALSE
        <4>1. PICK e \in Sessions : Waking(prog[e], prog[c][1].task)
          BY <1>0, <2>2, <3>3 DEF WakeInv, RowsFollow
        <4>2. e # c
          BY <3>1, <4>1 DEF Waking, First
        <4>3. prog[e] # <<>> /\ prog[e] \in Seq(Instructions)
          BY <4>1 DEF Waking, First, TypeInv, TypeOK
        <4>4. 1 \in 1 .. Len(prog[e])
          BY <4>3
        <4>5. prog[e][1].task \in Serves[e]
          BY <4>1, <4>4 DEF Waking, First, WakeInv, WellShaped, Shaped
        <4>6. prog[c][1].task \in Serves[c]
          BY <1>0, <3>1 DEF Shaped
        <4> QED
          BY <4>1, <4>2, <4>5, <4>6 DEF Waking, SideBySide
      <3> QED
        BY <3>2, <3>3
    <2> QED
      BY <2>1, <2>2
  <1>2. HeldRecords'
    BY <1>1 DEF WakeInv, HeldRecords, HeldRecord, OthersWait
  <1> QED
    BY <1>2 DEF WakeInv, WellShaped, StartedOnes, QueuedRows, Upserts, Upserted, RowsFollow,
                WakesCome, Waits

(* The programs of the calls. *)
ReadyCall(p) ==
    \A j \in 1 .. Len(p) :
        /\ p[j].do # "upsert"
        /\ p[j].do \in {"claim", "complete"} => file[p[j].task].status # "queued"

LEMMA CallShaped ==
    ASSUME SideBySide, TypeInv, NEW c \in Sessions, Call(c)
    PROVE  \E p \in Seq(Instructions) : Begin(c, p) /\ Shaped(c, p) /\ ReadyCall(p)
  <1> DEFINE Plain(i) == i.do \in {"ready?", "deps?", "active?", "commit"}
             Own(i)   == /\ i.do \in {"status", "claim", "complete"}
                         /\ i.task \in Serves[c]
                         /\ i.do = "status" => i.to # "queued"
                         /\ i.do # "status" => file[i.task].status # "queued"
             Fits(p)  == p \in Seq(Instructions) /\ \A j \in 1 .. Len(p) : Plain(p[j]) \/ Own(p[j])
  <1>f. ASSUME NEW p, Fits(p) PROVE Shaped(c, p) /\ ReadyCall(p)
    BY <1>f DEF Shaped, ReadyCall
  <1>0. \A kind \in Kinds \ Moving, t \in Tasks :
           /\ Instruction(kind, t, "") \in Instructions
           /\ Instruction(kind, t, "").do = kind /\ Instruction(kind, t, "").task = t
    BY DEF Instruction, Instructions
  <1>m. \A t \in Tasks, s \in TaskStatuses :
           /\ Instruction("status", t, s) \in Instructions
           /\ Instruction("status", t, s).do = "status" /\ Instruction("status", t, s).task = t
           /\ Instruction("status", t, s).to = s
    BY DEF Instruction, Instructions, Moving
  <1>s. {"active", "done", "needs-review"} \subseteq TaskStatuses \ {"queued"}
    BY DEF TaskStatuses
  <1>k. {"ready?", "deps?", "active?", "claim", "complete", "commit", "queue"} \subseteq Kinds \ Moving
    BY DEF Kinds, Writes, Moving
  <1>t. Serves[c] \subseteq Tasks
    BY HandlersAssumption
  <1>1. ASSUME NEW t \in Serves[c], ClaimCall(c, t) PROVE \E p : Begin(c, p) /\ Fits(p)
    <2> DEFINE a == Instruction("ready?", t, "")
               b == Instruction("deps?", t, "")
               d == Instruction("status", t, "active")
               e == Instruction("claim", t, "")
    <2>1. /\ a \in Instructions /\ a.do = "ready?" /\ b \in Instructions /\ b.do = "deps?"
          /\ e \in Instructions /\ e.do = "claim" /\ e.task = t
      BY <1>0, <1>k, <1>t
    <2>2. d \in Instructions /\ d.do = "status" /\ d.task = t /\ d.to = "active"
      BY <1>m, <1>s, <1>t
    <2>6. file[t].status # "queued"
      BY <1>1 DEF ClaimCall
    <2> HIDE DEF a, b, d, e
    <2>3. {a, b, d, e} \subseteq Instructions /\ Plain(a) /\ Plain(b) /\ Own(d) /\ Own(e)
      BY <2>1, <2>2, <2>6
    <2> HIDE DEF Plain, Own
    <2>4. /\ <<a, b, d, e>> \in Seq(Instructions)
          /\ \A j \in 1 .. Len(<<a, b, d, e>>) : Plain(<<a, b, d, e>>[j]) \/ Own(<<a, b, d, e>>[j])
      BY <2>3
    <2>5. Begin(c, <<a, b, d, e>>)
      BY <1>1 DEF ClaimCall, a, b, d, e
    <2> QED
      BY <2>4, <2>5
  <1>2. ASSUME NEW t \in Serves[c], FinishRefusedCall(c, t) PROVE \E p : Begin(c, p) /\ Fits(p)
    <2> DEFINE a == Instruction("status", t, "active")
    <2>1. a \in Instructions /\ Own(a)
      BY <1>m, <1>s, <1>t
    <2> HIDE DEF a, Plain, Own
    <2>2. <<a>> \in Seq(Instructions) /\ \A j \in 1 .. Len(<<a>>) : Plain(<<a>>[j]) \/ Own(<<a>>[j])
      BY <2>1
    <2>3. Begin(c, <<a>>)
      BY <1>2 DEF FinishRefusedCall, a
    <2> QED
      BY <2>2, <2>3
  <1>3. ASSUME NEW t \in Serves[c], NEW s \in Targets, FinishCall(c, t, s)
        PROVE  \E p : Begin(c, p) /\ Fits(p)
    <2> DEFINE o == Instruction("status", t, "active")
               w == IF file[t].status = "ready" THEN <<o>> ELSE <<>>
               a == Instruction("active?", t, "")
               b == Instruction("status", t, s)
               d == Instruction("complete", t, "")
               e == Instruction("commit", t, "")
               v == <<a, b, d, e>>
    <2>1. s \in {"done", "needs-review"} /\ file[t].status # "queued"
      BY <1>3 DEF FinishCall
    <2>8. /\ a \in Instructions /\ a.do = "active?"
          /\ d \in Instructions /\ d.do = "complete" /\ d.task = t
          /\ e \in Instructions /\ e.do = "commit"
      BY <1>0, <1>k, <1>t
    <2>9. /\ o \in Instructions /\ o.do = "status" /\ o.task = t /\ o.to = "active"
          /\ b \in Instructions /\ b.do = "status" /\ b.task = t /\ b.to = s
      BY <1>m, <1>s, <1>t, <2>1
    <2>3. Begin(c, w \o v)
      BY <1>3, Zenon DEF FinishCall
    <2> HIDE DEF o, a, b, d, e
    <2>2. /\ {o, a, b, d, e} \subseteq Instructions
          /\ Own(o) /\ Plain(a) /\ Own(b) /\ Own(d) /\ Plain(e)
      BY <2>1, <2>8, <2>9
    <2> HIDE DEF Plain, Own
    <2>4. /\ w \in Seq(Instructions) /\ \A j \in 1 .. Len(w) : Plain(w[j]) \/ Own(w[j])
      <3>1. CASE file[t].status = "ready"
        BY <2>2, <3>1
      <3>2. CASE file[t].status # "ready"
        BY <3>2
      <3> QED
        BY <3>1, <3>2
    <2>5. /\ v \in Seq(Instructions) /\ \A j \in 1 .. Len(v) : Plain(v[j]) \/ Own(v[j])
      BY <2>2
    <2> HIDE DEF w, v
    <2>6. w \o v \in Seq(Instructions)
      BY <2>4, <2>5, Joins
    <2>7. ASSUME NEW j \in 1 .. Len(w \o v) PROVE Plain((w \o v)[j]) \/ Own((w \o v)[j])
      <3>1. CASE j \in 1 .. Len(w)
        BY <2>4, <2>5, <3>1, Joins
      <3>2. CASE j > Len(w)
        <4>1. PICK m \in 1 .. Len(v) : (w \o v)[j] = v[m]
          BY <2>4, <2>5, <3>2, Joins
        <4> QED
          BY <2>5, <4>1
      <3> QED
        BY <2>4, <3>1, <3>2
    <2> QED
      BY <2>3, <2>6, <2>7
  <1>4. ASSUME NEW t \in Serves[c], NEW s \in Targets, TransitionCall(c, t, s)
        PROVE  \E p : Begin(c, p) /\ Fits(p)
    <2> DEFINE a == Instruction("status", t, s)
               b == Instruction("commit", t, "")
    <2>1. s \in TaskStatuses \ {"queued"}
      BY <1>4, TaskTable DEF TransitionCall
    <2>5. /\ a \in Instructions /\ a.do = "status" /\ a.task = t /\ a.to = s
          /\ b \in Instructions /\ b.do = "commit"
      BY <1>0, <1>m, <1>k, <1>t, <2>1, ZenonT(80)
    <2> HIDE DEF a, b
    <2>2. {a, b} \subseteq Instructions /\ Own(a) /\ Plain(b)
      BY <2>1, <2>5
    <2> HIDE DEF Plain, Own
    <2>3. /\ <<a, b>> \in Seq(Instructions)
          /\ \A j \in 1 .. Len(<<a, b>>) : Plain(<<a, b>>[j]) \/ Own(<<a, b>>[j])
      BY <2>2
    <2>4. Begin(c, <<a, b>>)
      BY <1>4 DEF TransitionCall, a, b
    <2> QED
      BY <2>3, <2>4
  <1>5. ~ QueueCall(c)
    BY DEF QueueCall, SideBySide
  <1>6. \E p : Begin(c, p) /\ Fits(p)
    BY <1>1, <1>2, <1>3, <1>4, <1>5 DEF Call
  <1> QED
    BY <1>f, <1>6

LEMMA CallKeepsWakes ==
    ASSUME TypeInv, TypeInv', WakeInv, NEW c \in Sessions,
           NEW p \in Seq(Instructions), Begin(c, p), Shaped(c, p), ReadyCall(p)
    PROVE  WakeInv'
  <1>1. /\ prog[c] = <<>> /\ prog'[c] = p /\ \A e \in Sessions \ {c} : prog'[e] = prog[e]
        /\ UNCHANGED <<file, row, phase, held>>
    BY DEF Begin, Quiet, Run, TypeInv, TypeOK
  <1>2. phase[c] = "load" /\ ~ First(prog[c], {"upsert"}) /\ ~ First(p, {"upsert"})
        /\ \A u : ~ Pending(prog[c], u)
    <2>1. Len(<<>>) = 0 /\ p # <<>> => 1 \in 1 .. Len(p)
      OBVIOUS
    <2> QED
      BY <1>1, <2>1 DEF TypeInv, WritesUnderWay, At, Quiet, First, ReadyCall, Pending
  <1>3. WellShaped'
    <2>1. \A e \in Sessions : Shaped(e, prog'[e])
      BY <1>1 DEF WakeInv, WellShaped
    <2> QED
      BY <2>1 DEF WellShaped, Shaped
  <1>4. StartedOnes'
    BY <1>1 DEF WakeInv, StartedOnes, ReadyCall
  <1>5. HeldRecords'
    BY <1>1, <1>2 DEF WakeInv, HeldRecords, HeldRecord
  <1>6. Upserts'
    BY <1>1, <1>2 DEF WakeInv, Upserts, Upserted
  <1>7. RowsFollow'
    <2>1. \A d : ~ Waking(prog[c], d)
      BY <1>2 DEF Waking
    <2> QED
      BY <1>1, <2>1 DEF WakeInv, RowsFollow
  <1>8. WakesCome'
    BY <1>1, <1>2 DEF WakeInv, WakesCome, Waits
  <1> QED
    BY <1>1, <1>3, <1>4, <1>5, <1>6, <1>7, <1>8 DEF WakeInv, QueuedRows

(* The last third of a write. *)
LEMMA RenameKeepsWakes ==
    ASSUME SideBySide, TypeInv, TypeInv', WakeInv, NEW c \in Sessions, Rename(c)
    PROVE  WakeInv'
  <1> DEFINE i == prog[c][1]
             r == Written(c, i, held[c])
             t == i.task
             a == AfterWrite(i, r)
             q == a \o Tail(prog[c])
  <1>0. /\ prog[c] \in Seq(Instructions) /\ prog[c] # <<>> /\ Shaped(c, prog[c])
        /\ Current(c) = i /\ i \in Instructions /\ t \in Tasks /\ 1 \in 1 .. Len(prog[c])
        /\ i.do \in Writes /\ held[c] \in Records /\ HeldRecord(c) /\ phase[c] # "load"
    BY CurrentTyped DEF Rename, WakeInv, WellShaped, HeldRecords, At, Current, TypeInv, TypeOK
  <1>1. /\ i.do \in {"status", "promote", "claim", "complete"}
        /\ i.do # "promote" => t \in Serves[c]
        /\ i.do = "status" => i.to # "queued"
        /\ i.do = "promote" => i.to = "ready"
    BY <1>0 DEF Shaped, Writes
  <1>2. /\ r \in Records
        /\ i.do \in {"status", "promote"} => r.status = i.to
        /\ i.do \in {"claim", "complete"} => r.status = held[c].status
    BY <1>0, WrittenTyped
  <1>3. r.status # "queued"
    BY <1>0, <1>1, <1>2 DEF HeldRecord
  <1>4. /\ a \in Seq(Instructions)
        /\ i.do \in {"claim", "promote"} => a = <<>>
        /\ i.do \in {"status", "complete"} =>
              /\ Len(a) \in 1 .. 2
              /\ a[1].do = "upsert" /\ a[1].task = t /\ a[1].to = r.status
              /\ Len(a) = 2 => a[2].do = "hook" /\ a[2].task = t
              /\ i.do # "complete" /\ Ended(i.to) => Len(a) = 2
    BY <1>0, <1>2, AfterWriteIs DEF Ended
  <1>5. Shaped(c, q)
    BY <1>0, <1>2, <1>3, ShapedWrite
  <1>6. /\ file' = [file EXCEPT ![t] = r] /\ UNCHANGED row
        /\ prog'[c] = q /\ OthersWait(c) /\ phase'[c] = "load"
    BY <1>0 DEF Rename, Run, Forget, OthersWait, TypeInv, TypeOK
  <1> HIDE DEF r, a, q
  <1>7. /\ file'[t] = r /\ \A u \in Tasks \ {t} : file'[u] = file[u]
        /\ \A u \in Tasks : file'[u].status = "queued" => u # t /\ file'[u] = file[u]
    BY <1>0, <1>3, <1>6 DEF TypeInv, TypeOK
  <1>8. /\ Tail(prog[c]) \in Seq(Instructions)
        /\ \A j \in 1 .. Len(Tail(prog[c])) :
              /\ Tail(prog[c])[j] = prog[c][j + 1] /\ j + 1 \in 1 .. Len(prog[c])
              /\ Tail(prog[c])[j].do # "upsert"
    BY <1>0, Tails, ShapedTail
  <1>9. /\ Len(a) \in Nat /\ Len(Tail(prog[c])) \in Nat
        /\ q \in Seq(Instructions) /\ Len(q) = Len(a) + Len(Tail(prog[c]))
        /\ \A j \in 1 .. Len(a) : q[j] = a[j]
        /\ \A j \in 1 .. Len(q) : j > Len(a) =>
              j - Len(a) \in 1 .. Len(Tail(prog[c])) /\ q[j] = Tail(prog[c])[j - Len(a)]
    BY <1>4, <1>8, Joins DEF q
  <1>10. /\ Len(a) = 0 \/ Len(a) \in 1 .. 2
         /\ Len(a) \in 1 .. 2 => /\ q[1].do = "upsert" /\ q[1].task = t /\ q[1].to = r.status
                                 /\ i.do \in {"status", "complete"}
         /\ Len(a) = 2 => q[2].do = "hook" /\ q[2].task = t /\ Len(q) > 1 /\ q # <<>>
         /\ i.do = "status" /\ Ended(i.to) => Len(a) = 2
    <2>1. CASE i.do \in {"claim", "promote"}
      <3>1. Len(a) = 0
        BY <1>4, <2>1
      <3> QED
        BY <2>1, <3>1
    <2>2. CASE i.do \in {"status", "complete"}
      <3>1. Len(a) \in 1 .. 2 => 1 \in 1 .. Len(a)
        OBVIOUS
      <3>2. Len(a) = 2 => 2 \in 1 .. Len(a) /\ Len(q) > 1 /\ q # <<>>
        BY <1>9
      <3> QED
        BY <1>4, <1>9, <2>2, <3>1, <3>2
    <2> QED
      BY <1>1, <2>1, <2>2
  <1>11. ~ First(prog[c], {"upsert", "hook"})
    BY <1>1 DEF First
  <1>12. Ended(r.status) => Ended(row[t]) \/ Waking(q, t)
    <2>1. CASE i.do = "promote"
      <3>1. ~ Ended("ready")
        BY DEF Ended, IsTaskDependencySatisfied, DependencyTerminalStates
      <3> QED
        BY <1>1, <1>2, <2>1, <3>1
    <2>2. CASE i.do \in {"claim", "complete"}
      BY <1>0, <1>2, <2>2 DEF HeldRecord
    <2>3. CASE i.do = "status"
      BY <1>2, <1>10, <2>3 DEF Waking, First, HookNext
    <2> QED
      BY <1>1, <2>1, <2>2, <2>3
  <1>13. WellShaped'
    <2>1. \A e \in Sessions : Shaped(e, prog'[e])
      BY <1>5, <1>6 DEF WakeInv, WellShaped, OthersWait
    <2> QED
      BY <2>1 DEF WellShaped, Shaped
  <1>14. StartedOnes'
    <2> SUFFICES ASSUME NEW e \in Sessions, NEW j \in 1 .. Len(prog'[e]),
                        prog'[e][j].do \in {"claim", "complete", "upsert"}
                 PROVE  file'[prog'[e][j].task].status # "queued"
      BY DEF StartedOnes
    <2>0. prog'[e][j].task \in Tasks
      <3>1. prog'[e] \in Seq(Instructions)
        BY DEF TypeInv, TypeOK
      <3>2. prog'[e][j] \in Instructions
        BY <3>1
      <3> QED
        BY <3>2 DEF Instructions
    <2>1. CASE e # c
      <3>1. file[prog'[e][j].task].status # "queued"
        BY <1>6, <2>1 DEF WakeInv, StartedOnes, OthersWait
      <3> QED
        BY <1>7, <2>0, <3>1
    <2>2. CASE e = c /\ j \in 1 .. Len(a)
      <3>1. prog'[e][j].task = t
        BY <1>4, <1>6, <1>9, <1>10, <2>2
      <3> QED
        BY <1>3, <1>7, <3>1
    <2>3. CASE e = c /\ j > Len(a)
      <3>1. PICK m \in 1 .. Len(Tail(prog[c])) : q[j] = Tail(prog[c])[m]
        BY <1>6, <1>9, <2>3
      <3>2. file[prog'[e][j].task].status # "queued"
        BY <1>6, <1>8, <2>3, <3>1 DEF WakeInv, StartedOnes
      <3> QED
        BY <1>7, <2>0, <3>2
    <2>4. e = c => j \in 1 .. Len(a) \/ j > Len(a)
      BY <1>6, <1>9
    <2> QED
      BY <2>1, <2>2, <2>3, <2>4
  <1>15. QueuedRows'
    BY <1>6, <1>7 DEF WakeInv, QueuedRows
  <1>16. HeldRecords'
    <2>1. ASSUME NEW e \in Sessions, phase'[e] # "load" PROVE prog[e][1].task \in Tasks
      <3>1. ~ Quiet(e)
        BY <1>6, <2>1 DEF OthersWait, TypeInv, WritesUnderWay, At
      <3> QED
        BY <3>1, CurrentTyped
    <2> QED
      BY <1>6, <1>7, <2>1 DEF WakeInv, HeldRecords, HeldRecord, OthersWait
  <1>17. Upserts'
    <2> SUFFICES ASSUME NEW e \in Sessions, First(prog'[e], {"upsert"}) PROVE Upserted(e)'
      BY DEF Upserts, Upserted
    <2>1. CASE e = c
      <3>1. 1 \in 1 .. Len(q)
        BY <1>6, <1>9, <2>1 DEF First
      <3>2. Len(a) \in 1 .. 2
        BY <1>6, <1>8, <1>9, <1>10, <2>1, <3>1, SMTT(30) DEF First
      <3>3. Ended(r.status) => Ended(row[t]) \/ HookNext(q)
        BY <1>12 DEF Waking
      <3> QED
        BY <1>6, <1>7, <1>10, <2>1, <3>2, <3>3 DEF Upserted
    <2>2. CASE e # c
      <3>1. prog'[e] = prog[e] /\ 1 \in 1 .. Len(prog[e]) /\ First(prog[e], {"upsert"})
        BY <1>6, <2>2 DEF OthersWait, First, TypeInv, TypeOK
      <3>2. prog[e][1].task \in Serves[e] /\ prog[e][1].task \in Tasks
        BY <3>1, HandlersAssumption DEF First, WakeInv, WellShaped, Shaped
      <3>3. CASE prog[e][1].task # t
        BY <1>6, <1>7, <3>1, <3>2, <3>3 DEF WakeInv, Upserts, Upserted
      <3>4. CASE prog[e][1].task = t
        <4>1. i.do = "promote"
          BY <1>1, <2>2, <3>2, <3>4 DEF SideBySide
        <4>2. ~ Ended(file'[t].status)
          BY <1>1, <1>2, <1>7, <4>1 DEF Ended, IsTaskDependencySatisfied, DependencyTerminalStates
        <4> QED
          BY <1>6, <3>1, <3>4, <4>2 DEF WakeInv, Upserts, Upserted
      <3> QED
        BY <3>3, <3>4
    <2> QED
      BY <2>1, <2>2
  <1>18. RowsFollow'
    <2> SUFFICES ASSUME NEW d \in Tasks, Ended(file'[d].status), ~ Ended(row[d])
                 PROVE  \E e \in Sessions : Waking(prog'[e], d)
      BY <1>6 DEF RowsFollow
    <2>1. CASE d = t
      BY <1>6, <1>7, <1>12, <2>1
    <2>2. CASE d # t
      <3>1. PICK e \in Sessions : Waking(prog[e], d)
        BY <1>7, <2>2 DEF WakeInv, RowsFollow
      <3>2. e # c
        BY <1>11, <3>1 DEF Waking, First
      <3> QED
        BY <1>6, <3>1, <3>2 DEF OthersWait
    <2> QED
      BY <2>1, <2>2
  <1>19. WakesCome'
    <2> SUFFICES ASSUME NEW u \in Tasks, Waits(u)' PROVE \E e \in Sessions : Pending(prog'[e], u)
      BY DEF WakesCome
    <2>0. u # t /\ file'[u] = file[u] /\ DependsOn[u] \subseteq Tasks
      BY <1>7, HandlersAssumption DEF Waits
    <2>1. CASE Waits(u)
      <3>1. PICK e \in Sessions : Pending(prog[e], u)
        BY <2>1 DEF WakeInv, WakesCome
      <3>2. CASE e # c
        BY <1>6, <3>1, <3>2 DEF OthersWait
      <3>3. CASE e = c
        <4>1. ~ Wakes(i, u)
          BY <1>1, <2>0 DEF Wakes
        <4>2. Pending(Tail(prog[c]), u)
          BY <1>0, <3>1, <3>3, <4>1, PendingTail
        <4> QED
          BY <1>4, <1>6, <1>8, <4>2, PendingJoin DEF q
      <3> QED
        BY <3>2, <3>3
    <2>2. CASE ~ Waits(u)
      <3>1. PICK d \in DependsOn[u] : ~ Ended(row[d]) /\ ~ Ended(file[d].status) /\ Ended(file'[d].status)
        BY <1>6, <2>0, <2>2 DEF Waits
      <3>2. d = t /\ Waking(q, t)
        BY <1>7, <1>12, <2>0, <3>1
      <3>3. Len(q) > 1 /\ Wakes(q[2], u)
        BY <3>1, <3>2 DEF Waking, HookNext, Wakes
      <3>4. 2 \in 1 .. Len(q)
        BY <1>9, <3>3
      <3> QED
        BY <1>6, <3>3, <3>4 DEF Pending
    <2> QED
      BY <2>1, <2>2
  <1> QED
    BY <1>13, <1>14, <1>15, <1>16, <1>17, <1>18, <1>19 DEF WakeInv

(* The row is refreshed. *)
LEMMA UpsertKeepsWakes ==
    ASSUME SideBySide, TypeInv, TypeInv', WakeInv, NEW c \in Sessions, Upsert(c)
    PROVE  WakeInv'
  <1> DEFINE i == prog[c][1]
             t == i.task
             q == Tail(prog[c])
  <1>0. /\ prog[c] \in Seq(Instructions) /\ prog[c] # <<>> /\ Shaped(c, prog[c])
        /\ Current(c) = i /\ t \in Tasks /\ 1 \in 1 .. Len(prog[c])
        /\ i.do = "upsert" /\ Upserted(c) /\ First(prog[c], {"upsert"})
    BY CurrentTyped DEF Upsert, WakeInv, WellShaped, Upserts, At, Current, First, TypeInv, TypeOK
  <1>1. t \in Serves[c] /\ i.to # "queued" /\ file[t].status # "queued"
    BY <1>0 DEF Shaped, WakeInv, StartedOnes
  <1>2. /\ row' = [row EXCEPT ![t] = i.to] /\ UNCHANGED <<file, phase, held>>
        /\ prog'[c] = q /\ \A e \in Sessions \ {c} : prog'[e] = prog[e]
    BY <1>0 DEF Upsert, Continue, Run, TypeInv, TypeOK
  <1>3. row'[t] = i.to /\ \A u \in Tasks \ {t} : row'[u] = row[u]
    BY <1>0, <1>2 DEF TypeInv, TypeOK
  <1>4. phase[c] = "load"
    BY <1>0 DEF TypeInv, WritesUnderWay, At, Current, Writes
  <1>5. /\ q \in Seq(Instructions) /\ Shaped(c, q) /\ Len(q) = Len(prog[c]) - 1
        /\ Len(prog[c]) \in Nat
        /\ \A j \in 1 .. Len(q) :
              q[j] = prog[c][j + 1] /\ j + 1 \in 1 .. Len(prog[c]) /\ q[j].do # "upsert"
    <2>1. /\ q \in Seq(Instructions) /\ Len(q) = Len(prog[c]) - 1 /\ Len(prog[c]) \in Nat
          /\ \A j \in 1 .. Len(prog[c]) - 1 : q[j] = prog[c][j + 1]
      BY <1>0, Tails
    <2>2. Shaped(c, q) /\ \A j \in 1 .. Len(q) : q[j].do # "upsert"
      BY <1>0, ShapedTail
    <2> QED
      BY <2>1, <2>2
  <1> HIDE DEF q
  <1>6. ~ First(q, {"upsert"})
    <2>1. q # <<>> => 1 \in 1 .. Len(q)
      BY <1>5
    <2> QED
      BY <1>5, <2>1 DEF First
  <1>7. \A e \in Sessions \ {c} : \A j \in 1 .. Len(prog[e]) :
           prog[e][j].do \in {"claim", "complete", "upsert"} => prog[e][j].task \in Tasks \ {t}
    BY <1>1, HandlersAssumption DEF WakeInv, WellShaped, Shaped, SideBySide
  <1>8. \A e \in Sessions : prog[e] # <<>> => 1 \in 1 .. Len(prog[e])
    BY DEF TypeInv, TypeOK
  <1>13. WellShaped'
    <2>1. \A e \in Sessions : Shaped(e, prog'[e])
      BY <1>2, <1>5 DEF WakeInv, WellShaped
    <2> QED
      BY <2>1 DEF WellShaped, Shaped
  <1>14. StartedOnes'
    <2> SUFFICES ASSUME NEW e \in Sessions, NEW j \in 1 .. Len(prog'[e]),
                        prog'[e][j].do \in {"claim", "complete", "upsert"}
                 PROVE  file[prog'[e][j].task].status # "queued"
      BY <1>2 DEF StartedOnes
    <2>1. CASE e = c
      <3>1. prog'[e][j] = prog[c][j + 1] /\ j + 1 \in 1 .. Len(prog[c])
        BY <1>2, <1>5, <2>1
      <3> QED
        BY <3>1 DEF WakeInv, StartedOnes
    <2>2. CASE e # c
      BY <1>2, <2>2 DEF WakeInv, StartedOnes
    <2> QED
      BY <2>1, <2>2
  <1>15. QueuedRows'
    BY <1>1, <1>2, <1>3 DEF WakeInv, QueuedRows
  <1>16. HeldRecords'
    <2> SUFFICES ASSUME NEW e \in Sessions, phase[e] # "load" PROVE HeldRecord(e)'
      BY <1>2 DEF HeldRecords, HeldRecord
    <2>1. e # c /\ prog[e] # <<>>
      BY <1>4 DEF TypeInv, WritesUnderWay, At, Quiet
    <2>2. prog'[e] = prog[e] /\ 1 \in 1 .. Len(prog[e])
      BY <1>2, <1>8, <2>1
    <2>3. prog[e][1].do \in {"claim", "complete"} => prog[e][1].task \in Tasks \ {t}
      BY <1>7, <2>1, <2>2
    <2> QED
      BY <1>2, <1>3, <2>2, <2>3 DEF WakeInv, HeldRecords, HeldRecord
  <1>17. Upserts'
    <2> SUFFICES ASSUME NEW e \in Sessions, First(prog'[e], {"upsert"}) PROVE Upserted(e)'
      BY DEF Upserts, Upserted
    <2>1. e # c /\ prog'[e] = prog[e] /\ First(prog[e], {"upsert"})
      BY <1>2, <1>6
    <2>2. prog[e][1].task \in Tasks \ {t}
      BY <1>7, <1>8, <2>1 DEF First
    <2> QED
      BY <1>2, <1>3, <2>1, <2>2 DEF WakeInv, Upserts, Upserted
  <1>18. RowsFollow'
    <2> SUFFICES ASSUME NEW d \in Tasks, Ended(file[d].status), ~ Ended(row'[d])
                 PROVE  \E e \in Sessions : Waking(prog'[e], d)
      BY <1>2 DEF RowsFollow
    <2>1. d # t
      BY <1>0, <1>3 DEF Upserted
    <2>2. PICK e \in Sessions : Waking(prog[e], d)
      BY <1>3, <2>1 DEF WakeInv, RowsFollow
    <2>3. e # c
      BY <2>1, <2>2 DEF Waking
    <2> QED
      BY <1>2, <2>2, <2>3
  <1>19. WakesCome'
    <2> SUFFICES ASSUME NEW u \in Tasks, Waits(u)' PROVE \E e \in Sessions : Pending(prog'[e], u)
      BY DEF WakesCome
    <2>0. file'[u] = file[u] /\ DependsOn[u] \subseteq Tasks
      BY <1>2, HandlersAssumption
    <2>1. CASE Waits(u)
      <3>1. PICK e \in Sessions : Pending(prog[e], u)
        BY <2>1 DEF WakeInv, WakesCome
      <3>2. CASE e # c
        BY <1>2, <3>1, <3>2
      <3>3. CASE e = c
        <4>1. ~ Wakes(i, u)
          BY <1>0 DEF Wakes
        <4>2. Pending(q, u)
          BY <1>0, <3>1, <3>3, <4>1, PendingTail DEF q
        <4> QED
          BY <1>2, <4>2
      <3> QED
        BY <3>2, <3>3
    <2>2. CASE ~ Waits(u)
      <3>1. PICK d \in DependsOn[u] : ~ Ended(row[d]) /\ ~ Ended(file[d].status) /\ Ended(row'[d])
        BY <1>2, <2>0, <2>2 DEF Waits
      <3>2. d = t /\ Ended(i.to) /\ HookNext(prog[c])
        BY <1>0, <1>3, <2>0, <3>1 DEF Upserted
      <3>3. 1 \in 1 .. Len(q)
        BY <1>5, <3>2 DEF HookNext
      <3>4. Wakes(q[1], u)
        BY <1>5, <3>1, <3>2, <3>3 DEF HookNext, Wakes
      <3> QED
        BY <1>2, <3>3, <3>4 DEF Pending
    <2> QED
      BY <2>1, <2>2
  <1> QED
    BY <1>13, <1>14, <1>15, <1>16, <1>17, <1>18, <1>19 DEF WakeInv

(* The hook lists the rows. *)
LEMMA HookKeepsWakes ==
    ASSUME TypeInv, TypeInv', WakeInv, NEW c \in Sessions, RunHook(c)
    PROVE  WakeInv'
  <1> DEFINE i == prog[c][1]
             t == i.task
             a == Each("promote", Unblocked(t), "ready")
             q == a \o Tail(prog[c])
  <1>0. /\ prog[c] \in Seq(Instructions) /\ prog[c] # <<>> /\ Shaped(c, prog[c])
        /\ Current(c) = i /\ t \in Tasks /\ 1 \in 1 .. Len(prog[c]) /\ i.do = "hook"
    BY CurrentTyped DEF RunHook, WakeInv, WellShaped, At, Current, TypeInv, TypeOK
  <1>1. Unblocked(t) \in SUBSET Tasks
    BY DEF Unblocked
  <1>2. /\ UNCHANGED <<file, row, phase, held>>
        /\ prog'[c] = q /\ \A e \in Sessions \ {c} : prog'[e] = prog[e]
    BY <1>0 DEF RunHook, Run, TypeInv, TypeOK
  <1>3. /\ a \in Seq(Instructions)
        /\ \A j \in 1 .. Len(a) : a[j].do = "promote"
        /\ \A u \in Unblocked(t) : \E j \in 1 .. Len(a) : a[j].task = u
    BY <1>1, EachTyped DEF Moving, TaskStatuses
  <1>4. Shaped(c, q)
    BY <1>0, <1>1, ShapedHook
  <1> HIDE DEF a, q
  <1>5. /\ Tail(prog[c]) \in Seq(Instructions)
        /\ \A j \in 1 .. Len(Tail(prog[c])) :
              /\ Tail(prog[c])[j] = prog[c][j + 1] /\ j + 1 \in 1 .. Len(prog[c])
              /\ Tail(prog[c])[j].do # "upsert"
    BY <1>0, Tails, ShapedTail
  <1>6. /\ Len(a) \in Nat /\ q \in Seq(Instructions)
        /\ \A j \in 1 .. Len(a) : q[j] = a[j]
        /\ \A j \in 1 .. Len(q) : j > Len(a) =>
              j - Len(a) \in 1 .. Len(Tail(prog[c])) /\ q[j] = Tail(prog[c])[j - Len(a)]
    BY <1>3, <1>5, Joins DEF q
  <1>7. ASSUME NEW j \in 1 .. Len(q)
        PROVE  q[j].do = "promote"
               \/ \E m \in 1 .. Len(prog[c]) : q[j] = prog[c][m] /\ q[j].do # "upsert"
    <2>1. CASE j \in 1 .. Len(a)
      BY <1>3, <1>6, <2>1
    <2>2. CASE j > Len(a)
      <3>1. PICK m \in 1 .. Len(Tail(prog[c])) : q[j] = Tail(prog[c])[m]
        BY <1>6, <2>2
      <3> QED
        BY <1>5, <3>1
    <2> QED
      BY <1>6, <2>1, <2>2
  <1>8. phase[c] = "load"
    BY <1>0 DEF TypeInv, WritesUnderWay, At, Current, Writes
  <1>9. ~ First(q, {"upsert"}) /\ ~ First(prog[c], {"upsert"})
    <2>1. q # <<>> => 1 \in 1 .. Len(q)
      BY <1>6
    <2> QED
      BY <1>0, <1>7, <2>1 DEF First
  <1>13. WellShaped'
    <2>1. \A e \in Sessions : Shaped(e, prog'[e])
      BY <1>2, <1>4 DEF WakeInv, WellShaped
    <2> QED
      BY <2>1 DEF WellShaped, Shaped
  <1>14. StartedOnes'
    <2> SUFFICES ASSUME NEW e \in Sessions, NEW j \in 1 .. Len(prog'[e]),
                        prog'[e][j].do \in {"claim", "complete", "upsert"}
                 PROVE  file[prog'[e][j].task].status # "queued"
      BY <1>2 DEF StartedOnes
    <2>1. CASE e = c
      <3>1. PICK m \in 1 .. Len(prog[c]) : q[j] = prog[c][m]
        BY <1>2, <1>7, <2>1
      <3> QED
        BY <1>2, <2>1, <3>1 DEF WakeInv, StartedOnes
    <2>2. CASE e # c
      BY <1>2, <2>2 DEF WakeInv, StartedOnes
    <2> QED
      BY <2>1, <2>2
  <1>16. HeldRecords'
    BY <1>2, <1>8 DEF WakeInv, HeldRecords, HeldRecord
  <1>17. Upserts'
    BY <1>2, <1>9 DEF WakeInv, Upserts, Upserted
  <1>18. RowsFollow'
    <2>1. \A d : ~ Waking(prog[c], d)
      BY <1>9 DEF Waking
    <2> QED
      BY <1>2, <2>1 DEF WakeInv, RowsFollow
  <1>19. WakesCome'
    <2> SUFFICES ASSUME NEW u \in Tasks, Waits(u) PROVE \E e \in Sessions : Pending(prog'[e], u)
      BY <1>2 DEF WakesCome, Waits
    <2>1. DependsOn[u] \subseteq Tasks
      BY HandlersAssumption
    <2>2. CASE t \notin DependsOn[u]
      <3>1. PICK e \in Sessions : Pending(prog[e], u)
        BY DEF WakeInv, WakesCome
      <3>2. CASE e # c
        BY <1>2, <3>1, <3>2
      <3>3. CASE e = c
        <4>1. ~ Wakes(i, u)
          BY <1>0, <2>2 DEF Wakes
        <4>2. Pending(Tail(prog[c]), u)
          BY <1>0, <3>1, <3>3, <4>1, PendingTail
        <4> QED
          BY <1>2, <1>3, <1>5, <4>2, PendingJoin DEF q
      <3> QED
        BY <3>2, <3>3
    <2>3. CASE t \in DependsOn[u] /\ \A d \in DependsOn[u] : Ended(row[d])
      <3>1. row[u] = "queued"
        BY DEF WakeInv, QueuedRows, Waits
      <3>2. u \in Unblocked(t)
        BY <2>3, <3>1 DEF Unblocked, DepsMet, Satisfied, Ended
      <3>3. Pending(a, u)
        BY <1>3, <3>2 DEF Pending, Wakes
      <3> QED
        BY <1>2, <1>3, <1>5, <3>3, PendingJoin DEF q
    <2>4. CASE \E d \in DependsOn[u] : ~ Ended(row[d])
      <3>1. PICK d \in DependsOn[u] : ~ Ended(row[d])
        BY <2>4
      <3>2. PICK e \in Sessions : Waking(prog[e], d)
        BY <2>1, <3>1 DEF Waits, WakeInv, RowsFollow
      <3>3. e # c
        BY <1>9, <3>2 DEF Waking
      <3>4. prog[e] \in Seq(Instructions) /\ Len(prog[e]) > 1
        BY <3>2 DEF Waking, HookNext, TypeInv, TypeOK
      <3>5. 2 \in 1 .. Len(prog[e])
        BY <3>4
      <3>6. Wakes(prog[e][2], u)
        BY <3>1, <3>2 DEF Waking, HookNext, Wakes
      <3> QED
        BY <1>2, <3>3, <3>5, <3>6 DEF Pending
    <2> QED
      BY <2>2, <2>3, <2>4
  <1> QED
    BY <1>2, <1>13, <1>14, <1>16, <1>17, <1>18, <1>19 DEF WakeInv, QueuedRows

LEMMA StepKeepsWakes ==
    ASSUME SideBySide, TypeInv, TypeInv', WakeInv, NEW c \in Sessions, Step(c)
    PROVE  WakeInv'
  <1>0. ASSUME ~ Quiet(c)
        PROVE  /\ prog[c] \in Seq(Instructions) /\ prog[c] # <<>> /\ 1 \in 1 .. Len(prog[c])
               /\ Current(c) = prog[c][1] /\ Head(prog[c]) = prog[c][1]
               /\ prog[c][1].task \in Tasks /\ Shaped(c, prog[c])
    BY <1>0, CurrentTyped DEF Current, WakeInv, WellShaped
  <1>1. ASSUME NEW p, Run(c, p)
        PROVE  prog'[c] = p /\ \A e \in Sessions \ {c} : prog'[e] = prog[e]
    BY <1>1 DEF Run, TypeInv, TypeOK
  <1>2. ASSUME NEW kinds, At(c, kinds)
        PROVE  /\ ~ Quiet(c) /\ prog[c][1].do \in kinds
               /\ kinds \cap Writes = {} => phase[c] = "load"
    BY <1>0, <1>2 DEF At, Current, TypeInv, WritesUnderWay
  <1>3. ASSUME ~ Quiet(c), UNCHANGED <<file, row, phase, held>>, phase[c] = "load",
               \/ Continue(c) /\ prog[c][1].do \notin {"upsert", "hook", "promote"}
               \/ Abort(c) /\ prog[c][1].do \notin {"upsert", "hook", "promote"}
        PROVE  WakeInv'
    <2>1. OthersWait(c) /\ prog'[c] \in {<<>>, Tail(prog[c])}
      BY <1>1, <1>3 DEF OthersWait, Continue, Abort
    <2> QED
      BY <1>0, <1>3, <2>1, ShrinkKeepsWakes
  <1>4. CASE CheckDeps(c) \/ CheckStatus(c) \/ CommitState(c)
    <2>1. /\ At(c, {"deps?", "ready?", "active?", "commit"})
          /\ Continue(c) \/ Abort(c)
      BY <1>4 DEF CheckDeps, CheckStatus, CommitState, At
    <2>2. UNCHANGED <<file, row, phase, held>>
      BY <1>4 DEF CheckDeps, CheckStatus, CommitState
    <2>3. ~ Quiet(c) /\ phase[c] = "load" /\ prog[c][1].do \notin {"upsert", "hook", "promote"}
      BY <1>2, <2>1 DEF Writes
    <2> QED
      BY <1>3, <2>1, <2>2, <2>3
  <1>5. CASE Load(c)
    <2>1. At(c, Writes) /\ ~ Quiet(c) /\ prog[c][1].do \in Writes /\ phase[c] = "load"
      BY <1>2, <1>5 DEF Load
    <2>2. CASE MayWrite(Current(c), file[Current(c).task])
      <3>1. UNCHANGED <<file, row, prog>> /\ OthersWait(c) /\ held'[c] = file[Current(c).task]
        BY <1>5, <2>2 DEF Load, OthersWait, TypeInv, TypeOK
      <3> QED
        BY <2>1, <3>1, HoldKeepsWakes
    <2>3. CASE ~ MayWrite(Current(c), file[Current(c).task])
      <3>1. prog[c][1].do \in {"status", "try"}
        BY <1>0, <2>1, <2>3 DEF MayWrite
      <3>2. prog[c][1].do = "status"
        BY <1>0, <2>1, <3>1 DEF Shaped
      <3>3. Fail(c) /\ UNCHANGED <<file, row, phase, held>>
        BY <1>5, <2>3 DEF Load
      <3>4. Abort(c)
        BY <1>0, <2>1, <3>2, <3>3 DEF Fail
      <3> QED
        BY <1>3, <2>1, <3>2, <3>3, <3>4
    <2> QED
      BY <2>2, <2>3
  <1>6. CASE Verify(c)
    <2>1. At(c, Writes) /\ ~ Quiet(c) /\ prog[c][1].do \in Writes /\ phase[c] = "verify"
      BY <1>2, <1>6 DEF Verify
    <2>2. CASE file[Current(c).task] = held[c]
      <3>1. UNCHANGED <<file, row, prog>> /\ OthersWait(c) /\ held'[c] = held[c]
        BY <1>6, <2>2 DEF Verify, OthersWait, TypeInv, TypeOK
      <3> QED
        BY <2>1, <3>1, HoldKeepsWakes
    <2>3. CASE file[Current(c).task] # held[c]
      <3>1. Forget(c) /\ Fail(c) /\ UNCHANGED <<file, row>>
        BY <1>6, <2>3 DEF Verify
      <3>2. /\ phase'[c] = "load"
            /\ \A e \in Sessions \ {c} : phase'[e] = phase[e] /\ held'[e] = held[e]
        BY <3>1 DEF Forget, TypeInv, TypeOK
      <3>3. CASE prog[c][1].do = "promote"
        <4>1. Continue(c)
          BY <1>0, <2>1, <3>1, <3>3 DEF Fail
        <4>2. prog'[c] = Tail(prog[c]) /\ OthersWait(c)
          BY <1>1, <3>2, <4>1 DEF OthersWait, Continue
        <4>3. file[prog[c][1].task].status # "queued"
          BY <1>0, <2>1, <2>3 DEF WakeInv, HeldRecords, HeldRecord
        <4> QED
          BY <1>0, <2>1, <3>1, <3>2, <3>3, <4>2, <4>3, ShrinkKeepsWakes
      <3>4. CASE prog[c][1].do # "promote"
        <4>1. prog[c][1].do \notin {"try", "promote", "upsert", "hook"}
          BY <1>0, <2>1, <3>4 DEF Shaped, Writes
        <4>2. Abort(c)
          BY <1>0, <2>1, <3>1, <4>1 DEF Fail
        <4>3. prog'[c] = <<>> /\ OthersWait(c)
          BY <1>1, <3>2, <4>2 DEF OthersWait, Abort
        <4> QED
          BY <1>0, <2>1, <3>1, <3>2, <4>1, <4>3, ShrinkKeepsWakes
      <3> QED
        BY <3>3, <3>4
    <2> QED
      BY <2>2, <2>3
  <1>7. ~ (ListQueue(c) \/ Answer(c) \/ ListFiles(c) \/ Rebuild(c))
    <2>1. ~ At(c, {"queue", "answer", "list", "rebuild"})
      BY <1>0, <1>2 DEF Shaped
    <2> QED
      BY <2>1 DEF ListQueue, Answer, ListFiles, Rebuild, At
  <1> QED
    BY <1>4, <1>5, <1>6, <1>7, RenameKeepsWakes, UpsertKeepsWakes, HookKeepsWakes DEF Step

LEMMA WakesHold == ASSUME SideBySide PROVE Spec => [](TypeInv /\ WakeInv)
  <1>1. Init => WakeInv
    <2> SUFFICES ASSUME Init PROVE WakeInv
      OBVIOUS
    <2>1. \A t \in Tasks : file[t].status \in {"queued", "ready"} /\ row[t] = file[t].status
      BY DEF Init, New, FileStatus
    <2>2. \A c \in Sessions : prog[c] = <<>> /\ phase[c] = "load"
      BY DEF Init
    <2>3. 1 .. Len(<<>>) = {}
      OBVIOUS
    <2>4. ~ Ended("queued") /\ ~ Ended("ready")
      BY DEF Ended, IsTaskDependencySatisfied, DependencyTerminalStates
    <2>5. WellShaped /\ StartedOnes
      BY <2>2, <2>3 DEF WellShaped, Shaped, StartedOnes
    <2>6. QueuedRows /\ HeldRecords /\ Upserts
      BY <2>1, <2>2 DEF QueuedRows, HeldRecords, HeldRecord, Upserts, Upserted, First
    <2>7. RowsFollow
      BY <2>1, <2>4 DEF RowsFollow
    <2>8. WakesCome
      <3>1. \A u \in Tasks : ~ Waits(u)
        BY <2>1, <2>4, HandlersAssumption DEF Waits
      <3> QED
        BY <3>1 DEF WakesCome
    <2> QED
      BY <2>5, <2>6, <2>7, <2>8 DEF WakeInv
  <1>2. TypeInv /\ TypeInv' /\ WakeInv /\ [Next]_vars => WakeInv'
    <2> SUFFICES ASSUME TypeInv, TypeInv', WakeInv, [Next]_vars PROVE WakeInv'
      OBVIOUS
    <2>1. ASSUME NEW c \in Sessions, Call(c) PROVE WakeInv'
      BY <2>1, CallShaped, CallKeepsWakes
    <2>2. ASSUME NEW c \in Sessions, Crash(c) PROVE WakeInv'
      <3>1. crashes < MaxCrashes /\ crashes \in 0 .. MaxCrashes
        BY <2>2 DEF Crash, TypeInv, TypeOK
      <3> QED
        BY <3>1 DEF SideBySide
    <2>3. CASE HandCommit \/ UNCHANGED vars
      <3>1. UNCHANGED <<file, row, prog, phase, held>>
        BY <2>3 DEF HandCommit, vars
      <3> QED
        BY <3>1 DEF WakeInv, WellShaped, StartedOnes, QueuedRows, HeldRecords, HeldRecord,
                    Upserts, Upserted, RowsFollow, WakesCome, Waits
    <2> QED
      BY <2>1, <2>2, <2>3, StepKeepsWakes DEF Next
  <1> QED
    BY <1>1, <1>2, TypesHold, PTL DEF Spec

(* However many calls run side by side, each about tasks of its own, and    *)
(* however their steps interleave: once they are all over, no task is left *)
(* waiting for dependencies that have ended.  Each of two calls that end   *)
(* the last two dependencies of a task refreshes its row before it lists.  *)
THEOREM WakeupsSurviveOverlap == ASSUME SideBySide PROVE Spec => []NoWakeupLostAtRest
  <1>1. TypeInv /\ WakeInv => NoWakeupLostAtRest
    <2> SUFFICES ASSUME TypeInv, WakeInv, Quiescent,
                        NEW u \in Tasks, DependsOn[u] # {}, file[u].status = "queued",
                        DepsMet(u, FileStatus)
                 PROVE  FALSE
      BY DEF NoWakeupLostAtRest
    <2>1. \A d \in DependsOn[u] : Ended(file[d].status)
      BY HandlersAssumption DEF DepsMet, Satisfied, FileStatus, Ended
    <2>2. PICK c \in Sessions : Pending(prog[c], u)
      BY <2>1 DEF Waits, WakeInv, WakesCome
    <2>3. prog[c] = <<>> /\ 1 .. Len(<<>>) = {}
      BY DEF Quiescent, Quiet
    <2> QED
      BY <2>2, <2>3 DEF Pending
  <1> QED
    BY <1>1, WakesHold, PTL

-----------------------------------------------------------------------------
(* One session, which may inspect the queue and may die: the queue         *)
(* inspection makes up for whatever was lost.                              *)

(* Refreshes come first, and nothing puts a task back into the queue. *)
Ordered(p) ==
    \A j \in 1 .. Len(p) :
        /\ p[j].do = "upsert" => j = 1
        /\ p[j].do = "status" => p[j].to # "queued"
        /\ p[j].do \in {"try", "promote"} => p[j].to = "ready"

(* The four things a session does: a call about a task, the rebuild of the *)
(* cache after a crash, and the two halves of a queue inspection.          *)
Working(p) ==
    \A j \in 1 .. Len(p) : p[j].do \notin {"try", "queue", "answer", "list", "rebuild"}
Resuming(c) ==
    \/ Len(prog[c]) = 2 /\ prog[c][1].do = "list" /\ prog[c][2].do = "rebuild"
    \/ Len(prog[c]) = 1 /\ prog[c][1].do = "rebuild" /\ listed[c] = FileStatus
Asking(p) == Len(p) = 1 /\ p[1].do = "queue"
Blocked(u) == file[u].status = "queued" => ~ DepsMet(u, FileStatus)
Answering(p) ==
    /\ Len(p) > 0 /\ p[Len(p)].do = "answer"
    /\ \A j \in 1 .. Len(p) - 1 : p[j].do \in {"try", "upsert"}
    /\ \A u \in Tasks : \/ Blocked(u)
                        \/ \E j \in 1 .. Len(p) : p[j].do = "try" /\ p[j].task = u
Busy(c) == \/ Working(prog[c]) \/ Resuming(c)
           \/ Asking(prog[c]) \/ Answering(prog[c])

(* With nobody else about, what is held and what is refreshed is the file. *)
HoldsFile(c) ==
    /\ phase[c] # "load" => held[c] = file[prog[c][1].task]
    /\ First(prog[c], {"upsert"}) => prog[c][1].to = file[prog[c][1].task].status

(* A task that has ended says so in its row, or its row is about to be     *)
(* refreshed, or the rows are being rebuilt.                               *)
RowsTell(c) ==
    \A t \in Tasks : Ended(file[t].status) /\ ~ Ended(row[t]) =>
                        First(prog[c], {"upsert"}) /\ prog[c][1].task = t
Healed(c) == answer # <<>> => prog[c] = <<>> /\ \A u \in Tasks : Blocked(u)

HealInv(c) ==
    /\ Ordered(prog[c]) /\ Busy(c) /\ HoldsFile(c) /\ QueuedRows
    /\ Resuming(c) \/ RowsTell(c)
    /\ Healed(c)

LEMMA OrderedTail ==
    ASSUME NEW p \in Seq(Instructions), p # <<>>, Ordered(p)
    PROVE  /\ Ordered(Tail(p)) /\ ~ First(Tail(p), {"upsert"})
           /\ \A j \in 1 .. Len(Tail(p)) : Tail(p)[j].do # "upsert"
           /\ Working(p) => Working(Tail(p))
  <1>1. /\ Len(Tail(p)) = Len(p) - 1 /\ Len(p) \in Nat \ {0} /\ Tail(p) \in Seq(Instructions)
        /\ \A j \in 1 .. Len(p) - 1 : Tail(p)[j] = p[j + 1]
    BY Tails
  <1>2. \A j \in 1 .. Len(Tail(p)) : Tail(p)[j] = p[j + 1] /\ j + 1 \in 1 .. Len(p) /\ j + 1 # 1
    BY <1>1
  <1>3. Tail(p) # <<>> => 1 \in 1 .. Len(Tail(p))
    BY <1>1
  <1> QED
    BY <1>2, <1>3 DEF Ordered, First, Working

LEMMA AnsweringTail ==
    ASSUME NEW p \in Seq(Instructions), Answering(p), p[1].do # "answer",
           p[1].do = "try" => Blocked(p[1].task)
    PROVE  Answering(Tail(p)) /\ p # <<>>
  <1>0. Len(p) \in Nat /\ (Len(p) > 0 => p # <<>>)
    OBVIOUS
  <1>1. /\ Len(Tail(p)) = Len(p) - 1
        /\ \A j \in 1 .. Len(p) - 1 : Tail(p)[j] = p[j + 1]
    BY <1>0, Tails DEF Answering
  <1>2. Len(p) > 1
    BY <1>0 DEF Answering
  <1>3. Len(Tail(p)) > 0 /\ Tail(p)[Len(Tail(p))] = p[Len(p)]
    BY <1>0, <1>1, <1>2
  <1>4. \A j \in 1 .. Len(Tail(p)) - 1 : Tail(p)[j].do \in {"try", "upsert"}
    <2> SUFFICES ASSUME NEW j \in 1 .. Len(Tail(p)) - 1 PROVE Tail(p)[j].do \in {"try", "upsert"}
      OBVIOUS
    <2>1. j + 1 \in 1 .. Len(p) - 1 /\ Tail(p)[j] = p[j + 1]
      BY <1>0, <1>1
    <2> QED
      BY <2>1 DEF Answering
  <1>5. ASSUME NEW u \in Tasks, ~ Blocked(u)
        PROVE  \E j \in 1 .. Len(Tail(p)) : Tail(p)[j].do = "try" /\ Tail(p)[j].task = u
    <2>1. PICK j \in 1 .. Len(p) : p[j].do = "try" /\ p[j].task = u
      BY <1>5 DEF Answering
    <2>2. j # 1
      BY <1>5, <2>1
    <2>3. j - 1 \in 1 .. Len(Tail(p)) /\ Tail(p)[j - 1] = p[(j - 1) + 1] /\ (j - 1) + 1 = j
      BY <1>0, <1>1, <2>2
    <2> QED
      BY <2>1, <2>3
  <1> QED
    BY <1>0, <1>2, <1>3, <1>4, <1>5 DEF Answering

(* Nothing is answered while a call is being served. *)
LEMMA BusyIsSilent ==
    ASSUME NEW c, HealInv(c), prog[c] # <<>>
    PROVE  answer = <<>>
  BY DEF HealInv, Healed

(* A step that takes an instruction off the program, or ends the call. *)
LEMMA ShrinkHeals ==
    ASSUME NEW c \in Sessions, TypeInv, TypeInv', HealInv(c), UNCHANGED <<file, row, answer>>,
           prog[c] # <<>>, phase'[c] = "load",
           prog[c][1].do \notin {"upsert", "list", "rebuild", "queue", "answer"},
           \/ prog'[c] = Tail(prog[c])
           \/ prog'[c] = <<>> /\ prog[c][1].do # "try",
           prog[c][1].do = "try" => file[prog[c][1].task].status # "queued"
    PROVE  HealInv(c)'
  <1>0. /\ prog[c] \in Seq(Instructions) /\ Len(prog[c]) \in Nat \ {0} /\ 1 \in 1 .. Len(prog[c])
        /\ Tail(prog[c]) \in Seq(Instructions)
    BY Tails DEF TypeInv, TypeOK
  <1>1. /\ Ordered(Tail(prog[c])) /\ ~ First(Tail(prog[c]), {"upsert"})
        /\ Working(prog[c]) => Working(Tail(prog[c]))
    BY <1>0, OrderedTail DEF HealInv
  <1>2. 1 .. Len(<<>>) = {} /\ ~ First(<<>>, {"upsert"}) /\ Ordered(<<>>) /\ Working(<<>>)
    <2>1. 1 .. Len(<<>>) = {}
      OBVIOUS
    <2> QED
      BY <2>1 DEF First, Ordered, Working
  <1>3. ~ Resuming(c) /\ ~ Asking(prog[c])
    BY DEF Resuming, Asking
  <1>4. ASSUME Answering(prog[c]) PROVE prog[c][1].do = "try" /\ Answering(Tail(prog[c]))
    <2>1. prog[c][1].do = "try"
      BY <1>0, <1>4 DEF Answering
    <2> QED
      BY <1>0, <1>4, <2>1, AnsweringTail DEF Blocked
  <1>5. answer = <<>>
    BY BusyIsSilent
  <1>6. Ordered(prog'[c]) /\ ~ First(prog'[c], {"upsert"})
    BY <1>1, <1>2
  <1>7. Working(prog'[c]) \/ Answering(prog'[c])
    BY <1>1, <1>2, <1>3, <1>4 DEF HealInv, Busy
  <1>8. Answering(prog'[c]) => Answering(prog[c])'
    BY DEF Answering, Blocked, FileStatus, DepsMet, Satisfied
  <1>9. Busy(c)' /\ Ordered(prog[c])'
    BY <1>6, <1>7, <1>8 DEF Busy, Working, Ordered
  <1>10. HoldsFile(c)' /\ QueuedRows' /\ Healed(c)'
    BY <1>5, <1>6 DEF HealInv, HoldsFile, QueuedRows, Healed, First
  <1>11. \A t \in Tasks : ~ (Ended(file[t].status) /\ ~ Ended(row[t]))
    BY <1>3 DEF HealInv, RowsTell, First
  <1>12. RowsTell(c)'
    BY <1>11 DEF RowsTell
  <1> QED
    BY <1>9, <1>10, <1>12 DEF HealInv

(* A step that moves nothing the invariant reads, but for what is held. *)
LEMMA HealReads ==
    ASSUME NEW c, HealInv(c), UNCHANGED <<file, row, prog, listed, answer>>, HoldsFile(c)'
    PROVE  HealInv(c)'
  <1>1. \A u : Blocked(u) => Blocked(u)'
    BY DEF Blocked, DepsMet, Satisfied, FileStatus
  <1>2. Answering(prog[c]) => Answering(prog[c])'
    BY <1>1 DEF Answering
  <1>3. Resuming(c) => Resuming(c)'
    BY DEF Resuming, FileStatus
  <1>4. RowsTell(c) => RowsTell(c)'
    BY DEF RowsTell, First
  <1>5. Working(prog[c]) => Working(prog[c])'
    BY DEF Working
  <1>6. Asking(prog[c]) => Asking(prog[c])'
    BY DEF Asking
  <1>7. Ordered(prog[c]) => Ordered(prog[c])'
    BY DEF Ordered
  <1>8. QueuedRows => QueuedRows'
    BY DEF QueuedRows
  <1>9. Healed(c) => Healed(c)'
    BY <1>1 DEF Healed
  <1>10. Busy(c)'
    BY <1>2, <1>3, <1>5, <1>6 DEF HealInv, Busy
  <1> QED
    BY <1>3, <1>4, <1>7, <1>8, <1>9, <1>10 DEF HealInv

(* The first two thirds of a write. *)
LEMMA HoldHeals ==
    ASSUME NEW c \in Sessions, TypeInv, TypeInv', HealInv(c), At(c, Writes),
           UNCHANGED <<file, row, prog, listed, answer>>,
           held'[c] = file[Current(c).task]
    PROVE  HealInv(c)'
  <1>1. Current(c) = prog[c][1] /\ prog[c][1].do \in Writes
    BY CurrentTyped DEF At, Current
  <1>2. HoldsFile(c)'
    BY <1>1 DEF HealInv, HoldsFile, First, Writes
  <1> QED
    BY <1>2, HealReads

LEMMA RenameHeals ==
    ASSUME NEW c \in Sessions, TypeInv, TypeInv', HealInv(c), Rename(c)
    PROVE  HealInv(c)'
  <1> DEFINE i == prog[c][1]
             t == i.task
             r == Written(c, i, held[c])
             a == AfterWrite(i, r)
             q == a \o Tail(prog[c])
  <1>0. /\ prog[c] \in Seq(Instructions) /\ prog[c] # <<>> /\ Ordered(prog[c])
        /\ Current(c) = i /\ i \in Instructions /\ t \in Tasks /\ 1 \in 1 .. Len(prog[c])
        /\ i.do \in Writes /\ held[c] \in Records /\ phase[c] # "load"
    BY CurrentTyped DEF Rename, HealInv, At, Current, TypeInv, TypeOK
  <1>1. /\ held[c] = file[t]
        /\ i.do = "status" => i.to # "queued"
        /\ i.do \in {"try", "promote"} => i.to = "ready"
        /\ ~ Resuming(c) /\ ~ Asking(prog[c])
    BY <1>0 DEF HealInv, HoldsFile, Ordered, Resuming, Asking, Writes
  <1>2. /\ r \in Records
        /\ i.do \in {"status", "try", "promote"} => r.status = i.to
        /\ i.do \in {"claim", "complete"} => r.status = file[t].status
    BY <1>0, <1>1, WrittenTyped
  <1>3. /\ a \in Seq(Instructions)
        /\ i.do \in {"claim", "promote"} => a = <<>>
        /\ i.do \in {"status", "try", "complete"} =>
              /\ Len(a) \in 1 .. 2
              /\ a[1].do = "upsert" /\ a[1].task = t /\ a[1].to = r.status
              /\ Len(a) = 2 => a[2].do = "hook" /\ a[2].task = t
              /\ ~ Ended(i.to) => Len(a) = 1
    BY <1>0, <1>2, AfterWriteIs DEF Ended
  <1>4. /\ file' = [file EXCEPT ![t] = r] /\ UNCHANGED <<row, listed, answer>>
        /\ prog'[c] = q /\ phase'[c] = "load"
    BY <1>0 DEF Rename, Run, Forget, TypeInv, TypeOK
  <1>5. answer = <<>>
    BY <1>0, BusyIsSilent
  <1> HIDE DEF r, a, q
  <1>6. file'[t] = r /\ \A u \in Tasks \ {t} : file'[u] = file[u]
    BY <1>0, <1>4 DEF TypeInv, TypeOK
  <1>7. /\ Tail(prog[c]) \in Seq(Instructions) /\ Ordered(Tail(prog[c]))
        /\ ~ First(Tail(prog[c]), {"upsert"})
        /\ \A j \in 1 .. Len(Tail(prog[c])) : Tail(prog[c])[j].do # "upsert"
        /\ Working(prog[c]) => Working(Tail(prog[c]))
    BY <1>0, Tails, OrderedTail
  <1>8. /\ Len(a) \in Nat /\ Len(Tail(prog[c])) \in Nat
        /\ q \in Seq(Instructions) /\ Len(q) = Len(a) + Len(Tail(prog[c]))
        /\ \A j \in 1 .. Len(a) : q[j] = a[j]
        /\ \A j \in 1 .. Len(Tail(prog[c])) : q[Len(a) + j] = Tail(prog[c])[j]
        /\ \A j \in 1 .. Len(q) : j > Len(a) =>
              j - Len(a) \in 1 .. Len(Tail(prog[c])) /\ q[j] = Tail(prog[c])[j - Len(a)]
    BY <1>3, <1>7, Joins DEF q
  <1>9. i.do \in {"status", "try", "promote", "claim", "complete"}
    BY <1>0 DEF Writes
  <1>10. \A j \in 1 .. Len(a) : \/ j = 1 /\ a[j].do = "upsert"
                                \/ j = 2 /\ a[j].do = "hook"
    <2>1. CASE i.do \in {"claim", "promote"}
      <3>1. Len(a) = 0
        BY <1>3, <2>1
      <3> QED
        BY <3>1
    <2>2. CASE i.do \in {"status", "try", "complete"}
      <3>0. \A n \in 1 .. 2 : \A j \in 1 .. n : j = 1 \/ (j = 2 /\ n = 2)
        OBVIOUS
      <3>1. \A j \in 1 .. Len(a) : j = 1 \/ (j = 2 /\ Len(a) = 2)
        BY <1>3, <2>2, <3>0, Zenon
      <3> QED
        BY <1>3, <2>2, <3>1
    <2> QED
      BY <1>9, <2>1, <2>2
  <1>11. ASSUME NEW j \in 1 .. Len(q)
         PROVE  \/ j \in 1 .. Len(a) /\ q[j] = a[j]
                \/ \E m \in 1 .. Len(Tail(prog[c])) : q[j] = Tail(prog[c])[m]
    <2>1. CASE j \in 1 .. Len(a)
      BY <1>8, <2>1
    <2>2. CASE j > Len(a)
      BY <1>8, <2>2
    <2> QED
      BY <1>8, <2>1, <2>2
  <1>12. Ordered(q)
    BY <1>7, <1>10, <1>11 DEF Ordered
  <1>13. CASE i.do \in {"claim", "promote"}
    <2>1. q = Tail(prog[c])
      <3>1. a = <<>>
        BY <1>3, <1>13
      <3>2. \A p \in Seq(Instructions) : <<>> \o p = p
        OBVIOUS
      <3> QED
        BY <1>7, <3>1, <3>2 DEF q
    <2>2. ~ First(q, {"upsert"})
      BY <1>7, <2>1
    <2>3. HoldsFile(c)'
      BY <1>4, <2>2 DEF HoldsFile, First
    <2> QED
      <3>1. Working(prog[c])
        <4>1. ~ Answering(prog[c])
          BY <1>0, <1>13 DEF Answering
        <4> QED
          BY <1>1, <4>1 DEF HealInv, Busy
      <3>2. Busy(c)' /\ Ordered(prog[c])'
        BY <1>4, <1>7, <1>12, <2>1, <3>1 DEF Busy, Working, Ordered
      <3>3. ~ Ended("ready")
        BY DEF Ended, IsTaskDependencySatisfied, DependencyTerminalStates
      <3>4. \A u \in Tasks : ~ (Ended(file[u].status) /\ ~ Ended(row[u]))
        BY <1>0, <1>1, <1>13 DEF HealInv, RowsTell, First
      <3>5. RowsTell(c)' /\ QueuedRows'
        BY <1>1, <1>2, <1>4, <1>6, <1>13, <3>3, <3>4 DEF RowsTell, HealInv, QueuedRows
      <3>6. Healed(c)'
        BY <1>4, <1>5 DEF Healed
      <3> QED
        BY <2>3, <3>2, <3>5, <3>6 DEF HealInv
  <1>14. CASE i.do \in {"status", "try", "complete"}
    <2>1. 1 \in 1 .. Len(a) /\ q[1] = a[1] /\ q # <<>> /\ 1 \in 1 .. Len(q)
      BY <1>3, <1>8, <1>14
    <2>2. HoldsFile(c)'
      BY <1>3, <1>4, <1>6, <1>14, <2>1 DEF HoldsFile, First
    <2>3. \A u \in Tasks \ {t} : ~ (Ended(file[u].status) /\ ~ Ended(row[u]))
      BY <1>0, <1>1, <1>14 DEF HealInv, RowsTell, First
    <2>4. First(q, {"upsert"}) /\ q[1].task = t
      BY <1>3, <1>14, <2>1 DEF First
    <2>5. RowsTell(c)'
      BY <1>4, <1>6, <2>3, <2>4 DEF RowsTell
    <2>6. QueuedRows'
      BY <1>1, <1>2, <1>4, <1>6, <1>14 DEF HealInv, QueuedRows
    <2>7. Healed(c)'
      BY <1>4, <1>5 DEF Healed
    <2>8. Ordered(prog[c])'
      BY <1>4, <1>12 DEF Ordered
    <2>9. CASE Working(prog[c])
      <3>1. \A j \in 1 .. Len(q) : q[j].do \notin {"try", "queue", "answer", "list", "rebuild"}
        BY <1>7, <1>10, <1>11, <2>9 DEF Working
      <3>2. Busy(c)'
        BY <1>4, <3>1 DEF Busy, Working
      <3> QED
        BY <2>2, <2>5, <2>6, <2>7, <2>8, <3>2 DEF HealInv
    <2>10. CASE Answering(prog[c])
      <3>1. i.do = "try" /\ i.to = "ready" /\ r.status = "ready"
        BY <1>0, <1>1, <1>2, <1>14, <2>10 DEF Answering
      <3>2. ~ Ended("ready")
        BY DEF Ended, IsTaskDependencySatisfied, DependencyTerminalStates
      <3>3. Len(a) = 1
        BY <1>3, <3>1, <3>2
      <3>4. \A u \in Tasks : Blocked(u) => Blocked(u)'
        <4>1. \A u \in Tasks : /\ file'[u].status = "queued" => u # t /\ file[u].status = "queued"
                               /\ Ended(file'[u].status) => Ended(file[u].status)
          BY <1>6, <3>1, <3>2
        <4>2. \A u \in Tasks : DependsOn[u] \subseteq Tasks
          BY HandlersAssumption
        <4> QED
          BY <4>1, <4>2 DEF Blocked, DepsMet, Satisfied, FileStatus, Ended
      <3>5. \A u \in Tasks : u = t => Blocked(u)'
        BY <1>6, <3>1 DEF Blocked
      <3>6. /\ Len(q) = Len(prog[c]) /\ Len(q) \in Nat /\ Len(prog[c]) > 1
            /\ \A j \in 2 .. Len(q) : q[j] = prog[c][j]
        <4>1. Len(Tail(prog[c])) = Len(prog[c]) - 1 /\ Len(prog[c]) \in Nat
              /\ \A j \in 1 .. Len(prog[c]) - 1 : Tail(prog[c])[j] = prog[c][j + 1]
          BY <1>0, Tails
        <4>2. Len(prog[c]) # 1 /\ Len(prog[c]) # 0
          BY <1>0, <2>10, <3>1 DEF Answering
        <4>5. Len(q) = Len(prog[c])
          BY <1>8, <3>3, <4>1
        <4>3. ASSUME NEW j \in 2 .. Len(q) PROVE q[j] = prog[c][j]
          <5>1. j - 1 \in 1 .. Len(prog[c]) - 1 /\ (j - 1) + 1 = j /\ Len(a) + (j - 1) = j
            BY <1>8, <3>3, <4>1
          <5> QED
            BY <1>8, <4>1, <5>1
        <4> QED
          <5>1. \A n \in Nat : n # 0 /\ n # 1 => n > 1
            OBVIOUS
          <5>2. Len(prog[c]) > 1 /\ Len(q) \in Nat
            BY <4>1, <4>2, <4>5, <5>1, Zenon
          <5> QED
            BY <4>3, <4>5, <5>2, Zenon
      <3>7. Len(q) > 0 /\ q[Len(q)].do = "answer"
        BY <2>10, <3>6 DEF Answering
      <3>8. \A j \in 1 .. Len(q) - 1 : q[j].do \in {"try", "upsert"}
        <4>1. \A j \in 1 .. Len(q) - 1 : j = 1 \/ j \in 2 .. Len(q)
          BY <3>6
        <4> QED
          BY <2>4, <2>10, <3>6, <4>1 DEF Answering, First
      <3>9. ASSUME NEW u \in Tasks, ~ Blocked(u)'
            PROVE  \E j \in 1 .. Len(q) : q[j].do = "try" /\ q[j].task = u
        <4>1. u # t /\ ~ Blocked(u)
          BY <3>4, <3>5, <3>9
        <4>2. PICK j \in 1 .. Len(prog[c]) : prog[c][j].do = "try" /\ prog[c][j].task = u
          BY <2>10, <4>1 DEF Answering
        <4>3. j # 1
          BY <4>1, <4>2
        <4>4. j \in 2 .. Len(q) /\ j \in 1 .. Len(q)
          BY <3>6, <4>3
        <4> QED
          BY <3>6, <4>2, <4>4
      <3>10. Busy(c)'
        BY <1>4, <3>7, <3>8, <3>9 DEF Busy, Answering
      <3> QED
        BY <2>2, <2>5, <2>6, <2>7, <2>8, <3>10 DEF HealInv
    <2> QED
      BY <1>1, <2>9, <2>10 DEF HealInv, Busy
  <1> QED
    BY <1>9, <1>13, <1>14

LEMMA UpsertHeals ==
    ASSUME NEW c \in Sessions, TypeInv, TypeInv', HealInv(c), Upsert(c)
    PROVE  HealInv(c)'
  <1> DEFINE i == prog[c][1]
             t == i.task
  <1>0. /\ prog[c] \in Seq(Instructions) /\ prog[c] # <<>> /\ Ordered(prog[c])
        /\ Current(c) = i /\ t \in Tasks /\ i.do = "upsert" /\ First(prog[c], {"upsert"})
        /\ ~ Resuming(c) /\ ~ Asking(prog[c])
    BY CurrentTyped DEF Upsert, HealInv, At, Current, First, TypeInv, TypeOK, Resuming, Asking
  <1>1. i.to = file[t].status
    BY <1>0 DEF HealInv, HoldsFile
  <1>2. /\ row' = [row EXCEPT ![t] = i.to] /\ UNCHANGED <<file, phase, held, listed, answer>>
        /\ prog'[c] = Tail(prog[c])
    BY <1>0 DEF Upsert, Continue, Run, TypeInv, TypeOK
  <1>3. row'[t] = file[t].status /\ \A u \in Tasks \ {t} : row'[u] = row[u]
    BY <1>0, <1>1, <1>2 DEF TypeInv, TypeOK
  <1>4. phase[c] = "load"
    BY <1>0 DEF TypeInv, WritesUnderWay, At, Current, Writes
  <1>5. /\ Ordered(Tail(prog[c])) /\ ~ First(Tail(prog[c]), {"upsert"})
        /\ Working(prog[c]) => Working(Tail(prog[c]))
    BY <1>0, OrderedTail
  <1>6. Answering(prog[c]) => Answering(Tail(prog[c]))
    BY <1>0, AnsweringTail
  <1>7. Answering(Tail(prog[c])) => Answering(prog[c])'
    BY <1>2 DEF Answering, Blocked, FileStatus, DepsMet, Satisfied
  <1>8. Busy(c)' /\ Ordered(prog[c])'
    BY <1>0, <1>2, <1>5, <1>6, <1>7 DEF HealInv, Busy, Working, Ordered
  <1>9. HoldsFile(c)'
    BY <1>2, <1>4, <1>5 DEF HoldsFile, First
  <1>10. QueuedRows'
    BY <1>2, <1>3 DEF HealInv, QueuedRows
  <1>11. RowsTell(c)'
    <2>1. \A u \in Tasks \ {t} : ~ (Ended(file[u].status) /\ ~ Ended(row[u]))
      BY <1>0 DEF HealInv, RowsTell
    <2> QED
      BY <1>2, <1>3, <2>1 DEF RowsTell
  <1>12. Healed(c)'
    BY <1>0, <1>2, BusyIsSilent DEF Healed
  <1> QED
    BY <1>8, <1>9, <1>10, <1>11, <1>12 DEF HealInv

(* Steps that leave files, rows and the write alone, and give the session  *)
(* another program.                                                        *)
LEMMA ProgramHeals ==
    ASSUME NEW c \in Sessions, HealInv(c), UNCHANGED <<file, row>>, phase'[c] = "load",
           ~ Resuming(c), ~ First(prog[c], {"upsert"}), ~ First(prog'[c], {"upsert"}),
           answer' = <<>>, Ordered(prog'[c]), Busy(c)'
    PROVE  HealInv(c)'
  <1>1. HoldsFile(c)' /\ QueuedRows' /\ Healed(c)' /\ Ordered(prog[c])'
    BY DEF HealInv, HoldsFile, QueuedRows, Healed, Ordered, First
  <1>2. \A t \in Tasks : ~ (Ended(file[t].status) /\ ~ Ended(row[t]))
    BY DEF HealInv, RowsTell
  <1>3. RowsTell(c)'
    BY <1>2 DEF RowsTell
  <1> QED
    BY <1>1, <1>3 DEF HealInv

LEMMA HookHeals ==
    ASSUME NEW c \in Sessions, TypeInv, TypeInv', HealInv(c), RunHook(c)
    PROVE  HealInv(c)'
  <1> DEFINE i == prog[c][1]
             a == Each("promote", Unblocked(i.task), "ready")
             q == a \o Tail(prog[c])
  <1>0. /\ prog[c] \in Seq(Instructions) /\ prog[c] # <<>> /\ Ordered(prog[c])
        /\ Current(c) = i /\ i.do = "hook" /\ 1 \in 1 .. Len(prog[c])
    BY CurrentTyped DEF RunHook, HealInv, At, Current, TypeInv, TypeOK
  <1>1. /\ UNCHANGED <<file, row, phase>> /\ prog'[c] = q /\ answer' = answer
    BY <1>0 DEF RunHook, Run, TypeInv, TypeOK
  <1>2. Unblocked(i.task) \in SUBSET Tasks
    BY DEF Unblocked
  <1>3. /\ a \in Seq(Instructions)
        /\ \A j \in 1 .. Len(a) : a[j].do = "promote" /\ a[j].to = "ready"
    BY <1>2, EachTyped DEF Moving, TaskStatuses
  <1> HIDE DEF a, q
  <1>4. Working(prog[c]) /\ ~ Resuming(c)
    BY <1>0 DEF HealInv, Busy, Resuming, Asking, Answering
  <1>5. /\ Tail(prog[c]) \in Seq(Instructions) /\ Ordered(Tail(prog[c])) /\ Working(Tail(prog[c]))
        /\ \A j \in 1 .. Len(Tail(prog[c])) : Tail(prog[c])[j].do # "upsert"
    BY <1>0, <1>4, Tails, OrderedTail
  <1>6. /\ Len(a) \in Nat /\ q \in Seq(Instructions)
        /\ \A j \in 1 .. Len(a) : q[j] = a[j]
        /\ \A j \in 1 .. Len(q) : j > Len(a) =>
              j - Len(a) \in 1 .. Len(Tail(prog[c])) /\ q[j] = Tail(prog[c])[j - Len(a)]
    BY <1>3, <1>5, Joins DEF q
  <1>7. ASSUME NEW j \in 1 .. Len(q)
        PROVE  \/ q[j].do = "promote" /\ q[j].to = "ready"
               \/ \E m \in 1 .. Len(Tail(prog[c])) : q[j] = Tail(prog[c])[m]
    <2>1. CASE j \in 1 .. Len(a)
      BY <1>3, <1>6, <2>1
    <2>2. CASE j > Len(a)
      BY <1>6, <2>2
    <2> QED
      BY <1>6, <2>1, <2>2
  <1>8. Ordered(q) /\ Working(q) /\ ~ First(q, {"upsert"})
    <2>1. \A j \in 1 .. Len(q) : q[j].do # "upsert"
      BY <1>5, <1>7
    <2>2. q # <<>> => 1 \in 1 .. Len(q)
      BY <1>6
    <2> QED
      BY <1>5, <1>7, <2>1, <2>2 DEF Ordered, Working, First
  <1>9. Busy(c)'
    BY <1>1, <1>8 DEF Busy, Working
  <1>10. phase[c] = "load" /\ answer = <<>> /\ ~ First(prog[c], {"upsert"})
    BY <1>0, BusyIsSilent DEF TypeInv, WritesUnderWay, At, Current, Writes, First
  <1> QED
    BY <1>1, <1>4, <1>8, <1>9, <1>10, ProgramHeals

(* The queue inspection finds every task that could be promoted. *)
LEMMA QueueHealsRows ==
    ASSUME NEW c \in Sessions, TypeInv, TypeInv', HealInv(c), ListQueue(c)
    PROVE  HealInv(c)'
  <1> DEFINE a == Each("try", Promotable, "ready")
             z == Instruction("answer", Current(c).task, "")
             q == a \o <<z>>
  <1>0. /\ prog[c] \in Seq(Instructions) /\ prog[c] # <<>>
        /\ prog[c][1].do = "queue" /\ Current(c).task \in Tasks
    BY CurrentTyped DEF ListQueue, At, Current, TypeInv, TypeOK
  <1>1. /\ UNCHANGED <<file, row, phase>> /\ prog'[c] = q /\ answer' = answer
    BY <1>0 DEF ListQueue, Run, TypeInv, TypeOK
  <1>2. /\ a \in Seq(Instructions)
        /\ \A j \in 1 .. Len(a) : a[j].do = "try" /\ a[j].to = "ready"
        /\ \A u \in Promotable : \E j \in 1 .. Len(a) : a[j].task = u
    <2>1. Promotable \in SUBSET Tasks
      BY DEF Promotable
    <2> QED
      BY <2>1, EachTyped DEF Moving, TaskStatuses
  <1>3. z \in Instructions /\ z.do = "answer"
    BY <1>0 DEF Instruction, Instructions, Moving, Kinds
  <1> HIDE DEF a, z, q
  <1>4. <<z>> \in Seq(Instructions) /\ Len(<<z>>) = 1 /\ <<z>>[1] = z
    BY <1>3
  <1>5. /\ Len(a) \in Nat /\ q \in Seq(Instructions) /\ Len(q) = Len(a) + 1
        /\ \A j \in 1 .. Len(a) : q[j] = a[j]
        /\ q[Len(a) + 1] = z
    <2>1. Len(a) \in Nat /\ 1 \in 1 .. Len(<<z>>)
      BY <1>2, <1>4
    <2> QED
      BY <1>2, <1>4, <2>1, Joins DEF q
  <1>6. \A j \in 1 .. Len(q) : j \in 1 .. Len(a) \/ j = Len(a) + 1
    BY <1>5
  <1>7. ~ Resuming(c) /\ ~ First(prog[c], {"upsert"}) /\ answer = <<>>
    BY <1>0, BusyIsSilent DEF Resuming, First
  <1>8. Ordered(q) /\ ~ First(q, {"upsert"})
    <2>1. \A j \in 1 .. Len(q) : q[j].do # "upsert" /\ q[j].do # "status"
                                 /\ (q[j].do \in {"try", "promote"} => q[j].to = "ready")
      BY <1>2, <1>3, <1>5, <1>6
    <2>2. 1 \in 1 .. Len(q)
      BY <1>5
    <2> QED
      BY <2>1, <2>2 DEF Ordered, First
  <1>9. ASSUME NEW u \in Tasks, ~ Blocked(u) PROVE u \in Promotable
    <2>1. file[u].status = "queued" /\ \A d \in DependsOn[u] : Ended(file[d].status)
      BY <1>9, HandlersAssumption DEF Blocked, DepsMet, Satisfied, FileStatus, Ended
    <2>2. row[u] = "queued" /\ \A d \in DependsOn[u] : Ended(row[d])
      BY <1>7, <2>1, HandlersAssumption DEF HealInv, QueuedRows, RowsTell
    <2> QED
      BY <2>2 DEF Promotable, DepsMet, Satisfied, Ended
  <1>10. Answering(q)
    <2>1. Len(q) > 0 /\ q[Len(q)].do = "answer"
      BY <1>3, <1>5
    <2>2. \A j \in 1 .. Len(q) - 1 : q[j].do \in {"try", "upsert"}
      BY <1>2, <1>5
    <2>3. ASSUME NEW u \in Tasks, ~ Blocked(u)
          PROVE  \E j \in 1 .. Len(q) : q[j].do = "try" /\ q[j].task = u
      <3>1. PICK j \in 1 .. Len(a) : a[j].task = u
        BY <1>2, <1>9, <2>3
      <3>2. j \in 1 .. Len(q) /\ q[j] = a[j]
        BY <1>5
      <3> QED
        BY <1>2, <3>1, <3>2
    <2> QED
      BY <2>1, <2>2, <2>3 DEF Answering
  <1>11. Busy(c)'
    <2>1. \A u \in Tasks : Blocked(u) => Blocked(u)'
      BY <1>1 DEF Blocked, DepsMet, Satisfied, FileStatus
    <2>2. Answering(prog[c])'
      BY <1>1, <1>10, <2>1 DEF Answering
    <2> QED
      BY <2>2 DEF Busy
  <1>12. phase[c] = "load"
    BY <1>0 DEF TypeInv, WritesUnderWay, At, Writes, ListQueue
  <1> QED
    BY <1>1, <1>7, <1>8, <1>11, <1>12, ProgramHeals

LEMMA AnswerHeals ==
    ASSUME NEW c \in Sessions, TypeInv, TypeInv', HealInv(c), Answer(c)
    PROVE  HealInv(c)'
  <1>0. /\ prog[c] \in Seq(Instructions) /\ prog[c] # <<>> /\ prog[c][1].do = "answer"
        /\ Len(prog[c]) \in Nat /\ 1 \in 1 .. Len(prog[c])
    BY CurrentTyped DEF Answer, At, Current, TypeInv, TypeOK
  <1>1. /\ UNCHANGED <<file, row, phase>> /\ prog'[c] = Tail(prog[c])
    BY DEF Answer, Continue, Run, TypeInv, TypeOK
  <1>2. Answering(prog[c]) /\ ~ Resuming(c)
    BY <1>0 DEF HealInv, Busy, Working, Resuming, Asking
  <1>3. Len(prog[c]) = 1
    <2>1. ~ 1 \in 1 .. Len(prog[c]) - 1
      BY <1>0, <1>2 DEF Answering
    <2>2. \A n \in Nat : 1 \in 1 .. n /\ ~ 1 \in 1 .. n - 1 => n = 1
      OBVIOUS
    <2> QED
      BY <1>0, <2>1, <2>2, Zenon
  <1>4. Tail(prog[c]) = <<>>
    BY <1>0, <1>3, LastTail
  <1>5. \A u \in Tasks : Blocked(u)
    <2>1. \A j \in 1 .. Len(prog[c]) : prog[c][j].do # "try"
      BY <1>0, <1>3
    <2> QED
      BY <1>2, <2>1 DEF Answering
  <1>6. 1 .. Len(<<>>) = {}
    OBVIOUS
  <1>7. Busy(c)' /\ Ordered(prog[c])'
    BY <1>1, <1>4, <1>6 DEF Busy, Working, Ordered
  <1>8. Healed(c)'
    BY <1>1, <1>4, <1>5 DEF Healed, Blocked, DepsMet, Satisfied, FileStatus
  <1>9. phase[c] = "load" /\ ~ First(prog[c], {"upsert"})
    BY <1>0 DEF TypeInv, WritesUnderWay, At, Writes, Answer, First
  <1>10. HoldsFile(c)' /\ QueuedRows' /\ RowsTell(c)'
    BY <1>1, <1>2, <1>4, <1>9 DEF HealInv, HoldsFile, QueuedRows, RowsTell, First
  <1> QED
    BY <1>7, <1>8, <1>10 DEF HealInv

(* A process that comes back: the crash, the listing, the rebuild. *)
LEMMA CrashHeals ==
    ASSUME NEW c \in Sessions, TypeInv, TypeInv', HealInv(c), Crash(c)
    PROVE  HealInv(c)'
  <1>1. PICK t \in Tasks :
           Run(c, << Instruction("list", t, ""), Instruction("rebuild", t, "") >>)
    BY HandlersAssumption DEF Crash
  <1> DEFINE a == Instruction("list", t, "")
             b == Instruction("rebuild", t, "")
  <1>2. a.do = "list" /\ b.do = "rebuild"
    BY DEF Instruction
  <1>3. prog'[c] = <<a, b>>
    BY <1>1 DEF Run, TypeInv, TypeOK
  <1> HIDE DEF a, b
  <1>4. /\ Len(<<a, b>>) = 2 /\ <<a, b>>[1] = a /\ <<a, b>>[2] = b
        /\ \A j \in 1 .. Len(<<a, b>>) : j = 1 \/ j = 2
    OBVIOUS
  <1>5. Resuming(c)' /\ Ordered(prog[c])' /\ ~ First(prog'[c], {"upsert"})
    BY <1>2, <1>3, <1>4 DEF Resuming, Ordered, First
  <1>6. UNCHANGED <<file, row>> /\ answer' = <<>> /\ phase'[c] = "load"
    BY DEF Crash, Forget, TypeInv, TypeOK
  <1>7. HoldsFile(c)' /\ QueuedRows' /\ Healed(c)'
    BY <1>5, <1>6 DEF HealInv, HoldsFile, QueuedRows, Healed, First
  <1> QED
    BY <1>5, <1>7 DEF HealInv, Busy

LEMMA ResumeHeals ==
    ASSUME NEW c \in Sessions, TypeInv, TypeInv', HealInv(c), ListFiles(c) \/ Rebuild(c)
    PROVE  HealInv(c)'
  <1>0. /\ prog[c] \in Seq(Instructions) /\ prog[c] # <<>>
        /\ prog[c][1].do \in {"list", "rebuild"} /\ phase[c] = "load"
        /\ Len(prog[c]) \in Nat /\ 1 \in 1 .. Len(prog[c])
    <2>1. ~ Quiet(c) /\ Head(prog[c]).do \in {"list", "rebuild"}
      BY DEF ListFiles, Rebuild, At
    <2>2. phase[c] = "load"
      BY <2>1 DEF TypeInv, WritesUnderWay, At, Writes
    <2>3. prog[c] \in Seq(Instructions)
      BY DEF TypeInv, TypeOK
    <2> QED
      BY <2>1, <2>2, <2>3, CurrentTyped DEF Current
  <1>1. /\ UNCHANGED <<file, phase, answer>> /\ prog'[c] = Tail(prog[c])
        /\ Ordered(Tail(prog[c])) /\ ~ First(Tail(prog[c]), {"upsert"})
        /\ Len(Tail(prog[c])) = Len(prog[c]) - 1
        /\ \A j \in 1 .. Len(prog[c]) - 1 : Tail(prog[c])[j] = prog[c][j + 1]
    BY <1>0, OrderedTail, Tails DEF HealInv, ListFiles, Rebuild, Continue, Run, TypeInv, TypeOK
  <1>2. Resuming(c) /\ answer = <<>>
    <2>1. ~ Answering(prog[c])
      BY <1>0 DEF Answering
    <2> QED
      BY <1>0, <2>1, BusyIsSilent DEF HealInv, Busy, Working, Asking
  <1>3. HoldsFile(c)' /\ Healed(c)' /\ Ordered(prog[c])'
    BY <1>0, <1>1, <1>2 DEF HoldsFile, Healed, Ordered, First
  <1>4. CASE ListFiles(c)
    <2>1. listed'[c] = FileStatus /\ row' = row
      BY <1>4 DEF ListFiles, TypeInv, TypeOK
    <2>2. prog[c][1].do = "list"
      BY <1>0, <1>4, CurrentTyped DEF ListFiles, At, Current
    <2>3. Len(Tail(prog[c])) = 1 /\ Tail(prog[c])[1].do = "rebuild"
      BY <1>1, <1>2, <2>2 DEF Resuming
    <2>4. Resuming(c)'
      BY <1>1, <2>1, <2>3 DEF Resuming, FileStatus
    <2> QED
      BY <1>1, <1>3, <2>1, <2>4 DEF HealInv, Busy, QueuedRows
  <1>5. CASE Rebuild(c)
    <2>1. prog[c][1].do = "rebuild"
      BY <1>0, <1>5, CurrentTyped DEF Rebuild, At, Current
    <2>2. Len(prog[c]) = 1 /\ listed[c] = FileStatus
      BY <1>2, <2>1 DEF Resuming
    <2>3. row' = FileStatus
      BY <1>5, <2>2 DEF Rebuild
    <2>4. Tail(prog[c]) = <<>> /\ 1 .. Len(<<>>) = {}
      BY <1>0, <2>2, LastTail
    <2>5. Busy(c)'
      BY <1>1, <2>4 DEF Busy, Working
    <2>6. QueuedRows' /\ RowsTell(c)'
      BY <1>1, <2>3 DEF QueuedRows, RowsTell, FileStatus
    <2> QED
      BY <1>3, <2>5, <2>6 DEF HealInv
  <1> QED
    BY <1>4, <1>5

(* A new call, of any kind. *)
LEMMA CallHeals ==
    ASSUME NEW c \in Sessions, TypeInv, TypeInv', HealInv(c), Call(c)
    PROVE  HealInv(c)'
  <1> DEFINE Plain(i) == i.do \in {"ready?", "deps?", "active?", "commit", "claim", "complete"}
                         \/ (i.do = "status" /\ i.to # "queued")
  <1>0. \A t \in Tasks, s \in TaskStatuses \ {"queued"} : Plain(Instruction("status", t, s))
    BY DEF Instruction
  <1>k. \A kind \in {"ready?", "deps?", "active?", "commit", "claim", "complete"} :
           \A t \in Tasks : Plain(Instruction(kind, t, ""))
    BY DEF Instruction
  <1>t. Serves[c] \subseteq Tasks
    BY HandlersAssumption
  <1>s. {"active", "done", "needs-review"} \subseteq TaskStatuses \ {"queued"}
    BY DEF TaskStatuses
  <1>1. ASSUME NEW p, Begin(c, p), p \in Seq(Instructions),
               (\A j \in 1 .. Len(p) : Plain(p[j])) \/ Asking(p)
        PROVE  HealInv(c)'
    <2>1. /\ prog[c] = <<>> /\ prog'[c] = p /\ UNCHANGED <<file, row, phase>> /\ answer' = <<>>
      BY <1>1 DEF Begin, Quiet, Run, TypeInv, TypeOK
    <2>2. phase[c] = "load" /\ ~ First(prog[c], {"upsert"}) /\ ~ Resuming(c)
      BY <2>1 DEF TypeInv, WritesUnderWay, At, Quiet, First, Resuming
    <2>3. p # <<>> => 1 \in 1 .. Len(p)
      BY <1>1
    <2>4. CASE \A j \in 1 .. Len(p) : Plain(p[j])
      <3>1. Ordered(p) /\ Working(p) /\ ~ First(p, {"upsert"})
        BY <2>3, <2>4 DEF Ordered, Working, First
      <3>2. Busy(c)'
        BY <2>1, <3>1 DEF Busy, Working
      <3> QED
        BY <2>1, <2>2, <3>1, <3>2, ProgramHeals
    <2>5. CASE Asking(p)
      <3>1. Ordered(p) /\ ~ First(p, {"upsert"})
        BY <2>5 DEF Ordered, First, Asking
      <3>2. Busy(c)'
        BY <2>1, <2>5 DEF Busy, Asking
      <3> QED
        BY <2>1, <2>2, <3>1, <3>2, ProgramHeals
    <2> QED
      BY <1>1, <2>4, <2>5
  <1> HIDE DEF Plain
  <1>p. PICK p \in Seq(Instructions) : Begin(c, p)
    BY CallTyped
  <1>b. ASSUME NEW q, Begin(c, q) PROVE q = p
    BY <1>b, <1>p DEF Begin, Run, TypeInv, TypeOK
  <1>2. ASSUME NEW t \in Serves[c], ClaimCall(c, t) PROVE HealInv(c)'
    <2> DEFINE a == Instruction("ready?", t, "")
               b == Instruction("deps?", t, "")
               d == Instruction("status", t, "active")
               e == Instruction("claim", t, "")
    <2>1. Plain(a) /\ Plain(b) /\ Plain(d) /\ Plain(e)
      BY <1>0, <1>k, <1>t, <1>s
    <2>2. Begin(c, <<a, b, d, e>>)
      BY <1>2 DEF ClaimCall
    <2> HIDE DEF a, b, d, e
    <2>3. \A j \in 1 .. Len(<<a, b, d, e>>) : Plain(<<a, b, d, e>>[j])
      BY <2>1
    <2> QED
      BY <1>1, <1>b, <1>p, <2>2, <2>3
  <1>3. ASSUME NEW t \in Serves[c], FinishRefusedCall(c, t) PROVE HealInv(c)'
    <2> DEFINE a == Instruction("status", t, "active")
    <2>1. Plain(a) /\ Begin(c, <<a>>)
      BY <1>0, <1>3, <1>t, <1>s DEF FinishRefusedCall
    <2> HIDE DEF a
    <2>2. \A j \in 1 .. Len(<<a>>) : Plain(<<a>>[j])
      BY <2>1
    <2> QED
      BY <1>1, <1>b, <1>p, <2>1, <2>2
  <1>4. ASSUME NEW t \in Serves[c], NEW s \in Targets, FinishCall(c, t, s) PROVE HealInv(c)'
    <2> DEFINE o == Instruction("status", t, "active")
               w == IF file[t].status = "ready" THEN <<o>> ELSE <<>>
               a == Instruction("active?", t, "")
               b == Instruction("status", t, s)
               d == Instruction("complete", t, "")
               e == Instruction("commit", t, "")
               v == <<a, b, d, e>>
    <2>1. s \in {"done", "needs-review"}
      BY <1>4 DEF FinishCall
    <2>2. Plain(o) /\ Plain(a) /\ Plain(b) /\ Plain(d) /\ Plain(e)
      BY <1>0, <1>k, <1>t, <1>s, <2>1
    <2>3. Begin(c, w \o v)
      BY <1>4, Zenon DEF FinishCall
    <2> HIDE DEF o, a, b, d, e
    <2>4. w \in Seq({o}) /\ v \in Seq({a, b, d, e})
      <3>1. <<>> \in Seq({o}) /\ <<o>> \in Seq({o})
        OBVIOUS
      <3>2. w \in Seq({o})
        BY <3>1, Zenon
      <3> QED
        BY <3>2
    <2> HIDE DEF w, v
    <2>5. w \o v \in Seq({o, a, b, d, e})
      <3>1. w \in Seq({o, a, b, d, e}) /\ v \in Seq({o, a, b, d, e})
        BY <2>4
      <3> QED
        BY <3>1, Joins
    <2>6. \A j \in 1 .. Len(w \o v) : Plain((w \o v)[j])
      BY <2>2, <2>5, SMTT(30)
    <2> QED
      BY <1>1, <1>b, <1>p, <2>3, <2>6
  <1>5. ASSUME NEW t \in Serves[c], NEW s \in Targets, TransitionCall(c, t, s) PROVE HealInv(c)'
    <2> DEFINE a == Instruction("status", t, s)
               b == Instruction("commit", t, "")
    <2>1. s \in TaskStatuses \ {"queued"}
      BY <1>5, TaskTable DEF TransitionCall
    <2>2. Plain(a) /\ Plain(b)
      BY <1>0, <1>k, <1>t, <2>1
    <2>3. Begin(c, <<a, b>>)
      BY <1>5 DEF TransitionCall
    <2> HIDE DEF a, b
    <2>4. \A j \in 1 .. Len(<<a, b>>) : Plain(<<a, b>>[j])
      BY <2>2
    <2> QED
      BY <1>1, <1>b, <1>p, <2>3, <2>4
  <1>6. CASE QueueCall(c)
    <2> DEFINE a == Instruction("queue", CHOOSE t \in Tasks : TRUE, "")
    <2>1. a.do = "queue" /\ Begin(c, <<a>>)
      BY <1>6 DEF QueueCall, Instruction
    <2> HIDE DEF a
    <2>2. Asking(<<a>>)
      BY <2>1 DEF Asking
    <2> QED
      BY <1>1, <1>b, <1>p, <2>1, <2>2
  <1> QED
    BY <1>2, <1>3, <1>4, <1>5, <1>6 DEF Call

LEMMA StepHeals ==
    ASSUME NEW c \in Sessions, TypeInv, TypeInv', HealInv(c), Step(c)
    PROVE  HealInv(c)'
  <1>0. ASSUME ~ Quiet(c)
        PROVE  /\ prog[c] \in Seq(Instructions) /\ prog[c] # <<>> /\ 1 \in 1 .. Len(prog[c])
               /\ Current(c) = prog[c][1] /\ Head(prog[c]) = prog[c][1]
               /\ Current(c).task \in Tasks /\ answer = <<>>
    BY <1>0, CurrentTyped, BusyIsSilent DEF Current
  <1>1. ASSUME NEW p, Run(c, p) PROVE prog'[c] = p
    BY <1>1 DEF Run, TypeInv, TypeOK
  <1>2. ASSUME NEW kinds, At(c, kinds)
        PROVE  /\ ~ Quiet(c) /\ prog[c][1].do \in kinds
               /\ kinds \cap Writes = {} => phase[c] = "load"
    BY <1>0, <1>2 DEF At, Current, TypeInv, WritesUnderWay
  <1>4. CASE CheckDeps(c) \/ CheckStatus(c) \/ CommitState(c)
    <2>1. /\ At(c, {"deps?", "ready?", "active?", "commit"})
          /\ Continue(c) \/ Abort(c)
      BY <1>4 DEF CheckDeps, CheckStatus, CommitState, At
    <2>2. UNCHANGED <<file, row, phase, answer>>
      BY <1>4 DEF CheckDeps, CheckStatus, CommitState
    <2>3. ~ Quiet(c) /\ phase[c] = "load"
          /\ prog[c][1].do \in {"deps?", "ready?", "active?", "commit"}
      BY <1>2, <2>1 DEF Writes
    <2>4. prog'[c] \in {<<>>, Tail(prog[c])}
      BY <1>1, <2>1 DEF Continue, Abort
    <2> QED
      BY <1>0, <2>2, <2>3, <2>4, ShrinkHeals
  <1>5. CASE Load(c)
    <2>1. At(c, Writes) /\ ~ Quiet(c) /\ prog[c][1].do \in Writes /\ phase[c] = "load"
          /\ UNCHANGED <<file, row, listed, answer>>
      BY <1>2, <1>5 DEF Load
    <2>2. CASE MayWrite(Current(c), file[Current(c).task])
      <3>1. UNCHANGED prog /\ held'[c] = file[Current(c).task]
        BY <1>5, <2>2 DEF Load, TypeInv, TypeOK
      <3> QED
        BY <2>1, <3>1, HoldHeals
    <2>3. CASE ~ MayWrite(Current(c), file[Current(c).task])
      <3>1. /\ prog[c][1].do \in {"status", "try"}
            /\ ~ CanTransition("task", file[prog[c][1].task].status, prog[c][1].to)
        BY <1>0, <2>1, <2>3 DEF MayWrite
      <3>2. Fail(c) /\ UNCHANGED phase
        BY <1>5, <2>3 DEF Load
      <3>3. prog'[c] = IF prog[c][1].do = "try" THEN Tail(prog[c]) ELSE <<>>
        BY <1>0, <1>1, <2>1, <3>1, <3>2 DEF Fail, Continue, Abort
      <3>4. ASSUME prog[c][1].do = "try" PROVE file[prog[c][1].task].status # "queued"
        <4>1. prog[c][1].to = "ready"
          BY <1>0, <2>1, <3>4 DEF HealInv, Ordered
        <4>2. CanTransition("task", "queued", "ready")
          <5>1. AllowedTransitions("task") = TaskEdges
            BY DEF AllowedTransitions
          <5>2. <<"queued", "ready">> \in TaskEdges /\ <<"ready", "active">> \in TaskEdges
            BY DEF TaskEdges
          <5>3. {"queued", "ready"} \subseteq KnownStates("task")
            BY <5>1, <5>2 DEF KnownStates
          <5>4. ~ IsTerminalState("task", "queued")
            BY DEF IsTerminalState, TerminalStates
          <5> QED
            BY <5>1, <5>2, <5>3, <5>4 DEF CanTransition
        <4> QED
          BY <3>1, <4>1, <4>2
      <3> QED
        BY <1>0, <2>1, <3>1, <3>2, <3>3, <3>4, ShrinkHeals
    <2> QED
      BY <2>2, <2>3
  <1>6. CASE Verify(c)
    <2>1. At(c, Writes) /\ ~ Quiet(c) /\ phase[c] = "verify"
          /\ UNCHANGED <<file, row, listed, answer>>
      BY <1>2, <1>6 DEF Verify
    <2>2. file[Current(c).task] = held[c]
      BY <1>0, <2>1 DEF HealInv, HoldsFile
    <2>3. UNCHANGED prog /\ held'[c] = file[Current(c).task]
      BY <1>6, <2>2 DEF Verify
    <2> QED
      BY <2>1, <2>3, HoldHeals
  <1> QED
    BY <1>4, <1>5, <1>6, RenameHeals, UpsertHeals, HookHeals, QueueHealsRows, AnswerHeals,
       ResumeHeals DEF Step

LEMMA HealingHolds == ASSUME NEW c, Sessions = {c} PROVE Spec => [](TypeInv /\ HealInv(c))
  <1>0. c \in Sessions
    OBVIOUS
  <1>1. Init => HealInv(c)
    <2> SUFFICES ASSUME Init PROVE HealInv(c)
      OBVIOUS
    <2>1. /\ \A t \in Tasks : file[t].status \in {"queued", "ready"} /\ row[t] = file[t].status
          /\ prog[c] = <<>> /\ phase[c] = "load" /\ answer = <<>>
      BY DEF Init, New, FileStatus
    <2>2. 1 .. Len(<<>>) = {}
      OBVIOUS
    <2> QED
      BY <2>1, <2>2 DEF HealInv, Ordered, Busy, Working, HoldsFile, First, QueuedRows, RowsTell, Healed
  <1>2. TypeInv /\ TypeInv' /\ HealInv(c) /\ [Next]_vars => HealInv(c)'
    <2> SUFFICES ASSUME TypeInv, TypeInv', HealInv(c), [Next]_vars PROVE HealInv(c)'
      OBVIOUS
    <2>1. CASE HandCommit
      <3>1. UNCHANGED <<file, row, prog, phase, held, listed>> /\ answer' = <<>>
        BY <2>1 DEF HandCommit
      <3>2. Busy(c)'
        <4>1. \A u \in Tasks : Blocked(u)' = Blocked(u)
          BY <3>1 DEF Blocked, FileStatus, DepsMet, Satisfied
        <4>2. Answering(prog[c]) => Answering(prog[c])'
          BY <3>1, <4>1 DEF Answering
        <4>3. FileStatus' = FileStatus
          BY <3>1 DEF FileStatus
        <4> QED
          BY <3>1, <4>2, <4>3 DEF HealInv, Busy, Working, Resuming, Asking
      <3>3. (Resuming(c) \/ RowsTell(c))'
        BY <3>1 DEF HealInv, Resuming, RowsTell, First, FileStatus
      <3>4. Ordered(prog[c])' /\ HoldsFile(c)' /\ QueuedRows' /\ Healed(c)'
        BY <3>1 DEF HealInv, Ordered, HoldsFile, First, QueuedRows, Healed
      <3> QED
        BY <3>2, <3>3, <3>4 DEF HealInv
    <2>2. CASE UNCHANGED vars
      <3>1. UNCHANGED <<file, row, prog, phase, held, listed, answer>>
        BY <2>2 DEF vars
      <3>2. HoldsFile(c)'
        BY <3>1 DEF HealInv, HoldsFile, First
      <3> QED
        BY <3>1, <3>2, HealReads
    <2> QED
      BY <1>0, <2>1, <2>2, CallHeals, StepHeals, CrashHeals DEF Next
  <1> QED
    BY <1>1, <1>2, TypesHold, PTL DEF Spec

(* A single process may lose a wake-up by dying between the write and the   *)
(* hook, as often as it likes; once a queue inspection has answered, what  *)
(* is still queued waits for a task that has not ended.  This rests on the *)
(* rebuild: the inspection looks at rows, and after it the rows of all     *)
(* tasks that have ended say so.                                           *)
THEOREM QueueMakesUp == ASSUME NEW c, Sessions = {c} PROVE Spec => []QueueHeals
  <1>1. HealInv(c) => QueueHeals
    BY DEF HealInv, Healed, QueueHeals, Blocked
  <1> QED
    BY <1>1, HealingHolds, PTL

-----------------------------------------------------------------------------
(* One session whose process does not die. *)
(* What a call does to a board b: [status, row, dirty, answer]. *)

Refreshed(b, t, s) == [u \in Tasks |-> IF u = t THEN s ELSE b.row[u]]
Woken(b, t, s) ==
    {u \in Tasks : /\ Ended(s) /\ t \in DependsOn[u]
                   /\ Refreshed(b, t, s)[u] \in {"queued", "blocked"}
                   /\ \A d \in DependsOn[u] : Ended(Refreshed(b, t, s)[d])}
Moved(b, t, s) ==
    [u \in Tasks |-> IF u = t THEN s ELSE IF u \in Woken(b, t, s) THEN "ready" ELSE b.status[u]]

(* The tasks a queue inspection looks at, and those of them it moves. *)
Listed(b) == {u \in Tasks : b.row[u] = "queued" /\ \A d \in DependsOn[u] : Ended(b.row[d])}
Promotions(b) == {u \in Listed(b) : CanTransition("task", b.status[u], "ready")}
Promote(b, f) == [u \in Tasks |-> IF u \in Promotions(b) THEN "ready" ELSE f[u]]

(* The calls about one task, and when the board allows them. *)
MayMove(b, k, t, s) ==
    \/ /\ k = "claim" /\ "claim" \in Ops /\ ~ b.dirty
       /\ b.status[t] = "ready" /\ s = "active"
    \/ /\ k = "finish" /\ "finish" \in Ops
       /\ b.status[t] \in {"ready", "active"} /\ s \in {"done", "needs-review"}
    \/ /\ k = "refused" /\ "finish" \in Ops
       /\ b.status[t] = "ready" /\ s = "active"
    \/ /\ k = "transition" /\ "transition" \in Ops
       /\ <<b.status[t], s>> # <<"queued", "ready">>
       /\ CanTransition("task", b.status[t], s)

(* A board between calls: a row lags behind its file by the hook's promotion *)
(* at most, and what has started had its dependencies met.                 *)
Sound(b) ==
    /\ b.status \in [Tasks -> TaskStatuses] /\ b.row \in [Tasks -> TaskStatuses]
    /\ \A t \in Tasks : \/ b.row[t] = b.status[t]
                        \/ b.row[t] \in {"queued", "blocked"} /\ b.status[t] = "ready"
    /\ \A t \in Tasks : b.status[t] \in Started => \A d \in DependsOn[t] : Ended(b.status[d])

-----------------------------------------------------------------------------
(* The steps of TaskBoard. *)

LEMMA SameTable ==
    ASSUME NEW a, NEW z
    PROVE  /\ Board!CanTransition("task", a, z) <=> CanTransition("task", a, z)
           /\ Board!IsTaskDependencySatisfied(a) <=> Ended(a)
  <1>1. Board!IsTaskDependencySatisfied(a) <=> Ended(a)
    BY DEF Board!IsTaskDependencySatisfied, Board!DependencyTerminalStates, Ended,
           IsTaskDependencySatisfied, DependencyTerminalStates
  <1>2. Board!KnownStates("task") = KnownStates("task")
    BY DEF Board!KnownStates, KnownStates, Board!EntryState, EntryState,
           Board!EntryStates, EntryStates, Board!AllowedTransitions, AllowedTransitions,
           Board!TaskEdges, TaskEdges, Board!TerminalStates, TerminalStates
  <1>3. Board!AllowedTransitions("task") = AllowedTransitions("task")
    BY DEF Board!AllowedTransitions, AllowedTransitions, Board!TaskEdges, TaskEdges
  <1>4. Board!IsTerminalState("task", a) <=> IsTerminalState("task", a)
    BY DEF Board!IsTerminalState, IsTerminalState, Board!TerminalStates, TerminalStates
  <1> QED
    BY <1>1, <1>2, <1>3, <1>4 DEF Board!CanTransition, CanTransition

(* UpdateStatus of one task. *)
LEMMA BoardUpdates ==
    ASSUME NEW t \in Tasks, NEW s,
           before'.status = Moved(before, t, s), before'.row = Refreshed(before, t, s)
    PROVE  Board!UpdateStatus({t}, s)
  <1>1. Board!Upserted({t}, s) = Refreshed(before, t, s)
    BY DEF Board!Upserted, Refreshed
  <1>2. Board!UpsertedDeps({t}) = DependsOn
    BY HandlersAssumption DEF Board!UpsertedDeps
  <1>3. Board!Unblocked({t}, s) = Woken(before, t, s)
    <2>1. CASE ~ Ended(s)
      BY <2>1, SameTable DEF Board!Unblocked, Woken
    <2>2. CASE Ended(s)
      <3>1. Board!Unblocked({t}, s) =
               {u \in Tasks : /\ DependsOn[u] \cap {t} # {}
                              /\ Refreshed(before, t, s)[u] \in {"queued", "blocked"}
                              /\ Board!DepsMet(u, Refreshed(before, t, s), DependsOn)}
        BY <1>1, <1>2, <2>2, SameTable DEF Board!Unblocked
      <3>2. \A u \in Tasks : Board!DepsMet(u, Refreshed(before, t, s), DependsOn)
               <=> \A d \in DependsOn[u] : Ended(Refreshed(before, t, s)[d])
        BY SameTable DEF Board!DepsMet, Board!Satisfied
      <3> QED
        BY <2>2, <3>1, <3>2 DEF Woken
    <2> QED
      BY <2>1, <2>2
  <1> QED
    BY <1>1, <1>2, <1>3 DEF Board!UpdateStatus, Moved
(* A call about one task, which the board allows, is a step of the board.  *)
LEMMA BoardCalls ==
    ASSUME NEW k, NEW t \in Tasks, NEW s, Sound(before), MayMove(before, k, t, s),
           before'.status = Moved(before, t, s), before'.row = Refreshed(before, t, s),
           before'.answer = <<>>, before'.dirty \in BOOLEAN,
           k \in {"claim", "refused"} => before'.dirty = TRUE
    PROVE  Board!Next
  <1>1. Board!UpdateStatus({t}, s)
    BY BoardUpdates
  <1>2. Board!Touches({t}) \/ k \notin {"claim", "refused"}
    BY DEF Board!Touches
  <1>3. Board!Commit
    BY DEF Board!Commit
  <1>4. CASE k = "claim"
    <2>1. before.status[t] = "ready" /\ s = "active" /\ "claim" \in Ops /\ ~ before.dirty
      BY <1>4 DEF MayMove
    <2>2. Board!DepsMet(t, before.status, DependsOn)
      <3>1. \A d \in DependsOn[t] : Ended(before.status[d])
        BY <2>1 DEF Sound, Started
      <3> QED
        BY <3>1, SameTable DEF Board!DepsMet, Board!Satisfied
    <2>3. Board!Claim(t)
      BY <1>1, <1>2, <1>4, <2>1, <2>2 DEF Board!Claim, Board!DispatchTask
    <2> QED
      BY <2>3 DEF Board!Next, Board!ServerNext
  <1>5. CASE k = "finish"
    <2>1. s \in {"done", "needs-review"} /\ before.status[t] \in {"ready", "active"}
          /\ "finish" \in Ops
      BY <1>5 DEF MayMove
    <2>2. Board!Finish(t, s) /\ s \in Board!TaskStatuses
      BY <1>1, <1>3, <2>1 DEF Board!Finish, Board!CompleteTask, Board!TaskStatuses
    <2> QED
      BY <2>2 DEF Board!Next, Board!ServerNext
  <1>6. CASE k = "refused"
    <2>1. s = "active" /\ before.status[t] = "ready" /\ "finish" \in Ops
      BY <1>6 DEF MayMove
    <2>2. Board!FinishRefused(t)
      BY <1>1, <1>2, <1>6, <2>1 DEF Board!FinishRefused
    <2> QED
      BY <2>2 DEF Board!Next, Board!ServerNext
  <1>7. CASE k = "transition"
    <2>1. /\ <<before.status[t], s>> # <<"queued", "ready">> /\ "transition" \in Ops
          /\ CanTransition("task", before.status[t], s)
      BY <1>7 DEF MayMove
    <2>2. s \in TaskStatuses
      BY <2>1, TaskTable
    <2>3. Board!Transition(t, s) /\ s \in Board!TaskStatuses
      BY <1>1, <1>3, <2>1, <2>2, SameTable DEF Board!Transition, Board!TaskStatuses, TaskStatuses
    <2> QED
      BY <2>3 DEF Board!Next, Board!ServerNext
  <1> QED
    BY <1>4, <1>5, <1>6, <1>7 DEF MayMove

(* So is a queue inspection. *)
LEMMA BoardQueues ==
    ASSUME "queue" \in Ops, before.dirty \in BOOLEAN,
           before'.status = Promote(before, before.status),
           before'.row = Promote(before, before.row),
           before'.dirty = (before.dirty \/ Promotions(before) # {}),
           before'.answer = << {t \in Tasks : before'.row[t] = "ready"} >>
    PROVE  Board!Next
  <1> DEFINE Q == Promotions(before)
  <1>1. Board!Promotable(Tasks) = Q
    <2>1. \A u \in Tasks : Board!DepsMet(u, before.row, DependsOn)
                             <=> \A d \in DependsOn[u] : Ended(before.row[d])
      BY SameTable DEF Board!DepsMet, Board!Satisfied
    <2>2. Board!Promotable(Tasks) =
             {u \in Tasks : /\ before.row[u] = "queued"
                            /\ Board!DepsMet(u, before.row, DependsOn)
                            /\ Board!CanTransition("task", before.status[u], "ready")}
      BY DEF Board!Promotable, Board!ListStatus, Board!ListDeps
    <2> QED
      BY <2>1, <2>2, SameTable DEF Promotions, Listed
  <1>2. Board!Unblocked(Q, "ready") = {}
    <2>1. ~ Ended("ready")
      BY DEF Ended, IsTaskDependencySatisfied, DependencyTerminalStates
    <2> QED
      BY <2>1, SameTable DEF Board!Unblocked
  <1>3. Board!UpsertedDeps(Q) = DependsOn
    BY HandlersAssumption DEF Board!UpsertedDeps
  <1>4. Board!Upserted(Q, "ready") = Promote(before, before.row)
    BY DEF Board!Upserted, Promote
  <1>5. Board!UpdateStatus(Q, "ready")
    BY <1>2, <1>3, <1>4 DEF Board!UpdateStatus, Promote
  <1>6. Board!Touches(Q)
    BY DEF Board!Touches
  <1>7. Board!WorkQueue
    BY <1>1, <1>5, <1>6 DEF Board!WorkQueue, Board!ListStatus
  <1> QED
    BY <1>7 DEF Board!Next, Board!ServerNext

-----------------------------------------------------------------------------
(* Boards stay sound. *)

LEMMA MoveKeepsSound ==
    ASSUME NEW b, NEW z, NEW k, NEW t \in Tasks, NEW s, Sound(b), MayMove(b, k, t, s),
           z.status = Moved(b, t, s), z.row = Refreshed(b, t, s)
    PROVE  Sound(z)
  <1>0. /\ ~ Ended("ready") /\ ~ Ended("active") /\ ~ Ended("queued") /\ ~ Ended("blocked")
        /\ Ended("done") /\ ~ Ended("needs-review")
    BY DEF Ended, IsTaskDependencySatisfied, DependencyTerminalStates
  <1>1. ~ Ended(b.status[t]) /\ s \in TaskStatuses
        /\ (s \in Started => b.status[t] \in Started)
    <2>1. CASE k # "transition"
      BY <1>0, <2>1 DEF MayMove, TaskStatuses, Started
    <2>2. CASE k = "transition"
      <3>1. /\ CanTransition("task", b.status[t], s)
            /\ <<b.status[t], s>> # <<"queued", "ready">>
        BY <2>2 DEF MayMove
      <3>2. ~ Ended(b.status[t]) /\ s \in TaskStatuses /\ b.status[t] \in TaskStatuses
        BY <3>1, TaskTable DEF Ended
      <3>3. <<b.status[t], s>> \in TaskEdges
        BY <3>1 DEF CanTransition, AllowedTransitions
      <3>4. b.status[t] = "queued" => s \notin Started
        BY <3>1, <3>3 DEF TaskEdges, Started
      <3>5. b.status[t] \in Started \/ b.status[t] = "queued"
        BY <3>2 DEF TaskStatuses, Started, Ended, IsTaskDependencySatisfied, DependencyTerminalStates
      <3> QED
        BY <3>2, <3>4, <3>5
    <2> QED
      BY <2>1, <2>2
  <1>2. \A u \in Tasks : DependsOn[u] \subseteq Tasks
    BY HandlersAssumption
  <1>3. ASSUME NEW u \in Tasks
        PROVE  /\ z.row[u] = IF u = t THEN s ELSE b.row[u]
               /\ z.status[u] = IF u = t THEN s
                                ELSE IF u \in Woken(b, t, s) THEN "ready" ELSE b.status[u]
    BY DEF Refreshed, Moved
  <1>4. z.row \in [Tasks -> TaskStatuses] /\ z.status \in [Tasks -> TaskStatuses]
    BY <1>1 DEF Refreshed, Moved, Sound, TaskStatuses
  <1>5. ASSUME NEW u \in Woken(b, t, s), u # t
        PROVE  /\ u \in Tasks /\ b.row[u] \in {"queued", "blocked"} /\ ~ Ended(b.status[u])
               /\ \A d \in DependsOn[u] : Ended(z.row[d])
    <2>1. u \in Tasks /\ b.row[u] \in {"queued", "blocked"}
      BY <1>5 DEF Woken, Refreshed
    <2>2. ~ Ended(b.status[u])
      BY <1>0, <2>1 DEF Sound
    <2> QED
      BY <2>1, <2>2 DEF Woken
  <1>6. \A u \in Tasks : Ended(b.status[u]) => Ended(z.status[u])
    BY <1>1, <1>3, <1>5
  <1>7. \A u \in Tasks : \/ z.row[u] = z.status[u]
                         \/ z.row[u] \in {"queued", "blocked"} /\ z.status[u] = "ready"
    BY <1>3, <1>5 DEF Sound
  <1>8. \A u \in Tasks : Ended(z.row[u]) => Ended(z.status[u])
    BY <1>0, <1>7
  <1>9. ASSUME NEW u \in Tasks, z.status[u] \in Started, NEW d \in DependsOn[u]
        PROVE  Ended(z.status[d])
    <2>1. CASE u # t /\ u \in Woken(b, t, s)
      BY <1>2, <1>5, <1>8, <1>9, <2>1
    <2>2. CASE u = t \/ u \notin Woken(b, t, s)
      <3>1. b.status[u] \in Started
        BY <1>1, <1>3, <1>9, <2>2
      <3> QED
        BY <1>2, <1>6, <1>9, <3>1 DEF Sound
    <2> QED
      BY <2>1, <2>2
  <1> QED
    BY <1>4, <1>7, <1>9 DEF Sound

LEMMA QueueKeepsSound ==
    ASSUME NEW b, NEW z, Sound(b),
           z.status = Promote(b, b.status), z.row = Promote(b, b.row)
    PROVE  Sound(z)
  <1>0. ~ Ended("ready") /\ ~ Ended("queued") /\ ~ Ended("blocked")
    BY DEF Ended, IsTaskDependencySatisfied, DependencyTerminalStates
  <1>1. \A u \in Tasks : DependsOn[u] \subseteq Tasks
    BY HandlersAssumption
  <1>2. ASSUME NEW u \in Tasks
        PROVE  /\ z.row[u] = IF u \in Promotions(b) THEN "ready" ELSE b.row[u]
               /\ z.status[u] = IF u \in Promotions(b) THEN "ready" ELSE b.status[u]
    BY DEF Promote
  <1>3. z.row \in [Tasks -> TaskStatuses] /\ z.status \in [Tasks -> TaskStatuses]
    BY DEF Promote, Sound, TaskStatuses
  <1>4. ASSUME NEW u \in Promotions(b)
        PROVE  /\ u \in Tasks /\ ~ Ended(b.status[u])
               /\ \A d \in DependsOn[u] : Ended(b.row[d])
    <2>1. u \in Listed(b) /\ CanTransition("task", b.status[u], "ready")
      BY DEF Promotions
    <2> QED
      BY <2>1, TaskTable DEF Listed, Ended
  <1>5. \A u \in Tasks : Ended(b.status[u]) => Ended(z.status[u])
    BY <1>2, <1>4
  <1>6. \A u \in Tasks : \/ z.row[u] = z.status[u]
                         \/ z.row[u] \in {"queued", "blocked"} /\ z.status[u] = "ready"
    BY <1>2 DEF Sound
  <1>7. \A u \in Tasks : Ended(b.row[u]) => Ended(b.status[u])
    BY <1>0 DEF Sound
  <1>8. ASSUME NEW u \in Tasks, z.status[u] \in Started, NEW d \in DependsOn[u]
        PROVE  Ended(z.status[d])
    <2>1. CASE u \in Promotions(b)
      BY <1>1, <1>4, <1>5, <1>7, <1>8, <2>1
    <2>2. CASE u \notin Promotions(b)
      BY <1>1, <1>2, <1>5, <1>8, <2>2 DEF Sound
    <2> QED
      BY <2>1, <2>2
  <1> QED
    BY <1>3, <1>6, <1>8 DEF Sound

-----------------------------------------------------------------------------
(* How far the one session has come with the call that began at board b. *)

Kinds4 == {"claim", "finish", "refused", "transition"}

(* Before the write that moves task t to s, the programs that may be left, *)
(* by the status the file of t holds now.                                  *)
EarlyProgram(p, now, b, k, t, s) ==
    LET move == Instruction("status", t, s)
        start == Instruction("status", t, "active")
        started == Instruction("upsert", t, "active")
        ready == Instruction("ready?", t, "")
        met == Instruction("deps?", t, "")
        active == Instruction("active?", t, "")
        claim == Instruction("claim", t, "")
        complete == Instruction("complete", t, "")
        commit == Instruction("commit", t, "")
    IN  \/ /\ k = "claim" /\ now = "ready"
           /\ p \in {<<ready, met, move, claim>>, <<met, move, claim>>, <<move, claim>>}
        \/ k = "finish" /\ now = "ready" /\ p = <<start, active, move, complete, commit>>
        \/ /\ k = "finish" /\ now = "active"
           /\ p \in {<<started, active, move, complete, commit>>,
                     <<active, move, complete, commit>>, <<move, complete, commit>>}
        \/ k = "refused" /\ now = "ready" /\ p = <<move>>
        \/ k = "transition" /\ now = b.status[t] /\ p = <<move, commit>>

Early(c, b, k, t, s) ==
    /\ answer = <<>>
    /\ \A u \in Tasks \ {t} : file[u].status = b.status[u] /\ row[u] = b.row[u]
    /\ EarlyProgram(prog[c], file[t].status, b, k, t, s)

(* After that write: the row, the hook and what it promotes, and the rest. *)
LateProgram(p, b, k, t, s) ==
    \A j \in 1 .. Len(p) :
        /\ p[j].do \in {"upsert", "hook", "promote", "claim", "complete", "commit"}
        /\ p[j].do = "upsert" => j = 1
        /\ p[j].do = "hook" => Ended(s) /\ \A i \in 1 .. j - 1 : p[i].do = "upsert"
        /\ p[j].do = "promote" => p[j].task \in Woken(b, t, s)
        /\ p[j].do \notin {"promote"} => p[j].task = t
        /\ p[j].do = "commit" => k \in {"finish", "transition"}
Hooking(p) == \E j \in 1 .. Len(p) : p[j].do = "hook"
Promoting(p, u) == \E j \in 1 .. Len(p) : p[j].do = "promote" /\ p[j].task = u

Late(c, b, k, t, s) ==
    /\ answer = <<>>
    /\ LateProgram(prog[c], b, k, t, s)
    /\ file[t].status = s
    /\ row[t] = s \/ First(prog[c], {"upsert"})
    /\ \A u \in Tasks \ {t} :
          /\ row[u] = b.row[u]
          /\ \/ file[u].status = b.status[u]
             \/ ~ Hooking(prog[c]) /\ u \in Woken(b, t, s) /\ file[u].status = "ready"
          /\ u \in Woken(b, t, s) =>
                file[u].status = "ready" \/ Hooking(prog[c]) \/ Promoting(prog[c], u)
    /\ k \in {"claim", "refused"} => dirty = TRUE

(* A queue inspection: the rows are still to be listed, or they have been. *)
Asked(c, b) ==
    /\ "queue" \in Ops /\ Asking(prog[c])
    /\ FileStatus = b.status /\ row = b.row /\ dirty = b.dirty

Queueing(c, b) ==
    /\ "queue" \in Ops
    /\ \E j \in 1 .. Len(prog[c]) : prog[c][j].do = "answer"
    /\ \A j \in 1 .. Len(prog[c]) :
          /\ prog[c][j].do = "try" => prog[c][j].task \in Listed(b)
          /\ prog[c][j].do = "upsert" => prog[c][j].task \in Promotions(b)
    /\ \A u \in Tasks \ Promotions(b) : file[u].status = b.status[u] /\ row[u] = b.row[u]
    /\ \A u \in Promotions(b) :
          \/ /\ file[u].status = b.status[u]
             /\ \E j \in 1 .. Len(prog[c]) : prog[c][j].do = "try" /\ prog[c][j].task = u
          \/ /\ file[u].status = "ready"
             /\ row[u] = "ready" \/ (First(prog[c], {"upsert"}) /\ prog[c][1].task = u)
    /\ \/ dirty = TRUE /\ (b.dirty \/ Promotions(b) # {})
       \/ dirty = b.dirty /\ \A u \in Promotions(b) : file[u].status = b.status[u]
    /\ phase[c] # "load" => CanTransition("task", file[prog[c][1].task].status, "ready")

(* The board when the inspection has answered. *)
Queued(b) ==
    /\ "queue" \in Ops
    /\ FileStatus = Promote(b, b.status) /\ row = Promote(b, b.row)
    /\ dirty = (b.dirty \/ Promotions(b) # {})
    /\ answer = << {t \in Tasks : row[t] = "ready"} >>

Serving(c, b) ==
    \/ \E k \in Kinds4, t \in Tasks, s \in TaskStatuses :
          MayMove(b, k, t, s) /\ (Early(c, b, k, t, s) \/ Late(c, b, k, t, s))
    \/ Asked(c, b) \/ Queueing(c, b)

-----------------------------------------------------------------------------
(* The end of a call about one task. *)

LEMMA WokenIs ==
    ASSUME NEW b, NEW t \in Tasks, NEW s, NEW u \in Woken(b, t, s)
    PROVE  u \in Tasks /\ u # t /\ Ended(s)
  BY DEF Woken, Refreshed, Ended, IsTaskDependencySatisfied, DependencyTerminalStates

LEMMA LateEnds ==
    ASSUME NEW c \in Sessions, TypeInv', NEW b, NEW k, NEW t \in Tasks, NEW s,
           Late(c, b, k, t, s)', prog'[c] = <<>>
    PROVE  /\ FileStatus' = Moved(b, t, s) /\ row' = Refreshed(b, t, s) /\ answer' = <<>>
           /\ k \in {"claim", "refused"} => dirty' = TRUE
  <1>1. 1 .. Len(<<>>) = {}
    OBVIOUS
  <1>2. ~ First(<<>>, {"upsert"}) /\ ~ Hooking(<<>>) /\ \A u : ~ Promoting(<<>>, u)
    BY <1>1 DEF First, Hooking, Promoting
  <1>3. row' = [u \in Tasks |-> row'[u]]
    BY DEF TypeInv, TypeOK
  <1>4. \A u \in Tasks : row'[u] = IF u = t THEN s ELSE b.row[u]
    BY <1>2 DEF Late
  <1>5. \A u \in Tasks : file'[u].status = IF u = t THEN s
                                           ELSE IF u \in Woken(b, t, s) THEN "ready" ELSE b.status[u]
    BY <1>2 DEF Late
  <1>6. answer' = <<>> /\ (k \in {"claim", "refused"} => dirty' = TRUE)
    BY DEF Late
  <1> QED
    BY <1>3, <1>4, <1>5, <1>6 DEF FileStatus, Moved, Refreshed

LEMMA LateTail ==
    ASSUME NEW b, NEW k, NEW t, NEW s, NEW p \in Seq(Instructions), p # <<>>,
           LateProgram(p, b, k, t, s)
    PROVE  /\ LateProgram(Tail(p), b, k, t, s) /\ ~ First(Tail(p), {"upsert"})
           /\ Hooking(Tail(p)) => Hooking(p) /\ p[1].do = "upsert"
           /\ Hooking(p) => Hooking(Tail(p)) \/ p[1].do = "hook"
           /\ \A u : Promoting(p, u) => Promoting(Tail(p), u) \/ (p[1].do = "promote" /\ p[1].task = u)
           /\ p[1].do \in {"hook", "promote", "claim", "complete", "commit"} => ~ Hooking(Tail(p))
  <1>1. /\ Len(Tail(p)) = Len(p) - 1 /\ Len(p) \in Nat \ {0} /\ Tail(p) \in Seq(Instructions)
        /\ \A j \in 1 .. Len(p) - 1 : Tail(p)[j] = p[j + 1]
    BY Tails
  <1>2. \A j \in 1 .. Len(Tail(p)) : Tail(p)[j] = p[j + 1] /\ j + 1 \in 1 .. Len(p) /\ j + 1 # 1
    BY <1>1
  <1>3. \A j \in 1 .. Len(p) : j # 1 => j - 1 \in 1 .. Len(Tail(p)) /\ Tail(p)[j - 1] = p[j]
    <2> SUFFICES ASSUME NEW j \in 1 .. Len(p), j # 1
                 PROVE  j - 1 \in 1 .. Len(Tail(p)) /\ Tail(p)[j - 1] = p[j]
      OBVIOUS
    <2>1. j - 1 \in 1 .. Len(p) - 1 /\ (j - 1) + 1 = j
      BY <1>1
    <2> QED
      BY <1>1, <2>1
  <1>4. \A j \in 1 .. Len(Tail(p)) : 1 \in 1 .. (j + 1) - 1
    <2>1. \A j \in Nat \ {0} : 1 \in 1 .. (j + 1) - 1
      OBVIOUS
    <2> QED
      BY <1>1, <2>1
  <1>5. ASSUME NEW j \in 1 .. Len(Tail(p)), Tail(p)[j].do = "hook"
        PROVE  p[1].do = "upsert" /\ \A i \in 1 .. j - 1 : Tail(p)[i].do = "upsert"
    <2>1. p[j + 1].do = "hook" /\ j + 1 \in 1 .. Len(p)
      BY <1>2, <1>5
    <2>2. \A i \in 1 .. (j + 1) - 1 : p[i].do = "upsert"
      BY <2>1 DEF LateProgram
    <2>3. p[1].do = "upsert"
      BY <1>4, <2>2
    <2>4. ASSUME NEW i \in 1 .. j - 1 PROVE Tail(p)[i].do = "upsert"
      <3>1. i + 1 \in 1 .. (j + 1) - 1 /\ i \in 1 .. Len(Tail(p))
        BY <1>1
      <3> QED
        BY <1>2, <2>2, <3>1
    <2> QED
      BY <2>3, <2>4
  <1>6. LateProgram(Tail(p), b, k, t, s)
    BY <1>2, <1>5 DEF LateProgram
  <1>7. ~ First(Tail(p), {"upsert"})
    <2>1. Tail(p) # <<>> => 1 \in 1 .. Len(Tail(p))
      BY <1>1
    <2> QED
      BY <1>2, <2>1 DEF First, LateProgram
  <1>8. Hooking(Tail(p)) => Hooking(p) /\ p[1].do = "upsert"
    BY <1>2, <1>5 DEF Hooking
  <1>9. Hooking(p) => Hooking(Tail(p)) \/ p[1].do = "hook"
    BY <1>3 DEF Hooking
  <1>10. ASSUME NEW u, Promoting(p, u)
         PROVE  Promoting(Tail(p), u) \/ (p[1].do = "promote" /\ p[1].task = u)
    BY <1>3, <1>10 DEF Promoting
  <1> QED
    BY <1>6, <1>7, <1>8, <1>9, <1>10

(* The instruction at hand. *)
LEMMA LateHead ==
    ASSUME NEW c \in Sessions, TypeInv, NEW b, NEW k, NEW t, NEW s,
           Late(c, b, k, t, s), prog[c] # <<>>
    PROVE  /\ prog[c] \in Seq(Instructions) /\ 1 \in 1 .. Len(prog[c])
           /\ Current(c) = prog[c][1] /\ Head(prog[c]) = prog[c][1] /\ prog[c][1] \in Instructions
           /\ LateProgram(prog[c], b, k, t, s)
           /\ prog[c][1].do \in {"upsert", "hook", "promote", "claim", "complete", "commit"}
           /\ prog[c][1].do = "promote" => prog[c][1].task \in Woken(b, t, s)
           /\ prog[c][1].do # "promote" => prog[c][1].task = t
           /\ prog[c][1].do = "commit" => k \in {"finish", "transition"}
           /\ prog[c][1].do = "hook" => Ended(s)
           /\ \A p : Run(c, p) => prog'[c] = p
  <1>1. /\ prog[c] \in Seq(Instructions) /\ 1 \in 1 .. Len(prog[c])
        /\ Current(c) = prog[c][1] /\ Head(prog[c]) = prog[c][1] /\ prog[c][1] \in Instructions
    BY CurrentTyped DEF Quiet, Current
  <1>2. \A p : Run(c, p) => prog'[c] = p
    BY DEF Run, TypeInv, TypeOK
  <1>4. LateProgram(prog[c], b, k, t, s)
    BY DEF Late
  <1> QED
    BY <1>1, <1>2, <1>4 DEF LateProgram

(* And what is left after it. *)
LEMMA LateRest ==
    ASSUME NEW c \in Sessions, TypeInv, NEW b, NEW k, NEW t, NEW s,
           Late(c, b, k, t, s), prog[c] # <<>>
    PROVE  /\ LateProgram(Tail(prog[c]), b, k, t, s) /\ ~ First(Tail(prog[c]), {"upsert"})
           /\ Tail(prog[c]) \in Seq(Instructions)
           /\ prog[c][1].do = "upsert" => (Hooking(prog[c]) <=> Hooking(Tail(prog[c])))
           /\ prog[c][1].do # "upsert" => ~ Hooking(Tail(prog[c]))
           /\ prog[c][1].do \in {"promote", "claim", "complete", "commit"} => ~ Hooking(prog[c])
           /\ prog[c][1].do = "hook" => Hooking(prog[c])
           /\ \A u : Promoting(prog[c], u)
                 => Promoting(Tail(prog[c]), u) \/ (prog[c][1].do = "promote" /\ prog[c][1].task = u)
           /\ prog[c][1].do # "upsert" =>
                 \A m \in 1 .. Len(Tail(prog[c])) : Tail(prog[c])[m].do \notin {"upsert", "hook"}
  <1> DEFINE p == prog[c]
  <1>1. /\ p \in Seq(Instructions) /\ 1 \in 1 .. Len(p) /\ LateProgram(p, b, k, t, s)
        /\ p[1].do \in {"upsert", "hook", "promote", "claim", "complete", "commit"}
    BY LateHead
  <1> HIDE DEF p
  <1>2. p # <<>>
    BY DEF p
  <1>3. /\ LateProgram(Tail(p), b, k, t, s) /\ ~ First(Tail(p), {"upsert"})
        /\ Hooking(Tail(p)) => Hooking(p) /\ p[1].do = "upsert"
        /\ Hooking(p) => Hooking(Tail(p)) \/ p[1].do = "hook"
        /\ \A u : Promoting(p, u) => Promoting(Tail(p), u) \/ (p[1].do = "promote" /\ p[1].task = u)
    BY <1>1, <1>2, LateTail
  <1>4. Tail(p) \in Seq(Instructions)
    BY <1>1, <1>2
  <1>5. p[1].do = "hook" => Hooking(p)
    BY <1>1 DEF Hooking
  <1>6. ASSUME NEW m \in 1 .. Len(Tail(p)), Tail(p)[m].do = "upsert" PROVE FALSE
    <2>1. m = 1
      BY <1>3, <1>6 DEF LateProgram
    <2>2. Tail(p) # <<>>
      <3>1. Len(<<>>) = 0 /\ 1 .. 0 = {}
        OBVIOUS
      <3> QED
        BY <1>6, <3>1
    <2> QED
      BY <1>3, <1>6, <2>1, <2>2 DEF First
  <1>7. ~ Hooking(Tail(p)) => \A m \in 1 .. Len(Tail(p)) : Tail(p)[m].do # "hook"
    BY DEF Hooking
  <1> QED
    BY <1>1, <1>3, <1>4, <1>5, <1>6, <1>7 DEF p

LEMMA LateUpserts ==
    ASSUME NEW c \in Sessions, TypeInv, HealInv(c), NEW b, NEW k, NEW t \in Tasks, NEW s,
           Late(c, b, k, t, s), prog[c] # <<>>, Upsert(c)
    PROVE  Late(c, b, k, t, s)'
  <1>1. /\ prog[c][1].do = "upsert" /\ prog[c][1].task = t /\ prog[c][1].to = file[t].status
        /\ prog'[c] = Tail(prog[c])
    <2>1. prog[c][1].do = "upsert" /\ prog'[c] = Tail(prog[c]) /\ prog[c][1].task = t
      BY LateHead DEF Upsert, Continue, At
    <2> QED
      BY <2>1 DEF HealInv, HoldsFile, First
  <1>2. /\ row'[t] = file[t].status /\ \A u \in Tasks \ {t} : row'[u] = row[u]
        /\ UNCHANGED <<file, dirty, answer>>
    BY <1>1, LateHead DEF Upsert, TypeInv, TypeOK
  <1>3. /\ LateProgram(Tail(prog[c]), b, k, t, s)
        /\ Hooking(prog[c]) <=> Hooking(Tail(prog[c]))
        /\ \A u : Promoting(prog[c], u) => Promoting(Tail(prog[c]), u)
    BY <1>1, LateRest
  <1> QED
    BY <1>1, <1>2, <1>3 DEF Late

LEMMA LateCommits ==
    ASSUME NEW c \in Sessions, TypeInv, NEW b, NEW k, NEW t \in Tasks, NEW s,
           Late(c, b, k, t, s), prog[c] # <<>>, CommitState(c)
    PROVE  Late(c, b, k, t, s)'
  <1>1. /\ prog[c][1].do = "commit" /\ k \in {"finish", "transition"}
        /\ prog'[c] = Tail(prog[c]) /\ UNCHANGED <<file, row, answer>>
    BY LateHead DEF CommitState, Continue, At
  <1>2. /\ LateProgram(Tail(prog[c]), b, k, t, s)
        /\ ~ Hooking(Tail(prog[c])) /\ ~ Hooking(prog[c])
        /\ \A u : Promoting(prog[c], u) => Promoting(Tail(prog[c]), u)
    BY <1>1, LateRest
  <1>3. row[t] = s
    BY <1>1 DEF Late, First
  <1> QED
    BY <1>1, <1>2, <1>3 DEF Late

LEMMA LateHolds ==
    ASSUME NEW c \in Sessions, TypeInv, HealInv(c), NEW b, NEW k, NEW t \in Tasks, NEW s,
           Late(c, b, k, t, s), prog[c] # <<>>, Load(c) \/ Verify(c)
    PROVE  Late(c, b, k, t, s)'
  <1>1. prog[c][1].do \in {"promote", "claim", "complete"}
    BY LateHead DEF Load, Verify, Writes, At
  <1>2. UNCHANGED <<file, row, prog, dirty, answer>>
    <2>1. CASE Load(c)
      <3>1. MayWrite(Current(c), file[Current(c).task])
        BY <1>1, LateHead DEF MayWrite
      <3> QED
        BY <2>1, <3>1 DEF Load
    <2>2. CASE Verify(c)
      <3>1. file[Current(c).task] = held[c]
        BY <2>2, LateHead DEF HealInv, HoldsFile, Verify
      <3> QED
        BY <2>2, <3>1 DEF Verify
    <2> QED
      BY <2>1, <2>2
  <1> QED
    BY <1>2 DEF Late, First, Hooking, Promoting

LEMMA LateHooks ==
    ASSUME NEW c \in Sessions, TypeInv, NEW b, NEW k, NEW t \in Tasks, NEW s,
           Late(c, b, k, t, s), prog[c] # <<>>, RunHook(c)
    PROVE  Late(c, b, k, t, s)'
  <1> DEFINE W == Woken(b, t, s)
             a == Each("promote", W, "ready")
             q == a \o Tail(prog[c])
  <1>1. prog[c][1].do = "hook" /\ prog[c][1].task = t /\ Current(c) = prog[c][1] /\ Ended(s)
    BY LateHead DEF RunHook, At
  <1>2. \A u \in Tasks : row[u] = Refreshed(b, t, s)[u]
    BY <1>1 DEF Late, First, Refreshed
  <1>3. Unblocked(t) = W
    <2>1. \A u \in Tasks : DependsOn[u] \subseteq Tasks
      BY HandlersAssumption
    <2>2. \A u \in Tasks : DepsMet(u, row) <=> \A d \in DependsOn[u] : Ended(Refreshed(b, t, s)[d])
      BY <1>2, <2>1 DEF DepsMet, Satisfied, Ended
    <2> QED
      BY <1>1, <1>2, <2>2 DEF Unblocked, Woken
  <1>4. prog'[c] = q /\ UNCHANGED <<file, row, dirty, answer>>
    <2>1. Run(c, q)
      BY <1>1, <1>3 DEF RunHook
    <2> HIDE DEF q
    <2>2. prog'[c] = q
      BY <2>1 DEF Run, TypeInv, TypeOK
    <2> QED
      BY <2>2 DEF RunHook
  <1>14. W \in SUBSET Tasks
    BY DEF Woken
  <1>15. "promote" \in Moving /\ "ready" \in TaskStatuses
    BY DEF Moving, TaskStatuses
  <1> HIDE DEF W
  <1>5. /\ a \in Seq(Instructions)
        /\ \A j \in 1 .. Len(a) : a[j].do = "promote" /\ a[j].task \in W
        /\ \A u \in W : \E j \in 1 .. Len(a) : a[j].task = u
    <2>1. a \in Seq(Instructions)
      BY <1>14, <1>15, EachTyped
    <2>2. \A j \in 1 .. Len(a) : a[j].do = "promote" /\ a[j].to = "ready"
      BY <1>14, EachTyped DEF Moving, TaskStatuses
    <2>3. \A j \in 1 .. Len(a) : a[j].task \in W
      BY <1>14, <1>15, EachTyped
    <2>4. \A u \in W : \E j \in 1 .. Len(a) : a[j].task = u
      BY <1>14, <1>15, EachTyped, ZenonT(40)
    <2> QED
      BY <2>1, <2>2, <2>3, <2>4
  <1> HIDE DEF a, q
  <1>6. /\ LateProgram(Tail(prog[c]), b, k, t, s) /\ Tail(prog[c]) \in Seq(Instructions)
        /\ \A m \in 1 .. Len(Tail(prog[c])) : Tail(prog[c])[m].do \notin {"upsert", "hook"}
    BY <1>1, LateRest
  <1>7. /\ Len(a) \in Nat /\ q \in Seq(Instructions) /\ Len(q) = Len(a) + Len(Tail(prog[c]))
        /\ Len(Tail(prog[c])) \in Nat
        /\ \A j \in 1 .. Len(a) : q[j] = a[j]
        /\ \A j \in 1 .. Len(q) : j > Len(a) =>
              j - Len(a) \in 1 .. Len(Tail(prog[c])) /\ q[j] = Tail(prog[c])[j - Len(a)]
    BY <1>5, <1>6, Joins DEF q
  <1>8. ASSUME NEW j \in 1 .. Len(q)
        PROVE  \/ q[j].do = "promote" /\ q[j].task \in W
               \/ \E m \in 1 .. Len(Tail(prog[c])) : q[j] = Tail(prog[c])[m]
    <2>1. CASE j \in 1 .. Len(a)
      BY <1>5, <1>7, <2>1
    <2>2. CASE j > Len(a)
      BY <1>7, <2>2
    <2> QED
      BY <1>7, <2>1, <2>2
  <1>9. \A j \in 1 .. Len(q) :
           /\ q[j].do \in {"promote", "claim", "complete", "commit"}
           /\ q[j].do = "promote" => q[j].task \in W
           /\ q[j].do # "promote" => q[j].task = t
           /\ q[j].do = "commit" => k \in {"finish", "transition"}
    <2> SUFFICES ASSUME NEW j \in 1 .. Len(q)
                 PROVE  /\ q[j].do \in {"promote", "claim", "complete", "commit"}
                        /\ q[j].do = "promote" => q[j].task \in W
                        /\ q[j].do # "promote" => q[j].task = t
                        /\ q[j].do = "commit" => k \in {"finish", "transition"}
      OBVIOUS
    <2>1. CASE q[j].do = "promote" /\ q[j].task \in W
      BY <2>1
    <2>2. CASE \E m \in 1 .. Len(Tail(prog[c])) : q[j] = Tail(prog[c])[m]
      BY <1>6, <2>2 DEF LateProgram, W
    <2> QED
      BY <1>8, <2>1, <2>2
  <1>10. LateProgram(q, b, k, t, s) /\ ~ Hooking(q)
    <2>1. \A x \in {"promote", "claim", "complete", "commit"} : x # "upsert" /\ x # "hook"
      OBVIOUS
    <2> QED
      BY <1>9, <2>1, Zenon DEF LateProgram, Hooking, W
  <1>11. \A u \in W : Promoting(q, u)
    <2> SUFFICES ASSUME NEW u \in W PROVE Promoting(q, u)
      OBVIOUS
    <2>1. PICK j \in 1 .. Len(a) : a[j].task = u
      BY <1>5
    <2>2. j \in 1 .. Len(q) /\ q[j] = a[j]
      BY <1>7
    <2> QED
      BY <1>5, <2>1, <2>2 DEF Promoting
  <1>12. row[t] = s
    BY <1>1 DEF Late, First
  <1>13. \A u \in Tasks \ {t} : file[u].status = b.status[u]
    <2>1. Hooking(prog[c])
      BY <1>1, LateRest
    <2> QED
      BY <2>1 DEF Late
  <1> QED
    BY <1>4, <1>10, <1>11, <1>12, <1>13 DEF Late, W

LEMMA LateRenames ==
    ASSUME NEW c \in Sessions, TypeInv, HealInv(c), NEW b, NEW k, NEW t \in Tasks, NEW s,
           Late(c, b, k, t, s), prog[c] # <<>>, Rename(c)
    PROVE  Late(c, b, k, t, s)'
  <1> DEFINE i == prog[c][1]
             r == Written(c, i, held[c])
             a == AfterWrite(i, r)
             q == a \o Tail(prog[c])
  <1>1. /\ i.do \in {"promote", "claim", "complete"} /\ i \in Instructions /\ Current(c) = i
        /\ i.do = "promote" => i.task \in Woken(b, t, s)
        /\ i.do # "promote" => i.task = t
        /\ Tail(prog[c]) \in Seq(Instructions)
    <2>1. /\ i.do \in {"promote", "claim", "complete"} /\ i \in Instructions /\ Current(c) = i
          /\ i.do = "promote" => i.task \in Woken(b, t, s)
          /\ i.do # "promote" => i.task = t
      BY LateHead DEF Rename, Writes, At
    <2> QED
      BY <2>1, LateRest
  <1>2. held[c] = file[i.task] /\ i.task \in Tasks /\ held[c] \in Records
    BY <1>1 DEF HealInv, HoldsFile, Rename, TypeInv, TypeOK, Instructions
  <1>3. i.do = "promote" => i.to = "ready"
    BY LateHead DEF HealInv, Ordered
  <1>4. /\ r \in Records
        /\ i.do = "promote" => r.status = "ready"
        /\ i.do # "promote" => r.status = s
    <2>1. i.do \in Writes
      BY <1>1 DEF Writes
    <2> QED
      BY <1>1, <1>2, <1>3, <2>1, WrittenTyped DEF Late
  <1>5. /\ prog'[c] = q /\ file' = [file EXCEPT ![i.task] = r]
        /\ dirty' = TRUE /\ UNCHANGED <<row, answer>>
    <2>1. Run(c, q) /\ file' = [file EXCEPT ![i.task] = r]
      BY <1>1 DEF Rename
    <2> HIDE DEF q
    <2>2. prog'[c] = q
      BY <2>1 DEF Run, TypeInv, TypeOK
    <2> QED
      BY <2>1, <2>2 DEF Rename
  <1>6. file'[i.task] = r /\ \A u \in Tasks \ {i.task} : file'[u] = file[u]
    BY <1>2, <1>5 DEF TypeInv, TypeOK
  <1>7. /\ LateProgram(Tail(prog[c]), b, k, t, s)
        /\ ~ Hooking(Tail(prog[c])) /\ ~ Hooking(prog[c])
        /\ \A u : Promoting(prog[c], u)
                    => Promoting(Tail(prog[c]), u) \/ (i.do = "promote" /\ i.task = u)
        /\ \A m \in 1 .. Len(Tail(prog[c])) : Tail(prog[c])[m].do \notin {"upsert", "hook"}
    BY <1>1, LateRest
  <1>8. row[t] = s
    BY <1>1 DEF Late, First
  <1>9. CASE i.do \in {"promote", "claim"}
    <2>1. a = <<>> /\ a \o Tail(prog[c]) = Tail(prog[c])
      <3>1. a = <<>>
        BY <1>9 DEF AfterWrite
      <3> QED
        BY <1>1, <3>1
    <2>2. q = Tail(prog[c])
      BY <2>1
    <2>3. i.do = "promote" => i.task # t
      BY <1>1, WokenIs
    <2> HIDE DEF r, q, i, a
    <2>4. file'[t].status = s
      BY <1>1, <1>4, <1>6, <2>3 DEF Late
    <2>5. ASSUME NEW u \in Tasks \ {t}
          PROVE  /\ \/ file'[u].status = b.status[u]
                    \/ u \in Woken(b, t, s) /\ file'[u].status = "ready"
                 /\ u \in Woken(b, t, s) => file'[u].status = "ready" \/ Promoting(q, u)
      <3>1. CASE u = i.task
        BY <1>1, <1>4, <1>6, <2>5, <3>1
      <3>2. CASE u # i.task
        BY <1>6, <1>7, <2>2, <3>2 DEF Late
      <3> QED
        BY <3>1, <3>2
    <2> QED
      BY <1>5, <1>7, <1>8, <2>2, <2>4, <2>5 DEF Late
  <1>10. CASE i.do = "complete"
    <2> DEFINE z == Instruction("upsert", t, s)
    <2>1. a = <<z>>
      BY <1>1, <1>4, <1>10 DEF AfterWrite, Refresh
    <2>2. z.do = "upsert" /\ z.task = t /\ z \in Instructions
      BY <1>4, <1>10 DEF Instruction, Instructions, Moving, Records
    <2> HIDE DEF z, r, a, i
    <2>3. <<z>> \in Seq(Instructions) /\ Len(<<z>>) = 1 /\ <<z>>[1] = z
      BY <2>2
    <2>4. /\ q \in Seq(Instructions) /\ Len(q) = 1 + Len(Tail(prog[c]))
          /\ Len(Tail(prog[c])) \in Nat /\ q[1] = z
          /\ \A j \in 1 .. Len(Tail(prog[c])) : q[1 + j] = Tail(prog[c])[j]
          /\ \A j \in 1 .. Len(q) : j > 1 => j - 1 \in 1 .. Len(Tail(prog[c]))
                                             /\ q[j] = Tail(prog[c])[j - 1]
      <3>1. 1 \in 1 .. 1
        OBVIOUS
      <3>2. Tail(prog[c]) \in Seq(Instructions)
        BY <1>1
      <3> QED
        BY <2>1, <2>3, <3>1, <3>2, Joins
    <2> HIDE DEF q
    <2>5. ASSUME NEW j \in 1 .. Len(q)
          PROVE  \/ j = 1 /\ q[j] = z
                 \/ \E m \in 1 .. Len(Tail(prog[c])) : q[j] = Tail(prog[c])[m]
      <3>1. j = 1 \/ j > 1
        BY <2>4
      <3> QED
        BY <2>4, <3>1
    <2>6. \A j \in 1 .. Len(q) :
             /\ q[j].do \in {"upsert", "promote", "claim", "complete", "commit"}
             /\ q[j].do = "upsert" => j = 1
             /\ q[j].do = "promote" => q[j].task \in Woken(b, t, s)
             /\ q[j].do # "promote" => q[j].task = t
             /\ q[j].do = "commit" => k \in {"finish", "transition"}
      <3> SUFFICES ASSUME NEW j \in 1 .. Len(q)
                   PROVE  /\ q[j].do \in {"upsert", "promote", "claim", "complete", "commit"}
                          /\ q[j].do = "upsert" => j = 1
                          /\ q[j].do = "promote" => q[j].task \in Woken(b, t, s)
                          /\ q[j].do # "promote" => q[j].task = t
                          /\ q[j].do = "commit" => k \in {"finish", "transition"}
        OBVIOUS
      <3>1. CASE j = 1 /\ q[j] = z
        BY <2>2, <3>1
      <3>2. CASE \E m \in 1 .. Len(Tail(prog[c])) : q[j] = Tail(prog[c])[m]
        <4>1. PICK m \in 1 .. Len(Tail(prog[c])) : q[j] = Tail(prog[c])[m]
          BY <3>2
        <4>2. Tail(prog[c])[m].do \notin {"upsert", "hook"}
          BY <1>7
        <4>3. /\ Tail(prog[c])[m].do \in {"upsert", "hook", "promote", "claim", "complete", "commit"}
              /\ Tail(prog[c])[m].do = "promote" => Tail(prog[c])[m].task \in Woken(b, t, s)
              /\ Tail(prog[c])[m].do # "promote" => Tail(prog[c])[m].task = t
              /\ Tail(prog[c])[m].do = "commit" => k \in {"finish", "transition"}
          BY <1>7 DEF LateProgram
        <4> QED
          BY <4>1, <4>2, <4>3
      <3> QED
        BY <2>5, <3>1, <3>2
    <2>7. LateProgram(q, b, k, t, s) /\ ~ Hooking(q)
      <3>1. \A x \in {"upsert", "promote", "claim", "complete", "commit"} : x # "hook"
        OBVIOUS
      <3> QED
        BY <2>6, <3>1, Zenon DEF LateProgram, Hooking
    <2>8. \A u : Promoting(prog[c], u) => Promoting(q, u)
      <3> SUFFICES ASSUME NEW u, Promoting(prog[c], u) PROVE Promoting(q, u)
        OBVIOUS
      <3>1. Promoting(Tail(prog[c]), u)
        BY <1>7, <1>10
      <3>2. PICK j \in 1 .. Len(Tail(prog[c])) :
               Tail(prog[c])[j].do = "promote" /\ Tail(prog[c])[j].task = u
        BY <3>1 DEF Promoting
      <3>3. 1 + j \in 1 .. Len(q)
        BY <2>4
      <3> QED
        BY <2>4, <3>2, <3>3 DEF Promoting
    <2>9. file'[t].status = s /\ \A u \in Tasks \ {t} : file'[u].status = file[u].status
      BY <1>1, <1>4, <1>6, <1>10
    <2> QED
      BY <1>5, <1>7, <1>8, <2>7, <2>8, <2>9 DEF Late
  <1> QED
    BY <1>1, <1>9, <1>10

(* Whatever the session does then, it is on its way to the end.            *)
LEMMA LateGoesOn ==
    ASSUME NEW c \in Sessions, TypeInv, HealInv(c), NEW b, NEW k, NEW t \in Tasks, NEW s,
           Late(c, b, k, t, s), prog[c] # <<>>, Step(c)
    PROVE  Late(c, b, k, t, s)'
  <1>1. /\ Head(prog[c]) = prog[c][1]
        /\ prog[c][1].do \in {"upsert", "hook", "promote", "claim", "complete", "commit"}
    BY LateHead
  <1>2. /\ ~ At(c, {"deps?"}) /\ ~ At(c, {"ready?", "active?"}) /\ ~ At(c, {"queue"})
        /\ ~ At(c, {"answer"}) /\ ~ At(c, {"list"}) /\ ~ At(c, {"rebuild"})
    BY <1>1 DEF At
  <1>3. ~ CheckDeps(c) /\ ~ CheckStatus(c) /\ ~ ListQueue(c) /\ ~ Answer(c)
        /\ ~ ListFiles(c) /\ ~ Rebuild(c)
    BY <1>2, Zenon DEF CheckDeps, CheckStatus, ListQueue, Answer, ListFiles, Rebuild
  <1> QED
    BY <1>3, LateUpserts, LateCommits, LateHolds, LateHooks, LateRenames DEF Step

-----------------------------------------------------------------------------
(* Before the write. *)

LEMMA FiveJoin ==
    ASSUME NEW a, NEW b, NEW d, NEW e, NEW f
    PROVE  <<a>> \o <<b, d, e, f>> = <<a, b, d, e, f>>
  <1> DEFINE S == {a, b, d, e, f}
  <1>1. /\ <<a>> \in Seq(S) /\ Len(<<a>>) = 1 /\ <<a>>[1] = a
        /\ <<b, d, e, f>> \in Seq(S) /\ Len(<<b, d, e, f>>) = 4
        /\ <<a, b, d, e, f>> \in Seq(S) /\ Len(<<a, b, d, e, f>>) = 5
    OBVIOUS
  <1>2. <<a>> \o <<b, d, e, f>> \in Seq(S) /\ Len(<<a>> \o <<b, d, e, f>>) = 5
    BY <1>1
  <1>3. \A i \in 1 .. 5 : (<<a>> \o <<b, d, e, f>>)[i] = <<a, b, d, e, f>>[i]
    OBVIOUS
  <1> QED
    BY <1>1, <1>2, <1>3, SeqEqual

LEMMA Tuples ==
    ASSUME NEW a, NEW b, NEW d, NEW e, NEW f
    PROVE  /\ Tail(<<a>>) = <<>> /\ Tail(<<a, b>>) = <<b>> /\ Tail(<<a, b, d>>) = <<b, d>>
           /\ Tail(<<a, b, d, e>>) = <<b, d, e>> /\ Tail(<<a, b, d, e, f>>) = <<b, d, e, f>>
           /\ <<a>>[1] = a /\ <<a, b>>[1] = a /\ <<a, b, d>>[1] = a
           /\ <<a, b, d, e>>[1] = a /\ <<a, b, d, e, f>>[1] = a
           /\ <<a>> # <<>> /\ <<a, b>> # <<>> /\ <<a, b, d>> # <<>>
           /\ <<a, b, d, e>> # <<>> /\ <<a, b, d, e, f>> # <<>>
           /\ 1 .. Len(<<>>) = {} /\ 1 .. Len(<<a>>) = {1} /\ 1 .. Len(<<a, b>>) = {1, 2}
           /\ <<a, b>>[2] = b
  OBVIOUS

(* What the rest of the call after the write consists of. *)
Closing(p, k, t) ==
    \A j \in 1 .. Len(p) : /\ p[j].do \in {"claim", "complete", "commit"} /\ p[j].task = t
                           /\ p[j].do = "commit" => k \in {"finish", "transition"}

LEMMA FirstMoves ==
    CanTransition("task", "ready", "active") /\ CanTransition("task", "active", "done")
    /\ CanTransition("task", "active", "needs-review")
  <1>1. AllowedTransitions("task") = TaskEdges
    BY DEF AllowedTransitions
  <1>2. /\ <<"ready", "active">> \in TaskEdges /\ <<"active", "done">> \in TaskEdges
        /\ <<"active", "needs-review">> \in TaskEdges
    BY DEF TaskEdges
  <1>3. {"ready", "active", "done", "needs-review"} \subseteq KnownStates("task")
    BY <1>1, <1>2 DEF KnownStates
  <1>4. ~ IsTerminalState("task", "ready") /\ ~ IsTerminalState("task", "active")
    BY DEF IsTerminalState, TerminalStates
  <1> QED
    BY <1>1, <1>2, <1>3, <1>4 DEF CanTransition

LEMMA EarlyIs ==
    ASSUME NEW b, NEW k, NEW t \in Tasks, NEW s, NEW p, NEW now,
           EarlyProgram(p, now, b, k, t, s), MayMove(b, k, t, s)
    PROVE  /\ p # <<>> /\ p[1].task = t
           /\ \/ /\ p[1].do \in {"ready?", "deps?"} /\ now = "ready" /\ k = "claim"
                 /\ EarlyProgram(Tail(p), now, b, k, t, s)
              \/ p[1].do = "active?" /\ now = "active" /\ EarlyProgram(Tail(p), now, b, k, t, s)
              \/ p[1].do = "upsert" /\ EarlyProgram(Tail(p), now, b, k, t, s)
              \/ /\ p[1].do = "status" /\ p[1].to = "active" /\ now = "ready"
                 /\ EarlyProgram(<<Instruction("upsert", t, "active")>> \o Tail(p), "active", b, k, t, s)
              \/ /\ p[1].do = "status" /\ p[1].to = s /\ CanTransition("task", now, s)
                 /\ Closing(Tail(p), k, t)
  <1> DEFINE move == Instruction("status", t, s)
             start == Instruction("status", t, "active")
             started == Instruction("upsert", t, "active")
             ready == Instruction("ready?", t, "")
             met == Instruction("deps?", t, "")
             active == Instruction("active?", t, "")
             claim == Instruction("claim", t, "")
             complete == Instruction("complete", t, "")
             commit == Instruction("commit", t, "")
  <1>1. /\ move.do = "status" /\ move.task = t /\ move.to = s
        /\ start.do = "status" /\ start.task = t /\ start.to = "active"
        /\ started.do = "upsert" /\ started.task = t
        /\ ready.do = "ready?" /\ ready.task = t /\ met.do = "deps?" /\ met.task = t
        /\ active.do = "active?" /\ active.task = t /\ claim.do = "claim" /\ claim.task = t
        /\ complete.do = "complete" /\ complete.task = t /\ commit.do = "commit" /\ commit.task = t
    BY DEF Instruction
  <1>2. \A q, x : EarlyProgram(q, x, b, k, t, s) <=>
           \/ /\ k = "claim" /\ x = "ready"
              /\ q \in {<<ready, met, move, claim>>, <<met, move, claim>>, <<move, claim>>}
           \/ k = "finish" /\ x = "ready" /\ q = <<start, active, move, complete, commit>>
           \/ /\ k = "finish" /\ x = "active"
              /\ q \in {<<started, active, move, complete, commit>>,
                        <<active, move, complete, commit>>, <<move, complete, commit>>}
           \/ k = "refused" /\ x = "ready" /\ q = <<move>>
           \/ k = "transition" /\ x = b.status[t] /\ q = <<move, commit>>
    BY DEF EarlyProgram
  <1>3. /\ k = "claim" \/ k = "refused" => s = "active"
        /\ k = "finish" => s \in {"done", "needs-review"}
        /\ k = "transition" => CanTransition("task", b.status[t], s)
    BY DEF MayMove
  <1> HIDE DEF move, start, started, ready, met, active, claim, complete, commit
  <1>4. CASE k = "claim" /\ now = "ready" /\ p = <<ready, met, move, claim>>
    BY <1>1, <1>2, <1>4, Tuples
  <1>5. CASE k = "claim" /\ now = "ready" /\ p = <<met, move, claim>>
    BY <1>1, <1>2, <1>5, Tuples
  <1>6. CASE k = "claim" /\ now = "ready" /\ p = <<move, claim>>
    <2>1. Tail(p) = <<claim>> /\ p[1] = move /\ p # <<>>
      BY <1>6, Tuples
    <2>2. Closing(Tail(p), k, t)
      BY <1>1, <1>6, <2>1, Tuples DEF Closing
    <2> QED
      BY <1>1, <1>3, <1>6, <2>1, <2>2, FirstMoves
  <1>7. CASE k = "finish" /\ now = "ready" /\ p = <<start, active, move, complete, commit>>
    <2>1. Tail(p) = <<active, move, complete, commit>> /\ p[1] = start /\ p # <<>>
      BY <1>7, Tuples
    <2>2. <<started>> \o Tail(p) = <<started, active, move, complete, commit>>
      <3>1. <<started>> \o <<active, move, complete, commit>>
               = <<started, active, move, complete, commit>>
        BY FiveJoin, Zenon
      <3> QED
        BY <2>1, <3>1
    <2>3. EarlyProgram(<<started>> \o Tail(p), "active", b, k, t, s)
      BY <1>2, <1>7, <2>2
    <2> QED
      BY <1>1, <1>7, <2>1, <2>3 DEF started
  <1>8. CASE k = "finish" /\ now = "active" /\ p = <<started, active, move, complete, commit>>
    BY <1>1, <1>2, <1>8, Tuples
  <1>9. CASE k = "finish" /\ now = "active" /\ p = <<active, move, complete, commit>>
    BY <1>1, <1>2, <1>9, Tuples
  <1>10. CASE k = "finish" /\ now = "active" /\ p = <<move, complete, commit>>
    <2>1. Tail(p) = <<complete, commit>> /\ p[1] = move /\ p # <<>>
      BY <1>10, Tuples
    <2>2. Closing(Tail(p), k, t)
      BY <1>1, <1>10, <2>1, Tuples DEF Closing
    <2> QED
      BY <1>1, <1>3, <1>10, <2>1, <2>2, FirstMoves
  <1>11. CASE k = "refused" /\ now = "ready" /\ p = <<move>>
    <2>1. Tail(p) = <<>> /\ p[1] = move /\ p # <<>>
      BY <1>11, Tuples
    <2>2. Closing(Tail(p), k, t)
      BY <2>1, Tuples DEF Closing
    <2> QED
      BY <1>1, <1>3, <1>11, <2>1, <2>2, FirstMoves
  <1>12. CASE k = "transition" /\ now = b.status[t] /\ p = <<move, commit>>
    <2>1. Tail(p) = <<commit>> /\ p[1] = move /\ p # <<>>
      BY <1>12, Tuples
    <2>2. Closing(Tail(p), k, t)
      BY <1>1, <1>12, <2>1, Tuples DEF Closing
    <2> QED
      BY <1>1, <1>3, <1>12, <2>1, <2>2
  <1> QED
    BY <1>2, <1>4, <1>5, <1>6, <1>7, <1>8, <1>9, <1>10, <1>11, <1>12

(* One step of the one session, by the instruction at hand. *)
LEMMA StepIs ==
    ASSUME NEW c \in Sessions, TypeInv, Step(c)
    PROVE  /\ prog[c] # <<>> /\ prog[c] \in Seq(Instructions) /\ 1 \in 1 .. Len(prog[c])
           /\ Current(c) = prog[c][1] /\ prog[c][1] \in Instructions /\ prog[c][1].task \in Tasks
           /\ Tail(prog[c]) \in Seq(Instructions)
           /\ prog[c][1].do \in {"ready?", "active?"} => CheckStatus(c)
           /\ prog[c][1].do = "deps?" => CheckDeps(c)
           /\ prog[c][1].do = "upsert" => Upsert(c)
           /\ prog[c][1].do = "queue" => ListQueue(c)
           /\ prog[c][1].do = "answer" => Answer(c)
           /\ prog[c][1].do \in Writes => Load(c) \/ Verify(c) \/ Rename(c)
           /\ \A p : Run(c, p) => prog'[c] = p
  <1>1. \E kinds : At(c, kinds)
    BY Zenon DEF Step, CheckDeps, CheckStatus, Load, Verify, Rename, Upsert, RunHook, ListQueue, Answer,
              CommitState, ListFiles, Rebuild
  <1>2. ~ Quiet(c)
    BY <1>1 DEF At
  <1>3. /\ prog[c] # <<>> /\ prog[c] \in Seq(Instructions) /\ 1 \in 1 .. Len(prog[c])
        /\ Current(c) = prog[c][1] /\ prog[c][1] \in Instructions /\ prog[c][1].task \in Tasks
        /\ Tail(prog[c]) \in Seq(Instructions) /\ Head(prog[c]) = prog[c][1]
    BY <1>2, CurrentTyped DEF Current
  <1>4. \A p : Run(c, p) => prog'[c] = p
    BY DEF Run, TypeInv, TypeOK
  <1>5. /\ CheckDeps(c) => prog[c][1].do = "deps?"
        /\ CheckStatus(c) => prog[c][1].do \in {"ready?", "active?"}
        /\ Load(c) \/ Verify(c) \/ Rename(c) => prog[c][1].do \in Writes
        /\ Upsert(c) => prog[c][1].do = "upsert"
        /\ RunHook(c) => prog[c][1].do = "hook"
        /\ ListQueue(c) => prog[c][1].do = "queue"
        /\ Answer(c) => prog[c][1].do = "answer"
        /\ CommitState(c) => prog[c][1].do = "commit"
        /\ ListFiles(c) => prog[c][1].do = "list"
        /\ Rebuild(c) => prog[c][1].do = "rebuild"
    BY <1>3 DEF At, CheckDeps, CheckStatus, Load, Verify, Rename, Upsert, RunHook, ListQueue, Answer,
              CommitState, ListFiles, Rebuild
  <1> QED
    BY <1>3, <1>4, <1>5 DEF Step, Writes

(* The first two thirds of a write that goes ahead change nothing here.    *)
LEMMA WriteHolds ==
    ASSUME NEW c \in Sessions, TypeInv, HealInv(c), Load(c) \/ Verify(c),
           MayWrite(prog[c][1], file[prog[c][1].task])
    PROVE  UNCHANGED <<file, row, prog, dirty, answer>>
  <1>1. Current(c) = prog[c][1]
    BY CurrentTyped DEF Load, Verify, At
  <1>2. Verify(c) => file[prog[c][1].task] = held[c]
    BY DEF HealInv, HoldsFile, Verify
  <1> QED
    BY <1>1, <1>2 DEF Load, Verify

(* The last third. *)
LEMMA WriteRenames ==
    ASSUME NEW c \in Sessions, TypeInv, HealInv(c), Rename(c)
    PROVE  \E r \in Records :
              /\ prog[c][1].do \in {"status", "try", "promote"} => r.status = prog[c][1].to
              /\ prog'[c] = AfterWrite(prog[c][1], r) \o Tail(prog[c])
              /\ file'[prog[c][1].task] = r
              /\ \A u \in Tasks \ {prog[c][1].task} : file'[u] = file[u]
              /\ dirty' = TRUE /\ UNCHANGED <<row, answer>>
  <1> DEFINE i == prog[c][1]
             r == Written(c, i, held[c])
             q == AfterWrite(i, r) \o Tail(prog[c])
  <1>1. Current(c) = i /\ i \in Instructions /\ i.do \in Writes /\ i.task \in Tasks
    BY CurrentTyped DEF Rename, At, Current
  <1>2. r \in Records /\ (i.do \in {"status", "try", "promote"} => r.status = i.to)
    <2>1. held[c] \in Records
      BY DEF TypeInv, TypeOK
    <2> QED
      BY <1>1, <2>1, WrittenTyped
  <1>3. Run(c, q) /\ file' = [file EXCEPT ![i.task] = r] /\ dirty' = TRUE /\ UNCHANGED <<row, answer>>
    BY <1>1 DEF Rename
  <1> HIDE DEF r, q
  <1>4. prog'[c] = q
    BY <1>3 DEF Run, TypeInv, TypeOK
  <1>5. file'[i.task] = r /\ \A u \in Tasks \ {i.task} : file'[u] = file[u]
    BY <1>1, <1>3 DEF TypeInv, TypeOK
  <1> QED
    BY <1>2, <1>3, <1>4, <1>5 DEF q

(* The write that moves the task. *)
LEMMA MoveWritten ==
    ASSUME NEW c \in Sessions, TypeInv, HealInv(c), NEW b, NEW k, NEW t \in Tasks, NEW s,
           Early(c, b, k, t, s), Rename(c), prog[c][1] \in Instructions,
           prog[c][1].do = "status", prog[c][1].to = s, prog[c][1].task = t,
           Tail(prog[c]) \in Seq(Instructions), Closing(Tail(prog[c]), k, t)
    PROVE  Late(c, b, k, t, s)'
  <1> DEFINE i == prog[c][1]
             z == Tail(prog[c])
  <1>1. PICK r \in Records :
              /\ r.status = s /\ prog'[c] = AfterWrite(i, r) \o z /\ file'[t] = r
              /\ \A u \in Tasks \ {t} : file'[u] = file[u]
              /\ dirty' = TRUE /\ UNCHANGED <<row, answer>>
    BY WriteRenames
  <1> DEFINE a == AfterWrite(i, r)
             q == a \o z
  <1>2. /\ a \in Seq(Instructions) /\ Len(a) \in 1 .. 2
        /\ a[1].do = "upsert" /\ a[1].task = t
        /\ Len(a) = 2 => a[2].do = "hook" /\ a[2].task = t
        /\ Len(a) = 2 <=> Ended(s)
    <2>1. i.do \in Writes
      BY DEF Writes
    <2> QED
      BY <1>1, <2>1, AfterWriteIs DEF Ended
  <1>3. z \in Seq(Instructions) /\ Closing(z, k, t)
    OBVIOUS
  <1> HIDE DEF a, z
  <1>4. /\ q \in Seq(Instructions) /\ Len(z) \in Nat /\ Len(q) = Len(a) + Len(z)
        /\ \A j \in 1 .. Len(a) : q[j] = a[j]
        /\ \A j \in 1 .. Len(q) : j > Len(a) => j - Len(a) \in 1 .. Len(z) /\ q[j] = z[j - Len(a)]
    BY <1>2, <1>3, Joins
  <1> HIDE DEF q
  <1>5. ASSUME NEW j \in 1 .. Len(q)
        PROVE  \/ j = 1 /\ q[j].do = "upsert" /\ q[j].task = t
               \/ j = 2 /\ q[j].do = "hook" /\ q[j].task = t /\ Ended(s) /\ q[1].do = "upsert"
               \/ /\ q[j].do \in {"claim", "complete", "commit"} /\ q[j].task = t
                  /\ q[j].do = "commit" => k \in {"finish", "transition"}
    <2>1. j = 1 \/ (j = 2 /\ Len(a) = 2) \/ j > Len(a)
      BY <1>2, <1>4, SMTT(30)
    <2>2. CASE j = 1
      BY <1>2, <1>4, <2>2
    <2>3. CASE j = 2 /\ Len(a) = 2
      BY <1>2, <1>4, <2>3
    <2>4. CASE j > Len(a)
      BY <1>3, <1>4, <2>4 DEF Closing
    <2> QED
      BY <2>1, <2>2, <2>3, <2>4
  <1>6. LateProgram(q, b, k, t, s)
    <2> SUFFICES ASSUME NEW j \in 1 .. Len(q)
                 PROVE  /\ q[j].do \in {"upsert", "hook", "promote", "claim", "complete", "commit"}
                        /\ q[j].do = "upsert" => j = 1
                        /\ q[j].do = "hook" => Ended(s) /\ \A m \in 1 .. j - 1 : q[m].do = "upsert"
                        /\ q[j].do = "promote" => q[j].task \in Woken(b, t, s)
                        /\ q[j].do \notin {"promote"} => q[j].task = t
                        /\ q[j].do = "commit" => k \in {"finish", "transition"}
      BY DEF LateProgram
    <2>1. CASE j = 1 /\ q[j].do = "upsert" /\ q[j].task = t
      BY <2>1
    <2>2. CASE j = 2 /\ q[j].do = "hook" /\ q[j].task = t /\ Ended(s) /\ q[1].do = "upsert"
      <3>1. \A m \in 1 .. j - 1 : m = 1
        BY <2>2
      <3> QED
        BY <2>2, <3>1
    <2>3. CASE /\ q[j].do \in {"claim", "complete", "commit"} /\ q[j].task = t
               /\ q[j].do = "commit" => k \in {"finish", "transition"}
      BY <2>3
    <2> QED
      BY <1>5, <2>1, <2>2, <2>3
  <1>7. First(q, {"upsert"})
    <2>1. 1 \in 1 .. Len(q) /\ q # <<>> /\ q[1] = a[1]
      BY <1>2, <1>4
    <2> QED
      BY <1>2, <2>1 DEF First
  <1>8. Ended(s) => Hooking(q)
    <2> SUFFICES ASSUME Ended(s) PROVE Hooking(q)
      OBVIOUS
    <2>1. Len(a) = 2 /\ a[2].do = "hook"
      BY <1>2
    <2>2. 2 \in 1 .. Len(a) /\ 2 \in 1 .. Len(q)
      BY <1>4, <2>1
    <2>3. q[2] = a[2]
      BY <1>4, <2>2
    <2> QED
      BY <2>1, <2>2, <2>3 DEF Hooking
  <1>9. \A u \in Tasks \ {t} : file'[u].status = b.status[u] /\ row'[u] = b.row[u]
    BY <1>1 DEF Early
  <1>10. \A u \in Woken(b, t, s) : Ended(s)
    BY WokenIs
  <1>11. prog'[c] = q /\ answer' = <<>> /\ file'[t].status = s /\ dirty' = TRUE
    BY <1>1 DEF q, a, z, Early
  <1> QED
    BY <1>6, <1>7, <1>8, <1>9, <1>10, <1>11 DEF Late

(* A call that has still to make its move. *)
LEMMA EarlyChecks ==
    ASSUME NEW c \in Sessions, TypeInv, NEW b, NEW k, NEW t \in Tasks, NEW s, Sound(b),
           MayMove(b, k, t, s), Early(c, b, k, t, s), Step(c),
           prog[c][1].task = t, prog[c][1].do \in {"ready?", "deps?", "active?"},
           prog[c][1].do \in {"ready?", "deps?"} => file[t].status = "ready" /\ k = "claim",
           prog[c][1].do = "active?" => file[t].status = "active",
           EarlyProgram(Tail(prog[c]), file[t].status, b, k, t, s)
    PROVE  Early(c, b, k, t, s)'
  <1>1. Current(c) = prog[c][1] /\ (Run(c, Tail(prog[c])) => prog'[c] = Tail(prog[c]))
    BY StepIs
  <1>2. UNCHANGED <<file, row, answer>> /\ Continue(c)
    <2>1. CASE prog[c][1].do = "deps?"
      <3>1. CheckDeps(c)
        BY <2>1, StepIs
      <3>2. b.status[t] = "ready"
        BY <2>1 DEF MayMove
      <3>3. \A d \in DependsOn[t] : d \in Tasks /\ d # t /\ file[d].status = b.status[d]
                                    /\ Ended(b.status[d])
        <4>1. \A d \in DependsOn[t] : d \in Tasks /\ Ended(b.status[d])
          BY <3>2, HandlersAssumption DEF Sound, Started
        <4>2. ~ Ended("ready")
          BY DEF Ended, IsTaskDependencySatisfied, DependencyTerminalStates
        <4> QED
          BY <3>2, <4>1, <4>2 DEF Early
      <3>4. DepsMet(t, FileStatus)
        BY <3>3 DEF DepsMet, FileStatus, Satisfied, Ended
      <3> QED
        BY <1>1, <3>1, <3>4 DEF CheckDeps
    <2>2. CASE prog[c][1].do = "ready?"
      <3>1. CheckStatus(c) /\ At(c, {"ready?"})
        BY <1>1, <2>2, StepIs DEF At, Quiet, Current
      <3> QED
        BY <1>1, <2>2, <3>1 DEF CheckStatus
    <2>3. CASE prog[c][1].do = "active?"
      <3>1. CheckStatus(c) /\ ~ At(c, {"ready?"})
        BY <1>1, <2>3, StepIs DEF At, Quiet, Current
      <3> QED
        BY <1>1, <2>3, <3>1 DEF CheckStatus
    <2> QED
      BY <2>1, <2>2, <2>3
  <1>3. prog'[c] = Tail(prog[c])
    BY <1>1, <1>2 DEF Continue
  <1> QED
    BY <1>2, <1>3 DEF Early

LEMMA EarlyStarts ==
    ASSUME NEW c \in Sessions, TypeInv, HealInv(c), NEW b, NEW k, NEW t \in Tasks, NEW s,
           Early(c, b, k, t, s), Rename(c), prog[c][1] \in Instructions,
           Tail(prog[c]) \in Seq(Instructions),
           prog[c][1].do = "status", prog[c][1].to = "active", prog[c][1].task = t,
           EarlyProgram(<<Instruction("upsert", t, "active")>> \o Tail(prog[c]), "active", b, k, t, s)
    PROVE  Early(c, b, k, t, s)'
  <1> DEFINE i == prog[c][1]
             up == Instruction("upsert", t, "active")
  <1>1. PICK r \in Records :
              /\ r.status = "active" /\ prog'[c] = AfterWrite(i, r) \o Tail(prog[c]) /\ file'[t] = r
              /\ \A u \in Tasks \ {t} : file'[u] = file[u]
              /\ UNCHANGED <<row, answer>>
    BY WriteRenames
  <1>2. AfterWrite(i, r) = <<up>>
    <2>1. ~ IsTaskDependencySatisfied("active")
      BY DEF IsTaskDependencySatisfied, DependencyTerminalStates
    <2>2. Wake(i) = <<>>
      BY <2>1 DEF Wake
    <2>3. Refresh(i, r) = <<up>>
      BY <1>1 DEF Refresh
    <2>4. AfterWrite(i, r) = Refresh(i, r) \o Wake(i)
      BY DEF AfterWrite
    <2>5. <<up>> \o <<>> = <<up>>
      OBVIOUS
    <2> QED
      BY <2>2, <2>3, <2>4, <2>5
  <1> QED
    BY <1>1, <1>2 DEF Early

LEMMA EarlyGoesOn ==
    ASSUME NEW c \in Sessions, TypeInv, HealInv(c), NEW b, NEW k, NEW t \in Tasks, NEW s,
           Sound(b), MayMove(b, k, t, s), Early(c, b, k, t, s), Step(c)
    PROVE  Early(c, b, k, t, s)' \/ Late(c, b, k, t, s)'
  <1> DEFINE p == prog[c]
             now == file[t].status
  <1>1. EarlyProgram(p, now, b, k, t, s)
    BY DEF Early
  <1>2. /\ p # <<>> /\ p[1].task = t
        /\ \/ /\ p[1].do \in {"ready?", "deps?"} /\ now = "ready" /\ k = "claim"
              /\ EarlyProgram(Tail(p), now, b, k, t, s)
           \/ p[1].do = "active?" /\ now = "active" /\ EarlyProgram(Tail(p), now, b, k, t, s)
           \/ p[1].do = "upsert" /\ EarlyProgram(Tail(p), now, b, k, t, s)
           \/ /\ p[1].do = "status" /\ p[1].to = "active" /\ now = "ready"
              /\ EarlyProgram(<<Instruction("upsert", t, "active")>> \o Tail(p), "active", b, k, t, s)
           \/ /\ p[1].do = "status" /\ p[1].to = s /\ CanTransition("task", now, s)
              /\ Closing(Tail(p), k, t)
    BY <1>1, EarlyIs
  <1>3. /\ Current(c) = p[1] /\ p[1] \in Instructions /\ Tail(p) \in Seq(Instructions)
        /\ p[1].do = "upsert" => Upsert(c)
        /\ p[1].do = "status" => Load(c) \/ Verify(c) \/ Rename(c)
        /\ Run(c, Tail(p)) => prog'[c] = Tail(p)
    BY StepIs DEF Writes
  <1>4. ASSUME Load(c) \/ Verify(c), p[1].do = "status", CanTransition("task", now, p[1].to)
        PROVE  Early(c, b, k, t, s)'
    <2>1. MayWrite(p[1], file[p[1].task])
      BY <1>2, <1>4 DEF MayWrite
    <2>2. UNCHANGED <<file, row, prog, answer>>
      BY <1>4, <2>1, WriteHolds
    <2> QED
      BY <2>2 DEF Early
  <1>5. CASE /\ p[1].do \in {"ready?", "deps?"} /\ now = "ready" /\ k = "claim"
             /\ EarlyProgram(Tail(p), now, b, k, t, s)
    BY <1>2, <1>5, EarlyChecks
  <1>6. CASE p[1].do = "active?" /\ now = "active" /\ EarlyProgram(Tail(p), now, b, k, t, s)
    BY <1>2, <1>6, EarlyChecks
  <1>7. CASE p[1].do = "upsert" /\ EarlyProgram(Tail(p), now, b, k, t, s)
    <2>1. /\ prog'[c] = Tail(p) /\ UNCHANGED <<file, answer>>
          /\ \A u \in Tasks \ {t} : row'[u] = row[u]
      BY <1>2, <1>3, <1>7 DEF Upsert, Continue, TypeInv, TypeOK
    <2> QED
      BY <1>7, <2>1 DEF Early
  <1>8. CASE /\ p[1].do = "status" /\ p[1].to = "active" /\ now = "ready"
             /\ EarlyProgram(<<Instruction("upsert", t, "active")>> \o Tail(p), "active", b, k, t, s)
    BY <1>2, <1>3, <1>4, <1>8, EarlyStarts, FirstMoves
  <1>9. CASE /\ p[1].do = "status" /\ p[1].to = s /\ CanTransition("task", now, s)
             /\ Closing(Tail(p), k, t)
    BY <1>2, <1>3, <1>4, <1>9, MoveWritten
  <1> QED
    BY <1>2, <1>5, <1>6, <1>7, <1>8, <1>9

-----------------------------------------------------------------------------
(* A queue inspection. *)

LEMMA AskedGoesOn ==
    ASSUME NEW c \in Sessions, TypeInv, NEW b, Asked(c, b), Step(c)
    PROVE  Queueing(c, b)'
  <1> DEFINE a == Each("try", Listed(b), "ready")
             z == Instruction("answer", Current(c).task, "")
             q == a \o <<z>>
  <1>1. prog[c][1].do = "queue" /\ "queue" \in Ops /\ row = b.row /\ dirty = b.dirty
        /\ \A u \in Tasks : file[u].status = b.status[u]
    <2>1. FileStatus = b.status /\ \A u \in Tasks : FileStatus[u] = file[u].status
      BY DEF Asked, FileStatus
    <2> QED
      BY <2>1 DEF Asked, Asking
  <1>2. ListQueue(c) /\ Current(c) = prog[c][1] /\ Current(c).task \in Tasks
        /\ \A p : Run(c, p) => prog'[c] = p
    BY <1>1, StepIs
  <1>3. Promotable = Listed(b)
    <2>1. \A u \in Tasks : DependsOn[u] \subseteq Tasks
      BY HandlersAssumption
    <2> QED
      BY <1>1, <2>1 DEF Promotable, Listed, DepsMet, Satisfied, Ended
  <1>4. /\ UNCHANGED <<file, row, phase, dirty, answer>> /\ prog'[c] = q
    BY <1>2, <1>3 DEF ListQueue
  <1>5. /\ a \in Seq(Instructions)
        /\ \A j \in 1 .. Len(a) : a[j].do = "try" /\ a[j].task \in Listed(b)
        /\ \A u \in Listed(b) : \E j \in 1 .. Len(a) : a[j].task = u
    <2>1. Listed(b) \in SUBSET Tasks
      BY DEF Listed
    <2>2. a \in Seq(Instructions) /\ \A j \in 1 .. Len(a) : a[j].do = "try"
      BY <2>1, EachTyped DEF Moving, TaskStatuses
    <2>3. \A j \in 1 .. Len(a) : a[j].task \in Listed(b)
      BY <2>1, EachTyped DEF Moving, TaskStatuses
    <2>4. \A u \in Listed(b) : \E j \in 1 .. Len(a) : a[j].task = u
      BY <2>1, EachTyped DEF Moving, TaskStatuses
    <2> QED
      BY <2>2, <2>3, <2>4
  <1>6. z \in Instructions /\ z.do = "answer"
    BY <1>2 DEF Instruction, Instructions, Moving, Kinds
  <1> HIDE DEF a, z, q
  <1>7. <<z>> \in Seq(Instructions) /\ Len(<<z>>) = 1 /\ <<z>>[1] = z
    BY <1>6
  <1>8. /\ Len(a) \in Nat /\ q \in Seq(Instructions) /\ Len(q) = Len(a) + 1
        /\ \A j \in 1 .. Len(a) : q[j] = a[j]
        /\ q[Len(a) + 1] = z
    <2>1. Len(a) \in Nat /\ 1 \in 1 .. Len(<<z>>)
      BY <1>5, <1>7
    <2> QED
      BY <1>5, <1>7, <2>1, Joins DEF q
  <1>9. \A j \in 1 .. Len(q) : q[j].do # "upsert" /\ (q[j].do = "try" => q[j].task \in Listed(b))
    <2>1. \A j \in 1 .. Len(q) : j \in 1 .. Len(a) \/ j = Len(a) + 1
      BY <1>8
    <2> QED
      BY <1>5, <1>6, <1>8, <2>1
  <1>10. \E j \in 1 .. Len(q) : q[j].do = "answer"
    <2>1. Len(a) + 1 \in 1 .. Len(q)
      BY <1>8
    <2> QED
      BY <1>6, <1>8, <2>1
  <1>11. ASSUME NEW u \in Promotions(b)
         PROVE  \E j \in 1 .. Len(q) : q[j].do = "try" /\ q[j].task = u
    <2>0. u \in Listed(b)
      BY DEF Promotions
    <2>1. PICK j \in 1 .. Len(a) : a[j].task = u
      BY <1>5, <2>0
    <2>2. j \in 1 .. Len(q) /\ q[j] = a[j]
      BY <1>8
    <2> QED
      BY <1>5, <2>1, <2>2
  <1>12. phase[c] = "load"
    <2>1. ~ At(c, Writes)
      BY <1>1, <1>2 DEF At, Writes, Current
    <2> QED
      BY <2>1 DEF TypeInv, WritesUnderWay
  <1>13. \A u \in Promotions(b) : u \in Tasks
    BY DEF Promotions, Listed
  <1> QED
    BY <1>1, <1>4, <1>9, <1>10, <1>11, <1>12, <1>13 DEF Queueing

LEMMA QueueingIs ==
    ASSUME NEW c \in Sessions, TypeInv, HealInv(c), NEW b, Queueing(c, b), Sound(b), Step(c)
    PROVE  /\ \/ prog[c][1].do = "try" /\ prog[c][1].task \in Listed(b) /\ prog[c][1].to = "ready"
              \/ prog[c][1].do = "upsert" /\ prog[c][1].task \in Promotions(b)
              \/ prog[c][1].do = "answer" /\ Tail(prog[c]) = <<>> /\ Len(prog[c]) = 1
           /\ \A j \in 1 .. Len(prog[c]) : j # 1 => prog[c][j].do # "upsert"
           /\ \A j \in 1 .. Len(prog[c]) :
                 j # 1 => j - 1 \in 1 .. Len(Tail(prog[c])) /\ Tail(prog[c])[j - 1] = prog[c][j]
           /\ \A j \in 1 .. Len(Tail(prog[c])) :
                 j + 1 \in 1 .. Len(prog[c]) /\ Tail(prog[c])[j] = prog[c][j + 1]
           /\ Len(Tail(prog[c])) \in Nat
           /\ \A u \in Promotions(b) : u \in Tasks /\ CanTransition("task", b.status[u], "ready")
           /\ \A u \in Promotions(b) : b.status[u] # "ready"
  <1> DEFINE p == prog[c]
  <1>1. /\ p # <<>> /\ p \in Seq(Instructions) /\ 1 \in 1 .. Len(p)
    BY StepIs
  <1>2. /\ Tail(p) \in Seq(Instructions) /\ Len(Tail(p)) = Len(p) - 1 /\ Len(p) \in Nat \ {0}
        /\ \A j \in 1 .. Len(p) - 1 : Tail(p)[j] = p[j + 1]
    BY <1>1, Tails
  <1>3. Ordered(p) /\ Answering(p)
    <2>1. PICK j \in 1 .. Len(p) : p[j].do = "answer"
      BY DEF Queueing
    <2>2. ~ Working(p)
      BY <2>1 DEF Working
    <2>3. ~ Resuming(c) /\ ~ Asking(p)
      <3>1. Len(p) = 2 => j = 1 \/ j = 2
        BY <1>2
      <3>2. Len(p) = 1 => j = 1
        BY <1>2
      <3> QED
        BY <2>1, <3>1, <3>2 DEF Resuming, Asking
    <2> QED
      BY <2>2, <2>3 DEF HealInv, Busy
  <1>13. /\ p[Len(p)].do = "answer"
         /\ \A j \in 1 .. Len(p) - 1 : p[j].do \in {"try", "upsert"}
    BY <1>3 DEF Answering
  <1>14. 1 \in 1 .. Len(p) - 1 \/ Len(p) = 1
    <2>1. \A n \in Nat \ {0} : 1 \in 1 .. n - 1 \/ n = 1
      OBVIOUS
    <2> QED
      BY <1>2, <2>1
  <1>4. p[1].do = "answer" => Tail(p) = <<>> /\ Len(p) = 1
    <2> SUFFICES ASSUME p[1].do = "answer" PROVE Tail(p) = <<>> /\ Len(p) = 1
      OBVIOUS
    <2>1. Len(p) = 1
      BY <1>13, <1>14
    <2> QED
      BY <1>1, <2>1, LastTail
  <1>5. p[1].do \in {"try", "upsert", "answer"}
    BY <1>13, <1>14
  <1>6. /\ p[1].do = "try" => p[1].task \in Listed(b) /\ p[1].to = "ready"
        /\ p[1].do = "upsert" => p[1].task \in Promotions(b)
    BY <1>1, <1>3 DEF Queueing, Ordered
  <1>7. \A j \in 1 .. Len(p) : j # 1 => p[j].do # "upsert"
    BY <1>3 DEF Ordered
  <1>8. ~ CanTransition("task", "ready", "ready")
    <2>1. <<"ready", "ready">> \notin TaskEdges
      BY DEF TaskEdges
    <2> QED
      BY <2>1 DEF CanTransition, AllowedTransitions
  <1>9. \A u \in Promotions(b) : u \in Tasks /\ CanTransition("task", b.status[u], "ready")
                                 /\ b.status[u] # "ready"
    BY <1>8 DEF Promotions, Listed
  <1>10. \A j \in 1 .. Len(p) :
                 j # 1 => j - 1 \in 1 .. Len(Tail(p)) /\ Tail(p)[j - 1] = p[j]
    <2> SUFFICES ASSUME NEW j \in 1 .. Len(p), j # 1
                 PROVE  j - 1 \in 1 .. Len(Tail(p)) /\ Tail(p)[j - 1] = p[j]
      OBVIOUS
    <2>1. j - 1 \in 1 .. Len(p) - 1 /\ (j - 1) + 1 = j
      BY <1>2
    <2> QED
      BY <1>2, <2>1
  <1>11. \A j \in 1 .. Len(Tail(p)) : j + 1 \in 1 .. Len(p) /\ Tail(p)[j] = p[j + 1]
    BY <1>2
  <1> QED
    BY <1>2, <1>4, <1>5, <1>6, <1>7, <1>9, <1>10, <1>11

LEMMA QueueingUpserts ==
    ASSUME NEW c \in Sessions, TypeInv, HealInv(c), NEW b, Queueing(c, b), Sound(b), Step(c),
           prog[c][1].do = "upsert"
    PROVE  Queueing(c, b)'
  <1> DEFINE p == prog[c]
             x == p[1].task
             z == Tail(p)
  <1>1. /\ p[1].to = file[x].status /\ x \in Promotions(b) /\ x \in Tasks
        /\ \A u \in Promotions(b) : u \in Tasks
    <2>1. First(p, {"upsert"})
      BY StepIs DEF First
    <2> QED
      BY <2>1, QueueingIs DEF HealInv, HoldsFile
  <1>2. /\ row'[x] = file[x].status /\ (\A u \in Tasks \ {x} : row'[u] = row[u])
        /\ UNCHANGED <<file, phase, dirty, answer>> /\ prog'[c] = z
    <2>1. Upsert(c) /\ Current(c) = p[1] /\ (Run(c, z) => prog'[c] = z)
      BY StepIs
    <2>2. /\ row' = [row EXCEPT ![x] = p[1].to] /\ row \in [Tasks -> TaskStatuses]
          /\ UNCHANGED <<file, phase, dirty, answer>> /\ Run(c, z)
      BY <2>1 DEF Upsert, Continue, TypeInv, TypeOK
    <2> QED
      BY <1>1, <2>1, <2>2
  <1>3. phase[c] = "load"
    <2>1. ~ At(c, Writes)
      BY StepIs DEF At, Writes, Current
    <2> QED
      BY <2>1 DEF TypeInv, WritesUnderWay
  <1>4. /\ \A j \in 1 .. Len(p) : j # 1 => j - 1 \in 1 .. Len(z) /\ z[j - 1] = p[j]
        /\ \A j \in 1 .. Len(z) : j + 1 \in 1 .. Len(p) /\ z[j] = p[j + 1] /\ j + 1 # 1
        /\ \A j \in 1 .. Len(p) : j # 1 => p[j].do # "upsert"
    <2>1. \A j \in 1 .. Len(z) : j + 1 # 1
      OBVIOUS
    <2> QED
      BY <2>1, QueueingIs
  <1>5. \E j \in 1 .. Len(z) : z[j].do = "answer"
    <2>1. PICK j \in 1 .. Len(p) : p[j].do = "answer"
      BY DEF Queueing
    <2> QED
      BY <1>4, <2>1
  <1>6. \A j \in 1 .. Len(z) : /\ z[j].do = "try" => z[j].task \in Listed(b)
                               /\ z[j].do # "upsert"
    BY <1>4 DEF Queueing
  <1>7. ASSUME NEW u \in Promotions(b)
        PROVE  \/ /\ file[u].status = b.status[u]
                  /\ \E j \in 1 .. Len(z) : z[j].do = "try" /\ z[j].task = u
               \/ file[u].status = "ready" /\ row'[u] = "ready"
    <2>1. CASE file[u].status = b.status[u]
               /\ \E j \in 1 .. Len(p) : p[j].do = "try" /\ p[j].task = u
      <3>1. PICK j \in 1 .. Len(p) : p[j].do = "try" /\ p[j].task = u
        BY <2>1
      <3>2. j # 1
        BY <3>1
      <3> QED
        BY <1>4, <2>1, <3>1, <3>2
    <2>2. CASE file[u].status = "ready" /\ (row[u] = "ready" \/ x = u)
      BY <1>1, <1>2, <2>2
    <2> QED
      BY <2>1, <2>2 DEF Queueing
  <1>8. \A u \in Tasks \ Promotions(b) : file[u].status = b.status[u] /\ row'[u] = b.row[u]
    BY <1>1, <1>2 DEF Queueing
  <1>9. \/ dirty = TRUE /\ (b.dirty \/ Promotions(b) # {})
        \/ dirty = b.dirty /\ \A u \in Promotions(b) : file[u].status = b.status[u]
    BY DEF Queueing
  <1>10. "queue" \in Ops
    BY DEF Queueing
  <1> HIDE DEF z
  <1> QED
    BY <1>2, <1>3, <1>5, <1>6, <1>7, <1>8, <1>9, <1>10 DEF Queueing

LEMMA QueueingHolds ==
    ASSUME NEW c \in Sessions, TypeInv, HealInv(c), NEW b, Queueing(c, b), Sound(b), Step(c),
           prog[c][1].do = "try", Load(c) \/ Verify(c)
    PROVE  Queueing(c, b)'
  <1> DEFINE p == prog[c]
             x == p[1].task
             z == Tail(p)
  <1>1. /\ p[1].to = "ready" /\ x \in Tasks /\ Current(c) = p[1] /\ x \in Listed(b)
        /\ \A u \in Promotions(b) : u \in Tasks /\ CanTransition("task", b.status[u], "ready")
        /\ Run(c, z) => prog'[c] = z
    BY StepIs, QueueingIs
  <1>2. Verify(c) => phase[c] = "verify" /\ file[x] = held[c]
    BY DEF HealInv, HoldsFile, Verify
  <1>3. MayWrite(p[1], file[x]) <=> CanTransition("task", file[x].status, "ready")
    BY <1>1 DEF MayWrite
  <1>4. CASE Verify(c) \/ MayWrite(p[1], file[x])
    <2>1. CanTransition("task", file[x].status, "ready")
      BY <1>2, <1>3, <1>4 DEF Queueing
    <2>2. UNCHANGED <<file, row, prog, dirty, answer>>
      BY <1>1, <1>2, <1>4 DEF Load, Verify
    <2> QED
      BY <2>1, <2>2 DEF Queueing, First
  <1>5. CASE ~ Verify(c) /\ ~ MayWrite(p[1], file[x])
    <2>1. Load(c) /\ phase[c] = "load" /\ UNCHANGED <<file, row, phase, dirty, answer>> /\ prog'[c] = z
      BY <1>1, <1>5 DEF Load, Fail, Continue
    <2>2. /\ \A j \in 1 .. Len(p) : j # 1 => j - 1 \in 1 .. Len(z) /\ z[j - 1] = p[j]
          /\ \A j \in 1 .. Len(z) : j + 1 \in 1 .. Len(p) /\ z[j] = p[j + 1] /\ j + 1 # 1
          /\ \A j \in 1 .. Len(p) : j # 1 => p[j].do # "upsert"
      BY QueueingIs
    <2>3. \E j \in 1 .. Len(z) : z[j].do = "answer"
      <3>1. PICK j \in 1 .. Len(p) : p[j].do = "answer"
        BY DEF Queueing
      <3> QED
        BY <2>2, <3>1
    <2>4. \A j \in 1 .. Len(z) : /\ z[j].do = "try" => z[j].task \in Listed(b)
                                 /\ z[j].do # "upsert"
      BY <2>2 DEF Queueing
    <2>5. ASSUME NEW u \in Promotions(b)
          PROVE  \/ /\ file[u].status = b.status[u]
                    /\ \E j \in 1 .. Len(z) : z[j].do = "try" /\ z[j].task = u
                 \/ file[u].status = "ready" /\ row[u] = "ready"
      <3>1. CASE file[u].status = b.status[u]
                 /\ \E j \in 1 .. Len(p) : p[j].do = "try" /\ p[j].task = u
        <4>1. PICK j \in 1 .. Len(p) : p[j].do = "try" /\ p[j].task = u
          BY <3>1
        <4>2. j # 1
          BY <1>1, <1>3, <1>5, <3>1, <4>1
        <4> QED
          BY <2>2, <3>1, <4>1, <4>2, ZenonT(40)
      <3>2. CASE file[u].status = "ready" /\ (row[u] = "ready" \/ First(p, {"upsert"}))
        BY <3>2 DEF First
      <3> QED
        BY <3>1, <3>2 DEF Queueing
    <2>6. \A u \in Tasks \ Promotions(b) : file[u].status = b.status[u] /\ row[u] = b.row[u]
      BY DEF Queueing
    <2>7. \/ dirty = TRUE /\ (b.dirty \/ Promotions(b) # {})
          \/ dirty = b.dirty /\ \A u \in Promotions(b) : file[u].status = b.status[u]
      BY DEF Queueing
    <2>8. "queue" \in Ops
      BY DEF Queueing
    <2> HIDE DEF z
    <2> QED
      BY <1>1, <2>1, <2>3, <2>4, <2>5, <2>6, <2>7, <2>8 DEF Queueing
  <1> QED
    BY <1>4, <1>5

LEMMA QueueingMoves ==
    ASSUME NEW c \in Sessions, TypeInv, HealInv(c), NEW b, Queueing(c, b), Sound(b), Step(c),
           prog[c][1].do = "try", Rename(c)
    PROVE  Queueing(c, b)'
  <1> DEFINE p == prog[c]
             i == p[1]
             x == i.task
             z == Tail(p)
             up == Instruction("upsert", x, "ready")
             q == <<up>> \o z
  <1>1. /\ i \in Instructions /\ i.to = "ready" /\ x \in Tasks /\ x \in Listed(b)
        /\ Current(c) = i /\ z \in Seq(Instructions)
        /\ \A u \in Promotions(b) : u \in Tasks /\ CanTransition("task", b.status[u], "ready")
    BY StepIs, QueueingIs
  <1>2. CanTransition("task", file[x].status, "ready") /\ phase'[c] = "load"
    BY DEF Queueing, Rename, Forget, TypeInv, TypeOK
  <1>3. x \in Promotions(b)
    <2>1. CASE x \notin Promotions(b)
      <3>1. file[x].status = b.status[x]
        BY <1>1, <2>1 DEF Queueing
      <3> QED
        BY <1>1, <1>2, <3>1 DEF Promotions
    <2> QED
      BY <2>1
  <1>4. PICK r \in Records :
              /\ r.status = "ready" /\ prog'[c] = AfterWrite(i, r) \o z /\ file'[x] = r
              /\ \A u \in Tasks \ {x} : file'[u] = file[u]
              /\ dirty' = TRUE /\ UNCHANGED <<row, answer>>
    BY <1>1, WriteRenames
  <1>5. AfterWrite(i, r) = <<up>>
    <2>1. ~ IsTaskDependencySatisfied("ready")
      BY DEF IsTaskDependencySatisfied, DependencyTerminalStates
    <2>2. Wake(i) = <<>>
      BY <1>1, <2>1 DEF Wake
    <2>3. Refresh(i, r) = <<up>>
      BY <1>4 DEF Refresh
    <2>4. AfterWrite(i, r) = Refresh(i, r) \o Wake(i)
      BY DEF AfterWrite
    <2>5. <<up>> \o <<>> = <<up>>
      OBVIOUS
    <2> QED
      BY <2>2, <2>3, <2>4, <2>5
  <1>6. up \in Instructions /\ up.do = "upsert" /\ up.task = x
    BY <1>1 DEF Instruction, Instructions, Moving, TaskStatuses
  <1>7. prog'[c] = q
    BY <1>4, <1>5
  <1>8. /\ \A j \in 1 .. Len(p) : j # 1 => j - 1 \in 1 .. Len(z) /\ z[j - 1] = p[j]
        /\ \A j \in 1 .. Len(z) : j + 1 \in 1 .. Len(p) /\ z[j] = p[j + 1] /\ j + 1 # 1
        /\ \A j \in 1 .. Len(p) : j # 1 => p[j].do # "upsert"
        /\ Len(z) \in Nat
    <2>1. \A j \in 1 .. Len(z) : j + 1 # 1
      OBVIOUS
    <2> QED
      BY <2>1, QueueingIs
  <1> HIDE DEF up, z
  <1>9. <<up>> \in Seq(Instructions) /\ Len(<<up>>) = 1 /\ <<up>>[1] = up
    BY <1>6
  <1>10. /\ q[1] = up /\ Len(q) = 1 + Len(z) /\ q # <<>> /\ q \in Seq(Instructions)
         /\ \A j \in 1 .. Len(q) : j # 1 => j - 1 \in 1 .. Len(z) /\ q[j] = z[j - 1]
    <2> DEFINE one == <<up>>
    <2>0. q = one \o z /\ one \in Seq(Instructions) /\ Len(one) = 1 /\ one[1] = up
      BY <1>9
    <2> HIDE DEF one, q
    <2>1. /\ q \in Seq(Instructions) /\ Len(q) = Len(one) + Len(z)
          /\ \A j \in 1 .. Len(one) : q[j] = one[j]
          /\ \A j \in 1 .. Len(one) + Len(z) : j > Len(one) =>
                j - Len(one) \in 1 .. Len(z) /\ q[j] = z[j - Len(one)]
      <3>1. z \in Seq(Instructions)
        BY <1>1
      <3>2. one \o z \in Seq(Instructions) /\ Len(one \o z) = Len(one) + Len(z)
        BY <2>0, <3>1, Joins
      <3>3. \A j \in 1 .. Len(one) : (one \o z)[j] = one[j]
        BY <2>0, <3>1, Joins
      <3>4. \A j \in 1 .. Len(one) + Len(z) : j > Len(one) =>
               j - Len(one) \in 1 .. Len(z) /\ (one \o z)[j] = z[j - Len(one)]
        BY <2>0, <3>1, Joins
      <3> QED
        BY <2>0, <3>2, <3>3, <3>4, Zenon
    <2>2. 1 \in 1 .. 1 /\ \A j \in 1 .. 1 + Len(z) : j # 1 => j > 1
      BY <1>8
    <2>3. q # <<>>
      BY <1>8, <2>0, <2>1
    <2> QED
      BY <2>0, <2>1, <2>2, <2>3
  <1> HIDE DEF q
  <1>11. \A j \in 1 .. Len(p) : j # 1 => j \in 1 .. Len(q) /\ q[j] = p[j]
    <2> SUFFICES ASSUME NEW j \in 1 .. Len(p), j # 1 PROVE j \in 1 .. Len(q) /\ q[j] = p[j]
      OBVIOUS
    <2>1. j - 1 \in 1 .. Len(z) /\ z[j - 1] = p[j]
      BY <1>8
    <2>2. j \in 1 .. Len(q)
      BY <1>8, <1>10, <2>1
    <2> QED
      BY <1>10, <2>1, <2>2
  <1>12. \A j \in 1 .. Len(q) : /\ q[j].do = "try" => q[j].task \in Listed(b)
                                /\ q[j].do = "upsert" => q[j].task \in Promotions(b)
    <2> SUFFICES ASSUME NEW j \in 1 .. Len(q)
                 PROVE  /\ q[j].do = "try" => q[j].task \in Listed(b)
                        /\ q[j].do = "upsert" => q[j].task \in Promotions(b)
      OBVIOUS
    <2>1. CASE j = 1
      BY <1>3, <1>6, <1>10, <2>1
    <2>2. CASE j # 1
      <3>1. j - 1 \in 1 .. Len(z) /\ q[j] = z[j - 1]
        BY <1>10, <2>2
      <3>2. (j - 1) + 1 \in 1 .. Len(p) /\ q[j] = p[(j - 1) + 1]
        BY <1>8, <3>1
      <3> QED
        BY <3>2 DEF Queueing
    <2> QED
      BY <2>1, <2>2
  <1>13. \E j \in 1 .. Len(q) : q[j].do = "answer"
    <2>1. PICK j \in 1 .. Len(p) : p[j].do = "answer"
      BY DEF Queueing
    <2>2. j # 1
      BY <2>1
    <2> QED
      BY <1>11, <2>1, <2>2
  <1>14. First(q, {"upsert"}) /\ q[1].task = x
    BY <1>6, <1>10 DEF First
  <1>15. ASSUME NEW u \in Promotions(b)
         PROVE  \/ /\ file'[u].status = b.status[u]
                   /\ \E j \in 1 .. Len(q) : q[j].do = "try" /\ q[j].task = u
                \/ /\ file'[u].status = "ready"
                   /\ row'[u] = "ready" \/ (First(q, {"upsert"}) /\ q[1].task = u)
    <2>1. CASE u = x
      BY <1>4, <1>14, <2>1
    <2>2. CASE u # x
      <3>1. file'[u] = file[u] /\ row'[u] = row[u]
        BY <1>1, <1>4, <2>2
      <3>2. CASE file[u].status = b.status[u]
                 /\ \E j \in 1 .. Len(p) : p[j].do = "try" /\ p[j].task = u
        <4>1. PICK j \in 1 .. Len(p) : p[j].do = "try" /\ p[j].task = u
          BY <3>2
        <4>2. j # 1
          BY <2>2, <4>1
        <4> QED
          BY <1>11, <3>1, <3>2, <4>1, <4>2
      <3>3. CASE file[u].status = "ready" /\ (row[u] = "ready" \/ First(p, {"upsert"}))
        BY <3>1, <3>3 DEF First
      <3> QED
        BY <3>2, <3>3 DEF Queueing
    <2> QED
      BY <2>1, <2>2
  <1>16. \A u \in Tasks \ Promotions(b) : file'[u].status = b.status[u] /\ row'[u] = b.row[u]
    BY <1>3, <1>4 DEF Queueing
  <1>17. "queue" \in Ops /\ Promotions(b) # {}
    BY <1>3 DEF Queueing
  <1> QED
    BY <1>2, <1>4, <1>7, <1>12, <1>13, <1>15, <1>16, <1>17 DEF Queueing

LEMMA QueueingEnds ==
    ASSUME NEW c \in Sessions, TypeInv, HealInv(c), NEW b, Queueing(c, b), Sound(b), Step(c),
           b.dirty \in BOOLEAN, prog[c][1].do = "answer"
    PROVE  prog'[c] = <<>> /\ Queued(b)'
  <1> DEFINE p == prog[c]
  <1>1. Tail(p) = <<>> /\ \A j \in 1 .. Len(p) : j = 1
    <2>1. Tail(p) = <<>> /\ Len(p) = 1
      BY QueueingIs
    <2> QED
      BY <2>1
  <1>2. /\ UNCHANGED <<file, row, dirty>> /\ prog'[c] = <<>>
        /\ answer' = << {t \in Tasks : row[t] = "ready"} >>
    BY <1>1, StepIs DEF Answer, Continue
  <1>3. \A u \in Promotions(b) : /\ u \in Tasks /\ file[u].status = "ready" /\ row[u] = "ready"
                                 /\ b.status[u] # "ready"
    <2>1. \A u \in Promotions(b) : ~ \E j \in 1 .. Len(p) : p[j].do = "try" /\ p[j].task = u
      BY <1>1
    <2>2. ~ First(p, {"upsert"})
      BY DEF First
    <2>3. \A u \in Promotions(b) : u \in Tasks /\ b.status[u] # "ready"
      BY QueueingIs
    <2> QED
      BY <2>1, <2>2, <2>3 DEF Queueing
  <1>4. \A u \in Tasks \ Promotions(b) : file[u].status = b.status[u] /\ row[u] = b.row[u]
    BY DEF Queueing
  <1>5. FileStatus = Promote(b, b.status)
    BY <1>3, <1>4 DEF FileStatus, Promote
  <1>6. row = Promote(b, b.row)
    <2>1. row = [u \in Tasks |-> row[u]]
      BY DEF TypeInv, TypeOK
    <2>2. \A u \in Tasks : row[u] = IF u \in Promotions(b) THEN "ready" ELSE b.row[u]
      BY <1>3, <1>4
    <2> QED
      BY <2>1, <2>2 DEF Promote
  <1>7. dirty = (b.dirty \/ Promotions(b) # {})
    <2>1. CASE dirty = TRUE /\ (b.dirty \/ Promotions(b) # {})
      BY <2>1
    <2>2. CASE dirty = b.dirty /\ \A u \in Promotions(b) : file[u].status = b.status[u]
      <3>1. Promotions(b) = {}
        BY <1>3, <2>2
      <3> QED
        BY <2>2, <3>1
    <2> QED
      BY <2>1, <2>2 DEF Queueing
  <1>8. "queue" \in Ops
    BY DEF Queueing
  <1> QED
    BY <1>2, <1>5, <1>6, <1>7, <1>8 DEF Queued, FileStatus

LEMMA QueueingGoesOn ==
    ASSUME NEW c \in Sessions, TypeInv, HealInv(c), NEW b, Queueing(c, b), Sound(b), Step(c),
           b.dirty \in BOOLEAN
    PROVE  Queueing(c, b)' \/ (prog'[c] = <<>> /\ Queued(b)')
  <1>1. prog[c][1].do \in {"try", "upsert", "answer"}
    BY QueueingIs
  <1>2. CASE prog[c][1].do = "try"
    <2>1. Load(c) \/ Verify(c) \/ Rename(c)
      BY <1>2, StepIs DEF Writes
    <2> QED
      BY <1>2, <2>1, QueueingHolds, QueueingMoves
  <1>3. CASE prog[c][1].do = "upsert"
    BY <1>3, QueueingUpserts
  <1>4. CASE prog[c][1].do = "answer"
    BY <1>4, QueueingEnds
  <1> QED
    BY <1>1, <1>2, <1>3, <1>4

-----------------------------------------------------------------------------
(* The start of a call. *)

LEMMA CallServes ==
    ASSUME NEW c \in Sessions, TypeInv, NEW b, Call(c),
           FileStatus = b.status, row = b.row, dirty = b.dirty
    PROVE  Serving(c, b)' /\ prog'[c] # <<>>
  <1>1. \A u \in Tasks : file[u].status = b.status[u]
    <2>1. \A u \in Tasks : FileStatus[u] = file[u].status
      BY DEF FileStatus
    <2> QED
      BY <2>1
  <1>2. \A p : Run(c, p) => prog'[c] = p
    BY DEF Run, TypeInv, TypeOK
  <1>3. \A t \in Serves[c] : t \in Tasks
    BY HandlersAssumption
  <1>4. ASSUME NEW p, Begin(c, p), NEW k \in Kinds4, NEW t \in Tasks, NEW s \in TaskStatuses,
               MayMove(b, k, t, s), EarlyProgram(p, file[t].status, b, k, t, s), p # <<>>
        PROVE  Serving(c, b)' /\ prog'[c] # <<>>
    <2>1. prog'[c] = p /\ answer' = <<>> /\ UNCHANGED <<file, row>>
      BY <1>2, <1>4 DEF Begin
    <2>2. Early(c, b, k, t, s)'
      BY <1>1, <1>4, <2>1 DEF Early
    <2> QED
      BY <1>4, <2>1, <2>2 DEF Serving
  <1>5. {"active", "done", "needs-review"} \subseteq TaskStatuses
    BY DEF TaskStatuses
  <1>6. ASSUME NEW t \in Serves[c], ClaimCall(c, t) PROVE Serving(c, b)' /\ prog'[c] # <<>>
    <2> DEFINE p == << Instruction("ready?", t, ""), Instruction("deps?", t, ""),
                       Instruction("status", t, "active"), Instruction("claim", t, "") >>
    <2>1. Begin(c, p) /\ "claim" \in Ops /\ ~ dirty /\ file[t].status = "ready" /\ p # <<>>
      BY <1>6 DEF ClaimCall
    <2>2. MayMove(b, "claim", t, "active")
      BY <1>1, <1>3, <2>1 DEF MayMove
    <2>3. EarlyProgram(p, file[t].status, b, "claim", t, "active")
      BY <2>1 DEF EarlyProgram
    <2> HIDE DEF p
    <2> QED
      BY <1>3, <1>4, <1>5, <2>1, <2>2, <2>3 DEF Kinds4
  <1>7. ASSUME NEW t \in Serves[c], FinishRefusedCall(c, t)
        PROVE  Serving(c, b)' /\ prog'[c] # <<>>
    <2> DEFINE p == << Instruction("status", t, "active") >>
    <2>1. Begin(c, p) /\ "finish" \in Ops /\ file[t].status = "ready" /\ p # <<>>
      BY <1>7 DEF FinishRefusedCall
    <2>2. MayMove(b, "refused", t, "active")
      BY <1>1, <1>3, <2>1 DEF MayMove
    <2>3. EarlyProgram(p, file[t].status, b, "refused", t, "active")
      BY <2>1 DEF EarlyProgram
    <2> HIDE DEF p
    <2> QED
      BY <1>3, <1>4, <1>5, <2>1, <2>2, <2>3 DEF Kinds4
  <1>8. ASSUME NEW t \in Serves[c], NEW s \in Targets, FinishCall(c, t, s)
        PROVE  Serving(c, b)' /\ prog'[c] # <<>>
    <2> DEFINE start == Instruction("status", t, "active")
               active == Instruction("active?", t, "")
               move == Instruction("status", t, s)
               complete == Instruction("complete", t, "")
               commit == Instruction("commit", t, "")
               p4 == <<active, move, complete, commit>>
               p5 == <<start, active, move, complete, commit>>
    <2>1. /\ Begin(c, (IF file[t].status = "ready" THEN <<start>> ELSE <<>>) \o p4)
          /\ "finish" \in Ops /\ s \in {"done", "needs-review"}
          /\ file[t].status \in {"ready", "active"}
      BY <1>8 DEF FinishCall
    <2>2. MayMove(b, "finish", t, s) /\ s \in TaskStatuses
      BY <1>1, <1>3, <1>5, <2>1 DEF MayMove
    <2>3. <<start>> \o p4 = p5 /\ p5 # <<>>
      <3>1. <<start>> \o <<active, move, complete, commit>>
               = <<start, active, move, complete, commit>>
        BY FiveJoin, Zenon
      <3> QED
        BY <3>1
    <2>4. <<>> \o p4 = p4 /\ p4 # <<>>
      OBVIOUS
    <2>5. file[t].status = "ready" => EarlyProgram(p5, file[t].status, b, "finish", t, s)
      BY DEF EarlyProgram
    <2>6. file[t].status = "active" => EarlyProgram(p4, file[t].status, b, "finish", t, s)
      BY DEF EarlyProgram
    <2> HIDE DEF p4, p5
    <2>7. CASE file[t].status = "ready"
      <3>1. Begin(c, p5)
        BY <2>1, <2>3, <2>7
      <3> QED
        BY <1>3, <1>4, <2>2, <2>3, <2>5, <2>7, <3>1 DEF Kinds4
    <2>8. CASE file[t].status = "active"
      <3>1. Begin(c, p4)
        BY <2>1, <2>4, <2>8
      <3> QED
        BY <1>3, <1>4, <2>2, <2>4, <2>6, <2>8, <3>1 DEF Kinds4
    <2> QED
      BY <2>1, <2>7, <2>8
  <1>9. ASSUME NEW t \in Serves[c], NEW s \in Targets, TransitionCall(c, t, s)
        PROVE  Serving(c, b)' /\ prog'[c] # <<>>
    <2> DEFINE p == << Instruction("status", t, s), Instruction("commit", t, "") >>
    <2>1. /\ Begin(c, p) /\ "transition" \in Ops /\ CanTransition("task", file[t].status, s)
          /\ <<file[t].status, s>> # <<"queued", "ready">> /\ p # <<>>
      BY <1>9 DEF TransitionCall
    <2>2. MayMove(b, "transition", t, s) /\ s \in TaskStatuses
      BY <1>1, <1>3, <2>1, TaskTable DEF MayMove
    <2>3. EarlyProgram(p, file[t].status, b, "transition", t, s)
      BY <1>1, <1>3 DEF EarlyProgram
    <2> HIDE DEF p
    <2> QED
      BY <1>3, <1>4, <2>1, <2>2, <2>3 DEF Kinds4
  <1>10. ASSUME QueueCall(c) PROVE Serving(c, b)' /\ prog'[c] # <<>>
    <2> DEFINE x == CHOOSE t \in Tasks : TRUE
               p == << Instruction("queue", x, "") >>
    <2>1. Begin(c, p) /\ "queue" \in Ops
      BY <1>10 DEF QueueCall
    <2>2. Asking(p) /\ p # <<>>
      BY DEF Asking, Instruction
    <2> HIDE DEF p
    <2>3. prog'[c] = p /\ UNCHANGED <<file, row, dirty>>
      BY <1>2, <2>1 DEF Begin
    <2>4. Asked(c, b)'
      BY <2>1, <2>2, <2>3 DEF Asked, FileStatus
    <2> QED
      BY <2>2, <2>3, <2>4 DEF Serving
  <1> QED
    BY <1>6, <1>7, <1>8, <1>9, <1>10 DEF Call

-----------------------------------------------------------------------------
(* The refinement. *)

SerialInv(c) ==
    /\ Sound(before) /\ before.dirty \in BOOLEAN
    /\ prog[c] = <<>> => before = NowAtRest
    /\ prog[c] # <<>> => \E b : b = before /\ Serving(c, b)

LEMMA RestIs ==
    /\ NowAtRest.status = FileStatus /\ NowAtRest.row = row
    /\ NowAtRest.dirty = dirty /\ NowAtRest.answer = answer
  BY DEF NowAtRest

LEMMA InitServes ==
    ASSUME NEW c, Sessions = {c}, Promoted = {}, SerialInit
    PROVE  SerialInv(c) /\ Board!Init
  <1>1. /\ file = [t \in Tasks |-> New] /\ row = FileStatus /\ prog[c] = <<>>
        /\ dirty = FALSE /\ answer = <<>> /\ before = NowAtRest
    BY DEF SerialInit, Init
  <1>2. FileStatus = [t \in Tasks |-> "queued"]
    BY <1>1 DEF FileStatus, New
  <1>3. /\ before.status = [t \in Tasks |-> "queued"] /\ before.row = [t \in Tasks |-> "queued"]
        /\ before.dirty = FALSE /\ before.answer = <<>>
    BY <1>1, <1>2, RestIs
  <1>4. Sound(before)
    BY <1>3 DEF Sound, TaskStatuses, Started
  <1>5. Board!Init
    BY <1>3, HandlersAssumption DEF Board!Init
  <1> QED
    BY <1>1, <1>3, <1>4, <1>5 DEF SerialInv

(* The board between two calls is the board after the call. *)
LEMMA EndServes ==
    ASSUME NEW c, Sessions = {c}, TypeInv', NEW b, b = before, Sound(b), b.dirty \in BOOLEAN,
           prog'[c] = <<>>, before' = NowAtRest',
           \/ \E k \in Kinds4, t \in Tasks, s \in TaskStatuses :
                 MayMove(b, k, t, s) /\ Late(c, b, k, t, s)'
           \/ Queued(b)'
    PROVE  SerialInv(c)' /\ Board!Next
  <1>1. /\ before'.status = FileStatus' /\ before'.row = row'
        /\ before'.dirty = dirty' /\ before'.answer = answer'
    BY DEF NowAtRest
  <1>2. dirty' \in BOOLEAN
    BY DEF TypeInv, TypeOK
  <1>3. ASSUME NEW k \in Kinds4, NEW t \in Tasks, NEW s \in TaskStatuses,
               MayMove(b, k, t, s), Late(c, b, k, t, s)'
        PROVE  Sound(before') /\ Board!Next
    <2>1. /\ FileStatus' = Moved(b, t, s) /\ row' = Refreshed(b, t, s) /\ answer' = <<>>
          /\ k \in {"claim", "refused"} => dirty' = TRUE
      BY <1>3, LateEnds
    <2>2. /\ before'.status = Moved(before, t, s) /\ before'.row = Refreshed(before, t, s)
          /\ before'.answer = <<>> /\ before'.dirty \in BOOLEAN
          /\ k \in {"claim", "refused"} => before'.dirty = TRUE
          /\ Sound(before) /\ MayMove(before, k, t, s)
      BY <1>1, <1>2, <1>3, <2>1
    <2>3. Board!Next
      BY <2>2, BoardCalls
    <2>4. Sound(before')
      BY <2>2, MoveKeepsSound
    <2> QED
      BY <2>3, <2>4
  <1>4. ASSUME Queued(b)' PROVE Sound(before') /\ Board!Next
    <2>1. /\ "queue" \in Ops
          /\ before'.status = Promote(before, before.status)
          /\ before'.row = Promote(before, before.row)
          /\ before'.dirty = (before.dirty \/ Promotions(before) # {})
          /\ before'.answer = << {t \in Tasks : before'.row[t] = "ready"} >>
      BY <1>1, <1>4 DEF Queued
    <2>2. Board!Next
      BY <2>1, BoardQueues
    <2>3. Sound(before')
      BY <2>1, QueueKeepsSound
    <2> QED
      BY <2>2, <2>3
  <1>5. Sound(before') /\ Board!Next
    BY <1>3, <1>4
  <1> QED
    BY <1>1, <1>2, <1>5 DEF SerialInv

LEMMA StepServes ==
    ASSUME NEW c, Sessions = {c}, TypeInv, TypeInv', HealInv(c), SerialInv(c), Step(c), SerialNext
    PROVE  SerialInv(c)' /\ (Board!Next \/ before' = before)
  <1>0. c \in Sessions
    OBVIOUS
  <1>1. prog[c] # <<>>
    BY <1>0, StepIs
  <1>2. PICK b : b = before /\ Serving(c, b) /\ Sound(b) /\ b.dirty \in BOOLEAN
    BY <1>1 DEF SerialInv
  <1>3. \/ \E k \in Kinds4, t \in Tasks, s \in TaskStatuses :
              MayMove(b, k, t, s) /\ (Early(c, b, k, t, s)' \/ Late(c, b, k, t, s)')
        \/ Queueing(c, b)'
        \/ prog'[c] = <<>> /\ Queued(b)'
    <2>1. CASE \E k \in Kinds4, t \in Tasks, s \in TaskStatuses :
                  MayMove(b, k, t, s) /\ (Early(c, b, k, t, s) \/ Late(c, b, k, t, s))
      <3>1. PICK k \in Kinds4, t \in Tasks, s \in TaskStatuses :
                  MayMove(b, k, t, s) /\ (Early(c, b, k, t, s) \/ Late(c, b, k, t, s))
        BY <2>1
      <3>2. Early(c, b, k, t, s)' \/ Late(c, b, k, t, s)'
        BY <1>0, <1>1, <1>2, <3>1, EarlyGoesOn, LateGoesOn
      <3> QED
        BY <3>1, <3>2
    <2>2. CASE Asked(c, b)
      BY <1>0, <2>2, AskedGoesOn
    <2>3. CASE Queueing(c, b)
      BY <1>0, <1>2, <2>3, QueueingGoesOn
    <2> QED
      BY <1>2, <2>1, <2>2, <2>3 DEF Serving
  <1>4. before' = IF prog'[c] = <<>> THEN NowAtRest' ELSE before
    BY DEF SerialNext, Quiescent, Quiet
  <1>5. CASE prog'[c] # <<>>
    <2>1. Serving(c, b)'
      BY <1>3, <1>5 DEF Serving
    <2> QED
      BY <1>2, <1>4, <1>5, <2>1 DEF SerialInv
  <1>6. CASE prog'[c] = <<>>
    <2>1. ~ Queueing(c, b)'
      <3>1. 1 .. Len(<<>>) = {}
        OBVIOUS
      <3> QED
        BY <1>6, <3>1 DEF Queueing
    <2>2. \A k, t, s : ~ Early(c, b, k, t, s)'
      BY <1>6 DEF Early, EarlyProgram
    <2>3. \/ \E k \in Kinds4, t \in Tasks, s \in TaskStatuses :
                MayMove(b, k, t, s) /\ Late(c, b, k, t, s)'
          \/ Queued(b)'
      BY <1>3, <2>1, <2>2
    <2> QED
      BY <1>2, <1>4, <1>6, <2>3, EndServes
  <1> QED
    BY <1>5, <1>6

LEMMA NextServes ==
    ASSUME NEW c, Sessions = {c}, MaxCrashes = 0,
           TypeInv, TypeInv', HealInv(c), SerialInv(c), [SerialNext]_<<vars, before>>
    PROVE  SerialInv(c)' /\ [Board!Next]_Board!vars
  <1>0. c \in Sessions
    OBVIOUS
  <1>1. before' = before => UNCHANGED Board!vars
    BY DEF Board!vars
  <1>2. CASE UNCHANGED <<vars, before>>
    <2>1. UNCHANGED <<file, row, prog, phase, dirty, answer, before>>
      BY <1>2 DEF vars
    <2>2. prog[c] # <<>> => \E b : b = before' /\ Serving(c, b)'
      <3> SUFFICES ASSUME prog[c] # <<>> PROVE \E b : b = before' /\ Serving(c, b)'
        OBVIOUS
      <3>1. PICK b : b = before /\ Serving(c, b)
        BY DEF SerialInv
      <3>2. \A k, t, s : Early(c, b, k, t, s) => Early(c, b, k, t, s)'
        BY <2>1 DEF Early
      <3>3. \A k, t, s : Late(c, b, k, t, s) => Late(c, b, k, t, s)'
        BY <2>1 DEF Late
      <3>4. Asked(c, b) => Asked(c, b)'
        BY <2>1 DEF Asked, FileStatus
      <3>5. Queueing(c, b) => Queueing(c, b)'
        BY <2>1 DEF Queueing
      <3>6. Serving(c, b)'
        BY <3>1, <3>2, <3>3, <3>4, <3>5 DEF Serving
      <3> QED
        BY <2>1, <3>1, <3>6
    <2>3. NowAtRest' = NowAtRest
      BY <2>1 DEF NowAtRest, FileStatus
    <2> QED
      BY <1>1, <2>1, <2>2, <2>3 DEF SerialInv
  <1>3. ASSUME SerialNext PROVE SerialInv(c)' /\ [Board!Next]_Board!vars
    <2>0. before' = IF prog'[c] = <<>> THEN NowAtRest' ELSE before
      BY <1>3 DEF SerialNext, Quiescent, Quiet
    <2>1. CASE Step(c)
      BY <1>1, <1>3, <2>1, StepServes
    <2>2. CASE Call(c)
      <3>1. prog[c] = <<>>
        BY <2>2 DEF Call, ClaimCall, FinishRefusedCall, FinishCall, TransitionCall, QueueCall,
                    Begin, Quiet
      <3>2. PICK b : b = before
        OBVIOUS
      <3>3. FileStatus = b.status /\ row = b.row /\ dirty = b.dirty
        BY <3>1, <3>2, RestIs DEF SerialInv
      <3>4. Serving(c, b)' /\ prog'[c] # <<>>
        BY <1>0, <2>2, <3>3, CallServes
      <3> QED
        BY <1>1, <2>0, <3>2, <3>4 DEF SerialInv
    <2>3. CASE HandCommit
      <3>1. UNCHANGED <<file, row, prog>> /\ dirty /\ dirty' = FALSE /\ answer' = <<>>
        BY <2>3 DEF HandCommit
      <3>2. prog[c] = <<>> /\ prog'[c] = <<>>
        <4>1. Quiescent
          BY <1>3, <3>1 DEF SerialNext
        <4> QED
          BY <1>0, <3>1, <4>1 DEF Quiescent, Quiet
      <3>3. before = NowAtRest /\ before' = NowAtRest'
        BY <2>0, <3>2 DEF SerialInv
      <3>4. /\ before.status = FileStatus /\ before.row = row /\ before.dirty = dirty
            /\ before'.status = FileStatus /\ before'.row = row
            /\ before'.dirty = FALSE /\ before'.answer = <<>>
        BY <3>1, <3>3 DEF NowAtRest, FileStatus
      <3>5. Board!CommitState
        BY <3>1, <3>4 DEF Board!CommitState
      <3>6. Board!Next
        BY <3>5 DEF Board!Next, Board!ServerNext
      <3>7. Sound(before')
        BY <3>4 DEF SerialInv, Sound
      <3> QED
        BY <3>2, <3>3, <3>4, <3>6, <3>7 DEF SerialInv
    <2>4. ~ Crash(c)
      BY DEF Crash, TypeInv, TypeOK
    <2> QED
      BY <1>3, <2>1, <2>2, <2>3, <2>4 DEF SerialNext, Next
  <1> QED
    BY <1>2, <1>3

(* One session, whose calls run to their end, implements the board: every  *)
(* call amounts to one step of TaskBoard, and promotes exactly the tasks   *)
(* that step promotes.  MaxCrashes = 0 because a call that died may leave  *)
(* its wake-up to nobody; Promoted = {} because the board begins with a    *)
(* backlog of queued tasks.                                                *)
THEOREM CallsAreSteps ==
    ASSUME NEW c, Sessions = {c}, MaxCrashes = 0, Promoted = {}
    PROVE  SerialSpec => ImplementsBoard
  <1>1. SerialInit => Init /\ SerialInv(c) /\ Board!Init
    BY InitServes DEF SerialInit
  <1>2. [SerialNext]_<<vars, before>> => [Next]_vars
    BY DEF SerialNext, vars
  <1>3. TypeInv /\ TypeInv' /\ HealInv(c) /\ SerialInv(c) /\ [SerialNext]_<<vars, before>>
           => SerialInv(c)' /\ [Board!Next]_Board!vars
    BY NextServes
  <1>4. SerialSpec => Spec
    BY <1>1, <1>2, PTL DEF SerialSpec, Spec
  <1>5. Spec => [](TypeInv /\ HealInv(c))
    BY HealingHolds
  <1>6. SerialSpec => []SerialInv(c)
    BY <1>1, <1>3, <1>4, <1>5, PTL DEF SerialSpec
  <1> QED
    BY <1>1, <1>3, <1>4, <1>5, <1>6, PTL DEF SerialSpec, ImplementsBoard, Board!Spec
=============================================================================
