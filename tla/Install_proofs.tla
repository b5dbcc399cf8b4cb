--------------------------- MODULE Install_proofs ---------------------------
(***************************************************************************)
(* What holds of the installed files for every set of skills, every list   *)
(* of binaries and every initial disk: a run that ended well left what it  *)
(* was asked for present and current, the sentinel means that nothing is   *)
(* missing but what people or a removal cut short took away, and files     *)
(* only move forward.                                                      *)
(***************************************************************************)
EXTENDS Install, FiniteSetTheorems, SequenceTheorems, TLAPS

(* The files a list of steps writes.                                       *)
Files(steps) == {steps[i].f : i \in 1..Len(steps)}

Good(f) ==
    /\ disk[f] \notin {None, Empty}
    /\ disk[f][1] = "made" /\ Dev \notin {disk[f][2], CurrentValue(f, run.binary)}
           => ~Older(disk[f][2], CurrentValue(f, run.binary))

(* A run that goes on, or ended well, has written each file it was asked   *)
(* for or has it ahead.                                                    *)
AskedOrAhead ==
    /\ run.st = "writing" => \A f \in Asked : Good(f) \/ f \in Files(run.todo)
    /\ run.st = "done" => \A f \in Asked : Good(f)

Needed == (RequiredFiles \cup Managed) \ {"zed", "cursor"}
Excused == removed \cup skipped \cup undone

(* The sentinel is not written before the last file but one, and the last  *)
(* is the test record.                                                     *)
SentinelNearEnd(steps) ==
    /\ \A i \in 1..(Len(steps) - 2) : steps[i].f # "sentinel"
    /\ "sentinel" \in Files(steps) => steps[Len(steps)].f = "teststatus"

(* While the sentinel is ahead, all the other files are on the disk or     *)
(* ahead of it.                                                            *)
SentinelBehindAll ==
    run.st = "writing" =>
        /\ SentinelNearEnd(run.todo)
        /\ "sentinel" \in Files(run.todo) =>
               \A f \in Needed \ Excused : disk[f] # None \/ f \in Files(run.todo)

SentinelMeansAll == disk["sentinel"] # None => \A f \in Needed \ Excused : disk[f] # None

SentinelInv == SentinelBehindAll /\ SentinelMeansAll

-----------------------------------------------------------------------------
(* Lists of steps.                                                         *)

(* A list made of two lists writes the files of both.                      *)
LEMMA FilesOfBoth ==
    ASSUME NEW s \in Seq(WriteSteps), NEW t \in Seq(WriteSteps)
    PROVE  s \o t \in Seq(WriteSteps) /\ Files(s \o t) = Files(s) \cup Files(t)
<1>1. s \o t \in Seq(WriteSteps)
    OBVIOUS
<1>2. /\ Len(s \o t) = Len(s) + Len(t) /\ Len(s) \in Nat /\ Len(t) \in Nat
      /\ \A i \in 1..(Len(s) + Len(t)) : (s \o t)[i] = IF i <= Len(s) THEN s[i] ELSE t[i - Len(s)]
    BY ConcatProperties, LenProperties
<1>3. ASSUME NEW f \in Files(s) PROVE f \in Files(s \o t)
    <2>1. PICK i \in 1..Len(s) : f = s[i].f
        BY <1>3 DEF Files
    <2>2. i \in 1..Len(s \o t) /\ (s \o t)[i] = s[i]
        BY <1>2, <2>1
    <2> QED
        BY <2>1, <2>2 DEF Files
<1>4. ASSUME NEW f \in Files(t) PROVE f \in Files(s \o t)
    <2>1. PICK i \in 1..Len(t) : f = t[i].f
        BY <1>4 DEF Files
    <2>2. i + Len(s) \in 1..Len(s \o t) /\ (s \o t)[i + Len(s)] = t[i]
        BY <1>2, <2>1
    <2> QED
        BY <2>1, <2>2 DEF Files
<1>5. ASSUME NEW f \in Files(s \o t) PROVE f \in Files(s) \cup Files(t)
    <2>1. PICK i \in 1..Len(s \o t) : f = (s \o t)[i].f
        BY <1>5 DEF Files
    <2>2. CASE i <= Len(s)
        <3>1. i \in 1..Len(s) /\ (s \o t)[i] = s[i]
            BY <1>2, <2>1, <2>2
        <3> QED
            BY <2>1, <3>1 DEF Files
    <2>3. CASE ~(i <= Len(s))
        <3>1. i - Len(s) \in 1..Len(t) /\ (s \o t)[i] = t[i - Len(s)]
            BY <1>2, <2>1, <2>3
        <3> QED
            BY <2>1, <3>1 DEF Files
    <2> QED
        BY <2>2, <2>3
<1> QED
    BY <1>1, <1>3, <1>4, <1>5

(* The first file of a list, and the files after it.                       *)
LEMMA FilesOfRest ==
    ASSUME NEW s \in Seq(WriteSteps), s # <<>>
    PROVE  /\ Head(s) \in WriteSteps /\ Tail(s) \in Seq(WriteSteps) /\ Len(Tail(s)) = Len(s) - 1
           /\ Files(s) = {Head(s).f} \cup Files(Tail(s))
           /\ \A i \in 1..Len(Tail(s)) : Tail(s)[i] = s[i + 1]
<1>1. /\ Head(s) \in WriteSteps /\ Tail(s) \in Seq(WriteSteps) /\ Len(Tail(s)) = Len(s) - 1
      /\ Len(s) \in Nat \ {0} /\ Head(s) = s[1]
      /\ \A i \in 1..Len(Tail(s)) : Tail(s)[i] = s[i + 1]
    BY HeadTailProperties, LenProperties, EmptySeq
<1>2. ASSUME NEW f \in Files(s) PROVE f \in {Head(s).f} \cup Files(Tail(s))
    <2>1. PICK i \in 1..Len(s) : f = s[i].f
        BY <1>2 DEF Files
    <2>2. CASE i = 1
        BY <1>1, <2>1, <2>2
    <2>3. CASE i # 1
        <3>1. i - 1 \in 1..Len(Tail(s)) /\ Tail(s)[i - 1] = s[i]
            BY <1>1, <2>1, <2>3
        <3> QED
            BY <2>1, <3>1 DEF Files
    <2> QED
        BY <2>2, <2>3
<1>3. ASSUME NEW f \in Files(Tail(s)) PROVE f \in Files(s)
    <2>1. PICK i \in 1..Len(Tail(s)) : f = Tail(s)[i].f
        BY <1>3 DEF Files
    <2>2. i + 1 \in 1..Len(s) /\ s[i + 1] = Tail(s)[i]
        BY <1>1, <2>1
    <2> QED
        BY <2>1, <2>2 DEF Files
<1>4. Head(s).f \in Files(s)
    BY <1>1 DEF Files
<1> QED
    BY <1>1, <1>2, <1>3, <1>4

LEMMA FilesOfShort ==
    /\ Files(<<>>) = {}
    /\ \A a : Files(<<a>>) = {a.f}
    /\ \A a, b : Files(<<a, b>>) = {a.f, b.f}
<1>1. Files(<<>>) = {}
    <2>1. 1..Len(<<>>) = {}
        OBVIOUS
    <2> QED
        BY <2>1 DEF Files
<1>2. ASSUME NEW a PROVE Files(<<a>>) = {a.f}
    <2>1. 1..Len(<<a>>) = {1} /\ <<a>>[1] = a
        OBVIOUS
    <2> QED
        BY <2>1 DEF Files
<1>3. ASSUME NEW a, NEW b PROVE Files(<<a, b>>) = {a.f, b.f}
    <2>1. 1..Len(<<a, b>>) = {1, 2} /\ <<a, b>>[1] = a /\ <<a, b>>[2] = b
        OBVIOUS
    <2> QED
        BY <2>1 DEF Files
<1> QED
    BY <1>1, <1>2, <1>3

(* The names of the manifest are files, and no skill has another's name.   *)
LEMMA Names ==
    /\ InstallFiles = Skills \cup {"taskskill", "role", "agents", "copilot", "bindings", "claude", "openai",
           "wrapper", "cursor", "base", "config", "sentinel", "teststatus", "ownskill", "docs", "readme",
           "notes", "mcp", "zed"}
    /\ Managed = Skills \cup {"taskskill", "role", "agents", "copilot", "bindings", "claude", "openai",
           "wrapper", "cursor"}
    /\ Skills \cap {"taskskill", "role", "agents", "copilot", "bindings", "claude", "openai",
           "wrapper", "cursor", "base", "config", "sentinel", "teststatus", "ownskill", "docs", "readme",
           "notes", "mcp", "zed"} = {}
    BY InstallAssumption
    DEF InstallFiles, Managed, Fixed, WorkflowSkills, TaskSkills, Roles, TopLevel, Surfaces, Kbz, AgentsDir, Work

LEMMA OneStep ==
    ASSUME NEW f \in InstallFiles, NEW track \in Seq(SUBSET InstallFiles)
    PROVE  /\ File(f) \in WriteSteps /\ File(f).f = f
           /\ Then(f, track) \in WriteSteps /\ Then(f, track).f = f
    BY DEF File, Then, WriteSteps

(* The skills are written one after another, each once and none left out.  *)
LEMMA SkillsInARow ==
    /\ SkillSteps \in Seq(WriteSteps) /\ SkillSteps # <<>>
    /\ Files(SkillSteps) = Skills
<1> DEFINE n == Cardinality(Skills)
           q == SetToSeq(Skills)
<1>1. n \in Nat \ {0}
    BY InstallAssumption, FS_CardinalityType, FS_EmptySet
<1>2. \E f : f \in Bijection(1..n, Skills)
    BY InstallAssumption, FS_CardinalityType DEF ExistsBijection
<1>3. \E f \in [1..n -> Skills] : IsInjective(f)
    BY <1>2 DEF Bijection, Injection
<1>4. q \in [1..n -> Skills] /\ IsInjective(q)
    BY <1>3 DEF SetToSeq
<1>5. q \in Injection(1..n, Skills)
    BY <1>4 DEF Injection
<1>6. IsFiniteSet(1..n) /\ Cardinality(1..n) = n
    BY <1>1, FS_Interval
<1>7. q \in Surjection(1..n, Skills)
    BY <1>1, <1>5, <1>6, InstallAssumption, FS_Injection
<1>8. \A k \in Skills : \E i \in 1..n : q[i] = k
    BY <1>7 DEF Surjection
<1> HIDE DEF q
<1>9. SkillSteps = [i \in 1..n |-> File(q[i])]
    BY DEF SkillSteps, q
<1>10. \A i \in 1..n : File(q[i]) \in WriteSteps /\ File(q[i]).f = q[i]
    BY <1>4, OneStep, Names, EmptySeq
<1> HIDE DEF n
<1>11. SkillSteps \in Seq(WriteSteps) /\ Len(SkillSteps) = n
    <2>1. n \in Nat
        BY <1>1
    <2> QED
        BY <2>1, <1>9, <1>10, IsASeq
<1>12. SkillSteps # <<>>
    BY <1>1, <1>11, EmptySeq
<1>13. Files(SkillSteps) = Skills
    <2>1. \A i \in 1..n : SkillSteps[i].f = q[i]
        BY <1>9, <1>10
    <2>2. Files(SkillSteps) = {q[i] : i \in 1..n}
        BY <2>1, <1>11 DEF Files
    <2> QED
        BY <2>2, <1>4, <1>8
<1> QED
    BY <1>11, <1>12, <1>13

(* All of a list but its last element.                                     *)
LEMMA AllButLast ==
    ASSUME NEW S, NEW s \in Seq(S), s # <<>>
    PROVE  /\ Len(s) \in Nat \ {0} /\ s[Len(s)] \in S
           /\ SubSeq(s, 1, Len(s) - 1) \in Seq(S) /\ Len(SubSeq(s, 1, Len(s) - 1)) = Len(s) - 1
           /\ \A i \in 1..(Len(s) - 1) : SubSeq(s, 1, Len(s) - 1)[i] = s[i]
<1> DEFINE k == Len(s) - 1
<1>1. Len(s) \in Nat \ {0} /\ \A i \in 1..Len(s) : s[i] \in S
    BY EmptySeq
<1>2. k \in Nat /\ 1 \in Int /\ k \in Int /\ \A i \in 1..k : s[i] \in S
    BY <1>1
<1> HIDE DEF k
<1>3. SubSeq(s, 1, k) \in Seq(S)
    <2>1. SubSeq(s, 1, k) = [i \in 1..k |-> s[i]]
        BY <1>2
    <2> QED
        BY <1>2, <2>1, IsASeq
<1>4. Len(SubSeq(s, 1, k)) = k /\ \A i \in 1..k : SubSeq(s, 1, k)[i] = s[i]
    BY <1>2
<1> QED
    BY <1>1, <1>3, <1>4 DEF k

LEMMA Retrack ==
    ASSUME NEW r \in WriteSteps, NEW track \in Seq(SUBSET InstallFiles)
    PROVE  [r EXCEPT !.track = track] \in WriteSteps /\ [r EXCEPT !.track = track].f = r.f
    BY DEF WriteSteps

(* Each shorter list of steps, and the files it is about.                  *)
LEMMA SkillFiles ==
    ASSUME NEW track \in Seq(SUBSET InstallFiles)
    PROVE  /\ InstallSkills(track) \in Seq(WriteSteps)
           /\ Files(InstallSkills(track)) = Skills \cup {"taskskill"}
<1> DEFINE n == Len(SkillSteps)
           front == SubSeq(SkillSteps, 1, n - 1)
           last == [Last(SkillSteps) EXCEPT !.track = track]
<1>1. n \in Nat \ {0} /\ SkillSteps[n] \in WriteSteps
    BY SkillsInARow, AllButLast
<1>2. front \in Seq(WriteSteps) /\ Len(front) = n - 1 /\ \A i \in 1..(n - 1) : front[i] = SkillSteps[i]
    BY SkillsInARow, AllButLast
<1>3. last \in WriteSteps /\ last.f = SkillSteps[n].f
    BY <1>1, Retrack DEF Last
<1>a. "taskskill" \in InstallFiles /\ <<>> \in Seq(SUBSET InstallFiles)
    BY Names, EmptySeq
<1>b. File("taskskill") \in WriteSteps /\ File("taskskill").f = "taskskill"
    BY <1>a, OneStep
<1> HIDE DEF front, last
<1>4. <<last, File("taskskill")>> \in Seq(WriteSteps)
    BY <1>3, <1>b
<1>5. Files(<<last, File("taskskill")>>) = {SkillSteps[n].f, "taskskill"}
    BY <1>3, <1>b, FilesOfShort
<1>6. Files(front) \cup {SkillSteps[n].f} = Skills
    <2>1. Skills = {SkillSteps[i].f : i \in 1..n}
        BY SkillsInARow DEF Files
    <2>2. Files(front) = {SkillSteps[i].f : i \in 1..(n - 1)}
        BY <1>2 DEF Files
    <2>3. 1..n = (1..(n - 1)) \cup {n}
        BY <1>1
    <2> QED
        BY <2>1, <2>2, <2>3
<1>7. InstallSkills(track) = front \o <<last, File("taskskill")>>
    BY DEF InstallSkills, front, last
<1> DEFINE pair == <<last, File("taskskill")>>
<1>8. pair \in Seq(WriteSteps) /\ Files(pair) = {SkillSteps[n].f, "taskskill"} /\ InstallSkills(track) = front \o pair
    BY <1>4, <1>5, <1>7
<1> HIDE DEF pair
<1>9. front \o pair \in Seq(WriteSteps) /\ Files(front \o pair) = Files(front) \cup Files(pair)
    BY <1>2, <1>8, FilesOfBoth
<1> QED
    BY <1>6, <1>8, <1>9

LEMMA NoTrack == <<>> \in Seq(SUBSET InstallFiles)
    BY EmptySeq

LEMMA Wanted ==
    ASSUME NEW wanted \in BOOLEAN, NEW steps \in Seq(WriteSteps)
    PROVE  /\ Steps(wanted, steps) \in Seq(WriteSteps)
           /\ Files(Steps(wanted, steps)) = IF wanted THEN Files(steps) ELSE {}
<1>1. CASE wanted
    BY <1>1 DEF Steps
<1>2. CASE ~wanted
    BY <1>2, FilesOfShort, EmptySeq DEF Steps
<1> QED
    BY <1>1, <1>2

LEMMA InstructionFiles ==
    ASSUME NEW cursor \in BOOLEAN
    PROVE  /\ Instructions(cursor) \in Seq(WriteSteps)
           /\ Files(Instructions(cursor))
                 = {"agents", "copilot", "claude", "openai", "wrapper"} \cup IF cursor THEN {"cursor"} ELSE {}
<1> DEFINE a == Then("agents", <<{"agents"}>>)
           b == Then("copilot", <<{"copilot"}>>)
           five == <<a, b, File("claude"), File("openai"), File("wrapper")>>
<1>1. /\ a \in WriteSteps /\ a.f = "agents" /\ b \in WriteSteps /\ b.f = "copilot"
      /\ \A f \in {"claude", "openai", "wrapper", "cursor"} : File(f) \in WriteSteps /\ File(f).f = f
    <2>1. {"agents", "copilot", "claude", "openai", "wrapper", "cursor"} \subseteq InstallFiles
        BY Names
    <2>2. <<{"agents"}>> \in Seq(SUBSET InstallFiles) /\ <<{"copilot"}>> \in Seq(SUBSET InstallFiles)
        BY <2>1
    <2>3. a \in WriteSteps /\ a.f = "agents"
        BY <2>1, <2>2, OneStep
    <2>4. b \in WriteSteps /\ b.f = "copilot"
        BY <2>1, <2>2, OneStep
    <2>5. ASSUME NEW f \in {"claude", "openai", "wrapper", "cursor"} PROVE File(f) \in WriteSteps /\ File(f).f = f
        <3>1. f \in InstallFiles
            BY <2>1
        <3> QED
            BY <3>1, OneStep, NoTrack
    <2> QED
        BY <2>3, <2>4, <2>5
<1>2. five \in Seq(WriteSteps)
    BY <1>1
<1>3. Files(five) = {"agents", "copilot", "claude", "openai", "wrapper"}
    <2>1. five = <<a, b>> \o (<<File("claude"), File("openai")>> \o <<File("wrapper")>>)
        OBVIOUS
    <2>2. /\ <<a, b>> \in Seq(WriteSteps) /\ <<File("claude"), File("openai")>> \in Seq(WriteSteps)
          /\ <<File("wrapper")>> \in Seq(WriteSteps)
        BY <1>1
    <2>3. /\ Files(<<a, b>>) = {"agents", "copilot"} /\ Files(<<File("wrapper")>>) = {"wrapper"}
          /\ Files(<<File("claude"), File("openai")>>) = {"claude", "openai"}
        BY <1>1, FilesOfShort
    <2> DEFINE x == <<a, b>>
               y == <<File("claude"), File("openai")>>
               z == <<File("wrapper")>>
    <2> HIDE DEF x, y, z
    <2>4. y \o z \in Seq(WriteSteps) /\ Files(y \o z) = Files(y) \cup Files(z)
        BY <2>2, FilesOfBoth DEF y, z
    <2>5. Files(x \o (y \o z)) = Files(x) \cup Files(y \o z)
        BY <2>2, <2>4, FilesOfBoth DEF x
    <2>6. five = x \o (y \o z) /\ Files(x) = {"agents", "copilot"} /\ Files(y) = {"claude", "openai"} /\ Files(z) = {"wrapper"}
        BY <2>1, <2>3 DEF x, y, z
    <2> HIDE DEF five
    <2> QED
        BY <2>4, <2>5, <2>6
<1>4. <<File("cursor")>> \in Seq(WriteSteps) /\ Files(<<File("cursor")>>) = {"cursor"}
    BY <1>1, FilesOfShort
<1> HIDE DEF five
<1>5. Instructions(cursor) = five \o Steps(cursor, <<File("cursor")>>)
    BY DEF Instructions, five
<1> DEFINE more == Steps(cursor, <<File("cursor")>>)
<1>6. more \in Seq(WriteSteps) /\ Files(more) = IF cursor THEN {"cursor"} ELSE {}
    BY <1>4, Wanted
<1> HIDE DEF more
<1>7. five \o more \in Seq(WriteSteps) /\ Files(five \o more) = Files(five) \cup Files(more)
    BY <1>2, <1>6, FilesOfBoth
<1> QED
    BY <1>3, <1>5, <1>6, <1>7 DEF more

LEMMA AllFiles ==
    ASSUME NEW opts \in Options, NEW zed \in BOOLEAN, NEW cursor \in BOOLEAN
    PROVE  /\ AllSteps(opts, zed, cursor) \in Seq(WriteSteps)
           /\ "sentinel" \notin Files(AllSteps(opts, zed, cursor))
           /\ (Managed \ (LeftOut(opts) \cup {"cursor"})) \cup {"mcp"} \subseteq Files(AllSteps(opts, zed, cursor))
<1> DEFINE s1 == <<Then("bindings", <<{"bindings"}>>)>>
           s2 == Steps(~opts.noskills, InstallSkills(<<AgentsDir>>))
           s3 == <<Then("mcp", <<{"mcp"}>>)>>
           s4 == Steps(zed, <<Then("zed", <<{"zed"}>>)>>)
           s5 == Steps(~opts.noinstructions, Instructions(cursor))
           s6 == <<File("base"), Then("role", <<Roles \cup {"base"}>>)>>
<1>1. AllSteps(opts, zed, cursor) = s1 \o s2 \o s3 \o s4 \o s5 \o s6
    BY DEF AllSteps
<1>2. opts.noskills \in BOOLEAN /\ opts.noinstructions \in BOOLEAN
    BY DEF Options
<1>3. s1 \in Seq(WriteSteps) /\ Files(s1) = {"bindings"}
    <2>1. <<{"bindings"}>> \in Seq(SUBSET InstallFiles) /\ "bindings" \in InstallFiles
        BY Names
    <2>2. Then("bindings", <<{"bindings"}>>) \in WriteSteps /\ Then("bindings", <<{"bindings"}>>).f = "bindings"
        BY <2>1, OneStep
    <2> QED
        BY <2>2, FilesOfShort
<1>4. s2 \in Seq(WriteSteps) /\ Files(s2) = IF opts.noskills THEN {} ELSE Skills \cup {"taskskill"}
    <2>1. <<AgentsDir>> \in Seq(SUBSET InstallFiles)
        BY Names DEF AgentsDir
    <2> QED
        BY <1>2, <2>1, SkillFiles, Wanted
<1>5. s3 \in Seq(WriteSteps) /\ Files(s3) = {"mcp"}
    <2>1. <<{"mcp"}>> \in Seq(SUBSET InstallFiles) /\ "mcp" \in InstallFiles
        BY Names
    <2>2. Then("mcp", <<{"mcp"}>>) \in WriteSteps /\ Then("mcp", <<{"mcp"}>>).f = "mcp"
        BY <2>1, OneStep
    <2> QED
        BY <2>2, FilesOfShort
<1>6. s4 \in Seq(WriteSteps) /\ Files(s4) \subseteq {"zed"}
    <2>1. <<{"zed"}>> \in Seq(SUBSET InstallFiles) /\ "zed" \in InstallFiles
        BY Names
    <2>2. Then("zed", <<{"zed"}>>) \in WriteSteps /\ Then("zed", <<{"zed"}>>).f = "zed"
        BY <2>1, OneStep
    <2>3. <<Then("zed", <<{"zed"}>>)>> \in Seq(WriteSteps) /\ Files(<<Then("zed", <<{"zed"}>>)>>) = {"zed"}
        BY <2>2, FilesOfShort
    <2> QED
        BY <2>3, Wanted
<1>7. /\ s5 \in Seq(WriteSteps)
      /\ Files(s5) \subseteq {"agents", "copilot", "claude", "openai", "wrapper", "cursor"}
      /\ ~opts.noinstructions => {"agents", "copilot", "claude", "openai", "wrapper"} \subseteq Files(s5)
    <2>1. /\ Instructions(cursor) \in Seq(WriteSteps)
          /\ Files(Instructions(cursor)) \subseteq {"agents", "copilot", "claude", "openai", "wrapper", "cursor"}
          /\ {"agents", "copilot", "claude", "openai", "wrapper"} \subseteq Files(Instructions(cursor))
        BY InstructionFiles
    <2> QED
        BY <1>2, <2>1, Wanted
<1>8. s6 \in Seq(WriteSteps) /\ Files(s6) = {"base", "role"}
    <2>1. <<Roles \cup {"base"}>> \in Seq(SUBSET InstallFiles) /\ "base" \in InstallFiles /\ "role" \in InstallFiles
        BY Names DEF Roles
    <2>2. /\ Then("role", <<Roles \cup {"base"}>>) \in WriteSteps /\ Then("role", <<Roles \cup {"base"}>>).f = "role"
          /\ File("base") \in WriteSteps /\ File("base").f = "base"
        BY <2>1, OneStep, NoTrack
    <2>3. s6 \in Seq(WriteSteps)
        BY <2>2
    <2>4. Files(s6) = {File("base").f, Then("role", <<Roles \cup {"base"}>>).f}
        BY FilesOfShort
    <2> QED
        BY <2>2, <2>3, <2>4
<1> HIDE DEF s1, s2, s3, s4, s5, s6
<1>9. /\ AllSteps(opts, zed, cursor) \in Seq(WriteSteps)
      /\ Files(AllSteps(opts, zed, cursor))
            = Files(s1) \cup Files(s2) \cup Files(s3) \cup Files(s4) \cup Files(s5) \cup Files(s6)
    <2>1. s1 \o s2 \in Seq(WriteSteps) /\ Files(s1 \o s2) = Files(s1) \cup Files(s2)
        BY <1>3, <1>4, FilesOfBoth
    <2>2. s1 \o s2 \o s3 \in Seq(WriteSteps) /\ Files(s1 \o s2 \o s3) = Files(s1 \o s2) \cup Files(s3)
        BY <1>5, <2>1, FilesOfBoth
    <2>3. /\ s1 \o s2 \o s3 \o s4 \in Seq(WriteSteps)
          /\ Files(s1 \o s2 \o s3 \o s4) = Files(s1 \o s2 \o s3) \cup Files(s4)
        BY <1>6, <2>2, FilesOfBoth
    <2>4. /\ s1 \o s2 \o s3 \o s4 \o s5 \in Seq(WriteSteps)
          /\ Files(s1 \o s2 \o s3 \o s4 \o s5) = Files(s1 \o s2 \o s3 \o s4) \cup Files(s5)
        BY <1>7, <2>3, FilesOfBoth
    <2>5. /\ s1 \o s2 \o s3 \o s4 \o s5 \o s6 \in Seq(WriteSteps)
          /\ Files(s1 \o s2 \o s3 \o s4 \o s5 \o s6) = Files(s1 \o s2 \o s3 \o s4 \o s5) \cup Files(s6)
        BY <1>8, <2>4, FilesOfBoth
    <2> QED
        BY <1>1, <2>1, <2>2, <2>3, <2>4, <2>5
<1>10. "sentinel" \notin Files(AllSteps(opts, zed, cursor))
    BY <1>3, <1>4, <1>5, <1>6, <1>7, <1>8, <1>9, Names
<1>11. ASSUME NEW f \in Managed, f \notin LeftOut(opts), f # "cursor" PROVE f \in Files(AllSteps(opts, zed, cursor))
    <2>1. CASE f \in Skills \cup {"taskskill"}
        BY <1>4, <1>9, <1>11, <2>1 DEF LeftOut, TaskSkills
    <2>2. CASE f \in {"agents", "copilot", "claude", "openai", "wrapper"}
        BY <1>7, <1>9, <1>11, <2>2 DEF LeftOut, Surfaces
    <2>3. CASE f \in {"role", "bindings"}
        BY <1>3, <1>8, <1>9, <2>3
    <2> QED
        BY <1>11, <2>1, <2>2, <2>3, Names
<1> QED
    BY <1>5, <1>9, <1>10, <1>11

LEMMA OneAfterAnother ==
    ASSUME NEW s \in Seq(WriteSteps), NEW t \in Seq(WriteSteps)
    PROVE  /\ s \o t \in Seq(WriteSteps) /\ Len(s) \in Nat /\ Len(t) \in Nat /\ Len(s \o t) = Len(s) + Len(t)
           /\ \A i \in 1..Len(s) : (s \o t)[i] = s[i]
           /\ \A i \in 1..Len(t) : (s \o t)[Len(s) + i] = t[i]
    OBVIOUS

LEMMA SentinelAtTheEnd ==
    ASSUME NEW p \in Seq(WriteSteps), NEW q \in Seq(WriteSteps),
           "sentinel" \notin Files(p), "sentinel" \notin Files(q)
    PROVE  /\ p \o SentinelLast(q) \in Seq(WriteSteps)
           /\ Files(p \o SentinelLast(q)) = Files(p) \cup Files(q) \cup {"sentinel", "teststatus"}
           /\ SentinelNearEnd(p \o SentinelLast(q))
<1> DEFINE pair == <<File("sentinel"), File("teststatus")>>
           s == p \o SentinelLast(q)
<1>1. /\ File("sentinel") \in WriteSteps /\ File("sentinel").f = "sentinel"
      /\ File("teststatus") \in WriteSteps /\ File("teststatus").f = "teststatus"
    <2>1. "sentinel" \in InstallFiles /\ "teststatus" \in InstallFiles
        BY Names
    <2> QED
        BY <2>1, OneStep, NoTrack
<1>2. /\ pair \in Seq(WriteSteps) /\ Len(pair) = 2 /\ pair[2] = File("teststatus")
      /\ Files(pair) = {"sentinel", "teststatus"}
    BY <1>1, FilesOfShort
<1>3. s = p \o (q \o pair)
    BY DEF SentinelLast
<1> HIDE DEF pair, s
<1>4. q \o pair \in Seq(WriteSteps) /\ Files(q \o pair) = Files(q) \cup Files(pair)
    BY <1>2, FilesOfBoth
<1>5. s \in Seq(WriteSteps) /\ Files(s) = Files(p) \cup Files(q \o pair)
    BY <1>3, <1>4, FilesOfBoth
<1>6. /\ Len(p) \in Nat /\ Len(q) \in Nat /\ Len(s) = Len(p) + Len(q) + 2
      /\ \A i \in 1..Len(p) : s[i] = p[i]
      /\ \A i \in 1..Len(q) : s[Len(p) + i] = q[i]
      /\ s[Len(p) + Len(q) + 2] = pair[2]
    <2> DEFINE r == q \o pair
    <2>1. /\ r \in Seq(WriteSteps) /\ Len(r) = Len(q) + 2 /\ Len(q) \in Nat
          /\ \A i \in 1..Len(q) : r[i] = q[i]
          /\ r[Len(q) + 2] = pair[2]
        <3>1. /\ r \in Seq(WriteSteps) /\ Len(q) \in Nat /\ Len(r) = Len(q) + Len(pair)
              /\ \A i \in 1..Len(q) : r[i] = q[i]
              /\ \A i \in 1..Len(pair) : r[Len(q) + i] = pair[i]
            BY <1>2, OneAfterAnother
        <3> HIDE DEF r
        <3>2. 2 \in 1..Len(pair)
            BY <1>2
        <3> QED
            BY <1>2, <3>1, <3>2
    <2>2. s = p \o r
        BY <1>3
    <2> HIDE DEF r
    <2>3. /\ Len(p) \in Nat /\ Len(s) = Len(p) + Len(r)
          /\ \A i \in 1..Len(p) : s[i] = p[i]
          /\ \A i \in 1..Len(r) : s[Len(p) + i] = r[i]
        BY <2>1, <2>2, OneAfterAnother, ZenonT(40)
    <2>4. Len(s) = Len(p) + Len(q) + 2
        BY <2>1, <2>3
    <2>5. \A i \in 1..Len(q) : i \in 1..Len(r) /\ s[Len(p) + i] = q[i]
        BY <2>1, <2>3
    <2>6. Len(q) + 2 \in 1..Len(r) /\ Len(p) + Len(q) + 2 = Len(p) + (Len(q) + 2)
        BY <2>1, <2>3
    <2> QED
        BY <2>1, <2>3, <2>4, <2>5, <2>6
<1>7. ASSUME NEW i \in 1..(Len(s) - 2) PROVE s[i].f # "sentinel"
    <2>1. CASE i \in 1..Len(p)
        <3>1. s[i].f \in Files(p)
            BY <1>6, <2>1 DEF Files
        <3> QED
            BY <3>1
    <2>2. CASE i - Len(p) \in 1..Len(q)
        <3>1. s[i] = q[i - Len(p)]
            <4>1. PICK j \in 1..Len(q) : j = i - Len(p)
                BY <2>2
            <4>2. i = Len(p) + j
                BY <1>6, <4>1
            <4> QED
                BY <1>6, <4>1, <4>2
        <3>2. s[i].f \in Files(q)
            BY <2>2, <3>1 DEF Files
        <3> QED
            BY <3>2
    <2>3. \A m, n, l \in Nat : l = m + n + 2 =>
              \A j \in 1..(l - 2) : j \in 1..m \/ j - m \in 1..n
        OBVIOUS
    <2>4. i \in 1..Len(p) \/ i - Len(p) \in 1..Len(q)
        BY <1>6, <2>3
    <2> QED
        BY <2>1, <2>2, <2>4
<1>8. s[Len(s)].f = "teststatus"
    BY <1>1, <1>2, <1>6
<1> QED
    BY <1>2, <1>4, <1>5, <1>7, <1>8 DEF s, SentinelNearEnd

(* What is left of such a list; the sentinel at its head has nothing       *)
(* behind it but the test record.                                          *)
LEMMA SentinelNext ==
    ASSUME NEW s \in Seq(WriteSteps), s # <<>>, SentinelNearEnd(s)
    PROVE  /\ SentinelNearEnd(Tail(s))
           /\ Head(s).f = "sentinel" => Files(s) \subseteq {"sentinel", "teststatus"}
<1>1. /\ Tail(s) \in Seq(WriteSteps) /\ Len(Tail(s)) = Len(s) - 1
      /\ Len(s) \in Nat \ {0} /\ Head(s) = s[1]
      /\ Files(s) = {Head(s).f} \cup Files(Tail(s))
      /\ \A i \in 1..Len(Tail(s)) : Tail(s)[i] = s[i + 1]
    BY FilesOfRest, HeadTailProperties, LenProperties, EmptySeq
<1>2. ASSUME NEW i \in 1..(Len(Tail(s)) - 2) PROVE Tail(s)[i].f # "sentinel"
    <2>1. i \in 1..Len(Tail(s)) /\ i + 1 \in 1..(Len(s) - 2)
        BY <1>1
    <2> QED
        BY <1>1, <2>1 DEF SentinelNearEnd
<1>3. ASSUME "sentinel" \in Files(Tail(s)) PROVE Tail(s)[Len(Tail(s))].f = "teststatus"
    <2>1. Len(Tail(s)) \in Nat /\ 1..Len(Tail(s)) # {}
        <3>1. PICK i \in 1..Len(Tail(s)) : "sentinel" = Tail(s)[i].f
            BY <1>3 DEF Files
        <3>2. \A n \in Nat \ {0} : n - 1 \in Nat
            OBVIOUS
        <3>3. Len(Tail(s)) \in Nat
            BY <1>1, <3>2
        <3> QED
            BY <3>1, <3>3
    <2>2. Len(Tail(s)) \in 1..Len(Tail(s)) /\ Len(Tail(s)) + 1 = Len(s)
        BY <1>1, <2>1
    <2>3. Tail(s)[Len(Tail(s))] = s[Len(s)]
        BY <1>1, <2>2
    <2> QED
        BY <1>1, <1>3, <2>3 DEF SentinelNearEnd
<1>4. ASSUME Head(s).f = "sentinel", NEW i \in 1..Len(s) PROVE s[i].f \in {"sentinel", "teststatus"}
    <2>1. ~(1 \in 1..(Len(s) - 2))
        BY <1>1, <1>4 DEF SentinelNearEnd
    <2>2. i = 1 \/ i = Len(s)
        <3>1. \A n \in Nat \ {0} : ~(1 \in 1..(n - 2)) => \A j \in 1..n : j = 1 \/ j = n
            OBVIOUS
        <3> QED
            BY <1>1, <2>1, <3>1
    <2>3. s[Len(s)].f = "teststatus"
        BY <1>1, <1>4 DEF SentinelNearEnd
    <2> QED
        BY <1>1, <1>4, <2>2, <2>3
<1> QED
    BY <1>2, <1>3, <1>4 DEF SentinelNearEnd, Files

(* What a run has ahead when it begins.                                    *)
Whole(todo, opts) ==
    /\ todo \in Seq(WriteSteps)
    /\ (Managed \ (LeftOut(opts) \cup {"cursor"})) \cup {"mcp", "sentinel"} \subseteq Files(todo)
    /\ SentinelNearEnd(todo)

LEMMA NewFiles ==
    ASSUME NEW opts \in Options
    PROVE  Whole(NewProject(opts), opts) /\ "config" \in Files(NewProject(opts))
<1> DEFINE a == Then("config", <<Kbz>>)
           b == Then("docs", <<{"docs"}>>)
           c == Then("readme", <<{"readme"}, Work>>)
           p == <<a, b, c>>
           q == AllSteps(opts, TRUE, opts.cursor \/ disk["cursor"] # None)
<1>1. /\ {"config", "docs", "readme"} \subseteq InstallFiles
      /\ Kbz \subseteq InstallFiles /\ Work \subseteq InstallFiles
    BY Names DEF Kbz, Work, TaskSkills, Roles
<1>2. /\ <<Kbz>> \in Seq(SUBSET InstallFiles) /\ <<{"docs"}>> \in Seq(SUBSET InstallFiles)
      /\ <<{"readme"}, Work>> \in Seq(SUBSET InstallFiles)
    BY <1>1
<1>3. a \in WriteSteps /\ a.f = "config"
    BY <1>1, <1>2, OneStep
<1>4. b \in WriteSteps /\ b.f = "docs"
    BY <1>1, <1>2, OneStep
<1>5. c \in WriteSteps /\ c.f = "readme"
    BY <1>1, <1>2, OneStep
<1> HIDE DEF a, b, c
<1>6. /\ <<a, b>> \in Seq(WriteSteps) /\ Files(<<a, b>>) = {"config", "docs"}
      /\ <<c>> \in Seq(WriteSteps) /\ Files(<<c>>) = {"readme"}
      /\ p = <<a, b>> \o <<c>>
    BY <1>3, <1>4, <1>5, FilesOfShort
<1> HIDE DEF p
<1> DEFINE ab == <<a, b>>
           only == <<c>>
<1> HIDE DEF ab, only
<1>7. p \in Seq(WriteSteps) /\ Files(p) = {"config", "docs", "readme"}
    <2>1. ab \o only \in Seq(WriteSteps) /\ Files(ab \o only) = Files(ab) \cup Files(only)
        BY <1>6, FilesOfBoth DEF ab, only
    <2> QED
        BY <1>6, <2>1 DEF ab, only
<1>8. (opts.cursor \/ disk["cursor"] # None) \in BOOLEAN
    BY DEF Options
<1>9. /\ q \in Seq(WriteSteps) /\ "sentinel" \notin Files(q)
      /\ (Managed \ (LeftOut(opts) \cup {"cursor"})) \cup {"mcp"} \subseteq Files(q)
    BY <1>8, AllFiles
<1>10. NewProject(opts) = p \o SentinelLast(q)
    BY DEF NewProject, p, a, b, c
<1> HIDE DEF q
<1>11. "sentinel" \notin Files(p)
    BY <1>7
<1> DEFINE t == p \o SentinelLast(q)
<1>12. /\ t \in Seq(WriteSteps)
       /\ Files(t) = Files(p) \cup Files(q) \cup {"sentinel", "teststatus"}
       /\ SentinelNearEnd(t)
    BY <1>7, <1>9, <1>11, SentinelAtTheEnd
<1>13. NewProject(opts) = t
    BY <1>10
<1> HIDE DEF t
<1> QED
    BY <1>7, <1>9, <1>12, <1>13 DEF Whole

LEMMA ExistingFiles ==
    ASSUME NEW opts \in Options
    PROVE  /\ Whole(ExistingProject(opts), opts)
           /\ "config" \in Files(ExistingProject(opts)) \/ disk["config"] # None
<1> DEFINE zed == ~KbzExists(disk) \/ disk["zed"] # None
           cursor == opts.cursor \/ disk["cursor"] # None
           p1 == ConfigSteps
           p2 == Steps(~KbzExists(disk), <<File("docs"), File("readme")>>)
           p == p1 \o p2
           q == AllSteps(opts, zed, cursor)
<1>1. \A f \in {"config", "docs", "readme"} : File(f) \in WriteSteps /\ File(f).f = f
    <2>1. {"config", "docs", "readme"} \subseteq InstallFiles
        BY Names
    <2> QED
        BY <2>1, OneStep, NoTrack
<1>2. /\ p1 \in Seq(WriteSteps) /\ Files(p1) \subseteq {"config"}
      /\ "config" \in Files(p1) \/ disk["config"] # None
    <2>1. CASE disk["config"] \in {None, Empty, User}
        <3>1. p1 = <<File("config")>>
            BY <2>1 DEF ConfigSteps
        <3> QED
            BY <1>1, <3>1, FilesOfShort
    <2>2. CASE disk["config"] \notin {None, Empty, User}
        <3>1. p1 = <<>>
            BY <2>2 DEF ConfigSteps
        <3> QED
            BY <2>2, <3>1, FilesOfShort, EmptySeq
    <2> QED
        BY <2>1, <2>2
<1>3. p2 \in Seq(WriteSteps) /\ Files(p2) \subseteq {"docs", "readme"}
    <2>1. /\ <<File("docs"), File("readme")>> \in Seq(WriteSteps)
          /\ Files(<<File("docs"), File("readme")>>) = {"docs", "readme"}
        BY <1>1, FilesOfShort
    <2>2. (~KbzExists(disk)) \in BOOLEAN
        BY DEF KbzExists
    <2> QED
        BY <2>1, <2>2, Wanted
<1>4. zed \in BOOLEAN /\ cursor \in BOOLEAN
    BY DEF Options, KbzExists
<1>5. /\ q \in Seq(WriteSteps) /\ "sentinel" \notin Files(q)
      /\ (Managed \ (LeftOut(opts) \cup {"cursor"})) \cup {"mcp"} \subseteq Files(q)
    BY <1>4, AllFiles
<1>6. ExistingProject(opts) = p \o SentinelLast(q)
    BY DEF ExistingProject
<1> HIDE DEF p1, p2, q
<1>7. p \in Seq(WriteSteps) /\ Files(p) = Files(p1) \cup Files(p2)
    BY <1>2, <1>3, FilesOfBoth
<1> HIDE DEF p
<1>8. "sentinel" \notin Files(p)
    BY <1>2, <1>3, <1>7
<1>9. /\ ExistingProject(opts) \in Seq(WriteSteps)
      /\ Files(ExistingProject(opts)) = Files(p) \cup Files(q) \cup {"sentinel", "teststatus"}
      /\ SentinelNearEnd(ExistingProject(opts))
    BY <1>5, <1>6, <1>7, <1>8, SentinelAtTheEnd
<1> QED
    BY <1>2, <1>5, <1>7, <1>9 DEF Whole

LEMMA UpdateFiles ==
    /\ UpdateSkills \in Seq(WriteSteps) /\ "sentinel" \notin Files(UpdateSkills)
    /\ Skills \cup TaskSkills \cup {"bindings", "claude", "openai", "wrapper"} \subseteq Files(UpdateSkills)
<1> DEFINE s1 == <<File("bindings")>>
           s2 == InstallSkills(<<>>)
           s3 == Steps(disk["role"] # None, <<File("role")>>)
           s4 == <<File("claude"), File("openai"), File("wrapper")>>
           s5 == Steps(disk["cursor"] # None, <<File("cursor")>>)
<1>1. \A f \in {"bindings", "role", "claude", "openai", "wrapper", "cursor"} :
         File(f) \in WriteSteps /\ File(f).f = f
    <2>1. {"bindings", "role", "claude", "openai", "wrapper", "cursor"} \subseteq InstallFiles
        BY Names
    <2> QED
        BY <2>1, OneStep, NoTrack
<1>2. s1 \in Seq(WriteSteps) /\ Files(s1) = {"bindings"}
    BY <1>1, FilesOfShort
<1>3. s2 \in Seq(WriteSteps) /\ Files(s2) = Skills \cup {"taskskill"}
    BY NoTrack, SkillFiles
<1>4. s3 \in Seq(WriteSteps) /\ Files(s3) \subseteq {"role"}
    <2>1. <<File("role")>> \in Seq(WriteSteps) /\ Files(<<File("role")>>) = {"role"}
        BY <1>1, FilesOfShort
    <2> QED
        BY <2>1, Wanted
<1>5. s4 \in Seq(WriteSteps) /\ Files(s4) = {"claude", "openai", "wrapper"}
    <2>1. /\ <<File("claude"), File("openai")>> \in Seq(WriteSteps)
          /\ Files(<<File("claude"), File("openai")>>) = {"claude", "openai"}
          /\ <<File("wrapper")>> \in Seq(WriteSteps) /\ Files(<<File("wrapper")>>) = {"wrapper"}
        BY <1>1, FilesOfShort
    <2> DEFINE x == <<File("claude"), File("openai")>>
               y == <<File("wrapper")>>
    <2>2. s4 = x \o y
        OBVIOUS
    <2> HIDE DEF s4, x, y
    <2>3. x \o y \in Seq(WriteSteps) /\ Files(x \o y) = Files(x) \cup Files(y)
        BY <2>1, FilesOfBoth DEF x, y
    <2>4. Files(x) = {"claude", "openai"} /\ Files(y) = {"wrapper"}
        BY <2>1 DEF x, y
    <2> QED
        BY <2>2, <2>3, <2>4
<1>6. s5 \in Seq(WriteSteps) /\ Files(s5) \subseteq {"cursor"}
    <2>1. <<File("cursor")>> \in Seq(WriteSteps) /\ Files(<<File("cursor")>>) = {"cursor"}
        BY <1>1, FilesOfShort
    <2> QED
        BY <2>1, Wanted
<1>7. UpdateSkills = s1 \o s2 \o s3 \o s4 \o s5
    BY DEF UpdateSkills
<1> HIDE DEF s1, s2, s3, s4, s5
<1>8. s1 \o s2 \in Seq(WriteSteps) /\ Files(s1 \o s2) = Files(s1) \cup Files(s2)
    BY <1>2, <1>3, FilesOfBoth
<1>9. s1 \o s2 \o s3 \in Seq(WriteSteps) /\ Files(s1 \o s2 \o s3) = Files(s1 \o s2) \cup Files(s3)
    BY <1>4, <1>8, FilesOfBoth
<1>10. /\ s1 \o s2 \o s3 \o s4 \in Seq(WriteSteps)
       /\ Files(s1 \o s2 \o s3 \o s4) = Files(s1 \o s2 \o s3) \cup Files(s4)
    BY <1>5, <1>9, FilesOfBoth
<1>11. /\ UpdateSkills \in Seq(WriteSteps)
       /\ Files(UpdateSkills) = Files(s1 \o s2 \o s3 \o s4) \cup Files(s5)
    BY <1>6, <1>7, <1>10, FilesOfBoth
<1>12. Files(UpdateSkills) = Files(s1) \cup Files(s2) \cup Files(s3) \cup Files(s4) \cup Files(s5)
    BY <1>8, <1>9, <1>10, <1>11
<1> QED
    BY <1>2, <1>3, <1>4, <1>5, <1>6, <1>11, <1>12, Names DEF TaskSkills

-----------------------------------------------------------------------------
(* What a write leaves.                                                    *)

LEMMA Contents ==
    /\ \A v : /\ Made(v) \notin {None, Empty, User, Wired} /\ Made(v)[1] = "made" /\ Made(v)[2] = v
              /\ IsVersion(v) => IsContent(Made(v))
    /\ None # Empty /\ User \notin {None, Empty} /\ Wired \notin {None, Empty, User}
    /\ \A c \in {None, Empty, User, Wired} : c[1] # "made" /\ IsContent(c)
    /\ IsVersion(Dev) /\ IsVersion(<<1, 0>>)
    BY DEF Made, None, Empty, User, Wired, IsContent, IsVersion, Dev

LEMMA Written ==
    ASSUME InstallTypeOK, NEW f \in InstallFiles, NEW b \in Binaries
    PROVE  /\ IsContent(WriteFile(disk, f, b)) /\ WriteFile(disk, f, b) # None
           /\ f \in Managed => WriteFile(disk, f, b) = InstallArtifact(disk, f, b)
<1>1. /\ IsVersion(b) /\ IsVersion(CurrentValue("agents", b)) /\ IsVersion(CurrentValue(f, b))
      /\ IsContent(disk[f]) /\ IsVersion(<<1, 0>>)
    BY InstallAssumption, Contents DEF InstallTypeOK, CurrentValue
<1>2. \A v : IsVersion(v) => IsContent(Made(v)) /\ Made(v) # None
    BY Contents
<1>3. CASE f \in Managed
    BY <1>1, <1>2, <1>3 DEF WriteFile, InstallArtifact, CompareManaged
<1>4. CASE f \notin Managed /\ f = "mcp"
    BY <1>1, <1>2, <1>4 DEF WriteFile, WriteMCPConfig
<1>5. CASE f \notin Managed /\ f = "zed"
    BY <1>1, <1>2, <1>5 DEF WriteFile, WriteZedConfig
<1>6. CASE f \notin Managed /\ f \notin {"mcp", "zed"}
    BY <1>1, <1>2, <1>6 DEF WriteFile, WriteOnce
<1> QED
    BY <1>3, <1>4, <1>5, <1>6

-----------------------------------------------------------------------------
(* The steps.                                                              *)

LEMMA RunKnown ==
    ASSUME InstallTypeOK, run.st \in {"writing", "undoing", "done"}
    PROVE  run \in Runs
    BY DEF InstallTypeOK

LEMMA StartFacts ==
    ASSUME InstallTypeOK, StartRun
    PROVE  \E opts \in Options, b \in Binaries :
               /\ run' \in Runs /\ run'.st = "writing" /\ run'.opts = opts /\ run'.binary = b
               /\ \/ opts.update /\ run'.todo = UpdateSkills /\ ~run'.new /\ skipped' = skipped
                  \/ /\ ~opts.update /\ skipped' = skipped \cup LeftOut(opts)
                     /\ \/ /\ run'.new /\ ~KbzExists(disk) /\ run'.todo = NewProject(opts)
                        \/ ~run'.new /\ run'.todo = ExistingProject(opts)
<1> DEFINE new == ~KbzExists(disk) /\ ~HasCommits
           todo(o) == IF o.update THEN UpdateSkills ELSE IF new THEN NewProject(o) ELSE ExistingProject(o)
<1>1. PICK opts \in iscript.opts, b \in Binaries :
          /\ run' = [st |-> "writing", binary |-> b, opts |-> opts, new |-> new /\ ~opts.update,
                     todo |-> todo(opts), tracked |-> <<>>]
          /\ skipped' = skipped \cup (IF opts.update THEN {} ELSE LeftOut(opts))
    BY DEF StartRun
<1>2. opts \in Options
    BY <1>1, InstallAssumption DEF InstallTypeOK
<1>3. todo(opts) \in Seq(WriteSteps)
    BY <1>2, NewFiles, ExistingFiles, UpdateFiles DEF Whole
<1>4. (new /\ ~opts.update) \in BOOLEAN /\ opts.update \in BOOLEAN
    BY <1>2 DEF Options
<1> HIDE DEF todo, new
<1>5. /\ run' \in Runs /\ run'.st = "writing" /\ run'.opts = opts /\ run'.binary = b
      /\ run'.todo = todo(opts) /\ run'.new = (new /\ ~opts.update)
    BY <1>1, <1>2, <1>3, <1>4, NoTrack DEF Runs
<1>6. CASE opts.update
    <2>1. run'.todo = UpdateSkills /\ ~run'.new /\ skipped' = skipped
        BY <1>1, <1>5, <1>6 DEF todo
    <2> QED
        BY <1>2, <1>5, <1>6, <2>1
<1>7. CASE ~opts.update /\ new
    <2>1. run'.todo = NewProject(opts) /\ run'.new /\ ~KbzExists(disk) /\ skipped' = skipped \cup LeftOut(opts)
        BY <1>1, <1>5, <1>7 DEF todo, new
    <2> QED
        BY <1>2, <1>5, <1>7, <2>1
<1>8. CASE ~opts.update /\ ~new
    <2>1. run'.todo = ExistingProject(opts) /\ ~run'.new /\ skipped' = skipped \cup LeftOut(opts)
        BY <1>1, <1>5, <1>8 DEF todo
    <2> QED
        BY <1>2, <1>5, <1>8, <2>1
<1> QED
    BY <1>4, <1>6, <1>7, <1>8

(* A write changes one file, to what WriteFile makes of it.                *)
LEMMA WriteFacts ==
    ASSUME InstallTypeOK, WriteStep
    PROVE  \E f \in InstallFiles :
               /\ run \in Runs /\ run.st = "writing" /\ run.todo # <<>>
               /\ run' \in Runs /\ run'.st = "writing" /\ run'.todo = Tail(run.todo)
               /\ run'.opts = run.opts /\ run'.binary = run.binary /\ run'.new = run.new
               /\ f = Head(run.todo).f /\ Files(run.todo) = {f} \cup Files(run'.todo)
               /\ DOMAIN disk' = InstallFiles /\ disk'[f] = WriteFile(disk, f, run.binary)
               /\ \A g \in InstallFiles \ {f} : disk'[g] = disk[g]
<1>1. /\ run.st = "writing" /\ run.todo # <<>>
      /\ disk' = [disk EXCEPT ![Head(run.todo).f] = WriteFile(disk, Head(run.todo).f, run.binary)]
      /\ run' = [run EXCEPT !.todo = Tail(@), !.tracked = @ \o Head(run.todo).track]
    BY DEF WriteStep
<1>2. run \in Runs
    BY <1>1, RunKnown
<1>3. /\ run.todo \in Seq(WriteSteps) /\ run.tracked \in Seq(SUBSET InstallFiles)
    BY <1>2 DEF Runs
<1>4. /\ Head(run.todo) \in WriteSteps /\ Tail(run.todo) \in Seq(WriteSteps)
      /\ Files(run.todo) = {Head(run.todo).f} \cup Files(Tail(run.todo))
    BY <1>1, <1>3, FilesOfRest
<1>5. Head(run.todo).f \in InstallFiles /\ Head(run.todo).track \in Seq(SUBSET InstallFiles)
    BY <1>4 DEF WriteSteps
<1>6. run.tracked \o Head(run.todo).track \in Seq(SUBSET InstallFiles)
    BY <1>3, <1>5
<1>7. /\ run' \in Runs /\ run'.st = "writing" /\ run'.todo = Tail(run.todo)
      /\ run'.opts = run.opts /\ run'.binary = run.binary /\ run'.new = run.new
    BY <1>1, <1>2, <1>4, <1>6 DEF Runs
<1>8. DOMAIN disk = InstallFiles
    BY DEF InstallTypeOK
<1> QED
    BY <1>1, <1>2, <1>4, <1>5, <1>7, <1>8

(* A fault while files are written leaves each as it was or empty, and the *)
(* sentinel as it was but when it is the one being written.  One while     *)
(* files are taken back leaves each as it was or removed.                  *)
TookBack ==
    /\ \A g \in InstallFiles : disk'[g] \in {disk[g], None}
    /\ disk'["sentinel"] # None => \A g \in InstallFiles \ Excused' : disk'[g] = disk[g]
    /\ disk'["sentinel"] # None => Excused \subseteq Excused'

LEMMA TakenBack ==
    ASSUME InstallTypeOK, NEW part \in SUBSET InstallFiles, TakeBack(part), UNCHANGED <<removed, skipped>>
    PROVE  DOMAIN disk' = InstallFiles /\ TookBack
<1>1. /\ disk' = [f \in InstallFiles |-> IF f \in part THEN None ELSE disk[f]]
      /\ undone' = IF "sentinel" \in part THEN {} ELSE undone \cup part
    BY DEF TakeBack
<1>2. "sentinel" \in InstallFiles
    BY Names
<1>3. CASE "sentinel" \in part
    <2>1. disk'["sentinel"] = None
        BY <1>1, <1>2, <1>3
    <2> QED
        BY <1>1, <2>1 DEF TookBack
<1>4. CASE "sentinel" \notin part
    <2>1. Excused' = Excused \cup part
        BY <1>1, <1>4 DEF Excused
    <2> QED
        BY <1>1, <2>1 DEF TookBack
<1> QED
    BY <1>3, <1>4

LEMMA LastPath ==
    ASSUME NEW t \in Seq(SUBSET InstallFiles), t # <<>>
    PROVE  Last(t) \in SUBSET InstallFiles
<1>1. Len(t) \in 1..Len(t)
    BY LenProperties, EmptySeq
<1> QED
    BY <1>1, ElementOfSeq DEF Last

LEMMA FaultFacts ==
    ASSUME InstallTypeOK, FailStep \/ DieInRun
    PROVE  /\ DOMAIN disk' = InstallFiles
           /\ \/ /\ run.st = "writing" /\ undone' = undone
                 /\ \A g \in InstallFiles : disk'[g] \in {disk[g], Empty}
                 /\ \/ disk'["sentinel"] = disk["sentinel"]
                    \/ run.todo \in Seq(WriteSteps) /\ run.todo # <<>> /\ Head(run.todo).f = "sentinel"
              \/ run.st = "undoing" /\ TookBack
           /\ \/ run'.st \in {"undoing", "failed"} /\ run' \in Runs
              \/ run'.st = "died" /\ run' \in [st : {"failed", "died"}, new : BOOLEAN]
           /\ UNCHANGED <<removed, skipped, iscript>>
<1>1. run.st \in {"writing", "undoing"} /\ run \in Runs
    BY RunKnown DEF FailStep, DieInRun
<1>2. run.new \in BOOLEAN /\ run.todo \in Seq(WriteSteps) /\ DOMAIN disk = InstallFiles
    BY <1>1 DEF Runs, InstallTypeOK
<1>3. \A f \in InstallFiles : Torn(f) \subseteq {disk[f], Empty}
    BY DEF Torn
<1>4. ASSUME run.todo # <<>>,
             \E c \in Torn(Head(run.todo).f) : disk' = [disk EXCEPT ![Head(run.todo).f] = c]
      PROVE  /\ DOMAIN disk' = InstallFiles
             /\ \A g \in InstallFiles : disk'[g] \in {disk[g], Empty}
             /\ \/ disk'["sentinel"] = disk["sentinel"]
                \/ run.todo \in Seq(WriteSteps) /\ run.todo # <<>> /\ Head(run.todo).f = "sentinel"
    <2>1. Head(run.todo).f \in InstallFiles
        BY <1>2, <1>4, FilesOfRest DEF WriteSteps
    <2>2. PICK c \in Torn(Head(run.todo).f) : disk' = [disk EXCEPT ![Head(run.todo).f] = c]
        BY <1>4
    <2> DEFINE f == Head(run.todo).f
    <2>3. "sentinel" \in InstallFiles
        BY Names
    <2>4. f = "sentinel" \/ f # "sentinel"
        OBVIOUS
    <2>5. f = "sentinel" => run.todo \in Seq(WriteSteps) /\ run.todo # <<>> /\ Head(run.todo).f = "sentinel"
        BY <1>2, <1>4
    <2> HIDE DEF f
    <2>6. f \in InstallFiles /\ c \in Torn(f) /\ disk' = [disk EXCEPT ![f] = c]
        BY <2>1, <2>2 DEF f
    <2>7. c \in {disk[f], Empty}
        BY <1>3, <2>6
    <2>8. DOMAIN disk' = InstallFiles /\ \A g \in InstallFiles : disk'[g] \in {disk[g], Empty}
        BY <1>2, <2>6, <2>7
    <2>9. f # "sentinel" => disk'["sentinel"] = disk["sentinel"]
        BY <1>2, <2>3, <2>6
    <2> QED
        BY <2>4, <2>5, <2>8, <2>9
<1>5. CASE FailStep
    <2>1. /\ run.st = "writing" /\ run.todo # <<>> /\ run' = [run EXCEPT !.st = IF run.new THEN "undoing" ELSE "failed"]
          /\ \E c \in Torn(Head(run.todo).f) : disk' = [disk EXCEPT ![Head(run.todo).f] = c]
          /\ UNCHANGED <<removed, skipped, undone, iscript>>
        BY <1>5 DEF FailStep
    <2>2. run' \in Runs /\ run'.st \in {"undoing", "failed"}
        <3>1. CASE run.new
            <4>1. run' = [run EXCEPT !.st = "undoing"]
                BY <2>1, <3>1
            <4> QED
                BY <1>1, <4>1 DEF Runs
        <3>2. CASE ~run.new
            <4>1. run' = [run EXCEPT !.st = "failed"]
                BY <2>1, <3>2
            <4> QED
                BY <1>1, <4>1 DEF Runs
        <3> QED
            BY <3>1, <3>2
    <2> QED
        BY <1>4, <2>1, <2>2
<1>6. CASE DieInRun
    <2>1. /\ \/ UNCHANGED <<disk, undone>>
             \/ /\ run.st = "writing" /\ run.todo # <<>> /\ undone' = undone
                /\ \E c \in Torn(Head(run.todo).f) : disk' = [disk EXCEPT ![Head(run.todo).f] = c]
             \/ /\ run.st = "undoing" /\ run.tracked # <<>>
                /\ \E part \in SUBSET Last(run.tracked) : TakeBack(part)
          /\ run' = [st |-> "died", new |-> run.new]
          /\ UNCHANGED <<removed, skipped, iscript>>
        BY <1>6 DEF DieInRun
    <2>2. run'.st = "died" /\ run' \in [st : {"failed", "died"}, new : BOOLEAN]
        BY <1>2, <2>1
    <2>3. CASE UNCHANGED <<disk, undone>>
        <3>1. Excused' = Excused
            BY <2>1, <2>3 DEF Excused
        <3>2. TookBack
            BY <2>3, <3>1 DEF TookBack
        <3> QED
            BY <1>1, <1>2, <2>1, <2>2, <2>3, <3>2
    <2>4. CASE run.st = "writing" /\ run.todo # <<>> /\ undone' = undone
               /\ \E c \in Torn(Head(run.todo).f) : disk' = [disk EXCEPT ![Head(run.todo).f] = c]
        BY <1>4, <2>1, <2>2, <2>4
    <2>5. CASE run.st = "undoing" /\ run.tracked # <<>> /\ \E part \in SUBSET Last(run.tracked) : TakeBack(part)
        <3>1. run.tracked \in Seq(SUBSET InstallFiles)
            BY <1>1 DEF Runs
        <3>2. PICK part \in SUBSET Last(run.tracked) : TakeBack(part)
            BY <2>5
        <3>3. part \in SUBSET InstallFiles
            BY <2>5, <3>1, <3>2, LastPath
        <3>4. DOMAIN disk' = InstallFiles /\ TookBack
            BY <2>1, <3>2, <3>3, TakenBack
        <3> QED
            BY <2>1, <2>2, <2>5, <3>4
    <2> QED
        BY <2>1, <2>3, <2>4, <2>5
<1> QED
    BY <1>5, <1>6

LEMMA UndoFacts ==
    ASSUME InstallTypeOK, UndoStep
    PROVE  /\ DOMAIN disk' = InstallFiles /\ TookBack
           /\ run.st = "undoing" /\ run' \in Runs /\ run'.st \in {"undoing", "failed"}
           /\ UNCHANGED <<removed, skipped, iscript>>
<1>1. run.st = "undoing" /\ run \in Runs /\ DOMAIN disk = InstallFiles /\ UNCHANGED <<removed, skipped, iscript>>
    BY RunKnown DEF UndoStep, InstallTypeOK
<1>2. CASE run.tracked = <<>>
    <2>1. run' = [run EXCEPT !.st = "failed"] /\ UNCHANGED <<disk, undone>>
        BY <1>2 DEF UndoStep
    <2>2. run' \in Runs /\ run'.st = "failed"
        BY <1>1, <2>1 DEF Runs
    <2>3. Excused' = Excused
        BY <1>1, <2>1 DEF Excused
    <2> QED
        BY <1>1, <2>1, <2>2, <2>3 DEF TookBack
<1>3. CASE run.tracked # <<>>
    <2>1. TakeBack(Last(run.tracked)) /\ run' = [run EXCEPT !.tracked = Front(@)]
        BY <1>3 DEF UndoStep
    <2>2. run.tracked \in Seq(SUBSET InstallFiles)
        BY <1>1 DEF Runs
    <2>3. Front(run.tracked) \in Seq(SUBSET InstallFiles)
        BY <1>3, <2>2, AllButLast DEF Front
    <2>4. run' \in Runs /\ run'.st = "undoing"
        BY <1>1, <2>1, <2>3 DEF Runs
    <2>5. DOMAIN disk' = InstallFiles /\ TookBack
        BY <1>1, <1>3, <2>1, <2>2, LastPath, TakenBack
    <2> QED
        BY <1>1, <2>4, <2>5
<1> QED
    BY <1>2, <1>3

LEMMA EditFacts ==
    ASSUME InstallTypeOK, Edit
    PROVE  \E f \in iscript.people :
               /\ f \in InstallFiles /\ DOMAIN disk' = InstallFiles
               /\ \A g \in InstallFiles \ {f} : disk'[g] = disk[g]
               /\ \/ disk'[f] = User /\ removed' = removed
                  \/ disk'[f] = None /\ removed' = removed \cup {f}
               /\ run' = [st |-> "none"] /\ UNCHANGED <<skipped, iscript>>
<1>1. PICK f \in iscript.people :
          \/ disk' = [disk EXCEPT ![f] = User] /\ removed' = removed
          \/ disk' = [disk EXCEPT ![f] = None] /\ removed' = removed \cup {f}
    BY DEF Edit
<1>2. f \in InstallFiles /\ DOMAIN disk = InstallFiles
    BY InstallAssumption DEF InstallTypeOK
<1>3. run' = [st |-> "none"] /\ UNCHANGED <<skipped, iscript>>
    BY DEF Edit
<1>4. CASE disk' = [disk EXCEPT ![f] = User] /\ removed' = removed
    BY <1>2, <1>3, <1>4
<1>5. CASE disk' = [disk EXCEPT ![f] = None] /\ removed' = removed \cup {f}
    BY <1>2, <1>3, <1>5
<1> QED
    BY <1>1, <1>4, <1>5

(* Files have contents the tool can tell apart, and a run under way knows  *)
(* its binary, its options and the files it has left to write.             *)
THEOREM InstallTypeCorrect == InstallSpec => []InstallTypeOK
<1>1. InstallInit => InstallTypeOK
    BY InstallAssumption DEF InstallInit, NothingRun, InstallTypeOK
<1>2. ASSUME InstallTypeOK, [InstallNext]_inst
      PROVE  InstallTypeOK'
    <2>1. CASE StartRun
        <3>1. run' \in Runs /\ UNCHANGED <<disk, iscript>>
            BY <1>2, <2>1, StartFacts DEF StartRun
        <3> QED
            BY <1>2, <3>1 DEF InstallTypeOK
    <2>2. CASE RefuseRun
        <3>1. run' \in [st : {"failed", "died"}, new : BOOLEAN] /\ UNCHANGED <<disk, iscript>>
            BY <2>2 DEF RefuseRun
        <3> QED
            BY <1>2, <3>1 DEF InstallTypeOK
    <2>3. CASE WriteStep
        <3>1. PICK f \in InstallFiles :
                  /\ run \in Runs /\ run' \in Runs
                  /\ DOMAIN disk' = InstallFiles /\ disk'[f] = WriteFile(disk, f, run.binary)
                  /\ \A g \in InstallFiles \ {f} : disk'[g] = disk[g]
            BY <1>2, <2>3, WriteFacts
        <3>2. run.binary \in Binaries
            BY <3>1 DEF Runs
        <3>3. IsContent(disk'[f])
            BY <1>2, <3>1, <3>2, Written
        <3>4. \A g \in InstallFiles \ {f} : IsContent(disk'[g])
            BY <1>2, <3>1 DEF InstallTypeOK
        <3>5. iscript' = iscript
            BY <2>3 DEF WriteStep
        <3> QED
            BY <1>2, <3>1, <3>3, <3>4, <3>5 DEF InstallTypeOK
    <2>4. CASE EndRun
        <3>1. run \in Runs /\ run' = [run EXCEPT !.st = "done"] /\ UNCHANGED <<disk, iscript>>
            BY <1>2, <2>4, RunKnown DEF EndRun
        <3>2. run' \in Runs
            BY <3>1 DEF Runs
        <3> QED
            BY <1>2, <3>1, <3>2 DEF InstallTypeOK
    <2>5. CASE FailStep \/ DieInRun
        <3>1. /\ DOMAIN disk' = InstallFiles /\ \A g \in InstallFiles : disk'[g] \in {disk[g], Empty, None}
              /\ run' \in Runs \cup [st : {"failed", "died"}, new : BOOLEAN] /\ iscript' = iscript
            BY <1>2, <2>5, FaultFacts DEF TookBack
        <3>2. \A g \in InstallFiles : IsContent(disk'[g])
            BY <1>2, <3>1, Contents DEF InstallTypeOK
        <3> QED
            BY <1>2, <3>1, <3>2 DEF InstallTypeOK
    <2>6. CASE UndoStep
        <3>1. /\ DOMAIN disk' = InstallFiles /\ \A g \in InstallFiles : disk'[g] \in {disk[g], None}
              /\ run' \in Runs /\ iscript' = iscript
            BY <1>2, <2>6, UndoFacts DEF TookBack
        <3>2. \A g \in InstallFiles : IsContent(disk'[g])
            BY <1>2, <3>1, Contents DEF InstallTypeOK
        <3> QED
            BY <1>2, <3>1, <3>2 DEF InstallTypeOK
    <2>7. CASE Edit
        <3>1. PICK f \in iscript.people :
                  /\ DOMAIN disk' = InstallFiles /\ \A g \in InstallFiles \ {f} : disk'[g] = disk[g]
                  /\ disk'[f] \in {User, None} /\ run' = [st |-> "none"] /\ iscript' = iscript
            BY <1>2, <2>7, EditFacts
        <3>2. \A g \in InstallFiles : IsContent(disk'[g])
            BY <1>2, <3>1, Contents DEF InstallTypeOK
        <3> QED
            BY <1>2, <3>1, <3>2 DEF InstallTypeOK
    <2>8. CASE Commit
        BY <1>2, <2>8 DEF Commit, InstallTypeOK
    <2>9. CASE UNCHANGED inst
        BY <1>2, <2>9 DEF inst, InstallTypeOK
    <2> QED
        BY <1>2, <2>1, <2>2, <2>3, <2>4, <2>5, <2>6, <2>7, <2>8, <2>9 DEF InstallNext
<1> QED
    BY <1>1, <1>2, PTL DEF InstallSpec

-----------------------------------------------------------------------------
(* Files move forward, and a run that ended well left what it was asked    *)
(* for.                                                                    *)

(* What a write makes of a managed file: it is there, it is not older than *)
(* the tool, and it is changed only from nothing or from an older version. *)
LEMMA Forward ==
    ASSUME InstallTypeOK, NEW f \in Managed, NEW b \in Binaries
    PROVE  LET old == disk[f]
               new == CurrentValue(f, b)
               left == InstallArtifact(disk, f, b)
           IN  /\ left # old => old # User /\ (old[1] = "made" => Older(old[2], left[2]))
               /\ left \notin {None, Empty}
               /\ left[1] = "made" /\ Dev \notin {left[2], new} => ~Older(left[2], new)
<1> DEFINE old == disk[f]
           new == CurrentValue(f, b)
           left == InstallArtifact(disk, f, b)
<1>1. IsContent(old) /\ IsVersion(new)
    BY Names, InstallAssumption, Contents DEF InstallTypeOK, CurrentValue
<1>2. new # Dev => ~Older(new, new)
    <2>1. CASE new \in Nat \X Nat
        <3>1. new[1] \in Nat /\ new[2] \in Nat
            BY <2>1
        <3> QED
            BY <3>1 DEF Older
    <2> QED
        BY <1>1, <2>1 DEF IsVersion
<1>3. Made(new) \notin {None, Empty, User} /\ Made(new)[1] = "made" /\ Made(new)[2] = new
    BY Contents
<1>4. left = IF CompareManaged(old, new) \in {"Create", "Overwrite"} THEN Made(new) ELSE old
    BY DEF InstallArtifact
<1> HIDE DEF left, old, new
<1>5. CASE old \in {None, Empty}
    <2>1. CompareManaged(old, new) = "Create" /\ old # User /\ old[1] # "made"
        BY <1>5, Contents DEF CompareManaged
    <2> QED
        BY <1>2, <1>3, <1>4, <2>1 DEF left, old, new
<1>6. CASE old \notin {None, Empty} /\ ~FindMarker(old)
    <2>1. CompareManaged(old, new) = "WarnSkip" /\ old[1] # "made"
        BY <1>6 DEF CompareManaged, FindMarker
    <2> QED
        BY <1>4, <1>6, <2>1 DEF left, old, new
<1>7. CASE old \notin {None, Empty} /\ FindMarker(old)
    <2>1. CompareManaged(old, new) = CompareSemver(old[2], new) /\ old[1] = "made" /\ old # User
        BY <1>7, Contents DEF CompareManaged, FindMarker
    <2>2. CASE old[2] # Dev /\ new # Dev /\ Older(old[2], new)
        <3>1. CompareSemver(old[2], new) = "Overwrite"
            BY <2>2 DEF CompareSemver
        <3>2. left = Made(new)
            BY <1>4, <2>1, <3>1
        <3> QED
            BY <1>2, <1>3, <2>1, <2>2, <3>2 DEF left, old, new
    <2>3. CASE ~(old[2] # Dev /\ new # Dev /\ Older(old[2], new))
        <3>1. CompareSemver(old[2], new) \in {"WarnSkip", "NoOp"}
            BY <2>3 DEF CompareSemver
        <3>2. left = old
            BY <1>4, <2>1, <3>1
        <3> QED
            BY <1>7, <2>3, <3>2 DEF left, old, new
    <2> QED
        BY <2>2, <2>3
<1> QED
    BY <1>5, <1>6, <1>7

(* A file of people is never written over, and a managed one is replaced   *)
(* only by a newer version, but for the removal of a failed first init     *)
(* (compare.go): the tool can be run in any order of versions.             *)
THEOREM FilesNeverGoBack == InstallSpec => FilesMoveForward
<1>1. ASSUME InstallTypeOK, [InstallNext]_inst, NEW f \in Managed,
             run.st = "writing", disk'[f] # disk[f], disk'[f] # Empty
      PROVE  disk[f] # User /\ (disk[f][1] = "made" => Older(disk[f][2], disk'[f][2]))
    <2>1. f \in InstallFiles
        BY Names
    <2>2. ~(FailStep \/ DieInRun) /\ ~UndoStep
        BY <1>1, <2>1, FaultFacts, UndoFacts
    <2>3. ~(StartRun \/ RefuseRun \/ EndRun \/ Edit \/ Commit \/ UNCHANGED inst)
        BY <1>1 DEF StartRun, RefuseRun, EndRun, Edit, Commit, NotRunning, inst
    <2>4. WriteStep
        BY <1>1, <2>2, <2>3 DEF InstallNext
    <2>5. PICK g \in InstallFiles :
              /\ run \in Runs /\ disk'[g] = WriteFile(disk, g, run.binary)
              /\ \A h \in InstallFiles \ {g} : disk'[h] = disk[h]
        BY <1>1, <2>4, WriteFacts
    <2>6. run.binary \in Binaries /\ g = f
        BY <1>1, <2>1, <2>5 DEF Runs
    <2>7. disk'[f] = InstallArtifact(disk, f, run.binary)
        BY <1>1, <2>1, <2>5, <2>6, Written
    <2> QED
        BY <1>1, <2>6, <2>7, Forward
<1>2. InstallTypeOK /\ [InstallNext]_inst =>
         [\A f \in Managed : run.st = "writing" /\ disk'[f] # disk[f] /\ disk'[f] # Empty =>
             /\ disk[f] # User
             /\ disk[f][1] = "made" => Older(disk[f][2], disk'[f][2])]_inst
    BY <1>1
<1> QED
    BY <1>2, InstallTypeCorrect, PTL DEF InstallSpec, FilesMoveForward

(* Whatever was on the disk and however many runs before it were cut, a    *)
(* run that ended well leaves no file it was asked for missing, empty or   *)
(* older than the tool that ran (runNewProject, runExistingProject).       *)
THEOREM DoneIsCurrent == InstallSpec => []DoneMeansCurrent
<1>1. InstallInit => AskedOrAhead
    BY DEF InstallInit, NothingRun, AskedOrAhead
<1>2. ASSUME InstallTypeOK, AskedOrAhead, [InstallNext]_inst
      PROVE  AskedOrAhead'
    <2>1. CASE StartRun
        <3>1. PICK opts \in Options, b \in Binaries :
                  /\ run'.st = "writing" /\ run'.opts = opts
                  /\ \/ opts.update /\ run'.todo = UpdateSkills
                     \/ /\ ~opts.update
                        /\ run'.todo = NewProject(opts) \/ run'.todo = ExistingProject(opts)
            BY <1>2, <2>1, StartFacts
        <3>2. CASE opts.update
            <4>1. Asked' \subseteq Files(run'.todo)
                BY <3>1, <3>2, UpdateFiles DEF Asked
            <4> QED
                BY <3>1, <4>1 DEF AskedOrAhead
        <3>3. CASE ~opts.update
            <4>1. Whole(run'.todo, opts)
                BY <3>1, <3>3, NewFiles, ExistingFiles
            <4>2. Asked' = Managed \ (LeftOut(opts) \cup {"cursor"})
                BY <3>1, <3>3 DEF Asked
            <4>3. Asked' \subseteq Files(run'.todo)
                BY <4>1, <4>2 DEF Whole
            <4> QED
                BY <3>1, <4>3 DEF AskedOrAhead
        <3> QED
            BY <3>2, <3>3
    <2>2. CASE RefuseRun \/ Edit
        <3>1. run'.st \notin {"writing", "done"}
            BY <2>2 DEF RefuseRun, Edit
        <3> QED
            BY <3>1 DEF AskedOrAhead
    <2>3. CASE WriteStep
        <3>1. PICK f \in InstallFiles :
                  /\ run \in Runs /\ run.st = "writing" /\ run'.st = "writing"
                  /\ run'.opts = run.opts /\ run'.binary = run.binary
                  /\ Files(run.todo) = {f} \cup Files(run'.todo)
                  /\ disk'[f] = WriteFile(disk, f, run.binary)
                  /\ \A g \in InstallFiles \ {f} : disk'[g] = disk[g]
            BY <1>2, <2>3, WriteFacts
        <3>2. Asked' = Asked /\ Asked \subseteq Managed /\ Managed \subseteq InstallFiles
            BY <3>1, Names DEF Asked, TaskSkills
        <3>3. ASSUME NEW g \in Asked PROVE Good(g)' \/ g \in Files(run'.todo)
            <4>1. CASE g = f
                <5>1. run.binary \in Binaries
                    BY <3>1 DEF Runs
                <5>2. disk'[g] = InstallArtifact(disk, g, run.binary) /\ g \in Managed
                    BY <1>2, <3>1, <3>2, <3>3, <4>1, <5>1, Written
                <5> QED
                    BY <1>2, <3>1, <5>1, <5>2, Forward DEF Good
            <4>2. CASE g # f
                <5>1. disk'[g] = disk[g]
                    BY <3>1, <3>2, <3>3, <4>2
                <5>2. Good(g) \/ g \in Files(run.todo)
                    BY <1>2, <3>1, <3>3 DEF AskedOrAhead
                <5>3. Good(g) => Good(g)'
                    BY <3>1, <5>1 DEF Good
                <5> QED
                    BY <3>1, <4>2, <5>2, <5>3
            <4> QED
                BY <4>1, <4>2
        <3> QED
            BY <3>1, <3>2, <3>3 DEF AskedOrAhead
    <2>4. CASE EndRun
        <3>1. run.st = "writing" /\ run.todo = <<>> /\ run' = [run EXCEPT !.st = "done"] /\ disk' = disk
            BY <2>4 DEF EndRun
        <3>2. run \in Runs
            BY <1>2, <3>1, RunKnown
        <3>3. run'.st = "done" /\ run'.opts = run.opts /\ run'.binary = run.binary
            BY <3>1, <3>2 DEF Runs
        <3>4. Asked' = Asked
            BY <3>3 DEF Asked
        <3>5. \A f \in Asked : Good(f)
            BY <1>2, <3>1, FilesOfShort DEF AskedOrAhead
        <3>6. \A f \in Asked : Good(f)'
            BY <3>1, <3>3, <3>5 DEF Good
        <3> QED
            BY <3>3, <3>4, <3>6 DEF AskedOrAhead
    <2>5. CASE FailStep \/ DieInRun
        <3>1. run'.st \notin {"writing", "done"}
            BY <1>2, <2>5, FaultFacts
        <3> QED
            BY <3>1 DEF AskedOrAhead
    <2>6. CASE UndoStep
        <3>1. run'.st \notin {"writing", "done"}
            BY <1>2, <2>6, UndoFacts
        <3> QED
            BY <3>1 DEF AskedOrAhead
    <2>7. CASE Commit \/ UNCHANGED inst
        <3>1. run' = run /\ disk' = disk
            BY <2>7 DEF Commit, inst
        <3> QED
            BY <1>2, <3>1 DEF AskedOrAhead, Asked, Good
    <2> QED
        BY <1>2, <2>1, <2>2, <2>3, <2>4, <2>5, <2>6, <2>7 DEF InstallNext
<1>3. AskedOrAhead => DoneMeansCurrent
    BY DEF AskedOrAhead, Good, DoneMeansCurrent
<1> QED
    BY <1>1, <1>2, <1>3, InstallTypeCorrect, PTL DEF InstallSpec

-----------------------------------------------------------------------------
(* The sentinel.                                                           *)

(* People do not write the sentinel, and a disk that has it at the start   *)
(* has the rest.                                                           *)
SentinelIsTheTools ==
    \A s \in InstallScenes :
        /\ "sentinel" \notin s.people
        /\ \A d \in s.disks : d["sentinel"] # None => \A f \in Needed : d[f] # None

LEMMA NeededFiles ==
    /\ Needed = (Managed \ {"cursor"}) \cup {"mcp", "config", "sentinel"}
    /\ Needed \subseteq InstallFiles /\ "sentinel" \in Needed /\ "teststatus" \notin Needed
    BY Names DEF Needed, RequiredFiles

(* Once the sentinel is there, so is every file that nobody removed or     *)
(* left out and no removal cut short took back, whatever later runs are    *)
(* cut (init.go:18, 217-349, 357-489).                                     *)
THEOREM SentinelTellsTheTruth ==
    ASSUME SentinelIsTheTools
    PROVE  InstallSpec => []SentinelMeansInstalled
<1>1. InstallInit => SentinelInv
    <2> SUFFICES ASSUME InstallInit PROVE SentinelInv
        OBVIOUS
    <2>1. run.st = "none"
        BY DEF InstallInit, NothingRun
    <2>2. disk["sentinel"] # None => \A f \in Needed : disk[f] # None
        BY SentinelIsTheTools DEF InstallInit, SentinelIsTheTools
    <2> QED
        BY <2>1, <2>2 DEF SentinelInv, SentinelBehindAll, SentinelMeansAll
<1>2. ASSUME InstallTypeOK, SentinelInv, [InstallNext]_inst
      PROVE  SentinelInv'
    <2> USE DEF SentinelInv
    <2>1. CASE StartRun
        <3>1. PICK opts \in Options, b \in Binaries :
                  /\ run' \in Runs /\ run'.st = "writing"
                  /\ \/ opts.update /\ run'.todo = UpdateSkills /\ skipped' = skipped
                     \/ /\ ~opts.update /\ skipped' = skipped \cup LeftOut(opts)
                        /\ run'.todo = NewProject(opts) \/ run'.todo = ExistingProject(opts)
            BY <1>2, <2>1, StartFacts
        <3>2. disk' = disk /\ removed' = removed /\ undone' = undone
            BY <2>1 DEF StartRun
        <3>3. SentinelMeansAll'
            <4>1. Excused \subseteq Excused'
                BY <3>1, <3>2 DEF Excused
            <4> QED
                BY <1>2, <3>2, <4>1 DEF SentinelMeansAll
        <3>4. CASE opts.update
            <4>1. run'.todo \in Seq(WriteSteps) /\ "sentinel" \notin Files(run'.todo)
                BY <3>1, <3>4, UpdateFiles
            <4>2. \A i \in 1..(Len(run'.todo) - 2) : run'.todo[i].f \in Files(run'.todo)
                <5>1. Len(run'.todo) \in Nat
                    BY <4>1
                <5> QED
                    BY <5>1 DEF Files
            <4>3. SentinelBehindAll'
                BY <4>1, <4>2 DEF SentinelBehindAll, SentinelNearEnd
            <4> QED
                BY <3>3, <4>3
        <3>5. CASE ~opts.update
            <4>1. /\ Whole(run'.todo, opts) /\ skipped' = skipped \cup LeftOut(opts)
                  /\ "config" \in Files(run'.todo) \/ disk["config"] # None
                BY <3>1, <3>5, NewFiles, ExistingFiles
            <4>2. \A f \in Needed \ Excused' : disk'[f] # None \/ f \in Files(run'.todo)
                BY <3>2, <4>1, NeededFiles DEF Whole, Excused
            <4>3. SentinelBehindAll'
                BY <4>1, <4>2 DEF SentinelBehindAll, Whole
            <4> QED
                BY <3>3, <4>3
        <3> QED
            BY <3>4, <3>5
    <2>2. CASE RefuseRun
        <3>1. run'.st = "failed" /\ UNCHANGED <<disk, removed, skipped, undone>>
            BY <2>2 DEF RefuseRun
        <3> QED
            BY <1>2, <3>1 DEF SentinelBehindAll, SentinelMeansAll, Excused
    <2>3. CASE WriteStep
        <3>1. PICK f \in InstallFiles :
                  /\ run \in Runs /\ run.st = "writing" /\ run.todo # <<>>
                  /\ run'.st = "writing" /\ run'.todo = Tail(run.todo)
                  /\ f = Head(run.todo).f /\ Files(run.todo) = {f} \cup Files(run'.todo)
                  /\ disk'[f] = WriteFile(disk, f, run.binary)
                  /\ \A g \in InstallFiles \ {f} : disk'[g] = disk[g]
            BY <1>2, <2>3, WriteFacts
        <3>2. Excused \subseteq Excused' \cup {f} /\ Excused' \subseteq Excused
            BY <2>3, <3>1 DEF WriteStep, Excused
        <3>3. disk'[f] # None
            <4>1. run.binary \in Binaries
                BY <3>1 DEF Runs
            <4> QED
                BY <1>2, <3>1, <4>1, Written
        <3>4. \A g \in Needed : disk[g] # None => disk'[g] # None
            BY <3>1, <3>3, NeededFiles
        <3>5. /\ SentinelNearEnd(run'.todo)
              /\ f = "sentinel" => Files(run.todo) \subseteq {"sentinel", "teststatus"}
            <4>1. run.todo \in Seq(WriteSteps)
                BY <3>1 DEF Runs
            <4> QED
                BY <1>2, <3>1, <4>1, SentinelNext DEF SentinelBehindAll
        <3>6. SentinelBehindAll'
            <4>1. ASSUME "sentinel" \in Files(run'.todo), NEW g \in Needed \ Excused'
                  PROVE  disk'[g] # None \/ g \in Files(run'.todo)
                <5>1. g = f \/ disk[g] # None \/ g \in Files(run.todo)
                    BY <1>2, <3>1, <3>2, <4>1 DEF SentinelBehindAll
                <5> QED
                    BY <3>1, <3>3, <3>4, <5>1
            <4> QED
                BY <3>1, <3>5, <4>1 DEF SentinelBehindAll
        <3>7. SentinelMeansAll'
            <4>1. CASE f = "sentinel"
                <5>1. \A g \in Needed \ Excused : g = f \/ disk[g] # None
                    BY <1>2, <3>1, <3>5, <4>1, NeededFiles DEF SentinelBehindAll
                <5> QED
                    BY <3>2, <3>3, <3>4, <5>1 DEF SentinelMeansAll
            <4>2. CASE f # "sentinel"
                <5>1. disk'["sentinel"] = disk["sentinel"]
                    BY <3>1, <4>2, NeededFiles
                <5>2. disk["sentinel"] # None => \A g \in Needed \ Excused : disk[g] # None
                    BY <1>2 DEF SentinelMeansAll
                <5> QED
                    BY <3>2, <3>3, <3>4, <5>1, <5>2 DEF SentinelMeansAll
            <4> QED
                BY <4>1, <4>2
        <3> QED
            BY <3>6, <3>7
    <2>4. CASE EndRun
        <3>1. run.st = "writing" /\ run' = [run EXCEPT !.st = "done"] /\ UNCHANGED <<disk, removed, skipped, undone>>
            BY <2>4 DEF EndRun
        <3>2. run'.st = "done"
            BY <1>2, <3>1, RunKnown DEF Runs
        <3> QED
            BY <1>2, <3>1, <3>2 DEF SentinelBehindAll, SentinelMeansAll, Excused
    <2>5. ASSUME TookBack, run'.st # "writing"
          PROVE  SentinelInv'
        <3>1. SentinelMeansAll'
            <4>1. disk'["sentinel"] = disk["sentinel"] \/ disk'["sentinel"] = None
                BY <2>5, NeededFiles DEF TookBack
            <4>2. ASSUME disk'["sentinel"] # None, NEW g \in Needed \ Excused' PROVE disk'[g] # None
                <5>1. disk'[g] = disk[g] /\ g \notin Excused
                    BY <2>5, <4>2, NeededFiles DEF TookBack
                <5> QED
                    BY <1>2, <4>1, <4>2, <5>1 DEF SentinelMeansAll
            <4> QED
                BY <4>2 DEF SentinelMeansAll
        <3> QED
            BY <2>5, <3>1 DEF SentinelBehindAll
    <2>6. CASE FailStep \/ DieInRun
        <3>1. run'.st # "writing" /\ UNCHANGED <<removed, skipped>>
            BY <1>2, <2>6, FaultFacts
        <3>2. CASE run.st = "undoing" /\ TookBack
            BY <2>5, <3>1, <3>2
        <3>3. CASE /\ run.st = "writing" /\ undone' = undone
                   /\ \A g \in InstallFiles : disk'[g] \in {disk[g], Empty}
                   /\ disk'["sentinel"] = disk["sentinel"]
            <4>1. Empty # None /\ Excused' = Excused
                BY <3>1, <3>3, Contents DEF Excused
            <4>2. \A g \in Needed : disk[g] # None => disk'[g] # None
                BY <3>3, <4>1, NeededFiles
            <4> QED
                BY <1>2, <3>1, <3>3, <4>1, <4>2 DEF SentinelMeansAll, SentinelBehindAll
        <3>4. CASE /\ run.st = "writing" /\ undone' = undone
                   /\ \A g \in InstallFiles : disk'[g] \in {disk[g], Empty}
                   /\ run.todo \in Seq(WriteSteps) /\ run.todo # <<>> /\ Head(run.todo).f = "sentinel"
            <4>1. Empty # None /\ Excused' = Excused
                BY <3>1, <3>4, Contents DEF Excused
            <4>2. \A g \in Needed : disk[g] # None => disk'[g] # None
                BY <3>4, <4>1, NeededFiles
            <4>3. Files(run.todo) \subseteq {"sentinel", "teststatus"} /\ "sentinel" \in Files(run.todo)
                <5>1. Files(run.todo) \subseteq {"sentinel", "teststatus"}
                    BY <1>2, <3>4, SentinelNext DEF SentinelBehindAll
                <5>2. "sentinel" \in Files(run.todo)
                    BY <3>4, FilesOfRest
                <5> QED
                    BY <5>1, <5>2
            <4>4. \A g \in Needed \ Excused : g = "sentinel" \/ disk[g] # None
                BY <1>2, <3>4, <4>3, NeededFiles DEF SentinelBehindAll
            <4>5. SentinelMeansAll'
                BY <4>1, <4>2, <4>4 DEF SentinelMeansAll
            <4> QED
                BY <3>1, <4>5 DEF SentinelBehindAll
        <3> QED
            BY <1>2, <2>6, <3>2, <3>3, <3>4, FaultFacts
    <2>7. CASE UndoStep
        BY <1>2, <2>5, <2>7, UndoFacts
    <2>8. CASE Edit
        <3>1. PICK f \in iscript.people :
                  /\ f \in InstallFiles /\ \A g \in InstallFiles \ {f} : disk'[g] = disk[g]
                  /\ \/ disk'[f] = User /\ removed' = removed
                     \/ disk'[f] = None /\ removed' = removed \cup {f}
                  /\ run' = [st |-> "none"] /\ skipped' = skipped
            BY <1>2, <2>8, EditFacts
        <3>2. f # "sentinel" /\ disk'["sentinel"] = disk["sentinel"]
            BY <1>2, <3>1, SentinelIsTheTools, NeededFiles DEF SentinelIsTheTools, InstallTypeOK
        <3>3. Excused \subseteq Excused'
            BY <2>8, <3>1 DEF Excused, Edit
        <3>4. ASSUME NEW g \in Needed \ Excused', disk[g] # None PROVE disk'[g] # None
            <4>1. g # f => disk'[g] = disk[g]
                BY <3>1, NeededFiles
            <4>2. g = f => disk'[g] = User
                BY <3>1, <3>4 DEF Excused
            <4> QED
                BY <3>4, <4>1, <4>2, Contents
        <3>5. SentinelMeansAll'
            BY <1>2, <3>2, <3>3, <3>4 DEF SentinelMeansAll
        <3> QED
            BY <3>1, <3>5 DEF SentinelBehindAll
    <2>9. CASE Commit \/ UNCHANGED inst
        <3>1. UNCHANGED <<disk, run, removed, skipped, undone>>
            BY <2>9 DEF Commit, inst
        <3> QED
            BY <1>2, <3>1 DEF SentinelBehindAll, SentinelMeansAll, Excused
    <2> QED
        BY <1>2, <2>1, <2>2, <2>3, <2>4, <2>6, <2>7, <2>8, <2>9 DEF InstallNext
<1>3. SentinelInv => SentinelMeansInstalled
    BY DEF SentinelInv, SentinelMeansAll, SentinelMeansInstalled, Needed, Excused, DoctorMissing
<1> QED
    BY <1>1, <1>2, <1>3, InstallTypeCorrect, PTL DEF InstallSpec
=============================================================================
