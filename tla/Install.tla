------------------------------ MODULE Install ------------------------------
(***************************************************************************)
(* `kbz init` and `kbz doctor`: the files the tool installs in a           *)
(* repository, next to the files people keep there.  A run is a sequence   *)
(* of writes, each of which may fail or be cut short; a failed run of a    *)
(* new project takes back the paths it has tracked.  The sentinel is       *)
(* written last.  disk[f] is the content of file f.                        *)
(***************************************************************************)
EXTENDS Naturals, Sequences, SequencesExt, FiniteSets

CONSTANTS
    Skills,        \* the skill files: the manifest has 9, read one after another
    Binaries,      \* the versions of the tool run, <<major, minor>>, or Dev
    InstallScenes  \* [disks, opts, people]: the disks it starts from, the options of the
                   \* runs and the files people write or remove between them; and the
                   \* bounds [runs, faults, edits]: runs, failed or cut writes, such edits

VARIABLES
    disk,     \* file -> content
    commits,  \* the repository has a commit
    run,      \* the run under way, or how the last one ended
    removed,  \* history: managed files people removed
    skipped,  \* history: files a run was told to leave out
    undone,   \* history: files a removal under way, or cut short, has taken back and no
              \* run has written since
    iscript,  \* the scene
    spent     \* [runs, faults, edits] so far

inst == <<disk, commits, run, removed, skipped, undone, iscript, spent>>

Dev == <<"dev">>
None == <<"none">>
Empty == <<"empty">>            \* a write was cut after the file was opened
User == <<"user">>              \* written by people: no marker
Wired == <<"wired">>            \* an editor's settings with the server but no permissions
Made(v) == <<"made", v>>        \* written by the tool, with the version in its marker

-----------------------------------------------------------------------------
(* The manifest, one file standing for the files of a kind.                *)
WorkflowSkills == Skills
TaskSkills == {"taskskill"}
Roles == {"role"}               \* base is of this kind too, but has no marker
TopLevel == {"agents", "copilot", "bindings"}
Surfaces == {"claude", "openai", "wrapper", "cursor"}
Managed == WorkflowSkills \cup TaskSkills \cup Roles \cup TopLevel \cup Surfaces
Counted == {"agents", "copilot", "claude", "openai", "cursor"}   \* IntCounter: no Dev

Kbz == TaskSkills \cup Roles \cup {"bindings", "base", "config", "sentinel", "teststatus"}
AgentsDir == Skills \cup {"ownskill"}
Work == {"docs", "readme", "notes"}
InstallFiles == Managed \cup Kbz \cup AgentsDir \cup Work \cup {"mcp", "zed"}

(* The managed files and the others are told apart, and there is a skill.   *)
Fixed == TaskSkills \cup Roles \cup TopLevel \cup Surfaces \cup Kbz \cup {"ownskill", "mcp", "zed"} \cup Work
IsVersion(v) == v = Dev \/ v \in Nat \X Nat
IsContent(c) == c \in {None, Empty, User, Wired} \/ (c = Made(c[2]) /\ IsVersion(c[2]))
Options == [update : BOOLEAN, noskills : BOOLEAN, noinstructions : BOOLEAN, cursor : BOOLEAN]
ASSUME InstallAssumption ==
    /\ IsFiniteSet(Skills) /\ Skills # {} /\ Skills \cap Fixed = {}
    /\ \A b \in Binaries : IsVersion(b)
    /\ \A s \in InstallScenes :
           /\ s.opts \subseteq Options /\ s.people \subseteq InstallFiles
           /\ \A d \in s.disks : DOMAIN d = InstallFiles /\ \A f \in InstallFiles : IsContent(d[f])

KbzExists(d) == \E f \in Kbz : d[f] # None
HasCommits == commits

(* The version a binary puts in the marker of f.                           *)
CurrentValue(f, b) == IF b # Dev THEN b ELSE IF f \in Counted THEN <<1, 0>> ELSE Dev

Older(a, b) == a[1] < b[1] \/ (a[1] = b[1] /\ a[2] < b[2])
OlderSomewhere(a, b) == \E i \in 1..2 : a[i] < b[i]

(* compareManaged: a file without a marker, or with one whose version does *)
(* not parse, is left alone.                                               *)
CompareSemverByPart(old, new) ==
    IF old = Dev THEN "WarnSkip" ELSE IF new # Dev /\ OlderSomewhere(old, new) THEN "Overwrite" ELSE "NoOp"
CompareSemverWithinMajor(old, new) ==
    IF old = Dev THEN "WarnSkip"
    ELSE IF new # Dev /\ old[1] = new[1] /\ old[2] < new[2] THEN "Overwrite" ELSE "NoOp"
CompareSemver(old, new) ==
    IF old = Dev THEN "WarnSkip" ELSE IF new # Dev /\ Older(old, new) THEN "Overwrite" ELSE "NoOp"

FindMarker(content) == content[1] = "made"
CompareManaged(content, new) ==
    IF content \in {None, Empty} THEN "Create"
    ELSE IF ~FindMarker(content) THEN "WarnSkip"
    ELSE CompareSemver(content[2], new)

(* What a write leaves in f when it succeeds.                              *)
InstallArtifact(d, f, b) ==
    IF CompareManaged(d[f], CurrentValue(f, b)) \in {"Create", "Overwrite"}
    THEN Made(CurrentValue(f, b)) ELSE d[f]

(* .mcp.json has a counter of its own, an empty file does not parse.       *)
WriteMCPConfig(d, b) ==
    IF d["mcp"] = None THEN Made(CurrentValue("agents", b))
    ELSE IF d["mcp"][1] = "made" /\ Older(d["mcp"][2], CurrentValue("agents", b)) THEN Made(CurrentValue("agents", b))
    ELSE d["mcp"]

(* .zed/settings.json has no marker: one with the server and without       *)
(* permissions is taken for an older one of the tool's own.                *)
WriteZedConfig(d, b) == IF d["zed"] \in {None, Wired} THEN Made(<<1, 0>>) ELSE d["zed"]

WriteOnce(d, f) == IF d[f] = None THEN Made(<<1, 0>>) ELSE d[f]

WriteFile(d, f, b) ==
    IF f \in Managed THEN InstallArtifact(d, f, b)
    ELSE IF f = "mcp" THEN WriteMCPConfig(d, b)
    ELSE IF f = "zed" THEN WriteZedConfig(d, b)
    ELSE IF f \in {"config", "sentinel"} THEN Made(<<1, 0>>)
    ELSE WriteOnce(d, f)

-----------------------------------------------------------------------------
(* A run: the files it has left to write, as [f, track]; once f is written *)
(* the paths of track are taken back if the run fails.                     *)
File(f) == [f |-> f, track |-> <<>>]
Then(f, track) == [f |-> f, track |-> track]
Steps(wanted, steps) == IF wanted THEN steps ELSE <<>>
SkillSteps == [i \in 1..Cardinality(Skills) |-> File(SetToSeq(Skills)[i])]

InstallSkills(track) ==
    SubSeq(SkillSteps, 1, Len(SkillSteps) - 1) \o
    <<[Last(SkillSteps) EXCEPT !.track = track], File("taskskill")>>

Instructions(cursor) ==
    <<Then("agents", <<{"agents"}>>), Then("copilot", <<{"copilot"}>>), File("claude"), File("openai"),
      File("wrapper")>> \o Steps(cursor, <<File("cursor")>>)

(* Shared by both kinds of run, in this order.                             *)
AllSteps(opts, zed, cursor) ==
    <<Then("bindings", <<{"bindings"}>>)>>
    \o Steps(~opts.noskills, InstallSkills(<<AgentsDir>>))
    \o <<Then("mcp", <<{"mcp"}>>)>>
    \o Steps(zed, <<Then("zed", <<{"zed"}>>)>>)
    \o Steps(~opts.noinstructions, Instructions(cursor))
    \o <<File("base"), Then("role", <<Roles \cup {"base"}>>)>>

SentinelFirst(steps) == <<File("sentinel"), File("teststatus")>> \o steps
SentinelLast(steps) == steps \o <<File("sentinel"), File("teststatus")>>

(* The configuration is written to a directory that is then renamed.       *)
NewProject(opts) ==
    <<Then("config", <<Kbz>>), Then("docs", <<{"docs"}>>), Then("readme", <<{"readme"}, Work>>)>>
    \o SentinelLast(AllSteps(opts, TRUE, opts.cursor \/ disk["cursor"] # None))

(* validateExistingConfig: what cannot be read as a configuration is       *)
(* overwritten, unless the answer is no; a newer one is refused.           *)
ConfigSteps == IF disk["config"] \in {None, Empty, User} THEN <<File("config")>> ELSE <<>>

ExistingProject(opts) ==
    ConfigSteps
    \o Steps(~KbzExists(disk), <<File("docs"), File("readme")>>)
    \o SentinelLast(AllSteps(opts, ~KbzExists(disk) \/ disk["zed"] # None,
                             opts.cursor \/ disk["cursor"] # None))

UpdateSkills ==
    <<File("bindings")>> \o InstallSkills(<<>>) \o Steps(disk["role"] # None, <<File("role")>>)
    \o <<File("claude"), File("openai"), File("wrapper")>> \o Steps(disk["cursor"] # None, <<File("cursor")>>)

NotRunning == run.st \in {"none", "done", "failed", "died"}
LeftOut(opts) ==
    (IF opts.noskills THEN Skills \cup TaskSkills ELSE {})
    \cup (IF opts.noinstructions THEN {"agents", "copilot"} \cup Surfaces ELSE {})

StartRun ==
    /\ NotRunning /\ spent.runs < iscript.runs
    /\ \E opts \in iscript.opts, b \in Binaries :
           LET new == ~KbzExists(disk) /\ ~HasCommits
           IN  run' = [st |-> "writing", binary |-> b, opts |-> opts, new |-> new /\ ~opts.update,
                       todo |-> IF opts.update THEN UpdateSkills
                                ELSE IF new THEN NewProject(opts) ELSE ExistingProject(opts),
                       tracked |-> <<>>]
           /\ skipped' = skipped \cup (IF opts.update THEN {} ELSE LeftOut(opts))
    /\ spent' = [spent EXCEPT !.runs = @ + 1]
    /\ UNCHANGED <<disk, commits, removed, undone, iscript>>

(* Refused before anything is written: a configuration of a newer schema,  *)
(* an invalid one that is kept, a missing name or document root, two       *)
(* options that exclude each other.                                        *)
RefuseRun ==
    /\ NotRunning /\ spent.runs < iscript.runs
    /\ run' = [st |-> "failed", new |-> FALSE]
    /\ spent' = [spent EXCEPT !.runs = @ + 1]
    /\ UNCHANGED <<disk, commits, removed, skipped, undone, iscript>>

WriteStep ==
    /\ run.st = "writing" /\ run.todo # <<>>
    /\ LET step == Head(run.todo)
       IN  /\ disk' = [disk EXCEPT ![step.f] = WriteFile(disk, step.f, run.binary)]
           /\ run' = [run EXCEPT !.todo = Tail(@), !.tracked = @ \o step.track]
           /\ undone' = undone \ {step.f}
    /\ UNCHANGED <<commits, removed, skipped, iscript, spent>>

EndRun ==
    /\ run.st = "writing" /\ run.todo = <<>>
    /\ run' = [run EXCEPT !.st = "done"]
    /\ UNCHANGED <<disk, commits, removed, skipped, undone, iscript, spent>>

(* A write fails, or the process ends in the middle of one: the file that  *)
(* was being written may be left empty, but for the two that are renamed   *)
(* into place.                                                             *)
Torn(f) ==
    LET whole == \/ f = "teststatus"
                 \/ f = "config" /\ run.new
                 \/ WriteFile(disk, f, run.binary) = disk[f]
    IN  IF whole THEN {disk[f]} ELSE {disk[f], Empty}

FailStep ==
    /\ run.st = "writing" /\ run.todo # <<>> /\ spent.faults < iscript.faults
    /\ \E c \in Torn(Head(run.todo).f) : disk' = [disk EXCEPT ![Head(run.todo).f] = c]
    /\ run' = [run EXCEPT !.st = IF run.new THEN "undoing" ELSE "failed"]
    /\ spent' = [spent EXCEPT !.faults = @ + 1]
    /\ UNCHANGED <<commits, removed, skipped, undone, iscript>>

(* Of a path that is taken back, the removal may get through a part.       *)
TakeBack(part) ==
    /\ disk' = [f \in InstallFiles |-> IF f \in part THEN None ELSE disk[f]]
    /\ undone' = IF "sentinel" \in part THEN {} ELSE undone \cup part

DieInRun ==
    /\ run.st \in {"writing", "undoing"} /\ spent.faults < iscript.faults
    /\ \/ UNCHANGED <<disk, undone>>
       \/ /\ run.st = "writing" /\ run.todo # <<>>
          /\ \E c \in Torn(Head(run.todo).f) : disk' = [disk EXCEPT ![Head(run.todo).f] = c]
          /\ undone' = undone
       \/ /\ run.st = "undoing" /\ run.tracked # <<>>
          /\ \E part \in SUBSET Last(run.tracked) : TakeBack(part)
    /\ run' = [st |-> "died", new |-> run.new]
    /\ spent' = [spent EXCEPT !.faults = @ + 1]
    /\ UNCHANGED <<commits, removed, skipped, iscript>>

(* The deferred removal, the last path tracked first: .kbz, and in it the  *)
(* sentinel, goes last.                                                    *)
UndoStep ==
    /\ run.st = "undoing"
    /\ IF run.tracked = <<>> THEN run' = [run EXCEPT !.st = "failed"] /\ UNCHANGED <<disk, undone>>
       ELSE TakeBack(Last(run.tracked)) /\ run' = [run EXCEPT !.tracked = Front(@)]
    /\ UNCHANGED <<commits, removed, skipped, iscript, spent>>

(* People write their own text in a file, remove one, or commit.           *)
Edit ==
    /\ NotRunning /\ spent.edits < iscript.edits
    /\ \E f \in iscript.people :
           \/ /\ disk' = [disk EXCEPT ![f] = User]
              /\ removed' = removed
           \/ /\ disk[f] # None
              /\ disk' = [disk EXCEPT ![f] = None]
              /\ removed' = removed \cup {f}
    /\ run' = [st |-> "none"]
    /\ spent' = [spent EXCEPT !.edits = @ + 1]
    /\ UNCHANGED <<commits, skipped, undone, iscript>>

Commit ==
    /\ NotRunning /\ ~commits /\ spent.edits < iscript.edits
    /\ commits' = TRUE
    /\ spent' = [spent EXCEPT !.edits = @ + 1]
    /\ UNCHANGED <<disk, run, removed, skipped, undone, iscript>>

NothingRun ==
    /\ run = [st |-> "none"]
    /\ removed = {} /\ skipped = {} /\ undone = {}
    /\ spent = [runs |-> 0, faults |-> 0, edits |-> 0]

InstallInit ==
    /\ iscript \in InstallScenes /\ disk \in iscript.disks
    /\ commits \in BOOLEAN
    /\ NothingRun

InstallNext ==
    \/ StartRun \/ RefuseRun \/ WriteStep \/ EndRun \/ FailStep \/ DieInRun \/ UndoStep \/ Edit \/ Commit

InstallSpec == InstallInit /\ [][InstallNext]_inst

(* A run under way or ended well knows what it was asked and has left.     *)
WriteSteps == [f : InstallFiles, track : Seq(SUBSET InstallFiles)]
Runs == [st : {"writing", "undoing", "done", "failed"}, binary : Binaries, opts : Options,
         new : BOOLEAN, todo : Seq(WriteSteps), tracked : Seq(SUBSET InstallFiles)]
InstallTypeOK ==
    /\ DOMAIN disk = InstallFiles /\ \A f \in InstallFiles : IsContent(disk[f])
    /\ run \in Runs \cup {[st |-> "none"]} \cup [st : {"failed", "died"}, new : BOOLEAN]
    /\ iscript \in InstallScenes

-----------------------------------------------------------------------------
(* kbz doctor: the files whose absence it reports.                         *)
RequiredFiles == {"agents", "copilot", "mcp", "zed", "config", "bindings", "sentinel"}
DoctorMissing(d) == {f \in RequiredFiles : d[f] = None}

(* A run that ended well leaves no managed file it was asked for missing,  *)
(* empty or older than the tool that ran, whatever was on the disk and     *)
(* however many runs before it were cut.                                   *)
Asked ==
    IF run.opts.update THEN Skills \cup TaskSkills \cup {"bindings", "claude", "openai", "wrapper"}
    ELSE Managed \ (LeftOut(run.opts) \cup {"cursor"})
DoneMeansCurrent ==
    run.st = "done" =>
        \A f \in Asked :
            /\ disk[f] \notin {None, Empty}
            /\ disk[f][1] = "made" /\ Dev \notin {disk[f][2], CurrentValue(f, run.binary)}
                   => ~Older(disk[f][2], CurrentValue(f, run.binary))

(* Once the sentinel is there, so is every file of the manifest, and       *)
(* doctor finds nothing missing but the editor settings, whatever later    *)
(* runs are cut; but for the files people removed, a run was told to leave *)
(* out, or the removal of a failed first init took back before it was cut  *)
(* short and no run has written since: that removal starts after the       *)
(* sentinel when only the test record could not be written, and takes the  *)
(* sentinel last.  (internal/kbzinit/init.go:18, 240-250, 343-350)         *)
SentinelMeansInstalled ==
    disk["sentinel"] # None =>
        LET excused == removed \cup skipped \cup undone \cup {"zed", "cursor"}
        IN  (DoctorMissing(disk) \cup {f \in Managed : disk[f] = None}) \subseteq excused

(* Outside the removal of a failed first init, a file of people is never   *)
(* touched and a managed one never goes back to an older version.          *)
FilesMoveForward ==
    [][\A f \in Managed : run.st = "writing" /\ disk'[f] # disk[f] /\ disk'[f] # Empty =>
           /\ disk[f] # User
           /\ disk[f][1] = "made" => Older(disk[f][2], disk'[f][2])]_inst
=============================================================================
