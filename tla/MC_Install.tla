---------------------------- MODULE MC_Install -----------------------------
(* Two skills, an older and two newer binaries of which one is ahead in     *)
(* its minor number only, and one built without a version.                  *)
EXTENDS Install, TLC

Bare == [f \in InstallFiles |-> None]
With(fs) == [f \in InstallFiles |-> IF f \in fs THEN User ELSE None]
Opts(update, noskills, noinstructions, cursor) ==
    [update |-> update, noskills |-> noskills, noinstructions |-> noinstructions, cursor |-> cursor]
Plain == Opts(FALSE, FALSE, FALSE, FALSE)
Update == Opts(TRUE, FALSE, FALSE, FALSE)

Scenario(disks, opts, people, runs, faults, edits) ==
    [disks |-> disks, opts |-> opts, people |-> people, runs |-> runs, faults |-> faults, edits |-> edits]
Cutting == Scenario({Bare}, {Plain}, {}, 2, 2, 0)
Upgrading == Scenario({With({"agents", "skill1"})}, {Plain, Update}, {}, 3, 0, 1)
Choosing == Scenario({Bare, [Bare EXCEPT !["zed"] = Wired]},
                     {Plain, Opts(FALSE, TRUE, FALSE, TRUE), Opts(FALSE, FALSE, TRUE, FALSE)},
                     {"role", "agents", "config"}, 2, 0, 1)
MC_InstallScenes == {Cutting, Upgrading, Choosing}
MC_Binaries == {<<1, 2>>, <<2, 1>>, Dev}
=============================================================================
