---------------------------- MODULE MC_TaskBoard ----------------------------
(***************************************************************************)
(* TLC instances of TaskBoard: the boards and the workloads of the runs.   *)
(***************************************************************************)
EXTENDS TaskBoard

CONSTANTS t1, t2, t3, t4, f1, f2

(* t1 and t2 belong to f1, the others to f2. *)
MCFeatureOf == [t \in Tasks |-> IF t \in {t1, t2} THEN f1 ELSE f2]

(* A diamond when there are four tasks, its upper half when there are      *)
(* three: t2 and t3 wait for t1, t4 waits for both.                        *)
MCDeps == [t \in Tasks |->
             IF t = t1 THEN {} ELSE IF t = t4 THEN {t2, t3} ELSE {t1}]

(* t2 waits for t1, t3 for both, across features. *)
MCChain == [t \in Tasks |->
              IF t = t1 THEN {} ELSE IF t = t2 THEN {t1} ELSE {t1, t2}]


NoLists == {}
OneDep == {{t1}, {t2}}
AnyDeps == SUBSET Tasks

(* Workloads. *)
Automatic == AllOps \ {"force", "update", "decompose"}
ServerAutomatic == Automatic \ {"cli", "cold"}
Server == AllOps \ {"decompose", "cli", "cold"}
=============================================================================
