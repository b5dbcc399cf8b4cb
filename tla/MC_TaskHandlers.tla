-------------------------- MODULE MC_TaskHandlers --------------------------
(***************************************************************************)
(* TLC instances of TaskHandlers.                                          *)
(***************************************************************************)
EXTENDS TaskHandlers

CONSTANTS t1, t2, t3, c1, c2

(* t3 waits for both others. *)
MCFanIn == [t \in Tasks |-> IF t = t3 THEN {t1, t2} ELSE {}]

(* t2 waits for t1, t3 for both. *)
MCChain == [t \in Tasks |->
              IF t = t1 THEN {} ELSE IF t = t2 THEN {t1} ELSE {t1, t2}]

Everything == [c \in Sessions |-> Tasks]

(* Every task is one session's. *)
Shared == [c \in Sessions |-> IF c = c1 THEN {t1} ELSE Tasks \ {t1}]

Agents   == {"claim", "finish", "queue"}
NoQueue  == {"claim", "finish", "transition"}
Claims   == {"claim", "queue"}
Done     == {"done"}
Moves    == {"done", "not-planned", "active", "ready"}
=============================================================================
