----------------------- MODULE MC_TaskHandlersSerial -----------------------
(***************************************************************************)
(* The TLC instance of TaskHandlersSerial: one session, three tasks.       *)
(***************************************************************************)
EXTENDS TaskHandlersSerial

CONSTANTS t1, t2, t3, c1

(* t2 waits for t1, t3 for both. *)
MCChain == [t \in Tasks |->
              IF t = t1 THEN {} ELSE IF t = t2 THEN {t1} ELSE {t1, t2}]

Everything == [c \in Sessions |-> Tasks]

AllCalls == {"claim", "finish", "transition", "queue"}
Reviewed == {"done", "needs-review", "needs-rework", "active", "not-planned"}
=============================================================================
