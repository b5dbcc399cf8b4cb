------------------------- MODULE TaskHandlersSerial -------------------------
(***************************************************************************)
(* A single session whose calls run to their end implements TaskBoard, in  *)
(* which a call is one step.  The board is seen between calls only: before *)
(* is a history variable that holds it as it was when the last call ended. *)
(***************************************************************************)
EXTENDS TaskHandlers

VARIABLE before

NowAtRest == [status |-> FileStatus, row |-> row, dirty |-> dirty, answer |-> answer]

SerialInit == Init /\ before = NowAtRest
SerialNext ==
    /\ Next
    /\ ~ Quiescent => UNCHANGED dirty \/ prog' # prog    \* no HandCommit in mid-call
    /\ before' = IF Quiescent' THEN NowAtRest' ELSE before
SerialSpec == SerialInit /\ [][SerialNext]_<<vars, before>>

Board == INSTANCE TaskBoard WITH
    Features   <- {"feature"},
    FeatureOf  <- [t \in Tasks |-> "feature"],
    Backlog    <- Tasks,
    InitDeps   <- DependsOn,
    DepLists   <- {},
    GitTracked <- TRUE,
    status     <- before.status,
    rowStatus  <- before.row,
    dirty      <- before.dirty,
    answer     <- before.answer,
    deps       <- DependsOn,
    rowDeps    <- DependsOn,
    warm       <- TRUE

(* Every call, with its checks, its three-step writes, its upserts and the *)
(* hook's writes one after the other, amounts to one step of the board: an *)
(* UpdateStatus that promotes exactly the tasks Unblocked names.           *)
ImplementsBoard == Board!Spec
=============================================================================
