---------------------------- MODULE MC_Library ----------------------------
(***************************************************************************)
(* What people read, checked in one run: document records, the index of    *)
(* the documents, and the files the tool installs.  They share no variable *)
(* here, so a behaviour is of one of them; the others stay in one of their *)
(* initial states, or in an empty one.                                     *)
(***************************************************************************)
EXTENDS MC_Documents, MC_DocIndex, MC_Install

VARIABLE part \* "documents", "index" or "install"

vars == <<part, docvars, ivars, inst>>

NoScene == [does |-> {}, workers |-> 0, files |-> {[d \in IndexDocs |-> <<>>]}, submits |-> <<>>]
DocumentsIdle == scenario = Replanning /\ parent = "B" /\ DocumentsInit
InstallIdle == /\ iscript = "none" /\ commits = FALSE /\ NothingRun
               /\ disk = [f \in {"sentinel", "teststatus"} |-> None]

Init ==
    \/ part = "documents" /\ DocumentsInit /\ Opened(NoScene) /\ InstallIdle
    \/ part = "index" /\ IndexInit /\ DocumentsIdle /\ InstallIdle
    \/ part = "install" /\ InstallInit /\ DocumentsIdle /\ Opened(NoScene)

Next ==
    /\ UNCHANGED part
    /\ \/ part = "documents" /\ DocumentsNext /\ UNCHANGED <<ivars, inst>>
       \/ part = "index" /\ IndexNext /\ UNCHANGED <<docvars, inst>>
       \/ part = "install" /\ InstallNext /\ UNCHANGED <<docvars, ivars>>

Spec == Init /\ [][Next]_vars
=============================================================================
