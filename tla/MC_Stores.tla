---------------------------- MODULE MC_Stores ----------------------------
(***************************************************************************)
(* The records beside the task board and what is worked out from them, in  *)
(* one run: knowledge, the other records, decomposition, estimates and     *)
(* conflicts, and prompts.  They share no variable here, so a behaviour is *)
(* of one of them; the others stay as they began, on next to no data.      *)
(***************************************************************************)
EXTENDS MC_Knowledge, MC_Records, MC_Decompose, MC_Workload, MC_Packets

VARIABLE part \* "knowledge", "records", "decompose", "workload" or "packets"

vars == <<part, kvars, rvars, dvars, wvars, pvars>>

NoFeature == CHOOSE f \in McFeatures : f.lines = OneBox
NoLoad == CHOOSE l \in EstimateLoads : \A t \in TaskIDs : l.tasks[t].estimate = Unset
NoPacket == [Common EXCEPT !.knowledge = <<>>, !.sections = <<>>, !.newRoles = <<>>, !.oldRoles = <<>>,
                           !.profiles = <<>>, !.skills = <<>>, !.bindings = <<>>,
                           !.hints = {}, !.constraints = {}]
KnowledgeIdle == kscene = Surfacing /\ KnowledgeInit
RecordsIdle == rscene = Completing /\ RecordsInit
DecomposeIdle == FeatureGiven(NoFeature)
WorkloadIdle == Carries(NoLoad)
PacketsIdle == Opens(NoPacket)

Init ==
    /\ part \in {"knowledge", "records", "decompose", "workload", "packets"}
    /\ IF part = "knowledge" THEN KnowledgeInit ELSE KnowledgeIdle
    /\ IF part = "records" THEN RecordsInit ELSE RecordsIdle
    /\ IF part = "decompose" THEN DecomposeInit ELSE DecomposeIdle
    /\ IF part = "workload" THEN WorkloadInit ELSE WorkloadIdle
    /\ IF part = "packets" THEN PacketsInit ELSE PacketsIdle

Next ==
    /\ UNCHANGED part
    /\ \/ part = "knowledge" /\ KnowledgeNext /\ UNCHANGED <<rvars, dvars, wvars, pvars>>
       \/ part = "records" /\ RecordsNext /\ UNCHANGED <<kvars, dvars, wvars, pvars>>
       \/ part = "decompose" /\ DecomposeNext /\ UNCHANGED <<kvars, rvars, wvars, pvars>>
       \/ part = "workload" /\ WorkloadNext /\ UNCHANGED <<kvars, rvars, dvars, pvars>>
       \/ part = "packets" /\ PacketsNext /\ UNCHANGED <<kvars, rvars, dvars, wvars>>

Spec == Init /\ [][Next]_vars
=============================================================================
