---------------------------- MODULE MC_Workload ----------------------------
(***************************************************************************)
(* Small instances for Workload.  Estimates: two plans above one another   *)
(* or apart, two batches, two features, three tasks.  Conflicts: four      *)
(* tasks with every graph in which each waits for one other at most, and   *)
(* one in which a task waits for two.                                      *)
(***************************************************************************)
EXTENDS Workload

Row(f, status, estimate, deps, files, words) ==
    [feature |-> f, status |-> status, estimate |-> estimate, deps |-> deps, files |-> files,
     words |-> words]

Nowhere == [n \in {"P1", "P2", "B1", "B2"} |-> IF n = "B1" THEN "P1" ELSE IF n = "B2" THEN "P2" ELSE "none"]
Stacked == [Nowhere EXCEPT !["P2"] = "P1"]

EstimateLoad(above, pointed) ==
    [part |-> "estimate", parents |-> above, branches |-> [f \in {"F1", "F2"} |-> {}],
     features |-> [f \in {"F1", "F2"} |-> [parent |-> IF f = "F1" THEN "B1" ELSE "B2", estimate |-> 2]],
     tasks |-> [t \in {"T1", "T2", "T3", "T4"} |->
                   Row(IF t = "T3" THEN "F2" ELSE "F1", IF t = "T2" THEN "done" ELSE "active",
                       IF t \in pointed THEN 3 ELSE Unset, {}, {}, {})]]
EstimateLoads ==
    {EstimateLoad(Stacked, pointed) : pointed \in {{}, {"T2"}, {"T3"}, {"T1", "T2", "T3"}}}
    \cup {EstimateLoad(Nowhere, {"T1", "T2"})}

Graphs == {[t \in {"T1", "T2", "T3", "T4"} |-> IF g[t] = t THEN {} ELSE {g[t]}] :
              g \in [{"T1", "T2", "T3", "T4"} -> {"T1", "T2", "T3", "T4"}]}
          \cup {[t \in {"T1", "T2", "T3", "T4"} |-> IF t = "T1" THEN {"T2", "T3"}
                                                    ELSE IF t = "T3" THEN {"T4"} ELSE {}]}

ConflictLoads ==
    {[part |-> "conflict", parents |-> Nowhere, branches |-> changed,
      features |-> [f \in {"F1", "F2"} |-> [parent |-> "B1", estimate |-> Unset]],
      tasks |-> [t \in {"T1", "T2", "T3", "T4"} |->
                    Row(IF t \in {"T1", "T2"} THEN "F1" ELSE "F2",
                        IF t \in {"T1", "T3"} THEN "active" ELSE "ready", Unset, graph[t],
                        IF t \in {"T2", "T4"} THEN {"main.go"} ELSE {},
                        IF t \in {"T1", "T4"} THEN {"login"} ELSE {"form"})]] :
        graph \in Graphs,
        changed \in {[f \in {"F1", "F2"} |-> {}], [F1 |-> {"main.go"}],
                    [F1 |-> {"main.go"}, F2 |-> {"main.go", "a.go"}]}}

McLoads == EstimateLoads \cup ConflictLoads
=============================================================================
