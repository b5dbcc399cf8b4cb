--------------------------- MODULE MC_FeatureFlow ---------------------------
(* FeatureFlow on one batch. *)
EXTENDS FeatureFlow, TLC

CONSTANTS f1, f2, b1, t1, t2, t3, t4, design, spec, spec2, plan, report

MCFeatureOf == [t \in Tasks |-> f1]

MCDocType ==
    [d \in Docs |-> CASE d = design -> "design"
                      [] d \in {spec, spec2} -> "spec"
                      [] d = plan -> "dev-plan"
                      [] d = report -> "report"]

MCDocOwner == [d \in Docs |-> IF d = design THEN b1 ELSE f1]

(* Each thing that can happen to a document happens to one of them. *)
MCDocOps ==
    [d \in Docs |-> CASE d = design -> {"submit", "approve", "refresh"}
                      [] d = spec   -> {"submit", "approve", "supersede"}
                      [] d = plan   -> {"auto-approve", "delete"}
                      [] d = report -> {"auto-approve"}
                      [] OTHER      -> {"submit"}]

AskForReview == "reviewing" :> "checkpoint"

(* f1 lives its whole life; f2 is dropped at some point. *)
MCTargets ==
    (f1 :> {"dev-planning", "developing", "reviewing", "needs-rework",
            "merging", "verifying", "done"})
    @@ (f2 :> {"cancelled"})
    @@ (b1 :> {"active", "done"})

MCOverrideAt ==
    (f1 :> {"reviewing", "needs-rework"}) @@ (f2 :> {}) @@ (b1 :> {})
=============================================================================
