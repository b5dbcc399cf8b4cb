----------------------------- MODULE Lifecycle -----------------------------
(***************************************************************************)
(* The entity lifecycle tables of src/internal/validate/lifecycle.go and   *)
(* the predicates every other component of the system asks of them: which  *)
(* states an entity kind has, which are terminal, which transitions are    *)
(* allowed, and which task statuses satisfy a dependency.                  *)
(*                                                                         *)
(* A table is a set of edges <<from, to>>.                                 *)
(***************************************************************************)
EXTENDS FiniteSets

EntityKinds ==
    {"strategic-plan", "batch", "feature", "task", "bug", "decision", "incident"}

EntryStates ==
    { <<"batch", "proposed">>, <<"feature", "proposed">>, <<"task", "queued">>,
      <<"bug", "reported">>, <<"decision", "proposed">>,
      <<"incident", "reported">>, <<"strategic-plan", "idea">> }

EntryState(kind) == CHOOSE s \in {e[2] : e \in EntryStates} : <<kind, s>> \in EntryStates

TerminalStates(kind) ==
    CASE kind \in {"batch", "strategic-plan", "feature"} -> {"superseded", "cancelled"}
      [] kind = "task"     -> {"done", "not-planned", "duplicate"}
      [] kind = "bug"      -> {"closed", "duplicate", "not-planned"}
      [] kind = "decision" -> {"rejected", "superseded"}
      [] kind = "incident" -> {"closed"}

-----------------------------------------------------------------------------
(* The transition tables, one per kind. *)

Aborts == {"superseded", "cancelled"}

StrategicPlanEdges ==
    ({"idea"}       \X ({"shaping"} \cup Aborts))
    \cup ({"shaping"} \X ({"ready", "idea"} \cup Aborts))
    \cup ({"ready"}   \X ({"active", "shaping"} \cup Aborts))
    \cup ({"active"}  \X ({"done", "shaping"} \cup Aborts))
    \cup ({"done"}    \X Aborts)

BatchEdges ==
    ({"proposed"}       \X ({"designing", "active"} \cup Aborts))
    \cup ({"designing"} \X ({"active"} \cup Aborts))
    \cup ({"active"}    \X ({"reviewing"} \cup Aborts))
    \cup ({"reviewing"} \X ({"done", "active"} \cup Aborts))
    \cup ({"done"}      \X Aborts)

(* Phase 1 (draft .. review) and phase 2 (proposed .. verifying) side by   *)
(* side, bridged by needs-rework.                                          *)
FeatureEdges ==
    { <<"draft", "in-review">>, <<"in-review", "approved">>,
      <<"in-review", "needs-rework">>, <<"approved", "in-progress">>,
      <<"approved", "superseded">>, <<"in-progress", "review">>,
      <<"in-progress", "needs-rework">>, <<"review", "done">>,
      <<"review", "needs-rework">> }
    \cup ({"needs-rework"} \X
             ({"in-review", "in-progress", "developing", "reviewing"} \cup Aborts))
    \cup ({"proposed"}     \X ({"designing", "specifying"} \cup Aborts))
    \cup ({"designing"}    \X ({"specifying"} \cup Aborts))
    \cup ({"specifying"}   \X ({"dev-planning", "designing"} \cup Aborts))
    \cup ({"dev-planning"} \X ({"developing", "specifying"} \cup Aborts))
    \cup ({"developing"}   \X ({"reviewing", "needs-rework", "dev-planning"} \cup Aborts))
    \cup ({"reviewing"}    \X ({"merging", "needs-rework", "done"} \cup Aborts))
    \cup ({"merging"}      \X ({"verifying"} \cup Aborts))
    \cup ({"verifying"}    \X ({"done", "needs-rework"} \cup Aborts))
    \cup ({"done"}         \X Aborts)

TaskEdges ==
    ({"queued"}             \X {"ready", "not-planned", "duplicate"})
    \cup ({"ready"}         \X {"active", "not-planned", "duplicate"})
    \cup ({"active"}        \X {"ready", "blocked", "needs-review", "needs-rework",
                                "done", "not-planned", "duplicate"})
    \cup ({"blocked"}       \X {"active"})
    \cup ({"needs-review"}  \X {"done", "needs-rework"})
    \cup ({"needs-rework"}  \X {"active"})

BugEdges ==
    ({"reported"}              \X {"triaged", "duplicate"})
    \cup ({"triaged"}          \X {"reproduced", "cannot-reproduce", "not-planned",
                                   "duplicate", "planned"})
    \cup ({"reproduced"}       \X {"planned", "not-planned"})
    \cup ({"planned"}          \X {"in-progress"})
    \cup ({"in-progress"}      \X {"needs-review"})
    \cup ({"needs-review"}     \X {"verifying", "needs-rework"})
    \cup ({"needs-rework"}     \X {"in-progress"})
    \cup ({"verifying"}        \X {"closed"})
    \cup ({"cannot-reproduce"} \X {"triaged"})

DecisionEdges ==
    ({"proposed"} \X {"accepted", "rejected"}) \cup {<<"accepted", "superseded">>}

IncidentEdges ==
    ({"reported"}                     \X {"triaged", "closed"})
    \cup ({"triaged"}                 \X {"investigating", "closed"})
    \cup ({"investigating"}           \X {"root-cause-identified", "closed"})
    \cup ({"root-cause-identified"}   \X {"mitigated", "investigating", "closed"})
    \cup ({"mitigated"}               \X {"resolved", "investigating", "closed"})
    \cup ({"resolved"}                \X {"closed"})

AllowedTransitions(kind) ==
    CASE kind = "strategic-plan" -> StrategicPlanEdges
      [] kind = "batch"          -> BatchEdges
      [] kind = "feature"        -> FeatureEdges
      [] kind = "task"           -> TaskEdges
      [] kind = "bug"            -> BugEdges
      [] kind = "decision"       -> DecisionEdges
      [] kind = "incident"       -> IncidentEdges

-----------------------------------------------------------------------------
(* The predicates. *)

KnownStates(kind) ==
    {EntryState(kind)}
    \cup {e[1] : e \in AllowedTransitions(kind)}
    \cup {e[2] : e \in AllowedTransitions(kind)}
    \cup TerminalStates(kind)

IsTerminalState(kind, s) == s \in TerminalStates(kind)

CanTransition(kind, from, to) ==
    /\ from # to
    /\ {from, to} \subseteq KnownStates(kind)
    /\ ~ IsTerminalState(kind, from)
    /\ <<from, to>> \in AllowedTransitions(kind)

NextStates(kind, from) ==
    IF IsTerminalState(kind, from) THEN {}
    ELSE {e[2] : e \in {x \in AllowedTransitions(kind) : x[1] = from}}

DependencyTerminalStates == {"done", "not-planned", "duplicate"}

IsTaskDependencySatisfied(s) == s \in DependencyTerminalStates
=============================================================================
