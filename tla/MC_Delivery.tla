---------------------------- MODULE MC_Delivery ----------------------------
(* Delivery for two sessions. *)
EXTENDS Delivery, TLC

CONSTANTS c1, c2, r1, r2

(* Each workload puts one thing beside the life of the worktree. *)
ServerWorkloads ==
    {[kind |-> "feature", started |-> FALSE,
      tools |-> {"worktree", "merge", "cleanup", "disturb"}],
     [kind |-> "feature", started |-> TRUE, tools |-> {"merge", "cleanup", "disturb", "die"}],
     [kind |-> "feature", started |-> TRUE, tools |-> {"merge", "move"}],
     [kind |-> "feature", started |-> TRUE, tools |-> {"worktree", "update", "cli"}],
     [kind |-> "feature", started |-> TRUE, tools |-> {"update", "regraph", "cli"}],
     [kind |-> "feature", started |-> TRUE, tools |-> {"merge", "pr", "require-pr", "work"}],
     [kind |-> "feature", started |-> FALSE, tools |-> {"cli", "worktree", "disturb"}],
     [kind |-> "bug", started |-> FALSE, tools |-> {"move", "worktree", "work"}]}
=============================================================================
