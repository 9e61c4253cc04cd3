---------------------------- MODULE CiRepairLoopGate ----------------------------
(***************************************************************************)
(* The CI repair loop gate (sandbox/ci_repair_loop_gate.py): from the CI   *)
(* monitor's result m decides whether a repair may be planned.  g is the   *)
(* monitor gate's result, c the pull request creator's, p the creation     *)
(* gate's; each may be left out.                                           *)
(***************************************************************************)
EXTENDS PullRequestEvidence

Forbidden ==
  {"repair_loop", "log_download", "workflow_retry", "workflow_trigger", "provider_call",
   "agent_call", "patch_proposal", "patch_apply", "file_write", "commit", "push",
   "pr_update", "merge", "auto_merge", "git_mutation", "command_execution"}

Seen(q, m, g, c) == Settled(q, << m, g, c >>)

MonitorTruthUnsafe(truth) ==
  Reports(truth, {"secrets_detected", "logs_downloaded", "workflow_retried",
    "workflow_triggered", "repair_loop_started", "pr_updated", "pr_merged",
    "auto_merge_enabled", "push_executed", "command_executed", "git_mutated",
    "provider_called", "mcp_used", "agent_called", "vault_written", "main_modified"})

MonitorGateTruthUnsafe(truth) ==
  Reports(truth, {"secrets_detected", "ci_monitored", "logs_downloaded",
    "workflow_retried", "repair_loop_started", "pr_updated", "pr_merged",
    "auto_merge_enabled", "push_executed", "command_executed", "git_mutated",
    "provider_called", "agent_called", "mcp_used", "vault_written", "main_modified"})

CreatorTruthUnsafe(truth) ==
  Reports(truth, {"secrets_detected", "pr_merged", "auto_merge_enabled",
    "approval_submitted", "push_executed", "merge_performed", "rebase_performed",
    "checkout_performed", "branch_created", "provider_called", "agent_called",
    "mcp_used", "vault_written"})

PrGateTruthUnsafe(truth) ==
  Reports(truth, {"secrets_detected", "pr_merged", "auto_merge_enabled",
    "push_executed", "main_modified", "provider_called", "mcp_used"})

SecretDetected(q, m, g, c, p) ==
  q.secret \/ "secrets_detected" \in m.truth \cup g.truth \cup c.truth \cup p.truth

\* A snapshot the monitor read and judged; no switch makes up for one.
MonitorClean(m) == m.monitored /\ m.success /\ ~m.blocked /\ ~m.human

Blocked(q, m, g, c, p) ==
  \/ SecretDetected(q, m, g, c, p)
  \/ q.mode \notin {"act", "dry_run"}
  \/ q.allow \cap Forbidden # {}
  \/ ~MonitorClean(m)
  \/ Needs(q, "runtime_truth") /\ m.truth = {}
  \/ Needs(q, "clean") /\ MonitorTruthUnsafe(m.truth)
  \/ g.given /\ (g.blocked \/ g.human \/ ~g.ci_monitor_eligible)
  \/ Needs(q, "clean") /\ MonitorGateTruthUnsafe(g.truth)
  \/ c.given /\ (c.blocked \/ ~c.success)
  \/ p.blocked
  \/ Needs(q, "clean") /\ (CreatorTruthUnsafe(c.truth) \/ PrGateTruthUnsafe(p.truth))
  \/ PullRequestBlocks(q, Seen(q, m, g, c))

\* A check that did not report, and a category that is not for repair, end it
\* without blocking the request.
Eligible(q, m, g, c, p) ==
  /\ q.mode = "act" /\ ~Blocked(q, m, g, c, p)
  /\ m.failed /\ ~m.passed /\ ~m.pending
  /\ Budget(q).valid /\ Budget(q).remaining > 0
  /\ Classified(m.failing, q).blocked = {} /\ m.missing = {}

Result(q, m, g, c, p) ==
  LET blocked == Blocked(q, m, g, c, p)
      failures == Classified(m.failing, q)
      seen == Seen(q, m, g, c) IN
  [given |-> TRUE, success |-> ~blocked, blocked |-> blocked,
   human |-> blocked \/ failures.blocked # {} \/ ~Budget(q).valid \/ m.missing # {}
             \/ m.inconclusive,
   repair_loop_eligible |-> Eligible(q, m, g, c, p),
   categories |-> failures.repairable, blocked_categories |-> failures.blocked,
   remaining |-> Budget(q).remaining, failing |-> m.failing, missing |-> m.missing,
   repository |-> seen.repository, source |-> seen.source, head |-> seen.head,
   number |-> seen.number, state |-> seen.state, sha |-> seen.sha,
   truth |-> {"recorded"} \cup Flag("secrets_detected", SecretDetected(q, m, g, c, p))
               \cup Flag("attempt_budget_remaining", Budget(q).remaining > 0)]

NoResult ==
  [given |-> FALSE, success |-> FALSE, blocked |-> FALSE, human |-> FALSE,
   repair_loop_eligible |-> FALSE, categories |-> {}, blocked_categories |-> {},
   remaining |-> 0, failing |-> {}, missing |-> {}, repository |-> NoText,
   source |-> NoBranch, head |-> NoBranch, number |-> 0, state |-> NoText, sha |-> 0,
   truth |-> {}]
================================================================================
