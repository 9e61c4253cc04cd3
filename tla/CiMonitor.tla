------------------------------- MODULE CiMonitor -------------------------------
(***************************************************************************)
(* The controlled CI monitor (sandbox/ci_monitor.py): one snapshot of the  *)
(* checks of a commit and what it makes of it.  g is the monitor gate's    *)
(* result, c the pull request creator's, p the creation gate's; each may   *)
(* be left out.                                                            *)
(*                                                                         *)
(* A snapshot is a set of items [name, status, conclusion, required]; a    *)
(* field an item lacks is NoText.                                          *)
(***************************************************************************)
EXTENDS PullRequestEvidence

Forbidden ==
  {"log_download", "workflow_retry", "workflow_trigger", "repair_loop", "pr_update",
   "merge", "auto_merge", "push", "git_mutation", "command_execution",
   "provider_call", "agent_call"}

FAIL_STATUSES == {"failure", "cancelled", "timed_out", "action_required"}
PENDING_STATUSES == {"queued", "in_progress", "pending"}
KNOWN_STATUSES == FAIL_STATUSES \cup PENDING_STATUSES \cup {"success", "skipped", "neutral"}

Seen(q, g, c) == Settled(q, << g, c >>)

GateTruthUnsafe(truth) ==
  Reports(truth, {"secrets_detected", "ci_monitored", "ci_status_fetched",
    "workflow_runs_fetched", "check_runs_fetched", "logs_downloaded", "workflow_retried",
    "repair_loop_started", "pr_updated", "pr_merged", "auto_merge_enabled",
    "push_executed", "main_modified", "provider_called", "mcp_used", "agent_called",
    "vault_written"})

CreatorTruthUnsafe(truth) ==
  Reports(truth, {"secrets_detected", "pr_merged", "auto_merge_enabled",
    "approval_submitted", "push_executed", "merge_performed", "rebase_performed",
    "checkout_performed", "branch_created", "provider_called", "agent_called",
    "mcp_used", "vault_written"})

PrGateTruthUnsafe(truth) ==
  Reports(truth, {"secrets_detected", "pr_merged", "auto_merge_enabled",
    "push_executed", "main_modified", "provider_called", "mcp_used"})

SecretDetected(q, g, c, p) ==
  q.secret \/ "secrets_detected" \in g.truth \cup c.truth \cup p.truth

PrWasCreated(g, c) == c.pr_created \/ g.pr_was_created

Blocked(q, g, c, p) ==
  \/ SecretDetected(q, g, c, p)
  \/ q.mode \notin {"act", "dry_run"}
  \/ q.allow \cap Forbidden # {} \/ ~Needs(q, "ci_monitoring")
  \/ g.blocked \/ g.human
  \/ Needs(q, "ci_monitor_gate_eligible") /\ ~g.ci_monitor_eligible
  \/ Needs(q, "clean") /\ (GateTruthUnsafe(g.truth) \/ CreatorTruthUnsafe(c.truth))
  \/ /\ Needs(q, "pr_created")
     /\ (c.given /\ ~(c.success /\ c.pr_created)) \/ ~PrWasCreated(g, c)
  \/ Needs(q, "runtime_truth") /\ c.given /\ c.truth = {}
  \/ p.blocked \/ (Needs(q, "clean") /\ PrGateTruthUnsafe(p.truth))
  \/ LET seen == Seen(q, g, c) IN
       \/ seen.number = 0 \/ ~PrOpenEnough(q, seen.state)
       \/ ~RepositorySafe(q, seen.repository)
       \/ HeadBlocks(q, seen.source, seen.head, q.base)
       \/ Needs(q, "head_sha") /\ seen.sha = 0
  \/ ~BaseSafe(q, q.base)
  \/ ~q.names \/ MarkedFrozen(q)

-----------------------------------------------------------------------------
\* GitHub's status of a check run that has ended is "completed", whatever its
\* conclusion.
StatusWord(item) == OrText(item.status, item.conclusion)
Normalized(word) ==
  IF word \in {"completed", "passed"} THEN "success"
  ELSE IF word = "errored" THEN "failure"
  ELSE IF word = "running" THEN "in_progress"
  ELSE IF word \in KNOWN_STATUSES THEN word ELSE "unknown"

Status(item) == Normalized(StatusWord(item))

\* Mutant: an expected check that did not report is overlooked.
SummaryIgnoringMissing(items, required) ==
  LET observed == {item \in items : item.required \/ item.name \in required}
      named(statuses) == {item.name : item \in {i \in observed : Status(i) \in statuses}}
      failing == named(FAIL_STATUSES)
      pending == named(PENDING_STATUSES)
      unknown == named({"unknown"})
      failed == failing # {} \/ (unknown # {} /\ pending = {})
  IN [failing |-> failing, waiting |-> pending, missing |-> {}, unknown |-> unknown,
      failed |-> failed, pending |-> pending # {} /\ ~failed,
      passed |-> /\ observed # {} \/ required # {}
                 /\ ~failed /\ pending = {} /\ unknown = {}]

\* Mutant: a check still running counts as failed.
SummaryFailingPending(items, required) ==
  LET observed == {item \in items : item.required \/ item.name \in required}
      named(statuses) == {item.name : item \in {i \in observed : Status(i) \in statuses}}
      failing == named(FAIL_STATUSES \cup PENDING_STATUSES)
      missing == required \ {item.name : item \in items}
      unknown == named({"unknown"})
      failed == failing # {} \/ missing # {} \/ unknown # {}
  IN [failing |-> failing, waiting |-> {}, missing |-> missing, unknown |-> unknown,
      failed |-> failed, pending |-> FALSE,
      passed |-> (observed # {} \/ required # {}) /\ ~failed]

\* What is made of the checks seen, those the caller expects but did not see
\* among the failures.
Summary(items, required) ==
  LET observed == {item \in items : item.required \/ item.name \in required}
      named(statuses) == {item.name : item \in {i \in observed : Status(i) \in statuses}}
      failing == named(FAIL_STATUSES)
      pending == named(PENDING_STATUSES)
      unknown == named({"unknown"})
      missing == required \ {item.name : item \in items}
      failed == failing # {} \/ missing # {} \/ (unknown # {} /\ pending = {})
  IN [failing |-> failing, waiting |-> pending, missing |-> missing, unknown |-> unknown,
      failed |-> failed, pending |-> pending # {} /\ ~failed,
      passed |-> /\ observed # {} \/ required # {}
                 /\ ~failed /\ pending = {} /\ unknown = {} /\ missing = {}]

\* outcome: "read", "unread" (the client raised), "secret" (redaction found a
\* credential in the answer), "dry_run" or "blocked".
Result(q, g, c, p, outcome, items) ==
  LET blocked == outcome \in {"blocked", "secret"}
      summary == Summary(items, q.required)
      seen == Seen(q, g, c)
      secret == outcome = "secret" \/ SecretDetected(q, g, c, p) IN
  [given |-> TRUE, monitored |-> outcome = "read",
   success |-> outcome \in {"read", "dry_run"}, blocked |-> blocked,
   human |-> blocked \/ secret \/ seen.state \in {"closed", "merged"},
   failed |-> summary.failed, pending |-> summary.pending, passed |-> summary.passed,
   inconclusive |-> ~blocked /\ ~summary.failed /\ ~summary.pending /\ ~summary.passed,
   failing |-> summary.failing, waiting |-> summary.waiting,
   missing |-> summary.missing, unknown |-> summary.unknown,
   pr_was_created |-> PrWasCreated(g, c),
   repository |-> seen.repository, source |-> seen.source, head |-> seen.head,
   number |-> seen.number, state |-> seen.state, sha |-> seen.sha,
   truth |-> {"recorded"} \cup Flag("secrets_detected", secret)
               \cup (IF outcome = "read" THEN {"ci_monitored", "ci_status_fetched"} ELSE {})]

NoResult ==
  [given |-> FALSE, monitored |-> FALSE, success |-> FALSE, blocked |-> FALSE,
   human |-> FALSE, failed |-> FALSE, pending |-> FALSE, passed |-> FALSE,
   inconclusive |-> FALSE, failing |-> {}, waiting |-> {}, missing |-> {}, unknown |-> {},
   pr_was_created |-> FALSE, repository |-> NoText, source |-> NoBranch,
   head |-> NoBranch, number |-> 0, state |-> NoText, sha |-> 0, truth |-> {}]
================================================================================
