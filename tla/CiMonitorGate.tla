----------------------------- MODULE CiMonitorGate -----------------------------
(***************************************************************************)
(* The CI monitor gate (sandbox/ci_monitor_gate.py): from the pull request *)
(* creator's result c decides whether the checks of that pull request may  *)
(* be read.  g is the creation gate's result and x the push executor's,    *)
(* each of which may be left out.                                          *)
(***************************************************************************)
EXTENDS PullRequestEvidence

Forbidden ==
  {"ci_monitoring", "github_api", "log_download", "workflow_retry", "repair_loop",
   "merge", "auto_merge", "pr_update", "push", "force_push", "main_push",
   "git_mutation", "command_execution", "network", "provider_call", "agent_call"}

Repository(q, c, g) == OrText(OrText(q.repository, c.repository), g.repository)
Number(q, c) == OrNumber(q.number, c.number)
State(q, c) == OrText(OrText(q.state, c.state), "open")
SourceBranch(q, c, g) == OrBranch(OrBranch(q.source, c.source), g.source)
HeadBranch(q, c, g) == OrBranch(OrBranch(q.head, c.head), g.head)
\* Mutant: the newest push before what the creator reported.
NewestSha(q, c, g, x) == OrNumber(OrNumber(OrNumber(q.sha, x.commit_sha), c.sha), g.sha)

Sha(q, c, g, x) == OrNumber(OrNumber(OrNumber(q.sha, c.sha), g.sha), x.commit_sha)

CreatorTruthUnsafe(truth) ==
  Reports(truth, {"secrets_detected", "pr_merged", "auto_merge_enabled",
    "approval_submitted", "push_executed", "merge_performed", "rebase_performed",
    "checkout_performed", "branch_created", "main_modified", "provider_called",
    "mcp_used", "agent_called", "vault_written"})

PrGateTruthUnsafe(truth) ==
  Reports(truth, {"secrets_detected", "pr_created", "pr_merged", "auto_merge_enabled",
    "push_executed", "main_modified", "provider_called", "agent_called", "mcp_used",
    "vault_written"})

PushTruthUnsafe(truth) ==
  Reports(truth, {"secrets_detected", "force_push_executed", "main_pushed", "pr_merged",
    "auto_merge_enabled", "merge_performed", "rebase_performed", "checkout_performed",
    "branch_created", "provider_called", "agent_called", "mcp_used", "vault_written"})

SecretDetected(q, c, g, x) ==
  q.secret \/ "secrets_detected" \in c.truth \cup g.truth \cup x.truth

\* Mutant: a pull request that was found is as good as one that was created.
PrEvidenceFound(c) == c.success /\ ~c.blocked /\ ~CreatorTruthUnsafe(c.truth)

\* A result that found an open pull request did not create one: it is not
\* clean, and the pull request of a creation whose answer was lost stays out.
PrEvidenceClean(c) ==
  c.pr_created /\ c.success /\ ~c.blocked /\ ~CreatorTruthUnsafe(c.truth)

PrSafe(q, c) == PrOpenEnough(q, State(q, c)) /\ ~MarkedAway(q) /\ ~MarkedFrozen(q)

Blocked(q, c, g, x) ==
  \/ SecretDetected(q, c, g, x)
  \/ q.mode \notin {"act", "dry_run"}
  \/ q.allow \cap Forbidden # {}
  \/ c.blocked \/ c.human \/ (c.given /\ ~c.success)
  \/ Needs(q, "runtime_truth") /\ c.given /\ c.truth = {}
  \/ Needs(q, "clean") /\ (CreatorTruthUnsafe(c.truth) \/ ~PrEvidenceClean(c))
  \/ Needs(q, "pr_created") /\ (~c.pr_created \/ Number(q, c) = 0)
  \/ ~PrSafe(q, c)
  \/ Needs(q, "repository_safe") /\ ~RepositorySafe(q, Repository(q, c, g))
  \/ HeadBlocks(q, SourceBranch(q, c, g), HeadBranch(q, c, g), q.base) \/ ~BaseSafe(q, q.base)
  \/ Needs(q, "head_sha") /\ Sha(q, c, g, x) = 0
  \/ ~q.names
  \/ g.given /\ (~g.pr_eligible \/ g.blocked \/ g.human)
  \/ g.given /\ Needs(q, "runtime_truth") /\ g.truth = {}
  \/ PrGateTruthUnsafe(g.truth)
  \/ x.given /\ (~x.success \/ (Needs(q, "clean") /\ ~x.pushed))
  \/ PushTruthUnsafe(x.truth)
  \/ MarkedMain(q)

Eligible(q, c, g, x) ==
  /\ q.mode = "act" /\ ~Blocked(q, c, g, x)
  /\ PrEvidenceClean(c) /\ Number(q, c) # 0
  /\ RepositorySafe(q, Repository(q, c, g))

Result(q, c, g, x) ==
  LET blocked == Blocked(q, c, g, x)
      branches == {SourceBranch(q, c, g), HeadBranch(q, c, g)} IN
  [given |-> TRUE, success |-> ~blocked, blocked |-> blocked,
   human |-> \/ blocked \/ "main" \in branches \/ \E b \in branches : Protected(b)
             \/ ~RepositorySafe(q, Repository(q, c, g)),
   ci_monitor_eligible |-> Eligible(q, c, g, x), pr_was_created |-> c.pr_created,
   repository |-> Repository(q, c, g), source |-> SourceBranch(q, c, g), head |-> HeadBranch(q, c, g),
   number |-> Number(q, c), state |-> State(q, c), sha |-> Sha(q, c, g, x),
   truth |-> {"recorded"} \cup Flag("secrets_detected", SecretDetected(q, c, g, x))]

NoResult ==
  [given |-> FALSE, success |-> FALSE, blocked |-> FALSE, human |-> FALSE,
   ci_monitor_eligible |-> FALSE, pr_was_created |-> FALSE, repository |-> NoText,
   source |-> NoBranch, head |-> NoBranch, number |-> 0, state |-> NoText, sha |-> 0,
   truth |-> {}]
================================================================================
