----------------------------- MODULE PrCreationGate -----------------------------
(***************************************************************************)
(* The pull request creation gate (sandbox/pr_creation_gate.py): from the  *)
(* push executor's evidence x, and the push gate's g when it is given,     *)
(* decides whether a pull request may be opened.                           *)
(***************************************************************************)
EXTENDS PullRequestEvidence

Forbidden ==
  {"pr_creation", "auto_merge", "merge", "push", "force_push", "main_push",
   "git_mutation", "command_execution", "network", "provider_call", "agent_call"}

\* The head branch is the request's: it is not compared with what was pushed.
Current(q, x) == OrBranch(q.current, x.remote_branch)
Remote(q, x) == OrBranch(q.remote, x.remote_branch)
Sha(q, x) == OrNumber(q.sha, x.commit_sha)
Named(q, x) == {q.source, q.head, Current(q, x), Remote(q, x)}

PushedRef(q, x) == q.ref \/ x.pushed

PushExecutorTruthUnsafe(truth) ==
  Reports(truth, {"secrets_detected", "force_push_executed", "main_pushed", "pr_created",
    "pr_merged", "merge_performed", "rebase_performed", "checkout_performed",
    "branch_created", "main_modified", "provider_called", "mcp_used", "agent_called",
    "vault_written"})

PushGateTruthUnsafe(truth) ==
  Reports(truth, {"secrets_detected", "main_push_detected", "force_push_detected",
    "protected_branch_detected", "main_modified", "pr_created", "pr_merged",
    "network_used", "provider_called", "agent_called", "mcp_used", "vault_written"})

SecretDetected(q, x, g) == q.secret \/ "secrets_detected" \in x.truth \cup g.truth

\* Mutant: any push evidence that reports nothing unsafe is clean.
PushEvidenceUnsuspicious(x) == ~x.blocked /\ ~PushExecutorTruthUnsafe(x.truth)

PushEvidenceClean(x) ==
  x.pushed /\ x.success /\ ~x.blocked /\ ~PushExecutorTruthUnsafe(x.truth)

BranchBlocks(q, x) ==
  \/ HeadBlocks(q, q.source, q.head, q.base)
  \/ Needs(q, "non_main_head")
       /\ ("main" \in Named(q, x) \/ Protected(Remote(q, x)))

Blocked(q, x, g) ==
  \/ SecretDetected(q, x, g)
  \/ q.mode \notin {"act", "dry_run"}
  \/ q.allow \cap Forbidden # {}
  \/ Needs(q, "push_executed") /\ ~(x.given /\ x.pushed)
  \/ x.blocked \/ x.human \/ (x.given /\ ~x.success)
  \/ Needs(q, "runtime_truth") /\ x.truth = {}
  \/ Needs(q, "clean") /\ ~PushEvidenceClean(x)
  \/ ~PushedRef(q, x)
  \/ Needs(q, "commit_sha") /\ Sha(q, x) = 0
  \/ g.given /\ (~g.push_eligible \/ g.blocked \/ g.human)
  \/ g.given /\ Needs(q, "runtime_truth") /\ g.truth = {}
  \/ PushGateTruthUnsafe(g.truth)
  \/ BranchBlocks(q, x) \/ ~BaseSafe(q, q.base)
  \/ ~RepositorySafe(q, q.repository) \/ ~q.texts
  \/ "duplicate_pr_risk" \in q.notes \/ MarkedMain(q)

\* Waiving what blocks does not make a request eligible.
Eligible(q, x, g) ==
  /\ q.mode = "act" /\ ~Blocked(q, x, g)
  /\ PushEvidenceClean(x)
  /\ "main" \notin Named(q, x)
  /\ \A branch \in Named(q, x) : ~Protected(branch)

Truth(q, x, g) ==
  {"recorded"} \cup Flag("secrets_detected", SecretDetected(q, x, g))
               \cup Flag("push_was_executed", x.pushed)

Result(q, x, g) ==
  LET blocked == Blocked(q, x, g) IN
  [given |-> TRUE, success |-> ~blocked, blocked |-> blocked,
   human |-> \/ blocked \/ "main" \in Named(q, x)
             \/ \E branch \in Named(q, x) : Protected(branch),
   pr_eligible |-> Eligible(q, x, g), push_was_executed |-> x.pushed,
   repository |-> q.repository, source |-> q.source, head |-> q.head,
   current |-> Current(q, x), remote |-> Remote(q, x),
   ref |-> PushedRef(q, x), sha |-> Sha(q, x), truth |-> Truth(q, x, g)]

NoResult ==
  [given |-> FALSE, success |-> FALSE, blocked |-> FALSE, human |-> FALSE,
   pr_eligible |-> FALSE, push_was_executed |-> FALSE, repository |-> NoText,
   source |-> NoBranch, head |-> NoBranch, current |-> NoBranch, remote |-> NoBranch,
   ref |-> FALSE, sha |-> 0, truth |-> {}]
================================================================================
