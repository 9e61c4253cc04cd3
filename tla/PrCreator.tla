------------------------------- MODULE PrCreator -------------------------------
(***************************************************************************)
(* The decisions of the controlled pull request creator                    *)
(* (sandbox/pr_creator.py); its calls to GitHub are steps of module        *)
(* PullRequestDelivery.  g is the creation gate's result, x the push       *)
(* executor's, which need not be handed over.                              *)
(***************************************************************************)
EXTENDS PullRequestEvidence

Forbidden ==
  {"merge", "auto_merge", "push", "force_push", "main_push", "git_mutation",
   "command_execution", "provider_call", "agent_call"}

Repository(q, g) == OrText(q.repository, g.repository)
SourceBranch(q, g) == OrBranch(q.source, g.source)
HeadBranch(q, g) == OrBranch(OrBranch(q.head, g.head), SourceBranch(q, g))
Current(q, g, x) == OrBranch(OrBranch(q.current, g.current), x.remote_branch)
Remote(q, g, x) == OrBranch(OrBranch(q.remote, g.remote), x.remote_branch)
Sha(q, g, x) == OrNumber(OrNumber(q.sha, g.sha), x.commit_sha)

GateTruthUnsafe(truth) ==
  Reports(truth, {"secrets_detected", "pr_created", "pr_merged", "auto_merge_enabled",
    "main_modified", "provider_called", "mcp_used", "agent_called", "vault_written"})

PushTruthUnsafe(truth) ==
  Reports(truth, {"secrets_detected", "force_push_executed", "main_pushed", "pr_created",
    "pr_merged", "auto_merge_enabled", "merge_performed", "rebase_performed",
    "checkout_performed", "branch_created", "provider_called", "agent_called",
    "mcp_used", "vault_written"})

PushWasExecuted(g, x) ==
  x.pushed \/ g.push_was_executed \/ "push_was_executed" \in g.truth

SecretDetected(q, g, x) == q.secret \/ "secrets_detected" \in g.truth \cup x.truth

BranchBlocks(q, g, x) ==
  \/ HeadBlocks(q, SourceBranch(q, g), HeadBranch(q, g), q.base)
  \/ /\ Needs(q, "non_main_head")
     /\ "main" \in {Current(q, g, x), Remote(q, g, x)} \/ Protected(Remote(q, g, x))

\* That the gate found the request ready is not subject to any switch.
Blocked(q, g, x) ==
  \/ SecretDetected(q, g, x)
  \/ q.mode \notin {"act", "dry_run"}
  \/ q.allow \cap Forbidden # {}
  \/ q.mode = "act" /\ ~({"pr_creation", "network"} \subseteq q.allow)
  \/ g.blocked \/ g.human \/ ~g.pr_eligible \/ ~g.success
  \/ Needs(q, "runtime_truth") /\ g.truth = {}
  \/ Needs(q, "clean") /\ GateTruthUnsafe(g.truth)
  \/ Needs(q, "push_executed") /\ ~PushWasExecuted(g, x)
  \/ x.given /\ Needs(q, "push_executed") /\ ~x.pushed
  \/ x.given /\ (~x.success \/ PushTruthUnsafe(x.truth))
  \/ x.given /\ Needs(q, "runtime_truth") /\ x.truth = {}
  \/ Needs(q, "commit_sha") /\ Sha(q, g, x) = 0
  \/ ~(q.ref \/ g.ref \/ x.pushed)
  \/ ~RepositorySafe(q, Repository(q, g))
  \/ NoBranch \in {SourceBranch(q, g), HeadBranch(q, g)} \/ BranchBlocks(q, g, x)
  \/ ~BaseSafe(q, q.base) \/ ~q.texts
  \/ MarkedMain(q)

\* outcome: "created", "found" (an open pull request exists already),
\* "dry_run" or "blocked"; number and state are what GitHub answered.
Truth(q, g, x, outcome) ==
  {"recorded"} \cup Flag("secrets_detected", SecretDetected(q, g, x))
               \cup Flag("push_was_executed", PushWasExecuted(g, x))
               \cup Flag("pr_created", outcome = "created")
               \cup Flag("network_used", outcome \in {"created", "found"})

Result(q, g, x, outcome, number, state) ==
  [given |-> TRUE, success |-> outcome # "blocked", blocked |-> outcome = "blocked",
   human |-> outcome = "blocked", pr_created |-> outcome = "created",
   repository |-> Repository(q, g), source |-> SourceBranch(q, g), head |-> HeadBranch(q, g),
   number |-> number, state |-> state, sha |-> Sha(q, g, x),
   truth |-> Truth(q, g, x, outcome)]

NoResult ==
  [given |-> FALSE, success |-> FALSE, blocked |-> FALSE, human |-> FALSE,
   pr_created |-> FALSE, repository |-> NoText, source |-> NoBranch, head |-> NoBranch,
   number |-> 0, state |-> NoText, sha |-> 0, truth |-> {}]
================================================================================
