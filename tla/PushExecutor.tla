------------------------------ MODULE PushExecutor ------------------------------
(***************************************************************************)
(* The decisions of the controlled push executor                           *)
(* (sandbox/push_executor.py).  The git calls are steps of module          *)
(* CommitDelivery.  p is the push gate's result, e the commit executor's;  *)
(* requests have the extra fields of module PushGate.                      *)
(***************************************************************************)
EXTENDS SandboxEvidence

\* allow_network is not among them: a push uses the network.
Forbidden ==
  {"force_push", "main_push", "protected_branch_push", "pr_creation", "merge",
   "rebase", "branch_create", "checkout", "file_write", "code_edit",
   "patch_apply", "provider_call", "agent_call"}

Protected(branch) == branch \in {"release", "guarded"}

\* Mutant: main is only kept out by the waivable branch rule.
NameSafeUnlessProtected(branch) == branch # NoBranch /\ ~Protected(branch)

\* The names a refspec of this executor may hold.
BranchNameSafe(branch) == branch \notin {NoBranch, "main"} /\ ~Protected(branch)

\* Branch fields the request leaves empty are filled in from the evidence.
FirstNamed(a, b, c) == IF a # NoBranch THEN a ELSE IF b # NoBranch THEN b ELSE c
RemoteBranch(q, p) == FirstNamed(q.remote, p.remote_branch, q.current)
Target(q, p, e) == FirstNamed(q.target, p.target, e.target)

\* Mutant: the base branch is the source.
PushRefFromBase(q, p) == [from |-> q.base, to |-> RemoteBranch(q, p)]

\* `current:refs/heads/remote`: source and destination are always named, so
\* the push depends neither on HEAD nor on a configured upstream.
FinalPushRef(q, p) == [from |-> q.current, to |-> RemoteBranch(q, p)]

BranchBlocks(q, p, e, current) ==
  /\ Needs(q, "non_main_branch")
  /\ \/ current \in {NoBranch, "main", q.base}
     \/ "main" \in {Target(q, p, e), RemoteBranch(q, p)}
     \/ q.base # "main"
     \/ Protected(current) \/ Protected(RemoteBranch(q, p))

VerifiedBranchBlocks(q, p, e, verified) ==
  \/ verified = NoBranch
  \/ BranchBlocks(q, p, e, verified)
  \/ verified # q.current

\* Not subject to the non-main switch: this is what keeps main out of every
\* push, whatever the caller turned off.
RemoteBlocks(q, p) ==
  \/ Needs(q, "origin") /\ ~q.origin
  \/ ~BranchNameSafe(q.current) \/ ~BranchNameSafe(RemoteBranch(q, p))
  \/ q.current # RemoteBranch(q, p)
  \/ q.ref # "own"

PushGateTruthUnsafe(truth) ==
  Reports(truth, {"secrets_detected", "force_push_detected", "main_push_detected",
    "protected_branch_detected", "push_executed", "main_pushed", "pr_created",
    "pr_merged", "merge_performed", "rebase_performed", "checkout_performed",
    "branch_created", "main_modified", "provider_called", "mcp_used",
    "agent_called", "vault_written"})

CommitExecutorTruthUnsafe(truth) ==
  Reports(truth, {"secrets_detected", "pushed", "push_executed",
    "force_push_executed", "main_pushed", "pr_created", "pr_merged",
    "merge_performed", "rebase_performed", "checkout_performed", "branch_created",
    "main_modified", "provider_called", "mcp_used", "agent_called",
    "vault_written"})

\* The commit is named by the request or by the evidence, and never read from the
\* repository, nor compared with what is there.
CommitSha(q, p, e) ==
  IF q.sha # 0 THEN q.sha ELSE IF e.commit_sha # 0 THEN e.commit_sha ELSE p.commit_sha

\* verified is the request's verified_current_branch: only a dry run looks at
\* it, an actual push asks git.
Blocked(q, p, e) ==
  \/ q.secret \/ "secrets_detected" \in p.truth \cup e.truth
  \/ q.mode \notin {"act", "dry_run"}
  \/ q.mode = "act" /\ "push_execution" \in q.waived
  \/ q.allow \cap Forbidden # {}
  \/ BranchBlocks(q, p, e, q.current)
  \/ q.mode = "dry_run" /\ VerifiedBranchBlocks(q, p, e, q.verified)
  \/ RemoteBlocks(q, p)
  \/ Needs(q, "prior") /\ ~(p.given /\ p.push_eligible)
  \/ p.blocked \/ p.human \/ (p.given /\ ~p.success)
  \/ ~p.push_eligible                    \* push_ready_metadata_only
  \/ Needs(q, "runtime_truth") /\ p.truth = {}
  \/ Needs(q, "clean") /\ PushGateTruthUnsafe(p.truth)
  \/ Needs(q, "commit") /\ ~(e.given /\ e.committed /\ e.commit_sha # 0)
  \/ e.blocked \/ e.human \/ (e.given /\ ~e.success)
  \/ Needs(q, "runtime_truth") /\ e.truth = {}
  \/ Needs(q, "clean") /\ CommitExecutorTruthUnsafe(e.truth)
  \/ q.notes \cap {"direct_main_edit", "push_main", "force_push"} # {}

Truth(q, p, e, pushed, attempted, contacted) ==
  {"recorded"}
    \cup Flag("secrets_detected", q.secret \/ "secrets_detected" \in p.truth \cup e.truth)
    \cup Flag("command_executed", attempted)
    \cup Flag("network_used", contacted)
    \cup (IF pushed THEN {"pushed", "push_executed", "git_mutated"} ELSE {})

\* outcome: "pushed", "dry_run" or "blocked" (refused, or a git call failed).
Result(q, p, e, outcome, attempted, contacted) ==
  [given |-> TRUE,
   success |-> outcome \in {"pushed", "dry_run"},
   blocked |-> outcome = "blocked",
   human |-> outcome = "blocked",
   pushed |-> outcome = "pushed",
   commit_sha |-> CommitSha(q, p, e),
   remote_branch |-> RemoteBranch(q, p),
   truth |-> Truth(q, p, e, outcome = "pushed", attempted, contacted)]

NoResult ==
  [given |-> FALSE, success |-> FALSE, blocked |-> FALSE, human |-> FALSE,
   pushed |-> FALSE, commit_sha |-> 0, remote_branch |-> NoBranch, truth |-> {}]
================================================================================
