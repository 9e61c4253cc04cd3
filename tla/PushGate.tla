-------------------------------- MODULE PushGate --------------------------------
(***************************************************************************)
(* The controlled push gate (sandbox/push_gate.py): from the commit        *)
(* executor's evidence, decides whether the branch may be pushed.          *)
(*                                                                         *)
(* e is the commit executor's result, g the commit gate's, v the           *)
(* post-patch validation's; each may be NoResult.  A push request also has *)
(* remote (the remote branch, NoBranch for the default: the current one),  *)
(* ref (what proposed_push_ref names: "own", "main", "mutating" for one    *)
(* with a colon, "force", "other"), origin (remote_name is origin) and sha   *)
(* (its own commit_sha, 0 for none).                                       *)
(***************************************************************************)
EXTENDS SandboxEvidence

CONSTANTS Kind

Forbidden ==
  {"push_execution", "force_push", "main_push", "protected_branch_push",
   "git_mutation", "pr_creation", "merge", "rebase", "branch_create", "checkout",
   "network", "provider_call", "agent_call"}

\* Any of these in any piece of evidence refuses the request.
UnsafeFlags ==
  {"pushed", "push_executed", "pr_created", "pr_merged", "merge_performed",
   "rebase_performed", "checkout_performed", "branch_created", "main_modified",
   "network_used", "provider_called", "mcp_used", "agent_called", "vault_written",
   "git_mutated"}

Truths(e, g, v) == e.truth \cup g.truth \cup v.truth
UnsafeActivity(e, g, v) == Reports(Truths(e, g, v), UnsafeFlags)

RemoteBranch(q) == IF q.remote = NoBranch THEN q.current ELSE q.remote

\* What a request names itself comes before the evidence.
CommitSha(q, e) == IF q.sha # 0 THEN q.sha ELSE e.commit_sha

FilesConsidered(q, e) ==
  IF q.files # {} THEN q.files ELSE IF e.files # {} THEN e.files ELSE e.considered

FilesBlocked(q, e) == {f \in FilesConsidered(q, e) : Kind[f] # "plain"}

Protected(branch) == branch \in {"release", "guarded"}
ForcePush(q) == "force_push" \in q.notes \/ q.ref = "force"
MainPush(q) ==
  \/ "push_main" \in q.notes
  \/ "main" \in {q.current, q.target, RemoteBranch(q)}
  \/ q.ref = "main"

BranchBlocks(q) ==
  /\ Needs(q, "non_main_branch")
  /\ \/ q.current \in {NoBranch, "main", q.base}
     \/ "main" \in {q.target, RemoteBranch(q)}
     \/ q.base # "main"
     \/ Protected(q.current) \/ Protected(RemoteBranch(q))

RemoteBlocks(q) ==
  \/ ~q.origin /\ "allow_named_remote" \notin q.notes
  \/ q.current # NoBranch /\ RemoteBranch(q) # q.current
  \/ Protected(RemoteBranch(q))
  \/ q.ref \in {"force", "mutating", "main"}
  \/ q.ref = "other" /\ q.current # NoBranch

SecretDetected(q, e, g, v) ==
  q.secret \/ "secrets_detected" \in Truths(e, g, v)

CommitEvidenceClean(q, e, g, v) ==
  /\ e.committed /\ e.success /\ CommitSha(q, e) # 0
  /\ ~UnsafeActivity(e, g, v)
  /\ "secrets_detected" \notin Truths(e, g, v)

Blocked(q, e, g, v) ==
  \/ SecretDetected(q, e, g, v)
  \/ q.mode \notin {"act", "dry_run"}
  \/ q.allow \cap Forbidden # {}
  \/ e.blocked \/ e.human
  \/ Needs(q, "prior") /\ ~(e.given /\ e.committed /\ CommitSha(q, e) # 0)
  \/ e.given /\ ~e.success
  \/ Needs(q, "runtime_truth") /\ e.truth = {}
  \/ Needs(q, "clean") /\ ~CommitEvidenceClean(q, e, g, v)
  \/ g.given /\ (~g.commit_eligible \/ g.blocked \/ g.human)
  \/ Needs(q, "runtime_truth") /\ g.given /\ g.truth = {}
  \/ BranchBlocks(q)
  \/ RemoteBlocks(q)
  \/ FilesBlocked(q, e) # {}
  \/ Protected(q.current) \/ Protected(RemoteBranch(q))
  \/ ForcePush(q) \/ MainPush(q)
  \/ UnsafeActivity(e, g, v)
  \/ q.notes \cap {"direct_main_edit", "push_main", "force_push"} # {}

Eligible(q, e, g, v) ==
  /\ q.mode = "act"
  /\ ~Blocked(q, e, g, v)
  /\ CommitEvidenceClean(q, e, g, v)
  /\ ~BranchBlocks(q)
  /\ FilesBlocked(q, e) = {}

Truth(q, e, g, v) ==
  {"recorded"} \cup Flag("secrets_detected", SecretDetected(q, e, g, v))
               \cup Flag("force_push_detected", ForcePush(q))
               \cup Flag("main_push_detected", MainPush(q))
               \cup Flag("protected_branch_detected",
                         Protected(q.current) \/ Protected(RemoteBranch(q)))

Result(q, e, g, v) ==
  [given |-> TRUE,
   success |-> ~Blocked(q, e, g, v),
   blocked |-> Blocked(q, e, g, v),
   human |-> Blocked(q, e, g, v),
   push_eligible |-> Eligible(q, e, g, v),
   commit_sha |-> CommitSha(q, e),
   target |-> q.target,
   remote_branch |-> RemoteBranch(q),
   truth |-> Truth(q, e, g, v)]

NoResult ==
  [given |-> FALSE, success |-> FALSE, blocked |-> FALSE, human |-> FALSE,
   push_eligible |-> FALSE, commit_sha |-> 0, target |-> NoBranch,
   remote_branch |-> NoBranch, truth |-> {}]
================================================================================
