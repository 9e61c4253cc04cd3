------------------------------- MODULE CommitGate -------------------------------
(***************************************************************************)
(* The controlled commit gate (sandbox/commit_gate.py): from the evidence  *)
(* of a patch that was applied and validated, decides whether the change   *)
(* may be committed.  It changes nothing; its result is the evidence the   *)
(* commit executor acts on.                                                *)
(*                                                                         *)
(* v is the post-patch validation result, a the patch application result,  *)
(* x the Runtime Truth of the proposal and the repair plan.                *)
(***************************************************************************)
EXTENDS SandboxEvidence

CONSTANTS Files,  \* workspace files, already normalised paths
          Kind    \* [Files -> {"plain", "protected", "unsafe"}]

\* The capability switches that refuse the request when on.
Forbidden ==
  {"commit_execution", "git_mutation", "push", "pr_creation", "merge", "ci_change",
   "governance_change", "security_change", "vault_write", "network",
   "provider_call", "agent_call"}

\* The request's own file list wins over the applier's, and that over the
\* validator's; nothing compares them.
Considered(q, v, a) ==
  IF q.files # {} THEN q.files
  ELSE IF a.files # {} THEN a.files ELSE v.files

\* Path rules: "unsafe" is a path that does not normalise, "protected" one
\* that only allow_protected_files lets through.
FilesBlocked(q, v, a) ==
  {f \in Considered(q, v, a) :
     \/ Kind[f] = "unsafe"
     \/ Kind[f] = "protected" /\ "protected_files" \notin q.allow}

FilesEligible(q, v, a) == Considered(q, v, a) \ FilesBlocked(q, v, a)

\* Activity no earlier stage was allowed: a command only counts when the patch
\* applier reports it (validation does run commands).
DisallowedActivity(v, a, x) ==
  \/ Reports(v.truth \cup a.truth \cup x,
             {"pr_created", "pr_merged", "provider_called", "network_used",
              "mcp_used", "vault_written"})
  \/ "command_executed" \in a.truth

SecretDetected(q, v, a, x) ==
  q.secret \/ "secrets_detected" \in v.truth \cup a.truth \cup x

PatchWasApplied(v, a) == a.applied \/ v.patch_was_applied
ValidationPassed(v) == v.success /\ v.ready_for_commit

BranchBlocks(q) ==
  /\ Needs(q, "non_main_branch")
  /\ \/ q.current \in {NoBranch, "main", q.base, "release"}
     \/ q.target = "main"
     \/ q.base # "main"

\* One disjunct per refusal of the code, in its order (the order only chooses
\* the text).
Blocked(q, v, a, x) ==
  \/ SecretDetected(q, v, a, x)
  \/ q.mode \notin {"act", "dry_run"}
  \/ q.allow \cap Forbidden # {}
  \/ BranchBlocks(q)
  \/ Needs(q, "runtime_truth") /\ Needs(q, "validation") /\ v.truth = {}
  \/ Needs(q, "runtime_truth") /\ Needs(q, "patch_applied") /\ a.truth = {}
  \/ Needs(q, "patch_applied") /\ ~PatchWasApplied(v, a)
  \/ a.given /\ ~a.success
  \/ a.files_blocked # {}
  \/ a.requires_followup_validation /\ ~v.given
  \/ Needs(q, "validation") /\ ~v.given
  \/ v.blocked \/ v.human
  \/ Needs(q, "clean") /\ v.failed
  \/ v.timed_out
  \/ Needs(q, "clean") /\ ~ValidationPassed(v)
  \/ FilesBlocked(q, v, a) # {}
  \/ Reports(v.truth \cup a.truth \cup x, {"git_mutated", "main_modified"})
  \/ DisallowedActivity(v, a, x)
  \/ "direct_main_edit" \in q.notes

\* Mutant: the validation is only asked for through the waivable requirements.
EligibleUnvalidated(q, v, a, x) ==
  /\ q.mode = "act"
  /\ ~Blocked(q, v, a, x)
  /\ PatchWasApplied(v, a)
  /\ FilesEligible(q, v, a) # {}

Eligible(q, v, a, x) ==
  /\ q.mode = "act"
  /\ ~Blocked(q, v, a, x)
  /\ ValidationPassed(v)
  /\ PatchWasApplied(v, a)
  /\ FilesEligible(q, v, a) # {}

\* The flags of the gate's own Runtime Truth that can be True.
Truth(q, v, a, x) ==
  LET reported == v.truth \cup a.truth \cup x IN
  {"recorded"} \cup Flag("secrets_detected", SecretDetected(q, v, a, x))
               \cup Flag("validation_passed", ValidationPassed(v))
               \cup Flag("git_mutation_detected", "git_mutated" \in reported)
               \cup Flag("main_modification_detected", "main_modified" \in reported)

\* requires_human_intervention is blocked: every other ground for it refuses
\* the request as well.
Result(q, v, a, x) ==
  [given |-> TRUE,
   blocked |-> Blocked(q, v, a, x),
   human |-> Blocked(q, v, a, x),
   commit_eligible |-> Eligible(q, v, a, x),
   validation_passed |-> ValidationPassed(v),
   patch_was_applied |-> PatchWasApplied(v, a),
   files |-> FilesEligible(q, v, a),
   truth |-> Truth(q, v, a, x)]

NoResult ==
  [given |-> FALSE, blocked |-> FALSE, human |-> FALSE, commit_eligible |-> FALSE,
   validation_passed |-> FALSE, patch_was_applied |-> FALSE, files |-> {},
   truth |-> {}]
================================================================================
