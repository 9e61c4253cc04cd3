----------------------------- MODULE CommitExecutor -----------------------------
(***************************************************************************)
(* The decisions of the controlled commit executor                         *)
(* (sandbox/commit_executor.py): what it refuses before it runs git, what  *)
(* it refuses after it has read the branch, and the result it reports.     *)
(* The git calls themselves are steps of module CommitDelivery.            *)
(*                                                                         *)
(* g is the commit gate's result; q.files the request's files_to_commit.   *)
(***************************************************************************)
EXTENDS SandboxEvidence

CONSTANTS Files, Kind, MaxFiles  \* MaxFiles: max_files_to_stage

Forbidden ==
  {"push", "pr_creation", "merge", "rebase", "branch_create", "checkout",
   "file_write", "code_edit", "patch_apply", "network", "provider_call",
   "agent_call"}

\* allow_git_add and allow_git_commit are on unless the request turns them off.
Capable(q) == "git_add_and_commit" \notin q.waived

Requested(q, g) == IF q.files # {} THEN q.files ELSE g.files

\* What may be staged: files the gate found eligible (when it lists any), none
\* of them protected.
Refused(q, g) ==
  {f \in Requested(q, g) : \/ Kind[f] # "plain"
                           \/ g.files # {} /\ f \notin g.files}

FilesConsidered(q, g) == Requested(q, g) \ Refused(q, g)

BranchBlocks(q, current) ==
  /\ Needs(q, "non_main_branch")
  /\ \/ current \in {NoBranch, "main", q.base, "release"}
     \/ q.target = "main"
     \/ q.base # "main"

\* Mutant: the branch the caller names is believed.
BelievedBranch(q, verified) == FALSE

\* The check after `git rev-parse --abbrev-ref HEAD`.
VerifiedBranchBlocks(q, verified) ==
  BranchBlocks(q, verified) \/ verified # q.current

GateTruthUnsafe(truth) ==
  \/ Reports(truth, {"secrets_detected", "main_modification_detected",
                     "main_modified", "git_mutation_detected", "pr_created",
                     "pr_merged"})
  \/ truth # {} /\ "validation_passed" \notin truth

Secret(q, g) == q.secret \/ "secrets_detected" \in g.truth

Blocked(q, g) ==
  \/ Secret(q, g)
  \/ q.mode \notin {"act", "dry_run"}
  \/ q.allow \cap Forbidden # {}
  \/ ~Capable(q)
  \/ BranchBlocks(q, q.current)
  \/ Needs(q, "prior") /\ ~(g.given /\ g.commit_eligible)
  \/ g.blocked \/ g.human
  \/ ~g.commit_eligible                  \* commit_ready_metadata_only
  \/ Needs(q, "validation") /\ ~g.validation_passed
  \/ Needs(q, "patch_applied") /\ ~g.patch_was_applied
  \/ Needs(q, "runtime_truth") /\ g.truth = {}
  \/ Needs(q, "clean") /\ GateTruthUnsafe(g.truth)
  \/ Refused(q, g) # {}
  \/ Cardinality(FilesConsidered(q, g)) > MaxFiles
  \/ FilesConsidered(q, g) = {}
  \/ "direct_main_edit" \in q.notes

Truth(q, g, committed, attempted) ==
  {"recorded"} \cup Flag("secrets_detected", Secret(q, g))
               \cup Flag("command_executed", attempted)
               \cup (IF committed THEN {"commit_executed", "files_staged", "git_mutated"}
                                  ELSE {})

\* Mutant: a failed run is never partial.
ResultNeverPartial(q, g, outcome, sha, staged, attempted) ==
  [given |-> TRUE, success |-> outcome \in {"committed", "dry_run"},
   blocked |-> outcome \in {"blocked", "failed"}, human |-> outcome \in {"blocked", "failed"},
   committed |-> outcome = "committed", partial |-> FALSE,
   commit_sha |-> IF outcome = "committed" THEN sha ELSE 0, files |-> staged,
   considered |-> FilesConsidered(q, g),
   target |-> q.target, truth |-> Truth(q, g, outcome = "committed", attempted)]

\* outcome: "committed", "dry_run", "blocked" (refused, or nothing new was
\* committed) or "failed" (a git call failed); sha is the head read at the end.
Result(q, g, outcome, sha, staged, attempted) ==
  [given |-> TRUE,
   success |-> outcome \in {"committed", "dry_run"},
   blocked |-> outcome \in {"blocked", "failed"},
   human |-> outcome \in {"blocked", "failed"},
   committed |-> outcome = "committed",
   partial |-> outcome = "failed" /\ staged # {},
   commit_sha |-> IF outcome = "committed" THEN sha ELSE 0,
   files |-> staged,
   considered |-> FilesConsidered(q, g),
   target |-> q.target,
   truth |-> Truth(q, g, outcome = "committed", attempted)]

NoResult ==
  [given |-> FALSE, success |-> FALSE, blocked |-> FALSE, human |-> FALSE,
   committed |-> FALSE, partial |-> FALSE, commit_sha |-> 0, files |-> {},
   considered |-> {}, target |-> NoBranch, truth |-> {}]
================================================================================
