--------------------------- MODULE PostPatchValidator ---------------------------
(***************************************************************************)
(* The post-patch validation (sandbox/post_patch_validator.py): checks the *)
(* patch applier's evidence, has the test runner loop run the validation   *)
(* commands, and says whether the change is ready to be committed.         *)
(*                                                                         *)
(* a is the patch application result, r the loop request made of the       *)
(* validation request q, l the loop's result (NoLoop if it was not run).   *)
(***************************************************************************)
EXTENDS TestRunnerLoop

CONSTANT Kind   \* [files -> {"plain", "protected", "unsafe"}]

NoLoop == [BlockedResult([secret |-> FALSE]) EXCEPT !.failed = FALSE, !.truth = {}]

Forbidden ==
  {"git_mutation", "code_edit", "patch_apply", "network", "provider_call", "agent_call"}

\* The commands are cut to max_commands here already: the loop never sees that
\* there were more.  Unlike the loop the validator has no limit of its own.
ValidationCommands(q) ==
  LET max == IF q.max = 0 THEN CommandLimit ELSE IF q.max < 1 THEN 1 ELSE q.max
  IN SubSeq(q.commands, 1, IF Len(q.commands) < max THEN Len(q.commands) ELSE max)

LoopRequest(q) ==
  [secret |-> FALSE, loop |-> q.loop, runner |-> q.runner, mode |-> q.command_mode,
   target |-> q.target, commands |-> ValidationCommands(q), max |-> q.max,
   stop |-> q.stop, allow |-> {}, place |-> q.place]

\* No release branches here.
BranchBlocks(q) ==
  /\ Needs(q, "non_main_branch")
  /\ \/ q.current \in {NoBranch, "main", q.base}
     \/ q.target = "main"
     \/ q.base # "main"

CommandRefused(c) == Has(c, "secret") \/ Has(c, "marked") \/ ~Has(c, "validation")

ProtectedFile(a) == \E f \in a.files : Kind[f] # "plain"

EvidenceInvalid(q, a) ==
  \/ Needs(q, "runtime_truth") /\ a.truth = {}
  \/ a.blocked
  \/ Needs(q, "patch_applied") /\ ~a.applied
  \/ "command_executed" \in a.truth

\* The first ground for a refusal, by the classification it gives.
Ground(q, a) ==
  LET commands == ValidationCommands(q)
      Refused == {i \in DOMAIN commands : CommandRefused(commands[i])} IN
  IF q.secret \/ "secrets_detected" \in a.truth THEN "secret_detected"
  ELSE IF q.mode = "unknown" THEN "unknown_failure"
  ELSE IF q.mode \in {"disabled", "blocked"} \/ q.allow \cap Forbidden # {} THEN "command_blocked"
  ELSE IF EvidenceInvalid(q, a) THEN "invalid_patch_apply_evidence"
  ELSE IF "git_mutated" \in a.truth THEN "git_mutation_detected"
  ELSE IF "main_modified" \in a.truth THEN "main_modification_detected"
  ELSE IF ProtectedFile(a) THEN "protected_file_modified"
  ELSE IF BranchBlocks(q) THEN "main_modification_detected"
  ELSE IF ~q.place THEN "command_blocked"
  ELSE IF Refused # {} /\ \E i \in DOMAIN commands : Has(commands[i], "secret") THEN "secret_detected"
  ELSE IF Refused # {} \/ (commands = << >> /\ q.mode # "dry_run") THEN "command_blocked"
  ELSE IF "direct_main_edit" \in q.notes THEN "main_modification_detected"
  ELSE "none"

RunsLoop(q, a) == Ground(q, a) = "none" /\ q.mode = "act"

\* The loop's own words are translated: what it cannot name is unknown.
FromLoop(l) ==
  IF l.success THEN "validation_passed"
  ELSE IF l.timed_out THEN "command_timed_out"
  ELSE IF l.failure \in {"unsafe_command", "command_blocked", "secret_detected"} \cup Kinds
       THEN l.failure ELSE "unknown_failure"

Blocked(q, a, l) == Ground(q, a) # "none" \/ (RunsLoop(q, a) /\ l.secret)

Classification(q, a, l) ==
  IF Ground(q, a) # "none" THEN Ground(q, a)
  ELSE IF q.mode = "dry_run" THEN "dry_run"
  ELSE IF l.secret THEN "secret_detected" ELSE FromLoop(l)

Passed(q, a, l) == RunsLoop(q, a) /\ l.success /\ ~Blocked(q, a, l)

HumanRequired(q, a, l) ==
  \/ Blocked(q, a, l)
  \/ Classification(q, a, l) \in {"secret_detected", "command_blocked", "unsafe_command"}

RequiresRepair(q, a, l) ==
  Classification(q, a, l) \in {"command_timed_out", "unknown_failure"} \cup Kinds

ReadyForCommit(q, a, l) ==
  /\ Needs(q, "commit_recommendation")
  /\ Passed(q, a, l)
  /\ a.applied /\ a.success
  /\ ~HumanRequired(q, a, l)

NextAction(q, a, l) ==
  LET class == Classification(q, a, l) IN
  IF class = "dry_run" THEN "wait_for_manual_review"
  ELSE IF ReadyForCommit(q, a, l) THEN "ready_for_commit_phase"
  ELSE IF class \in {"secret_detected", "protected_file_modified", "git_mutation_detected",
                     "main_modification_detected", "unsafe_command"} THEN "escalate_to_human"
  ELSE IF Blocked(q, a, l) \/ class = "command_blocked" THEN "blocked_by_policy"
  ELSE IF l.timed_out THEN "run_additional_validations"
  ELSE IF class # "validation_passed" THEN "start_repair_cycle" ELSE "no_action_needed"

Truth(q, a, l) ==
  {"recorded"} \cup Flag("secrets_detected", Classification(q, a, l) = "secret_detected")
               \cup Flag("command_executed", l.executed > 0)

Result(q, a, l) ==
  [given |-> TRUE,
   success |-> Passed(q, a, l),
   failed |-> \/ l.failed
              \/ /\ ~Blocked(q, a, l)
                 /\ Classification(q, a, l) \notin {"validation_passed", "dry_run"},
   blocked |-> Blocked(q, a, l),
   human |-> HumanRequired(q, a, l),
   timed_out |-> l.timed_out,
   ready_for_commit |-> ReadyForCommit(q, a, l),
   requires_repair |-> RequiresRepair(q, a, l),
   patch_was_applied |-> a.applied,
   files |-> a.files,
   executed |-> l.executed,
   truth |-> Truth(q, a, l)]

NoResult ==
  [given |-> FALSE, success |-> FALSE, failed |-> FALSE, blocked |-> FALSE, human |-> FALSE,
   timed_out |-> FALSE, ready_for_commit |-> FALSE, requires_repair |-> FALSE,
   patch_was_applied |-> FALSE, files |-> {}, executed |-> 0, truth |-> {}]
================================================================================
