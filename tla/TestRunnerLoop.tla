----------------------------- MODULE TestRunnerLoop -----------------------------
(***************************************************************************)
(* The autonomous test runner loop (sandbox/test_runner_loop.py): runs     *)
(* the planned commands through the command runner, one after the other,   *)
(* and sums up what they did.  A loop in progress is a record; module      *)
(* PatchValidation takes its steps.                                        *)
(*                                                                         *)
(* A request r is a runner request (module CommandPolicy) with also loop   *)
(* (loop_mode), commands (a sequence), max (max_commands), stop            *)
(* (stop_on_first_failure), allow and secret.  A command's traits include  *)
(* "planned" (the loop's own allowlist), "unsafe" (its high risk test) and *)
(* the failure it is named after.                                          *)
(***************************************************************************)
EXTENDS CommandPolicy

CONSTANT CommandLimit   \* MAX_COMMANDS_LIMIT

BaseBlocked(r) ==
  \/ r.secret
  \/ r.loop \notin {"dry_run", "sandbox_readonly"}
  \/ r.allow \cap {"code_edit", "git_mutation", "network"} # {}

\* Zero stands for the limit.
MaxCommands(r) ==
  IF r.max = 0 \/ r.max > CommandLimit THEN CommandLimit ELSE IF r.max < 1 THEN 1 ELSE r.max
Planned(r) == SubSeq(r.commands, 1, IF Len(r.commands) < MaxCommands(r)
                                    THEN Len(r.commands) ELSE MaxCommands(r))
Truncated(r) == Len(r.commands) > Len(Planned(r))

PlanningError(c) == Has(c, "secret") \/ Has(c, "unsafe") \/ ~Has(c, "planned")

\* In a dry run every command is only classified.
RunnerRequest(r) == IF r.loop = "dry_run" THEN [r EXCEPT !.runner = "dry_run"] ELSE r

\* The failures a command can be named after; a trait of the command.
Kinds == {"tests_failed", "build_failed", "lint_failed", "typecheck_failed", "format_failed"}

\* Mutant: a command that timed out is judged by its exit code.
ClassifiedByExit(c, result) ==
  IF result.redacted THEN "secret_detected"
  ELSE IF result.blocked THEN "command_blocked"
  ELSE IF result.exit # "failed" THEN "none"
  ELSE IF Traits[c] \cap Kinds # {} THEN CHOOSE k \in Kinds : Has(c, k)
  ELSE "unknown_failure"

\* "none" is no failure; an exit code nobody reported counts as none.
Classified(c, result) ==
  IF result.redacted THEN "secret_detected"
  ELSE IF result.blocked THEN "command_blocked"
  ELSE IF result.timed_out THEN "command_timed_out"
  ELSE IF result.exit # "failed" THEN "none"
  ELSE IF Traits[c] \cap Kinds # {} THEN CHOOSE k \in Kinds : Has(c, k)
  ELSE "unknown_failure"

\* A loop in progress.
Begun == [results |-> << >>, failed |-> FALSE, blocked |-> FALSE, timed_out |-> FALSE,
          failure |-> "none", redacted |-> FALSE, stopped |-> FALSE]

Skipped(c) ==
  [command |-> c, executed |-> FALSE, blocked |-> TRUE, dry_run |-> FALSE,
   timed_out |-> FALSE, exit |-> "none", redacted |-> Has(c, "secret")]

\* The last command that cannot be planned names the failure, but of those that
\* ran the first does.
AfterUnplanned(r, loop, c) ==
  [loop EXCEPT !.results = Append(@, Skipped(c)), !.blocked = TRUE, !.failed = TRUE,
     !.failure = IF Has(c, "secret") THEN "secret_detected" ELSE "unsafe_command",
     !.redacted = @ \/ Has(c, "secret"), !.stopped = r.stop]

AfterCommand(r, loop, c, result) ==
  LET class == Classified(c, result) IN
  [loop EXCEPT !.results = Append(@, result),
     !.redacted = @ \/ result.redacted,
     !.failed = @ \/ class # "none",
     !.blocked = @ \/ (class # "none" /\ result.blocked),
     !.timed_out = @ \/ (class # "none" /\ result.timed_out),
     !.failure = IF @ = "none" THEN class ELSE @,
     !.stopped = class # "none" /\ r.stop]

\* Mutant: a loop out of time only stops.
OnlyStops(loop) == [loop EXCEPT !.stopped = TRUE]

\* The total timeout is looked at before each command.
OutOfTime(loop) ==
  [loop EXCEPT !.failed = TRUE, !.timed_out = TRUE, !.failure = "command_timed_out",
               !.stopped = TRUE]

Done(r, loop) == loop.stopped \/ Len(loop.results) = Len(Planned(r))

Executed(loop) == {i \in DOMAIN loop.results : loop.results[i].executed}

Partial(r, loop) ==
  Truncated(r) \/ (loop.failed /\ Len(loop.results) < Len(Planned(r)))

Success(r, loop) ==
  Planned(r) # << >> /\ ~loop.failed /\ ~loop.blocked /\ ~loop.timed_out

LoopNextAction(r, loop) ==
  IF Success(r, loop) THEN "no_action_needed"
  ELSE IF loop.failure \in {"secret_detected", "unsafe_command"} THEN "escalate_to_human"
  ELSE IF loop.failure = "command_timed_out" THEN "run_additional_tests"
  ELSE IF loop.failure \in Kinds THEN "create_repair_plan"
  ELSE "blocked_by_policy"

LoopHuman(loop) ==
  loop.blocked \/ loop.failure \in {"secret_detected", "unsafe_command", "command_blocked"}

\* The aggregate Runtime Truth's flags that can be True.
LoopTruth(r, loop) ==
  {"recorded"} \cup Flag("secrets_detected", loop.redacted \/ r.secret)
               \cup Flag("command_executed", Executed(loop) # {})

LoopResult(r, loop) ==
  [success |-> Success(r, loop), failed |-> loop.failed, blocked |-> loop.blocked,
   timed_out |-> loop.timed_out, partial |-> Partial(r, loop), failure |-> loop.failure,
   executed |-> Cardinality(Executed(loop)), secret |-> loop.redacted,
   human |-> LoopHuman(loop), next |-> LoopNextAction(r, loop), truth |-> LoopTruth(r, loop)]

BlockedResult(r) ==
  [success |-> FALSE, failed |-> TRUE, blocked |-> TRUE, timed_out |-> FALSE,
   partial |-> FALSE, failure |-> IF r.secret THEN "secret_detected" ELSE "command_blocked",
   executed |-> 0, secret |-> r.secret, human |-> TRUE,
   next |-> IF r.secret THEN "escalate_to_human" ELSE "blocked_by_policy",
   truth |-> {"recorded"} \cup Flag("secrets_detected", r.secret)]
================================================================================
