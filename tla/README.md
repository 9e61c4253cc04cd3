# Verification of Projeto-Omni's run control and sandbox delivery

TLA+ models, TLC runs and TLAPS proofs for the Python runtime under
`src/backend/python/brain/`.  The subject is the two parts of Omni that decide what
an agent may do: run control, which decides whether its next action is executed (the
run registry, the operators' control over a run, the action loop with its
checkpoints, and resuming), and the governed sandbox, which decides whether a change
it proposes reaches the workspace, a branch, a pull request and, when CI fails, a
proposal to repair it.

Paths below are relative to `src/backend/python/brain/runtime/` unless they start
with `src/`.

## The system

### Run control

A user message becomes a list of actions.  `BrainOrchestrator` (`orchestrator.py`)
hands it to `ActionExecutionService.execute_actions`, which executes it one
action at a time through specialists (planner, governance, executor, validator,
repair), asks the continuation decider after each whether to go on, and saves a
checkpoint.  Each run has a row in `run_registry.json`.  Before each action the
loop reads that row and waits while an operator has paused the run or governance
holds it.  Operators write to the row with a command line (`control/cli.py`), which
an HTTP bridge in Rust (`src/backend/rust/src/run_control.rs`) starts as a process
of its own.

| Part | State it keeps | Operations | What makes it correct |
| --- | --- | --- | --- |
| Run registry rows (`control/run_registry.py`, `governance_taxonomy.py`, `governance_timeline.py`) | status, last action, metadata, resolution, history (40), timeline (80) | `register`, `update_status` | vocabularies are closed; the two audit trails agree; one start event |
| Registry store (`run_registry.py`, `run_registry_backend.py`, `src/backend/python/brain/persistence.py`) | one JSON file, a lock file, a cache per object, temporary files | locked load, change, write, rename; unlocked reads | writes are atomic and isolated between processes; nobody keeps the lock |
| Run control (`control/governance_controller.py`, `governance_wait.py`, `orchestrator_services/governance_integration_service.py`, `completion_service.py`, `run_lifecycle_service.py`) | the row; a poll's clock | clearance, timeout, hold, operator command, terminal status | a pause bites; waiting ends; an end is recorded |
| Action loop (`orchestrator_services/action_execution_service.py`) | step results, position in the slice | register, gate, clear, execute, decide, save, finish | in plan order, nothing lost, nothing needlessly repeated |
| Checkpoint and resume (`checkpoint_store.py`, `session_service.py`, `orchestrator.resume_run`) | one JSON file per run | save (errors swallowed), load, validate, resume | the cursor never overtakes what was decided |
| Specialists (`specialists/`) | a coordination trace per action | coordinate, review | veto before execution, hold, repair |
| Continuation (`continuation/`) | plan status | continue, retry, pause, rebuild, complete, escalate | a stop is final for the attempt |

They interact through the row and the checkpoint file.  What is hard there:
operators write from other processes between any two steps of the loop; writes
from the loop may fail, and are swallowed in one service and raised in another;
the process may die anywhere; a resume starts from whatever the checkpoint says.

### Sandbox delivery

`sandbox/` holds a chain of stages.  Each is a function from a request and the
results of earlier stages to a result with a Runtime Truth, a mapping of flags
about what was done.  Gates only judge; the patch applier, the test runner loop, the
commit and push executors, the pull request creator and the CI monitor act, on the
workspace, on a clone with `git`, and on GitHub.

| Part | State it touches | Operations | What makes it correct |
| --- | --- | --- | --- |
| Patch application and validation (`patch_applier.py`, `post_patch_validator.py`, `test_runner_loop.py`) | the workspace's files | apply hunk by hunk and file by file; run the validation commands | files stay in their size; what is reported is what was written; no failed command behind evidence a gate accepts |
| Commands (`policy_engine.py`, `command_gate.py`, `command_runner.py`) | none | classify, decide, run | a command a layer refuses is neither run nor passed over |
| Commit and push (`commit_gate.py`, `commit_executor.py`, `push_gate.py`, `push_executor.py`) | index, commits, branches, origin | judge; check the branch, stage, commit, confirm; push | commits rest on validation, main is never pushed, failures are traced |
| Pull requests and CI (`pr_creation_gate.py`, `pr_creator.py`, `ci_monitor_gate.py`, `ci_monitor.py`) | pull requests, check runs | judge; find or create; read the checks | one open pull request; only its own checks are read; passed means ended without failing |
| CI repair (`ci_repair_loop_gate.py`, `ci_repair_planner.py`, `scoped_ci_patch_proposal_gate.py`, `scoped_ci_patch_proposal_engine.py`) | the attempts, counted by the caller | classify failures, plan, judge, propose hunks | proposals answer failures, grave ones stop them, attempts stay in budget |

The stages do not call each other.  A caller hands the result of one to the next:
as it is, stripped of its Runtime Truth, with its `git_mutated` flag dropped, not at
all, or one that is no longer the newest.  What is hard there: results are not bound
to a tree or a commit; a stage that raises leaves its effects and no result, and is
called again; each stage reads its predecessors' flags with a list of its own; people
edit, stage, commit and switch branches in the same clone, and open and close pull
requests; checks go on reporting.

`PROJECT.json` lists these hazards at their lines, with the property that covers
each, and the parts of the repository that are not modelled, with the reason.

## Modules

| Module | Models | Used by |
| --- | --- | --- |
| `GovernanceTaxonomy` | statuses, reasons, resolutions, event types and the three inferences between them | `RunRegistry` |
| `RunRegistry` | what `register` and `update_status` do to one row, and the operators' commands | the next four |
| `RegistryStore` | file, flock, caches, temporary files, crashes and failed writes | `MCRegistryStore` |
| `AtomicRegistry` | abstract: one document, each write one step between call and return | refined by `RegistryStore` |
| `RunControl` | one run of a linear plan: attempts, clearance, execution, checkpoints, operators | its own configurations |
| `ActionCursor` | abstract: a cursor over the plan that is saved now and then | refined by `RunControl` |
| `SandboxEvidence` | requests and Runtime Truth | all sandbox modules |
| `PatchApplier`, `PostPatchValidator`, `TestRunnerLoop` | the decisions of the applier, the validator and the loop | `PatchValidation` |
| `CommandPolicy` | policy engine, command gate and command runner | `TestRunnerLoop` |
| `PatchValidation` | applications and validations step by step, with exceptions and edits | `MCPatchValidation` |
| `CommitGate`, `CommitExecutor`, `PushGate`, `PushExecutor` | the decisions of these stages | `CommitDelivery`, `PatchValidation`, `PullRequestDelivery` |
| `CommitDelivery` | a clone, its origin, and the stages at work on it call by call | `MCCommitDelivery` |
| `PullRequestEvidence` | what the pull request and CI stages share | the next two rows |
| `PrCreationGate`, `PrCreator`, `CiMonitorGate`, `CiMonitor`, `CiRepairLoopGate`, `CiRepairPlanner`, `ScopedProposalGate`, `ScopedProposalEngine` | the decisions of these stages | `PullRequestDelivery` |
| `PullRequestDelivery` | a branch, its pull requests and checks, and the stages at work on them | `MCPullRequestDelivery` |
| `MC...` | constants for TLC | runs |
| `RunRegistryFacts`, `InductionFacts` | lemmas about rows; induction over the natural numbers | proofs |
| `...Proofs` | theorems about the module they are named after; `CiRepairProofs`, those about the monitor, the planner and the engine of `PullRequestDelivery` | |

`RunControl` takes the registry as atomic, one step per write: that is what the
refinement of `AtomicRegistry` by `RegistryStore` justifies.  `CommitDelivery` takes
an application and a validation as one step with a full result; `PatchValidation`
takes them apart and judges what comes out with the same `CommitGate`.
`PullRequestDelivery` begins where the push executor reports.  Definitions whose
comment begins with "Mutant" are deliberate mistakes; no specification uses
them.  Substituting one for the definition it stands beside breaks the property
`PROJECT.json` names, which shows that the property depends on that code.

### GovernanceTaxonomy and RunRegistry

An action text is a member of the set of literals the runtime writes; keyword
tests on text become membership in the set of literals that contain the keyword.
No literal contains two keywords, so the order of the code's tests matters only
for the final fall back on the status.  One consequence is visible in the
model: the continuation's own pauses (`continuation_requires_pause`,
`simulation_high_confidence_pause`) infer the reason `operator_pause`, though no
operator is involved; only `goal_stop_condition` does not.

A row keeps status, last action, the metadata key `operator_control_enabled`,
resolution, history and timeline.  Ids, timestamps, progress and other metadata
are left out.  `seq[-cap:]` is `LastN`; the caps 40 and 80 are constants, with
`HistoryCap < TimelineCap` assumed.

### RegistryStore

| Action | Code |
| --- | --- |
| `Call` | entering `RunRegistry.register` or `update_status` |
| `Acquire` | `file_lock`: `flock(LOCK_EX)` on the sibling `.lock` file |
| `Load` | `_reload_if_available`: reload only if the file exists |
| `WriteTemp` | change the row, write and fsync the temporary file |
| `UnknownRun` | `update_status` of a run that is not there returns early |
| `Replace` | `os.replace` |
| `Release` | leaving the `with` block |
| `Read` | `get` and the other queries, which take no file lock |
| `WriteFails` | an exception while writing; the temporary file is unlinked, the lock falls |
| `Crash` | death of the process and a new one in its place |

A writer is one `RunRegistry` object with the thread that uses it.  Threads that
share an object take turns under its `RLock` for a whole operation, so they add
no interleavings of their own.

A subtlety the model keeps: the object's rows are changed before the file is
written.  If the write raises, the next reload undoes the change, but there is no
reload while there is no file.  A write that raised before the first one that
succeeded therefore goes out with its writer's next write.  `AtomicRegistry`
states it as `leftover`.

### RunControl

`pc` walks through `execute_actions`:

| `pc` | Actions | Code |
| --- | --- | --- |
| idle, dead | `Begin`, `Resume` | `_execute_runtime_actions`, `orchestrator.resume_run` |
| start | `RegisterStart` | first registration, with `operator_control_enabled` |
| plan | `RegisterPlan` | `ensure_plan`, second registration, without it |
| gate | `GateRefuses`, `GatePasses` | control layer, supervision, simulation review; checkpoint `blocked` or `running` |
| refuse | `WriteRefusal` | status failed with the reviewer's action text |
| clear | `Cleared`, `KeepWaiting`, `WaitExpires`, `Refused`, `RegistryUnavailable` | `await_run_control_clearance`, tick by tick |
| expire | `Timeout` | `handle_timeout`, after the tick that decided on it |
| execute | `Execute`, `Vetoed` | `SpecialistCoordinator.coordinate` |
| hold | `Hold` | `apply_governance_hold_after_specialist`, after the execution |
| decide | `GoOn`, `PausePlan`, `CompletePlan`, `EscalateFailure` | `_handle_continuation_decision` |
| save | `SaveStep` | the checkpoint after each action, and leaving the loop |
| final | `SaveFinal` | the closing checkpoints |
| terminal | `WriteTerminal` | `apply_fusion_terminal_status` |
| any | `Crash`, `Operate` | death of the process or an exception; an operator's command |

Facts of the code the model follows, which a reader may not expect:

- A resume passes `remaining_actions` with `start_index=0`.  Actions are numbered
  over the whole run in the model; `first` is where the attempt's list begins.
- A hold is written after its action was executed.  What it can stop is the next
  action.
- Each registration sets the row to running, whatever it said.  A pause or a hold
  that falls between the two registrations of an attempt, or before a resume, is
  erased.
- Writes through `RunLifecycleService` and `CheckpointStore.save` swallow errors
  (`Swallowed`: the caller goes on); writes through the controller (timeout, hold,
  terminal status) raise, and the exception leaves the attempt (`Crash`).
- A registration that fails before there is any document may or may not be
  published by the next one (see `leftover` above); `RunControl` takes the case in
  which it is not, in which the run goes on without operator control.
- The two closing checkpoints write the same cursor and status and are one step.
- An action that is not a mapping is skipped (`action_execution_service.py:837`); a plan
  of the model has none.
- `execs`, `refused`, `vetoed`, `overrun` and `lost` are history variables; the code has
  no such state and no guard reads them.  `lost` says that the write of the status the
  last attempt ended with failed; failures of other writes (checkpoints, registrations,
  decisions, a tick that finds the registry unavailable) leave it alone.

Abstractions: what the gate, the specialists and the continuation decider compute
is a nondeterministic choice between their outcomes, which allows more behaviours
than the code and so is safe for what holds.  A resume may always be refused
(stale checkpoint, manual intervention): there is no fairness on it.

### The sandbox stages

Each stage is a module of operators: `Blocked` has one disjunct per ground on which
the code refuses, in the code's order; `Result` is the record the later stages read.
A request is a record of what the refusals ask about: the mode, the `allow_*`
switches that are on, the `require_*` switches the caller turned off (`waived`), its
branch fields, whether redaction found a credential (`secret`), and metadata
(`notes`).  Runtime Truth is the set of the flags that are `True`; a stage asks of a
flag only whether it `is True`, so a missing flag and a false one are the same.  Path,
repository, text and name patterns are a classification given as a constant (`Kind`
of a file, `Traits` of a command, `Words` of a check's name).  Summaries, redaction,
plans' wording, ids and timestamps are left out.

### PatchValidation

| Action | Code |
| --- | --- |
| `StartApply` | entering `apply_controlled_patch`: the grounds that refuse the whole request |
| `ApplyNext` | one proposal: budgets, `_proposal_issue`, its hunks one after the other, one write |
| `FinishApply` | the result |
| `StartValidation` | entering `validate_post_patch`: grounds, then the loop's own |
| `RunNext` | one command of `run_autonomous_test_loop`: refused, or run by the command runner to one of four outcomes |
| `LoopOutOfTime` | the loop's total timeout, looked at before each command |
| `FinishValidation` | the loop's summary and the validator's result |
| `Raise` | an exception of a read, a write or a process: no result |
| `Edit` | external: a person appends to a file |

A text is a sequence of tokens and its size its length.  A hunk replaces the one
occurrence of its context, or appends; both, and the size rule after them, are in
`ApplyHunk`.  The loop over a proposal's hunks is the recursive function `Tried`.
A process's outcome is chosen when it is started.  One that prints a credential
either does so within the output the runner keeps, and is noticed, or past it
(`leaked_past`), and is not.  `ran` keeps the processes behind a result, `owed` the
commands the loop had to run for it, `written` the files a run wrote.  They are history
variables.

### CommitDelivery

| Action | Code |
| --- | --- |
| `ApplyPatch`, `Validate` | an application in full, a validation that passed or failed |
| `EvaluateCommitGate`, `EvaluatePushGate` | `evaluate_commit_gate`, `evaluate_push_gate` |
| `StartCommit`, `VerifyCommitBranch`, `ReadHead`, `StageFiles`, `Commit`, `ConfirmCommit` | `execute_controlled_commit` up to and after each git call |
| `StartPush`, `VerifyPushBranch`, `Push`, `ConfirmPush` | `execute_controlled_push`, likewise |
| `GitFails` | a non-zero exit: the run ends, and reports what it had done |
| `GitTimesOut` | `subprocess.TimeoutExpired`, which nobody catches: no result |
| `Meddle` | external: people check out, edit, stage and commit |

A commit is its tree, its parent and the branch it was made on; git commits the whole
index, not only what the executor staged.  Origin takes fast-forwards only.  `basis`,
`checked` and `touched` are history variables: what a commit rests on, the tree
that was validated, whether the run at work has changed anything.

### PullRequestDelivery

| Action | Code |
| --- | --- |
| `Push` | the push executor's result: a new commit, or refused |
| `EvaluatePrCreationGate`, `EvaluateCiMonitorGate`, `EvaluateRepairLoopGate`, `EvaluateProposalGate` | the gates |
| `StartCreate`, `FindOpenPullRequest`, `CreatePullRequest` | `create_controlled_pr` and its two calls |
| `ClientFails` | the client raises before the call took effect or after |
| `MonitorCi` | one snapshot, or a client that raises |
| `PlanRepair`, `Propose` | `evaluate_ci_repair_planner`, and the engine's hunks |
| `CiReports`, `Meddle` | external: checks report and are run again; people open and close pull requests |

`basis` is a history variable with the reports each result rests on.  `ReportsOf` is
GitHub's answer about a commit; of one origin does not have, which a request may name,
there are no reports.  A pull request is of a repository, a head and a base; the
creator looks for one that agrees in all three (`Wanted`).  GitHub is not assumed to
refuse a second pull request for the same three.  The hunks of a proposal are the
recursive function `Grown`, one step of the plan at a time.  `Reworded` stands for a caller
that turns the planner's inspection steps into proposals, which the code leaves to
somebody else (see "Divergences without a run").

## Runs

| Run | Shows | Bounds |
| --- | --- | --- |
| `registry_store` | `TypeOK`, `AuditTrailsAgree`, `SingleStart` | 2 writers, 1 run, 3 requests, caps 2 and 3 |
| `registry_refines` | `ImplementsAtomic`, `EveryWriteEnds` | 2 writers, 2 runs, 3 requests, caps 2 and 3 |
| `run_control` | `TypeOK`, `PauseBites`, `NothingLost`, `NoNeedlessRepeat`, `EndIsSettled`, `CompletedMeansExecuted`, `ImplementsCursor` | 3 actions, 2 per attempt, 1 poll, 3 attempts, 2 commands, 1 crash, 2 swallowed failures |
| `run_control_live` | `AttemptEnds` | 2 actions, 2 polls, 2 attempts, 2 commands, 1 crash, 1 swallowed failure |
| `patch_validation` | `TypeOK`, `FilesStayInSize`, `RefusedFileStopsCommit`, `FailureStopsCommit`, `NothingIsPassedOver`, `WrittenIsReported` | 4 files, 6 patches, 5 commands, a limit of 2, texts of 3 tokens, budgets of 2; 2 applications, 1 validation, 1 edit, 1 fault |
| `commit_delivery` | `TypeOK`, `CommitsRestOnValidation`, `NeverOnMain`, `CommittedContentWasValidated`, `RemoteHoldsOwnCommits`, `MainIsNeverPushed`, `FailureLeavesATrace`, `PushReportsWhatItPushed` | 2 files, 2 branches, six scenarios |
| `pull_request_delivery` | `TypeOK`, `OneOpenPullRequest`, `PullRequestsRestOnPush`, `OnlyOwnChecksAreRead`, `PassedMeansConcluded`, `ProposalsAnswerFailures`, `GraveFailuresStopProposals`, `AttemptsStayInBudget` | 2 checks, 2 pushes, nine scenarios |
| `hold_needs_operator`, `refused_still_to_do`, `clean_commit_refused`, `completed_is_passed`, `blocked_still_proposes` | five promises of the documents that the code does not keep | the smallest instance that shows it |

The registry runs bound nothing but the constants: writers call, crash and fail
without limit, because the trails are capped.  Two writers are enough to have a
holder and a contender, two runs to lose one row to a write of another; caps of 2
and 3 make a trail overflow within a few writes, the shorter one first.  Symmetry
of the writers is used for the invariants only, never where liveness is checked.

In `run_control` a slice of 2 out of 3 actions makes a first attempt end with
actions left, so a resume happens without a crash too; three attempts make a
resume of a resume; two commands make a pause and its answer; a crash, a command and
two swallowed failures fit into one run.  The trails are left out (caps 0 and 1), for
nothing in `RunControl` reads them.

In `patch_validation` a budget of two files and two hunks against patches of up to
three proposals makes each budget run out; a size of three tokens is reached by one
addition and passed by a second; two applications make a repeated one; the command
lists have a failing, a refused and a cut one, with and without stopping, and one that
is only run dry.  `CommandLimit`, 10 in the code, is 2 here, so that a list is cut by it.

A scenario of `commit_delivery` or `pull_request_delivery` is a use of the clone or
of GitHub: what the callers ask of each stage, what others do, and how often.  They
are initial states of one run, so one state graph holds them all.

| Scenario | Who |
| --- | --- |
| `waiver` | callers that waive every requirement, one at a time and together, strip and leave out evidence, in a clone where one edit, stage, checkout or commit is made between runs, and one git call fails |
| `alone` | nobody else; callers that drop `git_mutated` and no more, two failed git calls or timeouts, dry runs |
| `named` | the same without failures, and callers that name the commit to push themselves, at the push gate, at the push or at both |
| `pieces` | the same as `alone` with a caller that commits one file at a time, one fault |
| `busy`, `moved` | people who switch branches also while an executor is at work, once and three times; callers who waive the branch rule and everything at the push, and in `busy` strip and leave out evidence |
| `opening` | one pull request, evidence stripped, left out, waived and vouched for |
| `retrying` | two lost answers, two pushes, two pull requests opened or closed by others, callers that ask for another base |
| `watching` | a word of every kind a check may report (running, ended, skipped, failed, unknown), a monitor that looks again |
| `pushing` | a second push and a pull request opened by others before, between and after a creation and its monitoring |
| `stripping` | a second push, with what the creator and the monitor gate said stripped or left out |
| `failing` | the same as `watching` with a client that fails, and a caller that asks about a commit nobody pushed |
| `repairing` | all stages to the proposals, three reports of success or failure, attempts counted |
| `running` | the same with checks that are still running, two reports |
| `naming` | the same with callers that name categories, areas, commands and limits to the proposal stages themselves |

One patch and one commit per file are enough for a commit to be a child of another;
three switches of branch are one before, one during and one after a commit.

Deadlock is not checked for `RunControl` and the sandbox modules: a run whose bounds
are used up stops, and a caller of a stage may always stop.

Fairness.  `RegistryStore`: weak fairness of a writer inside the locked block,
because it is a running thread; strong fairness of `Acquire`, because the lock is
free again and again while others come back for it, and the kernel wakes a waiter.
Nothing is assumed of callers, crashes or failures.  `RunControl`: weak fairness of
the attempt's own steps, a thread that keeps running.  Begin, resume, crash and
operators are not fair: an attempt must end although nobody ever answers it.  The
sandbox modules state no fairness and claim no liveness: nothing in the code makes a
caller go on to the next stage.

### What the violated runs show

- `HoldNeedsOperator`.  `PHASE24_COGNITIVE_SPECIALIST_ARCHITECTURE.md:56`: "governance
  does not fail open for moderate or high risk actions".  In the run an action is
  executed, then held; the continuation decision completes the plan, and the held
  run is completed with no operator involved.
- `RefusedIsStillToDo`.  `CHECKPOINTING_AND_RESUME.md:28` says that the "next actionable
  index" is persisted.  In the run an operator's pause times out; the placeholder
  for the action that was not cleared counts as a step, so the checkpoint's cursor
  passes it and a resume skips it.
- `CleanCommitMayBePushed`.  `controlled-commit-executor.md:68` has the executor's
  clean evidence feed the push gate.  The executor's Runtime Truth says `git_mutated`
  of every commit it made, and the push gate (`push_gate.py:560`) counts that flag
  as unsafe activity: handed on as it is, no commit may be pushed.
- `FailingChecksFail`.  `controlled-ci-monitor.md:17,20` routes failing CI to the repair
  loop gate.  The monitor takes a check's status before its conclusion
  (`ci_monitor.py:646`) and "completed" for success (`:688`); a failed check run as
  GitHub's API words it counts as passed.  This one is a defect of the code.
- `BlockedGeneratesNothing`.  `scoped-ci-patch-proposal-engine.md:15`: mode blocked will
  "block all proposal generation".  The engine generates its hunks before it looks at
  the mode and hands them out in a blocked result.

The first two documents are in `src/docs/reports/repository-archive/`, the others in
`src/docs/governance/`.

### Divergences without a run

Met while modelling; the model does what the code does.

- `PHASE17_ADAPTIVE_CONTINUATION.md:139` says a plan pause is for when "continuation is
  uncertain but not terminal"; the same attempt writes completed over it a few lines
  later.
- A run that had completed, resumed with a checkpoint that leaves nothing to do while
  its writes are swallowed, keeps the status completed although the resume was refused.
  `CompletedMeansExecuted` excuses swallowed writes for that reason.
- A file one of whose hunks was refused is written with the others
  (`patch_applier.py:201`); the result says `partial`, which no later stage reads.
- With `loop_mode` or `runner_mode` dry_run a validation passes with no command run.
- The commit gate's result is bound to no tree: evidence of an earlier patch lets a
  later one be committed.  `CommittedContentWasValidated` is about the first patch.
- A switch of branches between the executor's check and `git commit` puts the commit on
  main.  `NeverOnMain` excludes switches while an executor is at work.
- A commit whose report is lost is pushed with the next one, under the sha of the
  commit reported before it; hence the two parts of `PushReportsWhatItPushed`.
- A request to the push executor may name a commit itself, and the push of the branch is
  then reported under that name, whether or not it is the branch's
  (`push_executor.py:84-86`; the gate does the same, `push_gate.py:86-88`).
  `PushReportsWhatItPushed` is about callers that name none to the executor.
- The command runner cuts a process's output to `max_stdout_bytes` and
  `max_stderr_bytes` before it looks for credentials (`command_runner.py:748-755`): one
  printed past the limit is not noticed.  `FailureStopsCommit` says so.
- The test loop takes no more than ten commands whatever the request says
  (`test_runner_loop.py:546-547`), the validator has no limit of its own
  (`post_patch_validator.py:136`, `:382`) and does not look at the loop's `partial`: asked
  for more than ten, it passes with the first ten run.  `NothingIsPassedOver` is about
  the commands the loop had to run.
- A request to the monitor gate or the monitor may name a head commit itself
  (`ci_monitor_gate.py:84`, `ci_monitor.py:81-95`, `:234-238`), and the checks of that
  commit are read for the pull request, whosever they are.  Left to the evidence, the
  commit is the one the creator's gate saw, which a later push may have left behind the
  pull request's head.  `OnlyOwnChecksAreRead` is about callers that leave it, and about
  commits pushed by the time of the creation.
- A required check that was skipped or is neutral does not keep CI from passing
  (`ci_monitor.py:589-599`).
- The creator looks for an open pull request and then creates one
  (`pr_creator.py:288`, `:476`); two creators may both find none.  The model has one.
  Asked for another base by a caller that waives `require_base_main`, it opens another
  pull request for the same branch.
- A check whose name holds a grave word and a whole test or build command is classified
  by the command: "npm test security" is a test failure, which may be repaired
  (`ci_repair_loop_gate.py:590`, the first entries of `_FAILURE_MAP`).
  `GraveFailuresStopProposals` is about names without such a command.
- The pull request of a creation whose answer was lost is found by the repeated
  creation, but the CI monitor gate takes a found one for no evidence: it is never
  monitored.
- The monitor cuts a snapshot to 50 items before it judges it (`ci_monitor.py:713`); the
  model has no such limit.
- The repair planner only makes inspection and human steps, and commands with
  arguments (`ci_repair_planner.py:969`); the proposal gate wants steps that propose and
  commands without (`scoped_ci_patch_proposal_gate.py:933`, `:1044`).  A plan handed on
  as it is is always refused; `Reworded` is a caller that changes it.
- The engine gives every proposal the same list of hunks, takes no area the gate calls
  "unknown", and does not compare the gate's result with the plan handed to it.

## Proofs

Everything below holds for every value of the constants under the named assumptions.

`RunControlProofs` (assumption `RunControlAssumption`: the bounds are natural
numbers, and `NoCheckpoint` is not a checkpoint; `CapAssumption` and
`NoRowAssumption` of `RunRegistry`):

- `TypeCorrect`, `PausesBite`, `NothingIsLost`: from the inductive invariant
  `IInv == TypeOK /\ PlanInv /\ OverrunInv`.  None of the three is inductive alone.
  `TypeOK` needs to know that a result is appended only inside the slice, or
  `count` and the saved cursor would leave their ranges: `PlanInv` says
  `Index <= Limit`, strictly where an action may be taken.  `NothingLost` speaks of the
  saved cursor, but what makes a save harmless is that everything behind the
  attempt's own position was decided too: `PlanInv` says so of `At` and of `Saved`.
  `PauseBites` needs to know that no action has begun under the present pause when
  one is about to: `OverrunInv`.
- `RepeatsArePaidFor`: from `RepeatInv`, which strengthens `NoNeedlessRepeat` by one
  for every action at or after the run's position; `terminal` needs a case of its own,
  for there the position falls back to the saved cursor without a crash.
- `EndsAreSettled`: `EndIsSettled` is inductive over `IInv`, for only the last write of an
  attempt counts, and `lost` keeps what became of it.
- `CompletedIsExecuted`: from `CompletedInv`, which says of every point of an attempt
  which status the row may have, which actions were executed by then, and how many
  writes must have failed for a completed row to survive into a new attempt.
- `RefinesCursor`: every step of `RunControl` is a step of `ActionCursor` or a
  stutter under the mapping in `RunControl`: `Saved`, `At`, and the union of `refused`
  and `vetoed`.

`RegistryStoreProofs`, for every set of writers, runs and requests and all caps
(assumption `StoreAssumption`: a request is a registration or an update of a known
shape, and `NoFile` and `Free` are no documents and no writers; `CapAssumption`,
`NoRowAssumption`):

- `TypeCorrect`: from `IInv == TypeOK /\ LockInv /\ CopyInv`.  `TypeOK` alone is not
  inductive, because the rename copies the temporary file, whose presence only `CopyInv`
  knows.  `LockInv` says that a writer inside the block holds the flock, so there is
  at most one; `CopyInv` that what it has loaded is still what the file says, and
  that its temporary file is its own change of that.  `CopyInv` is preserved because
  nobody else can rename: `LockInv`.
- `RefinesAtomic`: the rename is the abstract `Apply`, the failure before it `Raise`,
  the early return `Ignore`; taking the lock, loading, writing the temporary file and
  reading are stutters.  The step that needs the invariant is the rename: it applies
  the request to the present document, not to an old copy, by `CopyInv`.
- `TrailsTellOneStory`, `StartsAreSingle`: from `TrailInv`, that every row in the
  file and in every cache has agreeing trails and a single start.  Cutting both
  trails keeps them in step because `HistoryCap < TimelineCap`.

`CommitDeliveryProofs`, for any scenarios and files, with no assumption on them:

- `TypeCorrect` (`TypeInv`); `MainStays` (`PushInv`: what a push at work may push to is
  not main, from the executor's own refusals); `OriginHoldsOwn` (`OwnInv`: a branch's tip
  was made on it; a push names the branch it takes the tip of);
  `CommitsAreValidated` (`BasisInv`: an eligible gate result, and a run that acts on one,
  rest on an applied patch and a passed validation; the handing on takes flags
  away and adds none); `MainIsSpared` (`MainInv`); `FailureIsTraced` (`TraceInv`: a run
  that has touched something has it in its record); `ContentIsValidated` (`ContentInv`:
  until somebody else touches the clone, index and tree differ from the last commit
  only in what was validated).
- `PushesAreReported`: from `LineInv` and `NameInv`.  While nobody else is in the clone
  HEAD stays on the branch and its commits form one line, so the ancestors of a commit
  are the earlier ones: `LineAncestors`, an induction over the recursive function
  `Ancestors`.  The sha a push reports was handed on twice before; `NameInv` follows it
  from the commit executor's report to the push at work, and says that it is the last
  commit as long as no git call failed, except between `git commit` and the report.  Of a
  push whose request names a commit nothing follows, so the property leaves it out; one
  the gate was told makes no difference, because the executor asks its evidence first.

`PullRequestDeliveryProofs`, for any scenarios and checks (`ReportAssumption`: pushes are
counted and a check reports one of the modelled words; `ChecksAssumption`: there are
finitely many checks; `RequestAssumption`: a request has its fields, and one to the
engine says which attempt it is):

- `OnePullRequest` (`OneInv`: a creator about to create has found none of its own of that
  repository, head and base); `PullRequestsFollowPush` (`RestInv`: an eligible gate
  result and a creator at work have a push behind them); `ProposalsInBudget`; all over
  `ShapeInv`.
- `TypeCorrect` (`TypeInv`): pull requests are made from commits that were pushed, and
  the reports a result rests on are reports of all the checks, whatever commit a
  request named.

`CiRepairProofs`, under the same assumptions:

- `OwnChecksOnly` (`ShaInv`, `OwnInv`): a creator's result that says "created" names its
  own pull request and a commit pushed by then, and so does an eligible result of the
  monitor gate.  The property alone is not inductive, because the monitor takes number
  and commit from the gate's older result; `ShaInv` says that no result names a commit
  that was not pushed.
- `PassedIsConcluded` (`MonitorInv`: what the monitor's result says of the checks is a
  summary of the reports in `basis`: the failing ones it names had failed, and they are
  all of those every caller requires unless it is blocked or misses one).
  `SnapshotSummary` does the counting of `_summarize_checks`, for any set of checks.
- `ProposalsAnswer` and `GraveFailuresStop` (`AnswersInv`, of `GateInv`, `PlanInv` and
  `ProposalInv`): each stage only carries on what the one before had from the reports,
  while the checks go on reporting.  `basis` moves with the results, so every conjunct
  speaks of a result and of its own reports, never of `ci`.  For the first theorem a
  plan's steps answer failed checks; for the second the set of failing checks has to be
  complete as well, or a grave one could be lost on the way.  `GrownIsRecursive` and
  `HunksOfSafeSteps` (induction over the steps) give what the engine makes of a plan;
  `SequenceOfSet` and `OneMap` that sorting loses nothing and that the gate's map of
  failures and the planner's agree.

`PatchValidationProofs`, for any workspace, patches, requests and commands
(`TextAssumption`, `RequestAssumption`, `BoundAssumption`: texts are sequences of
tokens within the limit, proposals and requests have their shape, bounds are natural
numbers):

- The hunks of a proposal are a recursive function, so what they leave is proved by
  induction.  The library's induction theorems take an operator; `NatSetInduction`
  of `InductionFacts` says the same of a set, and `TriedIsRecursive` and
  `TriedInBudget` follow from it: counts stay in the budget and a file that counts as
  changed has a text within the limit.
- `TypeCorrect`, `SizeStays` (`DiskInv`), `WritesAreReported` (`ApplyInv`: at work, what
  was written is what counts as applied), `RefusalStopsCommit` (`PatchInv`: each file of
  an unblocked request is applied, refused or still to come), `FailureStops` (`LoopInv`,
  `RanInv`: a process that did not pass leaves the loop failed and the validation no
  success), `NothingPassedOver` (`LoopInv`, `RanInv`: a loop that did not fail and is
  not run dry has a process behind every command it came past, and only stops at the end
  of its list).

`RunRegistryFacts` has the lemmas on rows: every inference and every
write stays within its type, and `LastN` returns the last items.

Attempts to prove corrected properties where the bounds of TLC had hidden a case:
`CompletedMeansExecuted` (three swallowed writes in one resume), `PushReportsWhatItPushed`
(a caller that commits a file at a time and loses a report), `OnlyOwnChecksAreRead` (a
request that names a number or a commit itself), `PassedMeansConcluded` and
`GraveFailuresStopProposals` (several callers that require different checks; a grave
word beside a whole command), `TypeOK` of `PullRequestDelivery` (a monitor asked for a
commit nobody pushed).  The scenarios `pieces` and `failing` now have two of these.  The
first takes three swallowed failures; with them the run has twice as many states, so it
stays with two, and the theorem speaks for any number.

Every invariant, action property and refinement of a passing run is a theorem.  Only
model-checked: liveness (`EveryWriteEnds`, `AttemptEnds`), which is outside the prover's
fragment, and the five promises that do not hold.

## Not modelled

`PROJECT.json` names each component with the reason.  The map covers the control of the
two subsystems above, a small part of the repository by lines.  The rest is mostly
evaluation and text handling whose outcome is a nondeterministic choice here
(reasoning, planning heuristics, routing, learning), append-only records, process and
HTTP I/O, advisory reports of the sandbox that no stage reads, user interface,
tooling and data.  Nothing of it decides a property above.

What has state of its own and is left: graph and branch plans of the action loop
(execution out of list order, early returns without a terminal status); operational
plans of `planning/`; two processes that resume one run; the operator CLI's unlocked
snapshot and the bridge's timeout; the engine adoption store shared by processes;
self repair's attempts; the rate limiter and the semantic cache.

## Plan

1. Done: registry, run control over a linear plan, the sandbox from patch to repair
   proposal, with the abstract specifications, runs and proofs above.
2. To model next, in this order: graph and branch plans in `RunControl`; two processes
   resuming one run (an attempt per process instead of one); `planning/`, with
   `resume_engine.decide` as the guard of `Resume`; the engine adoption store.
3. To prove next: the safety of what is modelled next, on the invariants above; of what
   there is, lemmas on the stages' decisions that hold whatever the caller waives (which
   flags alone keep a stage from acting).
