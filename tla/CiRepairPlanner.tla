---------------------------- MODULE CiRepairPlanner ----------------------------
(***************************************************************************)
(* The CI repair planner (sandbox/ci_repair_planner.py): from the repair   *)
(* loop gate's result g and the CI monitor's m makes a plan of what to     *)
(* look at, one step for each failing check.  mg is the monitor gate's     *)
(* result, c the pull request creator's; each may be left out.             *)
(*                                                                         *)
(* A step's type is its kind and its category: <<"inspect",                *)
(* "test_failure">> is inspect_test_failure_metadata.                      *)
(***************************************************************************)
EXTENDS PullRequestEvidence, SequencesExt

Forbidden == RepairForbidden \cup {"patch_proposal"}

Seen(q, g, m, mg, c) == Settled(q, << g, m, mg, c >>)

\* `a or b` on lists of checks: an older gate result hides what is new in m.
OrChecks(a, b) == IF a # {} THEN a ELSE b
Failing(g, m) == OrChecks(g.failing, m.failing)

MonitorTruthUnsafe(truth) ==
  Reports(truth, {"secrets_detected", "logs_downloaded", "workflow_retried",
    "workflow_triggered", "repair_loop_started", "push_executed", "pr_updated",
    "pr_merged", "auto_merge_enabled", "git_mutated", "command_executed",
    "provider_called", "agent_called", "mcp_used", "vault_written", "main_modified"})

SecretDetected(q, g, m, mg, c) ==
  q.secret \/ "secrets_detected" \in g.truth \cup m.truth \cup mg.truth \cup c.truth

GateEvidenceEligible(q, g) ==
  /\ g.given
  /\ Needs(q, "repair_loop_gate_eligible") =>
       /\ g.repair_loop_eligible /\ g.success /\ ~g.blocked /\ ~g.human
       /\ ~Reports(g.truth, ActedAlready)
       /\ g.remaining > 0 /\ g.blocked_categories = {}

MonitorClean(m) == m.monitored /\ m.success /\ ~m.blocked /\ ~m.human

\* What the gate classified, else the categories of the monitor's failing checks.
Failures(q, g, m) ==
  IF g.categories # {} \/ g.blocked_categories # {}
  THEN [repairable |-> g.categories \cap q.allowed, blocked |-> g.blocked_categories]
  ELSE Classified(Failing(g, m), q)

Blocked(q, g, m, mg, c) ==
  \/ SecretDetected(q, g, m, mg, c)
  \/ q.mode \notin {"act", "dry_run"}
  \/ q.allow \cap Forbidden # {}
  \/ Needs(q, "repair_loop_gate_eligible") /\ ~GateEvidenceEligible(q, g)
  \/ g.blocked \/ g.human \/ g.blocked_categories # {}
  \/ "attempt_budget_remaining" \notin g.truth \/ Reports(g.truth, ActedAlready)
  \/ ~MonitorClean(m)
  \/ Needs(q, "runtime_truth") /\ m.truth = {}
  \/ Needs(q, "clean") /\ MonitorTruthUnsafe(m.truth)
  \/ mg.given /\ (mg.blocked \/ ~mg.ci_monitor_eligible)
  \/ c.given /\ (c.blocked \/ ~c.success)
  \/ PullRequestBlocks(q, Seen(q, g, m, mg, c))
  \/ m.passed \/ m.pending \/ ~m.failed
  \/ Failures(q, g, m).blocked # {}
  \/ ~Budget(q).valid \/ Budget(q).remaining = 0
  \/ OrChecks(g.missing, m.missing) # {}

Planned(q, g, m, mg, c) ==
  /\ q.mode = "act" /\ ~Blocked(q, g, m, mg, c)
  /\ GateEvidenceEligible(q, g) /\ Needs(q, "repair_plan")

-----------------------------------------------------------------------------
AreaMap ==
  << << {"pytest", "test"}, "tests" >>,
     << {"pyright", "mypy", "typecheck"}, "backend/python" >>,
     << {"tsc", "eslint"}, "frontend/src" >>,
     << {"clippy", "cargo"}, "backend/rust" >>,
     << {"ruff", "black", "prettier", "fmt"}, "docs" >>,
     << {"vite", "build"}, "frontend/src" >> >>

Area(check) ==
  LET hits == {i \in DOMAIN AreaMap : AreaMap[i][1] \cap Words[check] # {}}
  IN IF hits = {} THEN "unknown" ELSE AreaMap[Min(hits)][2]

\* The validation commands a step suggests: "plain" ones, and "pointed" ones
\* that have arguments (python -m pytest tests).
Commands(category) ==
  CASE category = "test_failure" -> {"pointed"}
    [] category = "typecheck_failure" -> {"pointed", "plain"}
    [] OTHER -> {"plain"}

StepFor(check) ==
  [kind |-> "inspect", category |-> Category(check), area |-> Area(check),
   human |-> FALSE, high |-> Category(check) = "build_failure"]

NoActionableStep ==
  [kind |-> "human", category |-> "unknown", area |-> "unknown",
   human |-> TRUE, high |-> TRUE]

Steps(q, g, m) ==
  LET actionable == {check \in Failing(g, m) : Category(check) \in Failures(q, g, m).repairable}
      steps == [i \in 1 .. Min({Cardinality(actionable), q.steps}) |->
                  StepFor(SetToSeq(actionable)[i])]
  IN IF steps = << >> THEN << NoActionableStep >> ELSE steps

AreasOf(steps) ==
  IF steps = << >> THEN {"unknown"} ELSE {steps[i].area : i \in DOMAIN steps}

\* The steps' commands, or else those of the categories, or git diff --check.
CommandsOf(steps, categories) ==
  LET inspected == {i \in DOMAIN steps : steps[i].kind = "inspect"}
      named == IF inspected # {} THEN {steps[i].category : i \in inspected} ELSE categories
  IN IF named = {} THEN {"plain"} ELSE UNION {Commands(category) : category \in named}

\* A plan that is made is ready.
Result(q, g, m, mg, c) ==
  LET blocked == Blocked(q, g, m, mg, c)
      planned == Planned(q, g, m, mg, c)
      steps == IF planned THEN Steps(q, g, m) ELSE << >>
      seen == Seen(q, g, m, mg, c) IN
  [given |-> TRUE, success |-> q.mode = "act" /\ ~blocked, blocked |-> blocked, human |-> blocked,
   planned |-> planned, steps |-> steps, areas |-> AreasOf(steps),
   commands |-> CommandsOf(steps, Failures(q, g, m).repairable),
   blocked_categories |-> Failures(q, g, m).blocked, remaining |-> Budget(q).remaining,
   repository |-> seen.repository, source |-> seen.source, head |-> seen.head,
   number |-> seen.number, state |-> seen.state, sha |-> seen.sha,
   truth |-> {"recorded"} \cup Flag("secrets_detected", SecretDetected(q, g, m, mg, c))]

NoResult ==
  [given |-> FALSE, success |-> FALSE, blocked |-> FALSE, human |-> FALSE,
   planned |-> FALSE, steps |-> << >>, areas |-> {}, commands |-> {},
   blocked_categories |-> {}, remaining |-> 0, repository |-> NoText, source |-> NoBranch,
   head |-> NoBranch, number |-> 0, state |-> NoText, sha |-> 0, truth |-> {}]
================================================================================
