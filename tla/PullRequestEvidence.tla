-------------------------- MODULE PullRequestEvidence --------------------------
(***************************************************************************)
(* What the pull request and CI stages (sandbox/pr_*.py, ci_*.py,          *)
(* scoped_ci_*.py) share: the fields of their requests beyond those of     *)
(* SandboxEvidence, and the checks each of them has a copy of.             *)
(***************************************************************************)
EXTENDS SandboxEvidence, FiniteSetsExt

CONSTANTS
  Words   \* check -> the keywords its name contains

\* source, head, remote: branch fields, NoBranch where the request leaves one
\* to the evidence.  repository: "expected", "other" or "malformed", NoText to
\* take the evidence's.  ref: the request itself names a pushed ref and remote.
\* texts: title, body, labels, reviewers and assignees are safe.  names:
\* provider, workflow and check names are.  sha and number are 0, state NoText,
\* where the evidence's are taken.  required: the checks the caller expects.
\* allowed, barred: the failure categories that may and may not be repaired.
\* attempt, maximum: current_repair_attempt, max_repair_attempts.  steps, files,
\* hunks, per_file: the limits on a plan and on proposals; change_files and
\* change_hunks: those a plan is said to have had.  blocked, areas, commands: the
\* failure categories, target areas and commands a request names itself.
NoText == ""

Repairable ==
  {"test_failure", "typecheck_failure", "lint_failure", "format_failure", "build_failure"}
Grave ==
  {"security_failure", "secret_failure", "deployment_failure", "billing_failure",
   "permission_failure", "unknown_infrastructure_failure"}

PrOrdinary ==
  [mode |-> "act", allow |-> {}, notes |-> {}, waived |-> {}, secret |-> FALSE,
   source |-> NoBranch, head |-> NoBranch, current |-> NoBranch,
   remote |-> NoBranch, base |-> "main", repository |-> NoText,
   ref |-> FALSE, texts |-> TRUE, names |-> TRUE, sha |-> 0, number |-> 0, state |-> NoText,
   required |-> {}, allowed |-> Repairable, barred |-> Grave,
   attempt |-> 0, maximum |-> 1, steps |-> 10, files |-> 2, hunks |-> 2, per_file |-> 1,
   change_files |-> 2, change_hunks |-> 2, blocked |-> {}, areas |-> {}, commands |-> {}]

\* Python's `a or b` on branch names, texts, numbers and lists.
OrBranch(a, b) == IF a # NoBranch THEN a ELSE b
OrText(a, b) == IF a # NoText THEN a ELSE b
OrNumber(a, b) == IF a # 0 THEN a ELSE b
OrSet(a, b) == IF a # {} THEN a ELSE b

\* The first of a sequence of values that is not empty.
FirstOf(values, none) ==
  LET given == {i \in DOMAIN values : values[i] # none}
  IN IF given = {} THEN none ELSE values[Min(given)]

\* What a stage works with: each field from the request or else from the first
\* of the results handed to it that has one.
Settled(q, handed) ==
  LET all == << q >> \o handed
      source == FirstOf([i \in DOMAIN all |-> all[i].source], NoBranch) IN
  [repository |-> FirstOf([i \in DOMAIN all |-> all[i].repository], NoText),
   number |-> FirstOf([i \in DOMAIN all |-> all[i].number], 0),
   state |-> OrText(FirstOf([i \in DOMAIN all |-> all[i].state], NoText), "open"),
   source |-> source,
   head |-> OrBranch(FirstOf([i \in DOMAIN all |-> all[i].head], NoBranch), source),
   sha |-> FirstOf([i \in DOMAIN all |-> all[i].sha], 0)]

Protected(branch) == branch \in {"release", "guarded"}

\* owner/name of the expected repository, or of any the caller vouches for.
RepositorySafe(q, repository) ==
  \/ repository = "expected"
  \/ repository = "other" /\ "allow_unexpected_repository" \in q.notes

\* The branch rule every one of these stages can be told to leave out.
HeadBlocks(q, source, head, base) ==
  /\ Needs(q, "non_main_head")
  /\ \/ NoBranch \in {source, head}
     \/ {source, head} \cap {"main", base} # {}
     \/ Protected(source) \/ Protected(head)

BaseSafe(q, base) == Needs(q, "base_main") => base = "main"

\* What a pull request's reported state, and what the caller says of it, must be.
PrOpenEnough(q, state) ==
  /\ state \notin {"merged", "closed"}
  /\ Needs(q, "pr_open") => state = "open"

MarkedAway(q) == q.notes \cap {"merged", "closed"} # {}
MarkedFrozen(q) == q.notes \cap {"locked", "repository_archived"} # {}
MarkedMain(q) == q.notes \cap {"direct_main_edit", "source_main", "base_not_main"} # {}

\* The repair stages also refuse main and protected branches outright.
PullRequestBlocks(q, s) ==
  \/ s.number = 0 \/ ~PrOpenEnough(q, s.state) \/ MarkedAway(q) \/ MarkedFrozen(q)
  \/ ~RepositorySafe(q, s.repository)
  \/ HeadBlocks(q, s.source, s.head, q.base) \/ "main" \in {s.source, s.head}
  \/ Protected(s.source) \/ Protected(s.head)
  \/ ~BaseSafe(q, q.base)
  \/ Needs(q, "head_sha") /\ s.sha = 0

\* The limits on proposals, which may not be below those of the plan.
ScopeValid(q) ==
  /\ q.files \in 1 .. 10 /\ q.hunks \in 1 .. 50 /\ q.per_file \in 1 .. 20
  /\ q.change_files <= q.files /\ q.change_hunks <= q.hunks

\* Mutant: the general words before the particular ones.
ReversedMap == << << {"pytest", "test"}, "test_failure" >>,
                  << {"clippy", "eslint", "ruff", "lint"}, "lint_failure" >>,
                  << {"codeql", "security", "audit"}, "security_failure" >>,
                  << {"deploy", "release", "prod"}, "deployment_failure" >> >>

\* _FAILURE_MAP: keywords and the category of a check whose name has one, the
\* first that matches.  Neighbours of one category are one entry.
FailureMap ==
  << << {"cargo test", "npm test"}, "test_failure" >>,
     << {"cargo check", "vite build"}, "build_failure" >>,
     << {"production"}, "deployment_failure" >>,
     << {"permission", "credential"}, "permission_failure" >>,
     << {"codeql"}, "security_failure" >>,
     << {"secret"}, "secret_failure" >>,
     << {"trivy", "snyk", "audit", "security"}, "security_failure" >>,
     << {"deploy", "release", "prod"}, "deployment_failure" >>,
     << {"billing", "payment", "invoice"}, "billing_failure" >>,
     << {"auth", "token"}, "permission_failure" >>,
     << {"typecheck", "pyright", "mypy", "tsc"}, "typecheck_failure" >>,
     << {"clippy", "eslint", "ruff", "lint"}, "lint_failure" >>,
     << {"prettier", "black", "fmt", "format"}, "format_failure" >>,
     << {"build"}, "build_failure" >>,
     << {"pytest", "test"}, "test_failure" >> >>

Category(check) ==
  LET hits == {i \in DOMAIN FailureMap : FailureMap[i][1] \cap Words[check] # {}}
  IN IF hits = {} THEN "unknown" ELSE FailureMap[Min(hits)][2]

\* The categories of failing checks that may be repaired, and those that may
\* not; what is on neither list may not.
Classified(checks, q) ==
  LET categories == {Category(check) : check \in checks} IN
  [repairable |-> categories \cap q.allowed,
   blocked |-> ((categories \cap q.barred) \ q.allowed)
                 \cup Flag("unknown_infrastructure_failure",
                           ~(categories \subseteq q.allowed \cup q.barred))]

\* Mutant: the attempt under way is not counted.
BudgetOffByOne(q) ==
  [valid |-> q.maximum \in 1 .. 10,
   remaining |-> IF q.maximum \in 1 .. 10 /\ q.attempt <= q.maximum
                 THEN q.maximum + 1 - q.attempt ELSE 0]

\* _attempt_budget: max_repair_attempts must be 1 to 10, the current attempt
\* not negative; nothing remains of a budget that is not valid.
Budget(q) ==
  [valid |-> q.maximum \in 1 .. 10,
   remaining |-> IF q.maximum \in 1 .. 10 /\ q.attempt < q.maximum
                 THEN q.maximum - q.attempt ELSE 0]

-----------------------------------------------------------------------------
\* What Runtime Truth may not report once a repair is under consideration.
ActedAlready ==
  {"secrets_detected", "repair_loop_started", "logs_downloaded", "workflow_retried",
   "workflow_triggered", "provider_called", "agent_called", "mcp_used",
   "patch_proposed", "patch_applied", "files_written", "code_edited",
   "command_executed", "git_mutated", "commit_executed", "push_executed",
   "pr_updated", "pr_merged", "auto_merge_enabled", "main_modified", "vault_written"}

\* What no repair stage may be asked to do.
RepairForbidden ==
  {"log_download", "workflow_retry", "workflow_trigger", "provider_call", "agent_call",
   "patch_apply", "file_write", "commit", "push", "pr_update", "merge", "auto_merge",
   "git_mutation", "command_execution"}

\* The areas of the tree a repair may touch.
AllowedAreas ==
  {"tests", "backend/python", "backend/rust", "frontend/src", "docs", "sandbox/local"}
================================================================================
