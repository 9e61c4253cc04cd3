----------------------------- MODULE CommandPolicy -----------------------------
(***************************************************************************)
(* What may run in the sandbox, in three layers that each have their own   *)
(* patterns: the policy engine (policy_engine.py), the command gate        *)
(* (command_gate.py) and the command runner (command_runner.py).           *)
(*                                                                         *)
(* A command is what the patterns see of it: the set of its traits.        *)
(*   "listed", "approval", "denied"  allowlist.commands.json (with or      *)
(*                   without requires_approval), denylist.commands.json    *)
(*   "read_safe", "branch_write", "forbidden"   the gate's pattern lists   *)
(*   "secret", "network", "production", "weakens_checks", "main", "force"  *)
(*                   what the gate's exceptions look for                   *)
(*   "shell"         shell operators, or a line that does not parse        *)
(*   "executable"    the runner's argv allowlists accept it                *)
(*   "git_write"     the runner's own test for a Git write                 *)
(*   "main_branch"   the branch named in the command is main               *)
(***************************************************************************)
EXTENDS SandboxEvidence

CONSTANTS Commands, Traits   \* [Commands -> sets of traits]

Has(c, trait) == trait \in Traits[c]

\* policy_engine: the denylist is read before the allowlist; a command that
\* needs an approval is neither allowed nor blocked.
PolicyDecision(c) ==
  [allowed |-> ~Has(c, "denied") /\ Has(c, "listed"),
   blocked |-> Has(c, "denied") \/ Traits[c] \cap {"listed", "approval"} = {},
   requires_approval |-> Has(c, "denied") \/ ~Has(c, "listed")]

-----------------------------------------------------------------------------
\* The command gate.  A request r has mode ("disabled", "dry_run_policy_only",
\* "sandbox_allowed", "blocked", "unknown"), claims (the requires_network,
\* reads_secrets, production_targeted and destructive_intent it declares) and
\* target (its target_branch).
Category(c) ==
  IF Has(c, "forbidden") THEN "blocked_high_or_critical"
  ELSE IF Has(c, "read_safe") THEN "read_safe"
  ELSE IF Has(c, "branch_write") THEN "git_write_branch" ELSE "unknown"

Exceptions(r, c) ==
  r.claims \cup (Traits[c] \cap {"network", "production", "weakens_checks", "force"})
    \cup Flag("main", /\ Category(c) = "git_write_branch"
                      /\ r.target = "main" \/ Has(c, "main_branch"))
    \cup Flag("push_main", Has(c, "main"))

GateObjects(r, c) ==
  \/ Has(c, "secret") \/ "reads_secrets" \in r.claims
  \/ r.mode \notin {"dry_run_policy_only", "sandbox_allowed"}
  \/ Category(c) \in {"unknown", "blocked_high_or_critical"}
  \/ Exceptions(r, c) # {}

ReadSafeEligible(r, c) == Category(c) = "read_safe" /\ ~GateObjects(r, c)

BranchWriteEligible(r, c) ==
  /\ Category(c) = "git_write_branch" /\ r.mode = "sandbox_allowed"
  /\ ~GateObjects(r, c)
  /\ ~Has(c, "main_branch") /\ r.target # "main"

GateDecision(r, c) ==
  [allowed |-> ReadSafeEligible(r, c) \/ BranchWriteEligible(r, c),
   category |-> Category(c),
   human |-> GateObjects(r, c)]

-----------------------------------------------------------------------------
\* The command runner.  A request r has runner ("disabled", "dry_run",
\* "sandbox_readonly", "blocked", "unknown"), mode and target for the gate,
\* and place (whether workspace root and working directory resolve to
\* directories the rules accept).
RunnerGateRequest(r) == [mode |-> r.mode, claims |-> {}, target |-> r.target]

RunnerBlocked(r, c) ==
  \/ Has(c, "secret")
  \/ r.runner \notin {"dry_run", "sandbox_readonly"}
  \/ r.mode # "sandbox_allowed"
  \/ ~GateDecision(RunnerGateRequest(r), c).allowed
  \/ Category(c) # "read_safe"
  \/ Has(c, "shell") \/ ~Has(c, "executable") \/ Has(c, "git_write")
  \/ ~r.place

\* outcome: what the process did: "passed", "failed", "timed_out", "leaked" (it
\* printed something like a credential) or "leaked_past" (it did so after the bytes
\* the runner keeps of its output, which is cut before it is searched); it is only
\* looked at when a process was started.
Runs(r, c) == ~RunnerBlocked(r, c) /\ r.runner = "sandbox_readonly"

RunnerResult(r, c, outcome) ==
  [command |-> c,
   executed |-> Runs(r, c),
   blocked |-> RunnerBlocked(r, c),
   dry_run |-> ~RunnerBlocked(r, c) /\ r.runner = "dry_run",
   timed_out |-> Runs(r, c) /\ outcome = "timed_out",
   exit |-> IF ~Runs(r, c) \/ outcome = "timed_out" THEN "none"
            ELSE IF outcome = "failed" THEN "failed" ELSE "zero",
   redacted |-> Has(c, "secret") \/ (Runs(r, c) /\ outcome = "leaked")]
================================================================================
