---------------------------- MODULE SandboxEvidence ----------------------------
(***************************************************************************)
(* The vocabulary shared by the governed sandbox stages                    *)
(* (brain/runtime/sandbox): requests, the evidence one stage hands to the  *)
(* next, and Runtime Truth.                                                *)
(*                                                                         *)
(* Runtime Truth is a mapping of flags; a stage only ever asks whether a   *)
(* flag `is True`, so it is modelled as the set of the flags that are      *)
(* True.  A mapping that was produced by a stage is never empty, so it     *)
(* holds "recorded"; the empty set is the missing mapping.                 *)
(***************************************************************************)
EXTENDS Naturals, Sequences, FiniteSets

\* What a request can be asked to do: "act" stands for the mode of the stage
\* that does the work (evaluate_commit, commit_to_branch, push_branch, ...).
Modes == {"disabled", "blocked", "unknown", "dry_run", "act"}

NoBranch == ""
\* "release" stands for every release/, prod/ or production/ branch, "guarded"
\* for the protected/ branches only the push and pull request stages refuse.
BranchNames == {NoBranch, "main", "feature", "release", "guarded"}

\* A request: the capability switches (allow_*) that are on, the metadata keys
\* that are True, whether redaction found a credential in its text, its branch
\* fields and the require_* switches the caller turned off.
Ordinary ==
  [mode |-> "act", allow |-> {}, notes |-> {}, secret |-> FALSE,
   current |-> "feature", target |-> NoBranch, base |-> "main", waived |-> {},
   files |-> {}]

Needs(q, requirement) == requirement \notin q.waived

\* A flag of a mapping under construction.
Flag(name, holds) == IF holds THEN {name} ELSE {}

\* `_coerce_mapping(x.get("runtime_truth"))`, then `truth.get(flag) is True`.
Reports(truth, flags) == truth \cap flags # {}

================================================================================
