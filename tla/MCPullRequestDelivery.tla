------------------------- MODULE MCPullRequestDelivery -------------------------
(***************************************************************************)
(* Small instances for TLC: one branch with two checks, one of them with   *)
(* two keywords in its name, and callers that ask for little checking or   *)
(* for a lot.                                                              *)
(***************************************************************************)
EXTENDS PullRequestDelivery, TLC

MCWords == "unit" :> {"pytest", "test"} @@ "audit" :> {"security", "test"}

Ask == [PrOrdinary EXCEPT !.required = Checks]
AskPr == [PrOrdinary EXCEPT !.source = "feature", !.head = "feature", !.repository = "expected"]
AskCreator == [PrOrdinary EXCEPT !.allow = {"pr_creation", "network"}]

Waiving(q, requirements) ==
  { [q EXCEPT !.waived = w] : w \in { {}, requirements } \cup { {r} : r \in requirements } }

\* The evidence asked for and named in the request instead.
Vouching(q) == [q EXCEPT !.ref = TRUE, !.sha = 1, !.current = "feature", !.remote = "feature"]
WaivesAtGate ==
  Waiving(Vouching(AskPr), {"push_executed", "runtime_truth", "clean", "commit_sha"})
WaivesAtCreator == Waiving(AskCreator, {"push_executed", "runtime_truth", "clean"})

Scenario ==
  [prgate |-> {AskPr}, creator |-> {AskCreator}, mongate |-> {}, monitor |-> {},
   repairgate |-> {}, planner |-> {}, propgate |-> {}, proposal |-> {},
   strips |-> {}, rewords |-> FALSE, style |-> "word", words |-> {},
   pushes |-> 1, meddles |-> 0, reports |-> 0, faults |-> 0]

\* One pull request, with evidence stripped, left out, waived and vouched for.
Opening ==
  [Scenario EXCEPT !.prgate = WaivesAtGate \cup {AskPr}, !.creator = WaivesAtCreator,
     !.strips = {"push", "prgate"}, !.meddles = 1, !.faults = 1]
\* Answers lost, creations repeated, also into another base, and pull requests opened
\* and closed by others.
AskOtherBase == [AskCreator EXCEPT !.base = "develop", !.waived = {"base_main"}]
Retrying ==
  [Scenario EXCEPT !.creator = {AskCreator, AskOtherBase, [AskCreator EXCEPT !.mode = "dry_run"]},
     !.meddles = 2, !.faults = 2, !.pushes = 2]
\* Every word a check may report, and a monitor that looks again.
Watching ==
  [Scenario EXCEPT
     !.mongate = { Ask, [Ask EXCEPT !.waived = {"pr_created", "clean"}] },
     !.monitor = {Ask, [Ask EXCEPT !.mode = "dry_run"], [Ask EXCEPT !.waived = {"pr_created"}]},
     !.words = {"queued", "running", "success", "completed", "skipped", "failure", "errored",
                "stale"}, !.reports = 2]
\* More pushed, and pull requests opened by others, before and after a creation.
Pushing ==
  [Scenario EXCEPT
     !.mongate = { Ask, [Ask EXCEPT !.waived = {"pr_created", "clean"}] },
     !.monitor = { Ask, [Ask EXCEPT !.waived = {"pr_created"}] },
     !.words = {"success"}, !.pushes = 2, !.meddles = 1, !.reports = 1]
\* The same with what the creator and the monitor gate said stripped and left out.
Stripping ==
  [Pushing EXCEPT !.mongate = {[Ask EXCEPT !.waived = {"pr_created", "clean"}]},
     !.monitor = {Ask}, !.meddles = 0, !.reports = 0, !.strips = {"creator", "mongate"}]
\* A monitor whose client fails, or that is asked for a commit nobody pushed.
Failing == [Watching EXCEPT !.monitor = @ \cup {[Ask EXCEPT !.sha = 2]},
              !.reports = 1, !.faults = 1]
\* All stages to the proposals, over checks that go on reporting.
Repairing ==
  [Scenario EXCEPT !.mongate = {Ask}, !.monitor = {Ask}, !.repairgate = {Ask},
     !.planner = {Ask}, !.propgate = {Ask}, !.proposal = {Ask}, !.rewords = TRUE,
     !.words = {"success", "failure"}, !.reports = 3]
\* The same with checks that are still running.
Running == [Repairing EXCEPT !.words = {"in_progress", "success", "failure"}, !.reports = 2]
\* Callers that name categories, areas, commands and limits themselves.
Naming ==
  [Repairing EXCEPT !.words = {"failure"}, !.reports = 2, !.rewords = FALSE,
     !.propgate = {Ask, [Ask EXCEPT !.blocked = {"unknown_infrastructure_failure"}],
                   [Ask EXCEPT !.change_hunks = 3]},
     !.proposal = {Ask, [Ask EXCEPT !.areas = {"deploy"}, !.commands = {"other"}]}]

MCScenarios ==
  [opening |-> Opening, retrying |-> Retrying, watching |-> Watching, pushing |-> Pushing,
   stripping |-> Stripping, failing |-> Failing, repairing |-> Repairing, running |-> Running,
   naming |-> Naming]
\* The same with statuses as GitHub words them.
MCApi == [api |-> [Repairing EXCEPT !.style = "api"]]
\* The same with an engine in mode blocked.
MCBlocked ==
  [blocked |-> [Repairing EXCEPT !.proposal = {[Ask EXCEPT !.mode = "blocked"]}, !.rewords = FALSE]]
================================================================================
