-------------------------- MODULE PullRequestDelivery --------------------------
(***************************************************************************)
(* What comes after the push: a pull request for the pushed branch, its    *)
(* checks, and proposals to repair the ones that fail.  The stages are     *)
(* those of sandbox/pr_*.py, ci_*.py and scoped_ci_*.py; GitHub is what    *)
(* they read and write, and other people use it as well.                   *)
(*                                                                         *)
(* As in CommitDelivery the stages do not call each other: a caller hands  *)
(* the result of one to the next, as it is, without its Runtime Truth, or  *)
(* not at all, and may hand on a result that is no longer the newest word. *)
(***************************************************************************)
EXTENDS PullRequestEvidence, SequencesExt

CONSTANTS
  Scenarios   \* name -> who asks for what, and what happens; see below

\* A scenario fixes what the caller asks of each stage (prgate, creator, mongate,
\* monitor, repairgate, planner, propgate, proposal: sets of requests), the stages
\* whose results it may strip of their truth or leave out (strips), whether it
\* turns a plan's inspection steps into proposals (rewords), how GitHub words a
\* status (style: "word", the conclusion, or "api", status and conclusion apart),
\* and the bounds on pushes, on what other people do to pull requests (meddles), on
\* reports of checks (reports) and on calls that fail (faults).

\* There are finitely many checks.
ASSUME ChecksAssumption == IsFiniteSet(DOMAIN Words)

\* A request has the fields of PullRequestEvidence.
ASSUME RequestAssumption ==
  \A name \in DOMAIN Scenarios :
    LET use == Scenarios[name] IN
    \A q \in use.prgate \cup use.creator \cup use.mongate \cup use.monitor
             \cup use.repairgate \cup use.planner \cup use.propgate \cup use.proposal :
      DOMAIN q = DOMAIN PrOrdinary /\ q.steps \in Nat

PE == INSTANCE PushExecutor
PG == INSTANCE PrCreationGate
PC == INSTANCE PrCreator
MG == INSTANCE CiMonitorGate
CM == INSTANCE CiMonitor
RG == INSTANCE CiRepairLoopGate
RP == INSTANCE CiRepairPlanner
SG == INSTANCE ScopedProposalGate
SE == INSTANCE ScopedProposalEngine

Checks == DOMAIN Words

\* What a check may report: every word the monitor knows, those it takes for one of
\* them, and "stale" for all others; "absent" while there is no report.
ReportWords ==
  CM!KNOWN_STATUSES \cup {"completed", "passed", "errored", "running", "stale"}
Outcomes == {"absent"} \cup ReportWords

\* The words that say of a check that it failed, and those that say that it ended
\* and not that it failed.
Failures == CM!FAIL_STATUSES \cup {"errored"}
Endings == {"success", "passed", "completed", "skipped", "neutral"}

\* Pushes are counted, and a check reports one of the words.
ASSUME ReportAssumption ==
  \A name \in DOMAIN Scenarios :
    Scenarios[name].pushes \in Nat /\ Scenarios[name].words \subseteq ReportWords

VARIABLES
  scenario,  \* the one this behaviour is of
  head,      \* commits pushed to the branch so far; the last is the head
  pulls,     \* the pull requests: what it is for, who opened it, whether it is open
  ci,        \* commit -> check -> its last report
  evidence,  \* stage -> its last result
  basis,     \* stage -> the reports its result rests on, or Nothing
  attempts,  \* proposals created so far
  run,       \* the creator at work, and what it was asked
  meddled, reported, faults

bounds == << meddled, reported, faults >>
vars == << scenario, head, pulls, ci, evidence, basis, attempts, run, bounds >>

Use == Scenarios[scenario]
Idle == [at |-> "idle"]
Nothing == << >>

\* What the push executor reports of a push that was made, or refused.
Pushed(sha) ==
  [PE!NoResult EXCEPT !.given = TRUE, !.success = TRUE, !.pushed = TRUE,
     !.commit_sha = sha, !.remote_branch = "feature",
     !.truth = {"recorded", "pushed", "push_executed", "command_executed", "network_used",
                "git_mutated"}]
Refused == [PE!NoResult EXCEPT !.given = TRUE, !.blocked = TRUE, !.human = TRUE,
              !.truth = {"recorded"}]

Init ==
  /\ scenario \in DOMAIN Scenarios
  /\ head = 0 /\ pulls = << >>
  /\ ci = [sha \in 1 .. Use.pushes |-> [check \in Checks |-> "absent"]]
  /\ evidence = [push |-> PE!NoResult, prgate |-> PG!NoResult, creator |-> PC!NoResult,
                 mongate |-> MG!NoResult, monitor |-> CM!NoResult,
                 repairgate |-> RG!NoResult, planner |-> RP!NoResult,
                 propgate |-> SG!NoResult, proposal |-> SE!NoResult]
  /\ basis = [monitor |-> Nothing, repairgate |-> Nothing, planner |-> Nothing,
              proposal |-> Nothing]
  /\ attempts = 0 /\ run = Idle
  /\ meddled = 0 /\ reported = 0 /\ faults = 0

-----------------------------------------------------------------------------
\* What a caller may hand on of a result.
Handed(stage, result, none) ==
  IF stage \in Use.strips THEN {result, none, [result EXCEPT !.truth = {}]} ELSE {result}
MayOmit(stage, result, none) == IF stage \in Use.strips THEN {result, none} ELSE {result}

\* A caller that leaves nothing out has the result of the stage before.
Due(before) == run = Idle /\ (before \in Use.strips \/ evidence[before].given)

Record(stage, result) == evidence' = [evidence EXCEPT ![stage] = result]

\* The push executor (module CommitDelivery): a new commit, whose checks are
\* still to report, or a push that was refused.
Push ==
  /\ run = Idle
  /\ \/ /\ head < Use.pushes /\ head' = head + 1
        /\ Record("push", Pushed(head'))
     \/ /\ "push" \in Use.strips /\ Record("push", Refused) /\ UNCHANGED head
  /\ UNCHANGED << scenario, pulls, ci, basis, attempts, run, bounds >>

EvaluatePrCreationGate ==
  /\ Due("push")
  /\ \E q \in Use.prgate, x \in Handed("push", evidence.push, PE!NoResult) :
       Record("prgate", PG!Result(q, x, [given |-> FALSE, push_eligible |-> FALSE,
                                         blocked |-> FALSE, human |-> FALSE, truth |-> {}]))
  /\ UNCHANGED << scenario, head, pulls, ci, basis, attempts, run, bounds >>

-----------------------------------------------------------------------------
\* The pull request creator: find_open_pull_request, then create_pull_request.
FinishCreate(outcome, number, state) ==
  /\ Record("creator", PC!Result(run.q, run.g, run.x, outcome, number, state))
  /\ run' = Idle

StartCreate ==
  /\ Due("prgate")
  /\ \E q \in Use.creator, g \in Handed("prgate", evidence.prgate, PG!NoResult),
        x \in MayOmit("push", evidence.push, PE!NoResult) :
       IF PC!Blocked(q, g, x) \/ q.mode = "dry_run"
       THEN /\ Record("creator", PC!Result(q, g, x, IF PC!Blocked(q, g, x) THEN "blocked"
                                                    ELSE "dry_run", 0, NoText))
            /\ UNCHANGED run
       ELSE /\ run' = [at |-> "find", q |-> q, g |-> g, x |-> x]
            /\ UNCHANGED evidence
  /\ UNCHANGED << scenario, head, pulls, ci, basis, attempts, bounds >>

\* What a pull request is for, as it is looked for and as it is opened.
Wanted(q, g) ==
  [repository |-> PC!Repository(q, g), head |-> PC!HeadBranch(q, g), base |-> q.base]
OpenFor(wanted) == {i \in DOMAIN pulls : pulls[i].open /\ pulls[i].of = wanted}

\* Mutant: what is found is not looked at.
FindNothing ==
  /\ run.at = "find"
  /\ run' = [run EXCEPT !.at = "create"]
  /\ UNCHANGED << scenario, head, pulls, ci, evidence, basis, attempts, bounds >>

FindOpenPullRequest ==
  LET open == OpenFor(Wanted(run.q, run.g)) IN
  /\ run.at = "find"
  /\ IF open # {}
     THEN FinishCreate("found", Min(open), "open")
     ELSE run' = [run EXCEPT !.at = "create"] /\ UNCHANGED evidence
  /\ UNCHANGED << scenario, head, pulls, ci, basis, attempts, bounds >>

\* GitHub is not assumed to refuse a second pull request for the same.
Opened(by, wanted) == [by |-> by, of |-> wanted, open |-> TRUE, pushed |-> head]

\* Mutant: the answer names the pull request after the one created.
CreateNamingNext ==
  /\ run.at = "create"
  /\ pulls' = Append(pulls, Opened("creator", Wanted(run.q, run.g)))
  /\ FinishCreate("created", Len(pulls') + 1, "open")
  /\ UNCHANGED << scenario, head, ci, basis, attempts, bounds >>

CreatePullRequest ==
  /\ run.at = "create"
  /\ pulls' = Append(pulls, Opened("creator", Wanted(run.q, run.g)))
  /\ FinishCreate("created", Len(pulls'), "open")
  /\ UNCHANGED << scenario, head, ci, basis, attempts, bounds >>

\* The client raises, before the request took effect or after: the caller is
\* told nothing, or that the creator is blocked.
ClientFails ==
  /\ run # Idle /\ faults < Use.faults /\ faults' = faults + 1
  /\ \/ UNCHANGED pulls
     \/ /\ run.at = "create"
        /\ pulls' = Append(pulls, Opened("creator", Wanted(run.q, run.g)))
  /\ \/ run' = Idle /\ UNCHANGED evidence
     \/ FinishCreate("blocked", 0, NoText)
  /\ UNCHANGED << scenario, head, ci, basis, attempts, meddled, reported >>

-----------------------------------------------------------------------------
EvaluateCiMonitorGate ==
  /\ Due("creator")
  /\ \E q \in Use.mongate, c \in Handed("creator", evidence.creator, PC!NoResult),
        g \in MayOmit("prgate", evidence.prgate, PG!NoResult),
        x \in MayOmit("push", evidence.push, PE!NoResult) :
       Record("mongate", MG!Result(q, c, g, x))
  /\ UNCHANGED << scenario, head, pulls, ci, basis, attempts, run, bounds >>

\* One check as a status word, or as GitHub's API has it.
Item(check, word) ==
  IF Use.style = "word" \/ word \in CM!PENDING_STATUSES
  THEN [name |-> check, status |-> word, conclusion |-> NoText, required |-> FALSE]
  ELSE [name |-> check, status |-> "completed", conclusion |-> word, required |-> FALSE]

\* The last reports of a commit; of one that origin does not have there are none.
ReportsOf(sha) ==
  IF sha \in 1 .. head THEN ci[sha] ELSE [check \in Checks |-> "absent"]

Snapshot(sha) ==
  LET reports == ReportsOf(sha) IN
  {Item(check, reports[check]) : check \in {k \in Checks : reports[k] # "absent"}}

\* get_actions_status_snapshot of the commit the evidence names; a client that
\* raises leaves nothing to judge.
MonitorCi ==
  /\ Due("mongate")
  /\ \E q \in Use.monitor, g \in Handed("mongate", evidence.mongate, MG!NoResult),
        c \in MayOmit("creator", evidence.creator, PC!NoResult) :
       LET sha == CM!Seen(q, g, c).sha
           result(outcome, items) == CM!Result(q, g, c, PG!NoResult, outcome, items) IN
       \/ /\ CM!Blocked(q, g, c, PG!NoResult)
          /\ Record("monitor", result("blocked", {})) /\ UNCHANGED << basis, faults >>
       \/ /\ ~CM!Blocked(q, g, c, PG!NoResult) /\ q.mode = "dry_run"
          /\ Record("monitor", result("dry_run", {})) /\ UNCHANGED << basis, faults >>
       \/ /\ ~CM!Blocked(q, g, c, PG!NoResult) /\ q.mode = "act"
          /\ \/ /\ Record("monitor", result("read", Snapshot(sha)))
                /\ basis' = [basis EXCEPT !.monitor = ReportsOf(sha)]
                /\ UNCHANGED faults
             \/ /\ faults < Use.faults /\ faults' = faults + 1
                /\ Record("monitor", result("unread", {}))
                /\ UNCHANGED basis
  /\ UNCHANGED << scenario, head, pulls, ci, attempts, run, meddled, reported >>

-----------------------------------------------------------------------------
\* A caller that counts its attempts.
Counted(q) == [q EXCEPT !.attempt = attempts]

EvaluateRepairLoopGate ==
  /\ Due("monitor")
  /\ \E q \in Use.repairgate, m \in Handed("monitor", evidence.monitor, CM!NoResult),
        g \in MayOmit("mongate", evidence.mongate, MG!NoResult) :
       Record("repairgate", RG!Result(Counted(q), m, g, PC!NoResult, PG!NoResult))
  /\ basis' = [basis EXCEPT !.repairgate = basis.monitor]
  /\ UNCHANGED << scenario, head, pulls, ci, attempts, run, bounds >>

\* The failures a plan is about are the gate's, unless it saw none.
PlanRepair ==
  /\ Due("repairgate")
  /\ \E q \in Use.planner, g \in Handed("repairgate", evidence.repairgate, RG!NoResult),
        m \in MayOmit("monitor", evidence.monitor, CM!NoResult) :
       /\ Record("planner", RP!Result(Counted(q), g, m, MG!NoResult, PC!NoResult))
       /\ basis' = [basis EXCEPT !.planner = IF g.failing # {} THEN basis.repairgate
                                             ELSE basis.monitor]
  /\ UNCHANGED << scenario, head, pulls, ci, attempts, run, bounds >>

\* The planner only plans to look; the proposal gate only takes plans that
\* propose, with commands that have no arguments.  Nothing in the code turns one
\* into the other: a caller has to.
Reworded(r) ==
  [r EXCEPT !.steps = [i \in DOMAIN r.steps |->
                         IF r.steps[i].kind = "inspect"
                         THEN [r.steps[i] EXCEPT !.kind = "propose"] ELSE r.steps[i]],
            !.commands = IF @ = {} THEN {} ELSE {"plain"}]
Plan == IF Use.rewords THEN Reworded(evidence.planner) ELSE evidence.planner

EvaluateProposalGate ==
  /\ Due("planner")
  /\ \E q \in Use.propgate, r \in MayOmit("planner", Plan, RP!NoResult),
        g \in MayOmit("repairgate", evidence.repairgate, RG!NoResult) :
       Record("propgate", SG!Result(Counted(q), r, g, evidence.monitor))
  /\ UNCHANGED << scenario, head, pulls, ci, basis, attempts, run, bounds >>

Propose ==
  /\ Due("propgate")
  /\ \E q \in Use.proposal, r \in MayOmit("planner", Plan, RP!NoResult) :
       LET result == SE!Result(Counted(q), evidence.propgate, r, evidence.monitor) IN
       /\ Record("proposal", result)
       /\ attempts' = IF result.proposal_created THEN attempts + 1 ELSE attempts
  /\ basis' = [basis EXCEPT !.proposal = basis.planner]
  /\ UNCHANGED << scenario, head, pulls, ci, run, bounds >>

-----------------------------------------------------------------------------
\* GitHub and the people there.  A check may be run again.
CiReports ==
  /\ reported < Use.reports /\ reported' = reported + 1
  /\ \E sha \in 1 .. head, check \in Checks, word \in Use.words :
       /\ word # ci[sha][check]
       /\ ci' = [ci EXCEPT ![sha][check] = word]
  /\ UNCHANGED << scenario, head, pulls, evidence, basis, attempts, run, meddled, faults >>

OfFeature == [repository |-> "expected", head |-> "feature", base |-> "main"]
Meddle ==
  /\ meddled < Use.meddles /\ meddled' = meddled + 1
  /\ \/ pulls' = Append(pulls, Opened("person", OfFeature))
     \/ \E i \in DOMAIN pulls : pulls[i].open /\ pulls' = [pulls EXCEPT ![i].open = FALSE]
  /\ UNCHANGED << scenario, head, ci, evidence, basis, attempts, run, reported, faults >>

Next ==
  \/ Push \/ EvaluatePrCreationGate
  \/ StartCreate \/ FindOpenPullRequest \/ CreatePullRequest \/ ClientFails
  \/ EvaluateCiMonitorGate \/ MonitorCi
  \/ EvaluateRepairLoopGate \/ PlanRepair \/ EvaluateProposalGate \/ Propose
  \/ CiReports \/ Meddle

Spec == Init /\ [][Next]_vars

-----------------------------------------------------------------------------
TypeOK ==
  /\ head \in 0 .. Use.pushes
  /\ \A i \in DOMAIN pulls :
       pulls[i].by \in {"creator", "person"} /\ pulls[i].pushed \in 0 .. head
  /\ ci \in [1 .. Use.pushes -> [Checks -> Outcomes]]
  /\ run.at \in {"idle", "find", "create"}
  /\ evidence.creator.number \in 0 .. Len(pulls)
  /\ \A stage \in DOMAIN basis : basis[stage] \in {Nothing} \cup [Checks -> Outcomes]

\* However often creations are repeated after answers that were lost, a creator that
\* works alone has at most one open pull request from a branch into a base of a
\* repository, and GitHub need not refuse.  Into another base it opens another.
OneOpenPullRequest ==
  \A i, j \in {k \in DOMAIN pulls : pulls[k].open /\ pulls[k].by = "creator"} :
    pulls[i].of = pulls[j].of => i = j

\* Whatever a caller waives, strips or leaves out at the creation gate and at the
\* creator, a pull request is only opened when something has been pushed.
PullRequestsRestOnPush ==
  \A i \in DOMAIN pulls : pulls[i].by = "creator" => pulls[i].pushed > 0

\* Callers that leave number and commit to the evidence, have the creator ask for a
\* commit and the monitor for the gate's consent.
FromEvidence ==
  /\ \A q \in Use.prgate \cup Use.creator \cup Use.mongate \cup Use.monitor : q.sha = 0
  /\ \A q \in Use.mongate \cup Use.monitor : q.number = 0
  /\ \A q \in Use.creator : Needs(q, "commit_sha")
  /\ \A q \in Use.monitor : Needs(q, "ci_monitor_gate_eligible")

\* A pull request the creator opened, and a commit that was pushed by then.
Own(number, sha) ==
  /\ number \in DOMAIN pulls /\ pulls[number].by = "creator"
  /\ sha \in 1 .. pulls[number].pushed

\* Of such callers: the checks that are read are of a commit that had been pushed
\* when the creator opened the very pull request they are read for, whatever has
\* been pushed since, also when others open one for the branch and the creator finds
\* it, and whatever else is waived at the monitor gate.
OnlyOwnChecksAreRead ==
  FromEvidence /\ evidence.monitor.monitored
    => Own(evidence.monitor.number, evidence.monitor.sha)

\* The checks every caller of the monitor requires.
Required == {check \in Checks : \A q \in Use.monitor : check \in q.required}

\* Of a client that gives each check one status word: CI passes only if every
\* check the caller requires has reported that it ended, and not that it failed.
\* One that was skipped or is neutral counts as well as one that succeeded; one that
\* is missing, running or of a word the monitor does not know does not.
PassedMeansConcluded ==
  Use.style = "word" /\ evidence.monitor.monitored /\ evidence.monitor.passed
    => \A check \in Required : basis.monitor[check] \in Endings

\* Every hunk proposed answers a check that had failed, not one that was missing,
\* running or unknown, in the reports the plan rests on, however the stages are
\* repeated while checks go on reporting.
ProposalsAnswerFailures ==
  evidence.proposal.proposal_created =>
    \A i \in DOMAIN evidence.proposal.hunks : \E check \in Checks :
      /\ basis.proposal[check] \in Failures
      /\ Category(check) = evidence.proposal.hunks[i].category

GraveWords == {"security", "secret", "deploy", "billing", "auth", "permission"}
CommandWords == {"cargo test", "npm test", "cargo check", "vite build"}

\* A required check that fails with a grave word in its name, whatever else its name
\* says short of a whole test or build command, stops every proposal that rests on
\* reports it is in, unless a caller puts grave categories on its list for repair.
GraveWithheld == \A q \in Use.repairgate \cup Use.planner : q.allowed \cap Grave = {}
GraveFailuresStopProposals ==
  GraveWithheld /\ evidence.proposal.proposal_created
    => \A check \in Required :
         basis.proposal[check] \in Failures /\ Words[check] \cap CommandWords = {}
           => Words[check] \cap GraveWords = {}

\* A caller that counts its attempts gets no more proposals than the largest number
\* it allows, however the stages before the engine are repeated or left out.
AttemptsStayInBudget ==
  attempts = 0 \/ \E q \in Use.proposal : attempts <= q.maximum

\* Documented: failing CI is routed to the repair loop gate.
FailingChecksFail ==
  evidence.monitor.monitored /\ (\E check \in Checks : basis.monitor[check] \in Failures)
    => evidence.monitor.failed

\* Documented: the engine's mode blocked blocks all proposal generation.
BlockedGeneratesNothing == evidence.proposal.blocked => evidence.proposal.hunks = << >>
================================================================================
