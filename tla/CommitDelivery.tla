----------------------------- MODULE CommitDelivery -----------------------------
(***************************************************************************)
(* One change on its way from the working tree to the remote: the patch    *)
(* applier and the validation leave evidence, the commit gate, commit      *)
(* executor, push gate and push executor act on it, one git call at a      *)
(* time, in a repository other people use as well.                         *)
(*                                                                         *)
(* The stages do not call each other.  A caller hands the result of one to *)
(* the next: as it is, without its Runtime Truth, with the git_mutated     *)
(* flag dropped, or not at all.                                            *)
(***************************************************************************)
EXTENDS SandboxEvidence, SequencesExt

CONSTANTS
  Files, Kind, MaxFiles,
  Scenarios   \* name -> who uses the clone, and how; see below

\* A scenario fixes what the caller asks of each stage (gate, commit, pushgate,
\* push: sets of requests), the files patches change, what other people do
\* (meddling: "edit", "stage", "checkout", "commit"), whether they also do it while
\* an executor is at work (at_work), the stages whose results callers may strip or
\* leave out (strips), and the bounds on patches, on steps of other people (meddles) and
\* on git calls that fail or time out (faults).

ASSUME KindAssumption == Kind \in [Files -> {"plain", "protected", "unsafe"}]

CG == INSTANCE CommitGate
CE == INSTANCE CommitExecutor
PG == INSTANCE PushGate
PE == INSTANCE PushExecutor

Branches == {"main", "feature"}
Trees == [Files -> Nat]

VARIABLES
  scenario,  \* the one this behaviour is of
  branch,    \* the branch checked out
  tree,      \* file -> its content, named by the edit that wrote it
  index,     \* file -> its staged content
  commits,   \* every commit: tree, parent, branch it was made on and who by
  tip,       \* branch -> its last commit
  remote,    \* branch -> what origin has, or 0
  evidence,  \* stage -> its last result
  checked,   \* the tree the last validation passed on, or NoTree
  basis,     \* whether the gate last judged a patch that was applied and passed
  run,       \* the executor at work, and what it has read
  touched,   \* whether the executor's last run changed the index or a tip
  edits, patches, meddled, faults

repository == << branch, tree, index, commits, tip, remote >>
bounds == << edits, patches, meddled, faults >>
vars == << scenario, repository, evidence, checked, basis, run, touched, bounds >>

Use == Scenarios[scenario]

NoTree == << >>
Idle == [at |-> "idle"]

\* What the applier reports of a patch it applied in full, and the validator
\* of a validation that ran.
Applied(files) ==
  [given |-> TRUE, applied |-> TRUE, success |-> TRUE, files |-> files,
   files_blocked |-> {}, requires_followup_validation |-> TRUE,
   truth |-> {"recorded", "patch_applied", "files_written", "code_edited"}]

\* Mutant: a validation that ran counts as passed.
ValidatedIfRun(a, passed) ==
  [given |-> TRUE, blocked |-> FALSE, human |-> FALSE, failed |-> FALSE,
   timed_out |-> FALSE, success |-> TRUE,
   ready_for_commit |-> a.applied /\ a.success,
   patch_was_applied |-> a.applied, files |-> a.files,
   truth |-> {"recorded", "command_executed"}]

Validated(a, passed) ==
  [given |-> TRUE, blocked |-> FALSE, human |-> FALSE, failed |-> ~passed,
   timed_out |-> FALSE, success |-> passed,
   ready_for_commit |-> passed /\ a.applied /\ a.success,
   patch_was_applied |-> a.applied, files |-> a.files,
   truth |-> {"recorded", "command_executed"}]

NoPatch == [Applied({}) EXCEPT !.given = FALSE, !.applied = FALSE, !.success = FALSE,
              !.requires_followup_validation = FALSE, !.truth = {}]
NoValidation == [Validated(NoPatch, FALSE) EXCEPT !.given = FALSE, !.failed = FALSE,
                   !.truth = {}]

Init ==
  /\ scenario \in DOMAIN Scenarios
  /\ branch = "feature"
  /\ tree = [f \in Files |-> 0] /\ index = tree
  /\ commits = << [tree |-> tree, parent |-> 0, on |-> "base", by |-> "person",
                   checked |-> NoTree, basis |-> FALSE] >>
  /\ tip = [b \in Branches |-> 1]
  /\ remote = [b \in Branches |-> IF b = "main" THEN 1 ELSE 0]
  /\ evidence = [patch |-> NoPatch, validation |-> NoValidation, gate |-> CG!NoResult,
                 commit |-> CE!NoResult, pushgate |-> PG!NoResult, push |-> PE!NoResult]
  /\ checked = NoTree /\ basis = FALSE
  /\ run = Idle /\ touched = FALSE
  /\ edits = 0 /\ patches = 0 /\ meddled = 0 /\ faults = 0

-----------------------------------------------------------------------------
\* What a caller may hand on of a stage's result: all of it or all but one flag, and
\* where it strips evidence no truth at all or nothing.
Handed(stage, none) ==
  LET result == evidence[stage] IN
  {result, [result EXCEPT !.truth = @ \ {"git_mutated"}]} \cup
  (IF stage \in Use.strips THEN {none, [result EXCEPT !.truth = {}]} ELSE {})

Content(b) == commits[tip[b]].tree
Changed == {f \in Files : tree[f] # Content(branch)[f] \/ index[f] # Content(branch)[f]}

Record(stage, result) == evidence' = [evidence EXCEPT ![stage] = result]

\* Mutant: the commit is its own parent.
SelfParented(by) ==
  /\ index # Content(branch)
  /\ commits' = Append(commits, [tree |-> index, parent |-> Len(commits) + 1, on |-> branch,
                                 by |-> by, checked |-> checked, basis |-> basis])
  /\ tip' = [tip EXCEPT ![branch] = Len(commits) + 1]

\* A commit of the whole index on the branch checked out.
NewCommit(by) ==
  /\ index # Content(branch)
  /\ commits' = Append(commits, [tree |-> index, parent |-> tip[branch], on |-> branch,
                                 by |-> by, checked |-> checked, basis |-> basis])
  /\ tip' = [tip EXCEPT ![branch] = Len(commits) + 1]

-----------------------------------------------------------------------------
\* The patch applier writes plain files; what was validated before no longer is.
ApplyPatch ==
  /\ run = Idle /\ patches < Use.patches /\ patches' = patches + 1
  /\ edits' = edits + 1
  /\ \E files \in SUBSET {f \in Use.files : Kind[f] = "plain"} \ {{}} :
       /\ tree' = [f \in Files |-> IF f \in files THEN edits' ELSE tree[f]]
       /\ evidence' = [evidence EXCEPT !.patch = Applied(files), !.validation = NoValidation]
  /\ checked' = NoTree
  /\ UNCHANGED << scenario, branch, index, commits, tip, remote, basis, run, touched >>
  /\ UNCHANGED << meddled, faults >>

Validate ==
  /\ run = Idle /\ evidence.patch.applied
  /\ \E passed \in BOOLEAN :
       /\ Record("validation", Validated(evidence.patch, passed))
       /\ checked' = IF passed THEN tree ELSE checked
  /\ UNCHANGED << scenario, repository, basis, run, touched, bounds >>

EvaluateCommitGate ==
  /\ run = Idle
  /\ \E q \in Use.gate, v \in Handed("validation", NoValidation),
        a \in Handed("patch", NoPatch) :
       Record("gate", CG!Result(q, v, a, {}))
  /\ basis' = (evidence.patch.applied /\ evidence.validation.success)
  /\ UNCHANGED << scenario, repository, checked, run, touched, bounds >>

EvaluatePushGate ==
  /\ run = Idle
  /\ \E q \in Use.pushgate, e \in Handed("commit", CE!NoResult),
        g \in {evidence.gate, CG!NoResult}, v \in {evidence.validation, NoValidation} :
       Record("pushgate", PG!Result(q, e, g, v))
  /\ UNCHANGED << scenario, repository, checked, basis, run, touched, bounds >>

-----------------------------------------------------------------------------
\* The commit executor.  A run that ends reports; what it did stays done.
FinishCommit(outcome, sha, staged, attempted) ==
  /\ Record("commit", CE!Result(run.q, run.g, outcome, sha, staged, attempted))
  /\ run' = Idle

StartCommit ==
  /\ run = Idle
  /\ \E q \in Use.commit, g \in Handed("gate", CG!NoResult) :
       IF CE!Blocked(q, g) \/ q.mode = "dry_run"
       THEN /\ Record("commit", CE!Result(q, g, IF CE!Blocked(q, g) THEN "blocked" ELSE "dry_run",
                                          0, {}, FALSE))
            /\ UNCHANGED run
       ELSE /\ run' = [at |-> "commit:branch", q |-> q, g |-> g, head |-> 0, staged |-> {}]
            /\ UNCHANGED evidence
  /\ touched' = FALSE
  /\ UNCHANGED << scenario, repository, checked, basis, bounds >>

\* git rev-parse --abbrev-ref HEAD
VerifyCommitBranch ==
  /\ run.at = "commit:branch"
  /\ IF CE!VerifiedBranchBlocks(run.q, branch)
     THEN FinishCommit("blocked", 0, {}, TRUE)
     ELSE run' = [run EXCEPT !.at = "commit:head"] /\ UNCHANGED evidence
  /\ UNCHANGED << scenario, repository, checked, basis, touched, bounds >>

\* git rev-parse HEAD
ReadHead ==
  /\ run.at = "commit:head"
  /\ run' = [run EXCEPT !.at = "commit:status", !.head = tip[branch]]
  /\ UNCHANGED << scenario, repository, evidence, checked, basis, touched, bounds >>

StagedCandidates == CE!FilesConsidered(run.q, run.g) \cap Changed

\* git status --short and git diff --name-only, then git add -- <candidates>
StageFiles ==
  /\ run.at = "commit:status"
  /\ IF StagedCandidates = {}
     THEN FinishCommit("blocked", 0, {}, TRUE) /\ UNCHANGED << index, touched >>
     ELSE /\ index' = [f \in Files |-> IF f \in StagedCandidates THEN tree[f] ELSE index[f]]
          /\ run' = [run EXCEPT !.at = "commit:commit", !.staged = StagedCandidates]
          /\ touched' = TRUE
          /\ UNCHANGED evidence
  /\ UNCHANGED << scenario, branch, tree, commits, tip, remote, checked, basis, bounds >>

\* git commit -m <message>: fails when nothing is staged.
Commit ==
  /\ run.at = "commit:commit"
  /\ \/ /\ NewCommit("executor")
        /\ run' = [run EXCEPT !.at = "commit:confirm"]
        /\ UNCHANGED evidence
     \/ /\ index = Content(branch)
        /\ FinishCommit("failed", 0, run.staged, TRUE)
        /\ UNCHANGED << commits, tip >>
  /\ UNCHANGED << scenario, branch, tree, index, remote, checked, basis, touched, bounds >>

\* git rev-parse HEAD and git status --short
ConfirmCommit ==
  /\ run.at = "commit:confirm"
  /\ FinishCommit(IF tip[branch] # run.head THEN "committed" ELSE "blocked",
                  tip[branch], run.staged, TRUE)
  /\ UNCHANGED << scenario, repository, checked, basis, touched, bounds >>

-----------------------------------------------------------------------------
\* The push executor.
FinishPush(outcome, attempted, contacted) ==
  /\ Record("push", PE!Result(run.q, run.p, run.e, outcome, attempted, contacted))
  /\ run' = Idle

StartPush ==
  /\ run = Idle
  /\ \E q \in Use.push, p \in Handed("pushgate", PG!NoResult),
        e \in Handed("commit", CE!NoResult) :
       IF PE!Blocked(q, p, e) \/ q.mode = "dry_run"
       THEN /\ Record("push", PE!Result(q, p, e, IF PE!Blocked(q, p, e) THEN "blocked" ELSE "dry_run",
                                        FALSE, FALSE))
            /\ UNCHANGED run
       ELSE /\ run' = [at |-> "push:branch", q |-> q, p |-> p, e |-> e]
            /\ UNCHANGED evidence
  /\ touched' = FALSE
  /\ UNCHANGED << scenario, repository, checked, basis, bounds >>

VerifyPushBranch ==
  /\ run.at = "push:branch"
  /\ IF PE!VerifiedBranchBlocks(run.q, run.p, run.e, branch)
     THEN FinishPush("blocked", TRUE, FALSE)
     ELSE run' = [run EXCEPT !.at = "push:push"] /\ UNCHANGED evidence
  /\ UNCHANGED << scenario, repository, checked, basis, touched, bounds >>

Ancestors[c \in 0 .. Len(commits)] ==
  IF c = 0 THEN {0} ELSE {c} \cup Ancestors[commits[c].parent]

\* Mutant: git push origin HEAD:refs/heads/<remote>.
PushHead ==
  LET ref == PE!FinalPushRef(run.q, run.p) IN
  /\ run.at = "push:push"
  /\ remote[ref.to] \in Ancestors[tip[branch]]
  /\ remote' = [remote EXCEPT ![ref.to] = tip[branch]]
  /\ run' = [run EXCEPT !.at = "push:confirm"]
  /\ UNCHANGED << scenario, branch, tree, index, commits, tip >>
  /\ UNCHANGED << evidence, checked, basis, touched, bounds >>

\* git push origin <current>:refs/heads/<remote>: origin takes a fast-forward.
Push ==
  LET ref == PE!FinalPushRef(run.q, run.p) IN
  /\ run.at = "push:push"
  /\ remote[ref.to] \in Ancestors[tip[ref.from]]
  /\ remote' = [remote EXCEPT ![ref.to] = tip[ref.from]]
  /\ run' = [run EXCEPT !.at = "push:confirm"]
  /\ UNCHANGED << scenario, branch, tree, index, commits, tip >>
  /\ UNCHANGED << evidence, checked, basis, touched, bounds >>

ConfirmPush ==
  /\ run.at = "push:confirm"
  /\ FinishPush("pushed", TRUE, TRUE)
  /\ UNCHANGED << scenario, repository, checked, basis, touched, bounds >>

-----------------------------------------------------------------------------
CommitRunning == run.at \in {"commit:branch", "commit:head", "commit:status",
                             "commit:commit", "commit:confirm"}
PushRunning == run.at \in {"push:branch", "push:push", "push:confirm"}

\* A git call returns non-zero: the run ends with what it had staged.
GitFails ==
  /\ faults < Use.faults /\ faults' = faults + 1
  /\ \/ CommitRunning /\ FinishCommit("failed", 0, run.staged, TRUE)
     \/ PushRunning /\ FinishPush("blocked", TRUE, run.at # "push:branch")
  /\ UNCHANGED << scenario, repository, checked, basis, touched, edits, patches, meddled >>

\* subprocess.TimeoutExpired is not caught: the caller gets no result.
GitTimesOut ==
  /\ faults < Use.faults /\ faults' = faults + 1
  /\ CommitRunning \/ PushRunning
  /\ run' = Idle
  /\ UNCHANGED << scenario, repository, evidence, checked, basis, touched, edits, patches, meddled >>

\* Other people in the same clone.  A checkout keeps local changes and is
\* refused when it would overwrite one.
Checkout(b) ==
  /\ b # branch
  /\ \A f \in Changed : Content(b)[f] = Content(branch)[f]
  /\ branch' = b
  /\ tree' = [f \in Files |-> IF f \in Changed THEN tree[f] ELSE Content(b)[f]]
  /\ index' = [f \in Files |-> IF f \in Changed THEN index[f] ELSE Content(b)[f]]
  /\ UNCHANGED << commits, tip, edits >>

EditFile(f) ==
  /\ edits' = edits + 1
  /\ tree' = [tree EXCEPT ![f] = edits']
  /\ UNCHANGED << branch, index, commits, tip >>

StageFile(f) ==
  /\ index[f] # tree[f]
  /\ index' = [index EXCEPT ![f] = tree[f]]
  /\ UNCHANGED << branch, tree, commits, tip, edits >>

Meddle ==
  /\ meddled < Use.meddles /\ meddled' = meddled + 1
  /\ Use.at_work \/ run = Idle
  /\ \/ "edit" \in Use.meddling /\ \E f \in Files : EditFile(f)
     \/ "stage" \in Use.meddling /\ \E f \in Files : StageFile(f)
     \/ "checkout" \in Use.meddling /\ \E b \in Branches : Checkout(b)
     \/ /\ "commit" \in Use.meddling /\ NewCommit("person")
        /\ UNCHANGED << branch, tree, index, edits >>
  /\ UNCHANGED << scenario, remote, evidence, checked, basis, run, touched, patches, faults >>

Next ==
  \/ ApplyPatch \/ Validate \/ EvaluateCommitGate \/ EvaluatePushGate
  \/ StartCommit \/ VerifyCommitBranch \/ ReadHead \/ StageFiles \/ Commit \/ ConfirmCommit
  \/ StartPush \/ VerifyPushBranch \/ Push \/ ConfirmPush
  \/ GitFails \/ GitTimesOut \/ Meddle

Spec == Init /\ [][Next]_vars

-----------------------------------------------------------------------------
TypeOK ==
  /\ branch \in Branches
  /\ tree \in Trees /\ index \in Trees
  /\ \A c \in 1 .. Len(commits) : commits[c].tree \in Trees /\ commits[c].parent \in 0 .. c - 1
  /\ tip \in [Branches -> 1 .. Len(commits)]
  /\ remote \in [Branches -> 0 .. Len(commits)]
  /\ checked \in Trees \cup {NoTree}
  /\ run = Idle \/ CommitRunning \/ PushRunning
  /\ touched \in BOOLEAN

ExecutorCommits == {c \in 1 .. Len(commits) : commits[c].by = "executor"}
ChangedBy(c) == {f \in Files : commits[c].tree[f] # commits[commits[c].parent].tree[f]}

\* Whatever requirements a caller waives at the gate and at the executor, and
\* whatever evidence it leaves out or strips, every commit of the executor was
\* decided on a patch that was applied and whose validation passed.
CommitsRestOnValidation == \A c \in ExecutorCommits : commits[c].basis

\* While no caller waives the branch rule the executor never commits on main,
\* however stale the branch the caller was told: people may switch branches at
\* any time, except while an executor runs.
NeverOnMain ==
  ~Use.at_work /\ (\A q \in Use.commit : Needs(q, "non_main_branch"))
    => \A c \in ExecutorCommits : commits[c].on # "main"

\* One patch so far, in a clone nobody else has used.
Undisturbed == meddled = 0 /\ patches = 1

\* Undisturbed, exactly the content that was validated is committed, after failed
\* and repeated attempts too.
CommittedContentWasValidated ==
  Undisturbed => \A c \in ExecutorCommits :
    /\ commits[c].checked # NoTree
    /\ \A f \in ChangedBy(c) : commits[c].tree[f] = commits[c].checked[f]

\* In a clone nobody else uses, a push that is reported has left on origin the very
\* commit it names, if its own request waives nothing and names no commit: whatever the
\* pushes before it asked for, and whatever commit the push gate was told.  Once a git
\* call failed or timed out there may be later ones on top: a commit whose report was
\* lost goes out with the next push, under the name of the one reported before it.
PushReportsWhatItPushed ==
  [][(/\ meddled = 0 /\ PushRunning /\ run.q.waived = {} /\ run.q.sha = 0
      /\ evidence'.push # evidence.push /\ evidence'.push.pushed)
       => LET there == remote[evidence'.push.remote_branch]
              named == evidence'.push.commit_sha IN
          named \in Ancestors[there] /\ (faults = 0 => named = there)]_vars

\* Origin's copy of a branch only ever holds commits made on that branch,
\* wherever HEAD is when git push runs.
RemoteHoldsOwnCommits ==
  \A b \in Branches : remote[b] # 0 => commits[remote[b]].on \in {b, "base"}

\* Nothing a caller waives or leaves out gets main pushed.
MainIsNeverPushed == [][remote'["main"] = remote["main"]]_vars

\* An executor run that fails after it changed the index or made a commit says
\* that it is partial; a failed run that is not partial left no trace.  (While
\* others switch branches at work, a commit can look as if none was made.)
FailureLeavesATrace ==
  [][(~Use.at_work /\ run # Idle /\ evidence'.commit # evidence.commit /\ touched)
       => evidence'.commit.committed \/ evidence'.commit.partial]_vars

\* Documented: clean commit executor evidence lets the push gate decide that a
\* push may proceed.
CleanCommitMayBePushed ==
  evidence.commit.committed
    => PG!Eligible(CHOOSE q \in Use.pushgate : q.waived = {}, evidence.commit,
                   CG!NoResult, NoValidation)
================================================================================
