------------------------- MODULE CommitDeliveryProofs -------------------------
(***************************************************************************)
(* Proofs about CommitDelivery, for every set of scenarios: whatever the   *)
(* callers ask of the stages, whatever they strip from the evidence and    *)
(* leave out, however often git fails and people meddle.                   *)
(***************************************************************************)
EXTENDS CommitDelivery, InductionFacts, SequenceTheorems, TLAPS

-----------------------------------------------------------------------------
(* Types. *)

Stages == {"patch", "validation", "gate", "commit", "pushgate", "push"}

CommitRecord ==
  [tree : Trees, parent : Nat, on : Branches \cup {"base"}, by : {"person", "executor"},
   checked : Trees \cup {NoTree}, basis : BOOLEAN]

\* What an executor at work has read, by its kind.
RunShape ==
  /\ run = Idle \/ CommitRunning \/ PushRunning
  /\ CommitRunning => DOMAIN run = {"at", "q", "g", "head", "staged"}
  /\ PushRunning => DOMAIN run = {"at", "q", "p", "e"}

\* A push under way names one branch, which is not main, on both sides.
PushInv ==
  PushRunning =>
    LET ref == PE!FinalPushRef(run.q, run.p) IN
    ref.from = ref.to /\ ref.to # "main"

TypeInv ==
  /\ branch \in Branches
  /\ tree \in Trees /\ index \in Trees
  /\ commits \in Seq(CommitRecord)
  /\ \A c \in 1 .. Len(commits) : commits[c].parent \in 0 .. c - 1
  /\ tip \in [Branches -> 1 .. Len(commits)]
  /\ remote \in [Branches -> 0 .. Len(commits)]
  /\ checked \in Trees \cup {NoTree}
  /\ touched \in BOOLEAN /\ basis \in BOOLEAN
  /\ edits \in Nat /\ patches \in Nat /\ meddled \in Nat
  /\ DOMAIN evidence = Stages
  /\ RunShape

\* Recording a result replaces that of its stage and no other.
LEMMA Recorded ==
  ASSUME DOMAIN evidence = Stages, NEW stage \in Stages, NEW result, Record(stage, result)
  PROVE  /\ DOMAIN evidence' = Stages
         /\ evidence'[stage] = result
         /\ \A other \in Stages \ {stage} : evidence'[other] = evidence[other]
BY DEF Record

\* A commit is added at the end; the tip of the branch checked out is the new one.
LEMMA Committed ==
  ASSUME TypeInv, NEW by \in {"person", "executor"}, NewCommit(by)
  PROVE  LET new == [tree |-> index, parent |-> tip[branch], on |-> branch, by |-> by,
                     checked |-> checked, basis |-> basis] IN
         /\ commits' \in Seq(CommitRecord)
         /\ Len(commits) \in Nat /\ Len(commits') = Len(commits) + 1
         /\ \A c \in 1 .. Len(commits) : commits'[c] = commits[c]
         /\ commits'[Len(commits) + 1] = new
         /\ tip' = [tip EXCEPT ![branch] = Len(commits) + 1]
         /\ tip[branch] \in 1 .. Len(commits)
<1> DEFINE new == [tree |-> index, parent |-> tip[branch], on |-> branch, by |-> by,
                   checked |-> checked, basis |-> basis]
<1>1. tip[branch] \in 1 .. Len(commits) /\ Len(commits) \in Nat
  BY DEF TypeInv
<1>2. new \in CommitRecord
  BY <1>1 DEF TypeInv, CommitRecord
<1>3. commits' = Append(commits, new) /\ tip' = [tip EXCEPT ![branch] = Len(commits) + 1]
  BY DEF NewCommit
<1> QED BY <1>1, <1>2, <1>3, AppendProperties DEF TypeInv

\* So the types of commits, tips and origin are kept.
LEMMA NewCommitType ==
  ASSUME TypeInv, NEW by \in {"person", "executor"}, NewCommit(by)
  PROVE  /\ commits' \in Seq(CommitRecord)
         /\ \A c \in 1 .. Len(commits') : commits'[c].parent \in 0 .. c - 1
         /\ tip' \in [Branches -> 1 .. Len(commits')]
         /\ remote \in [Branches -> 0 .. Len(commits')]
<1> DEFINE n == Len(commits)
<1>1. n \in Nat /\ Len(commits') = n + 1 /\ commits' \in Seq(CommitRecord)
  BY Committed
<1>2. ASSUME NEW c \in 1 .. n + 1 PROVE commits'[c].parent \in 0 .. c - 1
  <2>1. CASE c \in 1 .. n
    BY <2>1, Committed DEF TypeInv
  <2>2. CASE c = n + 1
    <3>1. commits'[c].parent = tip[branch] /\ tip[branch] \in 1 .. n
      BY <2>2, Committed
    <3> QED BY <1>1, <2>2, <3>1
  <2> QED BY <1>1, <2>1, <2>2
<1>3. tip' \in [Branches -> 1 .. n + 1] /\ remote \in [Branches -> 0 .. n + 1]
  <2>1. tip' = [tip EXCEPT ![branch] = n + 1]
    BY Committed
  <2> QED BY <1>1, <2>1 DEF TypeInv
<1> QED BY <1>1, <1>2, <1>3

\* The variables have their types at first.
LEMMA InitType == Init => TypeInv
<1> SUFFICES ASSUME Init PROVE TypeInv
  OBVIOUS
<1>1. tree \in Trees /\ index \in Trees
  BY DEF Init, Trees
<1>2. commits \in Seq(CommitRecord) /\ Len(commits) = 1 /\ commits[1].parent = 0
  <2> DEFINE base == [tree |-> tree, parent |-> 0, on |-> "base", by |-> "person",
                      checked |-> NoTree, basis |-> FALSE]
  <2>1. commits = << base >>
    BY DEF Init
  <2>2. base \in CommitRecord /\ base.parent = 0
    BY <1>1 DEF CommitRecord
  <2> HIDE DEF base
  <2>3. << base >> \in Seq(CommitRecord) /\ Len(<< base >>) = 1 /\ << base >>[1] = base
    BY <2>2
  <2> QED BY <2>1, <2>2, <2>3
<1>3. DOMAIN evidence = Stages
  BY DEF Init, Stages
<1>4. RunShape
  BY DEF Init, RunShape, Idle, CommitRunning, PushRunning
<1>5. \A c \in 1 .. Len(commits) : commits[c].parent \in 0 .. c - 1
  BY <1>2
<1>6. tip \in [Branches -> 1 .. Len(commits)] /\ remote \in [Branches -> 0 .. Len(commits)]
  BY <1>2 DEF Init
<1> QED BY <1>1, <1>2, <1>3, <1>4, <1>5, <1>6 DEF Init, TypeInv, Branches

\* An executor that reports leaves the rest alone, and is idle again.
LEMMA Finished ==
  ASSUME DOMAIN evidence = Stages, NEW outcome, NEW sha, NEW staged, NEW attempted,
         NEW contacted,
         \/ FinishCommit(outcome, sha, staged, attempted)
         \/ FinishPush(outcome, attempted, contacted)
  PROVE  DOMAIN evidence' = Stages /\ run' = Idle
BY Recorded DEF FinishCommit, FinishPush, Stages

\* Steps that leave the repository and the validated tree alone.
LEMMA TypeSame ==
  ASSUME TypeInv, UNCHANGED << repository, checked >>,
         basis' \in BOOLEAN, touched' \in BOOLEAN,
         edits' \in Nat, patches' \in Nat, meddled' \in Nat,
         DOMAIN evidence' = Stages, RunShape'
  PROVE  TypeInv'
BY DEF TypeInv, repository

\* An idle executor has the shape it should.
LEMMA IdleShape ==
  /\ run = Idle => RunShape /\ ~CommitRunning /\ ~PushRunning
  /\ run' = Idle => RunShape' /\ ~CommitRunning' /\ ~PushRunning'
BY DEF RunShape, Idle, CommitRunning, PushRunning

\* A step of an executor that goes on keeps the shape of its run.
LEMMA MovedShape ==
  ASSUME RunShape, NEW at,
         \/ CommitRunning /\ at \in {"commit:branch", "commit:head", "commit:status",
                                     "commit:commit", "commit:confirm"}
         \/ PushRunning /\ at \in {"push:branch", "push:push", "push:confirm"},
         \/ run' = [run EXCEPT !.at = at]
         \/ CommitRunning /\ \E x : run' = [run EXCEPT !.at = at, !.head = x]
         \/ CommitRunning /\ \E x : run' = [run EXCEPT !.at = at, !.staged = x]
  PROVE  RunShape' /\ run'.at = at /\ (CommitRunning' <=> CommitRunning)
         /\ (PushRunning' <=> PushRunning)
<1>1. "at" \in DOMAIN run /\ (CommitRunning => {"head", "staged"} \subseteq DOMAIN run)
  BY DEF RunShape
<1>2. DOMAIN run' = DOMAIN run /\ run'.at = at
  <2>1. CASE run' = [run EXCEPT !.at = at]
    BY <1>1, <2>1
  <2>2. ASSUME NEW x, run' = [run EXCEPT !.at = at, !.head = x]
        PROVE  DOMAIN run' = DOMAIN run /\ run'.at = at
    BY <1>1, <2>2
  <2>3. ASSUME NEW x, run' = [run EXCEPT !.at = at, !.staged = x]
        PROVE  DOMAIN run' = DOMAIN run /\ run'.at = at
    BY <1>1, <2>3
  <2> QED BY <2>1, <2>2, <2>3
<1>3. /\ CommitRunning => CommitRunning' /\ ~PushRunning'
      /\ PushRunning => PushRunning' /\ ~CommitRunning'
  BY <1>2 DEF CommitRunning, PushRunning
<1>4. CommitRunning => ~PushRunning
  BY DEF CommitRunning, PushRunning
<1> QED BY <1>2, <1>3, <1>4 DEF RunShape

\* Steps before the executors: the patch, its validation and the gates.
LEMMA EvidenceType ==
  ASSUME TypeInv, ApplyPatch \/ Validate \/ EvaluateCommitGate \/ EvaluatePushGate
  PROVE  TypeInv'
<1> USE DEF repository, bounds
<1>1. CASE ApplyPatch
  <2>p. PICK files \in SUBSET {f \in Use.files : Kind[f] = "plain"} \ {{}} :
          /\ tree' = [f \in Files |-> IF f \in files THEN edits' ELSE tree[f]]
          /\ evidence' = [evidence EXCEPT !.patch = Applied(files), !.validation = NoValidation]
    BY <1>1 DEF ApplyPatch
  <2>1. tree' \in Trees /\ edits' \in Nat /\ patches' \in Nat
    <3>1. edits' \in Nat /\ patches' \in Nat
      <4>1. edits' = edits + 1 /\ patches' = patches + 1
        BY <1>1, Zenon DEF ApplyPatch
      <4> QED BY <4>1 DEF TypeInv
    <3> QED BY <2>p, <3>1 DEF TypeInv, Trees
  <2>2. DOMAIN evidence' = Stages
    BY <2>p DEF TypeInv
  <2>3. RunShape'
    BY <1>1, IdleShape DEF ApplyPatch
  <2> QED BY <1>1, <2>1, <2>2, <2>3 DEF ApplyPatch, TypeInv
<1>2. CASE Validate
  <2>1. DOMAIN evidence' = Stages /\ RunShape'
    BY <1>2, Recorded, IdleShape DEF Validate, TypeInv, Stages
  <2>2. checked' \in Trees \cup {NoTree}
    BY <1>2 DEF Validate, TypeInv
  <2> QED BY <1>2, <2>1, <2>2 DEF Validate, TypeInv
<1>3. CASE EvaluateCommitGate
  <2>1. DOMAIN evidence' = Stages /\ RunShape'
    BY <1>3, Recorded, IdleShape DEF EvaluateCommitGate, TypeInv, Stages
  <2>2. basis' \in BOOLEAN
    BY <1>3, Zenon DEF EvaluateCommitGate
  <2> QED BY <1>3, <2>1, <2>2, TypeSame DEF EvaluateCommitGate, TypeInv
<1>4. CASE EvaluatePushGate
  <2>1. DOMAIN evidence' = Stages /\ RunShape'
    BY <1>4, Recorded, IdleShape DEF EvaluatePushGate, TypeInv, Stages
  <2> QED BY <1>4, <2>1, TypeSame DEF EvaluatePushGate, TypeInv
<1> QED BY <1>1, <1>2, <1>3, <1>4

\* The commit executor's steps.
LEMMA CommitType ==
  ASSUME TypeInv,
         \/ StartCommit \/ VerifyCommitBranch \/ ReadHead \/ StageFiles \/ Commit
         \/ ConfirmCommit
  PROVE  TypeInv'
<1> USE DEF repository, bounds
<1>0. RunShape /\ DOMAIN evidence = Stages
  BY DEF TypeInv
<1>1. CASE StartCommit
  <2>1. DOMAIN evidence' = Stages /\ RunShape'
    <3>1. CASE run' = run /\ \E r : Record("commit", r)
      BY <1>0, <1>1, <3>1, IdleShape, Recorded DEF StartCommit, Stages
    <3>2. CASE /\ UNCHANGED evidence
               /\ \E q, g : run' = [at |-> "commit:branch", q |-> q, g |-> g, head |-> 0,
                                    staged |-> {}]
      BY <1>0, <3>2 DEF RunShape, CommitRunning, PushRunning
    <3> QED BY <1>1, <3>1, <3>2 DEF StartCommit
  <2> QED BY <1>1, <2>1, TypeSame DEF StartCommit, TypeInv
<1>2. CASE VerifyCommitBranch
  <2>1. CommitRunning
    BY <1>2 DEF VerifyCommitBranch, CommitRunning
  <2>2. DOMAIN evidence' = Stages /\ RunShape'
    BY <1>0, <1>2, <2>1, Finished, IdleShape, MovedShape DEF VerifyCommitBranch
  <2> QED BY <1>2, <2>2, TypeSame DEF VerifyCommitBranch, TypeInv
<1>3. CASE ReadHead
  <2>1. CommitRunning
    BY <1>3 DEF ReadHead, CommitRunning
  <2>2. RunShape'
    BY <1>0, <1>3, <2>1, MovedShape DEF ReadHead
  <2> QED BY <1>3, <1>0, <2>2, TypeSame DEF ReadHead, TypeInv
<1>4. CASE StageFiles
  <2>1. CommitRunning
    BY <1>4 DEF StageFiles, CommitRunning
  <2>2. DOMAIN evidence' = Stages /\ RunShape'
    <3>1. CASE StagedCandidates = {}
      BY <1>0, <1>4, <3>1, Finished, IdleShape DEF StageFiles
    <3>2. CASE StagedCandidates # {}
      <4>1. UNCHANGED evidence /\ \E x : run' = [run EXCEPT !.at = "commit:commit", !.staged = x]
        BY <1>4, <3>2 DEF StageFiles
      <4> QED BY <1>0, <4>1, <2>1, MovedShape
    <3> QED BY <3>1, <3>2
  <2>3. index' \in Trees /\ touched' \in BOOLEAN
    BY <1>4 DEF StageFiles, TypeInv, Trees
  <2> QED BY <1>4, <2>2, <2>3 DEF StageFiles, TypeInv
<1>5. CASE Commit
  <2>1. CommitRunning
    BY <1>5 DEF Commit, CommitRunning
  <2>2. DOMAIN evidence' = Stages /\ RunShape'
    BY <1>0, <1>5, <2>1, Finished, IdleShape, MovedShape DEF Commit
  <2>3. CASE UNCHANGED << commits, tip >>
    BY <1>5, <2>2, <2>3 DEF Commit, TypeInv
  <2>4. CASE NewCommit("executor")
    <3>1. /\ commits' \in Seq(CommitRecord)
          /\ \A c \in 1 .. Len(commits') : commits'[c].parent \in 0 .. c - 1
          /\ tip' \in [Branches -> 1 .. Len(commits')]
          /\ remote \in [Branches -> 0 .. Len(commits')]
      BY <2>4, NewCommitType
    <3> QED BY <1>5, <2>2, <3>1 DEF Commit, TypeInv
  <2> QED BY <1>5, <2>3, <2>4 DEF Commit
<1>6. CASE ConfirmCommit
  <2>1. DOMAIN evidence' = Stages /\ RunShape'
    BY <1>0, <1>6, Finished, IdleShape DEF ConfirmCommit
  <2> QED BY <1>6, <2>1, TypeSame DEF ConfirmCommit, TypeInv
<1> QED BY <1>1, <1>2, <1>3, <1>4, <1>5, <1>6

\* The push executor's steps.
LEMMA PushType ==
  ASSUME TypeInv, PushInv, StartPush \/ VerifyPushBranch \/ Push \/ ConfirmPush
  PROVE  TypeInv'
<1> USE DEF repository, bounds
<1>0. RunShape /\ DOMAIN evidence = Stages
  BY DEF TypeInv
<1>1. CASE StartPush
  <2>1. DOMAIN evidence' = Stages /\ RunShape'
    <3>1. CASE run' = run /\ \E r : Record("push", r)
      BY <1>0, <1>1, <3>1, IdleShape, Recorded DEF StartPush, Stages
    <3>2. CASE /\ UNCHANGED evidence
               /\ \E q, p, e : run' = [at |-> "push:branch", q |-> q, p |-> p, e |-> e]
      BY <1>0, <3>2 DEF RunShape, CommitRunning, PushRunning
    <3> QED BY <1>1, <3>1, <3>2 DEF StartPush
  <2> QED BY <1>1, <2>1, TypeSame DEF StartPush, TypeInv
<1>2. CASE VerifyPushBranch
  <2>1. PushRunning
    BY <1>2 DEF VerifyPushBranch, PushRunning
  <2>2. DOMAIN evidence' = Stages /\ RunShape'
    BY <1>0, <1>2, <2>1, Finished, IdleShape, MovedShape DEF VerifyPushBranch
  <2> QED BY <1>2, <2>2, TypeSame DEF VerifyPushBranch, TypeInv
<1>3. CASE Push
  <2>1. PushRunning
    BY <1>3 DEF Push, PushRunning
  <2>2. RunShape'
    BY <1>0, <1>3, <2>1, MovedShape DEF Push
  <2> DEFINE ref == PE!FinalPushRef(run.q, run.p)
  <2>3. remote' = [remote EXCEPT ![ref.to] = tip[ref.from]]
    BY <1>3 DEF Push
  <2>4. ref.to \in Branches => ref.from \in Branches
    BY <2>1 DEF PushInv
  <2>5. remote' \in [Branches -> 0 .. Len(commits)]
    <3>1. remote \in [Branches -> 0 .. Len(commits)] /\ tip \in [Branches -> 1 .. Len(commits)]
      BY DEF TypeInv
    <3>2. ASSUME NEW to, NEW from, to \in Branches => from \in Branches,
                 remote' = [remote EXCEPT ![to] = tip[from]]
          PROVE  remote' \in [Branches -> 0 .. Len(commits)]
      <4> DEFINE n == Len(commits)
      <4>1. n \in Nat
        BY DEF TypeInv
      <4>2. remote \in [Branches -> 0 .. n] /\ (to \in Branches => tip[from] \in 0 .. n)
        BY <3>1, <3>2, <4>1
      <4> HIDE DEF n
      <4>3. remote' \in [Branches -> 0 .. n]
        BY <3>2, <4>2
      <4> QED BY <4>3 DEF n
    <3> QED BY <2>3, <2>4, <3>2
  <2> QED BY <1>3, <2>2, <2>5 DEF Push, TypeInv
<1>4. CASE ConfirmPush
  <2>1. DOMAIN evidence' = Stages /\ RunShape'
    BY <1>0, <1>4, Finished, IdleShape DEF ConfirmPush
  <2> QED BY <1>4, <2>1, TypeSame DEF ConfirmPush, TypeInv
<1> QED BY <1>1, <1>2, <1>3, <1>4

\* What goes wrong with git, and what other people do.
LEMMA WorldType ==
  ASSUME TypeInv, GitFails \/ GitTimesOut \/ Meddle
  PROVE  TypeInv'
<1> USE DEF repository, bounds
<1>0. RunShape /\ DOMAIN evidence = Stages
  BY DEF TypeInv
<1>1. CASE GitFails
  <2>1. DOMAIN evidence' = Stages /\ RunShape'
    BY <1>0, <1>1, Finished, IdleShape DEF GitFails
  <2> QED BY <1>1, <2>1, TypeSame DEF GitFails, TypeInv
<1>2. CASE GitTimesOut
  <2>1. RunShape'
    BY <1>2, IdleShape DEF GitTimesOut
  <2> QED BY <1>0, <1>2, <2>1, TypeSame DEF GitTimesOut, TypeInv
<1>3. CASE Meddle
  <2>1. /\ UNCHANGED << remote, evidence, checked, basis, run, touched, patches >>
        /\ RunShape' /\ meddled' \in Nat
    <3>1. UNCHANGED << remote, evidence, checked, basis, run, touched, patches >>
      BY <1>3 DEF Meddle
    <3>2. RunShape'
      BY <1>0, <3>1 DEF RunShape, CommitRunning, PushRunning
    <3>3. meddled' = meddled + 1
      BY <1>3 DEF Meddle
    <3> QED BY <3>1, <3>2, <3>3 DEF TypeInv
  <2>2. ASSUME NEW f \in Files, EditFile(f) PROVE TypeInv'
    <3>1. edits' \in Nat /\ tree' \in Trees
      BY <2>2 DEF EditFile, TypeInv, Trees
    <3> QED BY <2>1, <2>2, <3>1 DEF EditFile, TypeInv
  <2>3. ASSUME NEW f \in Files, StageFile(f) PROVE TypeInv'
    <3>1. index' \in Trees
      BY <2>3 DEF StageFile, TypeInv, Trees
    <3> QED BY <2>1, <2>3, <3>1 DEF StageFile, TypeInv
  <2>4. ASSUME NEW b \in Branches, Checkout(b) PROVE TypeInv'
    <3>1. Content(b) \in Trees
      <4>1. tip[b] \in 1 .. Len(commits) /\ commits \in Seq(CommitRecord)
        BY <2>4 DEF TypeInv
      <4>2. commits[tip[b]] \in CommitRecord
        BY <4>1, ElementOfSeq
      <4> QED BY <4>2 DEF Content, CommitRecord
    <3>2. tree' \in Trees /\ index' \in Trees
      BY <2>4, <3>1 DEF Checkout, TypeInv, Trees
    <3> QED BY <2>1, <2>4, <3>2 DEF Checkout, TypeInv
  <2>5. CASE NewCommit("person") /\ UNCHANGED << branch, tree, index, edits >>
    <3>1. /\ commits' \in Seq(CommitRecord)
          /\ \A c \in 1 .. Len(commits') : commits'[c].parent \in 0 .. c - 1
          /\ tip' \in [Branches -> 1 .. Len(commits')]
          /\ remote \in [Branches -> 0 .. Len(commits')]
      BY <2>5, NewCommitType
    <3> QED BY <2>1, <2>5, <3>1 DEF TypeInv
  <2> QED BY <1>3, <2>2, <2>3, <2>4, <2>5 DEF Meddle
<1> QED BY <1>1, <1>2, <1>3

-----------------------------------------------------------------------------
(* Pushes. *)

\* What the push executor does not refuse names one branch, and not main.
LEMMA PushNames ==
  ASSUME NEW q, NEW p, NEW e, ~PE!Blocked(q, p, e)
  PROVE  LET ref == PE!FinalPushRef(q, p) IN ref.from = ref.to /\ ref.to # "main"
BY DEF PE!Blocked, PE!RemoteBlocks, PE!FinalPushRef, PE!BranchNameSafe

\* Whatever is asked of it, the executor only starts with such a push.
LEMMA NextPush ==
  ASSUME TypeInv, PushInv, Next
  PROVE  PushInv'
<1> USE DEF repository, bounds
<1>0. RunShape
  BY DEF TypeInv
<1>i. ASSUME run' = Idle \/ CommitRunning' PROVE PushInv'
  BY <1>i DEF PushInv, Idle, PushRunning, CommitRunning
<1>s. ASSUME UNCHANGED run PROVE PushInv'
  BY <1>s DEF PushInv, PushRunning
<1>m. ASSUME NEW at, PushRunning, run' = [run EXCEPT !.at = at] PROVE PushInv'
  <2>1. run'.q = run.q /\ run'.p = run.p
    BY <1>0, <1>m DEF RunShape
  <2> QED BY <1>m, <2>1 DEF PushInv
<1>1. CASE ApplyPatch \/ Validate \/ EvaluateCommitGate \/ EvaluatePushGate \/ Meddle
  BY <1>1, <1>s DEF ApplyPatch, Validate, EvaluateCommitGate, EvaluatePushGate, Meddle
<1>2. CASE StartCommit
  <2>1. \/ UNCHANGED run
        \/ \E q, g : run' = [at |-> "commit:branch", q |-> q, g |-> g, head |-> 0,
                             staged |-> {}]
    BY <1>2 DEF StartCommit
  <2>2. UNCHANGED run \/ run'.at = "commit:branch"
    BY <2>1
  <2> QED BY <2>2, <1>s, <1>i DEF CommitRunning
<1>3. CASE VerifyCommitBranch \/ ReadHead \/ StageFiles \/ Commit \/ ConfirmCommit
  <2>1. CommitRunning /\ TypeInv'
    BY <1>3, CommitType DEF VerifyCommitBranch, ReadHead, StageFiles, Commit, ConfirmCommit,
                            CommitRunning
  <2>2. CASE VerifyCommitBranch
    BY <1>0, <1>i, <2>1, <2>2, MovedShape DEF VerifyCommitBranch, FinishCommit
  <2>3. CASE ReadHead
    BY <1>0, <1>i, <2>1, <2>3, MovedShape DEF ReadHead
  <2>4. CASE StageFiles
    <3>1. \/ run' = Idle
          \/ \E x : run' = [run EXCEPT !.at = "commit:commit", !.staged = x]
      BY <2>4 DEF StageFiles, FinishCommit
    <3> QED BY <1>0, <1>i, <2>1, <3>1, MovedShape
  <2>5. CASE Commit
    BY <1>0, <1>i, <2>1, <2>5, MovedShape DEF Commit, FinishCommit
  <2>6. CASE ConfirmCommit
    BY <1>i, <2>6 DEF ConfirmCommit, FinishCommit
  <2> QED BY <1>3, <2>2, <2>3, <2>4, <2>5, <2>6
<1>4. CASE StartPush
  <2>1. CASE UNCHANGED run
    BY <2>1, <1>s
  <2>2. ASSUME NEW q, NEW p, NEW e, ~PE!Blocked(q, p, e),
               run' = [at |-> "push:branch", q |-> q, p |-> p, e |-> e]
        PROVE  PushInv'
    <3>1. run'.q = q /\ run'.p = p
      BY <2>2
    <3> QED BY <2>2, <3>1, PushNames DEF PushInv
  <2> QED BY <1>4, <2>1, <2>2 DEF StartPush
<1>5. CASE VerifyPushBranch \/ Push
  BY <1>5, <1>i, <1>m DEF VerifyPushBranch, Push, FinishPush, PushRunning
<1>6. CASE ConfirmPush \/ GitFails \/ GitTimesOut
  BY <1>6, <1>i DEF ConfirmPush, GitFails, GitTimesOut, FinishPush, FinishCommit
<1> QED BY <1>1, <1>2, <1>3, <1>4, <1>5, <1>6 DEF Next

\* The types and the pushes under way, throughout.
THEOREM Invariance == Spec => [](TypeInv /\ PushInv)
<1>1. Init => PushInv
  BY DEF Init, PushInv, Idle, PushRunning
<1>2. TypeInv /\ PushInv /\ [Next]_vars => TypeInv' /\ PushInv'
  <2>1. CASE Next
    BY <2>1, EvidenceType, CommitType, PushType, WorldType, NextPush DEF Next
  <2>2. CASE UNCHANGED vars
    BY <2>2 DEF vars, repository, bounds, TypeInv, PushInv, RunShape, CommitRunning,
                PushRunning
  <2> QED BY <2>1, <2>2
<1> QED BY InitType, <1>1, <1>2, PTL DEF Spec

\* The variables keep their types.
THEOREM TypeCorrect == Spec => []TypeOK
<1>1. TypeInv => TypeOK
  <2> SUFFICES ASSUME TypeInv, NEW c \in 1 .. Len(commits)
               PROVE  commits[c].tree \in Trees
    BY DEF TypeInv, TypeOK, RunShape
  <2>1. commits[c] \in CommitRecord
    BY ElementOfSeq DEF TypeInv
  <2> QED BY <2>1 DEF CommitRecord
<1> QED BY <1>1, Invariance, PTL

\* Nothing that is asked of the push executor, waived, stripped or left out, gets
\* main pushed (_remote_blocks of push_executor.py).
THEOREM MainStays == Spec => MainIsNeverPushed
<1>1. TypeInv /\ PushInv /\ [Next]_vars => remote'["main"] = remote["main"]
  <2> SUFFICES ASSUME TypeInv, PushInv, Push PROVE remote'["main"] = remote["main"]
    BY DEF Next, vars, repository, bounds, ApplyPatch, Validate, EvaluateCommitGate,
           EvaluatePushGate, StartCommit, VerifyCommitBranch, ReadHead, StageFiles, Commit,
           ConfirmCommit, StartPush, VerifyPushBranch, ConfirmPush, GitFails, GitTimesOut,
           Meddle
  <2> DEFINE ref == PE!FinalPushRef(run.q, run.p)
  <2>1. remote' = [remote EXCEPT ![ref.to] = tip[ref.from]] /\ PushRunning
    BY DEF Push, PushRunning
  <2>2. ref.to # "main"
    BY <2>1 DEF PushInv
  <2> HIDE DEF ref
  <2> QED BY <2>1, <2>2 DEF TypeInv, Branches
<1> QED BY <1>1, Invariance, PTL DEF Spec, MainIsNeverPushed

-----------------------------------------------------------------------------
(* Branches. *)

\* A tip is a commit made on its branch, or the base; and so is what origin has.
OwnInv ==
  /\ \A b \in Branches : commits[tip[b]].on \in {b, "base"}
  /\ RemoteHoldsOwnCommits

\* Steps that leave commits, tips and origin alone.
LEMMA OwnSame ==
  ASSUME OwnInv, UNCHANGED << commits, tip, remote >>
  PROVE  OwnInv'
BY DEF OwnInv, RemoteHoldsOwnCommits

\* A new commit belongs to the branch whose tip it becomes.
LEMMA OwnCommitted ==
  ASSUME TypeInv, OwnInv, NEW by \in {"person", "executor"}, NewCommit(by), UNCHANGED remote
  PROVE  OwnInv'
<1> DEFINE n == Len(commits)
<1>1. /\ n \in Nat /\ commits'[n + 1].on = branch
      /\ \A c \in 1 .. n : commits'[c] = commits[c]
      /\ tip' = [tip EXCEPT ![branch] = n + 1]
  BY Committed
<1>2. tip \in [Branches -> 1 .. n] /\ remote \in [Branches -> 0 .. n] /\ branch \in Branches
  BY DEF TypeInv
<1> HIDE DEF n
<1>3. ASSUME NEW b \in Branches PROVE commits'[tip'[b]].on \in {b, "base"}
  <2>1. CASE b = branch
    BY <2>1, <1>1, <1>2
  <2>2. CASE b # branch
    BY <2>2, <1>1, <1>2 DEF OwnInv
  <2> QED BY <2>1, <2>2
<1>4. ASSUME NEW b \in Branches, remote'[b] # 0 PROVE commits'[remote'[b]].on \in {b, "base"}
  BY <1>1, <1>2, <1>4 DEF OwnInv, RemoteHoldsOwnCommits
<1> QED BY <1>3, <1>4 DEF OwnInv, RemoteHoldsOwnCommits

\* Every step keeps each branch's commits to itself.
LEMMA NextOwn ==
  ASSUME TypeInv, PushInv, OwnInv, Next
  PROVE  OwnInv'
<1> USE DEF repository, bounds
<1>1. CASE ApplyPatch \/ Validate \/ EvaluateCommitGate \/ EvaluatePushGate
  BY <1>1, OwnSame DEF ApplyPatch, Validate, EvaluateCommitGate, EvaluatePushGate
<1>2. CASE StartCommit \/ VerifyCommitBranch \/ ReadHead \/ StageFiles \/ ConfirmCommit
  BY <1>2, OwnSame DEF StartCommit, VerifyCommitBranch, ReadHead, StageFiles, ConfirmCommit
<1>3. CASE Commit
  BY <1>3, OwnSame, OwnCommitted DEF Commit
<1>4. CASE StartPush \/ VerifyPushBranch \/ ConfirmPush \/ GitFails \/ GitTimesOut
  BY <1>4, OwnSame DEF StartPush, VerifyPushBranch, ConfirmPush, GitFails, GitTimesOut
<1>5. CASE Push
  <2> DEFINE ref == PE!FinalPushRef(run.q, run.p)
  <2>1. /\ remote' = [remote EXCEPT ![ref.to] = tip[ref.from]] /\ PushRunning
        /\ UNCHANGED << commits, tip >>
    BY <1>5 DEF Push, PushRunning
  <2>2. ref.from = ref.to
    BY <2>1 DEF PushInv
  <2>3. remote \in [Branches -> 0 .. Len(commits)]
    BY DEF TypeInv
  <2> HIDE DEF ref
  <2>4. ASSUME NEW b \in Branches PROVE remote'[b] = remote[b] \/ remote'[b] = tip[b]
    BY <2>1, <2>2, <2>3, <2>4
  <2> QED BY <2>1, <2>4 DEF OwnInv, RemoteHoldsOwnCommits
<1>6. CASE Meddle
  BY <1>6, OwnSame, OwnCommitted DEF Meddle, EditFile, StageFile, Checkout
<1> QED BY <1>1, <1>2, <1>3, <1>4, <1>5, <1>6 DEF Next

\* Wherever HEAD is when git push runs, origin's copy of a branch holds commits
\* made on that branch (the refspec of push_executor.py names both sides).
THEOREM OriginHoldsOwn == Spec => []RemoteHoldsOwnCommits
<1>1. Init => OwnInv
  BY DEF Init, OwnInv, RemoteHoldsOwnCommits, Branches
<1>2. TypeInv /\ PushInv /\ OwnInv /\ [Next]_vars => OwnInv'
  BY NextOwn, OwnSame DEF vars, repository
<1>3. OwnInv => RemoteHoldsOwnCommits
  BY DEF OwnInv
<1> QED BY <1>1, <1>2, <1>3, Invariance, PTL DEF Spec

-----------------------------------------------------------------------------
(* Commits. *)

\* A new commit is the executor's when the executor made it, and carries the
\* branch, the basis and the tree validated at that moment.
LEMMA ExecutorCommitted ==
  ASSUME TypeInv, NEW by \in {"person", "executor"}, NewCommit(by)
  PROVE  LET n == Len(commits) IN
         /\ n \in Nat
         /\ ExecutorCommits' = ExecutorCommits \cup IF by = "executor" THEN {n + 1} ELSE {}
         /\ ExecutorCommits \subseteq 1 .. n
         /\ \A c \in 1 .. n : commits'[c] = commits[c]
         /\ commits'[n + 1].on = branch /\ commits'[n + 1].basis = basis
<1> DEFINE n == Len(commits)
<1>1. /\ n \in Nat /\ Len(commits') = n + 1
      /\ \A c \in 1 .. n : commits'[c] = commits[c]
      /\ commits'[n + 1].by = by /\ commits'[n + 1].on = branch
      /\ commits'[n + 1].basis = basis
  BY Committed
<1>2. 1 .. n + 1 = (1 .. n) \cup {n + 1} /\ n + 1 \notin 1 .. n
  BY <1>1
<1> QED BY <1>1, <1>2 DEF ExecutorCommits

\* The shape the gate's input and result keep.
GateShape ==
  /\ {"success", "ready_for_commit"} \subseteq DOMAIN evidence.validation
  /\ "commit_eligible" \in DOMAIN evidence.gate

\* A validation that passed is of an applied patch; what the gate found eligible,
\* and what the executor is working on, was decided on such a validation.
BasisInv ==
  /\ GateShape
  /\ evidence.validation.success => evidence.patch.applied
  /\ evidence.gate.commit_eligible => basis
  /\ CommitRunning => basis
  /\ CommitsRestOnValidation

\* What a caller hands on says no more than what it was handed.
LEMMA HandedOn ==
  ASSUME NEW stage, NEW none, NEW field \in DOMAIN evidence[stage], field # "truth",
         NEW h \in Handed(stage, none)
  PROVE  h[field] = evidence[stage][field] \/ h = none
BY DEF Handed

\* Steps that leave the evidence the gate reads, its result and the commits alone.
LEMMA BasisSame ==
  ASSUME BasisInv, UNCHANGED << commits, basis >>,
         evidence'.validation = evidence.validation, evidence'.patch = evidence.patch,
         evidence'.gate = evidence.gate, CommitRunning' => CommitRunning
  PROVE  BasisInv'
BY DEF BasisInv, GateShape, CommitsRestOnValidation, ExecutorCommits

\* Every step keeps the basis of commits.
LEMMA NextBasis ==
  ASSUME TypeInv, PushInv, BasisInv, Next
  PROVE  BasisInv'
<1> USE DEF repository, bounds
<1>0. DOMAIN evidence = Stages /\ RunShape
  BY DEF TypeInv
<1>r. ASSUME NEW stage \in {"commit", "pushgate", "push"}, NEW result, Record(stage, result)
      PROVE  /\ evidence'.validation = evidence.validation /\ evidence'.patch = evidence.patch
             /\ evidence'.gate = evidence.gate
  BY <1>0, <1>r, Recorded DEF Stages
<1>i. run' = Idle => ~CommitRunning'
  BY IdleShape
<1>s. UNCHANGED run => (CommitRunning' <=> CommitRunning)
  BY DEF CommitRunning
<1>1. CASE ApplyPatch
  <2>1. PICK files : evidence' = [evidence EXCEPT !.patch = Applied(files),
                                                  !.validation = NoValidation]
    BY <1>1 DEF ApplyPatch
  <2>2. /\ evidence'.validation = NoValidation /\ evidence'.gate = evidence.gate
        /\ evidence'.patch = Applied(files)
    BY <1>0, <2>1 DEF Stages
  <2>3. /\ ~NoValidation.success
        /\ {"success", "ready_for_commit"} \subseteq DOMAIN NoValidation
    BY DEF NoValidation, Validated
  <2>4. UNCHANGED << commits, basis >> /\ ~CommitRunning'
    BY <1>1, IdleShape DEF ApplyPatch
  <2> QED BY <2>2, <2>3, <2>4 DEF BasisInv, GateShape, CommitsRestOnValidation, ExecutorCommits
<1>2. CASE Validate
  <2>1. PICK passed \in BOOLEAN : Record("validation", Validated(evidence.patch, passed))
    BY <1>2 DEF Validate
  <2>2. /\ evidence'.validation = Validated(evidence.patch, passed)
        /\ evidence'.gate = evidence.gate /\ evidence'.patch = evidence.patch
    BY <1>0, <2>1, Recorded DEF Stages
  <2>3. {"success", "ready_for_commit"} \subseteq DOMAIN Validated(evidence.patch, passed)
    BY DEF Validated
  <2>4. UNCHANGED << commits, basis >> /\ ~CommitRunning' /\ evidence.patch.applied
    BY <1>2, IdleShape DEF Validate
  <2> QED BY <2>2, <2>3, <2>4 DEF BasisInv, GateShape, CommitsRestOnValidation, ExecutorCommits
<1>3. CASE EvaluateCommitGate
  <2>1. PICK q \in Use.gate, v \in Handed("validation", NoValidation),
             a \in Handed("patch", NoPatch) : Record("gate", CG!Result(q, v, a, {}))
    BY <1>3 DEF EvaluateCommitGate
  <2>2. /\ evidence'.gate = CG!Result(q, v, a, {})
        /\ evidence'.validation = evidence.validation /\ evidence'.patch = evidence.patch
    BY <1>0, <2>1, Recorded DEF Stages
  <2>3. "commit_eligible" \in DOMAIN evidence'.gate
    BY <2>2 DEF CG!Result
  <2>4. ASSUME evidence'.gate.commit_eligible PROVE basis'
    <3>1. v.success
      BY <2>2, <2>4 DEF CG!Result, CG!Eligible, CG!ValidationPassed
    <3>2. v.success = evidence.validation.success \/ v = NoValidation
      BY <2>1, HandedOn DEF BasisInv, GateShape
    <3>3. ~NoValidation.success
      BY DEF NoValidation, Validated
    <3> QED BY <1>3, <3>1, <3>2, <3>3, Zenon DEF EvaluateCommitGate, BasisInv
  <2>5. UNCHANGED commits /\ ~CommitRunning'
    BY <1>3, IdleShape DEF EvaluateCommitGate
  <2> QED BY <2>2, <2>3, <2>4, <2>5 DEF BasisInv, GateShape, CommitsRestOnValidation,
                                        ExecutorCommits
<1>4. CASE EvaluatePushGate
  BY <1>4, <1>r, <1>s, BasisSame DEF EvaluatePushGate
<1>5. CASE StartCommit
  <2>1. PICK q \in Use.commit, g \in Handed("gate", CG!NoResult) :
          IF CE!Blocked(q, g) \/ q.mode = "dry_run"
          THEN (\E r : Record("commit", r)) /\ UNCHANGED run
          ELSE /\ run' = [at |-> "commit:branch", q |-> q, g |-> g, head |-> 0, staged |-> {}]
               /\ UNCHANGED evidence
    BY <1>5 DEF StartCommit
  <2>2. UNCHANGED << commits, basis >>
    BY <1>5 DEF StartCommit
  <2>3. CASE CE!Blocked(q, g) \/ q.mode = "dry_run"
    BY <1>r, <1>s, <2>1, <2>2, <2>3, BasisSame
  <2>4. CASE ~(CE!Blocked(q, g) \/ q.mode = "dry_run")
    <3>1. g.commit_eligible
      BY <2>4 DEF CE!Blocked
    <3>2. g.commit_eligible = evidence.gate.commit_eligible \/ g = CG!NoResult
      BY HandedOn DEF BasisInv, GateShape
    <3>3. ~CG!NoResult.commit_eligible
      BY DEF CG!NoResult
    <3>4. basis
      BY <3>1, <3>2, <3>3 DEF BasisInv
    <3> QED BY <2>1, <2>2, <2>4, <3>4 DEF BasisInv, GateShape, CommitsRestOnValidation,
                                          ExecutorCommits
  <2> QED BY <2>3, <2>4
<1>6. CASE VerifyCommitBranch \/ ReadHead \/ StageFiles \/ ConfirmCommit
  <2>1. CommitRunning /\ UNCHANGED << commits, basis >>
    BY <1>6 DEF VerifyCommitBranch, ReadHead, StageFiles, ConfirmCommit, CommitRunning
  <2>2. UNCHANGED evidence \/ \E r : Record("commit", r)
    BY <1>6 DEF VerifyCommitBranch, ReadHead, StageFiles, ConfirmCommit, FinishCommit
  <2> QED BY <1>r, <2>1, <2>2, BasisSame
<1>7. CASE Commit
  <2>1. CommitRunning /\ UNCHANGED basis
    BY <1>7 DEF Commit, CommitRunning
  <2>2. UNCHANGED evidence \/ \E r : Record("commit", r)
    BY <1>7 DEF Commit, FinishCommit
  <2>3. CASE UNCHANGED << commits, tip >>
    BY <1>r, <2>1, <2>2, <2>3, BasisSame
  <2>4. CASE NewCommit("executor")
    <3>1. CommitsRestOnValidation'
      BY <2>1, <2>4, ExecutorCommitted DEF BasisInv, CommitsRestOnValidation
    <3>2. /\ evidence'.validation = evidence.validation /\ evidence'.patch = evidence.patch
          /\ evidence'.gate = evidence.gate
      BY <1>r, <2>2
    <3> QED BY <2>1, <3>1, <3>2 DEF BasisInv, GateShape
  <2> QED BY <1>7, <2>3, <2>4 DEF Commit
<1>8. CASE StartPush
  <2>1. UNCHANGED << commits, basis >> /\ (UNCHANGED evidence \/ \E r : Record("push", r))
    BY <1>8 DEF StartPush
  <2>2. \/ UNCHANGED run
        \/ \E q, p, e : run' = [at |-> "push:branch", q |-> q, p |-> p, e |-> e]
    BY <1>8 DEF StartPush
  <2>3. CommitRunning' => CommitRunning
    BY <1>s, <2>2 DEF CommitRunning
  <2> QED BY <1>r, <2>1, <2>3, BasisSame
<1>9. CASE VerifyPushBranch \/ Push \/ ConfirmPush
  <2>1. PushRunning /\ UNCHANGED << commits, basis >>
    BY <1>9 DEF VerifyPushBranch, Push, ConfirmPush, PushRunning
  <2>2. UNCHANGED evidence \/ \E r : Record("push", r)
    BY <1>9 DEF VerifyPushBranch, Push, ConfirmPush, FinishPush
  <2>3. run' = Idle \/ \E at \in {"push:push", "push:confirm"} : run' = [run EXCEPT !.at = at]
    BY <1>9 DEF VerifyPushBranch, Push, ConfirmPush, FinishPush
  <2>4. ~CommitRunning'
    <3>1. CASE run' = Idle
      BY <1>i, <3>1
    <3>2. ASSUME NEW at \in {"push:push", "push:confirm"}, run' = [run EXCEPT !.at = at]
          PROVE  ~CommitRunning'
      <4>1. run'.at = at
        BY <1>0, <2>1, <3>2 DEF RunShape
      <4> QED BY <4>1 DEF CommitRunning
    <3> QED BY <2>3, <3>1, <3>2
  <2> QED BY <1>r, <2>1, <2>2, <2>4, BasisSame
<1>10. CASE GitFails \/ GitTimesOut
  <2>1. run' = Idle /\ UNCHANGED << commits, basis >>
    BY <1>10 DEF GitFails, GitTimesOut, FinishCommit, FinishPush
  <2>2. UNCHANGED evidence \/ \E stage \in {"commit", "push"} : \E r : Record(stage, r)
    BY <1>10 DEF GitFails, GitTimesOut, FinishCommit, FinishPush
  <2> QED BY <1>i, <1>r, <2>1, <2>2, BasisSame
<1>11. CASE Meddle
  <2>1. UNCHANGED << evidence, basis, run >>
    BY <1>11 DEF Meddle
  <2>2. CASE UNCHANGED commits
    BY <1>s, <2>1, <2>2, BasisSame
  <2>3. CASE NewCommit("person")
    <3>1. CommitsRestOnValidation'
      BY <2>3, ExecutorCommitted DEF BasisInv, CommitsRestOnValidation
    <3> QED BY <1>s, <2>1, <3>1 DEF BasisInv, GateShape
  <2> QED BY <1>11, <2>2, <2>3 DEF Meddle, EditFile, StageFile, Checkout
<1> QED BY <1>1, <1>2, <1>3, <1>4, <1>5, <1>6, <1>7, <1>8, <1>9, <1>10, <1>11 DEF Next

\* However much of the rest a caller waives, strips or leaves out, the executor
\* only commits what the gate decided on an applied patch whose validation passed
\* (the last test of commit_gate.py, the commit_eligible test of commit_executor.py).
THEOREM CommitsAreValidated == Spec => []CommitsRestOnValidation
<1>1. Init => BasisInv
  <2> SUFFICES ASSUME Init PROVE BasisInv
    OBVIOUS
  <2>1. /\ evidence.validation = NoValidation /\ evidence.gate = CG!NoResult
        /\ ~CommitRunning /\ Len(commits) = 1 /\ commits[1].by = "person"
    BY DEF Init, CommitRunning, Idle
  <2> QED BY <2>1 DEF BasisInv, GateShape, CommitsRestOnValidation, ExecutorCommits,
                      NoValidation, Validated, CG!NoResult
<1>2. TypeInv /\ PushInv /\ BasisInv /\ [Next]_vars => BasisInv'
  BY NextBasis, BasisSame DEF vars, repository, CommitRunning
<1>3. BasisInv => CommitsRestOnValidation
  BY DEF BasisInv
<1> QED BY <1>1, <1>2, <1>3, Invariance, PTL DEF Spec

-----------------------------------------------------------------------------
(* The branch a commit is made on. *)

\* Nobody waives the branch rule, or switches branches under an executor at work.
Guarded == ~Use.at_work /\ \A q \in Use.commit : Needs(q, "non_main_branch")

\* Past its check of the branch the executor is on the branch it checked.
BranchChecked == run.at \in {"commit:head", "commit:status", "commit:commit"}

\* So what it commits is not committed on main.
MainInv ==
  Guarded =>
    /\ CommitRunning => run.q \in Use.commit
    /\ BranchChecked => branch # "main"
    /\ \A c \in ExecutorCommits : commits[c].on # "main"

\* Steps that make no commit, and neither start the executor nor pass its check.
LEMMA MainSame ==
  ASSUME MainInv, UNCHANGED << scenario, commits >>,
         Guarded => UNCHANGED branch \/ ~BranchChecked',
         CommitRunning' => CommitRunning /\ run'.q = run.q,
         BranchChecked' => BranchChecked
  PROVE  MainInv'
BY DEF MainInv, Guarded, Use, ExecutorCommits

\* No step of a guarded scenario brings the executor onto main.
LEMMA NextMain ==
  ASSUME TypeInv, PushInv, MainInv, Next
  PROVE  MainInv'
<1> USE DEF repository, bounds
<1>0. RunShape
  BY DEF TypeInv
<1>i. run' = Idle => ~CommitRunning' /\ ~BranchChecked'
  BY DEF Idle, CommitRunning, BranchChecked
<1>s. UNCHANGED run => (CommitRunning' <=> CommitRunning) /\ (BranchChecked' <=> BranchChecked)
  BY DEF CommitRunning, BranchChecked
<1>q. ASSUME CommitRunning, NEW at,
             \/ run' = [run EXCEPT !.at = at]
             \/ \E x : run' = [run EXCEPT !.at = at, !.head = x]
             \/ \E x : run' = [run EXCEPT !.at = at, !.staged = x]
      PROVE  run'.q = run.q /\ run'.at = at
  <2>1. {"at", "q"} \subseteq DOMAIN run
    BY <1>0, <1>q DEF RunShape
  <2> QED BY <1>q, <2>1
<1>1. CASE ApplyPatch \/ Validate \/ EvaluateCommitGate \/ EvaluatePushGate
  <2>1. UNCHANGED << scenario, branch, commits, run >>
    BY <1>1 DEF ApplyPatch, Validate, EvaluateCommitGate, EvaluatePushGate
  <2> QED BY <1>s, <2>1, MainSame
<1>2. CASE StartCommit
  <2>1. UNCHANGED << scenario, branch, commits >>
    BY <1>2 DEF StartCommit
  <2>2. \/ UNCHANGED run
        \/ \E q \in Use.commit : \E g :
             run' = [at |-> "commit:branch", q |-> q, g |-> g, head |-> 0, staged |-> {}]
    BY <1>2 DEF StartCommit
  <2>3. CASE UNCHANGED run
    BY <1>s, <2>1, <2>3, MainSame
  <2>4. ASSUME NEW q \in Use.commit, NEW g,
               run' = [at |-> "commit:branch", q |-> q, g |-> g, head |-> 0, staged |-> {}]
        PROVE  MainInv'
    <3>1. run'.q = q /\ ~BranchChecked'
      BY <2>4 DEF BranchChecked
    <3> QED BY <2>1, <3>1 DEF MainInv, Guarded, Use, ExecutorCommits
  <2> QED BY <2>2, <2>3, <2>4
<1>3. CASE VerifyCommitBranch
  <2>1. CommitRunning /\ UNCHANGED << scenario, branch, commits >>
    BY <1>3 DEF VerifyCommitBranch, CommitRunning
  <2>2. CASE CE!VerifiedBranchBlocks(run.q, branch)
    BY <1>3, <1>i, <2>1, <2>2, MainSame DEF VerifyCommitBranch, FinishCommit
  <2>3. CASE ~CE!VerifiedBranchBlocks(run.q, branch)
    <3>1. run'.q = run.q
      BY <1>3, <1>q, <2>1, <2>3 DEF VerifyCommitBranch
    <3>2. Guarded => branch # "main"
      BY <2>1, <2>3 DEF CE!VerifiedBranchBlocks, CE!BranchBlocks, MainInv, Guarded, Needs,
                        CE!Needs
    <3> QED BY <2>1, <3>1, <3>2 DEF MainInv, Guarded, Use, ExecutorCommits
  <2> QED BY <2>2, <2>3
<1>4. CASE ReadHead
  <2>1. CommitRunning /\ BranchChecked /\ UNCHANGED << scenario, branch, commits >>
    BY <1>4 DEF ReadHead, CommitRunning, BranchChecked
  <2> QED BY <1>4, <1>q, <2>1, MainSame DEF ReadHead
<1>5. CASE StageFiles
  <2>1. CommitRunning /\ BranchChecked /\ UNCHANGED << scenario, branch, commits >>
    BY <1>5 DEF StageFiles, CommitRunning, BranchChecked
  <2>2. run' = Idle \/ \E x : run' = [run EXCEPT !.at = "commit:commit", !.staged = x]
    BY <1>5 DEF StageFiles, FinishCommit
  <2> QED BY <1>i, <1>q, <2>1, <2>2, MainSame
<1>6. CASE Commit
  <2>1. CommitRunning /\ BranchChecked /\ UNCHANGED << scenario, branch >>
    BY <1>6 DEF Commit, CommitRunning, BranchChecked
  <2>2. CASE UNCHANGED << commits, tip >> /\ run' = Idle
    BY <1>i, <2>1, <2>2, MainSame
  <2>3. CASE NewCommit("executor") /\ run' = [run EXCEPT !.at = "commit:confirm"]
    <3>1. run'.q = run.q /\ ~BranchChecked'
      <4>1. run'.q = run.q /\ run'.at = "commit:confirm"
        BY <1>q, <2>1, <2>3
      <4> QED BY <4>1 DEF BranchChecked
    <3>2. (Guarded' <=> Guarded) /\ (Guarded => run'.q \in Use'.commit)
      BY <2>1, <3>1 DEF MainInv, Guarded, Use
    <3> DEFINE n == Len(commits)
    <3>3. /\ ExecutorCommits' = ExecutorCommits \cup {n + 1} /\ ExecutorCommits \subseteq 1 .. n
          /\ \A d \in 1 .. n : commits'[d] = commits[d]
          /\ commits'[n + 1].on = branch
      BY <2>3, ExecutorCommitted
    <3> HIDE DEF n
    <3>4. ASSUME Guarded, NEW c \in ExecutorCommits' PROVE commits'[c].on # "main"
      BY <2>1, <3>3, <3>4 DEF MainInv
    <3> QED BY <3>1, <3>2, <3>4 DEF MainInv
  <2> QED BY <1>6, <2>2, <2>3 DEF Commit, FinishCommit
<1>7. CASE ConfirmCommit \/ GitFails \/ GitTimesOut
  <2>1. run' = Idle /\ UNCHANGED << scenario, branch, commits >>
    BY <1>7 DEF ConfirmCommit, GitFails, GitTimesOut, FinishCommit, FinishPush
  <2> QED BY <1>i, <2>1, MainSame
<1>8. CASE StartPush
  <2>1. UNCHANGED << scenario, branch, commits >>
    BY <1>8 DEF StartPush
  <2>2. \/ UNCHANGED run
        \/ \E q, p, e : run' = [at |-> "push:branch", q |-> q, p |-> p, e |-> e]
    BY <1>8 DEF StartPush
  <2>3. CASE UNCHANGED run
    BY <1>s, <2>1, <2>3, MainSame
  <2>4. CASE \E q, p, e : run' = [at |-> "push:branch", q |-> q, p |-> p, e |-> e]
    <3>1. ~CommitRunning' /\ ~BranchChecked'
      BY <2>4 DEF CommitRunning, BranchChecked
    <3> QED BY <2>1, <3>1, MainSame
  <2> QED BY <2>2, <2>3, <2>4
<1>9. CASE VerifyPushBranch \/ Push \/ ConfirmPush
  <2>1. PushRunning /\ UNCHANGED << scenario, branch, commits >>
    BY <1>9 DEF VerifyPushBranch, Push, ConfirmPush, PushRunning
  <2>2. run' = Idle \/ \E at \in {"push:push", "push:confirm"} : run' = [run EXCEPT !.at = at]
    BY <1>9 DEF VerifyPushBranch, Push, ConfirmPush, FinishPush
  <2>3. ~CommitRunning' /\ ~BranchChecked'
    <3>1. ASSUME NEW at \in {"push:push", "push:confirm"}, run' = [run EXCEPT !.at = at]
          PROVE  ~CommitRunning' /\ ~BranchChecked'
      <4>1. run'.at = at
        BY <1>0, <2>1, <3>1 DEF RunShape
      <4> QED BY <4>1 DEF CommitRunning, BranchChecked
    <3> QED BY <1>i, <2>2, <3>1
  <2> QED BY <2>1, <2>3, MainSame
<1>10. CASE Meddle
  <2>1. UNCHANGED << scenario, run >> /\ (Use.at_work \/ run = Idle)
    BY <1>10 DEF Meddle
  <2>2. Guarded => ~CommitRunning' /\ ~BranchChecked'
    BY <2>1 DEF Guarded, Idle, CommitRunning, BranchChecked
  <2>3. CASE UNCHANGED commits
    BY <1>s, <2>1, <2>2, <2>3, MainSame
  <2>4. CASE NewCommit("person")
    <3>1. ExecutorCommits' = ExecutorCommits /\ \A c \in ExecutorCommits : commits'[c] = commits[c]
      BY <2>4, ExecutorCommitted
    <3> QED BY <2>1, <2>2, <3>1 DEF MainInv, Guarded, Use
  <2> QED BY <1>10, <2>3, <2>4 DEF Meddle, EditFile, StageFile, Checkout
<1> QED BY <1>1, <1>2, <1>3, <1>4, <1>5, <1>6, <1>7, <1>8, <1>9, <1>10 DEF Next

\* However stale the branch a caller names, the executor never commits on main:
\* it goes by the branch git reports (commit_executor.py, after rev-parse).
THEOREM MainIsSpared == Spec => []NeverOnMain
<1>1. Init => MainInv
  <2> SUFFICES ASSUME Init PROVE MainInv
    OBVIOUS
  <2>1. ~CommitRunning /\ ~BranchChecked /\ Len(commits) = 1 /\ commits[1].by = "person"
    BY DEF Init, CommitRunning, BranchChecked, Idle
  <2> QED BY <2>1 DEF MainInv, ExecutorCommits
<1>2. TypeInv /\ PushInv /\ MainInv /\ [Next]_vars => MainInv'
  BY NextMain, MainSame DEF vars, repository, CommitRunning, BranchChecked
<1>3. MainInv => NeverOnMain
  BY DEF MainInv, Guarded, NeverOnMain
<1> QED BY <1>1, <1>2, <1>3, Invariance, PTL DEF Spec

-----------------------------------------------------------------------------
(* What a failed run says it left behind. *)

\* The commit executor has changed nothing until it stages, and what it has staged
\* it knows; with nobody else at work, the head it read is the tip until it commits.
TraceInv ==
  CommitRunning =>
    /\ run.at \in {"commit:branch", "commit:head", "commit:status"} => ~touched
    /\ run.at \in {"commit:commit", "commit:confirm"} => run.staged # {}
    /\ ~Use.at_work /\ run.at \in {"commit:status", "commit:commit"} => run.head = tip[branch]
    /\ ~Use.at_work /\ run.at = "commit:confirm" => run.head # tip[branch]

\* Every step keeps it.
LEMMA NextTrace ==
  ASSUME TypeInv, TraceInv, Next
  PROVE  TraceInv'
<1> USE DEF repository, bounds
<1>0. RunShape
  BY DEF TypeInv
<1>i. ~CommitRunning' => TraceInv'
  BY DEF TraceInv
<1>d. run' = Idle => ~CommitRunning'
  BY IdleShape
<1>1. CASE ApplyPatch \/ Validate \/ EvaluateCommitGate \/ EvaluatePushGate
  BY <1>1, <1>d, <1>i DEF ApplyPatch, Validate, EvaluateCommitGate, EvaluatePushGate
<1>2. CASE StartCommit
  <2>1. run = Idle /\ ~touched'
    BY <1>2 DEF StartCommit
  <2>2. \/ UNCHANGED run
        \/ \E q, g : run' = [at |-> "commit:branch", q |-> q, g |-> g, head |-> 0,
                             staged |-> {}]
    BY <1>2 DEF StartCommit
  <2>3. CASE \E q, g : run' = [at |-> "commit:branch", q |-> q, g |-> g, head |-> 0,
                               staged |-> {}]
    BY <2>1, <2>3 DEF TraceInv
  <2> QED BY <1>d, <1>i, <2>1, <2>2, <2>3
<1>3. CASE VerifyCommitBranch
  <2>1. CASE CE!VerifiedBranchBlocks(run.q, branch)
    BY <1>3, <1>d, <1>i, <2>1 DEF VerifyCommitBranch, FinishCommit
  <2>2. CASE ~CE!VerifiedBranchBlocks(run.q, branch)
    <3>1. CommitRunning /\ run.at = "commit:branch" /\ UNCHANGED touched
      BY <1>3 DEF VerifyCommitBranch, CommitRunning
    <3>2. run'.at = "commit:head"
      BY <1>0, <1>3, <2>2, <3>1 DEF VerifyCommitBranch, RunShape
    <3> QED BY <3>1, <3>2 DEF TraceInv
  <2> QED BY <2>1, <2>2
<1>4. CASE ReadHead
  <2>1. /\ CommitRunning /\ run.at = "commit:head" /\ UNCHANGED << touched, branch, tip >>
        /\ run' = [run EXCEPT !.at = "commit:status", !.head = tip[branch]]
    BY <1>4 DEF ReadHead, CommitRunning
  <2>2. run'.at = "commit:status" /\ run'.head = tip[branch]
    BY <1>0, <2>1 DEF RunShape
  <2> QED BY <2>1, <2>2 DEF TraceInv
<1>5. CASE StageFiles
  <2>1. CASE StagedCandidates = {}
    BY <1>5, <1>d, <1>i, <2>1 DEF StageFiles, FinishCommit
  <2>2. CASE StagedCandidates # {}
    <3>1. /\ CommitRunning /\ run.at = "commit:status" /\ UNCHANGED << scenario, branch, tip >>
          /\ run' = [run EXCEPT !.at = "commit:commit", !.staged = StagedCandidates]
      BY <1>5, <2>2 DEF StageFiles, CommitRunning
    <3>2. run'.at = "commit:commit" /\ run'.staged = StagedCandidates /\ run'.head = run.head
      BY <1>0, <3>1 DEF RunShape
    <3> QED BY <2>2, <3>1, <3>2 DEF TraceInv, Use
  <2> QED BY <2>1, <2>2
<1>6. CASE Commit
  <2>1. CASE run' = Idle
    BY <1>d, <1>i, <2>1
  <2>2. CASE NewCommit("executor") /\ run' = [run EXCEPT !.at = "commit:confirm"]
    <3>1. CommitRunning /\ run.at = "commit:commit" /\ UNCHANGED << scenario, branch >>
      BY <1>6 DEF Commit, CommitRunning
    <3>2. run'.at = "commit:confirm" /\ run'.staged = run.staged /\ run'.head = run.head
      BY <1>0, <2>2, <3>1 DEF RunShape
    <3>3. tip'[branch] # tip[branch]
      <4> DEFINE n == Len(commits)
      <4>1. n \in Nat /\ tip' = [tip EXCEPT ![branch] = n + 1] /\ tip[branch] \in 1 .. n
        BY <2>2, Committed
      <4>2. tip'[branch] = n + 1
        BY <4>1 DEF TypeInv
      <4> HIDE DEF n
      <4> QED BY <4>1, <4>2
    <3> QED BY <3>1, <3>2, <3>3 DEF TraceInv, Use
  <2> QED BY <1>6, <2>1, <2>2 DEF Commit, FinishCommit
<1>7. CASE ConfirmCommit \/ GitFails \/ GitTimesOut
  BY <1>7, <1>d, <1>i DEF ConfirmCommit, GitFails, GitTimesOut, FinishCommit, FinishPush
<1>8. CASE StartPush
  <2>1. run = Idle
    BY <1>8 DEF StartPush
  <2>2. \/ UNCHANGED run
        \/ \E q, p, e : run' = [at |-> "push:branch", q |-> q, p |-> p, e |-> e]
    BY <1>8 DEF StartPush
  <2>3. CASE \E q, p, e : run' = [at |-> "push:branch", q |-> q, p |-> p, e |-> e]
    BY <1>i, <2>3 DEF CommitRunning
  <2> QED BY <1>d, <1>i, <2>1, <2>2, <2>3
<1>9. CASE VerifyPushBranch \/ Push \/ ConfirmPush
  <2>1. PushRunning
    BY <1>9 DEF VerifyPushBranch, Push, ConfirmPush, PushRunning
  <2>2. run' = Idle \/ \E at \in {"push:push", "push:confirm"} : run' = [run EXCEPT !.at = at]
    BY <1>9 DEF VerifyPushBranch, Push, ConfirmPush, FinishPush
  <2>3. ASSUME NEW at \in {"push:push", "push:confirm"}, run' = [run EXCEPT !.at = at]
        PROVE  ~CommitRunning'
    <3>1. run'.at = at
      BY <1>0, <2>1, <2>3 DEF RunShape
    <3> QED BY <3>1 DEF CommitRunning
  <2> QED BY <1>d, <1>i, <2>2, <2>3
<1>10. CASE Meddle
  <2>1. UNCHANGED << scenario, run, touched >> /\ (Use.at_work \/ run = Idle)
    BY <1>10 DEF Meddle
  <2>2. CASE run = Idle
    BY <1>d, <1>i, <2>1, <2>2
  <2>3. CASE Use.at_work
    BY <2>1, <2>3 DEF TraceInv, CommitRunning, Use
  <2> QED BY <2>1, <2>2, <2>3
<1> QED BY <1>1, <1>2, <1>3, <1>4, <1>5, <1>6, <1>7, <1>8, <1>9, <1>10 DEF Next

\* A run of the commit executor that fails after it staged or committed says so
\* (partial_commit of commit_executor.py), unless others switch branches meanwhile.
THEOREM FailureIsTraced == Spec => FailureLeavesATrace
<1>1. Init => TraceInv
  BY DEF Init, TraceInv, Idle, CommitRunning
<1>2. TypeInv /\ PushInv /\ TraceInv /\ [Next]_vars => TraceInv'
  <2>1. UNCHANGED vars /\ TraceInv => TraceInv'
    BY DEF vars, repository, TraceInv, CommitRunning, Use
  <2> QED BY NextTrace, <2>1
<1>3. ASSUME TypeInv, TraceInv, Next,
             ~Use.at_work, run # Idle, evidence'.commit # evidence.commit, touched
      PROVE  evidence'.commit.committed \/ evidence'.commit.partial
  <2> USE DEF repository, bounds
  <2>0. RunShape /\ DOMAIN evidence = Stages
    BY <1>3 DEF TypeInv
  <2>r. ASSUME NEW outcome, NEW sha, NEW staged, NEW attempted,
               FinishCommit(outcome, sha, staged, attempted),
               outcome = "committed" \/ (outcome = "failed" /\ staged # {})
        PROVE  evidence'.commit.committed \/ evidence'.commit.partial
    <3>1. evidence'.commit = CE!Result(run.q, run.g, outcome, sha, staged, attempted)
      BY <2>0, <2>r, Recorded DEF FinishCommit, Stages
    <3>2. /\ CE!Result(run.q, run.g, outcome, sha, staged, attempted).committed
               = (outcome = "committed")
          /\ CE!Result(run.q, run.g, outcome, sha, staged, attempted).partial
               = (outcome = "failed" /\ staged # {})
      BY Zenon DEF CE!Result
    <3> HIDE DEF CE!Result
    <3> QED BY <2>r, <3>1, <3>2, Zenon
  <2>p. ASSUME NEW result, Record("push", result) PROVE FALSE
    BY <1>3, <2>0, <2>p, Recorded DEF Stages
  <2>1. CASE VerifyCommitBranch \/ StageFiles
    <3>1. CommitRunning /\ run.at \in {"commit:branch", "commit:status"}
      BY <2>1 DEF VerifyCommitBranch, StageFiles, CommitRunning
    <3> QED BY <1>3, <3>1 DEF TraceInv
  <2>2. CASE Commit
    <3>1. CommitRunning /\ run.at = "commit:commit"
      BY <2>2 DEF Commit, CommitRunning
    <3>2. FinishCommit("failed", 0, run.staged, TRUE)
      BY <1>3, <2>2 DEF Commit
    <3> QED BY <1>3, <2>r, <3>1, <3>2 DEF TraceInv
  <2>3. CASE ConfirmCommit
    <3>1. CommitRunning /\ run.at = "commit:confirm"
      BY <2>3 DEF ConfirmCommit, CommitRunning
    <3>2. tip[branch] # run.head
      BY <1>3, <3>1 DEF TraceInv
    <3>3. FinishCommit("committed", tip[branch], run.staged, TRUE)
      BY <2>3, <3>2 DEF ConfirmCommit
    <3> QED BY <2>r, <3>3
  <2>4. CASE GitFails
    <3>1. CASE CommitRunning /\ FinishCommit("failed", 0, run.staged, TRUE)
      <4>1. run.at \in {"commit:commit", "commit:confirm"}
        BY <1>3, <3>1 DEF TraceInv, CommitRunning
      <4> QED BY <1>3, <2>r, <3>1, <4>1 DEF TraceInv
    <3>2. CASE \E r : Record("push", r)
      BY <2>p, <3>2
    <3> QED BY <2>4, <3>1, <3>2 DEF GitFails, FinishPush
  <2>5. CASE VerifyPushBranch \/ Push \/ ConfirmPush
    <3>1. UNCHANGED evidence \/ \E r : Record("push", r)
      BY <2>5 DEF VerifyPushBranch, Push, ConfirmPush, FinishPush
    <3> QED BY <1>3, <2>p, <3>1
  <2>6. CASE ReadHead \/ GitTimesOut \/ Meddle
    BY <1>3, <2>6 DEF ReadHead, GitTimesOut, Meddle
  <2>7. CASE \/ ApplyPatch \/ Validate \/ EvaluateCommitGate \/ EvaluatePushGate
             \/ StartCommit \/ StartPush
    BY <1>3, <2>7 DEF ApplyPatch, Validate, EvaluateCommitGate, EvaluatePushGate, StartCommit,
                      StartPush
  <2> QED BY <1>3, <2>1, <2>2, <2>3, <2>4, <2>5, <2>6, <2>7 DEF Next
<1>4. TypeInv /\ TraceInv /\ [Next]_vars =>
        [(~Use.at_work /\ run # Idle /\ evidence'.commit # evidence.commit /\ touched)
           => evidence'.commit.committed \/ evidence'.commit.partial]_vars
  BY <1>3
<1> QED BY <1>1, <1>2, <1>4, Invariance, PTL DEF Spec, FailureLeavesATrace

-----------------------------------------------------------------------------
(* What is committed was validated. *)

\* What an executor commit changed is what was validated when it was made.
AsChecked(c) ==
  /\ commits[c].parent \in 1 .. c - 1
  /\ commits[c].checked # NoTree
  /\ \A f \in ChangedBy(c) : commits[c].tree[f] = commits[c].checked[f]

\* With one patch at most and nobody else in the clone: what the gate went by
\* was a validation of the tree as it is, and the index holds, file by file,
\* what the branch holds or what the tree holds.
ContentInv ==
  meddled = 0 /\ patches <= 1 =>
    /\ patches = 0 => ~evidence.patch.applied /\ ~basis
    /\ patches = 0 => \A f \in Files : index[f] = Content(branch)[f]
    /\ evidence.validation.success \/ basis => checked = tree
    /\ \A f \in Files : index[f] \in {Content(branch)[f], tree[f]}
    /\ \A c \in ExecutorCommits : AsChecked(c)

\* Steps that leave the repository and what was validated alone.
LEMMA ContentSame ==
  ASSUME ContentInv,
         UNCHANGED << branch, tree, index, commits, tip, checked, basis, patches, meddled >>,
         evidence'.patch = evidence.patch, evidence'.validation = evidence.validation
  PROVE  ContentInv'
BY DEF ContentInv, Content, ExecutorCommits, AsChecked, ChangedBy

\* A commit of the executor holds what was validated, and leaves the index as the
\* branch is.
LEMMA ContentCommitted ==
  ASSUME TypeInv, BasisInv, ContentInv, CommitRunning, NewCommit("executor"),
         UNCHANGED << branch, tree, index, checked, basis, patches, meddled, evidence >>
  PROVE  ContentInv'
<1> SUFFICES ASSUME meddled = 0, patches <= 1
             PROVE  /\ patches # 0 /\ checked = tree
                    /\ \A f \in Files : index[f] = Content(branch)'[f]
                    /\ \A c \in ExecutorCommits' : AsChecked(c)'
  BY DEF ContentInv
<1>n. PICK n : n = Len(commits)
  OBVIOUS
<1>1. patches # 0 /\ checked = tree
  BY DEF ContentInv, BasisInv
<1>2. /\ n \in Nat
      /\ \A c \in 1 .. n : commits'[c] = commits[c]
      /\ commits'[n + 1] = [tree |-> index, parent |-> tip[branch], on |-> branch,
                            by |-> "executor", checked |-> checked, basis |-> basis]
      /\ tip' = [tip EXCEPT ![branch] = n + 1]
      /\ tip[branch] \in 1 .. n
  BY <1>n, Committed
<1>3. ExecutorCommits' = ExecutorCommits \cup {n + 1} /\ ExecutorCommits \subseteq 1 .. n
  BY <1>n, ExecutorCommitted
<1>4. branch \in Branches /\ tip \in [Branches -> 1 .. n] /\ tree \in Trees /\ index \in Trees
  BY <1>n DEF TypeInv
<1>5. Content(branch)' = index
  <2>1. tip'[branch] = n + 1
    BY <1>2, <1>4
  <2> QED BY <1>2, <2>1 DEF Content
<1>6. AsChecked(n + 1)'
  <2>1. commits'[n + 1].parent = tip[branch] /\ commits'[n + 1].tree = index
        /\ commits'[n + 1].checked = tree
    BY <1>1, <1>2
  <2>2. commits'[tip[branch]] = commits[tip[branch]]
    BY <1>2
  <2>3. ChangedBy(n + 1)' = {f \in Files : index[f] # Content(branch)[f]}
    BY <2>1, <2>2 DEF ChangedBy, Content
  <2>4. \A f \in ChangedBy(n + 1)' : index[f] = tree[f]
    BY <2>3 DEF ContentInv
  <2>5. tree # NoTree
    <3>1. \E f : f \in Files
      <4>1. index # Content(branch)
        BY DEF NewCommit
      <4>2. Content(branch) \in Trees
        <5>1. commits[tip[branch]] \in CommitRecord
          BY <1>n, <1>2, ElementOfSeq DEF TypeInv
        <5> QED BY <5>1 DEF Content, CommitRecord
      <4> QED BY <1>4, <4>1, <4>2 DEF Trees
    <3>2. DOMAIN tree = Files /\ DOMAIN NoTree = {}
      BY <1>4 DEF Trees, NoTree
    <3> QED BY <3>1, <3>2
  <2>6. tip[branch] \in 1 .. (n + 1) - 1
    BY <1>2
  <2> QED BY <2>1, <2>4, <2>5, <2>6 DEF AsChecked
<1>7. ASSUME NEW c \in ExecutorCommits PROVE AsChecked(c)'
  <2>1. AsChecked(c) /\ c \in 1 .. n
    BY <1>3 DEF ContentInv
  <2>2. commits'[c] = commits[c] /\ commits[c].parent \in 1 .. n
    BY <1>2, <2>1 DEF AsChecked
  <2>3. commits'[commits[c].parent] = commits[commits[c].parent]
    BY <1>2, <2>2
  <2>4. ChangedBy(c)' = ChangedBy(c)
    <3>1. /\ commits'[c].tree = commits[c].tree
          /\ commits'[commits'[c].parent].tree = commits[commits[c].parent].tree
      BY <2>2, <2>3
    <3> QED BY <3>1 DEF ChangedBy
  <2> QED BY <2>1, <2>2, <2>4 DEF AsChecked
<1> QED BY <1>1, <1>3, <1>5, <1>6, <1>7

\* Every step keeps it.
LEMMA NextContent ==
  ASSUME TypeInv, BasisInv, ContentInv, Next
  PROVE  ContentInv'
<1> USE DEF repository, bounds
<1>0. DOMAIN evidence = Stages /\ RunShape /\ patches \in Nat /\ meddled \in Nat
  BY DEF TypeInv
<1>r. ASSUME NEW stage \in Stages \ {"patch", "validation"}, NEW result, Record(stage, result)
      PROVE  evidence'.validation = evidence.validation /\ evidence'.patch = evidence.patch
  BY <1>0, <1>r, Recorded DEF Stages
<1>1. CASE ApplyPatch
  <2>1. PICK files \in SUBSET {f \in Use.files : Kind[f] = "plain"} \ {{}} :
          /\ tree' = [f \in Files |-> IF f \in files THEN edits' ELSE tree[f]]
          /\ evidence' = [evidence EXCEPT !.patch = Applied(files),
                                          !.validation = NoValidation]
    BY <1>1 DEF ApplyPatch
  <2>2. ~evidence'.validation.success
    BY <1>0, <2>1 DEF Stages, NoValidation, Validated
  <2>3. UNCHANGED << branch, index, commits, tip, basis, meddled >> /\ patches' = patches + 1
    BY <1>1 DEF ApplyPatch
  <2> SUFFICES ASSUME meddled = 0, patches' <= 1 PROVE ContentInv'
    BY <2>3 DEF ContentInv
  <2>4. patches = 0 /\ patches' # 0
    BY <1>0, <2>3
  <2>5. ~basis /\ \A f \in Files : index[f] = Content(branch)[f]
    BY <2>4 DEF ContentInv
  <2>6. \A c \in ExecutorCommits' : AsChecked(c)'
    BY <2>3, <2>4 DEF ContentInv, ExecutorCommits, AsChecked, ChangedBy
  <2>7. Content(branch)' = Content(branch)
    BY <2>3 DEF Content
  <2> QED BY <2>2, <2>3, <2>4, <2>5, <2>6, <2>7 DEF ContentInv
<1>2. CASE Validate
  <2>1. PICK passed \in BOOLEAN :
          /\ Record("validation", Validated(evidence.patch, passed))
          /\ checked' = IF passed THEN tree ELSE checked
    BY <1>2 DEF Validate
  <2>2. /\ evidence'.validation = Validated(evidence.patch, passed)
        /\ evidence'.patch = evidence.patch
    BY <1>0, <2>1, Recorded DEF Stages
  <2>3. evidence'.validation.success = passed
    BY <2>2 DEF Validated
  <2>4. UNCHANGED << branch, tree, index, commits, tip, basis, patches, meddled >>
    BY <1>2 DEF Validate
  <2>5. (evidence'.validation.success \/ basis) /\ meddled = 0 /\ patches <= 1
          => checked' = tree
    BY <2>1, <2>3 DEF ContentInv
  <2> QED BY <2>2, <2>4, <2>5 DEF ContentInv, Content, ExecutorCommits, AsChecked, ChangedBy
<1>3. CASE EvaluateCommitGate
  <2>1. evidence'.validation = evidence.validation /\ evidence'.patch = evidence.patch
    BY <1>3, <1>r DEF EvaluateCommitGate, Stages
  <2>2. UNCHANGED << branch, tree, index, commits, tip, checked, patches, meddled >>
    BY <1>3 DEF EvaluateCommitGate
  <2>3. basis' => evidence.patch.applied /\ evidence.validation.success
    BY <1>3, Zenon DEF EvaluateCommitGate
  <2> QED BY <2>1, <2>2, <2>3 DEF ContentInv, Content, ExecutorCommits, AsChecked, ChangedBy
<1>4. CASE EvaluatePushGate
  BY <1>4, <1>r, ContentSame DEF EvaluatePushGate, Stages
<1>5. CASE StartCommit \/ VerifyCommitBranch \/ ReadHead \/ ConfirmCommit
  <2>1. UNCHANGED evidence \/ \E r : Record("commit", r)
    BY <1>5 DEF StartCommit, VerifyCommitBranch, ReadHead, ConfirmCommit, FinishCommit
  <2>2. UNCHANGED << branch, tree, index, commits, tip, checked, basis, patches, meddled >>
    BY <1>5 DEF StartCommit, VerifyCommitBranch, ReadHead, ConfirmCommit
  <2> QED BY <1>r, <2>1, <2>2, ContentSame DEF Stages
<1>6. CASE StageFiles
  <2>1. UNCHANGED evidence \/ \E r : Record("commit", r)
    BY <1>6 DEF StageFiles, FinishCommit
  <2>2. UNCHANGED << branch, tree, commits, tip, checked, basis, patches, meddled >>
    BY <1>6 DEF StageFiles
  <2>3. CASE UNCHANGED index
    BY <1>r, <2>1, <2>2, <2>3, ContentSame DEF Stages
  <2>4. CASE index' = [f \in Files |-> IF f \in StagedCandidates THEN tree[f] ELSE index[f]]
    <3>1. UNCHANGED << evidence.patch, evidence.validation >>
      BY <1>r, <2>1 DEF Stages
    <3>2. basis
      BY <1>6 DEF StageFiles, CommitRunning, BasisInv
    <3>3. meddled = 0 /\ patches <= 1 =>
            \A f \in Files : index'[f] \in {Content(branch)[f], tree[f]}
      BY <2>4 DEF ContentInv
    <3>4. meddled = 0 /\ patches <= 1 => patches # 0
      BY <3>2 DEF ContentInv
    <3> QED BY <2>2, <3>1, <3>3, <3>4 DEF ContentInv, Content, ExecutorCommits, AsChecked,
                                          ChangedBy
  <2> QED BY <1>6, <2>3, <2>4 DEF StageFiles
<1>7. CASE Commit
  <2>1. CommitRunning /\ UNCHANGED << branch, tree, index, checked, basis, patches, meddled >>
    BY <1>7 DEF Commit, CommitRunning
  <2>2. CASE UNCHANGED << commits, tip >> /\ \E r : Record("commit", r)
    BY <1>r, <2>1, <2>2, ContentSame DEF Stages
  <2>3. CASE NewCommit("executor") /\ UNCHANGED evidence
    BY <2>1, <2>3, ContentCommitted
  <2> QED BY <1>7, <2>2, <2>3 DEF Commit, FinishCommit
<1>8. CASE StartPush \/ VerifyPushBranch \/ Push \/ ConfirmPush
  <2>1. UNCHANGED evidence \/ \E r : Record("push", r)
    BY <1>8 DEF StartPush, VerifyPushBranch, Push, ConfirmPush, FinishPush
  <2>2. UNCHANGED << branch, tree, index, commits, tip, checked, basis, patches, meddled >>
    BY <1>8 DEF StartPush, VerifyPushBranch, Push, ConfirmPush
  <2> QED BY <1>r, <2>1, <2>2, ContentSame DEF Stages
<1>9. CASE GitFails \/ GitTimesOut
  <2>1. UNCHANGED evidence \/ \E stage \in {"commit", "push"} : \E r : Record(stage, r)
    BY <1>9 DEF GitFails, GitTimesOut, FinishCommit, FinishPush
  <2>2. UNCHANGED << branch, tree, index, commits, tip, checked, basis, patches, meddled >>
    BY <1>9 DEF GitFails, GitTimesOut
  <2> QED BY <1>r, <2>1, <2>2, ContentSame DEF Stages
<1>10. CASE Meddle
  <2>1. meddled' = meddled + 1
    BY <1>10 DEF Meddle
  <2>2. meddled' # 0
    BY <1>0, <2>1
  <2> QED BY <2>2 DEF ContentInv
<1> QED BY <1>1, <1>2, <1>3, <1>4, <1>5, <1>6, <1>7, <1>8, <1>9, <1>10 DEF Next

\* After one patch in a clone nobody else uses, what the executor commits is what
\* was validated, through failed, partial and repeated attempts and whatever the
\* caller waives or strips.
THEOREM ContentIsValidated == Spec => []CommittedContentWasValidated
<1>1. Init => BasisInv /\ ContentInv
  <2> SUFFICES ASSUME Init PROVE BasisInv /\ ContentInv
    OBVIOUS
  <2>1. /\ evidence.validation = NoValidation /\ evidence.gate = CG!NoResult
        /\ evidence.patch = NoPatch
        /\ ~CommitRunning /\ Len(commits) = 1 /\ commits[1].by = "person"
    BY DEF Init, CommitRunning, Idle
  <2>2. ExecutorCommits = {}
    BY <2>1 DEF ExecutorCommits
  <2>3. ~NoValidation.success /\ ~NoPatch.applied
    BY DEF NoValidation, Validated, NoPatch, Applied
  <2>4. Content(branch) = index
    <3>1. tip[branch] = 1 /\ commits[1].tree = index
      BY DEF Init, Branches
    <3> QED BY <3>1 DEF Content
  <2>5. BasisInv
    BY <2>1, <2>2, <2>3 DEF BasisInv, GateShape, CommitsRestOnValidation, NoValidation,
                            Validated, CG!NoResult
  <2> QED BY <2>1, <2>2, <2>3, <2>4, <2>5 DEF Init, ContentInv
<1>2. TypeInv /\ PushInv /\ BasisInv /\ ContentInv /\ [Next]_vars => BasisInv' /\ ContentInv'
  BY NextBasis, NextContent, BasisSame, ContentSame DEF vars, repository, bounds, CommitRunning
<1>3. ContentInv => CommittedContentWasValidated
  BY DEF ContentInv, CommittedContentWasValidated, Undisturbed, AsChecked
<1> QED BY <1>1, <1>2, <1>3, Invariance, PTL DEF Spec

-----------------------------------------------------------------------------
(* What is pushed is what is reported. *)

\* In a clone nobody else uses HEAD stays on the branch, and its commits are one line
\* that ends in the last commit made.
LineInv ==
  /\ faults \in Nat
  /\ meddled = 0 =>
       /\ branch = "feature" /\ tip["feature"] = Len(commits)
       /\ \A c \in 1 .. Len(commits) : commits[c].parent = c - 1

\* Of that line the evidence names a commit, the last one as long as no git call has
\* failed and the executor is not about to report a later one; a push works on what the
\* evidence named when it started, and once past its checks on the branch itself.
NameInv ==
  /\ {"committed", "commit_sha"} \subseteq DOMAIN evidence.commit
  /\ meddled = 0 =>
       /\ evidence.commit.committed =>
            /\ evidence.commit.commit_sha \in 1 .. Len(commits)
            /\ faults = 0 /\ run.at # "commit:confirm"
                 => evidence.commit.commit_sha = Len(commits)
       /\ PushRunning /\ run.q.waived = {} =>
            /\ run.e.commit_sha \in 1 .. Len(commits)
            /\ faults = 0 => run.e.commit_sha = Len(commits)
            /\ run.at # "push:branch" => run.q.current = "feature"
            /\ run.at = "push:confirm" => remote["feature"] = tip["feature"]

\* In one line the ancestors of a commit are all the earlier ones.
LEMMA LineAncestors ==
  ASSUME Len(commits) \in Nat, \A c \in 1 .. Len(commits) : commits[c].parent = c - 1
  PROVE  \A c \in 0 .. Len(commits) : Ancestors[c] = 0 .. c
<1>n. PICK n : n = Len(commits)
  OBVIOUS
<1> DEFINE Is(f) ==
      f = [c \in 0 .. n |-> IF c = 0 THEN {0} ELSE {c} \cup f[commits[c].parent]]
<1>1. \E f : Is(f)
  <2> DEFINE g == [c \in 0 .. n |-> 0 .. c]
  <2>1. ASSUME NEW c \in 0 .. n
        PROVE  g[c] = IF c = 0 THEN {0} ELSE {c} \cup g[commits[c].parent]
    <3>1. CASE c = 0
      BY <3>1
    <3>2. CASE c # 0
      <4>1. commits[c].parent = c - 1 /\ c - 1 \in 0 .. n
        BY <1>n, <3>2
      <4>2. 0 .. c = {c} \cup (0 .. (c - 1))
        BY <1>n, <3>2
      <4> QED BY <3>2, <4>1, <4>2
    <3> QED BY <3>1, <3>2
  <2>2. Is(g)
    <3>1. g = [c \in 0 .. n |-> g[c]]
      OBVIOUS
    <3> HIDE DEF g
    <3>2. [c \in 0 .. n |-> g[c]]
            = [c \in 0 .. n |-> IF c = 0 THEN {0} ELSE {c} \cup g[commits[c].parent]]
      BY <2>1, Zenon
    <3> QED BY <3>1, <3>2, Zenon
  <2> HIDE DEF g
  <2> QED BY <2>2, Zenon
<1>2. Is(Ancestors)
  <2>1. Ancestors = CHOOSE f : Is(f)
    BY <1>n, Zenon DEF Ancestors
  <2> QED BY <1>1, <2>1, Zenon
<1> DEFINE T == {c \in Nat : c <= n => Ancestors[c] = 0 .. c}
<1>3. 0 \in T
  BY <1>n, <1>2
<1>4. ASSUME NEW c \in Nat, c \in T PROVE c + 1 \in T
  <2>1. SUFFICES ASSUME c + 1 <= n PROVE Ancestors[c + 1] = 0 .. (c + 1)
    OBVIOUS
  <2>2. c + 1 \in 0 .. n /\ c + 1 \in 1 .. n /\ c <= n
    BY <1>n, <2>1
  <2>3. commits[c + 1].parent = c
    BY <1>n, <2>2
  <2>4. Ancestors[c + 1] = {c + 1} \cup Ancestors[c]
    BY <1>2, <2>2, <2>3
  <2>5. Ancestors[c] = 0 .. c
    BY <1>4, <2>2
  <2> QED BY <2>4, <2>5
<1>5. \A c \in Nat : c \in T
  <2> HIDE DEF T
  <2> QED BY <1>3, <1>4, NatSetInduction
<1> QED BY <1>n, <1>5


\* A commit extends the line by one.
LEMMA LineCommitted ==
  ASSUME TypeInv, LineInv, NewCommit("executor"), UNCHANGED << branch, faults, meddled >>
  PROVE  LineInv'
<1>n. PICK n : n = Len(commits)
  OBVIOUS
<1>1. SUFFICES ASSUME meddled = 0
               PROVE  /\ tip'["feature"] = Len(commits')
                      /\ \A c \in 1 .. Len(commits') : commits'[c].parent = c - 1
  BY DEF LineInv
<1>2. /\ n \in Nat /\ Len(commits') = n + 1
      /\ \A c \in 1 .. n : commits'[c] = commits[c]
      /\ commits'[n + 1].parent = tip[branch]
      /\ tip' = [tip EXCEPT ![branch] = n + 1]
  BY <1>n, Committed
<1>3. branch = "feature" /\ tip["feature"] = n /\ \A c \in 1 .. n : commits[c].parent = c - 1
  BY <1>n, <1>1 DEF LineInv
<1>4. tip'["feature"] = n + 1
  BY <1>2, <1>3 DEF TypeInv, Branches
<1>5. ASSUME NEW c \in 1 .. n + 1 PROVE commits'[c].parent = c - 1
  <2>1. CASE c \in 1 .. n
    BY <1>2, <1>3, <2>1
  <2>2. CASE c = n + 1
    BY <1>2, <1>3, <2>2
  <2> QED BY <1>2, <2>1, <2>2
<1> QED BY <1>2, <1>4, <1>5

\* Every step keeps the line.
LEMMA NextLine ==
  ASSUME TypeInv, LineInv, Next
  PROVE  LineInv'
<1> USE DEF repository, bounds
<1>s. ASSUME UNCHANGED << branch, commits, tip, meddled >>, faults' \in Nat PROVE LineInv'
  BY <1>s DEF LineInv
<1>1. CASE \/ ApplyPatch \/ Validate \/ EvaluateCommitGate \/ EvaluatePushGate
           \/ StartCommit \/ VerifyCommitBranch \/ ReadHead \/ StageFiles \/ ConfirmCommit
           \/ StartPush \/ VerifyPushBranch \/ Push \/ ConfirmPush
  <2>1. UNCHANGED << branch, commits, tip, meddled, faults >>
    BY <1>1 DEF ApplyPatch, Validate, EvaluateCommitGate, EvaluatePushGate, StartCommit,
                VerifyCommitBranch, ReadHead, StageFiles, ConfirmCommit, StartPush,
                VerifyPushBranch, Push, ConfirmPush
  <2> QED BY <1>s, <2>1 DEF LineInv
<1>2. CASE Commit
  <2>1. UNCHANGED << branch, meddled, faults >>
    BY <1>2 DEF Commit
  <2>2. CASE UNCHANGED << commits, tip >>
    BY <1>s, <2>1, <2>2 DEF LineInv
  <2>3. CASE NewCommit("executor")
    BY <2>1, <2>3, LineCommitted
  <2> QED BY <1>2, <2>2, <2>3 DEF Commit
<1>3. CASE GitFails \/ GitTimesOut
  <2>1. UNCHANGED << branch, commits, tip, meddled >> /\ faults' = faults + 1
    BY <1>3 DEF GitFails, GitTimesOut
  <2> QED BY <1>s, <2>1 DEF LineInv
<1>4. CASE Meddle
  <2>1. meddled' = meddled + 1 /\ UNCHANGED faults
    BY <1>4 DEF Meddle
  <2> QED BY <2>1 DEF LineInv, TypeInv
<1> QED BY <1>1, <1>2, <1>3, <1>4 DEF Next

\* Steps that make no commit and leave origin, the commit executor's evidence and
\* the push under way alone.
LEMMA NameSame ==
  ASSUME NameInv, UNCHANGED << scenario, commits, tip, remote, meddled, faults >>,
         evidence'.commit = evidence.commit,
         run.at = "commit:confirm" => run'.at = "commit:confirm",
         PushRunning' => UNCHANGED run
  PROVE  NameInv'
BY DEF NameInv, PushRunning


\* What the commit executor's report says of the commit.
LEMMA CommitReported ==
  ASSUME DOMAIN evidence = Stages,
         NEW q, NEW g, NEW outcome, NEW sha, NEW staged, NEW attempted,
         Record("commit", CE!Result(q, g, outcome, sha, staged, attempted))
  PROVE  /\ {"committed", "commit_sha"} \subseteq DOMAIN evidence'.commit
         /\ evidence'.commit.committed = (outcome = "committed")
         /\ evidence'.commit.committed => evidence'.commit.commit_sha = sha
<1> DEFINE result == CE!Result(q, g, outcome, sha, staged, attempted)
<1>1. evidence'.commit = result
  BY Recorded DEF Stages
<1>2. {"committed", "commit_sha"} \subseteq DOMAIN result
  BY DEF CE!Result
<1>3. result.committed = (outcome = "committed")
  BY Zenon DEF CE!Result
<1>4. outcome = "committed" => result.commit_sha = sha
  BY DEF CE!Result
<1> HIDE DEF result
<1> QED BY <1>1, <1>2, <1>3, <1>4, Zenon

\* A push that the executor does not refuse, of a caller that waives nothing, works on
\* a commit the evidence names.
LEMMA PushedIsNamed ==
  ASSUME NameInv, meddled = 0,
         NEW q, q.waived = {}, NEW p, NEW e \in Handed("commit", CE!NoResult),
         ~PE!Blocked(q, p, e), run = Idle
  PROVE  /\ e.commit_sha \in 1 .. Len(commits)
         /\ faults = 0 => e.commit_sha = Len(commits)
<1>1. e.committed
  BY DEF PE!Blocked, PE!Needs
<1>2. /\ e.committed = evidence.commit.committed \/ e = CE!NoResult
      /\ e.commit_sha = evidence.commit.commit_sha \/ e = CE!NoResult
  BY HandedOn DEF NameInv
<1>3. ~CE!NoResult.committed
  BY DEF CE!NoResult
<1>4. run.at # "commit:confirm"
  BY DEF Idle
<1>5. evidence.commit.committed /\ e.commit_sha = evidence.commit.commit_sha
  BY <1>1, <1>2, <1>3
<1> QED BY <1>4, <1>5 DEF NameInv


\* The commit executor's steps keep the names right.
LEMMA CommitName ==
  ASSUME TypeInv, LineInv, NameInv,
         \/ StartCommit \/ VerifyCommitBranch \/ ReadHead \/ StageFiles \/ Commit
         \/ ConfirmCommit
  PROVE  NameInv'
<1> USE DEF repository, bounds
<1>0. RunShape /\ DOMAIN evidence = Stages /\ Len(commits) \in Nat
  BY DEF TypeInv
<1>p. ~PushRunning'
  <2>1. CASE StartCommit
    <3>1. \/ run' = Idle
          \/ \E q, g : run' = [at |-> "commit:branch", q |-> q, g |-> g, head |-> 0,
                               staged |-> {}]
      BY <2>1 DEF StartCommit
    <3> QED BY <3>1 DEF Idle, PushRunning
  <2>2. CASE VerifyCommitBranch \/ ReadHead \/ StageFiles \/ Commit \/ ConfirmCommit
    <3>1. CommitRunning
      BY <2>2 DEF VerifyCommitBranch, ReadHead, StageFiles, Commit, ConfirmCommit,
                  CommitRunning
    <3>2. \/ run' = Idle
          \/ \E at \in {"commit:head", "commit:status", "commit:commit", "commit:confirm"} :
               \/ run' = [run EXCEPT !.at = at]
               \/ \E x : run' = [run EXCEPT !.at = at, !.head = x]
               \/ \E x : run' = [run EXCEPT !.at = at, !.staged = x]
      BY <2>2 DEF VerifyCommitBranch, ReadHead, StageFiles, Commit, ConfirmCommit, FinishCommit
    <3>3. CommitRunning' \/ run' = Idle
      BY <1>0, <3>1, <3>2, MovedShape
    <3> QED BY <3>3 DEF CommitRunning, PushRunning, Idle
  <2> QED BY <2>1, <2>2
<1>r. ASSUME NEW q, NEW g, NEW outcome, NEW sha, NEW staged, NEW attempted,
             Record("commit", CE!Result(q, g, outcome, sha, staged, attempted)),
             outcome = "committed" /\ meddled' = 0 => sha = Len(commits') /\ sha \in 1 .. sha
      PROVE  NameInv'
  <2>1. /\ {"committed", "commit_sha"} \subseteq DOMAIN evidence'.commit
        /\ evidence'.commit.committed = (outcome = "committed")
        /\ evidence'.commit.committed => evidence'.commit.commit_sha = sha
    BY <1>0, <1>r, CommitReported
  <2>2. PICK report : report = evidence'.commit
    OBVIOUS
  <2>3. meddled' = 0 /\ report.committed => /\ report.commit_sha \in 1 .. Len(commits')
                                            /\ report.commit_sha = Len(commits')
    BY <1>r, <2>1, <2>2, Zenon
  <2> QED BY <1>p, <2>1, <2>2, <2>3 DEF NameInv
<1>1. CASE StartCommit
  <2>1. PICK q \in Use.commit, g \in Handed("gate", CG!NoResult) :
          IF CE!Blocked(q, g) \/ q.mode = "dry_run"
          THEN /\ Record("commit", CE!Result(q, g, IF CE!Blocked(q, g) THEN "blocked"
                                                   ELSE "dry_run", 0, {}, FALSE))
               /\ UNCHANGED run
          ELSE /\ run' = [at |-> "commit:branch", q |-> q, g |-> g, head |-> 0, staged |-> {}]
               /\ UNCHANGED evidence
    BY <1>1 DEF StartCommit
  <2>2. CASE CE!Blocked(q, g) \/ q.mode = "dry_run"
    <3>1. PICK outcome : outcome = IF CE!Blocked(q, g) THEN "blocked" ELSE "dry_run"
      OBVIOUS
    <3>2. Record("commit", CE!Result(q, g, outcome, 0, {}, FALSE))
      BY <2>1, <2>2, <3>1
    <3>3. outcome # "committed"
      BY <3>1
    <3> QED BY <1>r, <3>2, <3>3
  <2>3. CASE ~(CE!Blocked(q, g) \/ q.mode = "dry_run")
    <3>1. UNCHANGED << evidence, scenario, commits, tip, remote, meddled, faults >>
      BY <1>1, <2>1, <2>3 DEF StartCommit
    <3>2. run.at # "commit:confirm"
      BY <1>1 DEF StartCommit, Idle
    <3> QED BY <1>p, <3>1, <3>2, NameSame
  <2> QED BY <2>2, <2>3
<1>2. CASE VerifyCommitBranch \/ ReadHead \/ StageFiles
  <2>1. UNCHANGED << scenario, commits, tip, remote, meddled, faults >>
    BY <1>2 DEF VerifyCommitBranch, ReadHead, StageFiles
  <2>2. run.at # "commit:confirm"
    BY <1>2 DEF VerifyCommitBranch, ReadHead, StageFiles
  <2>3. UNCHANGED evidence \/ FinishCommit("blocked", 0, {}, TRUE)
    BY <1>2 DEF VerifyCommitBranch, ReadHead, StageFiles
  <2>4. CASE FinishCommit("blocked", 0, {}, TRUE)
    <3>1. Record("commit", CE!Result(run.q, run.g, "blocked", 0, {}, TRUE))
      BY <2>4 DEF FinishCommit
    <3> QED BY <1>r, <3>1
  <2> QED BY <1>p, <2>1, <2>2, <2>3, <2>4, NameSame
<1>3. CASE Commit
  <2>1. UNCHANGED << scenario, remote, meddled, faults >>
    BY <1>3 DEF Commit
  <2>2. CASE FinishCommit("failed", 0, run.staged, TRUE)
    <3>1. Record("commit", CE!Result(run.q, run.g, "failed", 0, run.staged, TRUE))
      BY <2>2 DEF FinishCommit
    <3> QED BY <1>r, <3>1
  <2>3. CASE /\ NewCommit("executor") /\ UNCHANGED evidence
             /\ run' = [run EXCEPT !.at = "commit:confirm"]
    <3>1. Len(commits') = Len(commits) + 1
      BY <2>3, Committed
    <3>2. run'.at = "commit:confirm"
      BY <1>0, <1>3, <2>3 DEF Commit, RunShape, CommitRunning
    <3>3. 1 .. Len(commits) \subseteq 1 .. Len(commits')
      BY <1>0, <3>1
    <3> QED BY <1>p, <2>1, <2>3, <3>2, <3>3 DEF NameInv
  <2> QED BY <1>3, <2>2, <2>3 DEF Commit
<1>4. CASE ConfirmCommit
  <2>1. UNCHANGED << branch, commits, tip, meddled >>
    BY <1>4 DEF ConfirmCommit
  <2>2. PICK outcome : Record("commit", CE!Result(run.q, run.g, outcome, tip[branch],
                                                  run.staged, TRUE))
    BY <1>4 DEF ConfirmCommit, FinishCommit
  <2>3. meddled = 0 => tip[branch] = Len(commits)
    BY DEF LineInv
  <2>4. tip[branch] \in 1 .. tip[branch]
    <3>1. tip[branch] \in 1 .. Len(commits)
      BY DEF TypeInv
    <3> QED BY <1>0, <3>1
  <2> QED BY <1>r, <2>1, <2>2, <2>3, <2>4
<1> QED BY <1>1, <1>2, <1>3, <1>4


\* The push executor's steps keep them: past git's answer about the branch the request
\* names that branch, and what git push moved is the branch of that name on origin.
LEMMA PushName ==
  ASSUME TypeInv, PushInv, LineInv, NameInv,
         StartPush \/ VerifyPushBranch \/ Push \/ ConfirmPush
  PROVE  NameInv'
<1> USE DEF repository, bounds
<1>0. RunShape /\ DOMAIN evidence = Stages
  BY DEF TypeInv
<1>r. ASSUME NEW result, Record("push", result) PROVE evidence'.commit = evidence.commit
  BY <1>0, <1>r, Recorded DEF Stages
<1>i. run' = Idle => ~PushRunning'
  BY IdleShape
<1>m. ASSUME NEW at, PushRunning, run' = [run EXCEPT !.at = at]
      PROVE  run'.at = at /\ run'.e = run.e /\ run'.q = run.q
  BY <1>0, <1>m DEF RunShape
<1>1. CASE StartPush
  <2>1. UNCHANGED << scenario, commits, tip, remote, meddled, faults >> /\ run = Idle
    BY <1>1 DEF StartPush
  <2>2. PICK q \in Use.push, p \in Handed("pushgate", PG!NoResult),
             e \in Handed("commit", CE!NoResult) :
          IF PE!Blocked(q, p, e) \/ q.mode = "dry_run"
          THEN (\E r : Record("push", r)) /\ UNCHANGED run
          ELSE run' = [at |-> "push:branch", q |-> q, p |-> p, e |-> e] /\ UNCHANGED evidence
    BY <1>1 DEF StartPush
  <2>3. CASE PE!Blocked(q, p, e) \/ q.mode = "dry_run"
    <3>1. UNCHANGED run /\ evidence'.commit = evidence.commit
      BY <1>r, <2>2, <2>3
    <3>2. run.at # "commit:confirm" /\ ~PushRunning'
      BY <1>i, <2>1, <3>1 DEF Idle
    <3> QED BY <2>1, <3>1, <3>2, NameSame
  <2>4. CASE ~(PE!Blocked(q, p, e) \/ q.mode = "dry_run")
    <3>1. run'.at = "push:branch" /\ run'.e = e /\ run'.q = q
      BY <2>2, <2>4
    <3>3. run.at # "commit:confirm"
      BY <2>1 DEF Idle
    <3>4. meddled = 0 /\ q.waived = {} => /\ e.commit_sha \in 1 .. Len(commits)
                                          /\ faults = 0 => e.commit_sha = Len(commits)
      BY <2>1, <2>2, <2>4, PushedIsNamed
    <3> QED BY <2>1, <2>2, <2>4, <3>1, <3>3, <3>4 DEF NameInv
  <2> QED BY <2>3, <2>4
<1>2. CASE VerifyPushBranch
  <2>1. /\ UNCHANGED << scenario, branch, commits, tip, remote, meddled, faults >>
        /\ run.at = "push:branch" /\ PushRunning
    BY <1>2 DEF VerifyPushBranch, PushRunning
  <2>2. CASE PE!VerifiedBranchBlocks(run.q, run.p, run.e, branch)
    <3>1. run' = Idle /\ evidence'.commit = evidence.commit
      BY <1>2, <1>r, <2>2 DEF VerifyPushBranch, FinishPush
    <3> QED BY <1>i, <2>1, <3>1, NameSame
  <2>3. CASE ~PE!VerifiedBranchBlocks(run.q, run.p, run.e, branch)
    <3>1. run' = [run EXCEPT !.at = "push:push"] /\ UNCHANGED evidence
      BY <1>2, <2>3 DEF VerifyPushBranch
    <3>2. run'.at = "push:push" /\ run'.e = run.e /\ run'.q = run.q
      BY <1>m, <2>1, <3>1
    <3>3. run.q.current = branch
      BY <2>3 DEF PE!VerifiedBranchBlocks
    <3>4. meddled = 0 => branch = "feature"
      BY DEF LineInv
    <3> QED BY <2>1, <3>1, <3>2, <3>3, <3>4 DEF NameInv
  <2> QED BY <2>2, <2>3
<1>3. CASE Push
  <2>1. /\ UNCHANGED << scenario, commits, tip, meddled, faults, evidence >>
        /\ run.at = "push:push" /\ PushRunning
        /\ run' = [run EXCEPT !.at = "push:confirm"]
    BY <1>3 DEF Push, PushRunning
  <2>2. run'.at = "push:confirm" /\ run'.e = run.e /\ run'.q = run.q
    BY <1>m, <2>1
  <2> DEFINE ref == PE!FinalPushRef(run.q, run.p)
  <2>3. remote' = [remote EXCEPT ![ref.to] = tip[ref.from]]
    BY <1>3 DEF Push
  <2>4. ref.from = run.q.current /\ ref.to = ref.from
    BY <2>1 DEF PushInv, PE!FinalPushRef
  <2> HIDE DEF ref
  <2>5. run.q.current = "feature" => remote'["feature"] = tip["feature"]
    BY <2>3, <2>4 DEF TypeInv, Branches
  <2> QED BY <2>1, <2>2, <2>5 DEF NameInv
<1>4. CASE ConfirmPush
  <2>1. /\ UNCHANGED << scenario, commits, tip, remote, meddled, faults >>
        /\ run' = Idle /\ evidence'.commit = evidence.commit
    BY <1>4, <1>r DEF ConfirmPush, FinishPush
  <2>2. run.at # "commit:confirm"
    BY <1>4 DEF ConfirmPush
  <2> QED BY <1>i, <2>1, <2>2, NameSame
<1> QED BY <1>1, <1>2, <1>3, <1>4

\* A git call that fails only ever leaves the evidence behind; other people make an end
\* of what is claimed.
LEMMA WorldName ==
  ASSUME TypeInv, LineInv, NameInv, GitFails \/ GitTimesOut \/ Meddle
  PROVE  NameInv'
<1> USE DEF repository, bounds
<1>0. DOMAIN evidence = Stages /\ meddled \in Nat /\ faults \in Nat
  BY DEF TypeInv, LineInv
<1>r. ASSUME NEW q, NEW g, NEW outcome, NEW sha, NEW staged, NEW attempted,
             Record("commit", CE!Result(q, g, outcome, sha, staged, attempted)),
             outcome # "committed"
      PROVE  /\ ~evidence'.commit.committed
             /\ {"committed", "commit_sha"} \subseteq DOMAIN evidence'.commit
  BY <1>0, <1>r, CommitReported
<1>1. CASE GitFails \/ GitTimesOut
  <2>1. /\ UNCHANGED << commits, meddled >> /\ run' = Idle /\ faults' = faults + 1
    BY <1>1 DEF GitFails, GitTimesOut, FinishCommit, FinishPush
  <2>2. ~PushRunning' /\ faults' # 0
    BY <1>0, <2>1, IdleShape
  <2>3. CASE evidence'.commit = evidence.commit
    BY <2>1, <2>2, <2>3 DEF NameInv
  <2>4. CASE FinishCommit("failed", 0, run.staged, TRUE)
    <3>1. Record("commit", CE!Result(run.q, run.g, "failed", 0, run.staged, TRUE))
      BY <2>4 DEF FinishCommit
    <3>2. ~evidence'.commit.committed
          /\ {"committed", "commit_sha"} \subseteq DOMAIN evidence'.commit
      BY <1>r, <3>1
    <3> QED BY <2>2, <3>2 DEF NameInv
  <2>5. \/ UNCHANGED evidence \/ FinishCommit("failed", 0, run.staged, TRUE)
        \/ \E r : Record("push", r)
    BY <1>1 DEF GitFails, GitTimesOut, FinishPush
  <2>6. (\E r : Record("push", r)) => evidence'.commit = evidence.commit
    BY <1>0, Recorded DEF Stages
  <2> QED BY <2>3, <2>4, <2>5, <2>6
<1>2. CASE Meddle
  <2>1. meddled' = meddled + 1 /\ UNCHANGED evidence
    BY <1>2 DEF Meddle
  <2> QED BY <1>0, <2>1 DEF NameInv
<1> QED BY <1>1, <1>2


\* In a clone nobody else uses, what a push reports whose request waives nothing and names
\* no commit is on origin, and last there unless a git call failed: the executor never
\* reads the sha it reports from the repository (push_executor.py), only from the
\* request and the evidence.
THEOREM PushesAreReported == Spec => PushReportsWhatItPushed
<1>1. Init => LineInv /\ NameInv
  <2> SUFFICES ASSUME Init PROVE LineInv /\ NameInv
    OBVIOUS
  <2>1. /\ evidence.commit = CE!NoResult /\ ~PushRunning /\ Len(commits) = 1
        /\ commits[1].parent = 0
    BY DEF Init, PushRunning, Idle
  <2>2. ~CE!NoResult.committed /\ {"committed", "commit_sha"} \subseteq DOMAIN CE!NoResult
    BY DEF CE!NoResult
  <2> QED BY <2>1, <2>2 DEF Init, LineInv, NameInv, Branches
<1>2. TypeInv /\ PushInv /\ LineInv /\ NameInv /\ [Next]_vars => LineInv' /\ NameInv'
  <2>1. CASE UNCHANGED vars
    BY <2>1, NameSame DEF vars, repository, bounds, LineInv
  <2>2. ASSUME TypeInv, PushInv, LineInv, NameInv, Next PROVE LineInv' /\ NameInv'
    <3>1. CASE ApplyPatch \/ Validate \/ EvaluateCommitGate \/ EvaluatePushGate
      <4>1. UNCHANGED << scenario, commits, tip, remote, meddled, faults, run >>
        BY <3>1 DEF ApplyPatch, Validate, EvaluateCommitGate, EvaluatePushGate, repository,
                    bounds
      <4>2. evidence'.commit = evidence.commit
        <5>1. \/ \E stage \in Stages \ {"commit"} : \E r : Record(stage, r)
              \/ \E x, y : evidence' = [evidence EXCEPT !.patch = x, !.validation = y]
          BY <3>1 DEF ApplyPatch, Validate, EvaluateCommitGate, EvaluatePushGate, Stages
        <5> QED BY <2>2, <5>1, Recorded DEF TypeInv, Stages
      <4> QED BY <2>2, <4>1, <4>2, NameSame, NextLine
    <3> QED BY <2>2, <3>1, CommitName, PushName, WorldName, NextLine DEF Next
  <2> QED BY <2>1, <2>2
<1>3. ASSUME TypeInv, PushInv, LineInv, NameInv, Next,
             meddled = 0, PushRunning, run.q.waived = {}, run.q.sha = 0,
             evidence'.push # evidence.push, evidence'.push.pushed
      PROVE  LET there == remote[evidence'.push.remote_branch]
                 named == evidence'.push.commit_sha IN
             named \in Ancestors[there] /\ (faults = 0 => named = there)
  <2>0. RunShape /\ DOMAIN evidence = Stages /\ Len(commits) \in Nat
    BY <1>3 DEF TypeInv
  <2>i. run # Idle
    BY <1>3 DEF PushRunning, Idle
  <2>r. ASSUME NEW stage \in Stages \ {"push"}, NEW result, Record(stage, result) PROVE FALSE
    BY <1>3, <2>0, <2>r, Recorded DEF Stages
  <2>b. ASSUME NEW attempted, NEW contacted, FinishPush("blocked", attempted, contacted)
        PROVE  FALSE
    <3>1. evidence'.push = PE!Result(run.q, run.p, run.e, "blocked", attempted, contacted)
      BY <2>0, <2>b, Recorded DEF FinishPush, Stages
    <3>2. ~PE!Result(run.q, run.p, run.e, "blocked", attempted, contacted).pushed
      BY DEF PE!Result
    <3> QED BY <1>3, <3>1, <3>2
  <2>1. ConfirmPush
    <3>1. CASE \/ ApplyPatch \/ Validate \/ EvaluateCommitGate \/ EvaluatePushGate
               \/ StartCommit \/ StartPush
      BY <2>i, <3>1 DEF ApplyPatch, Validate, EvaluateCommitGate, EvaluatePushGate,
                        StartCommit, StartPush
    <3>2. CASE \/ VerifyCommitBranch \/ ReadHead \/ StageFiles \/ Commit \/ ConfirmCommit
               \/ Push \/ GitTimesOut \/ Meddle
      <4>1. UNCHANGED evidence \/ \E r : Record("commit", r)
        BY <3>2 DEF VerifyCommitBranch, ReadHead, StageFiles, Commit, ConfirmCommit, Push,
                    GitTimesOut, Meddle, FinishCommit
      <4> QED BY <1>3, <2>r, <4>1 DEF Stages
    <3>3. CASE VerifyPushBranch \/ GitFails
      <4>1. \/ UNCHANGED evidence \/ \E r : Record("commit", r)
            \/ \E attempted, contacted : FinishPush("blocked", attempted, contacted)
        BY <3>3 DEF VerifyPushBranch, GitFails, FinishCommit
      <4> QED BY <1>3, <2>r, <2>b, <4>1 DEF Stages
    <3> QED BY <1>3, <3>1, <3>2, <3>3 DEF Next
  <2>2. PushRunning /\ run.at = "push:confirm"
    BY <2>1 DEF ConfirmPush, PushRunning
  <2>3. evidence'.push = PE!Result(run.q, run.p, run.e, "pushed", TRUE, TRUE)
    BY <2>0, <2>1, Recorded DEF ConfirmPush, FinishPush, Stages
  <2>4. /\ run.e.commit_sha \in 1 .. Len(commits)
        /\ faults = 0 => run.e.commit_sha = Len(commits)
        /\ run.q.current = "feature" /\ remote["feature"] = Len(commits)
    BY <1>3, <2>2 DEF NameInv, LineInv
  <2>5. evidence'.push.remote_branch = "feature"
    <3>1. PE!FinalPushRef(run.q, run.p).to = "feature"
      BY <1>3, <2>2, <2>4 DEF PushInv, PE!FinalPushRef
    <3>2. evidence'.push.remote_branch = PE!RemoteBranch(run.q, run.p)
      BY <2>3 DEF PE!Result
    <3> QED BY <3>1, <3>2 DEF PE!FinalPushRef
  <2>6. evidence'.push.commit_sha = run.e.commit_sha
    <3>1. evidence'.push.commit_sha = PE!CommitSha(run.q, run.p, run.e)
      BY <2>3 DEF PE!Result
    <3>2. run.e.commit_sha # 0
      BY <2>0, <2>4
    <3> QED BY <1>3, <3>1, <3>2 DEF PE!CommitSha
  <2>7. Ancestors[Len(commits)] = 0 .. Len(commits)
    <3>1. \A c \in 1 .. Len(commits) : commits[c].parent = c - 1
      BY <1>3 DEF LineInv
    <3> QED BY <2>0, <3>1, LineAncestors
  <2> QED BY <2>0, <2>4, <2>5, <2>6, <2>7
<1>4. TypeInv /\ PushInv /\ LineInv /\ NameInv /\ [Next]_vars =>
        [(/\ meddled = 0 /\ PushRunning /\ run.q.waived = {} /\ run.q.sha = 0
          /\ evidence'.push # evidence.push /\ evidence'.push.pushed)
           => LET there == remote[evidence'.push.remote_branch]
                  named == evidence'.push.commit_sha IN
              named \in Ancestors[there] /\ (faults = 0 => named = there)]_vars
  BY <1>3
<1> QED BY <1>1, <1>2, <1>4, Invariance, PTL DEF Spec, PushReportsWhatItPushed

================================================================================
