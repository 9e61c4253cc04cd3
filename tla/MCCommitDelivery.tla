---------------------------- MODULE MCCommitDelivery ----------------------------
(***************************************************************************)
(* A small clone for TLC: two files a patch may change and a lock file, a  *)
(* caller that asks as it should, and callers that ask for less checking.  *)
(***************************************************************************)
EXTENDS CommitDelivery, TLC

MCKind == [f \in Files |-> IF f = "lock" THEN "protected" ELSE "plain"]

Asks == { Ordinary }
AsksDry == { Ordinary, [Ordinary EXCEPT !.mode = "dry_run"] }

\* Each requirement on the evidence waived, one at a time and all together.
Waiving(requirements) ==
  { [Ordinary EXCEPT !.waived = w] :
      w \in { {}, requirements } \cup { {r} : r \in requirements } }
WaivesAtGate == Waiving({"runtime_truth", "validation", "patch_applied", "clean"})
WaivesAtCommit ==
  Waiving({"runtime_truth", "validation", "patch_applied", "clean", "prior"})

AsksOnMain == { Ordinary, [Ordinary EXCEPT !.current = "main", !.waived = {"non_main_branch"}] }

\* Requests to the push stages name a remote branch and a ref.
ToPush(q) ==
  q @@ [remote |-> NoBranch, ref |-> "own", origin |-> TRUE, verified |-> "feature", sha |-> 0]
AsksPush == { ToPush(Ordinary) }
\* One that names the first commit itself.
NamesCommit == AsksPush \cup { [ToPush(Ordinary) EXCEPT !.sha = 1] }
\* Everything waived, for the branch, for main, and for one named as the other.
WaivesAtPush ==
  { [ToPush(Ordinary) EXCEPT !.current = b, !.remote = r, !.verified = b,
       !.waived = {"prior", "commit", "runtime_truth", "clean", "non_main_branch", "origin"}] :
      b \in Branches, r \in {"main", NoBranch} }
WaivesAtPushGate == { q \in WaivesAtPush : q.current = "feature" /\ q.remote = NoBranch } \cup AsksPush
AsksOrWaivesPush == AsksPush \cup WaivesAtPush

\* Who uses the clone, and how.
Stages == {"patch", "validation", "gate", "commit", "pushgate"}
Scenario(gate, commit, pushgate, push) ==
  [gate |-> gate, commit |-> commit, pushgate |-> pushgate, push |-> push,
   files |-> Files, strips |-> {}, meddling |-> {}, at_work |-> FALSE, patches |-> 1, meddles |-> 0,
   faults |-> 0]
Waiver ==
  [Scenario(WaivesAtGate, WaivesAtCommit, {}, {}) EXCEPT !.strips = Stages,
     !.meddling = {"edit", "stage", "checkout", "commit"}, !.meddles = 1, !.faults = 1]
Alone == [Scenario(Asks, AsksDry, AsksPush, AsksPush) EXCEPT !.faults = 2]
\* The same with requests that name the commit to push.
Named == Scenario(Asks, Asks, NamesCommit, NamesCommit)
Busy ==
  [Scenario(AsksOnMain, AsksOnMain, WaivesAtPushGate, AsksOrWaivesPush) EXCEPT
     !.strips = Stages, !.files = {"src"}, !.meddling = {"checkout"}, !.at_work = TRUE, !.meddles = 1]
\* One commit on main and one push of feature, with time to move HEAD during both.
Moved ==
  [Scenario({q \in AsksOnMain : q.current = "main"}, {q \in AsksOnMain : q.current = "main"},
            WaivesAtPushGate, {q \in WaivesAtPush : q.current = "feature" /\ q.remote = NoBranch}) EXCEPT
     !.files = {"src"}, !.meddling = {"checkout"}, !.at_work = TRUE, !.meddles = 3]

\* Alone, committing one file at a time.
Pieces ==
  [Scenario(Asks, {[Ordinary EXCEPT !.files = {f}] : f \in Files}, AsksPush, AsksPush)
     EXCEPT !.faults = 1]

MCScenarios ==
  [waiver |-> Waiver, alone |-> Alone, named |-> Named, pieces |-> Pieces, busy |-> Busy,
   moved |-> Moved]
MCPlain == [plain |-> Scenario(Asks, Asks, AsksPush, {})]
================================================================================
