---------------------------- MODULE MCPatchValidation ----------------------------
(***************************************************************************)
(* Small patches and command lists for TLC.                                *)
(***************************************************************************)
EXTENDS PatchValidation, TLC

MCKind == [f \in Files |-> IF f = "lock" THEN "protected" ELSE "plain"]
MCText == [f \in Files |-> IF f = "new" THEN PA!NoText ELSE << "a", "b" >>]

Budget == [files |-> 2, hunks_per_file |-> 2, hunks |-> 2, size |-> MaxText]
ToApply(q) == q @@ [place |-> TRUE, allowed |-> {}, budget |-> Budget]
MCApply ==
  { ToApply(Ordinary), ToApply([Ordinary EXCEPT !.mode = "dry_run"]),
    ToApply([Ordinary EXCEPT !.allow = {"file_create"}]) }

Hunk(before, snippet) == [before |-> before, snippet |-> snippet, bad |-> FALSE]
Modify(f, hunks) == [file |-> f, op |-> "modify_existing", hunks |-> hunks, issue |-> FALSE]
MCPatches ==
  { << Modify("src", << Hunk("a", "c") >>) >>,
    << Modify("src", << Hunk("a", "c"), Hunk("x", "d") >>),
       [Modify("new", << Hunk("", "t") >>) EXCEPT !.op = "add_test"] >>,
    << Modify("src", << Hunk("a", "c") >>), Modify("src", << Hunk("c", "d") >>) >>,
    << Modify("src", << Hunk("a", "c"), Hunk("b", "d") >>),
       [Modify("doc", << Hunk("", "t") >>) EXCEPT !.op = "add_test"] >>,
    << [Modify("doc", << Hunk("", "t") >>) EXCEPT !.op = "add_test"] >>,
    << Modify("src", << Hunk("x", "d") >>), Modify("lock", << Hunk("a", "c") >>),
       Modify("doc", << Hunk("a", "c") >>) >> }

\* Commands by what the patterns make of them.
Good == {"listed", "read_safe", "executable", "planned", "validation", "tests_failed"}
MCTraits == [c \in Commands |->
  CASE c = "pytest" -> Good
    [] c = "lint" -> (Good \ {"tests_failed"}) \cup {"lint_failed"}
    [] c = "deploy" -> Good \cup {"unsafe"}         \* pytest tests/deploy
    [] c = "outside" -> Good \ {"executable"}      \* pytest of a path outside
    [] c = "push" -> {"denied", "forbidden", "git_write", "marked"}
    [] OTHER -> {}]

ToValidate(q, commands) ==
  q @@ [loop |-> "sandbox_readonly", runner |-> "sandbox_readonly",
        command_mode |-> "sandbox_allowed", commands |-> commands, max |-> 2, stop |-> TRUE,
        place |-> TRUE]
MCValidate ==
  { ToValidate(Ordinary, << "pytest", "lint", "pytest" >>),
    [ToValidate(Ordinary, << "pytest", "lint", "pytest" >>) EXCEPT !.max = 3, !.stop = FALSE],
    [ToValidate(Ordinary, << "deploy", "pytest" >>) EXCEPT !.stop = FALSE],
    [ToValidate(Ordinary, << "pytest", "outside" >>) EXCEPT !.max = 0, !.stop = FALSE],
    ToValidate(Ordinary, << "push", "lint" >>),
    [ToValidate(Ordinary, << "pytest" >>) EXCEPT !.loop = "dry_run"],
    ToValidate([Ordinary EXCEPT !.waived = {"runtime_truth", "patch_applied"}], << "lint" >>) }
================================================================================
