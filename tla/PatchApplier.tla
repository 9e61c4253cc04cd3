------------------------------ MODULE PatchApplier ------------------------------
(***************************************************************************)
(* The controlled branch patch applier (sandbox/patch_applier.py): writes  *)
(* the hunks of the proposals it accepts into the workspace, one file      *)
(* after the other.  Module PatchValidation takes its steps.               *)
(*                                                                         *)
(* A text is a sequence of tokens.  A hunk replaces the one occurrence of  *)
(* its before context by its snippet, or (operation "add_test") appends    *)
(* the snippet or creates the file.  A proposal is a record of file, op,   *)
(* hunks (a sequence of [before, snippet, bad]) and issue: a ground of     *)
(* _proposal_issue other than its path.                                    *)
(***************************************************************************)
EXTENDS SandboxEvidence

CONSTANTS Files, Kind

NoText == << "no file" >>
NoToken == ""

Forbidden ==
  {"file_delete", "file_rename", "chmod", "dependency_change", "ci_change",
   "governance_change", "security_change", "vault_write", "git_mutation"}

\* The branch is whatever the request says; git is never asked.
BranchBlocks(q) ==
  /\ Needs(q, "non_main_branch")
  /\ \/ q.current \in {NoBranch, "main", q.base, "release"}
     \/ q.target = "main"
     \/ q.base # "main"

\* A request q also has place (the workspace root is acceptable), allowed (the
\* files it names, {} for any), and the budgets files, hunks_per_file, hunks
\* and size in budget.
GlobalBlocked(q) ==
  \/ q.secret
  \/ q.mode \notin {"act", "dry_run"}
  \/ q.mode = "act" /\ ~q.place
  \/ BranchBlocks(q)
  \/ "direct_main_edit" \in q.notes
  \/ q.allow \cap Forbidden # {}

PathBlocked(f) == Kind[f] # "plain"

ProposalIssue(q, p) ==
  \/ PathBlocked(p.file)
  \/ q.allowed # {} /\ p.file \notin q.allowed
  \/ p.op \notin {"modify_existing", "add_test"}
  \/ p.issue

Hunks(q, p) == SubSeq(p.hunks, 1, IF Len(p.hunks) < q.budget.hunks_per_file
                                  THEN Len(p.hunks) ELSE q.budget.hunks_per_file)

Occurrences(text, token) == {i \in DOMAIN text : text[i] = token}

\* Mutant: the size is not looked at.
ApplyHunkUnbounded(q, p, hunk, text) ==
  IF p.op = "modify_existing"
  THEN IF /\ text # NoText /\ hunk.before # NoToken
          /\ Cardinality(Occurrences(text, hunk.before)) = 1
       THEN [i \in DOMAIN text |-> IF text[i] = hunk.before THEN hunk.snippet ELSE text[i]]
       ELSE NoText
  ELSE IF text = NoText
       THEN IF "file_create" \in q.allow THEN << hunk.snippet >> ELSE NoText
       ELSE Append(text, hunk.snippet)

\* The text after a hunk, or NoText when it cannot be applied.
ApplyHunk(q, p, hunk, text) ==
  LET new ==
        IF p.op = "modify_existing"
        THEN IF /\ text # NoText /\ hunk.before # NoToken
                /\ Cardinality(Occurrences(text, hunk.before)) = 1
             THEN [i \in DOMAIN text |-> IF text[i] = hunk.before THEN hunk.snippet ELSE text[i]]
             ELSE NoText
        ELSE IF text = NoText
             THEN IF "file_create" \in q.allow THEN << hunk.snippet >> ELSE NoText
             ELSE Append(text, hunk.snippet)
  IN IF new # NoText /\ Len(new) <= q.budget.size THEN new ELSE NoText

\* Mutant: the total budget of hunks is not looked at.
TryHunkUnbudgeted(q, p, s, hunk) ==
  LET new == ApplyHunk(q, p, hunk, s.text) IN
  IF hunk.bad \/ new = NoText
  THEN [s EXCEPT !.hunks_blocked = @ + 1]
  ELSE [text |-> new, here |-> s.here + 1, hunks_applied |-> s.hunks_applied + 1,
           hunks_blocked |-> s.hunks_blocked]

\* One hunk of a proposal; s is what became of the file's earlier hunks and
\* of the whole request so far.
TryHunk(q, p, s, hunk) ==
  LET new == ApplyHunk(q, p, hunk, s.text)
      spent == s.hunks_applied + s.hunks_blocked >= q.budget.hunks
  IN IF spent \/ hunk.bad \/ new = NoText
     THEN [s EXCEPT !.hunks_blocked = @ + 1]
     ELSE [text |-> new, here |-> s.here + 1, hunks_applied |-> s.hunks_applied + 1,
           hunks_blocked |-> s.hunks_blocked]

\* What the hunks of a proposal make of it, one after the other.
Tried(q, p, hunks, start) ==
  LET after[n \in 0 .. Len(hunks)] ==
        IF n = 0 THEN start ELSE TryHunk(q, p, after[n - 1], hunks[n])
  IN after

Begun == [considered |-> 0, applied |-> {}, refused |-> {}, changes_blocked |-> FALSE,
          hunks_applied |-> 0, hunks_blocked |-> 0]

\* What a proposal does: the request's progress, and the text to write
\* (NoText for none).  A file with any hunk applied counts as applied; a
\* dry run works on the file as it is on disk.
TryProposal(q, s, p, text) ==
  IF s.considered >= q.budget.files
  THEN [progress |-> [s EXCEPT !.refused = @ \cup {p.file}, !.changes_blocked = TRUE],
        write |-> NoText]
  ELSE IF ProposalIssue(q, p)
  THEN [progress |-> [s EXCEPT !.considered = @ + 1, !.refused = @ \cup {p.file},
                        !.hunks_blocked = @ + Len(Hunks(q, p)), !.changes_blocked = TRUE],
        write |-> NoText]
  ELSE LET start == [text |-> text, here |-> 0, hunks_applied |-> s.hunks_applied,
                     hunks_blocked |-> s.hunks_blocked]
           hunks == Hunks(q, p)
           after == Tried(q, p, hunks, start)[Len(hunks)]
       IN [progress |->
             [considered |-> s.considered + 1,
              applied |-> s.applied \cup (IF after.here > 0 THEN {p.file} ELSE {}),
              refused |-> s.refused \cup (IF after.here > 0 THEN {} ELSE {p.file}),
              changes_blocked |-> s.changes_blocked \/ after.hunks_blocked > s.hunks_blocked,
              hunks_applied |-> after.hunks_applied,
              hunks_blocked |-> after.hunks_blocked],
           write |-> IF after.here > 0 THEN after.text ELSE NoText]

Applied(q, s) == q.mode = "act" /\ s.applied # {}
DryRun(q) == q.mode = "dry_run" /\ ~GlobalBlocked(q)

Truth(q, s) ==
  {"recorded"} \cup Flag("secrets_detected", q.secret)
    \cup (IF Applied(q, s) THEN {"files_written", "code_edited", "patch_applied"} ELSE {})

Human(q, s, proposals) ==
  \/ q.secret \/ GlobalBlocked(q) \/ s.refused # {}
  \/ \E p \in proposals : p.issue

\* Mutant: every file asked for is listed as applied.
ResultListsRequested(q, s, proposals) ==
  [given |-> TRUE, applied |-> Applied(q, s),
   success |-> (Applied(q, s) \/ DryRun(q)) /\ ~GlobalBlocked(q),
   blocked |-> GlobalBlocked(q), partial |-> FALSE, human |-> Human(q, s, proposals),
   files |-> {p.file : p \in proposals}, files_blocked |-> {},
   files_requested |-> {p.file : p \in proposals},
   requires_followup_validation |-> Applied(q, s), truth |-> Truth(q, s)]

\* Mutant: a file that was refused is only listed when nothing was applied.
ResultForgetsRefused(q, s, proposals) ==
  [given |-> TRUE, applied |-> Applied(q, s),
   success |-> (Applied(q, s) \/ DryRun(q)) /\ ~GlobalBlocked(q),
   blocked |-> GlobalBlocked(q), partial |-> s.applied # {} /\ s.changes_blocked,
   human |-> Human(q, s, proposals),
   files |-> s.applied, files_blocked |-> IF s.applied = {} THEN s.refused ELSE {},
   files_requested |-> {p.file : p \in proposals},
   requires_followup_validation |-> Applied(q, s), truth |-> Truth(q, s)]

\* A request that applied nothing and refused nothing is not blocked either.
Result(q, s, proposals) ==
  [given |-> TRUE,
   applied |-> Applied(q, s),
   success |-> (Applied(q, s) \/ DryRun(q)) /\ ~GlobalBlocked(q),
   blocked |-> GlobalBlocked(q) \/ (s.applied = {} /\ s.changes_blocked),
   partial |-> s.applied # {} /\ s.changes_blocked,
   human |-> Human(q, s, proposals),
   files |-> s.applied, files_blocked |-> s.refused,
   files_requested |-> {p.file : p \in proposals},
   requires_followup_validation |-> Applied(q, s),
   truth |-> Truth(q, s)]

NoResult ==
  [given |-> FALSE, applied |-> FALSE, success |-> FALSE, blocked |-> FALSE,
   partial |-> FALSE, human |-> FALSE, files |-> {}, files_blocked |-> {},
   files_requested |-> {},
   requires_followup_validation |-> FALSE, truth |-> {}]
================================================================================
