---------------------------- MODULE PatchValidation ----------------------------
(***************************************************************************)
(* A patch is applied to the workspace, file by file, and validated,       *)
(* command by command: the loops of the patch applier and of the test      *)
(* runner loop as steps, with the exceptions neither catches, and people   *)
(* who edit the same files.  What comes out is the evidence the commit     *)
(* gate judges.                                                            *)
(***************************************************************************)
EXTENDS SandboxEvidence, SequencesExt

CONSTANTS
  Files, Kind, Commands, Traits,
  Tokens,              \* what texts are made of
  Text,                \* [Files -> the text at the start]
  ApplyRequests,       \* requests to the applier
  Patches,             \* sequences of proposals
  ValidationRequests,  \* requests to the validator
  Edits,               \* tokens a person may append to a file
  MaxText,             \* max_file_bytes of every request, in tokens
  CommandLimit,        \* commands a loop runs at most
  MaxApplies, MaxValidations, MaxEdits, MaxFaults

\* A hunk, a proposal, and the budgets of a request, which all requests are given
\* with the same size limit.
AnyHunk == [before : STRING, snippet : Tokens, bad : BOOLEAN]
AnyProposal == [file : Files, op : STRING, hunks : Seq(AnyHunk), issue : BOOLEAN]
Budgets ==
  [files : Nat \ {0}, hunks_per_file : Nat \ {0}, hunks : Nat \ {0}, size : {MaxText}]

ASSUME TextAssumption ==
  /\ "no file" \in Tokens
  /\ Text \in [Files -> Seq(Tokens)]
  /\ \A f \in Files : Len(Text[f]) <= MaxText
  /\ Edits \subseteq Tokens
ASSUME RequestAssumption ==
  /\ \A q \in ApplyRequests : q.budget \in Budgets
  /\ \A proposals \in Patches : proposals \in Seq(AnyProposal)
  /\ \A q \in ValidationRequests : q.commands \in Seq(Commands) /\ q.max \in Int
ASSUME BoundAssumption ==
  /\ MaxText \in Nat /\ MaxApplies \in Nat /\ MaxValidations \in Nat
  /\ MaxEdits \in Nat /\ MaxFaults \in Nat
  /\ CommandLimit \in Nat \ {0}

PA == INSTANCE PatchApplier
PV == INSTANCE PostPatchValidator
CG == INSTANCE CommitGate

VARIABLES
  disk,        \* file -> its text
  patch,       \* the last result of the applier
  validation,  \* the last result of the validator
  work,        \* what is going on, and how far it has come
  written,     \* files the applier's last run wrote
  ran,         \* <<command, outcome>> of the processes behind that result
  owed,        \* the commands the loop behind that result had to run
  counts       \* of applies, validations, edits and faults

vars == << disk, patch, validation, work, written, ran, owed, counts >>

Idle == [at |-> "idle"]
Bound == [applies |-> MaxApplies, validations |-> MaxValidations, edits |-> MaxEdits,
          faults |-> MaxFaults]
Count(what) == counts[what] < Bound[what] /\ counts' = [counts EXCEPT ![what] = @ + 1]

Init ==
  /\ disk = Text
  /\ patch = PA!NoResult /\ validation = PV!NoResult
  /\ work = Idle
  /\ written = {} /\ ran = {} /\ owed = {}
  /\ counts = [what \in DOMAIN Bound |-> 0]

-----------------------------------------------------------------------------
StartApply ==
  /\ work = Idle /\ Count("applies")
  /\ \E q \in ApplyRequests, proposals \in Patches :
       work' = [at |-> "apply", q |-> q, proposals |-> proposals,
                rest |-> IF PA!GlobalBlocked(q) THEN << >> ELSE proposals,
                progress |-> PA!Begun]
  /\ written' = {}
  /\ UNCHANGED << disk, patch, validation, ran, owed >>

\* One proposal: read the file, apply its hunks, write it back.
ApplyNext ==
  /\ work.at = "apply" /\ work.rest # << >>
  /\ LET p == Head(work.rest)
         tried == PA!TryProposal(work.q, work.progress, p, disk[p.file])
         writes == work.q.mode = "act" /\ tried.write # PA!NoText IN
       /\ disk' = IF writes THEN [disk EXCEPT ![p.file] = tried.write] ELSE disk
       /\ written' = IF writes THEN written \cup {p.file} ELSE written
       /\ work' = [work EXCEPT !.rest = Tail(@), !.progress = tried.progress]
  /\ UNCHANGED << patch, validation, ran, owed, counts >>

FinishApply ==
  /\ work.at = "apply" /\ work.rest = << >>
  /\ patch' = PA!Result(work.q, work.progress, Range(work.proposals))
  /\ work' = Idle
  /\ UNCHANGED << disk, validation, written, ran, owed, counts >>

-----------------------------------------------------------------------------
\* The validator judges the evidence before it starts the loop.
StartValidation ==
  /\ work = Idle /\ Count("validations")
  /\ \E q \in ValidationRequests :
       LET r == PV!LoopRequest(q) IN
       IF PV!RunsLoop(q, patch) /\ ~PV!BaseBlocked(r)
       THEN /\ work' = [at |-> "loop", q |-> q, r |-> r, loop |-> PV!Begun, ran |-> {}]
            /\ UNCHANGED << validation, ran, owed >>
       ELSE /\ validation' = PV!Result(q, patch, IF PV!RunsLoop(q, patch)
                                                 THEN PV!BlockedResult(r) ELSE PV!NoLoop)
            /\ ran' = {} /\ owed' = {}
            /\ UNCHANGED work
  /\ UNCHANGED << disk, patch, written >>

Outcomes == {"passed", "failed", "timed_out", "leaked", "leaked_past"}

\* One command of the plan: refused, classified or run to its end.
RunNext ==
  /\ work.at = "loop" /\ ~PV!Done(work.r, work.loop)
  /\ LET c == PV!Planned(work.r)[Len(work.loop.results) + 1]
         request == PV!RunnerRequest(work.r) IN
     IF PV!PlanningError(c)
     THEN work' = [work EXCEPT !.loop = PV!AfterUnplanned(work.r, @, c)]
     ELSE \E outcome \in IF PV!Runs(request, c) THEN Outcomes ELSE {"passed"} :
            work' = [work EXCEPT
              !.loop = PV!AfterCommand(work.r, @, c, PV!RunnerResult(request, c, outcome)),
              !.ran = IF PV!Runs(request, c) THEN @ \cup {<< c, outcome >>} ELSE @]
  /\ UNCHANGED << disk, patch, validation, written, ran, owed, counts >>

LoopOutOfTime ==
  /\ work.at = "loop" /\ ~PV!Done(work.r, work.loop) /\ Count("faults")
  /\ work' = [work EXCEPT !.loop = PV!OutOfTime(@)]
  /\ UNCHANGED << disk, patch, validation, written, ran, owed >>

FinishValidation ==
  /\ work.at = "loop" /\ PV!Done(work.r, work.loop)
  /\ validation' = PV!Result(work.q, patch, PV!LoopResult(work.r, work.loop))
  /\ ran' = work.ran
  /\ owed' = Range(PV!Planned(work.r))
  /\ work' = Idle
  /\ UNCHANGED << disk, patch, written, counts >>

-----------------------------------------------------------------------------
\* An unreadable file, a full disk, an executable that is not there: the
\* exception leaves whoever called without a result.
Raise ==
  /\ work # Idle /\ Count("faults")
  /\ work' = Idle
  /\ UNCHANGED << disk, patch, validation, written, ran, owed >>

Edit ==
  /\ Count("edits")
  /\ \E f \in Files, token \in Edits :
       disk' = [disk EXCEPT ![f] = IF @ = PA!NoText THEN << token >> ELSE Append(@, token)]
  /\ UNCHANGED << patch, validation, work, written, ran, owed >>

Next ==
  \/ StartApply \/ ApplyNext \/ FinishApply
  \/ StartValidation \/ RunNext \/ LoopOutOfTime \/ FinishValidation
  \/ Raise \/ Edit

Spec == Init /\ [][Next]_vars

-----------------------------------------------------------------------------
TypeOK ==
  /\ \A f \in Files : disk[f] \in Seq(Tokens)
  /\ work = Idle \/ work.at \in {"apply", "loop"}
  /\ work.at = "apply" => work.progress.hunks_applied \in 0 .. work.q.budget.hunks
  /\ written \subseteq Files
  /\ ran \subseteq Commands \X Outcomes /\ owed \subseteq Commands
  /\ \A what \in DOMAIN Bound : counts[what] \in 0 .. Bound[what]

\* What the commit gate says of the evidence, asked with every requirement on.
MayBeCommitted == CG!Eligible(Ordinary, validation, patch, {})

\* The files the applier reports as applied are the files it wrote, whatever
\* hunks were refused and whatever budget ran out.
WrittenIsReported ==
  [][patch' # patch => patch'.files = written' \/ ~patch'.applied]_vars

\* However often patches are applied, and applied again because the result was
\* lost, no file grows past the size limit by more than what people add.
FilesStayInSize ==
  \A f \in Files : Len(disk[f]) <= MaxText + counts.edits

\* A patch any of whose files was left out altogether is not committed.
RefusedFileStopsCommit == MayBeCommitted => patch.files = patch.files_requested

\* No process that failed, timed out or printed a credential within what the
\* runner keeps of its output is behind evidence the gate accepts, through loop,
\* validator and gate, whether the loop stops at the first failure or not.
FailureStopsCommit ==
  MayBeCommitted => \A run \in ran : run[2] \in {"passed", "leaked_past"}

\* Evidence the gate accepts, if any command was run for it, has a process of
\* every command the loop had to run behind it: one that the loop or a later layer
\* refused, or that was never reached, is not passed over among those that passed.
NothingIsPassedOver ==
  MayBeCommitted /\ validation.executed > 0 => \A c \in owed : \E run \in ran : run[1] = c
================================================================================
