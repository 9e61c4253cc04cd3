------------------------------ MODULE RunControl ------------------------------
(***************************************************************************)
(* One run of a linear plan under operator control.                        *)
(*                                                                         *)
(* An attempt registers the run twice (before and after planning), passes  *)
(* the control gate, then for each action waits for the run registry to    *)
(* clear it, executes it through the specialists, decides whether to go    *)
(* on and saves a checkpoint; it ends with a final checkpoint and a        *)
(* terminal status.  Operators write to the same row from command lines of *)
(* their own, at any time.  A process may die anywhere; a resume starts a  *)
(* new attempt over the actions the checkpoint lists as remaining.         *)
(*                                                                         *)
(* The registry is the atomic one of AtomicRegistry, which RegistryStore   *)
(* implements.  Actions are numbered 0 .. N - 1 over the whole run, also   *)
(* when a resume numbers what remains from 0 again.                        *)
(***************************************************************************)
EXTENDS RunRegistry, FiniteSets

CONSTANTS
  N,             \* actions of the plan
  MaxSteps,      \* OMNI_MAX_STEPS: actions one attempt may take
  MaxPolls,      \* polls that fit in OMNI_RUN_CONTROL_MAX_WAIT_SECONDS
  NoCheckpoint,  \* stands for the checkpoint file before the first save
  MaxAttempts,   \* bound: the first attempt and the resumes
  MaxCommands,   \* bound on operator commands
  MaxCrashes,    \* bound on attempts that die
  MaxFaults      \* bound on writes that fail and are swallowed

Actions == 0 .. N - 1

Checkpoint == [status : {"running", "blocked", "completed"}, next : 0 .. N]

ASSUME RunControlAssumption ==
  /\ N \in Nat
  /\ MaxSteps \in Nat
  /\ MaxPolls \in Nat
  /\ NoCheckpoint \notin Checkpoint
  /\ MaxAttempts \in Nat
  /\ MaxCommands \in Nat
  /\ MaxCrashes \in Nat
  /\ MaxFaults \in Nat

VARIABLES
  row,         \* the run's row in the registry, or NoRow
  checkpoint,  \* the run's checkpoint file, or NoCheckpoint
  pc,          \* where the attempt is; "idle" after its end, "dead" after a crash
  first,       \* first action of the attempt
  count,       \* len(step_results)
  allOk,       \* all(item.ok for item in step_results)
  stop,        \* should_stop of the last continuation decision
  polls,       \* polls of the present clearance
  execs,       \* history: action -> times it was executed
  refused,     \* history: actions the clearance did not let pass
  vetoed,      \* history: actions governance blocked
  lost,        \* history: the status that was to end the last attempt was not written
  overrun,     \* history: actions begun since the row asks to wait
  attempts, commands, crashes, faults

attemptVars == << pc, first, count, allOk, stop, polls >>
historyVars == << execs, refused, vetoed, lost >>
boundVars == << attempts, commands, crashes, faults >>
vars == << row, checkpoint, attemptVars, historyVars, overrun, boundVars >>

Labels == {"idle", "start", "plan", "gate", "refuse", "clear", "expire",
           "execute", "hold", "decide", "save", "final", "terminal", "dead"}

TypeOK ==
  /\ row \in Row \cup {NoRow}
  /\ checkpoint \in Checkpoint \cup {NoCheckpoint}
  /\ pc \in Labels
  /\ first \in 0 .. N
  /\ count \in 0 .. N
  /\ allOk \in BOOLEAN
  /\ stop \in BOOLEAN
  /\ polls \in 0 .. MaxPolls
  /\ execs \in [Actions -> Nat]
  /\ refused \subseteq Actions
  /\ vetoed \subseteq Actions
  /\ lost \in BOOLEAN
  /\ overrun \in Nat
  /\ attempts \in 0 .. MaxAttempts
  /\ commands \in 0 .. MaxCommands
  /\ crashes \in 0 .. MaxCrashes
  /\ faults \in 0 .. MaxFaults

Init ==
  /\ row = NoRow
  /\ checkpoint = NoCheckpoint
  /\ pc = "idle"
  /\ first = 0 /\ count = 0 /\ allOk = TRUE /\ stop = FALSE /\ polls = 0
  /\ execs = [a \in Actions |-> 0]
  /\ refused = {} /\ vetoed = {} /\ lost = FALSE
  /\ overrun = 0
  /\ attempts = 0 /\ commands = 0 /\ crashes = 0 /\ faults = 0

-----------------------------------------------------------------------------
\* The action the attempt is at, and the action its slice ends before.
Index == first + count

Limit == first + (IF N - first < MaxSteps THEN N - first ELSE MaxSteps)

\* The clearance waits only on runs registered with operator control.
MustWait == WaitsForOperator(row) /\ row.enabled = "on"

\* The row as written; what was begun under the old row stays counted only
\* while the new one asks to wait as well.
WriteRow(new) ==
  /\ row' = new
  /\ overrun' = IF WaitsForOperator(row) /\ WaitsForOperator(new)
                THEN overrun ELSE 0

\* A write whose failure is logged or swallowed: the caller goes on.
Swallowed == faults < MaxFaults /\ faults' = faults + 1

TryRow(new) ==
  \/ WriteRow(new) /\ UNCHANGED faults
  \/ Swallowed /\ UNCHANGED << row, overrun >>

TryCheckpoint(status, next) ==
  \/ checkpoint' = [status |-> status, next |-> next] /\ UNCHANGED faults
  \/ Swallowed /\ UNCHANGED checkpoint

otherBounds == << attempts, commands, crashes >>

Goto(label) ==
  pc' = label /\ UNCHANGED << first, count, allOk, stop, polls >>

\* Mutant: the outcome of the action is not looked at.
AppendResultAsOk(ok, label) ==
  /\ pc' = label
  /\ count' = count + 1
  /\ UNCHANGED << first, allOk, stop, polls >>

\* One more item in step_results; the attempt goes on at label.
AppendResult(ok, label) ==
  /\ pc' = label
  /\ count' = count + 1
  /\ allOk' = (allOk /\ ok)
  /\ UNCHANGED << first, stop, polls >>

-----------------------------------------------------------------------------
\* No attempt is under way.
AtRest == pc \in {"idle", "dead"}

\* Mutant: a resume takes the plan from its first action.
StartAttemptAfresh(a) ==
  /\ AtRest
  /\ attempts < MaxAttempts
  /\ attempts' = attempts + 1
  /\ pc' = "start" /\ first' = 0 /\ count' = 0
  /\ allOk' = TRUE /\ stop' = FALSE /\ polls' = 0 /\ lost' = FALSE
  /\ UNCHANGED << row, checkpoint, execs, refused, vetoed, overrun,
                  commands, crashes, faults >>

\* A new attempt over the actions from index a on.
StartAttempt(a) ==
  /\ AtRest
  /\ attempts < MaxAttempts
  /\ attempts' = attempts + 1
  /\ pc' = "start" /\ first' = a /\ count' = 0
  /\ allOk' = TRUE /\ stop' = FALSE /\ polls' = 0 /\ lost' = FALSE
  /\ UNCHANGED << row, checkpoint, execs, refused, vetoed, overrun,
                  commands, crashes, faults >>

Begin == attempts = 0 /\ StartAttempt(0)

\* resume_run; without remaining actions it changes nothing.
Resume ==
  /\ checkpoint # NoCheckpoint
  /\ checkpoint.next < N
  /\ StartAttempt(checkpoint.next)

RegisterStart ==
  /\ pc = "start"
  /\ TryRow(Registered(row, "running", "execution_started", "on"))
  /\ Goto("plan")
  /\ UNCHANGED << checkpoint, historyVars, otherBounds >>

RegisterPlan ==
  /\ pc = "plan"
  /\ TryRow(Registered(row, "running", "plan_initialized", "absent"))
  /\ Goto("gate")
  /\ UNCHANGED << checkpoint, historyVars, otherBounds >>

\* Control layer, supervision or simulation review stop the attempt.
GateRefuses ==
  /\ pc = "gate"
  /\ TryCheckpoint("blocked", first)
  /\ Goto("refuse")
  /\ UNCHANGED << row, overrun, historyVars, otherBounds >>

WriteRefusal ==
  /\ pc = "refuse"
  /\ \E text \in PolicyTexts : TryRow(UpdatedByText(row, "failed", text))
  /\ lost' = (faults' > faults)
  /\ Goto("idle")
  /\ UNCHANGED << checkpoint, execs, refused, vetoed, otherBounds >>

GatePasses ==
  /\ pc = "gate"
  /\ TryCheckpoint("running", first)
  /\ Goto(IF Index < Limit THEN "clear" ELSE "final")
  /\ UNCHANGED << row, overrun, historyVars, otherBounds >>

-----------------------------------------------------------------------------
\* Mutant: only an approval is waited for, not the end of a pause.
ClearedWhilePaused ==
  /\ pc = "clear"
  /\ row # NoRow /\ row.enabled = "on" => row.status \in {"running", "paused"}
  /\ Goto("execute")
  /\ UNCHANGED << row, checkpoint, historyVars, overrun, boundVars >>

\* await_run_control_clearance, one tick at a time.
Cleared ==
  /\ pc = "clear"
  /\ row # NoRow /\ row.enabled = "on" => row.status = "running"
  /\ Goto("execute")
  /\ UNCHANGED << row, checkpoint, historyVars, overrun, boundVars >>

\* Mutant: every poll has the whole time before it again.
KeepWaitingAnew ==
  /\ pc = "clear"
  /\ MustWait
  /\ polls < MaxPolls
  /\ UNCHANGED vars

\* Mutant: the deadline is not looked at.
KeepWaitingOn ==
  /\ pc = "clear"
  /\ MustWait
  /\ polls' = polls + 1
  /\ UNCHANGED << row, checkpoint, pc, first, count, allOk, stop,
                  historyVars, overrun, boundVars >>

KeepWaiting ==
  /\ pc = "clear"
  /\ MustWait
  /\ polls < MaxPolls
  /\ polls' = polls + 1
  /\ UNCHANGED << row, checkpoint, pc, first, count, allOk, stop,
                  historyVars, overrun, boundVars >>

WaitExpires ==
  /\ pc = "clear"
  /\ MustWait
  /\ polls = MaxPolls
  /\ Goto("expire")
  /\ UNCHANGED << row, checkpoint, historyVars, overrun, boundVars >>

\* The placeholder result that stands for the action not cleared.
Decline ==
  /\ refused' = refused \cup {Index}
  /\ AppendResult(FALSE, "final")
  /\ UNCHANGED << execs, vetoed, lost >>

\* The timeout is written after the tick that decided on it.
Timeout ==
  /\ pc = "expire"
  /\ WriteRow(Updated(row, "failed", "operator_timeout", "timeout"))
  /\ Decline
  /\ UNCHANGED << checkpoint, boundVars >>

\* The row is neither running nor waiting for an operator.
Refused ==
  /\ pc = "clear"
  /\ row # NoRow /\ row.enabled = "on"
  /\ row.status # "running" /\ ~ WaitsForOperator(row)
  /\ Decline
  /\ UNCHANGED << row, checkpoint, overrun, boundVars >>

RegistryUnavailable ==
  /\ pc = "clear"
  /\ Swallowed
  /\ Decline
  /\ UNCHANGED << row, checkpoint, overrun, otherBounds >>

-----------------------------------------------------------------------------
\* The executor specialist runs the action; a governance hold found on the
\* way is written after it.
Execute ==
  /\ pc = "execute"
  /\ execs' = [execs EXCEPT ![Index] = @ + 1]
  /\ overrun' = IF WaitsForOperator(row) THEN overrun + 1 ELSE 0
  /\ \E ok \in BOOLEAN, next \in {"hold", "decide"} : AppendResult(ok, next)
  /\ UNCHANGED << row, checkpoint, refused, vetoed, lost, boundVars >>

\* Governance blocks the plan decision: the executor is not asked.
Vetoed ==
  /\ pc = "execute"
  /\ vetoed' = vetoed \cup {Index}
  /\ AppendResult(FALSE, "decide")
  /\ UNCHANGED << row, checkpoint, execs, refused, lost, overrun, boundVars >>

Hold ==
  /\ pc = "hold"
  /\ WriteRow(Updated(row, "awaiting_approval", "governance_hold", "governance_hold"))
  /\ Goto("decide")
  /\ UNCHANGED << checkpoint, historyVars, boundVars >>

\* _handle_continuation_decision: what it writes, and whether it stops.
Decided(mustStop) ==
  /\ pc' = "save"
  /\ stop' = mustStop
  /\ UNCHANGED << first, count, allOk, polls, checkpoint, historyVars, otherBounds >>

\* No decision, continue or retry; and rebuild, which stops without a write.
GoOn ==
  /\ pc = "decide"
  /\ \E mustStop \in BOOLEAN : Decided(mustStop)
  /\ UNCHANGED << row, overrun, faults >>

StopWith(status, texts) ==
  /\ pc = "decide"
  /\ \E text \in texts : TryRow(UpdatedByText(row, status, text))
  /\ Decided(TRUE)

PausePlan == StopWith("paused", {"goal_stop_condition", "continuation_requires_pause",
                                 "simulation_high_confidence_pause"})
CompletePlan == StopWith("completed", {"goal_achieved", "plan_completed"})
EscalateFailure == StopWith("failed", {"goal_blocked", "unsafe_to_continue"})

\* Mutant: the checkpoint names the action just taken instead of the next.
SaveStepBehind ==
  /\ pc = "save"
  /\ TryCheckpoint(IF allOk THEN "running" ELSE "blocked", Index - 1)
  /\ pc' = IF stop \/ ~ allOk \/ Index = Limit THEN "final" ELSE "clear"
  /\ polls' = 0
  /\ UNCHANGED << row, overrun, first, count, allOk, stop, historyVars, otherBounds >>

SaveStep ==
  /\ pc = "save"
  /\ TryCheckpoint(IF allOk THEN "running" ELSE "blocked", Index)
  /\ pc' = IF stop \/ ~ allOk \/ Index = Limit THEN "final" ELSE "clear"
  /\ polls' = 0
  /\ UNCHANGED << row, overrun, first, count, allOk, stop, historyVars, otherBounds >>

-----------------------------------------------------------------------------
\* Mutant: the closing checkpoint passes over what the slice left undone.
SaveFinalPast ==
  /\ pc = "final"
  /\ TryCheckpoint(IF Index = N /\ count > 0 /\ allOk THEN "completed" ELSE "blocked",
                   Limit)
  /\ Goto("terminal")
  /\ UNCHANGED << row, overrun, historyVars, otherBounds >>

\* The closing checkpoint, written twice with the same cursor and status.
SaveFinal ==
  /\ pc = "final"
  /\ TryCheckpoint(IF Index = N /\ count > 0 /\ allOk THEN "completed" ELSE "blocked",
                   Index)
  /\ Goto("terminal")
  /\ UNCHANGED << row, overrun, historyVars, otherBounds >>

\* Mutant: an attempt that did not succeed writes no terminal status.
WriteTerminalOnSuccess ==
  /\ pc = "terminal"
  /\ IF count > 0 /\ allOk
     THEN WriteRow(Updated(row, "completed", "goal_completed", "completed"))
     ELSE UNCHANGED << row, overrun >>
  /\ Goto("idle")
  /\ UNCHANGED << checkpoint, historyVars, boundVars >>

\* apply_fusion_terminal_status
WriteTerminal ==
  /\ pc = "terminal"
  /\ WriteRow(IF count > 0 /\ allOk
              THEN Updated(row, "completed", "goal_completed", "completed")
              ELSE UpdatedByText(row, "failed", "goal_failed"))
  /\ Goto("idle")
  /\ UNCHANGED << checkpoint, historyVars, boundVars >>

\* The process dies, or an exception leaves the attempt.
Crash ==
  /\ ~ AtRest
  /\ crashes < MaxCrashes
  /\ crashes' = crashes + 1
  /\ Goto("dead")
  /\ UNCHANGED << row, checkpoint, historyVars, overrun, attempts, commands, faults >>

\* An operator's pause, resume or approve, from a process of its own.
Operate ==
  /\ row # NoRow
  /\ commands < MaxCommands
  /\ commands' = commands + 1
  /\ \E command \in OperatorCommands : WriteRow(Commanded(row, command))
  /\ UNCHANGED << checkpoint, attemptVars, historyVars, attempts, crashes, faults >>

Attempt ==
  \/ RegisterStart \/ RegisterPlan
  \/ GateRefuses \/ WriteRefusal \/ GatePasses
  \/ Cleared \/ KeepWaiting \/ WaitExpires \/ Timeout \/ Refused \/ RegistryUnavailable
  \/ Execute \/ Vetoed \/ Hold
  \/ GoOn \/ PausePlan \/ CompletePlan \/ EscalateFailure \/ SaveStep
  \/ SaveFinal \/ WriteTerminal

Next == Begin \/ Resume \/ Attempt \/ Crash \/ Operate

Spec == Init /\ [][Next]_vars

\* The attempt's thread keeps running; nobody has to begin, resume or operate.
FairSpec == Spec /\ WF_vars(Attempt)

-----------------------------------------------------------------------------
\* A pause, or a hold, bites: between the moment the row asks the runtime to
\* wait and the moment somebody answers, at most the one action begins that
\* the clearance had let pass before.
PauseBites ==
  row # NoRow /\ row.enabled = "on" /\ WaitsForOperator(row) => overrun <= 1

\* The saved cursor, and the action the run is at.
Saved == IF checkpoint = NoCheckpoint THEN 0 ELSE checkpoint.next

At == IF AtRest THEN Saved ELSE Index

\* Nothing is lost on the way from checkpoint to resume: an action behind the
\* cursor was executed, or somebody decided against it.
NothingLost ==
  \A a \in Actions : a < Saved => execs[a] > 0 \/ a \in refused \cup vetoed

\* Across resumes an action is executed again only if the attempt that executed
\* it died before its checkpoint, or could not save it.  Both are counted over the
\* whole run: no action is executed oftener than they and once.
NoNeedlessRepeat ==
  \A a \in Actions : execs[a] <= 1 + crashes + faults

\* An attempt that ran to its end leaves no run behind that looks active, whatever
\* writes of it failed before, checkpoints, registrations and decisions included:
\* only an operator makes it active again, or the very write of its end was lost.
EndIsSettled ==
  pc = "idle" /\ row # NoRow /\ row.status \in ActiveStatuses =>
    IsOperatorText(row.lastAction) \/ lost

\* A run at rest that the registry calls completed executed what it took: no
\* action of the last attempt was refused, vetoed or left out.  The exception is a
\* refused resume of a completed run whose three status writes all failed.
CompletedMeansExecuted ==
  pc = "idle" /\ row # NoRow /\ row.status = "completed" =>
    \/ count > 0 /\ allOk /\ \A a \in first .. Index - 1 : execs[a] > 0
    \/ count = 0 /\ faults > 2

\* Every attempt ends, whether or not anybody answers the questions it waits on.
AttemptEnds == ~ AtRest ~> AtRest

\* The plan as a durable cursor: see ActionCursor.
Cursor ==
  INSTANCE ActionCursor
    WITH saved <- Saved, at <- At, declined <- refused \cup vetoed

ImplementsCursor == Cursor!Spec

-----------------------------------------------------------------------------
\* "If constraint registry context is absent or partial, governance does not
\* fail open": a held run goes on only by an operator's command, or fails.
HoldNeedsOperator ==
  [][row # NoRow /\ row.status = "awaiting_approval"
       /\ row'.status \in {"running", "completed"} => commands' > commands]_vars

\* The checkpoint keeps the "next actionable index": an action the clearance
\* did not let pass is still to be done.
RefusedIsStillToDo == \A a \in refused : Saved <= a \/ execs[a] > 0
=============================================================================
