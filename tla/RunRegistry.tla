----------------------------- MODULE RunRegistry -----------------------------
(***************************************************************************)
(* What the two writing operations of RunRegistry do to one row of the     *)
(* registry document: `register' builds a row or merges into the one that  *)
(* exists, `update_status' moves a row to a new status, resolution, audit  *)
(* history and governance timeline.                                        *)
(*                                                                         *)
(* A row keeps what decides control and what the audit trail says; ids,    *)
(* timestamps, progress and free metadata are left out, except the one     *)
(* metadata key control depends on, operator_control_enabled.              *)
(***************************************************************************)
EXTENDS Naturals, Sequences, GovernanceTaxonomy

CONSTANTS
  NoRow,        \* stands for the row of a run the registry does not know
  HistoryCap,   \* resolution_history keeps its last 40 entries
  TimelineCap   \* governance_timeline keeps its last 80 entries

ASSUME CapAssumption ==
  /\ HistoryCap \in Nat
  /\ TimelineCap \in Nat
  /\ HistoryCap < TimelineCap

\* The metadata key: a registration carries it as true or not at all.
Enablement == {"absent", "on"}

Resolution == [current : Resolutions, reason : Reasons]

Event == [type : EventTypes, resolution : Resolution, status : Statuses]

Row == [status     : Statuses,
        lastAction : LastActions,
        enabled    : Enablement,
        resolution : Resolution,
        history    : Seq(Resolution),
        timeline   : Seq(Event)]

ASSUME NoRowAssumption == NoRow \notin Row

-----------------------------------------------------------------------------
\* seq[-cap:]
LastN(seq, cap) ==
  IF Len(seq) <= cap THEN seq ELSE SubSeq(seq, Len(seq) - cap + 1, Len(seq))

ResolutionFor(status, reason) ==
  [current |-> InferResolutionState(status, reason), reason |-> reason]

EventFor(type, resolution, status) ==
  [type |-> type, resolution |-> resolution, status |-> status]

\* RunRecord.build without a timeline: a new row, with its start event.
NewRow(status, action, enabled) ==
  LET resolution == ResolutionFor(status, InferGovernanceReason(action, status))
  IN [status     |-> status,
      lastAction |-> action,
      enabled    |-> enabled,
      resolution |-> resolution,
      history    |-> << >>,
      timeline   |-> << EventFor("start", resolution, status) >>]

\* Mutant: the merge records a start of its own.
MergedRowStartsAgain(row, status, action, enabled) ==
  LET resolution == ResolutionFor(status, InferGovernanceReason(action, status))
  IN [row EXCEPT
        !.status     = status,
        !.lastAction = action,
        !.enabled    = IF enabled = "absent" THEN @ ELSE enabled,
        !.resolution = resolution,
        !.timeline   = LastN(Append(@, EventFor("start", resolution, status)), TimelineCap)]

\* register over a row that exists: status, last action and resolution are
\* those of the new registration, history and timeline stay as they were.
MergedRow(row, status, action, enabled) ==
  [row EXCEPT
     !.status     = status,
     !.lastAction = action,
     !.enabled    = IF enabled = "absent" THEN @ ELSE enabled,
     !.resolution = ResolutionFor(status, InferGovernanceReason(action, status))]

Registered(row, status, action, enabled) ==
  IF row = NoRow THEN NewRow(status, action, enabled)
                 ELSE MergedRow(row, status, action, enabled)

\* Mutant: the two caps are exchanged.
TransitionedCapsExchanged(row, status, action, reason) ==
  LET resolution == ResolutionFor(status, reason)
      event == EventFor(InferEventType(reason, status, resolution.current),
                        resolution, status)
  IN [row EXCEPT
        !.status     = status,
        !.lastAction = action,
        !.resolution = resolution,
        !.history    = LastN(Append(@, resolution), TimelineCap),
        !.timeline   = LastN(Append(@, event), HistoryCap)]

\* update_status with an explicit reason.
Transitioned(row, status, action, reason) ==
  LET resolution == ResolutionFor(status, reason)
      event == EventFor(InferEventType(reason, status, resolution.current),
                        resolution, status)
  IN [row EXCEPT
        !.status     = status,
        !.lastAction = action,
        !.resolution = resolution,
        !.history    = LastN(Append(@, resolution), HistoryCap),
        !.timeline   = LastN(Append(@, event), TimelineCap)]

\* update_status of a run that may be unknown: an unknown run stays unknown.
Updated(row, status, action, reason) ==
  IF row = NoRow THEN NoRow ELSE Transitioned(row, status, action, reason)

\* update_status without a reason: the action's text gives it.
UpdatedByText(row, status, action) ==
  Updated(row, status, action, InferGovernanceReason(action, status))

-----------------------------------------------------------------------------
\* The rows an operator is asked to act on, and the ones the runtime waits for.
WaitsForOperator(row) ==
  /\ row # NoRow
  /\ \/ row.status = "awaiting_approval"
     \/ row.status = "paused" /\ IsOperatorText(row.lastAction)

\* The operators' three commands, as handle_operator_action applies them.
OperatorCommands == {"pause", "resume", "approve"}

OperatorStatus == [pause |-> "paused", resume |-> "running", approve |-> "running"]

OperatorText == [pause |-> "operator_pause", resume |-> "operator_resume",
                 approve |-> "operator_approve"]

Commanded(row, command) ==
  Updated(row, OperatorStatus[command], OperatorText[command],
          OperatorText[command])
=============================================================================
