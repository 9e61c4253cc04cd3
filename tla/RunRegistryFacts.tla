--------------------------- MODULE RunRegistryFacts ---------------------------
(***************************************************************************)
(* Lemmas about the operators of RunRegistry: the inferences stay within   *)
(* their vocabularies, every write makes a row of a row, and the two audit *)
(* trails of a row keep telling one story.                                 *)
(***************************************************************************)
EXTENDS RunRegistry, TLAPS

-----------------------------------------------------------------------------
(* The inferences. *)

\* infer_governance_reason answers with a reason.
LEMMA ReasonType ==
  ASSUME NEW action \in LastActions, NEW status \in Statuses
  PROVE  InferGovernanceReason(action, status) \in Reasons
BY DEF InferGovernanceReason, StatusReason, Reasons

\* infer_resolution_state answers with a resolution state.
LEMMA ResolutionStateType ==
  ASSUME NEW status \in Statuses, NEW reason \in Reasons
  PROVE  InferResolutionState(status, reason) \in Resolutions
<1>1. StatusResolution[status] \in Resolutions
  BY DEF Statuses, StatusResolution, Resolutions
<1> QED BY <1>1 DEF InferResolutionState, Resolutions

\* infer_event_type_from_transition answers with an event type.
LEMMA EventTypeType ==
  ASSUME NEW status \in Statuses, NEW reason \in Reasons, NEW current \in Resolutions
  PROVE  InferEventType(reason, status, current) \in EventTypes
<1>1. reason \in DOMAIN ReasonEvent => ReasonEvent[reason] \in EventTypes
  BY DEF ReasonEvent, EventTypes
<1>2. current \in DOMAIN ResolutionEvent => ResolutionEvent[current] \in EventTypes
  BY DEF ResolutionEvent, EventTypes
<1> QED BY <1>1, <1>2 DEF InferEventType, EventTypes

\* transition_resolution stores a resolution record.
LEMMA ResolutionForType ==
  ASSUME NEW status \in Statuses, NEW reason \in Reasons
  PROVE  ResolutionFor(status, reason) \in Resolution
BY ResolutionStateType DEF ResolutionFor, Resolution

-----------------------------------------------------------------------------
(* seq[-cap:] *)

\* What LastN returns: the last items, at most cap of them.
LEMMA LastNProperties ==
  ASSUME NEW S, NEW seq \in Seq(S), NEW cap \in Nat
  PROVE  /\ LastN(seq, cap) \in Seq(S)
         /\ Len(LastN(seq, cap)) = IF Len(seq) <= cap THEN Len(seq) ELSE cap
         /\ \A k \in 0 .. Len(LastN(seq, cap)) - 1 :
              LastN(seq, cap)[Len(LastN(seq, cap)) - k] = seq[Len(seq) - k]
<1>1. CASE Len(seq) <= cap
  BY <1>1 DEF LastN
<1>2. CASE Len(seq) > cap
  <2> DEFINE m == Len(seq) - cap + 1
             sub == SubSeq(seq, m, Len(seq))
  <2>1. LastN(seq, cap) = sub
    BY <1>2 DEF LastN
  <2>2. m \in 1 .. Len(seq) + 1 /\ Len(seq) \in Nat
    BY <1>2
  <2>3. sub \in Seq(S) /\ Len(sub) = cap
    BY <2>2
  <2>4. \A k \in 0 .. cap - 1 : sub[cap - k] = seq[Len(seq) - k]
    BY <2>2, <2>3
  <2> QED BY <1>2, <2>1, <2>3, <2>4
<1> QED BY <1>1, <1>2

-----------------------------------------------------------------------------
(* Rows. *)

\* RunRecord.build makes a row.
LEMMA NewRowType ==
  ASSUME NEW status \in Statuses, NEW action \in LastActions, NEW enabled \in Enablement
  PROVE  NewRow(status, action, enabled) \in Row
<1> DEFINE res == ResolutionFor(status, InferGovernanceReason(action, status))
           event == EventFor("start", res, status)
<1>1. res \in Resolution
  BY ReasonType, ResolutionForType
<1>2. event \in Event
  BY <1>1 DEF EventFor, Event, EventTypes
<1>3. << >> \in Seq(Resolution) /\ << event >> \in Seq(Event)
  BY <1>2
<1> HIDE DEF res, event
<1>4. [status |-> status, lastAction |-> action, enabled |-> enabled,
       resolution |-> res, history |-> << >>, timeline |-> << event >>] \in Row
  BY <1>1, <1>3 DEF Row
<1> QED BY <1>4 DEF NewRow, res, event

\* register over a row that exists makes a row.
LEMMA MergedRowType ==
  ASSUME NEW row \in Row, NEW status \in Statuses, NEW action \in LastActions,
         NEW enabled \in Enablement
  PROVE  MergedRow(row, status, action, enabled) \in Row
<1> DEFINE res == ResolutionFor(status, InferGovernanceReason(action, status))
<1>1. res \in Resolution
  BY ReasonType, ResolutionForType
<1> HIDE DEF res
<1>2. [row EXCEPT !.status = status, !.lastAction = action,
                  !.enabled = IF enabled = "absent" THEN @ ELSE enabled,
                  !.resolution = res] \in Row
  BY <1>1 DEF Row
<1> QED BY <1>2 DEF MergedRow, res

\* Registration turns a row or none into a row.
LEMMA RegisteredType ==
  ASSUME NEW row \in Row \cup {NoRow}, NEW status \in Statuses,
         NEW action \in LastActions, NEW enabled \in Enablement
  PROVE  Registered(row, status, action, enabled) \in Row
BY NewRowType, MergedRowType DEF Registered

\* update_status makes a row of a row.
LEMMA TransitionedType ==
  ASSUME NEW row \in Row, NEW status \in Statuses, NEW action \in LastActions,
         NEW reason \in Reasons
  PROVE  Transitioned(row, status, action, reason) \in Row
<1> DEFINE res == ResolutionFor(status, reason)
           event == EventFor(InferEventType(reason, status, res.current), res, status)
           hist == LastN(Append(row.history, res), HistoryCap)
           line == LastN(Append(row.timeline, event), TimelineCap)
<1>1. res \in Resolution
  BY ResolutionForType
<1>2. res.current \in Resolutions
  BY <1>1 DEF Resolution
<1>3. event \in Event
  BY <1>1, <1>2, EventTypeType DEF EventFor, Event
<1>4. Append(row.history, res) \in Seq(Resolution) /\ Append(row.timeline, event) \in Seq(Event)
  <2> HIDE DEF res, event
  <2> QED BY <1>1, <1>3 DEF Row
<1>5. hist \in Seq(Resolution) /\ line \in Seq(Event)
  <2> HIDE DEF res, event
  <2> QED BY <1>4, LastNProperties, CapAssumption
<1> HIDE DEF res, event, hist, line
<1>6. [row EXCEPT !.status = status, !.lastAction = action, !.resolution = res,
                  !.history = hist, !.timeline = line] \in Row
  BY <1>1, <1>5 DEF Row
<1> QED BY <1>6 DEF Transitioned, res, event, hist, line

\* update_status with a reason makes a row of a row.
LEMMA UpdatedType ==
  ASSUME NEW row \in Row \cup {NoRow}, NEW status \in Statuses,
         NEW action \in LastActions, NEW reason \in Reasons
  PROVE  Updated(row, status, action, reason) \in Row \cup {NoRow}
BY TransitionedType DEF Updated

\* update_status without one infers it, and makes a row of a row.
LEMMA UpdatedByTextType ==
  ASSUME NEW row \in Row \cup {NoRow}, NEW status \in Statuses,
         NEW action \in LastActions
  PROVE  UpdatedByText(row, status, action) \in Row \cup {NoRow}
BY ReasonType, UpdatedType DEF UpdatedByText

\* An operator command makes a row of a row.
LEMMA CommandedType ==
  ASSUME NEW row \in Row \cup {NoRow}, NEW command \in OperatorCommands
  PROVE  Commanded(row, command) \in Row \cup {NoRow}
<1>1. /\ OperatorStatus[command] \in Statuses
      /\ OperatorText[command] \in LastActions
      /\ OperatorText[command] \in Reasons
  <2>1. /\ OperatorStatus["pause"] = "paused"
        /\ OperatorStatus["resume"] = "running"
        /\ OperatorStatus["approve"] = "running"
    BY DEF OperatorStatus
  <2>2. /\ OperatorText["pause"] = "operator_pause"
        /\ OperatorText["resume"] = "operator_resume"
        /\ OperatorText["approve"] = "operator_approve"
    BY DEF OperatorText
  <2>3. command = "pause" \/ command = "resume" \/ command = "approve"
    BY DEF OperatorCommands
  <2>4. \A text \in {"operator_pause", "operator_resume", "operator_approve"} :
          text \in LastActions /\ text \in Reasons
    BY DEF LastActions, PauseTexts, Reasons
  <2> QED BY <2>1, <2>2, <2>3, <2>4 DEF Statuses
<1> QED BY <1>1, UpdatedType DEF Commanded
=============================================================================
