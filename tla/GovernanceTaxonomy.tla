------------------------- MODULE GovernanceTaxonomy -------------------------
(***************************************************************************)
(* The vocabulary of the run control plane and the three pure inferences   *)
(* every status write goes through: from the text of the last action and   *)
(* the new status to a reason, from status and reason to a resolution      *)
(* state, and from both to the type of the timeline event.                 *)
(*                                                                         *)
(* An action text is one of the literals the runtime writes.  The code     *)
(* looks for keywords inside it; the sets below say which literals contain *)
(* which keyword, and no literal contains two, so the order of the code's  *)
(* tests is immaterial except for the final fall back on the status.       *)
(***************************************************************************)

Statuses == {"running", "paused", "completed", "failed", "awaiting_approval"}

ActiveStatuses == {"running", "paused", "awaiting_approval"}

Reasons ==
  {"operator_pause", "operator_approve", "operator_resume", "governance_hold",
   "promotion_rollback_threshold", "packaged_import_failed", "timeout",
   "policy_block", "unsafe_state", "completed", "failed"}

Resolutions ==
  {"running", "hold", "paused", "approved", "resumed", "rollback", "blocked",
   "completed", "failed"}

EventTypes ==
  {"start", "hold", "pause", "resume", "approve", "rollback", "timeout",
   "complete", "fail", "blocked", "update"}

-----------------------------------------------------------------------------
\* The literals the runtime passes as last_action, by the keyword they contain.
PauseTexts == {"operator_pause", "pause_plan", "continuation_requires_pause",
               "simulation_high_confidence_pause"}
PolicyTexts == {"control_layer_blocked", "simulation_stop", "supervision_stop"}
PlainTexts == {"execution_started", "plan_initialized", "goal_achieved",
               "plan_completed", "goal_blocked", "unsafe_to_continue",
               "goal_stop_condition"}

LastActions ==
  PauseTexts \cup PolicyTexts \cup PlainTexts \cup
  {"governance_hold", "operator_approve", "operator_resume",
   "operator_timeout", "engine_promotion_rollback", "goal_completed",
   "goal_failed"}

\* str(last_action).startswith("operator_")
IsOperatorText(action) ==
  action \in {"operator_pause", "operator_approve", "operator_resume",
              "operator_timeout"}

-----------------------------------------------------------------------------
StatusReason(action, status) ==
  IF status = "completed" \/ action = "goal_completed" THEN "completed"
  ELSE IF status = "failed" \/ action = "goal_failed" THEN "failed"
  ELSE "unsafe_state"

InferGovernanceReason(action, status) ==
  CASE action = "governance_hold"           -> "governance_hold"
    [] action \in PauseTexts                -> "operator_pause"
    [] action = "operator_approve"          -> "operator_approve"
    [] action = "operator_resume"           -> "operator_resume"
    [] action = "operator_timeout"          -> "timeout"
    [] action = "engine_promotion_rollback" -> "promotion_rollback_threshold"
    [] action \in PolicyTexts               -> "policy_block"
    [] OTHER                                -> StatusReason(action, status)

StatusResolution == [running |-> "running", paused |-> "paused",
                     completed |-> "completed", failed |-> "failed",
                     awaiting_approval |-> "hold"]

InferResolutionState(status, reason) ==
  CASE reason = "promotion_rollback_threshold" -> "rollback"
    [] reason = "operator_approve"             -> "approved"
    [] reason = "operator_resume"              -> "resumed"
    [] reason = "policy_block"                 -> "blocked"
    [] reason = "governance_hold"              -> "hold"
    [] OTHER                                   -> StatusResolution[status]

\* The reasons and the resolutions that name an event by themselves.
ReasonEvent == [operator_pause |-> "pause", operator_resume |-> "resume",
                operator_approve |-> "approve", governance_hold |-> "hold",
                promotion_rollback_threshold |-> "rollback",
                timeout |-> "timeout", policy_block |-> "blocked"]

ResolutionEvent == [hold |-> "hold", paused |-> "pause",
                    approved |-> "approve", resumed |-> "resume"]

InferEventType(reason, status, current) ==
  IF reason \in DOMAIN ReasonEvent THEN ReasonEvent[reason]
  ELSE IF current = "blocked" THEN "blocked"
  ELSE IF reason = "completed" \/ status = "completed" THEN "complete"
  ELSE IF reason = "failed" \/ status = "failed" THEN "fail"
  ELSE IF current \in DOMAIN ResolutionEvent THEN ResolutionEvent[current]
  ELSE "update"
=============================================================================
