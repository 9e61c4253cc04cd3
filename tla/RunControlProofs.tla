--------------------------- MODULE RunControlProofs ---------------------------
(***************************************************************************)
(* Proofs about RunControl, for every number of actions, polls, attempts,  *)
(* commands, crashes and faults.                                           *)
(***************************************************************************)
EXTENDS RunControl, RunRegistryFacts

-----------------------------------------------------------------------------
(* The inductive invariant. *)

\* Where the attempt stands in its slice, and what lies behind the cursor.
PlanInv ==
  /\ Index <= Limit
  /\ pc \in {"clear", "expire", "execute"} => Index < Limit
  /\ pc \in {"start", "plan", "gate", "refuse"} => count = 0 /\ first = Saved
  /\ attempts = 0 => checkpoint = NoCheckpoint /\ AtRest
  /\ \A a \in Actions :
       a < Saved \/ a < At => execs[a] > 0 \/ a \in refused \cup vetoed

\* The clearance has just passed when an action is about to begin, so the
\* pause that arrived since is still unanswered by any action.
OverrunInv ==
  row # NoRow /\ row.enabled = "on" /\ WaitsForOperator(row) =>
    overrun <= 1 /\ (pc = "execute" => overrun = 0)

IInv == TypeOK /\ PlanInv /\ OverrunInv

-----------------------------------------------------------------------------
(* Types. *)

\* The slice of an attempt ends within the plan, and not before it begins.
LEMMA LimitType ==
  ASSUME first \in 0 .. N
  PROVE  Limit \in first .. N
BY RunControlAssumption DEF Limit

\* A write puts a row where a row was, and keeps the count of what overran.
LEMMA WriteRowType ==
  ASSUME NEW new \in Row \cup {NoRow}, overrun \in Nat, WriteRow(new)
  PROVE  row' \in Row \cup {NoRow} /\ overrun' \in Nat
BY DEF WriteRow

\* A swallowed failure stays within the bound on faults.
LEMMA SwallowedType ==
  ASSUME faults \in 0 .. MaxFaults, Swallowed
  PROVE  faults' \in 0 .. MaxFaults
BY RunControlAssumption DEF Swallowed

\* Whether it fails or not, a status write keeps the types of what it touches.
LEMMA TryRowType ==
  ASSUME TypeOK, NEW new \in Row \cup {NoRow}, TryRow(new)
  PROVE  row' \in Row \cup {NoRow} /\ overrun' \in Nat /\ faults' \in 0 .. MaxFaults
BY WriteRowType, SwallowedType DEF TypeOK, TryRow

\* So does a checkpoint write.
LEMMA TryCheckpointType ==
  ASSUME TypeOK, NEW status \in {"running", "blocked", "completed"}, NEW next \in 0 .. N,
         TryCheckpoint(status, next)
  PROVE  checkpoint' \in Checkpoint \cup {NoCheckpoint} /\ faults' \in 0 .. MaxFaults
BY SwallowedType DEF TypeOK, TryCheckpoint, Checkpoint

\* The texts and statuses the runtime writes belong to the vocabulary.
LEMMA Vocabulary ==
  /\ \A s \in {"running", "paused", "completed", "failed", "awaiting_approval"} : s \in Statuses
  /\ \A t \in PolicyTexts : t \in LastActions
  /\ \A t \in {"execution_started", "plan_initialized", "goal_completed", "goal_failed",
               "governance_hold", "operator_timeout", "goal_stop_condition",
               "continuation_requires_pause", "simulation_high_confidence_pause",
               "goal_achieved", "plan_completed", "goal_blocked", "unsafe_to_continue"} :
       t \in LastActions
  /\ \A r \in {"timeout", "governance_hold", "completed"} : r \in Reasons
  /\ "on" \in Enablement /\ "absent" \in Enablement
BY DEF Statuses, LastActions, PolicyTexts, PauseTexts, PlainTexts, Reasons, Enablement

\* The variables have their types at first.
LEMMA InitType == Init => TypeOK
<1> SUFFICES ASSUME Init PROVE TypeOK
  OBVIOUS
<1>1. allOk \in BOOLEAN /\ stop \in BOOLEAN
  BY Zenon DEF Init
<1>2. /\ 0 \in 0 .. N /\ 0 \in 0 .. MaxPolls /\ 0 \in 0 .. MaxAttempts
      /\ 0 \in 0 .. MaxCommands /\ 0 \in 0 .. MaxCrashes /\ 0 \in 0 .. MaxFaults
  BY RunControlAssumption
<1> QED BY <1>1, <1>2 DEF Init, TypeOK, Labels

\* Every step keeps the types, given that the attempt is within its slice.
LEMMA NextType ==
  ASSUME TypeOK, PlanInv, Next
  PROVE  TypeOK'
<1> USE DEF historyVars, boundVars, otherBounds, attemptVars
<1>0. first \in 0 .. N /\ Limit \in first .. N /\ Index \in 0 .. N /\ N \in Nat
  BY LimitType, RunControlAssumption DEF TypeOK, PlanInv, Index
<1>s. ASSUME NEW a \in 0 .. N, StartAttempt(a) PROVE TypeOK'
  <2>1. allOk' \in BOOLEAN /\ stop' \in BOOLEAN
    BY <1>s, Zenon DEF StartAttempt
  <2>2. /\ attempts' \in 0 .. MaxAttempts /\ first' \in 0 .. N /\ count' \in 0 .. N
        /\ polls' \in 0 .. MaxPolls
    BY <1>s, RunControlAssumption DEF StartAttempt, TypeOK
  <2> QED BY <1>s, <2>1, <2>2 DEF StartAttempt, TypeOK, Labels
<1>1. CASE Begin
  BY <1>1, <1>s, <1>0 DEF Begin
<1>2. CASE Resume
  <2>1. checkpoint.next \in 0 .. N
    BY <1>2 DEF Resume, TypeOK, Checkpoint
  <2> QED BY <1>2, <1>s, <2>1 DEF Resume
<1>3. CASE RegisterStart
  <2>1. Registered(row, "running", "execution_started", "on") \in Row \cup {NoRow}
    BY RegisteredType, Vocabulary DEF TypeOK
  <2> QED BY <1>3, <2>1, TryRowType DEF RegisterStart, Goto, TypeOK, Labels
<1>4. CASE RegisterPlan
  <2>1. Registered(row, "running", "plan_initialized", "absent") \in Row \cup {NoRow}
    BY RegisteredType, Vocabulary DEF TypeOK
  <2> QED BY <1>4, <2>1, TryRowType DEF RegisterPlan, Goto, TypeOK, Labels
<1>5. CASE GateRefuses
  BY <1>5, <1>0, TryCheckpointType DEF GateRefuses, Goto, TypeOK, Labels
<1>6. CASE WriteRefusal
  <2>1. \A text \in PolicyTexts : UpdatedByText(row, "failed", text) \in Row \cup {NoRow}
    BY UpdatedByTextType, Vocabulary DEF TypeOK
  <2> QED BY <1>6, <2>1, TryRowType DEF WriteRefusal, Goto, TypeOK, Labels
<1>7. CASE GatePasses
  BY <1>7, <1>0, TryCheckpointType DEF GatePasses, Goto, TypeOK, Labels
<1>8. CASE Cleared
  BY <1>8 DEF Cleared, Goto, TypeOK, Labels
<1>9. CASE KeepWaiting
  BY <1>9, RunControlAssumption DEF KeepWaiting, TypeOK
<1>10. CASE WaitExpires
  BY <1>10 DEF WaitExpires, Goto, TypeOK, Labels
<1>d. ASSUME NEW ok \in BOOLEAN, NEW next \in Labels, AppendResult(ok, next), Index < Limit
      PROVE  /\ pc' \in Labels /\ first' \in 0 .. N /\ count' \in 0 .. N
             /\ allOk' \in BOOLEAN /\ stop' \in BOOLEAN /\ polls' \in 0 .. MaxPolls
  BY <1>d, <1>0 DEF AppendResult, TypeOK, Index
<1>e. ASSUME Decline, pc \in {"clear", "expire", "execute"}
      PROVE  /\ pc' \in Labels /\ first' \in 0 .. N /\ count' \in 0 .. N
             /\ allOk' \in BOOLEAN /\ stop' \in BOOLEAN /\ polls' \in 0 .. MaxPolls
             /\ execs' \in [Actions -> Nat] /\ refused' \subseteq Actions
             /\ vetoed' \subseteq Actions /\ lost' \in BOOLEAN
  <2>1. Index < Limit /\ Index \in Actions
    BY <1>e, <1>0 DEF PlanInv, Actions
  <2> QED BY <1>e, <1>d, <2>1 DEF Decline, TypeOK, Labels
<1>11. CASE Timeout
  <2>1. Updated(row, "failed", "operator_timeout", "timeout") \in Row \cup {NoRow}
    BY UpdatedType, Vocabulary DEF TypeOK
  <2> QED BY <1>11, <2>1, <1>e, WriteRowType DEF Timeout, TypeOK
<1>12. CASE Refused
  BY <1>12, <1>e DEF Refused, TypeOK
<1>13. CASE RegistryUnavailable
  BY <1>13, <1>e, SwallowedType DEF RegistryUnavailable, TypeOK
<1>14. CASE Execute
  <2>1. Index < Limit /\ Index \in Actions
    BY <1>14, <1>0 DEF Execute, PlanInv, Actions
  <2>2. execs' \in [Actions -> Nat] /\ overrun' \in Nat
    BY <1>14, <2>1 DEF Execute, TypeOK
  <2>3. PICK ok \in BOOLEAN, next \in {"hold", "decide"} : AppendResult(ok, next)
    BY <1>14 DEF Execute
  <2> QED BY <1>14, <2>1, <2>2, <2>3, <1>d DEF Execute, TypeOK, Labels
<1>15. CASE Vetoed
  <2>1. Index < Limit /\ Index \in Actions
    BY <1>15, <1>0 DEF Vetoed, PlanInv, Actions
  <2> QED BY <1>15, <2>1, <1>d DEF Vetoed, TypeOK, Labels
<1>16. CASE Hold
  <2>1. Updated(row, "awaiting_approval", "governance_hold", "governance_hold")
          \in Row \cup {NoRow}
    BY UpdatedType, Vocabulary DEF TypeOK
  <2> QED BY <1>16, <2>1, WriteRowType DEF Hold, Goto, TypeOK, Labels
<1>17. CASE GoOn
  BY <1>17 DEF GoOn, Decided, TypeOK, Labels
<1>w. ASSUME NEW status \in Statuses, NEW texts, texts \subseteq LastActions,
             StopWith(status, texts)
      PROVE  TypeOK'
  <2>1. \A text \in texts : UpdatedByText(row, status, text) \in Row \cup {NoRow}
    BY <1>w, UpdatedByTextType DEF TypeOK
  <2> QED BY <1>w, <2>1, TryRowType DEF StopWith, Decided, TypeOK, Labels
<1>18. CASE PausePlan
  BY <1>18, <1>w, Vocabulary DEF PausePlan
<1>19. CASE CompletePlan
  BY <1>19, <1>w, Vocabulary DEF CompletePlan
<1>20. CASE EscalateFailure
  BY <1>20, <1>w, Vocabulary DEF EscalateFailure
<1>21. CASE SaveStep
  BY <1>21, <1>0, TryCheckpointType, RunControlAssumption DEF SaveStep, TypeOK, Labels
<1>22. CASE SaveFinal
  BY <1>22, <1>0, TryCheckpointType DEF SaveFinal, Goto, TypeOK, Labels
<1>23. CASE WriteTerminal
  <2>1. /\ Updated(row, "completed", "goal_completed", "completed") \in Row \cup {NoRow}
        /\ UpdatedByText(row, "failed", "goal_failed") \in Row \cup {NoRow}
    BY UpdatedType, UpdatedByTextType, Vocabulary DEF TypeOK
  <2> QED BY <1>23, <2>1, WriteRowType DEF WriteTerminal, Goto, TypeOK, Labels
<1>24. CASE Crash
  BY <1>24, RunControlAssumption DEF Crash, Goto, TypeOK, Labels
<1>25. CASE Operate
  <2>1. \A c \in OperatorCommands : Commanded(row, c) \in Row \cup {NoRow}
    BY CommandedType DEF TypeOK
  <2> QED BY <1>25, <2>1, WriteRowType, RunControlAssumption DEF Operate, TypeOK
<1> QED
  BY <1>1, <1>2, <1>3, <1>4, <1>5, <1>6, <1>7, <1>8, <1>9, <1>10, <1>11, <1>12, <1>13,
     <1>14, <1>15, <1>16, <1>17, <1>18, <1>19, <1>20, <1>21, <1>22, <1>23, <1>24, <1>25
  DEF Next, Attempt

-----------------------------------------------------------------------------
(* What lies behind the cursor. *)

\* Executed, or somebody decided against it.
Settled(a) == execs[a] > 0 \/ a \in refused \cup vetoed

\* Steps that leave results and checkpoint alone.
LEMMA PlanSame ==
  ASSUME PlanInv,
         UNCHANGED << first, count, checkpoint, execs, refused, vetoed, attempts >>,
         ~ AtRest' => ~ AtRest, AtRest => AtRest',
         pc' \in {"clear", "expire", "execute"} => Index < Limit,
         pc' \in {"start", "plan", "gate", "refuse"} => count = 0 /\ first = Saved
  PROVE  PlanInv'
<1>1. UNCHANGED << Index, Limit, Saved >>
  BY DEF Index, Limit, Saved
<1>2. At' = At \/ At' = Saved
  BY <1>1 DEF At
<1> QED BY <1>1, <1>2 DEF PlanInv

\* Steps that save the cursor where the attempt is.
LEMMA PlanSaved ==
  ASSUME TypeOK, PlanInv, NEW status \in {"running", "blocked", "completed"},
         TryCheckpoint(status, Index),
         UNCHANGED << first, count, execs, refused, vetoed, attempts >>,
         ~ AtRest, ~ AtRest',
         pc' \in {"clear", "expire", "execute"} => Index < Limit,
         pc' \in {"start", "plan", "gate", "refuse"} => pc' = "refuse" /\ pc = "gate"
  PROVE  PlanInv'
<1>1. UNCHANGED << Index, Limit >> /\ At = Index /\ At' = Index
  BY DEF Index, Limit, At
<1>2. Saved' = Saved \/ Saved' = Index
  <2>1. CASE UNCHANGED checkpoint
    BY <2>1 DEF Saved
  <2>2. CASE checkpoint' = [status |-> status, next |-> Index]
    <3>1. Index \in 0 .. N
      BY LimitType, RunControlAssumption DEF PlanInv, TypeOK, Index
    <3>2. checkpoint' # NoCheckpoint /\ checkpoint'.next = Index
      BY <2>2, <3>1, RunControlAssumption DEF Checkpoint
    <3> QED BY <3>2 DEF Saved
  <2> QED BY <2>1, <2>2 DEF TryCheckpoint
<1>3. pc' = "refuse" => count' = 0 /\ first' = Saved'
  <2> SUFFICES ASSUME pc' = "refuse" PROVE count' = 0 /\ first' = Saved'
    OBVIOUS
  <2>1. count = 0 /\ first = Saved
    BY DEF PlanInv
  <2> QED BY <2>1, <1>2 DEF TypeOK, Index
<1> QED BY <1>1, <1>2, <1>3 DEF PlanInv

\* Steps that take the action the attempt is at.
LEMMA PlanTaken ==
  ASSUME TypeOK, PlanInv, Index < Limit, ~ AtRest, ~ AtRest',
         count' = count + 1,
         UNCHANGED << first, checkpoint, attempts >>,
         pc' \notin {"start", "plan", "gate", "refuse", "clear", "expire", "execute"},
         \A a \in Actions : Settled(a) => Settled(a)',
         NEW i, i = Index, Settled(i)'
  PROVE  PlanInv'
<1>1. Index' = Index + 1 /\ Limit' = Limit /\ Saved' = Saved
  BY DEF TypeOK, Index, Limit, Saved
<1>2. At = Index /\ At' = Index + 1
  BY <1>1 DEF At
<1>3. Index \in Nat /\ Limit \in Nat
  BY LimitType, RunControlAssumption DEF TypeOK, Index
<1>4. \A a \in Actions : a < Saved \/ a < Index => Settled(a)
  BY <1>2 DEF PlanInv, Settled
<1>5. ASSUME NEW a \in Actions, a < Saved' \/ a < At'
      PROVE  Settled(a)'
  <2>1. a < Saved \/ a < Index \/ a = i
    BY <1>1, <1>2, <1>3, <1>5, RunControlAssumption DEF Actions
  <2> QED BY <2>1, <1>4
<1>6. Index' <= Limit'
  BY <1>1, <1>3
<1> QED BY <1>5, <1>6 DEF PlanInv, Settled

\* Every step keeps the cursor in order.
LEMMA NextPlan ==
  ASSUME TypeOK, PlanInv, Next
  PROVE  PlanInv'
<1> USE DEF historyVars, boundVars, otherBounds, attemptVars
<1>0. /\ first \in 0 .. N /\ Limit \in first .. N /\ Index \in 0 .. N /\ N \in Nat
      /\ count \in Nat /\ Index = first + count
  BY LimitType, RunControlAssumption DEF TypeOK, PlanInv, Index
<1>s. ASSUME NEW a \in 0 .. N, a = Saved, StartAttempt(a) PROVE PlanInv'
  <2>1. /\ first' = a /\ count' = 0 /\ pc' = "start" /\ Saved' = Saved
        /\ attempts' # 0 /\ ~ AtRest'
    BY <1>s DEF StartAttempt, Saved, AtRest, TypeOK
  <2>2. Index' = Saved /\ Limit' \in a .. N /\ At' = Saved
    BY <2>1, <1>s, <1>0, RunControlAssumption DEF Index, Limit, At
  <2>3. UNCHANGED << execs, refused, vetoed, checkpoint >>
    BY <1>s DEF StartAttempt
  <2> QED BY <2>1, <2>2, <2>3, <1>s DEF PlanInv
<1>1. CASE Begin
  <2>1. Saved = 0
    BY <1>1 DEF Begin, PlanInv, Saved
  <2> QED BY <1>1, <2>1, <1>s, <1>0 DEF Begin
<1>2. CASE Resume
  <2>1. checkpoint.next \in 0 .. N /\ checkpoint.next = Saved
    BY <1>2 DEF Resume, TypeOK, Checkpoint, Saved
  <2> QED BY <1>2, <2>1, <1>s DEF Resume
<1>3. CASE RegisterStart
  BY <1>3, PlanSame DEF RegisterStart, Goto, AtRest, PlanInv
<1>4. CASE RegisterPlan
  BY <1>4, PlanSame DEF RegisterPlan, Goto, AtRest, PlanInv
<1>5. CASE GateRefuses
  <2>1. first = Index
    BY <1>5, <1>0 DEF GateRefuses, PlanInv
  <2> QED BY <1>5, <2>1, PlanSaved DEF GateRefuses, Goto, AtRest
<1>6. CASE WriteRefusal
  BY <1>6, PlanSame DEF WriteRefusal, Goto, AtRest
<1>7. CASE GatePasses
  <2>1. first = Index
    BY <1>7, <1>0 DEF GatePasses, PlanInv
  <2> QED BY <1>7, <2>1, PlanSaved DEF GatePasses, Goto, AtRest
<1>8. CASE Cleared
  BY <1>8, PlanSame DEF Cleared, Goto, AtRest, PlanInv
<1>9. CASE KeepWaiting
  BY <1>9, PlanSame DEF KeepWaiting, AtRest, PlanInv
<1>10. CASE WaitExpires
  BY <1>10, PlanSame DEF WaitExpires, Goto, AtRest, PlanInv
<1>d. ASSUME Decline, UNCHANGED << checkpoint, attempts >>, pc \in {"clear", "expire"}
      PROVE  PlanInv'
  <2>1. PICK i \in Actions : i = Index
    BY <1>d, <1>0 DEF PlanInv, Actions
  <2>2. Settled(i)' /\ \A a \in Actions : Settled(a) => Settled(a)'
    BY <1>d, <2>1 DEF Decline, Settled
  <2>3. /\ Index < Limit /\ ~ AtRest /\ ~ AtRest' /\ count' = count + 1
        /\ pc' = "final" /\ UNCHANGED first
    BY <1>d DEF Decline, AppendResult, AtRest, PlanInv
  <2> QED BY <1>d, <2>1, <2>2, <2>3, PlanTaken
<1>11. CASE Timeout
  BY <1>11, <1>d DEF Timeout
<1>12. CASE Refused
  BY <1>12, <1>d DEF Refused
<1>13. CASE RegistryUnavailable
  BY <1>13, <1>d DEF RegistryUnavailable
<1>14. CASE Execute
  <2>1. PICK i \in Actions : i = Index
    BY <1>14, <1>0 DEF Execute, PlanInv, Actions
  <2>2. PICK ok \in BOOLEAN, next \in {"hold", "decide"} : AppendResult(ok, next)
    BY <1>14 DEF Execute
  <2>3. Settled(i)' /\ \A a \in Actions : Settled(a) => Settled(a)'
    BY <1>14, <2>1 DEF Execute, Settled, TypeOK
  <2>4. /\ Index < Limit /\ ~ AtRest /\ ~ AtRest' /\ count' = count + 1
        /\ pc' \in {"hold", "decide"} /\ UNCHANGED << first, checkpoint, attempts >>
    BY <1>14, <2>2 DEF Execute, AppendResult, AtRest, PlanInv
  <2> QED BY <2>1, <2>3, <2>4, PlanTaken
<1>15. CASE Vetoed
  <2>1. PICK i \in Actions : i = Index
    BY <1>15, <1>0 DEF Vetoed, PlanInv, Actions
  <2>2. Settled(i)' /\ \A a \in Actions : Settled(a) => Settled(a)'
    BY <1>15, <2>1 DEF Vetoed, Settled
  <2>3. /\ Index < Limit /\ ~ AtRest /\ ~ AtRest' /\ count' = count + 1
        /\ pc' = "decide" /\ UNCHANGED << first, checkpoint, attempts >>
    BY <1>15 DEF Vetoed, AppendResult, AtRest, PlanInv
  <2> QED BY <2>1, <2>2, <2>3, PlanTaken
<1>16. CASE Hold
  BY <1>16, PlanSame DEF Hold, Goto, AtRest
<1>17. CASE GoOn
  BY <1>17, PlanSame DEF GoOn, Decided, AtRest
<1>w. ASSUME NEW status, NEW texts, StopWith(status, texts) PROVE PlanInv'
  BY <1>w, PlanSame DEF StopWith, Decided, AtRest
<1>18. CASE PausePlan \/ CompletePlan \/ EscalateFailure
  BY <1>18, <1>w DEF PausePlan, CompletePlan, EscalateFailure
<1>21. CASE SaveStep
  <2>1. pc' = "clear" => Index < Limit
    BY <1>21, <1>0 DEF SaveStep, PlanInv
  <2>2. pc' \in {"clear", "final"} /\ pc = "save"
    BY <1>21 DEF SaveStep
  <2>3. \E status \in {"running", "blocked", "completed"} : TryCheckpoint(status, Index)
    BY <1>21 DEF SaveStep
  <2> QED BY <1>21, <2>1, <2>2, <2>3, PlanSaved DEF SaveStep, AtRest
<1>22. CASE SaveFinal
  <2>1. \E status \in {"running", "blocked", "completed"} : TryCheckpoint(status, Index)
    BY <1>22 DEF SaveFinal
  <2> QED BY <1>22, <2>1, PlanSaved DEF SaveFinal, Goto, AtRest
<1>23. CASE WriteTerminal
  BY <1>23, PlanSame DEF WriteTerminal, Goto, AtRest
<1>24. CASE Crash
  BY <1>24, PlanSame DEF Crash, Goto, AtRest
<1>25. CASE Operate
  BY <1>25, PlanSame DEF Operate, AtRest, PlanInv
<1> QED
  BY <1>1, <1>2, <1>3, <1>4, <1>5, <1>6, <1>7, <1>8, <1>9, <1>10, <1>11, <1>12, <1>13,
     <1>14, <1>15, <1>16, <1>17, <1>18, <1>21, <1>22, <1>23, <1>24, <1>25
  DEF Next, Attempt

-----------------------------------------------------------------------------
(* What begins while the row asks to wait. *)

\* A new row that asks to wait is of a run with operator control only if the
\* old row was: no status write changes the enablement.
Quiet(new) ==
  new = NoRow \/ ~ WaitsForOperator(new) \/ (row # NoRow /\ new.enabled = row.enabled)

\* A registration leaves the row running.
LEMMA RegisteredQuiet ==
  ASSUME TypeOK, NEW action \in LastActions, NEW enabled \in Enablement
  PROVE  Quiet(Registered(row, "running", action, enabled))
<1>1. NewRow("running", action, enabled).status = "running"
  BY DEF NewRow
<1>2. ASSUME row # NoRow
      PROVE  MergedRow(row, "running", action, enabled).status = "running"
  BY <1>2 DEF MergedRow, TypeOK, Row
<1> QED BY <1>1, <1>2 DEF Quiet, Registered, WaitsForOperator

\* update_status leaves the enablement alone.
LEMMA UpdatedQuiet ==
  ASSUME TypeOK, NEW status, NEW action, NEW reason
  PROVE  Quiet(Updated(row, status, action, reason))
<1>1. ASSUME row # NoRow
      PROVE  Transitioned(row, status, action, reason).enabled = row.enabled
  BY <1>1 DEF Transitioned, TypeOK, Row
<1> QED BY <1>1 DEF Quiet, Updated

\* Steps that write a quiet row, or none.
LEMMA OverrunWritten ==
  ASSUME OverrunInv, NEW new, Quiet(new),
         WriteRow(new) \/ UNCHANGED << row, overrun >>,
         pc' = "execute" => pc = "execute"
  PROVE  OverrunInv'
<1>1. CASE WriteRow(new)
  BY <1>1 DEF WriteRow, Quiet, OverrunInv
<1>2. CASE UNCHANGED << row, overrun >>
  BY <1>2 DEF OverrunInv, WaitsForOperator
<1> QED BY <1>1, <1>2

\* Every step keeps the overrun within one action.
LEMMA NextOverrun ==
  ASSUME TypeOK, OverrunInv, Next
  PROVE  OverrunInv'
<1> USE DEF historyVars, boundVars, otherBounds, attemptVars
<1>u. ASSUME UNCHANGED << row, overrun >>, pc' = "execute" => pc = "execute"
      PROVE  OverrunInv'
  BY <1>u DEF OverrunInv, WaitsForOperator
<1>t. ASSUME NEW status, NEW action, TryRow(UpdatedByText(row, status, action)),
             pc' # "execute"
      PROVE  OverrunInv'
  BY <1>t, UpdatedQuiet, OverrunWritten DEF TryRow, UpdatedByText
<1>1. CASE Begin \/ Resume
  BY <1>1, <1>u DEF Begin, Resume, StartAttempt
<1>2. CASE RegisterStart
  BY <1>2, RegisteredQuiet, OverrunWritten, Vocabulary DEF RegisterStart, Goto, TryRow
<1>3. CASE RegisterPlan
  BY <1>3, RegisteredQuiet, OverrunWritten, Vocabulary DEF RegisterPlan, Goto, TryRow
<1>4. CASE GateRefuses \/ GatePasses
  BY <1>4, <1>u DEF GateRefuses, GatePasses, Goto
<1>5. CASE WriteRefusal
  BY <1>5, <1>t DEF WriteRefusal, Goto
<1>6. CASE Cleared
  BY <1>6 DEF Cleared, Goto, OverrunInv, WaitsForOperator
<1>7. CASE KeepWaiting \/ WaitExpires
  BY <1>7, <1>u DEF KeepWaiting, WaitExpires, Goto
<1>8. CASE Timeout
  BY <1>8, UpdatedQuiet, OverrunWritten DEF Timeout, Decline, AppendResult
<1>9. CASE Refused \/ RegistryUnavailable \/ Vetoed
  BY <1>9, <1>u DEF Refused, RegistryUnavailable, Vetoed, Decline, AppendResult
<1>10. CASE Execute
  BY <1>10 DEF Execute, AppendResult, OverrunInv, WaitsForOperator, TypeOK
<1>11. CASE Hold
  BY <1>11, UpdatedQuiet, OverrunWritten DEF Hold, Goto
<1>12. CASE GoOn
  BY <1>12, <1>u DEF GoOn, Decided
<1>13. ASSUME NEW status, NEW texts, StopWith(status, texts) PROVE OverrunInv'
  BY <1>13, <1>t DEF StopWith, Decided
<1>14. CASE PausePlan \/ CompletePlan \/ EscalateFailure
  BY <1>14, <1>13 DEF PausePlan, CompletePlan, EscalateFailure
<1>15. CASE SaveStep \/ SaveFinal
  BY <1>15, <1>u DEF SaveStep, SaveFinal, Goto
<1>16. CASE WriteTerminal
  <2>1. \E new : Quiet(new) /\ WriteRow(new)
    BY <1>16, UpdatedQuiet DEF WriteTerminal, UpdatedByText
  <2> QED BY <1>16, <2>1, OverrunWritten DEF WriteTerminal, Goto
<1>17. CASE Crash
  BY <1>17, <1>u DEF Crash, Goto
<1>18. CASE Operate
  BY <1>18, UpdatedQuiet, OverrunWritten DEF Operate, Commanded
<1> QED
  BY <1>1, <1>2, <1>3, <1>4, <1>5, <1>6, <1>7, <1>8, <1>9, <1>10, <1>11, <1>12, <1>14,
     <1>15, <1>16, <1>17, <1>18
  DEF Next, Attempt

-----------------------------------------------------------------------------
(* The theorems. *)

\* The initial states satisfy the inductive invariant.
LEMMA InitInv == Init => IInv
<1> SUFFICES ASSUME Init PROVE IInv
  OBVIOUS
<1>1. TypeOK
  BY InitType
<1>2. Saved = 0 /\ At = 0 /\ Index = 0 /\ AtRest
  BY DEF Init, Saved, At, AtRest, Index
<1>3. PlanInv
  BY <1>1, <1>2, LimitType, RunControlAssumption DEF Init, PlanInv, Actions, TypeOK
<1>4. OverrunInv
  BY DEF Init, OverrunInv
<1> QED BY <1>1, <1>3, <1>4 DEF IInv

\* A step that changes nothing keeps it.
LEMMA StutterInv ==
  ASSUME IInv, UNCHANGED vars
  PROVE  IInv'
<1> USE DEF vars, attemptVars, historyVars, boundVars
<1>1. TypeOK'
  BY DEF IInv, TypeOK
<1>2. PlanInv'
  BY PlanSame DEF IInv, AtRest, PlanInv
<1>3. OverrunInv'
  BY DEF IInv, OverrunInv, WaitsForOperator
<1> QED BY <1>1, <1>2, <1>3 DEF IInv

\* The inductive invariant holds throughout.
THEOREM Invariance == Spec => []IInv
<1>1. IInv /\ [Next]_vars => IInv'
  BY NextType, NextPlan, NextOverrun, StutterInv DEF IInv
<1> QED BY InitInv, <1>1, PTL DEF Spec

\* The variables keep their types.
THEOREM TypeCorrect == Spec => []TypeOK
BY Invariance, PTL DEF IInv

\* An operator's pause, or a hold, lets at most one more action begin: the one
\* await_run_control_clearance had let pass before it.
THEOREM PausesBite == Spec => []PauseBites
<1>1. IInv => PauseBites
  BY DEF IInv, OverrunInv, PauseBites
<1> QED BY <1>1, Invariance, PTL

\* No action falls behind the checkpoint's cursor without being executed,
\* refused by the clearance or vetoed by governance.
THEOREM NothingIsLost == Spec => []NothingLost
<1>1. IInv => NothingLost
  BY DEF IInv, PlanInv, NothingLost
<1> QED BY <1>1, Invariance, PTL

-----------------------------------------------------------------------------
(* Repeats. *)

\* Each repeat of an action is paid for by an attempt that died or a save that
\* failed since its last execution.
RepeatInv ==
  \A a \in Actions :
    /\ execs[a] <= 1 + crashes + faults
    /\ At <= a => execs[a] <= crashes + faults
    /\ pc = "terminal" /\ Saved <= a => execs[a] <= crashes + faults

\* The cursor and the action the run is at are numbers.
LEMMA CursorType ==
  ASSUME TypeOK, TypeOK'
  PROVE  /\ Index \in Nat /\ Saved \in Nat /\ At \in Nat
         /\ Index' \in Nat /\ Saved' \in Nat /\ At' \in Nat
<1>1. Index \in Nat /\ Index' \in Nat
  <2>1. \A i, j \in Nat : i + j \in Nat
    OBVIOUS
  <2>2. first \in Nat /\ count \in Nat
    BY RunControlAssumption DEF TypeOK
  <2>3. first' \in Nat /\ count' \in Nat
    BY RunControlAssumption DEF TypeOK
  <2> QED BY <2>1, <2>2, <2>3, Zenon DEF Index
<1>2. Saved \in Nat
  BY RunControlAssumption DEF TypeOK, Saved, Checkpoint
<1>3. Saved' \in Nat
  BY RunControlAssumption DEF TypeOK, Saved, Checkpoint
<1> QED BY <1>1, <1>2, <1>3 DEF At

\* Steps that execute nothing and leave the cursor where it is, or go forward.
LEMMA RepeatSame ==
  ASSUME IInv, IInv', RepeatInv, UNCHANGED << execs, crashes >>, faults <= faults',
         At <= At', pc' # "terminal"
  PROVE  RepeatInv'
<1> SUFFICES ASSUME NEW a \in Actions
             PROVE  /\ execs'[a] <= 1 + crashes' + faults'
                    /\ At' <= a => execs'[a] <= crashes' + faults'
  BY DEF RepeatInv
<1>1. /\ execs[a] \in Nat /\ crashes \in Nat /\ faults \in Nat /\ faults' \in Nat
      /\ At \in Nat /\ At' \in Nat /\ a \in Nat
  <2>1. At \in Nat /\ At' \in Nat
    BY CursorType DEF IInv
  <2> QED BY <2>1, RunControlAssumption DEF IInv, TypeOK, Actions
<1>2. /\ execs[a] <= 1 + crashes + faults
      /\ At <= a => execs[a] <= crashes + faults
  BY DEF RepeatInv
<1> QED BY <1>1, <1>2

\* Every step pays for what it will repeat.
LEMMA NextRepeat ==
  ASSUME IInv, IInv', RepeatInv, Next
  PROVE  RepeatInv'
<1> USE DEF historyVars, boundVars, otherBounds, attemptVars
<1>0. /\ crashes \in Nat /\ faults \in Nat /\ crashes' \in Nat /\ faults' \in Nat
      /\ Index \in Nat /\ Saved \in Nat /\ Saved' \in Nat /\ At \in Nat /\ At' \in Nat
  <2>1. /\ crashes \in Nat /\ faults \in Nat /\ crashes' \in Nat /\ faults' \in Nat
    BY RunControlAssumption DEF IInv, TypeOK
  <2> QED BY <2>1, CursorType DEF IInv
<1>a. \A a \in Actions : a \in Nat /\ execs[a] \in Nat /\ execs'[a] \in Nat
  BY RunControlAssumption DEF IInv, TypeOK, Actions
<1>t. ASSUME NEW new, TryRow(new) PROVE faults <= faults'
  BY <1>t, <1>0 DEF TryRow, Swallowed
<1>c. ASSUME NEW status, NEW next, TryCheckpoint(status, next) PROVE faults <= faults'
  BY <1>c, <1>0 DEF TryCheckpoint, Swallowed
<1>1. CASE Begin \/ Resume
  <2>1. Saved' = Saved /\ AtRest /\ first' = Saved /\ count' = 0 /\ ~ AtRest'
    BY <1>1 DEF Begin, Resume, StartAttempt, Saved, AtRest, IInv, PlanInv
  <2>2. At' = At
    BY <2>1, <1>0 DEF At, Index
  <2> QED BY <1>1, <2>2, <1>0, RepeatSame DEF Begin, Resume, StartAttempt
<1>2. CASE RegisterStart \/ RegisterPlan
  <2>1. At' = At
    BY <1>2 DEF RegisterStart, RegisterPlan, Goto, At, AtRest, Index, Saved
  <2> QED BY <1>2, <2>1, <1>0, <1>t, RepeatSame DEF RegisterStart, RegisterPlan, Goto
<1>3. CASE GateRefuses \/ GatePasses
  <2>1. At' = At
    BY <1>3 DEF GateRefuses, GatePasses, Goto, At, AtRest, Index, Saved
  <2> QED BY <1>3, <2>1, <1>0, <1>c, RepeatSame DEF GateRefuses, GatePasses, Goto
<1>4. CASE WriteRefusal
  <2>1. At = Saved
    BY <1>4, <1>0 DEF WriteRefusal, IInv, PlanInv, TypeOK, At, AtRest, Index
  <2>2. At' = Saved
    BY <1>4 DEF WriteRefusal, Goto, At, AtRest, Saved
  <2> QED BY <1>4, <2>1, <2>2, <1>0, <1>t, RepeatSame DEF WriteRefusal, Goto
<1>5. CASE Cleared \/ KeepWaiting \/ WaitExpires \/ Hold \/ GoOn
  <2>1. At' = At
    BY <1>5 DEF Cleared, KeepWaiting, WaitExpires, Hold, GoOn, Decided, Goto, At, AtRest,
                Index, Saved
  <2> QED BY <1>5, <2>1, <1>0, RepeatSame
          DEF Cleared, KeepWaiting, WaitExpires, Hold, GoOn, Decided, Goto
<1>6. CASE Timeout \/ Refused \/ RegistryUnavailable \/ Vetoed
  <2>1. /\ ~ AtRest /\ ~ AtRest' /\ pc' # "terminal"
        /\ first' = first /\ count' = count + 1
        /\ UNCHANGED << execs, crashes >>
    BY <1>6 DEF Timeout, Refused, RegistryUnavailable, Vetoed, Decline, AppendResult, AtRest
  <2>2. first \in Nat /\ count \in Nat
    BY RunControlAssumption DEF IInv, TypeOK
  <2>3. At = Index /\ At' = Index + 1
    BY <2>1, <2>2 DEF At, Index
  <2>4. UNCHANGED faults \/ Swallowed
    BY <1>6 DEF Timeout, Refused, RegistryUnavailable, Vetoed
  <2>5. faults <= faults'
    BY <2>4, <1>0 DEF Swallowed
  <2>6. At <= At'
    BY <2>3, <1>0
  <2> QED BY <2>1, <2>5, <2>6, RepeatSame
<1>7. CASE Execute
  <2>1. At = Index /\ At' = Index + 1 /\ pc' # "terminal"
    BY <1>7, <1>0 DEF Execute, AppendResult, At, AtRest, Index, IInv, TypeOK
  <2>2. \A a \in Actions : execs'[a] = IF a = Index THEN execs[a] + 1 ELSE execs[a]
    BY <1>7 DEF Execute, IInv, TypeOK
  <2>3. UNCHANGED << crashes, faults >>
    BY <1>7 DEF Execute
  <2>4. ASSUME NEW a \in Actions
        PROVE  /\ execs'[a] <= 1 + crashes + faults
               /\ At' <= a => execs'[a] <= crashes + faults
    <3>1. /\ execs[a] <= 1 + crashes + faults
          /\ At <= a => execs[a] <= crashes + faults
      BY DEF RepeatInv
    <3>2. a \in Nat /\ execs[a] \in Nat
      BY <1>a
    <3>3. CASE a = Index
      BY <3>1, <3>2, <3>3, <2>1, <2>2, <1>0
    <3>4. CASE a # Index
      BY <3>1, <3>2, <3>4, <2>1, <2>2, <1>0
    <3> QED BY <3>3, <3>4
  <2> QED BY <2>1, <2>3, <2>4 DEF RepeatInv
<1>8. CASE PausePlan \/ CompletePlan \/ EscalateFailure
  <2>1. At' = At /\ pc' # "terminal" /\ UNCHANGED << execs, crashes >>
    BY <1>8 DEF PausePlan, CompletePlan, EscalateFailure, StopWith, Decided, At, AtRest,
                Index, Saved
  <2>2. faults <= faults'
    BY <1>8, <1>t DEF PausePlan, CompletePlan, EscalateFailure, StopWith
  <2> QED BY <2>1, <2>2, <1>0, RepeatSame
<1>9. CASE SaveStep
  <2>1. At' = At /\ pc' # "terminal"
    BY <1>9 DEF SaveStep, At, AtRest, Index
  <2> QED BY <1>9, <2>1, <1>0, <1>c, RepeatSame DEF SaveStep
<1>10. CASE SaveFinal
  <2>1. At = Index /\ At' = Index /\ UNCHANGED << execs, crashes >>
    BY <1>10 DEF SaveFinal, Goto, At, AtRest, Index
  <2>2. CASE UNCHANGED checkpoint /\ faults' = faults + 1
    BY <2>1, <2>2, <1>0, <1>a DEF RepeatInv
  <2>3. CASE Saved' = Index /\ UNCHANGED faults
    BY <2>1, <2>3, <1>0, <1>a DEF RepeatInv
  <2>4. Index \in 0 .. N
    BY LimitType, RunControlAssumption DEF IInv, PlanInv, TypeOK, Index
  <2>5. ASSUME NEW status \in {"running", "blocked", "completed"},
               checkpoint' = [status |-> status, next |-> Index]
        PROVE  Saved' = Index
    <3>1. checkpoint' # NoCheckpoint /\ checkpoint'.next = Index
      BY <2>4, <2>5, RunControlAssumption DEF Checkpoint
    <3> QED BY <3>1 DEF Saved
  <2> QED BY <1>10, <2>2, <2>3, <2>5 DEF SaveFinal, TryCheckpoint, Swallowed
<1>11. CASE WriteTerminal
  <2>1. At' = Saved /\ pc = "terminal" /\ pc' # "terminal"
        /\ UNCHANGED << execs, crashes, faults >>
    BY <1>11 DEF WriteTerminal, Goto, At, AtRest, Saved
  <2> QED BY <2>1 DEF RepeatInv
<1>12. CASE Crash
  <2>1. crashes' = crashes + 1 /\ UNCHANGED << execs, faults >>
    BY <1>12 DEF Crash
  <2> QED BY <2>1, <1>0, <1>a DEF RepeatInv
<1>13. CASE Operate
  <2>1. At' = At /\ Saved' = Saved /\ UNCHANGED << pc, execs, crashes, faults >>
    BY <1>13 DEF Operate, At, AtRest, Index, Saved
  <2> QED BY <2>1 DEF RepeatInv
<1> QED
  BY <1>1, <1>2, <1>3, <1>4, <1>5, <1>6, <1>7, <1>8, <1>9, <1>10, <1>11, <1>12, <1>13
  DEF Next, Attempt

\* An action is executed at most once more than attempts died and writes failed.
THEOREM RepeatsArePaidFor == Spec => []NoNeedlessRepeat
<1>1. Init => RepeatInv
  BY RunControlAssumption DEF Init, RepeatInv
<1>2. IInv /\ IInv' /\ RepeatInv /\ [Next]_vars => RepeatInv'
  <2>1. ASSUME RepeatInv, UNCHANGED vars PROVE RepeatInv'
    BY <2>1 DEF vars, attemptVars, historyVars, boundVars, RepeatInv, At, Saved, AtRest, Index
  <2> QED BY <2>1, NextRepeat
<1>3. RepeatInv => NoNeedlessRepeat
  BY DEF RepeatInv, NoNeedlessRepeat
<1> QED BY <1>1, <1>2, <1>3, Invariance, PTL DEF Spec

-----------------------------------------------------------------------------
(* The durable cursor. *)

\* A checkpoint write saves the cursor it is given, or leaves it.
LEMMA SavedCursor ==
  ASSUME NEW status \in {"running", "blocked", "completed"}, NEW next \in 0 .. N,
         TryCheckpoint(status, next)
  PROVE  Saved' = next \/ Saved' = Saved
<1>1. CASE checkpoint' = [status |-> status, next |-> next]
  <2>1. checkpoint' # NoCheckpoint /\ checkpoint'.next = next
    BY <1>1, RunControlAssumption DEF Checkpoint
  <2> QED BY <2>1 DEF Saved
<1>2. CASE UNCHANGED checkpoint
  BY <1>2 DEF Saved
<1> QED BY <1>1, <1>2 DEF TryCheckpoint

\* Steps that neither take an action nor save are steps of the cursor if they
\* leave it where it is or take it back to where it was saved.
LEMMA CursorStands ==
  ASSUME UNCHANGED << execs, refused, vetoed >>, Saved' = Saved, At' = At \/ At' = Saved
  PROVE  [Cursor!Next]_(Cursor!vars)
BY DEF Cursor!Next, Cursor!GoBack, Cursor!vars

\* Steps that may save the cursor where the run is.
LEMMA CursorSaved ==
  ASSUME UNCHANGED << execs, refused, vetoed >>, At' = At, Saved' = At \/ Saved' = Saved
  PROVE  [Cursor!Next]_(Cursor!vars)
BY DEF Cursor!Next, Cursor!Save, Cursor!vars

\* Every step of the run is a step of the cursor, or leaves it alone.
LEMMA NextCursor ==
  ASSUME IInv, IInv', Next
  PROVE  [Cursor!Next]_(Cursor!vars)
<1> USE DEF historyVars, boundVars, otherBounds, attemptVars
<1>i. first \in Nat /\ count \in Nat /\ Index \in 0 .. N
  <2>1. first \in Nat /\ count \in Nat
    BY RunControlAssumption DEF IInv, TypeOK
  <2>2. Limit \in first .. N /\ Index <= Limit
    BY LimitType DEF IInv, TypeOK, PlanInv
  <2> QED BY <2>1, <2>2, RunControlAssumption DEF Index
<1>p. pc = "execute" \/ pc = "clear" \/ pc = "expire" => Index < N
  <2>1. Limit \in first .. N
    BY LimitType DEF IInv, TypeOK
  <2> QED BY <1>i, <2>1, RunControlAssumption DEF IInv, PlanInv
<1>1. CASE Begin \/ Resume
  <2>1. Saved' = Saved /\ AtRest /\ first' = Saved /\ count' = 0 /\ ~ AtRest'
    BY <1>1 DEF Begin, Resume, StartAttempt, Saved, AtRest, IInv, PlanInv
  <2>2. Saved \in Nat
    BY CursorType DEF IInv
  <2>3. At' = At
    BY <2>1, <2>2 DEF At, Index
  <2> QED BY <1>1, <2>1, <2>3, CursorStands DEF Begin, Resume, StartAttempt
<1>2. CASE RegisterStart \/ RegisterPlan
  <2>1. At' = At /\ Saved' = Saved
    BY <1>2 DEF RegisterStart, RegisterPlan, Goto, At, AtRest, Index, Saved
  <2> QED BY <1>2, <2>1, CursorStands DEF RegisterStart, RegisterPlan
<1>3. CASE GateRefuses \/ GatePasses
  <2>1. At = Index /\ At' = At
    BY <1>3 DEF GateRefuses, GatePasses, Goto, At, AtRest, Index
  <2>2. first = At /\ first \in 0 .. N
    BY <1>3, <1>i, <2>1 DEF GateRefuses, GatePasses, IInv, PlanInv, TypeOK, Index
  <2>3. Saved' = At \/ Saved' = Saved
    BY <1>3, <2>2, SavedCursor DEF GateRefuses, GatePasses
  <2> QED BY <1>3, <2>1, <2>3, CursorSaved DEF GateRefuses, GatePasses
<1>4. CASE WriteRefusal \/ WriteTerminal \/ Crash
  <2>1. At' = Saved /\ Saved' = Saved
    BY <1>4 DEF WriteRefusal, WriteTerminal, Crash, Goto, At, AtRest, Saved
  <2> QED BY <1>4, <2>1, CursorStands DEF WriteRefusal, WriteTerminal, Crash
<1>5. CASE Cleared \/ KeepWaiting \/ WaitExpires \/ Hold \/ GoOn
  <2>1. At' = At /\ Saved' = Saved
    BY <1>5 DEF Cleared, KeepWaiting, WaitExpires, Hold, GoOn, Decided, Goto, At, AtRest,
                Index, Saved
  <2> QED BY <1>5, <2>1, CursorStands
          DEF Cleared, KeepWaiting, WaitExpires, Hold, GoOn, Decided
<1>6. ASSUME pc \in {"execute", "clear", "expire"}, pc' \in {"final", "hold", "decide"},
             first' = first, count' = count + 1
      PROVE  At = Index /\ At < N /\ At' = At + 1
  BY <1>6, <1>i, <1>p DEF At, AtRest, Index
<1>7. CASE Timeout \/ Refused \/ RegistryUnavailable
  <2>1. At = Index /\ At < N /\ At' = At + 1
    BY <1>6, <1>7 DEF Timeout, Refused, RegistryUnavailable, Decline, AppendResult
  <2>2. refused' = refused \cup {Index} /\ UNCHANGED << checkpoint, execs, vetoed >>
    BY <1>7 DEF Timeout, Refused, RegistryUnavailable, Decline
  <2>3. Saved' = Saved /\ (refused \cup vetoed)' = (refused \cup vetoed) \cup {At}
    BY <2>1, <2>2 DEF Saved
  <2> QED BY <2>1, <2>2, <2>3 DEF Cursor!Next, Cursor!Decline
<1>8. CASE Vetoed
  <2>1. At = Index /\ At < N /\ At' = At + 1
    BY <1>6, <1>8 DEF Vetoed, AppendResult
  <2>2. vetoed' = vetoed \cup {Index} /\ UNCHANGED << checkpoint, execs, refused >>
    BY <1>8 DEF Vetoed
  <2>3. Saved' = Saved /\ (refused \cup vetoed)' = (refused \cup vetoed) \cup {At}
    BY <2>1, <2>2 DEF Saved
  <2> QED BY <2>1, <2>2, <2>3 DEF Cursor!Next, Cursor!Decline
<1>9. CASE Execute
  <2>1. At = Index /\ At < N /\ At' = At + 1
    <3>1. \E ok \in BOOLEAN, next \in {"hold", "decide"} : AppendResult(ok, next)
      BY <1>9 DEF Execute
    <3> QED BY <1>6, <1>9, <3>1 DEF Execute, AppendResult
  <2>2. /\ execs' = [execs EXCEPT ![Index] = @ + 1]
        /\ UNCHANGED << checkpoint, refused, vetoed >>
    BY <1>9 DEF Execute
  <2> QED BY <2>1, <2>2 DEF Saved, Cursor!Next, Cursor!Execute
<1>10. CASE PausePlan \/ CompletePlan \/ EscalateFailure
  <2>1. At' = At /\ Saved' = Saved /\ UNCHANGED << execs, refused, vetoed >>
    BY <1>10 DEF PausePlan, CompletePlan, EscalateFailure, StopWith, Decided, At, AtRest,
                 Index, Saved
  <2> QED BY <2>1, CursorStands
<1>11. CASE SaveStep \/ SaveFinal
  <2>1. At = Index /\ At' = At
    BY <1>11 DEF SaveStep, SaveFinal, Goto, At, AtRest, Index
  <2>2. Saved' = At \/ Saved' = Saved
    BY <1>11, <1>i, <2>1, SavedCursor DEF SaveStep, SaveFinal
  <2> QED BY <1>11, <2>1, <2>2, CursorSaved DEF SaveStep, SaveFinal
<1>12. CASE Operate
  <2>1. At' = At /\ Saved' = Saved
    BY <1>12 DEF Operate, At, AtRest, Index, Saved
  <2> QED BY <1>12, <2>1, CursorStands DEF Operate
<1> QED
  BY <1>1, <1>2, <1>3, <1>4, <1>5, <1>7, <1>8, <1>9, <1>10, <1>11, <1>12
  DEF Next, Attempt

\* The run implements the durable cursor: its actions are taken in plan order,
\* each is executed or declined before it is passed, and a resume goes on
\* exactly where the checkpoint was saved.
THEOREM RefinesCursor == Spec => ImplementsCursor
<1>1. Init => Cursor!Init
  BY DEF Init, Cursor!Init, Saved, At, AtRest, Actions, Cursor!Actions
<1>2. IInv /\ IInv' /\ [Next]_vars => [Cursor!Next]_(Cursor!vars)
  <2>1. ASSUME UNCHANGED vars PROVE UNCHANGED Cursor!vars
    BY <2>1 DEF vars, attemptVars, historyVars, boundVars, Cursor!vars, At, Saved, AtRest, Index
  <2> QED BY <2>1, NextCursor
<1> QED BY <1>1, <1>2, Invariance, PTL DEF Spec, ImplementsCursor, Cursor!Spec

-----------------------------------------------------------------------------
(* Ends. *)

\* update_status writes the status and the text it is given.
LEMMA UpdatedSays ==
  ASSUME TypeOK, NEW status, NEW action, NEW reason, row # NoRow
  PROVE  LET new == Updated(row, status, action, reason) IN
         new.status = status /\ new.lastAction = action
BY DEF Updated, Transitioned, TypeOK, Row

\* register writes the status it is given, over a row or without one.
LEMMA RegisteredSays ==
  ASSUME TypeOK, NEW action, NEW enabled
  PROVE  Registered(row, "running", action, enabled).status = "running"
BY DEF Registered, NewRow, MergedRow, TypeOK, Row

\* Steps that do not end an attempt, and leave the row of an ended one alone.
LEMMA EndSame ==
  ASSUME EndIsSettled, pc' = "idle" => pc = "idle" /\ UNCHANGED << row, lost >>
  PROVE  EndIsSettled'
BY DEF EndIsSettled

\* Every step leaves an ended attempt's row settled.
LEMMA NextSettled ==
  ASSUME TypeOK, TypeOK', EndIsSettled, Next
  PROVE  EndIsSettled'
<1> USE DEF historyVars, boundVars, otherBounds, attemptVars
<1>1. CASE Begin \/ Resume
  BY <1>1, EndSame DEF Begin, Resume, StartAttempt
<1>2. CASE RegisterStart \/ RegisterPlan \/ GateRefuses \/ GatePasses
  BY <1>2, EndSame DEF RegisterStart, RegisterPlan, GateRefuses, GatePasses, Goto
<1>3. CASE WriteRefusal
  <2>1. PICK text \in PolicyTexts : TryRow(UpdatedByText(row, "failed", text))
    BY <1>3 DEF WriteRefusal
  <2>2. CASE WriteRow(UpdatedByText(row, "failed", text))
    BY <2>2, UpdatedSays DEF WriteRow, UpdatedByText, Updated, EndIsSettled, ActiveStatuses
  <2>3. CASE Swallowed
    <3>1. faults' > faults
      BY <2>3, RunControlAssumption DEF Swallowed, TypeOK
    <3> QED BY <1>3, <3>1 DEF WriteRefusal, EndIsSettled
  <2> QED BY <2>1, <2>2, <2>3 DEF TryRow
<1>4. CASE Cleared \/ KeepWaiting \/ WaitExpires \/ Timeout \/ Refused \/ RegistryUnavailable
  BY <1>4, EndSame DEF Cleared, KeepWaiting, WaitExpires, Timeout, Refused,
                       RegistryUnavailable, Decline, AppendResult, Goto
<1>5. CASE Execute \/ Vetoed \/ Hold \/ GoOn
  BY <1>5, EndSame DEF Execute, Vetoed, Hold, GoOn, Decided, AppendResult, Goto
<1>6. CASE PausePlan \/ CompletePlan \/ EscalateFailure
  BY <1>6, EndSame DEF PausePlan, CompletePlan, EscalateFailure, StopWith, Decided
<1>7. CASE SaveStep \/ SaveFinal
  BY <1>7, EndSame DEF SaveStep, SaveFinal, Goto
<1>8. CASE WriteTerminal
  BY <1>8, UpdatedSays DEF WriteTerminal, WriteRow, UpdatedByText, Updated, EndIsSettled,
                           ActiveStatuses
<1>9. CASE Crash
  BY <1>9, EndSame DEF Crash, Goto
<1>10. CASE Operate
  <2>1. PICK command \in OperatorCommands : WriteRow(Commanded(row, command))
    BY <1>10 DEF Operate
  <2>2. row # NoRow /\ IsOperatorText(OperatorText[command])
    BY <1>10 DEF Operate, OperatorCommands, OperatorText, IsOperatorText
  <2>3. IsOperatorText(row'.lastAction)
    BY <2>1, <2>2, UpdatedSays DEF WriteRow, Commanded
  <2> QED BY <2>3 DEF EndIsSettled
<1> QED
  BY <1>1, <1>2, <1>3, <1>4, <1>5, <1>6, <1>7, <1>8, <1>9, <1>10 DEF Next, Attempt

\* An attempt that ran to its end leaves no row behind that looks active, but by an
\* operator's word or because the write of that very end was swallowed; no other write
\* that fails, of a checkpoint, a registration or a decision, excuses it.
THEOREM EndsAreSettled == Spec => []EndIsSettled
<1>1. Init => EndIsSettled
  BY DEF Init, EndIsSettled
<1>2. IInv /\ IInv' /\ EndIsSettled /\ [Next]_vars => EndIsSettled'
  <2>1. ASSUME EndIsSettled, UNCHANGED vars PROVE EndIsSettled'
    BY <2>1 DEF vars, attemptVars, historyVars, boundVars, EndIsSettled
  <2> QED BY <2>1, NextSettled DEF IInv
<1> QED BY <1>1, <1>2, Invariance, PTL DEF Spec

-----------------------------------------------------------------------------
(* Completion. *)

\* As long as every result was good, every action of the attempt was executed; and a
\* completed row survives into a new attempt only past the registrations that failed.
CompletedInv ==
  /\ allOk => \A a \in Actions : first <= a /\ a < Index => execs[a] > 0
  /\ row # NoRow /\ row.status = "completed" =>
       /\ pc = "plan" => faults > 0
       /\ pc \in {"gate", "refuse"} => faults > 1
       /\ pc = "idle" => (count > 0 /\ allOk) \/ (count = 0 /\ faults > 2)

\* Steps that take no action.
LEMMA CompletedSame ==
  ASSUME CompletedInv, UNCHANGED << first, count, allOk, execs >>,
         row' # NoRow /\ row'.status = "completed" =>
           /\ pc' = "plan" => faults' > 0
           /\ pc' \in {"gate", "refuse"} => faults' > 1
           /\ pc' = "idle" => (count > 0 /\ allOk) \/ (count = 0 /\ faults' > 2)
  PROVE  CompletedInv'
BY DEF CompletedInv, Index

\* Steps that take the action the attempt is at.
LEMMA CompletedTaken ==
  ASSUME TypeOK, CompletedInv, NEW ok \in BOOLEAN, NEW label, AppendResult(ok, label),
         label \notin {"plan", "gate", "refuse", "idle"},
         \A a \in Actions : execs[a] > 0 => execs'[a] > 0,
         ok => \A a \in Actions : a = Index => execs'[a] > 0
  PROVE  CompletedInv'
<1>1. Index' = Index + 1 /\ Index \in Nat /\ first' = first /\ pc' = label
  BY RunControlAssumption DEF AppendResult, Index, TypeOK
<1>2. allOk' => allOk /\ ok
  BY Zenon DEF AppendResult
<1>3. ASSUME NEW a \in Actions, allOk', first <= a, a < Index' PROVE execs'[a] > 0
  <2>1. a < Index \/ a = Index
    BY <1>1, <1>3, RunControlAssumption DEF Actions
  <2> QED BY <1>2, <1>3, <2>1 DEF CompletedInv
<1> QED BY <1>1, <1>3 DEF CompletedInv

\* Every step keeps account of what was executed.
LEMMA NextCompleted ==
  ASSUME IInv, CompletedInv, Next
  PROVE  CompletedInv'
<1> USE DEF historyVars, boundVars, otherBounds, attemptVars
<1>0. TypeOK /\ faults \in Nat /\ count \in Nat /\ N \in Nat /\ first \in Nat
  BY RunControlAssumption DEF IInv, TypeOK
<1>1. CASE Begin \/ Resume
  <2>1. PICK f \in Nat : pc' = "start" /\ count' = 0 /\ first' = f
    BY <1>1, <1>0 DEF Begin, Resume, StartAttempt, TypeOK, Checkpoint
  <2>2. Index' = f
    BY <2>1 DEF Index
  <2>3. \A a \in Actions : ~ (first' <= a /\ a < Index')
    BY <2>1, <2>2, RunControlAssumption DEF Actions
  <2> QED BY <2>1, <2>3 DEF CompletedInv
<1>2. CASE RegisterStart
  <2>1. \/ row'.status = "running"
        \/ faults' = faults + 1
    BY <1>2, <1>0, RegisteredSays DEF RegisterStart, TryRow, WriteRow, Swallowed
  <2> QED BY <1>2, <1>0, <2>1, CompletedSame DEF RegisterStart, Goto
<1>3. CASE RegisterPlan
  <2>1. \/ row'.status = "running"
        \/ row' = row /\ faults' = faults + 1
    BY <1>3, <1>0, RegisteredSays DEF RegisterPlan, TryRow, WriteRow, Swallowed
  <2>2. row # NoRow /\ row.status = "completed" => faults > 0
    BY <1>3 DEF RegisterPlan, CompletedInv
  <2> QED BY <1>3, <1>0, <2>1, <2>2, CompletedSame DEF RegisterPlan, Goto
<1>4. CASE GateRefuses \/ GatePasses
  <2>1. row # NoRow /\ row.status = "completed" => faults > 1
    BY <1>4 DEF GateRefuses, GatePasses, CompletedInv
  <2>2. faults' >= faults
    BY <1>4, <1>0 DEF GateRefuses, GatePasses, TryCheckpoint, Swallowed
  <2>3. /\ UNCHANGED << row, first, count, allOk, execs >>
        /\ pc' \in {"refuse", "clear", "final"}
    BY <1>4 DEF GateRefuses, GatePasses, Goto
  <2>4. faults' \in Nat
    BY <1>4, <1>0 DEF GateRefuses, GatePasses, TryCheckpoint, Swallowed
  <2> QED BY <1>0, <2>1, <2>2, <2>3, <2>4, CompletedSame
<1>5. CASE WriteRefusal
  <2>1. PICK text \in PolicyTexts : TryRow(UpdatedByText(row, "failed", text))
    BY <1>5 DEF WriteRefusal
  <2>2. \/ row' = NoRow \/ row'.status = "failed"
        \/ row' = row /\ faults' = faults + 1
    BY <2>1, <1>0, UpdatedSays DEF TryRow, WriteRow, Swallowed, UpdatedByText, Updated
  <2>3. /\ count = 0
        /\ row # NoRow /\ row.status = "completed" => faults > 1
    BY <1>5 DEF WriteRefusal, CompletedInv, IInv, PlanInv
  <2> QED BY <1>5, <1>0, <2>2, <2>3, CompletedSame DEF WriteRefusal, Goto
<1>6. CASE Cleared \/ KeepWaiting \/ WaitExpires \/ Hold \/ GoOn
  BY <1>6, CompletedSame DEF Cleared, KeepWaiting, WaitExpires, Hold, GoOn, Decided, Goto
<1>7. CASE Timeout \/ Refused \/ RegistryUnavailable
  <2>1. AppendResult(FALSE, "final") /\ execs' = execs
    BY <1>7 DEF Timeout, Refused, RegistryUnavailable, Decline
  <2> QED BY <2>1, <1>0, CompletedTaken
<1>8. CASE Execute
  <2>1. PICK ok \in BOOLEAN, next \in {"hold", "decide"} : AppendResult(ok, next)
    BY <1>8 DEF Execute
  <2>2. \A a \in Actions : execs'[a] = IF a = Index THEN execs[a] + 1 ELSE execs[a]
    BY <1>8, <1>0 DEF Execute, TypeOK
  <2>3. \A a \in Actions : (execs[a] > 0 => execs'[a] > 0) /\ (a = Index => execs'[a] > 0)
    BY <2>2, <1>0 DEF TypeOK
  <2> QED BY <2>1, <2>3, <1>0, CompletedTaken
<1>9. CASE Vetoed
  BY <1>9, <1>0, CompletedTaken DEF Vetoed
<1>10. CASE PausePlan \/ CompletePlan \/ EscalateFailure
  BY <1>10, CompletedSame DEF PausePlan, CompletePlan, EscalateFailure, StopWith, Decided
<1>11. CASE SaveStep \/ SaveFinal
  BY <1>11, CompletedSame DEF SaveStep, SaveFinal, Goto
<1>12. CASE WriteTerminal
  <2>1. CASE count > 0 /\ allOk
    BY <1>12, <2>1, CompletedSame DEF WriteTerminal, Goto
  <2>2. CASE ~ (count > 0 /\ allOk)
    <3>1. row' = UpdatedByText(row, "failed", "goal_failed")
      BY <1>12, <2>2, Zenon DEF WriteTerminal, WriteRow
    <3>2. row' = NoRow \/ row'.status = "failed"
      BY <3>1, <1>0, UpdatedSays DEF UpdatedByText, Updated
    <3> QED BY <1>12, <3>2, CompletedSame DEF WriteTerminal, Goto
  <2> QED BY <2>1, <2>2
<1>13. CASE Crash
  BY <1>13, CompletedSame DEF Crash, Goto
<1>14. CASE Operate
  <2>1. PICK command \in OperatorCommands : WriteRow(Commanded(row, command))
    BY <1>14 DEF Operate
  <2>2. row'.status \in {"paused", "running"}
    BY <1>14, <2>1, <1>0, UpdatedSays
    DEF Operate, WriteRow, Commanded, OperatorCommands, OperatorStatus
  <2> QED BY <1>14, <2>2, CompletedSame DEF Operate
<1> QED
  BY <1>1, <1>2, <1>3, <1>4, <1>5, <1>6, <1>7, <1>8, <1>9, <1>10, <1>11, <1>12, <1>13,
     <1>14
  DEF Next, Attempt

\* What the registry calls completed took at least one action, and executed every
\* action it took; or is a refused resume whose three status writes all failed.
THEOREM CompletedIsExecuted == Spec => []CompletedMeansExecuted
<1>1. Init => CompletedInv
  BY RunControlAssumption DEF Init, CompletedInv, Index, Actions
<1>2. IInv /\ CompletedInv /\ [Next]_vars => CompletedInv'
  <2>1. ASSUME CompletedInv, UNCHANGED vars PROVE CompletedInv'
    BY <2>1 DEF vars, attemptVars, historyVars, boundVars, CompletedInv, Index
  <2> QED BY <2>1, NextCompleted
<1>3. IInv /\ CompletedInv => CompletedMeansExecuted
  <2> SUFFICES ASSUME IInv, CompletedInv, pc = "idle", row # NoRow, row.status = "completed"
               PROVE  \/ count > 0 /\ allOk /\ \A a \in first .. Index - 1 : execs[a] > 0
                      \/ count = 0 /\ faults > 2
    BY DEF CompletedMeansExecuted
  <2>1. first \in Nat /\ Index \in 0 .. N /\ N \in Nat
    BY LimitType, RunControlAssumption DEF IInv, PlanInv, TypeOK, Index
  <2>2. \A a \in first .. Index - 1 : a \in Actions /\ first <= a /\ a < Index
    BY <2>1 DEF Actions
  <2> QED BY <2>2 DEF CompletedInv
<1> QED BY <1>1, <1>2, <1>3, Invariance, PTL DEF Spec
=============================================================================
