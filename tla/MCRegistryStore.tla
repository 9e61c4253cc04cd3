--------------------------- MODULE MCRegistryStore ---------------------------
(***************************************************************************)
(* A small registry for TLC: two writers, and the writes of a short life   *)
(* of one run, or of two runs side by side.                                *)
(***************************************************************************)
EXTENDS RegistryStore, TLC

CONSTANT MCCompleted   \* the runs that are completed in MCTwoKinds

Registration(run, action, enabled) ==
  [op |-> "register", run |-> run, status |-> "running", action |-> action,
   reason |-> "unsafe_state", enabled |-> enabled]

Update(run, status, action, reason) ==
  [op |-> "update", run |-> run, status |-> status, action |-> action,
   reason |-> reason, enabled |-> "absent"]

\* A run is registered, paused by an operator, and completed, in any order.
LivesOf(run) ==
  {Registration(run, "execution_started", "on"),
   Update(run, "paused", "operator_pause", "operator_pause"),
   Update(run, "completed", "goal_completed", "completed")}

MCLives == UNION { LivesOf(r) : r \in Runs }

\* Every run is registered, and one of them is completed.
MCTwoKinds ==
  { Registration(r, "plan_initialized", "absent") : r \in Runs } \cup
  { Update(r, "completed", "goal_completed", "completed") : r \in MCCompleted }

WriterSymmetry == Permutations(Writers)
=============================================================================
