----------------------------- MODULE ActionCursor -----------------------------
(***************************************************************************)
(* What checkpoint and resume promise about a linear plan.                 *)
(*                                                                         *)
(* A cursor walks over the actions in order, executing or declining one at *)
(* a time; it is saved now and then, and a loss of the process takes it    *)
(* back to where it was last saved.  So actions are taken in plan order,   *)
(* none is passed over in silence, and what is repeated is exactly what    *)
(* was done since the last save.  RunControl is shown to implement this.   *)
(***************************************************************************)
EXTENDS Naturals

CONSTANT N   \* actions of the plan

Actions == 0 .. N - 1

VARIABLES
  saved,     \* where the saved cursor is
  at,        \* the next action to take
  execs,     \* action -> times it was executed
  declined   \* actions somebody decided against

vars == << saved, at, execs, declined >>

Init ==
  /\ saved = 0
  /\ at = 0
  /\ execs = [a \in Actions |-> 0]
  /\ declined = {}

Execute ==
  /\ at < N
  /\ execs' = [execs EXCEPT ![at] = @ + 1]
  /\ at' = at + 1
  /\ UNCHANGED << saved, declined >>

Decline ==
  /\ at < N
  /\ declined' = declined \cup {at}
  /\ at' = at + 1
  /\ UNCHANGED << saved, execs >>

Save ==
  /\ saved' = at
  /\ UNCHANGED << at, execs, declined >>

GoBack ==
  /\ at' = saved
  /\ UNCHANGED << saved, execs, declined >>

Next == Execute \/ Decline \/ Save \/ GoBack

Spec == Init /\ [][Next]_vars
=============================================================================
