---------------------------- MODULE AtomicRegistry ----------------------------
(***************************************************************************)
(* What the run registry promises its callers: one document of rows, on    *)
(* which every write is an indivisible step taken between its call and its *)
(* return.  A write that raises, or whose process dies first, leaves the   *)
(* document alone.  RegistryStore is shown to implement this.              *)
(*                                                                         *)
(* There is one exception to "leaves alone".  While there is no document   *)
(* yet, a write that raised stays in its writer's memory and goes out with *)
(* the first write of that writer that succeeds; once there is a document  *)
(* such leftovers are gone.                                                *)
(***************************************************************************)
EXTENDS RunRegistry

CONSTANTS
  Writers,      \* threads of control that hold a RunRegistry object
  Runs,         \* run ids
  Requests,     \* the writes callers may ask for
  NoDocument    \* stands for the document before the first write

VARIABLES
  document,   \* the rows by run id, or NoDocument
  leftover,   \* writer -> the rows of its failed writes, before the first write
  call,       \* writer -> the request it has made
  outcome     \* writer -> "none" | "pending" | "done"

vars == << document, leftover, call, outcome >>

EmptyDocument == [r \in Runs |-> NoRow]

\* The effect of a request on a document.
Effect(doc, req) ==
  [doc EXCEPT ![req.run] =
     IF req.op = "register"
     THEN Registered(@, req.status, req.action, req.enabled)
     ELSE Updated(@, req.status, req.action, req.reason)]

\* What a write of w starts from.
Base(w) == IF document = NoDocument THEN leftover[w] ELSE document

\* An update of a run that is not there.
Ignored(w) == call[w].op = "update" /\ Base(w)[call[w].run] = NoRow

Init ==
  /\ document = NoDocument
  /\ leftover = [w \in Writers |-> EmptyDocument]
  /\ call \in [Writers -> Requests]
  /\ outcome = [w \in Writers |-> "none"]

Call(w) ==
  /\ outcome[w] = "none"
  /\ \E req \in Requests : call' = [call EXCEPT ![w] = req]
  /\ outcome' = [outcome EXCEPT ![w] = "pending"]
  /\ UNCHANGED << document, leftover >>

Apply(w) ==
  /\ outcome[w] = "pending"
  /\ ~ Ignored(w)
  /\ document' = Effect(Base(w), call[w])
  /\ leftover' = [v \in Writers |-> EmptyDocument]
  /\ outcome' = [outcome EXCEPT ![w] = "done"]
  /\ UNCHANGED call

Ignore(w) ==
  /\ outcome[w] = "pending"
  /\ Ignored(w)
  /\ outcome' = [outcome EXCEPT ![w] = "done"]
  /\ UNCHANGED << document, leftover, call >>

Return(w) ==
  /\ outcome[w] = "done"
  /\ outcome' = [outcome EXCEPT ![w] = "none"]
  /\ UNCHANGED << document, leftover, call >>

Raise(w) ==
  /\ outcome[w] = "pending"
  /\ outcome' = [outcome EXCEPT ![w] = "none"]
  /\ leftover' = IF document = NoDocument
                 THEN [leftover EXCEPT ![w] = Effect(@, call[w])]
                 ELSE leftover
  /\ UNCHANGED << document, call >>

\* The process dies, before or after its write took effect.
Die(w) ==
  /\ outcome' = [outcome EXCEPT ![w] = "none"]
  /\ leftover' = [leftover EXCEPT ![w] = EmptyDocument]
  /\ UNCHANGED << document, call >>

Next ==
  \E w \in Writers :
    Call(w) \/ Apply(w) \/ Ignore(w) \/ Return(w) \/ Raise(w) \/ Die(w)

Spec == Init /\ [][Next]_vars
=============================================================================
