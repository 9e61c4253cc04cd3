--------------------------- MODULE ScopedProposalGate ---------------------------
(***************************************************************************)
(* The scoped CI patch proposal gate                                       *)
(* (sandbox/scoped_ci_patch_proposal_gate.py): from the repair planner's   *)
(* result r decides whether changes may be proposed.  g is the repair loop *)
(* gate's result, which may be left out; m is the CI monitor's.            *)
(***************************************************************************)
EXTENDS PullRequestEvidence, SequencesExt

Forbidden == RepairForbidden \cup {"patch_proposal_creation", "patch_hunk_generation"}

Seen(q, r, g, m) == Settled(q, << r, g, m >>)

SecretDetected(q, r, g, m) ==
  q.secret \/ "secrets_detected" \in r.truth \cup g.truth \cup m.truth

PlanClean(r) ==
  /\ r.given /\ r.planned /\ r.success /\ ~r.blocked /\ ~r.human
  /\ r.blocked_categories = {} /\ r.remaining > 0
  /\ ~Reports(r.truth, ActedAlready)

RepairGateClean(g) ==
  /\ g.repair_loop_eligible /\ g.success /\ ~g.blocked /\ ~g.human
  /\ g.blocked_categories = {} /\ g.remaining > 0
  /\ ~Reports(g.truth, ActedAlready)

-----------------------------------------------------------------------------
KnownKinds == {"inspect", "propose", "human"}

\* Steps the engine is told to leave out.
UnsafeStep(step) ==
  \/ step.kind \notin KnownKinds
  \/ step.kind = "propose" /\ step.area \notin AllowedAreas
  \/ step.kind = "human" /\ step.human

\* Something to propose, and nothing a person has to look at.
StepsBlock(r) ==
  LET steps == ToSet(r.steps) IN
  \/ \A step \in steps : step.kind # "propose"
  \/ \E step \in steps :
       \/ step.kind = "human" /\ step.human
       \/ step.kind \notin KnownKinds
       \/ step.high /\ step.human
       \/ step.area = "deploy"

\* "deploy" stands for every blocked root, "elsewhere" for the areas no list has.
AreasBlock(areas) == areas \ (AllowedAreas \cup {"unknown"}) # {}

\* The patterns of the commands allowed are matched to the end: a command with
\* arguments is none of them.
CommandsBlock(commands) == commands \ {"plain"} # {}

\* The categories not for repair, as the request names them or else the results.
BlockedCategories(q, r, g) ==
  OrSet(q.blocked, OrSet(r.blocked_categories, g.blocked_categories))

Blocked(q, r, g, m) ==
  \/ SecretDetected(q, r, g, m)
  \/ q.mode \notin {"act", "dry_run"}
  \/ q.allow \cap Forbidden # {}
  \/ (Needs(q, "repair_planner_success") \/ Needs(q, "repair_plan_ready")) /\ ~PlanClean(r)
  \/ ~r.planned \/ ~r.success \/ r.blocked \/ r.human
  \/ r.blocked_categories # {} \/ r.remaining = 0
  \/ Reports(r.truth, ActedAlready)
  \/ g.given /\ ~RepairGateClean(g)
  \/ m.given /\ (~m.monitored \/ ~m.success \/ m.blocked \/ m.human)
  \/ PullRequestBlocks(q, Seen(q, r, g, m))
  \/ m.passed \/ m.pending \/ ~m.failed
  \/ BlockedCategories(q, r, g) # {}
  \/ ~Budget(q).valid \/ Budget(q).remaining = 0
  \/ StepsBlock(r) \/ AreasBlock(r.areas) \/ ~ScopeValid(q) \/ CommandsBlock(r.commands)

Eligible(q, r, g, m) ==
  /\ q.mode = "act" /\ ~Blocked(q, r, g, m)
  /\ PlanClean(r) /\ Needs(q, "patch_proposal_eligibility")

Result(q, r, g, m) ==
  LET blocked == Blocked(q, r, g, m)
      seen == Seen(q, r, g, m) IN
  [given |-> TRUE, success |-> q.mode = "act" /\ ~blocked, blocked |-> blocked, human |-> blocked,
   patch_proposal_eligible |-> Eligible(q, r, g, m),
   areas |-> r.areas \cap (AllowedAreas \cup {"unknown"}),
   commands |-> r.commands \cap {"plain"},
   unsafe_steps |-> {step \in ToSet(r.steps) : UnsafeStep(step)},
   blocked_categories |-> BlockedCategories(q, r, g),
   repository |-> seen.repository, source |-> seen.source, head |-> seen.head,
   number |-> seen.number, state |-> seen.state, sha |-> seen.sha,
   truth |-> {"recorded"} \cup Flag("secrets_detected", SecretDetected(q, r, g, m))]

NoResult ==
  [given |-> FALSE, success |-> FALSE, blocked |-> FALSE, human |-> FALSE,
   patch_proposal_eligible |-> FALSE, areas |-> {}, commands |-> {}, unsafe_steps |-> {},
   blocked_categories |-> {}, repository |-> NoText, source |-> NoBranch, head |-> NoBranch,
   number |-> 0, state |-> NoText, sha |-> 0, truth |-> {}]
================================================================================
