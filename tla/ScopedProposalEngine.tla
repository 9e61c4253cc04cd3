-------------------------- MODULE ScopedProposalEngine --------------------------
(***************************************************************************)
(* The scoped CI patch proposal engine                                     *)
(* (sandbox/scoped_ci_patch_proposal_engine.py): from the proposal gate's  *)
(* result s and the repair planner's r, one hunk for each safe step and    *)
(* one proposal for each file root, within the limits of the request.  m   *)
(* is the CI monitor's result; r may be left out.                          *)
(***************************************************************************)
EXTENDS PullRequestEvidence

Forbidden == RepairForbidden \cup {"source_inspection", "patch_application"}

\* A gate that already proposed, applied or looked at anything did too much.
GateTruthUnsafe(truth) ==
  Reports(truth, (ActedAlready \ {"patch_proposed"}) \cup
    {"patch_proposal_created", "patch_hunks_generated", "source_inspected"})

Seen(q, s, r) == Settled(q, << s, r >>)

SecretDetected(q, s, r, m) ==
  q.secret \/ "secrets_detected" \in s.truth \cup r.truth \cup m.truth

GateEvidenceEligible(s) ==
  /\ s.patch_proposal_eligible /\ s.success /\ ~s.blocked /\ ~s.human
  /\ ~GateTruthUnsafe(s.truth)

PlanClean(r) ==
  /\ r.planned /\ r.success /\ ~r.blocked /\ ~r.human
  /\ r.blocked_categories = {} /\ ~Reports(r.truth, ActedAlready)

\* require_gate_eligible makes no difference: the gate's evidence is asked for
\* either way.
Blocked(q, s, r, m) ==
  \/ SecretDetected(q, s, r, m)
  \/ q.mode \notin {"act", "dry_run"}
  \/ q.allow \cap Forbidden # {}
  \/ ~GateEvidenceEligible(s)
  \/ r.given /\ ~PlanClean(r)
  \/ m.given /\ ~m.monitored
  \/ PullRequestBlocks(q, Seen(q, s, r))
  \/ m.passed \/ m.pending \/ ~m.failed
  \/ OrSet(q.blocked, OrSet(s.blocked_categories, r.blocked_categories)) # {}
  \/ ~Budget(q).valid \/ Budget(q).remaining = 0
  \/ OrSet(s.areas, q.areas) \ AllowedAreas # {} \/ ~ScopeValid(q)
  \/ OrSet(s.commands, q.commands) \ {"plain", "pointed"} # {}

-----------------------------------------------------------------------------
TypeOfStep(step) == << step.kind, step.category >>

\* A step of a type the gate found unsafe is left out, as are those for people
\* and proposals out of bounds.
Safe(step, s) ==
  /\ TypeOfStep(step) \notin {TypeOfStep(u) : u \in s.unsafe_steps}
  /\ step.kind = "propose" => step.area \in AllowedAreas /\ ~step.human
  /\ step.kind = "human" => ~step.human

\* An area's file root; that of backend/rust is its src.
Root(area) == IF area = "backend/rust" THEN "backend/rust/src" ELSE area

\* The next hunk, if the step is safe and while there is room: a proposal is begun
\* with the first hunk of a root, so the roots count the proposals.
AddHunk(q, s, hunks, step) ==
  LET roots == {hunks[i].root : i \in DOMAIN hunks}
      on_root == {i \in DOMAIN hunks : hunks[i].root = Root(step.area)} IN
  IF \/ ~Safe(step, s)
     \/ Cardinality(roots) >= q.files
     \/ step.area \notin AllowedAreas
     \/ Cardinality(on_root) >= q.per_file
     \/ Len(hunks) >= q.hunks
  THEN hunks
  ELSE Append(hunks, [root |-> Root(step.area), area |-> step.area,
                      category |-> step.category, kind |-> step.kind])

\* What the steps of a plan add up to, one after the other.
Grown(q, s, steps) ==
  LET after[n \in 0 .. Len(steps)] ==
        IF n = 0 THEN << >> ELSE AddHunk(q, s, after[n - 1], steps[n])
  IN after

Hunks(q, s, r) == Grown(q, s, r.steps)[Len(r.steps)]

Created(q, s, r, m) ==
  /\ q.mode = "act" /\ ~Blocked(q, s, r, m)
  /\ Needs(q, "proposal_generation")
  /\ Hunks(q, s, r) # << >>

\* The hunks are generated before anything is decided, and handed out whatever
\* is decided.
HandedOut(q, s, r, m) == Hunks(q, s, r)

\* Some steps were safe, some were not, and nothing came of it.
Partial(q, s, r, m) ==
  /\ q.mode = "act" /\ ~Blocked(q, s, r, m) /\ ~Created(q, s, r, m)
  /\ \E i \in DOMAIN r.steps : Safe(r.steps[i], s)
  /\ \E i \in DOMAIN r.steps : ~Safe(r.steps[i], s)

Result(q, s, r, m) ==
  LET blocked == Blocked(q, s, r, m)
      created == Created(q, s, r, m)
      seen == Seen(q, s, r) IN
  [given |-> TRUE, success |-> created \/ Partial(q, s, r, m), blocked |-> blocked,
   human |-> blocked, proposal_created |-> created,
   hunks |-> HandedOut(q, s, r, m),
   number |-> seen.number, sha |-> seen.sha,
   truth |-> {"recorded"} \cup Flag("secrets_detected", SecretDetected(q, s, r, m))
               \cup Flag("patch_proposal_created", created)]

NoResult ==
  [given |-> FALSE, success |-> FALSE, blocked |-> FALSE, human |-> FALSE,
   proposal_created |-> FALSE, hunks |-> << >>, number |-> 0, sha |-> 0, truth |-> {}]
================================================================================
