----------------------- MODULE PullRequestDeliveryProofs -----------------------
(***************************************************************************)
(* Proofs about PullRequestDelivery, for every set of scenarios and every  *)
(* set of checks: whatever the callers waive, strip and leave out, however *)
(* often answers of GitHub are lost and other people open and close pull   *)
(* requests.                                                               *)
(***************************************************************************)
EXTENDS PullRequestDelivery, InductionFacts, SequenceTheorems

-----------------------------------------------------------------------------
(* Shapes. *)

Stages == {"push", "prgate", "creator", "mongate", "monitor", "repairgate", "planner",
           "propgate", "proposal"}

PullShape(pull) ==
  /\ DOMAIN pull = {"by", "of", "open", "pushed"}
  /\ pull.by \in {"creator", "person"} /\ pull.open \in BOOLEAN

\* The creator at work has read its request and what it was handed.
RunShape ==
  \/ run = Idle
  \/ run.at \in {"find", "create"} /\ DOMAIN run = {"at", "q", "g", "x"}

ShapeInv ==
  /\ head \in Nat /\ attempts \in Nat
  /\ (\E S : pulls \in Seq(S)) /\ \A i \in DOMAIN pulls : PullShape(pulls[i])
  /\ DOMAIN evidence = Stages
  /\ RunShape

\* Recording a result replaces that of its stage and no other.
LEMMA Recorded ==
  ASSUME DOMAIN evidence = Stages, NEW stage \in Stages, NEW result, Record(stage, result)
  PROVE  /\ DOMAIN evidence' = Stages
         /\ evidence'[stage] = result
         /\ \A other \in Stages \ {stage} : evidence'[other] = evidence[other]
BY DEF Record

\* A pull request is added at the end.
LEMMA Added ==
  ASSUME NEW S, pulls \in Seq(S), NEW pull, pulls' = Append(pulls, pull)
  PROVE  /\ \E T : pulls' \in Seq(T)
         /\ Len(pulls) \in Nat
         /\ DOMAIN pulls = 1 .. Len(pulls) /\ DOMAIN pulls' = 1 .. Len(pulls) + 1
         /\ \A i \in 1 .. Len(pulls) : pulls'[i] = pulls[i]
         /\ pulls'[Len(pulls) + 1] = pull
<1> DEFINE T == S \cup {pull}
<1>1. pulls \in Seq(T)
  OBVIOUS
<1>2. pull \in T
  OBVIOUS
<1> HIDE DEF T
<1>3. pulls' \in Seq(T) /\ Len(pulls') = Len(pulls) + 1
  BY <1>1, <1>2, AppendProperties
<1> QED BY <1>1, <1>2, <1>3, AppendProperties

\* Or one that is open is closed, and stays what else it was.
LEMMA Closed ==
  ASSUME NEW S, pulls \in Seq(S), NEW i \in DOMAIN pulls, PullShape(pulls[i]),
         pulls' = [pulls EXCEPT ![i].open = FALSE]
  PROVE  /\ \E T : pulls' \in Seq(T)
         /\ DOMAIN pulls' = DOMAIN pulls
         /\ \A j \in DOMAIN pulls \ {i} : pulls'[j] = pulls[j]
         /\ PullShape(pulls'[i]) /\ ~pulls'[i].open
         /\ pulls'[i].by = pulls[i].by /\ pulls'[i].of = pulls[i].of
         /\ pulls'[i].pushed = pulls[i].pushed
<1> DEFINE closed == [pulls[i] EXCEPT !.open = FALSE]
           T == S \cup {closed}
<1>1. pulls' = [pulls EXCEPT ![i] = closed] /\ pulls \in Seq(T) /\ closed \in T
  OBVIOUS
<1>2. /\ PullShape(closed) /\ ~closed.open /\ closed.by = pulls[i].by
      /\ closed.of = pulls[i].of /\ closed.pushed = pulls[i].pushed
  <2>1. DOMAIN closed = DOMAIN pulls[i]
    OBVIOUS
  <2>2. {"by", "of", "open", "pushed"} = DOMAIN pulls[i]
    BY DEF PullShape
  <2>3. /\ closed.open = FALSE /\ closed.by = pulls[i].by
        /\ closed.of = pulls[i].of /\ closed.pushed = pulls[i].pushed
    BY <2>2
  <2> HIDE DEF closed
  <2> QED BY <2>1, <2>2, <2>3 DEF PullShape
<1> HIDE DEF closed, T
<1>3. i \in 1 .. Len(pulls)
  OBVIOUS
<1>4. pulls' \in Seq(T)
  <2>1. [pulls EXCEPT ![i] = closed] \in Seq(T)
    BY <1>1, <1>3, ExceptSeq
  <2> QED BY <1>1, <2>1
<1> QED BY <1>1, <1>2, <1>3, <1>4

\* What may become of the pull requests in a step.
PullsKept == UNCHANGED pulls
PullAdded(by, wanted) == pulls' = Append(pulls, Opened(by, wanted))
PullClosed ==
  \E i \in DOMAIN pulls : pulls[i].open /\ pulls' = [pulls EXCEPT ![i].open = FALSE]

\* A new pull request is open.
LEMMA OpenedShape ==
  ASSUME NEW by \in {"creator", "person"}, NEW wanted
  PROVE  LET pull == Opened(by, wanted) IN
         /\ PullShape(pull) /\ pull.by = by /\ pull.of = wanted /\ pull.open
         /\ pull.pushed = head
BY DEF Opened, PullShape

\* So the pull requests keep their shape.
LEMMA PullsShape ==
  ASSUME ShapeInv,
         \/ PullsKept
         \/ \E by \in {"creator", "person"} : \E wanted : PullAdded(by, wanted)
         \/ PullClosed
  PROVE  (\E S : pulls' \in Seq(S)) /\ \A i \in DOMAIN pulls' : PullShape(pulls'[i])
<1>1. PICK S : pulls \in Seq(S)
  BY DEF ShapeInv
<1>2. CASE PullsKept
  BY <1>2 DEF PullsKept, ShapeInv
<1>3. ASSUME NEW by \in {"creator", "person"}, NEW wanted, PullAdded(by, wanted)
      PROVE  (\E T : pulls' \in Seq(T)) /\ \A i \in DOMAIN pulls' : PullShape(pulls'[i])
  <2> DEFINE n == Len(pulls)
             pull == Opened(by, wanted)
  <2>1. /\ \E T : pulls' \in Seq(T)
        /\ n \in Nat /\ DOMAIN pulls = 1 .. n /\ DOMAIN pulls' = 1 .. n + 1
        /\ \A i \in 1 .. n : pulls'[i] = pulls[i]
        /\ pulls'[n + 1] = pull
    BY <1>1, <1>3, Added DEF PullAdded
  <2>2. PullShape(pull)
    BY OpenedShape
  <2>3. \A i \in 1 .. n : PullShape(pulls[i])
    BY <2>1 DEF ShapeInv
  <2> HIDE DEF n, pull
  <2> QED BY <2>1, <2>2, <2>3
<1>4. CASE PullClosed
  <2>1. PICK i \in DOMAIN pulls : pulls' = [pulls EXCEPT ![i].open = FALSE]
    BY <1>4 DEF PullClosed
  <2>2. \A j \in DOMAIN pulls : PullShape(pulls[j])
    BY DEF ShapeInv
  <2> QED BY <1>1, <2>1, <2>2, Closed
<1> QED BY <1>2, <1>3, <1>4

\* The evidence keeps its stages.
LEMMA StagesKept ==
  ASSUME ShapeInv, Next
  PROVE  DOMAIN evidence' = Stages
<1>0. DOMAIN evidence = Stages
  BY DEF ShapeInv
<1>1. UNCHANGED evidence \/ \E stage \in Stages : \E result : Record(stage, result)
  BY DEF Next, Push, EvaluatePrCreationGate, StartCreate, FindOpenPullRequest,
         CreatePullRequest, ClientFails, FinishCreate, EvaluateCiMonitorGate, MonitorCi,
         EvaluateRepairLoopGate, PlanRepair, EvaluateProposalGate, Propose, CiReports,
         Meddle, Stages
<1> QED BY <1>0, <1>1, Recorded

\* Opening a pull request takes the creator from one step to the next, or ends it.
LEMMA RunKept ==
  ASSUME ShapeInv, Next
  PROVE  RunShape'
<1>0. RunShape
  BY DEF ShapeInv
<1>i. run' = Idle => RunShape'
  BY DEF RunShape
<1>1. CASE UNCHANGED run
  BY <1>0, <1>1 DEF RunShape
<1>2. CASE StartCreate
  <2>1. \/ UNCHANGED run
        \/ \E q, g, x : run' = [at |-> "find", q |-> q, g |-> g, x |-> x]
    BY <1>2 DEF StartCreate
  <2>2. CASE \E q, g, x : run' = [at |-> "find", q |-> q, g |-> g, x |-> x]
    BY <2>2 DEF RunShape
  <2> QED BY <1>1, <2>1, <2>2
<1>3. CASE FindOpenPullRequest
  <2>1. run.at = "find" /\ (run' = Idle \/ run' = [run EXCEPT !.at = "create"])
    BY <1>3 DEF FindOpenPullRequest, FinishCreate
  <2>2. CASE run' = [run EXCEPT !.at = "create"]
    <3>1. DOMAIN run = {"at", "q", "g", "x"}
      BY <1>0, <2>1 DEF RunShape, Idle
    <3> QED BY <2>2, <3>1 DEF RunShape
  <2> QED BY <1>i, <2>1, <2>2
<1>4. CASE CreatePullRequest \/ ClientFails
  BY <1>4, <1>i DEF CreatePullRequest, ClientFails, FinishCreate
<1> QED BY <1>1, <1>2, <1>3, <1>4 DEF Next, Push, EvaluatePrCreationGate,
      EvaluateCiMonitorGate, MonitorCi, EvaluateRepairLoopGate, PlanRepair,
      EvaluateProposalGate, Propose, CiReports, Meddle

\* What a step does to the pull requests; only the creator opens them in its name,
\* and only when it has looked.
LEMMA NextPulls ==
  ASSUME ShapeInv, Next
  PROVE  \/ PullsKept
         \/ UNCHANGED run /\ (PullAdded("person", OfFeature) \/ PullClosed)
         \/ /\ run.at = "create" /\ run' = Idle
            /\ PullAdded("creator", Wanted(run.q, run.g))
BY DEF Next, Push, EvaluatePrCreationGate, StartCreate, FindOpenPullRequest,
       CreatePullRequest, ClientFails, FinishCreate, EvaluateCiMonitorGate, MonitorCi,
       EvaluateRepairLoopGate, PlanRepair, EvaluateProposalGate, Propose, CiReports, Meddle,
       PullsKept, PullAdded, PullClosed

\* The shapes, throughout.
THEOREM Shapes == Spec => []ShapeInv
<1>1. Init => ShapeInv
  <2> SUFFICES ASSUME Init PROVE ShapeInv
    OBVIOUS
  <2>1. pulls \in Seq({}) /\ DOMAIN pulls = {}
    BY DEF Init
  <2>2. DOMAIN evidence = Stages
    BY DEF Init, Stages
  <2> QED BY <2>1, <2>2 DEF Init, ShapeInv, RunShape
<1>2. ShapeInv /\ [Next]_vars => ShapeInv'
  <2>1. CASE UNCHANGED vars
    BY <2>1 DEF vars, ShapeInv, RunShape
  <2>2. ASSUME ShapeInv, Next PROVE ShapeInv'
    <3>1. (\E S : pulls' \in Seq(S)) /\ \A i \in DOMAIN pulls' : PullShape(pulls'[i])
      BY <2>2, NextPulls, PullsShape
    <3>2. head' \in Nat /\ attempts' \in Nat
      <4>1. head' = head \/ head' = head + 1
        BY <2>2 DEF Next, Push, EvaluatePrCreationGate, StartCreate, FindOpenPullRequest,
             CreatePullRequest, ClientFails, EvaluateCiMonitorGate, MonitorCi,
             EvaluateRepairLoopGate, PlanRepair, EvaluateProposalGate, Propose, CiReports,
             Meddle
      <4>2. attempts' = attempts \/ attempts' = attempts + 1
        BY <2>2 DEF Next, Push, EvaluatePrCreationGate, StartCreate, FindOpenPullRequest,
             CreatePullRequest, ClientFails, EvaluateCiMonitorGate, MonitorCi,
             EvaluateRepairLoopGate, PlanRepair, EvaluateProposalGate, Propose, CiReports,
             Meddle
      <4> QED BY <2>2, <4>1, <4>2 DEF ShapeInv
    <3>3. DOMAIN evidence' = Stages /\ RunShape'
      BY <2>2, StagesKept, RunKept
    <3> QED BY <3>1, <3>2, <3>3 DEF ShapeInv
  <2> QED BY <2>1, <2>2
<1> QED BY <1>1, <1>2, PTL DEF Spec

-----------------------------------------------------------------------------
(* One open pull request. *)

OwnOpen == {i \in DOMAIN pulls : pulls[i].open /\ pulls[i].by = "creator"}

\* When the creator is about to open one, it has found none for the same; what
\* others open meanwhile is not in its name.
OneInv ==
  /\ OneOpenPullRequest
  /\ run.at = "create" => \A i \in OwnOpen : pulls[i].of # Wanted(run.q, run.g)

\* Every step keeps it.
LEMMA NextOne ==
  ASSUME ShapeInv, OneInv, Next
  PROVE  OneInv'
<1>0. RunShape /\ \A i \in DOMAIN pulls : PullShape(pulls[i])
  BY DEF ShapeInv
<1>1. PICK S : pulls \in Seq(S)
  BY DEF ShapeInv
<1>2. CASE PullsKept
  <2>1. OwnOpen' = OwnOpen /\ OneOpenPullRequest'
    BY <1>2 DEF PullsKept, OwnOpen, OneInv, OneOpenPullRequest
  <2> SUFFICES ASSUME run'.at = "create", NEW i \in OwnOpen
               PROVE  pulls[i].of # Wanted(run'.q, run'.g)
    BY <1>2, <2>1 DEF OneInv, PullsKept
  <2>2. CASE UNCHANGED run
    BY <2>2 DEF OneInv
  <2>3. CASE StartCreate
    <3>1. \/ UNCHANGED run
          \/ \E q, g, x : run' = [at |-> "find", q |-> q, g |-> g, x |-> x]
      BY <2>3 DEF StartCreate
    <3> QED BY <2>2, <3>1
  <2>4. CASE FindOpenPullRequest
    <3>1. run' # Idle
      BY DEF Idle
    <3>2. /\ OpenFor(Wanted(run.q, run.g)) = {} /\ run.at = "find"
          /\ run' = [run EXCEPT !.at = "create"]
      BY <2>4, <3>1 DEF FindOpenPullRequest, FinishCreate
    <3>3. run'.q = run.q /\ run'.g = run.g
      BY <1>0, <3>2 DEF RunShape, Idle
    <3>4. i \notin OpenFor(Wanted(run.q, run.g))
      BY <3>2
    <3> QED BY <3>3, <3>4 DEF OpenFor, OwnOpen
  <2>5. CASE CreatePullRequest \/ ClientFails
    <3>1. run' = Idle
      BY <2>5 DEF CreatePullRequest, ClientFails, FinishCreate
    <3> QED BY <3>1 DEF Idle
  <2> QED BY <2>2, <2>3, <2>4, <2>5 DEF Next, Push, EvaluatePrCreationGate,
        EvaluateCiMonitorGate, MonitorCi, EvaluateRepairLoopGate, PlanRepair,
        EvaluateProposalGate, Propose, CiReports, Meddle
<1>3. CASE UNCHANGED run /\ PullAdded("person", OfFeature)
  <2>n. PICK n : n = Len(pulls)
    OBVIOUS
  <2>1. /\ n \in Nat /\ DOMAIN pulls = 1 .. n /\ DOMAIN pulls' = 1 .. n + 1
        /\ \A i \in 1 .. n : pulls'[i] = pulls[i]
        /\ pulls'[n + 1].by = "person"
    BY <1>1, <1>3, <2>n, Added, OpenedShape DEF PullAdded
  <2>2. OwnOpen' = OwnOpen /\ \A i \in OwnOpen : pulls'[i] = pulls[i]
    <3>1. \A i \in 1 .. n + 1 : i \in 1 .. n \/ i = n + 1
      BY <2>1
    <3>2. \A i : i \in OwnOpen' <=> i \in OwnOpen
      BY <2>1, <3>1 DEF OwnOpen
    <3> QED BY <2>1, <3>2 DEF OwnOpen
  <2> QED BY <1>3, <2>2 DEF OneInv, OneOpenPullRequest, OwnOpen
<1>4. CASE UNCHANGED run /\ PullClosed
  <2>1. PICK k \in DOMAIN pulls : pulls' = [pulls EXCEPT ![k].open = FALSE]
    BY <1>4 DEF PullClosed
  <2>2. /\ DOMAIN pulls' = DOMAIN pulls /\ ~pulls'[k].open
        /\ \A i \in DOMAIN pulls \ {k} : pulls'[i] = pulls[i]
    BY <1>0, <1>1, <2>1, Closed
  <2>3. OwnOpen' \subseteq OwnOpen /\ \A i \in OwnOpen' : pulls'[i] = pulls[i]
    BY <2>2 DEF OwnOpen
  <2> QED BY <1>4, <2>3 DEF OneInv, OneOpenPullRequest, OwnOpen
<1>5. CASE /\ run.at = "create" /\ run' = Idle
           /\ PullAdded("creator", Wanted(run.q, run.g))
  <2>n. PICK n, wanted : n = Len(pulls) /\ wanted = Wanted(run.q, run.g)
    OBVIOUS
  <2>1. /\ n \in Nat /\ DOMAIN pulls = 1 .. n /\ DOMAIN pulls' = 1 .. n + 1
        /\ \A i \in 1 .. n : pulls'[i] = pulls[i]
        /\ pulls'[n + 1].of = wanted
    BY <1>1, <1>5, <2>n, Added, OpenedShape DEF PullAdded
  <2>2. \A i \in OwnOpen' : i = n + 1 \/ (i \in OwnOpen /\ pulls'[i] = pulls[i])
    <3>1. \A i \in 1 .. n + 1 : i \in 1 .. n \/ i = n + 1
      BY <2>1
    <3> QED BY <2>1, <3>1 DEF OwnOpen
  <2>3. \A i \in OwnOpen : pulls[i].of # wanted
    BY <1>5, <2>n DEF OneInv
  <2>4. \A i, j \in OwnOpen' : pulls'[i].of = pulls'[j].of => i = j
    BY <2>1, <2>2, <2>3 DEF OneInv, OneOpenPullRequest, OwnOpen
  <2>5. run'.at # "create"
    BY <1>5 DEF Idle
  <2> QED BY <2>4, <2>5 DEF OneInv, OneOpenPullRequest, OwnOpen
<1> QED BY <1>2, <1>3, <1>4, <1>5, NextPulls

\* However often creations are repeated after answers that were lost, and whatever
\* others open and close meanwhile, a creator that works alone has at most one open
\* pull request from a branch into a base of a repository (find_open_pull_request
\* before create_pull_request in pr_creator.py).
THEOREM OnePullRequest == Spec => []OneOpenPullRequest
<1>1. Init => OneInv
  BY DEF Init, OneInv, OneOpenPullRequest, Idle
<1>2. ShapeInv /\ OneInv /\ [Next]_vars => OneInv'
  <2>1. UNCHANGED vars /\ OneInv => OneInv'
    BY DEF vars, OneInv, OneOpenPullRequest, OwnOpen
  <2> QED BY NextOne, <2>1
<1>3. OneInv => OneOpenPullRequest
  BY DEF OneInv
<1> QED BY <1>1, <1>2, <1>3, Shapes, PTL DEF Spec

-----------------------------------------------------------------------------
(* Pull requests rest on pushes. *)

\* A push that is reported was made; so was one behind what the creation gate found
\* eligible, and behind what the creator is working on.
RestInv ==
  /\ {"pushed", "success"} \subseteq DOMAIN evidence.push
  /\ "pr_eligible" \in DOMAIN evidence.prgate
  /\ evidence.push.pushed \/ evidence.prgate.pr_eligible \/ run # Idle => head > 0
  /\ PullRequestsRestOnPush

\* What a caller hands on says no more than what it was handed.
LEMMA HandedOn ==
  ASSUME NEW stage, NEW result, NEW none, NEW field \in DOMAIN result, field # "truth",
         NEW h \in Handed(stage, result, none)
  PROVE  h[field] = result[field] \/ h = none
BY DEF Handed

\* A step that records neither a push nor a judgement of one.
LEMMA RestSame ==
  ASSUME ShapeInv, RestInv, UNCHANGED << head, pulls >>, run' = run \/ run' = Idle,
         \/ UNCHANGED evidence
         \/ \E stage \in Stages \ {"push", "prgate"} : \E result : Record(stage, result)
  PROVE  RestInv'
<1>1. evidence'.push = evidence.push /\ evidence'.prgate = evidence.prgate
  BY Recorded DEF ShapeInv, Stages
<1> QED BY <1>1 DEF RestInv, PullRequestsRestOnPush

\* Every step keeps it.
LEMMA NextRest ==
  ASSUME ShapeInv, RestInv, Next
  PROVE  RestInv'
<1>0. DOMAIN evidence = Stages /\ RunShape /\ head \in Nat
  BY DEF ShapeInv
<1>1. CASE Push
  <2>1. UNCHANGED << pulls, run >> /\ run = Idle
    BY <1>1 DEF Push
  <2>2. CASE head' = head + 1 /\ Record("push", Pushed(head'))
    <3>1. evidence'.push = Pushed(head') /\ evidence'.prgate = evidence.prgate
      BY <1>0, <2>2, Recorded DEF Stages
    <3>2. {"pushed", "success"} \subseteq DOMAIN Pushed(head')
      BY DEF Pushed, PE!NoResult
    <3>3. head' > 0
      BY <1>0, <2>2
    <3> QED BY <2>1, <3>1, <3>2, <3>3 DEF RestInv, PullRequestsRestOnPush
  <2>3. CASE UNCHANGED head /\ Record("push", Refused)
    <3>1. evidence'.push = Refused /\ evidence'.prgate = evidence.prgate
      BY <1>0, <2>3, Recorded DEF Stages
    <3>2. {"pushed", "success"} \subseteq DOMAIN Refused /\ ~Refused.pushed
      BY DEF Refused, PE!NoResult
    <3> QED BY <2>1, <2>3, <3>1, <3>2 DEF RestInv, PullRequestsRestOnPush
  <2> QED BY <1>1, <2>2, <2>3 DEF Push
<1>2. CASE EvaluatePrCreationGate
  <2>1. PICK q \in Use.prgate, x \in Handed("push", evidence.push, PE!NoResult) :
          \E g : Record("prgate", PG!Result(q, x, g))
    BY <1>2 DEF EvaluatePrCreationGate
  <2>2. UNCHANGED << head, pulls, run >>
    BY <1>2 DEF EvaluatePrCreationGate
  <2>g. PICK g : Record("prgate", PG!Result(q, x, g))
    BY <2>1
  <2>3. evidence'.prgate = PG!Result(q, x, g) /\ evidence'.push = evidence.push
    BY <1>0, <2>g, Recorded DEF Stages
  <2>4. "pr_eligible" \in DOMAIN PG!Result(q, x, g)
    BY DEF PG!Result
  <2>5. ASSUME evidence'.prgate.pr_eligible PROVE head > 0
    <3>1. x.pushed
      BY <2>3, <2>5 DEF PG!Result, PG!Eligible, PG!PushEvidenceClean
    <3>2. x.pushed = evidence.push.pushed \/ x = PE!NoResult
      BY HandedOn DEF RestInv
    <3>3. ~PE!NoResult.pushed
      BY DEF PE!NoResult
    <3> QED BY <3>1, <3>2, <3>3 DEF RestInv
  <2> QED BY <2>2, <2>3, <2>4, <2>5 DEF RestInv, PullRequestsRestOnPush
<1>3. CASE StartCreate
  <2>1. PICK q \in Use.creator, g \in Handed("prgate", evidence.prgate, PG!NoResult),
             x \in MayOmit("push", evidence.push, PE!NoResult) :
          \/ UNCHANGED run /\ \E r : Record("creator", r)
          \/ /\ ~PC!Blocked(q, g, x) /\ UNCHANGED evidence
             /\ run' = [at |-> "find", q |-> q, g |-> g, x |-> x]
    BY <1>3 DEF StartCreate
  <2>2. UNCHANGED << head, pulls >>
    BY <1>3 DEF StartCreate
  <2>3. CASE UNCHANGED run /\ \E r : Record("creator", r)
    BY <2>2, <2>3, RestSame DEF Stages
  <2>4. CASE ~PC!Blocked(q, g, x) /\ UNCHANGED evidence
    <3>1. g.pr_eligible
      BY <2>4 DEF PC!Blocked
    <3>2. g.pr_eligible = evidence.prgate.pr_eligible \/ g = PG!NoResult
      BY HandedOn DEF RestInv
    <3>3. ~PG!NoResult.pr_eligible
      BY DEF PG!NoResult
    <3>4. head > 0
      BY <3>1, <3>2, <3>3 DEF RestInv
    <3> QED BY <2>2, <2>4, <3>4 DEF RestInv, PullRequestsRestOnPush
  <2> QED BY <2>1, <2>3, <2>4
<1>4. CASE FindOpenPullRequest
  <2>1. UNCHANGED << head, pulls >> /\ run # Idle
    BY <1>4 DEF FindOpenPullRequest, Idle
  <2>2. run' = Idle \/ UNCHANGED evidence
    BY <1>4 DEF FindOpenPullRequest, FinishCreate
  <2>3. UNCHANGED evidence \/ \E r : Record("creator", r)
    BY <1>4 DEF FindOpenPullRequest, FinishCreate
  <2>4. CASE run' = Idle
    BY <2>1, <2>3, <2>4, RestSame DEF Stages
  <2>5. CASE UNCHANGED evidence
    BY <2>1, <2>5 DEF RestInv, PullRequestsRestOnPush
  <2> QED BY <2>2, <2>4, <2>5
<1>5. CASE CreatePullRequest \/ ClientFails
  <2>1. UNCHANGED head /\ run # Idle /\ run' = Idle
    BY <1>5 DEF CreatePullRequest, ClientFails, FinishCreate, Idle
  <2>2. UNCHANGED evidence \/ \E r : Record("creator", r)
    BY <1>5 DEF CreatePullRequest, ClientFails, FinishCreate
  <2>3. evidence'.push = evidence.push /\ evidence'.prgate = evidence.prgate
    BY <1>0, <2>2, Recorded DEF Stages
  <2>4. head > 0
    BY <2>1 DEF RestInv
  <2>5. PullRequestsRestOnPush'
    <3>1. CASE PullsKept
      BY <3>1 DEF PullsKept, RestInv, PullRequestsRestOnPush
    <3>2. ASSUME NEW wanted, PullAdded("creator", wanted) PROVE PullRequestsRestOnPush'
      <4>1. PICK S, n : pulls \in Seq(S) /\ n = Len(pulls)
        BY DEF ShapeInv
      <4>2. /\ n \in Nat /\ DOMAIN pulls = 1 .. n /\ DOMAIN pulls' = 1 .. n + 1
            /\ \A i \in 1 .. n : pulls'[i] = pulls[i]
            /\ pulls'[n + 1].pushed = head
        BY <3>2, <4>1, Added, OpenedShape DEF PullAdded
      <4>3. \A i \in 1 .. n + 1 : i \in 1 .. n \/ i = n + 1
        BY <4>2
      <4> QED BY <2>4, <4>2, <4>3 DEF RestInv, PullRequestsRestOnPush
    <3>3. PullsKept \/ \E wanted : PullAdded("creator", wanted)
      BY <1>5 DEF CreatePullRequest, ClientFails, PullsKept, PullAdded
    <3> QED BY <3>1, <3>2, <3>3
  <2> QED BY <2>1, <2>3, <2>4, <2>5 DEF RestInv
<1>6. CASE \/ EvaluateCiMonitorGate \/ MonitorCi \/ EvaluateRepairLoopGate \/ PlanRepair
           \/ EvaluateProposalGate \/ Propose \/ CiReports
  <2>1. UNCHANGED << head, pulls, run >>
    BY <1>6 DEF EvaluateCiMonitorGate, MonitorCi, EvaluateRepairLoopGate, PlanRepair,
                EvaluateProposalGate, Propose, CiReports
  <2>2. \/ UNCHANGED evidence
        \/ \E stage \in Stages \ {"push", "prgate"} : \E result : Record(stage, result)
    BY <1>6 DEF EvaluateCiMonitorGate, MonitorCi, EvaluateRepairLoopGate, PlanRepair,
                EvaluateProposalGate, Propose, CiReports, Stages
  <2> QED BY <2>1, <2>2, RestSame
<1>7. CASE Meddle
  <2>1. UNCHANGED << head, run, evidence >> /\ (PullAdded("person", OfFeature) \/ PullClosed)
    BY <1>7 DEF Meddle, PullAdded, PullClosed
  <2>2. PICK S, n : pulls \in Seq(S) /\ n = Len(pulls)
    BY DEF ShapeInv
  <2>3. CASE PullAdded("person", OfFeature)
    <3>1. /\ n \in Nat /\ DOMAIN pulls = 1 .. n /\ DOMAIN pulls' = 1 .. n + 1
          /\ \A i \in 1 .. n : pulls'[i] = pulls[i]
          /\ pulls'[n + 1].by = "person"
      BY <2>2, <2>3, Added, OpenedShape DEF PullAdded
    <3>2. \A i \in 1 .. n + 1 : i \in 1 .. n \/ i = n + 1
      BY <3>1
    <3> QED BY <2>1, <3>1, <3>2 DEF RestInv, PullRequestsRestOnPush
  <2>4. CASE PullClosed
    <3>1. PICK k \in DOMAIN pulls : pulls' = [pulls EXCEPT ![k].open = FALSE]
      BY <2>4 DEF PullClosed
    <3>2. PullShape(pulls[k])
      BY DEF ShapeInv
    <3>3. /\ DOMAIN pulls' = DOMAIN pulls
          /\ \A i \in DOMAIN pulls \ {k} : pulls'[i] = pulls[i]
          /\ pulls'[k].by = pulls[k].by /\ pulls'[k].pushed = pulls[k].pushed
      BY <2>2, <3>1, <3>2, Closed
    <3> QED BY <2>1, <3>3 DEF RestInv, PullRequestsRestOnPush
  <2> QED BY <2>1, <2>3, <2>4
<1> QED BY <1>1, <1>2, <1>3, <1>4, <1>5, <1>6, <1>7 DEF Next

\* Whatever a caller waives, vouches for, strips or leaves out, the creator only
\* opens a pull request when something has been pushed (_push_evidence_clean of
\* pr_creation_gate.py, pr_eligible in pr_creator.py).
THEOREM PullRequestsFollowPush == Spec => []PullRequestsRestOnPush
<1>1. Init => RestInv
  BY DEF Init, RestInv, PullRequestsRestOnPush, PE!NoResult, PG!NoResult
<1>2. ShapeInv /\ RestInv /\ [Next]_vars => RestInv'
  <2>1. UNCHANGED vars /\ RestInv => RestInv'
    BY DEF vars, RestInv, PullRequestsRestOnPush
  <2> QED BY NextRest, <2>1
<1>3. RestInv => PullRequestsRestOnPush
  BY DEF RestInv
<1> QED BY <1>1, <1>2, <1>3, Shapes, PTL DEF Spec

-----------------------------------------------------------------------------
(* The budget of repair attempts. *)

\* A proposal is only created while attempts remain.
LEMMA CreatedInBudget ==
  ASSUME NEW q, NEW s, NEW r, NEW m, SE!Result(q, s, r, m).proposal_created
  PROVE  q.maximum \in 1 .. 10 /\ q.attempt < q.maximum
<1>1. SE!Created(q, s, r, m)
  BY Zenon DEF SE!Result
<1>2. SE!Budget(q).valid /\ SE!Budget(q).remaining # 0
  BY <1>1 DEF SE!Created, SE!Blocked
<1> QED BY <1>2 DEF SE!Budget

\* However the stages are repeated, a caller that counts its attempts gets no more
\* proposals than it allows (_attempt_budget, which every repair stage asks again).
THEOREM ProposalsInBudget == Spec => []AttemptsStayInBudget
<1> DEFINE Inv == scenario \in DOMAIN Scenarios /\ AttemptsStayInBudget
<1>1. Init => Inv
  BY DEF Init, AttemptsStayInBudget
<1>2. ShapeInv /\ Inv /\ [Next]_vars => Inv'
  <2>1. CASE UNCHANGED << scenario, attempts >>
    BY <2>1 DEF AttemptsStayInBudget, Use
  <2>2. ASSUME ShapeInv, Inv, Propose PROVE Inv'
    <3>1. UNCHANGED scenario
      BY <2>2 DEF Propose
    <3>2. PICK q \in Use.proposal, r \in MayOmit("planner", Plan, RP!NoResult) :
            LET result == SE!Result(Counted(q), evidence.propgate, r, evidence.monitor) IN
            attempts' = IF result.proposal_created THEN attempts + 1 ELSE attempts
      BY <2>2 DEF Propose
    <3>3. CASE attempts' = attempts
      BY <2>2, <3>1, <3>3 DEF AttemptsStayInBudget, Use
    <3>4. CASE SE!Result(Counted(q), evidence.propgate, r, evidence.monitor).proposal_created
      <4>1. Counted(q).maximum \in 1 .. 10 /\ Counted(q).attempt < Counted(q).maximum
        BY <3>4, CreatedInBudget
      <4>2. DOMAIN q = DOMAIN PrOrdinary /\ "attempt" \in DOMAIN PrOrdinary
        BY <2>2, RequestAssumption DEF Use, PrOrdinary
      <4>3. Counted(q).attempt = attempts /\ Counted(q).maximum = q.maximum
        BY <4>2 DEF Counted
      <4>4. attempts' = attempts + 1
        BY <3>2, <3>4
      <4>5. attempts' <= q.maximum
        BY <2>2, <4>1, <4>3, <4>4 DEF ShapeInv
      <4> QED BY <2>2, <3>1, <4>5 DEF AttemptsStayInBudget, Use
    <3> QED BY <3>2, <3>3, <3>4
  <2>3. Next => Propose \/ UNCHANGED << scenario, attempts >>
    BY DEF Next, Push, EvaluatePrCreationGate, StartCreate, FindOpenPullRequest,
           CreatePullRequest, ClientFails, EvaluateCiMonitorGate, MonitorCi,
           EvaluateRepairLoopGate, PlanRepair, EvaluateProposalGate, CiReports, Meddle
  <2>4. UNCHANGED vars => UNCHANGED << scenario, attempts >>
    BY DEF vars
  <2> QED BY <2>1, <2>2, <2>3, <2>4
<1>3. Inv => AttemptsStayInBudget
  OBVIOUS
<1> QED BY <1>1, <1>2, <1>3, Shapes, PTL DEF Spec

-----------------------------------------------------------------------------
(* Types. *)

CheckReports == [Checks -> Outcomes]
BasisStages == {"monitor", "repairgate", "planner", "proposal"}

TypeInv ==
  /\ scenario \in DOMAIN Scenarios
  /\ DOMAIN basis = BasisStages
  /\ TypeOK

\* The scenario is never another one.
LEMMA SameUse ==
  ASSUME Next
  PROVE  UNCHANGED scenario /\ Use' = Use
<1>1. UNCHANGED scenario
  BY DEF Next, Push, EvaluatePrCreationGate, StartCreate, FindOpenPullRequest,
         CreatePullRequest, ClientFails, EvaluateCiMonitorGate, MonitorCi,
         EvaluateRepairLoopGate, PlanRepair, EvaluateProposalGate, Propose, CiReports, Meddle
<1> QED BY <1>1 DEF Use

\* The branch only grows, and not past the pushes there are.
LEMMA HeadGrows ==
  ASSUME TypeInv, Next
  PROVE  head' \in 0 .. Use.pushes /\ head' >= head
<1>0. head \in 0 .. Use.pushes /\ Use.pushes \in Nat
  BY ReportAssumption DEF TypeInv, TypeOK, Use
<1>1. UNCHANGED head \/ (head < Use.pushes /\ head' = head + 1)
  BY DEF Next, Push, EvaluatePrCreationGate, StartCreate, FindOpenPullRequest,
         CreatePullRequest, ClientFails, EvaluateCiMonitorGate, MonitorCi,
         EvaluateRepairLoopGate, PlanRepair, EvaluateProposalGate, Propose, CiReports, Meddle
<1> QED BY <1>0, <1>1

\* A check reports one of the outcomes.
LEMMA ReportsKept ==
  ASSUME TypeInv, Next
  PROVE  ci' \in [1 .. Use.pushes -> CheckReports]
<1>0. ci \in [1 .. Use.pushes -> CheckReports] /\ head \in 0 .. Use.pushes
  BY DEF TypeInv, TypeOK, CheckReports
<1>1. CASE CiReports
  <2>1. PICK sha \in 1 .. head, check \in Checks, word \in Use.words :
          ci' = [ci EXCEPT ![sha][check] = word]
    BY <1>1 DEF CiReports
  <2>2. word \in Outcomes
    BY ReportAssumption DEF TypeInv, Use, Outcomes
  <2>3. Use.pushes \in Nat
    BY ReportAssumption DEF TypeInv, Use
  <2>4. sha \in 1 .. Use.pushes
    BY <1>0, <2>3
  <2>5. [ci[sha] EXCEPT ![check] = word] \in CheckReports
    BY <1>0, <2>2, <2>4 DEF CheckReports
  <2>6. ci' = [ci EXCEPT ![sha] = [ci[sha] EXCEPT ![check] = word]]
    BY <2>1
  <2> HIDE DEF CheckReports
  <2> QED BY <1>0, <2>5, <2>6
<1>2. CASE UNCHANGED ci
  BY <1>0, <1>2
<1> QED BY <1>1, <1>2 DEF Next, Push, EvaluatePrCreationGate, StartCreate,
      FindOpenPullRequest, CreatePullRequest, ClientFails, EvaluateCiMonitorGate, MonitorCi,
      EvaluateRepairLoopGate, PlanRepair, EvaluateProposalGate, Propose, Meddle

\* The reports of any commit, pushed or not, are reports.
LEMMA AnyReports ==
  ASSUME TypeInv, NEW sha
  PROVE  ReportsOf(sha) \in CheckReports
<1>1. CASE sha \in 1 .. head
  <2>1. Use.pushes \in Nat
    BY ReportAssumption DEF TypeInv, Use
  <2> QED BY <1>1, <2>1 DEF TypeInv, TypeOK, CheckReports, ReportsOf
<1>2. CASE sha \notin 1 .. head
  BY <1>2 DEF ReportsOf, CheckReports, Outcomes
<1> QED BY <1>1, <1>2

\* What a result rests on is a commit's reports at some time.
LEMMA BasisKept ==
  ASSUME TypeInv, Next
  PROVE  /\ DOMAIN basis' = BasisStages
         /\ \A stage \in DOMAIN basis' : basis'[stage] \in {Nothing} \cup CheckReports
<1> DEFINE B == {Nothing} \cup CheckReports
<1>0. DOMAIN basis = BasisStages /\ \A stage \in BasisStages : basis[stage] \in B
  BY DEF TypeInv, TypeOK, CheckReports
<1>1. \A sha : ReportsOf(sha) \in B
  BY AnyReports
<1> HIDE DEF B
<1>2. \/ UNCHANGED basis
      \/ \E stage \in BasisStages, b \in B : basis' = [basis EXCEPT ![stage] = b]
  <2>1. CASE MonitorCi
    <3>1. UNCHANGED basis \/ \E sha : basis' = [basis EXCEPT !.monitor = ReportsOf(sha)]
      BY <2>1 DEF MonitorCi
    <3> QED BY <1>1, <3>1 DEF BasisStages
  <2>2. CASE EvaluateRepairLoopGate
    BY <1>0, <2>2 DEF EvaluateRepairLoopGate, BasisStages
  <2>3. CASE PlanRepair
    <3>1. \/ basis' = [basis EXCEPT !.planner = basis.repairgate]
          \/ basis' = [basis EXCEPT !.planner = basis.monitor]
      BY <2>3 DEF PlanRepair
    <3> QED BY <1>0, <3>1 DEF BasisStages
  <2>4. CASE Propose
    BY <1>0, <2>4 DEF Propose, BasisStages
  <2> QED BY <2>1, <2>2, <2>3, <2>4 DEF Next, Push, EvaluatePrCreationGate, StartCreate,
        FindOpenPullRequest, CreatePullRequest, ClientFails, EvaluateCiMonitorGate,
        EvaluateProposalGate, CiReports, Meddle
<1> QED BY <1>0, <1>2 DEF B

\* What happens to the creator's result: it names no pull request, or one there is.
LEMMA CreatorNames ==
  ASSUME ShapeInv, Next
  PROVE  \/ evidence'.creator = evidence.creator
         \/ evidence'.creator.number \in 0 .. Len(pulls')
<1>0. DOMAIN evidence = Stages
  BY DEF ShapeInv
<1>s. PICK S : pulls \in Seq(S)
  BY DEF ShapeInv
<1>l. Len(pulls) \in Nat /\ DOMAIN pulls = 1 .. Len(pulls)
  BY <1>s
<1>r. ASSUME NEW q, NEW g, NEW x, NEW outcome, NEW number, NEW state,
             Record("creator", PC!Result(q, g, x, outcome, number, state))
      PROVE  evidence'.creator.number = number
  BY <1>0, <1>r, Recorded DEF PC!Result, Stages
<1>1. CASE StartCreate
  <2>1. \/ UNCHANGED evidence
        \/ \E q, g, x, outcome : Record("creator", PC!Result(q, g, x, outcome, 0, NoText))
    BY <1>1 DEF StartCreate
  <2>2. UNCHANGED pulls
    BY <1>1 DEF StartCreate
  <2> QED BY <1>l, <1>r, <2>1, <2>2
<1>2. CASE FindOpenPullRequest
  <2> DEFINE open == OpenFor(Wanted(run.q, run.g))
  <2>1. UNCHANGED evidence \/ (open # {} /\ FinishCreate("found", Min(open), "open"))
    BY <1>2 DEF FindOpenPullRequest
  <2>2. UNCHANGED pulls
    BY <1>2 DEF FindOpenPullRequest
  <2>3. CASE open # {} /\ FinishCreate("found", Min(open), "open")
    <3>1. open \subseteq 1 .. Len(pulls)
      BY <1>l DEF OpenFor
    <3> HIDE DEF open
    <3>2. Min(open) \in 1 .. Len(pulls)
      <4>1. open # {} /\ open \subseteq Nat
        BY <1>l, <2>3, <3>1
      <4>2. Min(open) \in open
        BY <4>1, MinOfNats
      <4> QED BY <3>1, <4>2
    <3>3. evidence'.creator.number = Min(open)
      BY <1>r, <2>3 DEF FinishCreate
    <3> QED BY <1>l, <2>2, <3>2, <3>3
  <2> QED BY <2>1, <2>3
<1>3. CASE CreatePullRequest
  <2>1. evidence'.creator.number = Len(pulls')
    BY <1>3, <1>r DEF CreatePullRequest, FinishCreate
  <2>2. \E T : pulls' \in Seq(T)
    BY <1>3, <1>s, Added DEF CreatePullRequest
  <2>3. Len(pulls') \in Nat
    BY <2>2
  <2> QED BY <2>1, <2>3
<1>4. CASE ClientFails
  <2>1. UNCHANGED evidence \/ evidence'.creator.number = 0
    BY <1>4, <1>r DEF ClientFails, FinishCreate
  <2>2. \E T : pulls' \in Seq(T)
    BY <1>4, <1>s, Added DEF ClientFails
  <2>3. Len(pulls') \in Nat
    BY <2>2
  <2> QED BY <2>1, <2>3
<1>5. CASE UNCHANGED evidence \/ \E stage \in Stages \ {"creator"} : \E r : Record(stage, r)
  BY <1>0, <1>5, Recorded DEF Stages
<1> QED BY <1>1, <1>2, <1>3, <1>4, <1>5 DEF Next, Push, EvaluatePrCreationGate,
      EvaluateCiMonitorGate, MonitorCi, EvaluateRepairLoopGate, PlanRepair,
      EvaluateProposalGate, Propose, CiReports, Meddle, Stages

\* Pull requests are never taken away, and each knows how much had been pushed.
LEMMA PullsGrow ==
  ASSUME ShapeInv, TypeInv, Next
  PROVE  /\ Len(pulls) \in Nat /\ Len(pulls') \in Nat /\ Len(pulls') >= Len(pulls)
         /\ \A i \in DOMAIN pulls : /\ i \in DOMAIN pulls'
                                    /\ pulls'[i].by = pulls[i].by
                                    /\ pulls'[i].pushed = pulls[i].pushed
         /\ \A i \in DOMAIN pulls' : pulls'[i].pushed \in 0 .. head'
<1>s. PICK S, n : pulls \in Seq(S) /\ n = Len(pulls)
  BY DEF ShapeInv
<1>h. head' \in Nat /\ head' >= head /\ head \in Nat
  <2>1. Use.pushes \in Nat
    BY ReportAssumption DEF TypeInv, Use
  <2> QED BY <2>1, HeadGrows DEF TypeInv, TypeOK
<1>0. \A i \in DOMAIN pulls : pulls[i].pushed \in 0 .. head'
  BY <1>h DEF TypeInv, TypeOK
<1>1. CASE PullsKept
  BY <1>0, <1>1, <1>s DEF PullsKept
<1>2. ASSUME NEW by \in {"creator", "person"}, NEW wanted, PullAdded(by, wanted)
      PROVE  /\ n \in Nat /\ Len(pulls') \in Nat /\ Len(pulls') >= n
             /\ \A i \in DOMAIN pulls : /\ i \in DOMAIN pulls'
                                        /\ pulls'[i].by = pulls[i].by
                                        /\ pulls'[i].pushed = pulls[i].pushed
             /\ \A i \in DOMAIN pulls' : pulls'[i].pushed \in 0 .. head'
  <2>1. /\ \E T : pulls' \in Seq(T)
        /\ n \in Nat /\ DOMAIN pulls = 1 .. n /\ DOMAIN pulls' = 1 .. n + 1
        /\ \A i \in 1 .. n : pulls'[i] = pulls[i]
        /\ pulls'[n + 1].pushed = head
    BY <1>2, <1>s, Added, OpenedShape DEF PullAdded
  <2>2. \A i \in 1 .. n + 1 : i \in 1 .. n \/ i = n + 1
    BY <2>1
  <2>3. Len(pulls') = n + 1
    BY <2>1
  <2> QED BY <1>0, <1>h, <2>1, <2>2, <2>3
<1>3. CASE PullClosed
  <2>1. PICK k \in DOMAIN pulls : pulls' = [pulls EXCEPT ![k].open = FALSE]
    BY <1>3 DEF PullClosed
  <2>2. PullShape(pulls[k])
    BY DEF ShapeInv
  <2>3. /\ \E T : pulls' \in Seq(T)
        /\ DOMAIN pulls' = DOMAIN pulls
        /\ \A i \in DOMAIN pulls \ {k} : pulls'[i] = pulls[i]
        /\ pulls'[k].by = pulls[k].by /\ pulls'[k].pushed = pulls[k].pushed
    BY <1>s, <2>1, <2>2, Closed
  <2>4. Len(pulls') = Len(pulls)
    BY <1>s, <2>3
  <2> QED BY <1>0, <1>s, <2>3, <2>4
<1> QED BY <1>1, <1>2, <1>3, <1>s, NextPulls

\* The types, throughout.
LEMMA TypesKept == Spec => []TypeInv
<1>1. Init => TypeInv
  <2> SUFFICES ASSUME Init PROVE TypeInv
    OBVIOUS
  <2>1. Use.pushes \in Nat
    BY ReportAssumption DEF Init, Use
  <2>2. /\ head \in 0 .. Use.pushes
        /\ ci \in [1 .. Use.pushes -> [Checks -> Outcomes]]
        /\ run.at = "idle"
    BY <2>1 DEF Init, Outcomes, Idle
  <2>3. /\ \A i \in DOMAIN pulls : pulls[i].by \in {"creator", "person"} /\ pulls[i].pushed \in 0 .. head
        /\ evidence.creator.number \in 0 .. Len(pulls)
    BY DEF Init, PC!NoResult
  <2>4. /\ DOMAIN basis = BasisStages
        /\ \A stage \in DOMAIN basis : basis[stage] \in {Nothing}
    BY DEF Init, BasisStages
  <2> QED BY <2>2, <2>3, <2>4 DEF Init, TypeInv, TypeOK
<1>2. ShapeInv /\ TypeInv /\ ShapeInv' /\ [Next]_vars => TypeInv'
  <2>1. UNCHANGED vars /\ TypeInv => TypeInv'
    BY DEF vars, TypeInv, TypeOK, Use
  <2>2. ASSUME ShapeInv, TypeInv, ShapeInv', Next PROVE TypeInv'
    <3>1. UNCHANGED scenario /\ Use' = Use
      BY <2>2, SameUse
    <3>2. head' \in 0 .. Use.pushes /\ ci' \in [1 .. Use.pushes -> CheckReports]
      BY <2>2, HeadGrows, ReportsKept
    <3>3. DOMAIN basis' = BasisStages /\ \A stage \in DOMAIN basis' : basis'[stage] \in {Nothing} \cup CheckReports
      BY <2>2, BasisKept
    <3>4. /\ Len(pulls) \in Nat /\ Len(pulls') \in Nat /\ Len(pulls') >= Len(pulls)
          /\ \A i \in DOMAIN pulls' : pulls'[i].pushed \in 0 .. head'
      BY <2>2, PullsGrow
    <3>5. \A i \in DOMAIN pulls' : pulls'[i].by \in {"creator", "person"}
      BY <2>2 DEF ShapeInv, PullShape
    <3>6. evidence'.creator.number \in 0 .. Len(pulls')
      <4>1. evidence.creator.number \in 0 .. Len(pulls)
        BY <2>2 DEF TypeInv, TypeOK
      <4> QED BY <2>2, <3>4, <4>1, CreatorNames
    <3>7. run'.at \in {"idle", "find", "create"}
      BY <2>2 DEF ShapeInv, RunShape, Idle
    <3> QED BY <2>2, <3>1, <3>2, <3>3, <3>4, <3>5, <3>6, <3>7 DEF TypeInv, TypeOK, CheckReports
  <2> QED BY <2>1, <2>2
<1> QED BY <1>1, <1>2, Shapes, PTL DEF Spec

\* Type correctness, also whatever commit a caller has the monitor look at: a result
\* of pr_creator.py only names pull requests there are, and what a CI result rests
\* on are the reports of the checks.
THEOREM TypeCorrect == Spec => []TypeOK
<1>1. TypeInv => TypeOK
  BY DEF TypeInv
<1> QED BY <1>1, TypesKept, PTL
================================================================================
