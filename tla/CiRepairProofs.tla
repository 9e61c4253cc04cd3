----------------------------- MODULE CiRepairProofs -----------------------------
(***************************************************************************)
(* Proofs about the CI and repair stages of PullRequestDelivery, for every *)
(* set of scenarios and every set of checks: what the monitor reads and    *)
(* makes of it, and what the repair stages make of what it says while the  *)
(* checks go on reporting.                                                 *)
(***************************************************************************)
EXTENDS PullRequestDeliveryProofs

-----------------------------------------------------------------------------
(* Whose checks are read. *)

\* The commits that results name have been pushed; the creator at work has one.
ShaInv ==
  /\ "commit_sha" \in DOMAIN evidence.push /\ evidence.push.commit_sha \in 0 .. head
  /\ "sha" \in DOMAIN evidence.prgate
  /\ FromEvidence => evidence.prgate.sha \in 0 .. head
  /\ FromEvidence /\ run # Idle => PC!Sha(run.q, run.g, run.x) \in 1 .. head

OwnIn(opened, number, sha) ==
  /\ number \in DOMAIN opened /\ opened[number].by = "creator"
  /\ sha \in 1 .. opened[number].pushed

\* A pull request that is said to be created is the creator's own, with a commit that
\* had been pushed; so are those the monitor gate is for.
OwnInv ==
  /\ {"pr_created", "number", "sha"} \subseteq DOMAIN evidence.creator
  /\ {"ci_monitor_eligible", "number", "sha"} \subseteq DOMAIN evidence.mongate
  /\ FromEvidence /\ evidence.creator.pr_created
       => OwnIn(pulls, evidence.creator.number, evidence.creator.sha)
  /\ FromEvidence /\ evidence.mongate.ci_monitor_eligible
       => OwnIn(pulls, evidence.mongate.number, evidence.mongate.sha)
  /\ OnlyOwnChecksAreRead

\* A result handed on says what it said, apart from its Runtime Truth.
LEMMA HandedWhole ==
  ASSUME NEW stage, NEW result, NEW none, NEW h \in Handed(stage, result, none)
  PROVE  h = none \/ \A field \in DOMAIN result \ {"truth"} : h[field] = result[field]
BY DEF Handed

\* What all callers of a scenario do stays what it is.
LEMMA SameCallers ==
  ASSUME Next
  PROVE  FromEvidence' = FromEvidence
<1>1. Use' = Use
  BY SameUse
<1> QED BY <1>1 DEF FromEvidence

\* The commits the creation gate and the creator take are those that were pushed.
LEMMA NextShas ==
  ASSUME ShapeInv, TypeInv, ShaInv, Next
  PROVE  ShaInv'
<1>0. DOMAIN evidence = Stages /\ RunShape
  BY DEF ShapeInv
<1>f. FromEvidence' = FromEvidence
  BY SameCallers
<1>h. head \in Nat /\ head' \in Nat /\ head' >= head
  <2>1. Use.pushes \in Nat
    BY ReportAssumption DEF TypeInv, Use
  <2> QED BY <2>1, HeadGrows DEF TypeInv, TypeOK
<1>1. "commit_sha" \in DOMAIN evidence'.push /\ evidence'.push.commit_sha \in 0 .. head'
  <2>1. CASE Push
    <3>1. evidence'.push = Pushed(head') \/ evidence'.push = Refused
      BY <1>0, <2>1, Recorded DEF Push, Stages
    <3>2. ASSUME NEW sha
          PROVE  "commit_sha" \in DOMAIN Pushed(sha) /\ Pushed(sha).commit_sha = sha
      BY DEF Pushed, PE!NoResult
    <3>3. "commit_sha" \in DOMAIN Refused /\ Refused.commit_sha = 0
      BY DEF Refused, PE!NoResult
    <3> QED BY <1>h, <3>1, <3>2, <3>3
  <2>2. CASE UNCHANGED evidence \/ \E stage \in Stages \ {"push"} : \E r : Record(stage, r)
    <3>1. evidence'.push = evidence.push
      BY <1>0, <2>2, Recorded DEF Stages
    <3> QED BY <1>h, <3>1 DEF ShaInv
  <2> QED BY <2>1, <2>2 DEF Next, EvaluatePrCreationGate, StartCreate,
        FindOpenPullRequest, CreatePullRequest, ClientFails, FinishCreate,
        EvaluateCiMonitorGate, MonitorCi, EvaluateRepairLoopGate, PlanRepair,
        EvaluateProposalGate, Propose, CiReports, Meddle, Stages
<1>2. /\ "sha" \in DOMAIN evidence'.prgate
      /\ FromEvidence => evidence'.prgate.sha \in 0 .. head'
  <2>1. CASE EvaluatePrCreationGate
    <3>1. PICK q \in Use.prgate, x \in Handed("push", evidence.push, PE!NoResult) :
            \E g : Record("prgate", PG!Result(q, x, g))
      BY <2>1 DEF EvaluatePrCreationGate
    <3>2. PICK g : Record("prgate", PG!Result(q, x, g))
      BY <3>1
    <3>3. evidence'.prgate = PG!Result(q, x, g)
      BY <1>0, <3>2, Recorded DEF Stages
    <3>4. "sha" \in DOMAIN PG!Result(q, x, g) /\ PG!Result(q, x, g).sha = PG!Sha(q, x)
      BY DEF PG!Result
    <3>5. x.commit_sha \in 0 .. head
      <4>1. x.commit_sha = evidence.push.commit_sha \/ x = PE!NoResult
        BY HandedOn DEF ShaInv
      <4>2. PE!NoResult.commit_sha = 0
        BY DEF PE!NoResult
      <4> QED BY <1>h, <4>1, <4>2 DEF ShaInv
    <3>6. FromEvidence => PG!Sha(q, x) = x.commit_sha
      BY DEF FromEvidence, PG!Sha, PG!OrNumber
    <3> QED BY <1>h, <3>3, <3>4, <3>5, <3>6
  <2>2. CASE UNCHANGED evidence \/ \E stage \in Stages \ {"prgate"} : \E r : Record(stage, r)
    <3>1. evidence'.prgate = evidence.prgate
      BY <1>0, <2>2, Recorded DEF Stages
    <3> QED BY <1>h, <3>1 DEF ShaInv
  <2> QED BY <2>1, <2>2 DEF Next, Push, StartCreate,
        FindOpenPullRequest, CreatePullRequest, ClientFails, FinishCreate,
        EvaluateCiMonitorGate, MonitorCi, EvaluateRepairLoopGate, PlanRepair,
        EvaluateProposalGate, Propose, CiReports, Meddle, Stages
<1>3. ASSUME FromEvidence, run' # Idle
      PROVE  PC!Sha(run'.q, run'.g, run'.x) \in 1 .. head'
  <2>1. CASE StartCreate
    <3>1. PICK q \in Use.creator, g \in Handed("prgate", evidence.prgate, PG!NoResult),
               x \in MayOmit("push", evidence.push, PE!NoResult) :
            \/ UNCHANGED run
            \/ /\ ~PC!Blocked(q, g, x)
               /\ run' = [at |-> "find", q |-> q, g |-> g, x |-> x]
      BY <2>1 DEF StartCreate
    <3>2. ~PC!Blocked(q, g, x) /\ run'.q = q /\ run'.g = g /\ run'.x = x
      BY <1>3, <2>1, <3>1 DEF StartCreate, Due
    <3>3. q.sha = 0 /\ PC!Needs(q, "commit_sha")
      BY <1>3 DEF FromEvidence, Needs, PC!Needs
    <3>4. PC!Sha(q, g, x) # 0
      BY <3>2, <3>3 DEF PC!Blocked
    <3>5. g.sha \in 0 .. head
      <4>1. g.sha = evidence.prgate.sha \/ g = PG!NoResult
        BY HandedOn DEF ShaInv
      <4>2. PG!NoResult.sha = 0
        BY DEF PG!NoResult
      <4> QED BY <1>3, <1>h, <4>1, <4>2 DEF ShaInv
    <3>6. x.commit_sha \in 0 .. head
      <4>1. x = evidence.push \/ x = PE!NoResult
        BY DEF MayOmit
      <4>2. PE!NoResult.commit_sha = 0
        BY DEF PE!NoResult
      <4> QED BY <1>h, <4>1, <4>2 DEF ShaInv
    <3>7. PC!Sha(q, g, x) \in {g.sha, x.commit_sha}
      BY <3>3 DEF PC!Sha, PC!OrNumber
    <3> QED BY <1>h, <3>2, <3>4, <3>5, <3>6, <3>7
  <2>2. CASE run' = run
    BY <1>3, <1>h, <2>2 DEF ShaInv
  <2>3. CASE run # Idle /\ run' = [run EXCEPT !.at = "create"]
    <3>1. run'.q = run.q /\ run'.g = run.g /\ run'.x = run.x
      BY <1>0, <2>3 DEF RunShape
    <3> QED BY <1>3, <1>h, <2>3, <3>1 DEF ShaInv
  <2>4. \/ StartCreate \/ run' = run \/ run' = Idle
        \/ run # Idle /\ run' = [run EXCEPT !.at = "create"]
    BY DEF Next, Push, EvaluatePrCreationGate, FindOpenPullRequest, CreatePullRequest,
           ClientFails, FinishCreate, EvaluateCiMonitorGate, MonitorCi,
           EvaluateRepairLoopGate, PlanRepair, EvaluateProposalGate, Propose, CiReports,
           Meddle, Idle
  <2> QED BY <1>3, <2>1, <2>2, <2>3, <2>4
<1> QED BY <1>f, <1>1, <1>2, <1>3 DEF ShaInv

\* The commits, throughout.
LEMMA ShasPushed == Spec => []ShaInv
<1>1. Init => ShaInv
  <2> SUFFICES ASSUME Init PROVE ShaInv
    OBVIOUS
  <2>1. "commit_sha" \in DOMAIN evidence.push /\ evidence.push.commit_sha = 0
    BY DEF Init, PE!NoResult
  <2>2. "sha" \in DOMAIN evidence.prgate /\ evidence.prgate.sha = 0
    BY DEF Init, PG!NoResult
  <2> QED BY <2>1, <2>2 DEF Init, ShaInv
<1>2. ShapeInv /\ TypeInv /\ ShaInv /\ [Next]_vars => ShaInv'
  <2>1. UNCHANGED vars /\ ShaInv => ShaInv'
    BY DEF vars, ShaInv, FromEvidence, Use
  <2> QED BY NextShas, <2>1
<1> QED BY <1>1, <1>2, Shapes, TypesKept, PTL DEF Spec

\* The first of three values, the first of which is not given.
LEMMA SecondOf ==
  ASSUME NEW values, DOMAIN values = 1 .. 3, values[1] = 0, values[2] # 0
  PROVE  CM!FirstOf(values, 0) = values[2]
<1> DEFINE given == {i \in DOMAIN values : values[i] # 0}
<1>1. given \subseteq 2 .. 3 /\ 2 \in given
  OBVIOUS
<1>2. Min(given) = 2
  <2> HIDE DEF given
  <2>1. given \subseteq Nat /\ given # {}
    BY <1>1
  <2>m. PICK least : least = Min(given)
    OBVIOUS
  <2>2. least \in given /\ least <= 2
    BY <1>1, <2>1, <2>m, MinOfNats
  <2>3. least = 2
    BY <1>1, <2>2
  <2> QED BY <2>m, <2>3
<1>3. CM!FirstOf(values, 0) = IF given = {} THEN 0 ELSE values[CM!Min(given)]
  BY DEF CM!FirstOf
<1>4. CM!Min(given) = Min(given)
  BY Zenon DEF CM!Min, Min
<1> QED BY <1>1, <1>2, <1>3, <1>4

\* Number and commit a request leaves out are those of the first result handed over.
LEMMA SettledByGate ==
  ASSUME NEW q, NEW g, NEW c, q.number = 0, q.sha = 0, g.number # 0, g.sha # 0
  PROVE  /\ CM!Settled(q, << g, c >>).number = g.number
         /\ CM!Settled(q, << g, c >>).sha = g.sha
<1> DEFINE all == << q >> \o << g, c >>
           numbers == [i \in DOMAIN all |-> all[i].number]
           shas == [i \in DOMAIN all |-> all[i].sha]
<1>1. DOMAIN all = 1 .. 3 /\ all[1] = q /\ all[2] = g
  OBVIOUS
<1>2. /\ DOMAIN numbers = 1 .. 3 /\ numbers[1] = 0 /\ numbers[2] = g.number
      /\ DOMAIN shas = 1 .. 3 /\ shas[1] = 0 /\ shas[2] = g.sha
  BY <1>1
<1>3. /\ CM!Settled(q, << g, c >>).number = CM!FirstOf(numbers, 0)
      /\ CM!Settled(q, << g, c >>).sha = CM!FirstOf(shas, 0)
  BY DEF CM!Settled
<1> HIDE DEF numbers, shas
<1> QED BY <1>2, <1>3, SecondOf

\* The pull request that was created is the last one, the creator's, and the commit
\* it is said to be of had been pushed.
LEMMA CreatedIsOwn ==
  ASSUME ShapeInv, ShaInv, CreatePullRequest, FromEvidence
  PROVE  OwnIn(pulls', evidence'.creator.number, evidence'.creator.sha)
<1>0. DOMAIN evidence = Stages
  BY DEF ShapeInv
<1>1. PICK S, n : pulls \in Seq(S) /\ n = Len(pulls)
  BY DEF ShapeInv
<1>2. PICK wanted : PullAdded("creator", wanted)
  BY DEF CreatePullRequest, PullAdded
<1>3. /\ n \in Nat /\ DOMAIN pulls' = 1 .. n + 1 /\ pulls'[n + 1].by = "creator"
      /\ pulls'[n + 1].pushed = head
      /\ \E T : pulls' \in Seq(T)
  BY <1>1, <1>2, Added, OpenedShape DEF PullAdded
<1>4. Len(pulls') = n + 1
  BY <1>3
<1>5. /\ evidence'.creator.number = Len(pulls')
      /\ evidence'.creator.sha = PC!Sha(run.q, run.g, run.x)
  <2>1. Record("creator", PC!Result(run.q, run.g, run.x, "created", Len(pulls'), "open"))
    BY DEF CreatePullRequest, FinishCreate
  <2>r. ASSUME NEW number, NEW q, NEW g, NEW x,
               Record("creator", PC!Result(q, g, x, "created", number, "open"))
        PROVE  evidence'.creator.number = number /\ evidence'.creator.sha = PC!Sha(q, g, x)
    BY <1>0, <2>r, Recorded DEF PC!Result, Stages
  <2> QED BY <2>1, <2>r
<1>6. PC!Sha(run.q, run.g, run.x) \in 1 .. head
  BY DEF CreatePullRequest, ShaInv, Idle
<1> QED BY <1>3, <1>4, <1>5, <1>6 DEF OwnIn

\* What the creator reports of creations.
LEMMA CreatorKept ==
  ASSUME ShapeInv, TypeInv, ShaInv, OwnInv, Next
  PROVE  /\ {"pr_created", "number", "sha"} \subseteq DOMAIN evidence'.creator
         /\ FromEvidence /\ evidence'.creator.pr_created
              => OwnIn(pulls', evidence'.creator.number, evidence'.creator.sha)
<1>0. DOMAIN evidence = Stages
  BY DEF ShapeInv
<1>k. \A number, sha : OwnIn(pulls, number, sha) => OwnIn(pulls', number, sha)
  BY PullsGrow DEF OwnIn
<1>r. ASSUME NEW q, NEW g, NEW x, NEW outcome, NEW number, NEW state,
             Record("creator", PC!Result(q, g, x, outcome, number, state))
      PROVE  /\ {"pr_created", "number", "sha"} \subseteq DOMAIN evidence'.creator
             /\ evidence'.creator.pr_created => outcome = "created"
  <2>1. evidence'.creator = PC!Result(q, g, x, outcome, number, state)
    BY <1>0, <1>r, Recorded DEF Stages
  <2>2. /\ {"pr_created", "number", "sha"} \subseteq DOMAIN PC!Result(q, g, x, outcome, number, state)
        /\ PC!Result(q, g, x, outcome, number, state).pr_created = (outcome = "created")
    BY DEF PC!Result
  <2> QED BY <2>1, <2>2
<1>1. CASE StartCreate
  <2>1. \/ UNCHANGED evidence
        \/ \E q, g, x : \E outcome \in {"blocked", "dry_run"} :
             Record("creator", PC!Result(q, g, x, outcome, 0, NoText))
    BY <1>1 DEF StartCreate
  <2> QED BY <1>k, <1>r, <2>1 DEF OwnInv
<1>2. CASE FindOpenPullRequest
  <2>1. \/ UNCHANGED evidence
        \/ \E n : Record("creator", PC!Result(run.q, run.g, run.x, "found", n, "open"))
    BY <1>2 DEF FindOpenPullRequest, FinishCreate
  <2> QED BY <1>k, <1>r, <2>1 DEF OwnInv
<1>3. CASE CreatePullRequest
  <2>1. {"pr_created", "number", "sha"} \subseteq DOMAIN evidence'.creator
    BY <1>3, <1>r DEF CreatePullRequest, FinishCreate
  <2> QED BY <1>3, <2>1, CreatedIsOwn
<1>4. CASE ClientFails
  <2>1. \/ UNCHANGED evidence
        \/ Record("creator", PC!Result(run.q, run.g, run.x, "blocked", 0, NoText))
    BY <1>4 DEF ClientFails, FinishCreate
  <2> QED BY <1>k, <1>r, <2>1 DEF OwnInv
<1>5. CASE UNCHANGED evidence \/ \E stage \in Stages \ {"creator"} : \E r : Record(stage, r)
  <2>1. evidence'.creator = evidence.creator
    BY <1>0, <1>5, Recorded DEF Stages
  <2> QED BY <1>k, <2>1 DEF OwnInv
<1> QED BY <1>1, <1>2, <1>3, <1>4, <1>5 DEF Next, Push, EvaluatePrCreationGate,
      EvaluateCiMonitorGate, MonitorCi, EvaluateRepairLoopGate, PlanRepair,
      EvaluateProposalGate, Propose, CiReports, Meddle, Stages

\* A monitor gate that consents does so for the pull request the creator created.
LEMMA ConsentIsForOwn ==
  ASSUME ShapeInv, TypeInv, OwnInv, FromEvidence, NEW q \in Use.mongate,
         NEW c \in Handed("creator", evidence.creator, PC!NoResult), NEW g, NEW x
  PROVE  LET result == MG!Result(q, c, g, x) IN
         result.ci_monitor_eligible => OwnIn(pulls, result.number, result.sha)
<1> DEFINE result == MG!Result(q, c, g, x)
<1>1. /\ result.ci_monitor_eligible = MG!Eligible(q, c, g, x)
      /\ result.number = MG!Number(q, c)
      /\ result.sha = MG!Sha(q, c, g, x)
  BY DEF MG!Result
<1>2. SUFFICES ASSUME MG!Eligible(q, c, g, x)
               PROVE  OwnIn(pulls, MG!Number(q, c), MG!Sha(q, c, g, x))
  <2> HIDE DEF result
  <2>1. result.ci_monitor_eligible => OwnIn(pulls, result.number, result.sha)
    BY <1>1, <1>2
  <2> QED BY <1>1, <2>1 DEF result
<1>3. c.pr_created
  BY <1>2 DEF MG!Eligible, MG!PrEvidenceClean
<1>4. c # PC!NoResult
  BY <1>3 DEF PC!NoResult
<1>5. /\ c.pr_created = evidence.creator.pr_created
      /\ c.number = evidence.creator.number /\ c.sha = evidence.creator.sha
  <2>1. \A field \in DOMAIN evidence.creator \ {"truth"} : c[field] = evidence.creator[field]
    BY <1>4, HandedWhole
  <2> QED BY <2>1 DEF OwnInv
<1>6. OwnIn(pulls, c.number, c.sha)
  BY <1>3, <1>5 DEF OwnInv
<1>7. c.sha # 0
  <2>1. pulls[c.number].pushed \in Nat
    BY <1>6 DEF OwnIn, TypeInv, TypeOK
  <2> QED BY <1>6, <2>1 DEF OwnIn
<1>8. q.number = 0 /\ q.sha = 0
  BY DEF FromEvidence
<1>9. MG!Number(q, c) = c.number /\ MG!Sha(q, c, g, x) = c.sha
  BY <1>7, <1>8 DEF MG!Number, MG!Sha, MG!OrNumber
<1> QED BY <1>6, <1>9

\* What is read with that consent are the checks of that pull request.
LEMMA ReadIsOwn ==
  ASSUME ShapeInv, TypeInv, OwnInv, NEW q, NEW c, NEW p, NEW items,
         NEW g \in Handed("mongate", evidence.mongate, MG!NoResult),
         FromEvidence, q \in Use.monitor,
         ~CM!Blocked(q, g, c, p)
  PROVE  LET result == CM!Result(q, g, c, p, "read", items) IN
         OwnIn(pulls, result.number, result.sha)
<1>1. q.number = 0 /\ q.sha = 0 /\ CM!Needs(q, "ci_monitor_gate_eligible")
  BY DEF FromEvidence, Needs, CM!Needs
<1>2. g.ci_monitor_eligible
  BY <1>1 DEF CM!Blocked
<1>3. g # MG!NoResult
  BY <1>2 DEF MG!NoResult
<1>4. /\ g.ci_monitor_eligible = evidence.mongate.ci_monitor_eligible
      /\ g.number = evidence.mongate.number /\ g.sha = evidence.mongate.sha
  <2>1. \A field \in DOMAIN evidence.mongate \ {"truth"} : g[field] = evidence.mongate[field]
    BY <1>3, HandedWhole
  <2> QED BY <2>1 DEF OwnInv
<1>5. OwnIn(pulls, g.number, g.sha)
  BY <1>2, <1>4 DEF OwnInv
<1>6. g.number # 0 /\ g.sha # 0
  <2>1. PICK S : pulls \in Seq(S)
    BY DEF ShapeInv
  <2>2. pulls[g.number].pushed \in Nat
    BY <1>5 DEF OwnIn, TypeInv, TypeOK
  <2> QED BY <1>5, <2>1, <2>2 DEF OwnIn
<1>7. /\ CM!Result(q, g, c, p, "read", items).number = CM!Settled(q, << g, c >>).number
      /\ CM!Result(q, g, c, p, "read", items).sha = CM!Settled(q, << g, c >>).sha
  BY DEF CM!Result, CM!Seen
<1> QED BY <1>1, <1>5, <1>6, <1>7, SettledByGate

\* What the monitor gate and the monitor make of it.
LEMMA NextOwn ==
  ASSUME ShapeInv, TypeInv, ShaInv, OwnInv, Next
  PROVE  OwnInv'
<1>0. DOMAIN evidence = Stages
  BY DEF ShapeInv
<1>k. \A number, sha : OwnIn(pulls, number, sha) => OwnIn(pulls', number, sha)
  BY PullsGrow DEF OwnIn
<1>u. FromEvidence' = FromEvidence
  BY SameCallers
<1>c. /\ {"pr_created", "number", "sha"} \subseteq DOMAIN evidence'.creator
      /\ FromEvidence /\ evidence'.creator.pr_created
           => OwnIn(pulls', evidence'.creator.number, evidence'.creator.sha)
  BY CreatorKept
<1>g. /\ {"ci_monitor_eligible", "number", "sha"} \subseteq DOMAIN evidence'.mongate
      /\ FromEvidence /\ evidence'.mongate.ci_monitor_eligible
           => OwnIn(pulls', evidence'.mongate.number, evidence'.mongate.sha)
  <2>1. CASE EvaluateCiMonitorGate
    <3>1. PICK q \in Use.mongate, c \in Handed("creator", evidence.creator, PC!NoResult) :
            \E g, x : Record("mongate", MG!Result(q, c, g, x))
      BY <2>1 DEF EvaluateCiMonitorGate
    <3>2. PICK g, x : Record("mongate", MG!Result(q, c, g, x))
      BY <3>1
    <3>3. evidence'.mongate = MG!Result(q, c, g, x)
      BY <1>0, <3>2, Recorded DEF Stages
    <3>4. {"ci_monitor_eligible", "number", "sha"} \subseteq DOMAIN MG!Result(q, c, g, x)
      BY DEF MG!Result
    <3> QED BY <1>k, <3>3, <3>4, ConsentIsForOwn
  <2>2. CASE UNCHANGED evidence \/ \E stage \in Stages \ {"mongate"} : \E r : Record(stage, r)
    <3>1. evidence'.mongate = evidence.mongate
      BY <1>0, <2>2, Recorded DEF Stages
    <3> QED BY <1>k, <3>1 DEF OwnInv
  <2> QED BY <2>1, <2>2 DEF Next, Push, EvaluatePrCreationGate, StartCreate,
        FindOpenPullRequest, CreatePullRequest, ClientFails, FinishCreate, MonitorCi,
        EvaluateRepairLoopGate, PlanRepair, EvaluateProposalGate, Propose, CiReports,
        Meddle, Stages
<1>m. FromEvidence /\ evidence'.monitor.monitored
        => OwnIn(pulls', evidence'.monitor.number, evidence'.monitor.sha)
  <2>1. CASE MonitorCi
    <3>1. PICK q \in Use.monitor, g \in Handed("mongate", evidence.mongate, MG!NoResult),
               c \in MayOmit("creator", evidence.creator, PC!NoResult) :
            \/ \E outcome \in {"blocked", "dry_run", "unread"} :
                 Record("monitor", CM!Result(q, g, c, PG!NoResult, outcome, {}))
            \/ /\ ~CM!Blocked(q, g, c, PG!NoResult)
               /\ \E items : Record("monitor", CM!Result(q, g, c, PG!NoResult, "read", items))
      BY <2>1 DEF MonitorCi
    <3>2. ASSUME NEW outcome \in {"blocked", "dry_run", "unread"},
                 Record("monitor", CM!Result(q, g, c, PG!NoResult, outcome, {}))
          PROVE  ~evidence'.monitor.monitored
      <4>1. evidence'.monitor = CM!Result(q, g, c, PG!NoResult, outcome, {})
        BY <1>0, <3>2, Recorded DEF Stages
      <4>2. CM!Result(q, g, c, PG!NoResult, outcome, {}).monitored = FALSE
        BY DEF CM!Result
      <4> QED BY <4>1, <4>2
    <3>3. ASSUME NEW items, ~CM!Blocked(q, g, c, PG!NoResult), FromEvidence,
                 Record("monitor", CM!Result(q, g, c, PG!NoResult, "read", items))
          PROVE  OwnIn(pulls', evidence'.monitor.number, evidence'.monitor.sha)
      <4>1. evidence'.monitor = CM!Result(q, g, c, PG!NoResult, "read", items)
        BY <1>0, <3>3, Recorded DEF Stages
      <4> QED BY <1>k, <3>3, <4>1, ReadIsOwn
    <3> QED BY <3>1, <3>2, <3>3
  <2>2. CASE UNCHANGED evidence \/ \E stage \in Stages \ {"monitor"} : \E r : Record(stage, r)
    <3>1. evidence'.monitor = evidence.monitor
      BY <1>0, <2>2, Recorded DEF Stages
    <3> QED BY <1>k, <3>1 DEF OwnInv, OnlyOwnChecksAreRead, Own, OwnIn
  <2> QED BY <2>1, <2>2 DEF Next, Push, EvaluatePrCreationGate, StartCreate,
        FindOpenPullRequest, CreatePullRequest, ClientFails, FinishCreate,
        EvaluateCiMonitorGate, EvaluateRepairLoopGate, PlanRepair, EvaluateProposalGate,
        Propose, CiReports, Meddle, Stages
<1> QED BY <1>u, <1>c, <1>g, <1>m DEF OwnInv, OnlyOwnChecksAreRead, Own, OwnIn

\* The checks read are of a commit that had been pushed when the creator opened the
\* pull request they are read for, also when more is pushed and others open one for
\* the branch and the creator finds theirs, of callers that leave number and commit
\* to the evidence and ask for the gate's consent (_pr_evidence_clean of
\* ci_monitor_gate.py, which a found pull request fails; ci_monitor.py:81-95).
THEOREM OwnChecksOnly == Spec => []OnlyOwnChecksAreRead
<1>1. Init => OwnInv
  <2> SUFFICES ASSUME Init PROVE OwnInv
    OBVIOUS
  <2>1. /\ {"pr_created", "number", "sha"} \subseteq DOMAIN evidence.creator
        /\ ~evidence.creator.pr_created
    BY DEF Init, PC!NoResult
  <2>2. /\ {"ci_monitor_eligible", "number", "sha"} \subseteq DOMAIN evidence.mongate
        /\ ~evidence.mongate.ci_monitor_eligible
    BY DEF Init, MG!NoResult
  <2>3. ~evidence.monitor.monitored
    BY DEF Init, CM!NoResult
  <2> QED BY <2>1, <2>2, <2>3 DEF OwnInv, OnlyOwnChecksAreRead
<1>2. ShapeInv /\ TypeInv /\ ShaInv /\ OwnInv /\ [Next]_vars => OwnInv'
  <2>1. UNCHANGED vars /\ OwnInv => OwnInv'
    BY DEF vars, OwnInv, OnlyOwnChecksAreRead, FromEvidence, Own, OwnIn, Use
  <2> QED BY NextOwn, <2>1
<1>3. OwnInv => OnlyOwnChecksAreRead
  BY DEF OwnInv
<1> QED BY <1>1, <1>2, <1>3, Shapes, TypesKept, ShasPushed, PTL DEF Spec

-----------------------------------------------------------------------------
(* What the monitor makes of the checks. *)

Failed(reports) == {check \in DOMAIN reports : reports[check] \in Failures}

\* A status word is taken for the one it stands for; GitHub's own wording says of a
\* check that has ended that it passed.
Judged(word) ==
  IF Use.style = "word" \/ word \in CM!PENDING_STATUSES THEN CM!Normalized(word)
  ELSE "success"

\* Of the words a check may report: which are taken for failures, and that one which
\* is taken for none, for nothing running and for nothing unknown is an ending.
LEMMA WordsJudged ==
  ASSUME NEW word \in Outcomes \ {"absent"}
  PROVE  /\ CM!Normalized(word) \in CM!FAIL_STATUSES <=> word \in Failures
         /\ CM!Normalized(word) \notin CM!FAIL_STATUSES \cup CM!PENDING_STATUSES \cup {"unknown"}
              => word \in Endings
         /\ word \in CM!PENDING_STATUSES => CM!Normalized(word) = word
BY DEF Outcomes, ReportWords, Failures, Endings, CM!Normalized, CM!KNOWN_STATUSES,
       CM!FAIL_STATUSES, CM!PENDING_STATUSES

\* Nothing running is a failure or unknown, and neither is a success.
LEMMA KindsApart ==
  /\ CM!PENDING_STATUSES \cap (CM!FAIL_STATUSES \cup {"unknown"}) = {}
  /\ "success" \notin CM!FAIL_STATUSES \cup {"unknown"}
BY DEF CM!FAIL_STATUSES, CM!PENDING_STATUSES

\* One status word of a check comes to the monitor as what it says, in either wording.
LEMMA ItemJudged ==
  ASSUME NEW check, NEW word \in Outcomes \ {"absent"}
  PROVE  LET item == Item(check, word) IN
         item.name = check /\ ~item.required /\ CM!Status(item) = Judged(word)
<1> DEFINE item == Item(check, word)
<1>1. item.name = check /\ ~item.required
  BY DEF Item
<1>2. item.status = IF Use.style = "word" \/ word \in CM!PENDING_STATUSES
                    THEN word ELSE "completed"
  BY DEF Item
<1>3. CM!StatusWord(item) = item.status
  <2>1. item.status # ""
    BY <1>2 DEF Outcomes, ReportWords, CM!KNOWN_STATUSES, CM!FAIL_STATUSES,
                CM!PENDING_STATUSES
  <2> QED BY <2>1 DEF CM!StatusWord, CM!OrText, CM!NoText
<1>4. CM!Status(item) = CM!Normalized(item.status)
  BY <1>3 DEF CM!Status
<1> HIDE DEF item
<1>5. CM!Normalized(item.status) = Judged(word)
  BY <1>2 DEF Judged, CM!Normalized
<1> QED BY <1>1, <1>4, <1>5 DEF item

\* The observed items whose status is one of some, and the checks that are required
\* and have reported something that is judged to be one of them.
NamesOf(items, required, statuses) ==
  LET observed == {item \in items : item.required \/ item.name \in required} IN
  {item.name : item \in {i \in observed : CM!Status(i) \in statuses}}
JudgedAs(reports, required, statuses) ==
  {check \in required \cap Checks :
     reports[check] # "absent" /\ Judged(reports[check]) \in statuses}

\* The checks a snapshot names under some statuses are those whose report has them.
LEMMA SnapshotNames ==
  ASSUME TypeInv, NEW sha, NEW required, NEW statuses
  PROVE  NamesOf(Snapshot(sha), required, statuses) = JudgedAs(ReportsOf(sha), required, statuses)
<1> DEFINE reports == ReportsOf(sha)
           reporting == {check \in Checks : reports[check] # "absent"}
           named == NamesOf(Snapshot(sha), required, statuses)
<1>1. Snapshot(sha) = {Item(check, reports[check]) : check \in reporting}
  BY DEF Snapshot
<1>2. \A check \in Checks : reports[check] \in Outcomes
  BY AnyReports DEF CheckReports
<1>3. \A check \in reporting :
        LET item == Item(check, reports[check]) IN
        item.name = check /\ ~item.required /\ CM!Status(item) = Judged(reports[check])
  BY <1>2, ItemJudged
<1> HIDE DEF reports
<1>4. ASSUME NEW check \in named
      PROVE  /\ check \in required \cap Checks /\ reports[check] # "absent"
             /\ Judged(reports[check]) \in statuses
  BY <1>1, <1>3, <1>4 DEF NamesOf
<1>5. ASSUME NEW check \in required \cap Checks, reports[check] # "absent",
             Judged(reports[check]) \in statuses
      PROVE  check \in named
  <2>1. check \in reporting
    BY <1>5
  <2>2. Item(check, reports[check]) \in Snapshot(sha)
    BY <1>1, <2>1
  <2> QED BY <1>3, <1>5, <2>1, <2>2 DEF NamesOf
<1> QED BY <1>4, <1>5 DEF reports, JudgedAs

\* The checks that were seen.
LEMMA SnapshotSeen ==
  ASSUME TypeInv, NEW sha
  PROVE  {item.name : item \in Snapshot(sha)} = {check \in Checks : ReportsOf(sha)[check] # "absent"}
<1> DEFINE reports == ReportsOf(sha)
           reporting == {check \in Checks : reports[check] # "absent"}
<1>1. Snapshot(sha) = {Item(check, reports[check]) : check \in reporting}
  BY DEF Snapshot
<1>2. \A check \in reporting : Item(check, reports[check]).name = check
  BY DEF Item
<1> QED BY <1>1, <1>2

\* What the monitor makes of the reports of a commit.
LEMMA SnapshotSummary ==
  ASSUME TypeInv, NEW sha, NEW required
  PROVE  LET summary == CM!Summary(Snapshot(sha), required)
             reports == ReportsOf(sha) IN
         /\ summary.failing \subseteq Failed(reports)
         /\ summary.failing # {} \/ (summary.failed /\ summary.missing = {})
              => Failed(reports) \cap required \subseteq summary.failing
         /\ Use.style = "word" /\ summary.passed
              => \A check \in required \cap Checks : reports[check] \in Endings
<1> DEFINE items == Snapshot(sha)
           reports == ReportsOf(sha)
           summary == CM!Summary(items, required)
           Named(statuses) == NamesOf(items, required, statuses)
           At(statuses) == JudgedAs(reports, required, statuses)
<1>1. \A check \in Checks : reports[check] \in Outcomes
  BY AnyReports DEF CheckReports
<1>2. DOMAIN reports = Checks
  BY AnyReports DEF CheckReports
<1>3. \A statuses : Named(statuses) = At(statuses)
  BY SnapshotNames
<1>4. /\ summary.failing = Named(CM!FAIL_STATUSES)
      /\ summary.missing = required \ {item.name : item \in items}
      /\ summary.failed = (\/ summary.failing # {} \/ summary.missing # {}
                           \/ Named({"unknown"}) # {} /\ Named(CM!PENDING_STATUSES) = {})
      /\ summary.passed =>
           /\ summary.failing = {} /\ Named(CM!PENDING_STATUSES) = {}
           /\ Named({"unknown"}) = {} /\ summary.missing = {}
  BY DEF CM!Summary, NamesOf
<1>5. {item.name : item \in items} = {check \in Checks : reports[check] # "absent"}
  BY SnapshotSeen
<1> HIDE DEF items, reports, summary, Named
<1>6. summary.failing \subseteq Failed(reports)
  BY <1>1, <1>2, <1>3, <1>4, WordsJudged, KindsApart DEF Judged, Failed, JudgedAs
<1>7. ASSUME summary.failing # {} \/ (summary.failed /\ summary.missing = {})
      PROVE  Failed(reports) \cap required \subseteq summary.failing
  <2>1. Use.style = "word"
    <3>1. SUFFICES ASSUME Use.style # "word"
                   PROVE  At(CM!FAIL_STATUSES) = {} /\ At({"unknown"}) = {}
      BY <1>3, <1>4, <1>7, <3>1
    <3> QED BY <1>1, <3>1, WordsJudged, KindsApart DEF Judged, JudgedAs
  <2>2. ASSUME NEW check \in Failed(reports) \cap required
        PROVE  check \in At(CM!FAIL_STATUSES)
    <3>1. check \in required \cap Checks /\ reports[check] \in Failures
      BY <1>2 DEF Failed
    <3>2. reports[check] \in Outcomes \ {"absent"}
      BY <1>1, <3>1 DEF Failures, CM!FAIL_STATUSES
    <3> QED BY <2>1, <3>1, <3>2, WordsJudged DEF Judged, JudgedAs
  <2> QED BY <1>3, <1>4, <2>2
<1>8. ASSUME Use.style = "word", summary.passed, NEW check \in required \cap Checks
      PROVE  reports[check] \in Endings
  <2>1. reports[check] # "absent"
    BY <1>4, <1>5, <1>8
  <2>2. check \notin At(CM!FAIL_STATUSES) \cup At(CM!PENDING_STATUSES) \cup At({"unknown"})
    BY <1>3, <1>4, <1>8
  <2> QED BY <1>1, <1>8, <2>1, <2>2, WordsJudged DEF Judged, JudgedAs
<1> QED BY <1>6, <1>7, <1>8 DEF summary, reports, items

\* The failing checks the monitor names had failed in the reports it read.  When it
\* names any, or finds nothing else wrong than what it does not know, it names all
\* of them that every caller requires.
MonitorInv ==
  /\ {"monitored", "failed", "failing", "missing"} \subseteq DOMAIN evidence.monitor
  /\ evidence.monitor.failing \subseteq Failed(basis.monitor)
  /\ evidence.monitor.monitored
       /\ (evidence.monitor.failing # {}
            \/ (evidence.monitor.failed /\ evidence.monitor.missing = {}))
     => Failed(basis.monitor) \cap Required \subseteq evidence.monitor.failing
  /\ PassedMeansConcluded

\* What a result of the monitor says of the checks is its summary of what it read.
LEMMA MonitorResult ==
  ASSUME NEW q, NEW g, NEW c, NEW p, NEW outcome, NEW items
  PROVE  LET result == CM!Result(q, g, c, p, outcome, items)
             summary == CM!Summary(items, q.required) IN
         /\ {"monitored", "failed", "failing", "missing"} \subseteq DOMAIN result
         /\ result.monitored = (outcome = "read")
         /\ result.failed = summary.failed /\ result.passed = summary.passed
         /\ result.failing = summary.failing /\ result.missing = summary.missing
<1> DEFINE result == CM!Result(q, g, c, p, outcome, items)
           summary == CM!Summary(items, q.required)
<1>1. {"monitored", "failed", "failing", "missing"} \subseteq DOMAIN result
  BY DEF CM!Result
<1>2. /\ result.monitored = (outcome = "read")
      /\ result.failed = summary.failed /\ result.passed = summary.passed
      /\ result.failing = summary.failing /\ result.missing = summary.missing
  <2> HIDE DEF summary
  <2> QED BY DEF CM!Result, summary
<1> QED BY <1>1, <1>2

\* A snapshot nobody took names no failing checks.
LEMMA NothingFails ==
  ASSUME NEW required
  PROVE  CM!Summary({}, required).failing = {}
BY DEF CM!Summary

\* A step that is not one of a stage leaves its result and what that rests on.
LEMMA StageKept ==
  ASSUME ShapeInv, TypeInv, NEW stage \in BasisStages,
         UNCHANGED evidence \/ \E other \in Stages \ {stage} : \E r : Record(other, r),
         \/ UNCHANGED basis
         \/ \E other \in BasisStages \ {stage} : \E r : basis' = [basis EXCEPT ![other] = r]
  PROVE  evidence'[stage] = evidence[stage] /\ basis'[stage] = basis[stage]
<1>0. DOMAIN evidence = Stages /\ DOMAIN basis = BasisStages /\ stage \in Stages
  BY DEF ShapeInv, TypeInv, BasisStages, Stages
<1>1. evidence'[stage] = evidence[stage]
  <2>1. ASSUME NEW other \in Stages \ {stage}, NEW r, Record(other, r)
        PROVE  evidence'[stage] = evidence[stage]
    BY <1>0, <2>1, Recorded
  <2> QED BY <2>1
<1>2. basis'[stage] = basis[stage]
  BY <1>0
<1> QED BY <1>1, <1>2

\* Every step keeps it.
LEMMA NextMonitor ==
  ASSUME ShapeInv, TypeInv, MonitorInv, Next
  PROVE  MonitorInv'
<1>0. DOMAIN evidence = Stages /\ DOMAIN basis = BasisStages
  BY DEF ShapeInv, TypeInv
<1>u. Use' = Use /\ Required' = Required
  <2>1. Use' = Use
    BY SameUse
  <2> QED BY <2>1 DEF Required
<1>1. CASE MonitorCi
  <2>1. PICK q \in Use.monitor, g \in Handed("mongate", evidence.mongate, MG!NoResult),
             c \in MayOmit("creator", evidence.creator, PC!NoResult) :
          \/ /\ \E outcome \in {"blocked", "dry_run", "unread"} :
                  Record("monitor", CM!Result(q, g, c, PG!NoResult, outcome, {}))
             /\ UNCHANGED basis
          \/ \E sha : /\ Record("monitor", CM!Result(q, g, c, PG!NoResult, "read", Snapshot(sha)))
                      /\ basis' = [basis EXCEPT !.monitor = ReportsOf(sha)]
    BY <1>1 DEF MonitorCi
  <2>2. ASSUME NEW outcome \in {"blocked", "dry_run", "unread"},
               Record("monitor", CM!Result(q, g, c, PG!NoResult, outcome, {}))
        PROVE  MonitorInv'
    <3>1. evidence'.monitor = CM!Result(q, g, c, PG!NoResult, outcome, {})
      BY <1>0, <2>2, Recorded DEF Stages
    <3>2. /\ {"monitored", "failed", "failing", "missing"} \subseteq DOMAIN evidence'.monitor
          /\ evidence'.monitor.monitored = (outcome = "read")
          /\ evidence'.monitor.failing = CM!Summary({}, q.required).failing
      <4>1. PICK items : items = {}
        OBVIOUS
      <4>2. evidence'.monitor = CM!Result(q, g, c, PG!NoResult, outcome, items)
        BY <3>1, <4>1
      <4>3. /\ {"monitored", "failed", "failing", "missing"} \subseteq DOMAIN evidence'.monitor
            /\ evidence'.monitor.monitored = (outcome = "read")
            /\ evidence'.monitor.failing = CM!Summary(items, q.required).failing
        BY <4>2, MonitorResult
      <4> QED BY <4>1, <4>3
    <3>3. evidence'.monitor.failing = {}
      BY <3>2, NothingFails
    <3> QED BY <3>2, <3>3 DEF MonitorInv, PassedMeansConcluded
  <2>3. ASSUME NEW sha, basis' = [basis EXCEPT !.monitor = ReportsOf(sha)],
               Record("monitor", CM!Result(q, g, c, PG!NoResult, "read", Snapshot(sha)))
        PROVE  MonitorInv'
    <3> DEFINE summary == CM!Summary(Snapshot(sha), q.required)
    <3>1. evidence'.monitor = CM!Result(q, g, c, PG!NoResult, "read", Snapshot(sha))
      BY <1>0, <2>3, Recorded DEF Stages
    <3>2. /\ {"monitored", "failed", "failing", "missing"} \subseteq DOMAIN evidence'.monitor
          /\ evidence'.monitor.failed = summary.failed /\ evidence'.monitor.passed = summary.passed
          /\ evidence'.monitor.failing = summary.failing
          /\ evidence'.monitor.missing = summary.missing
      BY <3>1, MonitorResult
    <3>3. basis'.monitor = ReportsOf(sha)
      BY <1>0, <2>3 DEF BasisStages
    <3>4. /\ summary.failing \subseteq Failed(basis'.monitor)
          /\ summary.failing # {} \/ (summary.failed /\ summary.missing = {})
               => Failed(basis'.monitor) \cap q.required \subseteq summary.failing
          /\ Use.style = "word" /\ summary.passed
               => \A check \in q.required \cap Checks : basis'.monitor[check] \in Endings
      BY <3>3, SnapshotSummary
    <3>5. Required \subseteq q.required \cap Checks
      BY DEF Required
    <3> HIDE DEF summary
    <3> QED BY <1>u, <3>2, <3>4, <3>5 DEF MonitorInv, PassedMeansConcluded
  <2> QED BY <2>1, <2>2, <2>3
<1>2. CASE evidence'.monitor = evidence.monitor /\ basis'.monitor = basis.monitor
  BY <1>2, <1>u DEF MonitorInv, PassedMeansConcluded
<1>3. \/ MonitorCi
      \/ /\ UNCHANGED evidence \/ \E other \in Stages \ {"monitor"} : \E r : Record(other, r)
         /\ \/ UNCHANGED basis
            \/ \E other \in BasisStages \ {"monitor"} : \E r : basis' = [basis EXCEPT ![other] = r]
  BY DEF Next, Push, EvaluatePrCreationGate, StartCreate, FindOpenPullRequest,
         CreatePullRequest, ClientFails, FinishCreate, EvaluateCiMonitorGate,
         EvaluateRepairLoopGate, PlanRepair, EvaluateProposalGate, Propose, CiReports,
         Meddle, Stages, BasisStages
<1>4. MonitorCi \/ (evidence'.monitor = evidence.monitor /\ basis'.monitor = basis.monitor)
  BY <1>3, StageKept DEF BasisStages
<1> QED BY <1>1, <1>2, <1>4

\* The monitor's result, throughout.
LEMMA MonitorJudges == Spec => []MonitorInv
<1>1. Init => MonitorInv
  <2> SUFFICES ASSUME Init PROVE MonitorInv
    OBVIOUS
  <2>1. /\ {"monitored", "failed", "failing", "missing"} \subseteq DOMAIN evidence.monitor
        /\ evidence.monitor.failing = {} /\ ~evidence.monitor.monitored
    BY DEF Init, CM!NoResult
  <2> QED BY <2>1 DEF MonitorInv, PassedMeansConcluded
<1>2. ShapeInv /\ TypeInv /\ MonitorInv /\ [Next]_vars => MonitorInv'
  <2>1. UNCHANGED vars /\ MonitorInv => MonitorInv'
    BY DEF vars, MonitorInv, PassedMeansConcluded, Required, Use
  <2> QED BY NextMonitor, <2>1
<1> QED BY <1>1, <1>2, Shapes, TypesKept, PTL DEF Spec

\* Of a client that gives each check one status word, CI passes only when every
\* check required has reported that it ended and not that it failed, never on one
\* that is missing, running or of a word the monitor does not know; skipped and
\* neutral ones count (_summarize_checks and _normalize_status of ci_monitor.py).
THEOREM PassedIsConcluded == Spec => []PassedMeansConcluded
<1>1. MonitorInv => PassedMeansConcluded
  BY DEF MonitorInv
<1> QED BY <1>1, MonitorJudges, PTL

-----------------------------------------------------------------------------
(* What the repair loop gate and the planner make of that. *)

\* Every stage has its copy of the categories.
LEMMA OneMap ==
  ASSUME NEW check
  PROVE  RG!Category(check) = Category(check) /\ RP!Category(check) = Category(check)
<1>1. RG!FailureMap = FailureMap /\ RP!FailureMap = FailureMap
  BY Zenon DEF RG!FailureMap, RP!FailureMap, FailureMap
<1>2. \A S : RG!Min(S) = Min(S) /\ RP!Min(S) = Min(S)
  BY Zenon DEF RG!Min, RP!Min, Min
<1>3. RG!Category(check) = Category(check)
  <2>1. {i \in DOMAIN RG!FailureMap : RG!FailureMap[i][1] \cap Words[check] # {}}
          = {i \in DOMAIN FailureMap : FailureMap[i][1] \cap Words[check] # {}}
    BY <1>1, Zenon
  <2> QED BY <1>1, <1>2, <2>1, Zenon DEF RG!Category, Category
<1>4. RP!Category(check) = Category(check)
  <2>1. {i \in DOMAIN RP!FailureMap : RP!FailureMap[i][1] \cap Words[check] # {}}
          = {i \in DOMAIN FailureMap : FailureMap[i][1] \cap Words[check] # {}}
    BY <1>1, Zenon
  <2> QED BY <1>1, <1>2, <2>1, Zenon DEF RP!Category, Category
<1> QED BY <1>3, <1>4

\* What is for repair is the category of a check that fails; where no grave one may
\* be repaired and nothing is barred, none of the checks is grave.
Sorted(classified, checks, q) ==
  /\ classified.repairable \subseteq {Category(check) : check \in checks} \cap q.allowed
  /\ q.allowed \cap Grave = {} /\ classified.blocked = {}
       => \A check \in checks : Category(check) \notin Grave

\* The repair loop gate sorts failing checks as the modelled classification does.
LEMMA GateSorts ==
  ASSUME NEW checks, NEW q
  PROVE  Sorted(RG!Classified(checks, q), checks, q)
<1> DEFINE categories == {RG!Category(check) : check \in checks}
           classified == RG!Classified(checks, q)
<1>1. categories = {Category(check) : check \in checks}
  BY OneMap
<1>2. /\ classified.repairable = categories \cap q.allowed
      /\ classified.blocked = ((categories \cap q.barred) \ q.allowed)
           \cup RG!Flag("unknown_infrastructure_failure",
                        ~(categories \subseteq q.allowed \cup q.barred))
  BY DEF RG!Classified
<1> HIDE DEF categories, classified
<1>3. classified.blocked = {} => categories \subseteq q.allowed
  BY <1>2 DEF RG!Flag
<1> QED BY <1>1, <1>2, <1>3 DEF Sorted, classified

\* So does the planner, whose map of failures is a copy of the gate's.
LEMMA PlannerSorts ==
  ASSUME NEW checks, NEW q
  PROVE  Sorted(RP!Classified(checks, q), checks, q)
<1> DEFINE categories == {RP!Category(check) : check \in checks}
           classified == RP!Classified(checks, q)
<1>1. categories = {Category(check) : check \in checks}
  BY OneMap
<1>2. /\ classified.repairable = categories \cap q.allowed
      /\ classified.blocked = ((categories \cap q.barred) \ q.allowed)
           \cup RP!Flag("unknown_infrastructure_failure",
                        ~(categories \subseteq q.allowed \cup q.barred))
  BY DEF RP!Classified
<1> HIDE DEF categories, classified
<1>3. classified.blocked = {} => categories \subseteq q.allowed
  BY <1>2 DEF RP!Flag
<1> QED BY <1>1, <1>2, <1>3 DEF Sorted, classified

\* What a caller says of itself stays what it is when its attempts are counted.
LEMMA CountedKeeps ==
  ASSUME scenario \in DOMAIN Scenarios,
         NEW q \in Use.repairgate \cup Use.planner \cup Use.propgate \cup Use.proposal
  PROVE  /\ Counted(q).allowed = q.allowed /\ Counted(q).steps = q.steps
         /\ q.steps \in Nat
<1>1. DOMAIN q = DOMAIN PrOrdinary /\ q.steps \in Nat
  BY RequestAssumption DEF Use
<1>2. {"allowed", "steps"} \subseteq DOMAIN q
  BY <1>1 DEF PrOrdinary
<1> QED BY <1>1, <1>2 DEF Counted

\* The gate passes the failing checks on as the monitor named them, and sorts them.
GateInv ==
  /\ {"given", "blocked", "failing", "categories", "blocked_categories", "missing"}
       \subseteq DOMAIN evidence.repairgate
  /\ evidence.repairgate.failing \subseteq Failed(basis.repairgate)
  /\ evidence.repairgate.categories \subseteq {Category(check) : check \in evidence.repairgate.failing}
  /\ evidence.repairgate.given /\ ~evidence.repairgate.blocked /\ evidence.repairgate.failing # {}
       => Failed(basis.repairgate) \cap Required \subseteq evidence.repairgate.failing
  /\ GraveWithheld /\ evidence.repairgate.blocked_categories = {}
       => \A check \in evidence.repairgate.failing : Category(check) \notin Grave

\* What the gate's result says of the checks, and when it does not refuse.
LEMMA GateResult ==
  ASSUME NEW q, NEW m, NEW g, NEW c, NEW p
  PROVE  LET result == RG!Result(q, m, g, c, p)
             sorted == RG!Classified(m.failing, q) IN
         /\ {"given", "blocked", "failing", "categories", "blocked_categories", "missing"}
              \subseteq DOMAIN result
         /\ result.failing = m.failing /\ result.categories = sorted.repairable
         /\ result.blocked_categories = sorted.blocked
         /\ ~result.blocked => m.monitored
<1> DEFINE result == RG!Result(q, m, g, c, p)
           sorted == RG!Classified(m.failing, q)
<1>1. {"given", "blocked", "failing", "categories", "blocked_categories", "missing"}
        \subseteq DOMAIN result
  BY DEF RG!Result
<1>2. /\ result.failing = m.failing /\ result.categories = sorted.repairable
      /\ result.blocked_categories = sorted.blocked
  <2> HIDE DEF sorted
  <2> QED BY DEF RG!Result, sorted
<1>3. result.blocked = RG!Blocked(q, m, g, c, p)
  BY DEF RG!Result
<1>4. ~RG!Blocked(q, m, g, c, p) => m.monitored
  BY DEF RG!Blocked, RG!MonitorClean
<1> QED BY <1>1, <1>2, <1>3, <1>4

\* Handed the monitor's newest result, stripped or not, or none.
LEMMA GateJudged ==
  ASSUME ShapeInv, TypeInv, MonitorInv, EvaluateRepairLoopGate
  PROVE  GateInv'
<1>0. DOMAIN evidence = Stages /\ DOMAIN basis = BasisStages
  BY DEF ShapeInv, TypeInv
<1>u. Use' = Use /\ Required' = Required /\ GraveWithheld' = GraveWithheld
  <2>1. Use' = Use
    BY SameUse DEF Next
  <2> QED BY <2>1 DEF Required, GraveWithheld
<1>1. PICK q \in Use.repairgate, m \in Handed("monitor", evidence.monitor, CM!NoResult) :
        \E g : Record("repairgate", RG!Result(Counted(q), m, g, PC!NoResult, PG!NoResult))
  BY DEF EvaluateRepairLoopGate
<1>2. PICK g : Record("repairgate", RG!Result(Counted(q), m, g, PC!NoResult, PG!NoResult))
  BY <1>1
<1>3. evidence'.repairgate = RG!Result(Counted(q), m, g, PC!NoResult, PG!NoResult)
  BY <1>0, <1>2, Recorded DEF Stages
<1>4. basis'.repairgate = basis.monitor
  BY <1>0 DEF EvaluateRepairLoopGate, BasisStages
<1>5. \/ m = CM!NoResult
      \/ m.failing = evidence.monitor.failing /\ m.monitored = evidence.monitor.monitored
  <2>1. m = CM!NoResult \/ \A field \in DOMAIN evidence.monitor \ {"truth"} : m[field] = evidence.monitor[field]
    BY HandedWhole
  <2> QED BY <2>1 DEF MonitorInv
<1>6. m = CM!NoResult => m.failing = {} /\ ~m.monitored
  BY DEF CM!NoResult
<1>7. m.failing \subseteq Failed(basis.monitor)
  BY <1>5, <1>6 DEF MonitorInv
<1>8. m.monitored /\ m.failing # {} => Failed(basis.monitor) \cap Required \subseteq m.failing
  BY <1>5, <1>6 DEF MonitorInv
<1>9. /\ RG!Classified(m.failing, Counted(q)).repairable \subseteq {Category(check) : check \in m.failing}
      /\ GraveWithheld /\ RG!Classified(m.failing, Counted(q)).blocked = {}
           => \A check \in m.failing : Category(check) \notin Grave
  <2>1. Sorted(RG!Classified(m.failing, Counted(q)), m.failing, Counted(q))
    BY GateSorts
  <2>2. GraveWithheld => Counted(q).allowed \cap Grave = {}
    BY CountedKeeps DEF GraveWithheld, TypeInv
  <2> QED BY <2>1, <2>2 DEF Sorted
<1>10. /\ {"given", "blocked", "failing", "categories", "blocked_categories", "missing"}
            \subseteq DOMAIN evidence'.repairgate
       /\ evidence'.repairgate.failing = m.failing
       /\ evidence'.repairgate.categories = RG!Classified(m.failing, Counted(q)).repairable
       /\ evidence'.repairgate.blocked_categories = RG!Classified(m.failing, Counted(q)).blocked
       /\ ~evidence'.repairgate.blocked => m.monitored
  BY <1>3, GateResult
<1> QED BY <1>u, <1>4, <1>7, <1>8, <1>9, <1>10 DEF GateInv

\* A finite set as a sequence: each of its places holds a member.
LEMMA SequenceOfSet ==
  ASSUME NEW S, IsFiniteSet(S)
  PROVE  /\ RP!Cardinality(S) \in Nat
         /\ \A i \in 1 .. RP!Cardinality(S) : RP!SetToSeq(S)[i] \in S
<1>1. RP!Cardinality(S) = Cardinality(S)
  BY Zenon DEF RP!Cardinality, Cardinality
<1>2. Cardinality(S) \in Nat /\ \E f \in [1 .. Cardinality(S) -> S] : RP!IsInjective(f)
  <2>1. PICK f : f \in Bijection(1 .. Cardinality(S), S)
    BY FS_CardinalityType DEF ExistsBijection
  <2>2. f \in [1 .. Cardinality(S) -> S] /\ RP!IsInjective(f)
    BY <2>1 DEF Bijection, Injection, IsInjective, RP!IsInjective
  <2> QED BY <2>2, FS_CardinalityType
<1>3. RP!SetToSeq(S) \in [1 .. Cardinality(S) -> S]
  BY <1>1, <1>2 DEF RP!SetToSeq
<1> QED BY <1>1, <1>2, <1>3

\* The smaller of two numbers.
LEMMA MinOfTwo ==
  ASSUME NEW m \in Nat, NEW n \in Nat
  PROVE  RP!Min({m, n}) \in Nat /\ RP!Min({m, n}) <= m /\ RP!Min({m, n}) <= n
<1>1. RP!Min({m, n}) = Min({m, n})
  BY Zenon DEF RP!Min, Min
<1>2. Min({m, n}) \in {m, n} /\ \A k \in {m, n} : Min({m, n}) <= k
  BY MinOfNats
<1> QED BY <1>1, <1>2

\* A step of a plan asks for a person, or looks into a check that fails.
PlanStep(step, failing) ==
  /\ {"kind", "category", "area", "human"} \subseteq DOMAIN step
  /\ \/ step.kind = "human" /\ step.human
     \/ step.kind = "inspect" /\ \E check \in failing : Category(check) = step.category

\* So the steps of a plan are.
LEMMA StepsAnswer ==
  ASSUME NEW q, q.steps \in Nat, NEW g, NEW m, IsFiniteSet(RP!Failing(g, m))
  PROVE  /\ \E S : RP!Steps(q, g, m) \in Seq(S)
         /\ \A i \in DOMAIN RP!Steps(q, g, m) :
              PlanStep(RP!Steps(q, g, m)[i], RP!Failing(g, m))
<1> DEFINE failing == RP!Failing(g, m)
           actionable == {check \in failing : RP!Category(check) \in RP!Failures(q, g, m).repairable}
           k == RP!Min({RP!Cardinality(actionable), q.steps})
           steps == [i \in 1 .. k |-> RP!StepFor(RP!SetToSeq(actionable)[i])]
<1>1. RP!Steps(q, g, m) = IF steps = << >> THEN << RP!NoActionableStep >> ELSE steps
  BY DEF RP!Steps
<1>2. IsFiniteSet(actionable) /\ actionable \subseteq failing
  BY FS_Subset
<1> HIDE DEF actionable, failing
<1>3. RP!Cardinality(actionable) \in Nat
  BY <1>2, SequenceOfSet
<1>4. k \in Nat /\ k <= RP!Cardinality(actionable)
  BY <1>3, MinOfTwo
<1>5. ASSUME NEW check \in failing PROVE PlanStep(RP!StepFor(check), failing)
  BY <1>5, OneMap DEF PlanStep, RP!StepFor
<1>6. PlanStep(RP!NoActionableStep, failing)
  BY DEF PlanStep, RP!NoActionableStep
<1> HIDE DEF k
<1>7. \A i \in 1 .. k : RP!SetToSeq(actionable)[i] \in failing
  BY <1>2, <1>3, <1>4, SequenceOfSet
<1>8. /\ \E S : steps \in Seq(S)
      /\ \A i \in DOMAIN steps : PlanStep(steps[i], failing)
  <2> DEFINE S == {RP!StepFor(check) : check \in failing}
  <2>1. steps \in [1 .. k -> S]
    BY <1>7
  <2>2. steps \in Seq(S)
    BY <1>4, <2>1, SeqDef
  <2> QED BY <1>5, <1>7, <2>2
<1>9. /\ \E S : << RP!NoActionableStep >> \in Seq(S)
      /\ \A i \in DOMAIN << RP!NoActionableStep >> : PlanStep(<< RP!NoActionableStep >>[i], failing)
  <2>1. PICK step : step = RP!NoActionableStep
    OBVIOUS
  <2>2. << step >> \in Seq({step})
    OBVIOUS
  <2>3. DOMAIN << step >> = {1} /\ << step >>[1] = step
    OBVIOUS
  <2> QED BY <1>6, <2>1, <2>2, <2>3
<1> QED BY <1>1, <1>8, <1>9 DEF failing

\* A plan's steps answer checks that had failed.  A plan that was made, where no
\* grave category may be repaired, rests on reports in which no check that every
\* caller requires had failed gravely.
PlanInv ==
  /\ {"planned", "steps"} \subseteq DOMAIN evidence.planner
  /\ \E S : evidence.planner.steps \in Seq(S)
  /\ \A i \in DOMAIN evidence.planner.steps :
       PlanStep(evidence.planner.steps[i], Failed(basis.planner))
  /\ DOMAIN evidence.planner.steps # {} => evidence.planner.planned
  /\ evidence.planner.planned /\ GraveWithheld
       => \A check \in Failed(basis.planner) \cap Required : Category(check) \notin Grave

\* A plan has steps only when it was made.
LEMMA PlanResult ==
  ASSUME NEW q, NEW g, NEW m, NEW mg, NEW c
  PROVE  LET result == RP!Result(q, g, m, mg, c) IN
         /\ {"planned", "steps"} \subseteq DOMAIN result
         /\ result.planned = RP!Planned(q, g, m, mg, c)
         /\ result.steps = IF RP!Planned(q, g, m, mg, c) THEN RP!Steps(q, g, m) ELSE << >>
<1> DEFINE result == RP!Result(q, g, m, mg, c)
<1>1. {"planned", "steps"} \subseteq DOMAIN result
  BY DEF RP!Result
<1>2. result.planned = RP!Planned(q, g, m, mg, c)
  BY DEF RP!Result
<1>3. result.steps = IF RP!Planned(q, g, m, mg, c) THEN RP!Steps(q, g, m) ELSE << >>
  BY DEF RP!Result
<1> QED BY <1>1, <1>2, <1>3

\* What has to hold for a plan to be made.
LEMMA PlannedMeans ==
  ASSUME NEW q, NEW g, NEW m, NEW mg, NEW c, RP!Planned(q, g, m, mg, c)
  PROVE  /\ g.given /\ ~g.blocked /\ g.blocked_categories = {}
         /\ m.monitored /\ m.failed /\ RP!OrChecks(g.missing, m.missing) = {}
         /\ RP!Failures(q, g, m).blocked = {}
<1>1. ~RP!Blocked(q, g, m, mg, c) /\ RP!GateEvidenceEligible(q, g)
  BY DEF RP!Planned
<1>2. g.given
  BY <1>1 DEF RP!GateEvidenceEligible
<1>3. ~g.blocked /\ g.blocked_categories = {} /\ m.monitored /\ m.failed
  BY <1>1 DEF RP!Blocked, RP!MonitorClean
<1>4. RP!OrChecks(g.missing, m.missing) = {} /\ RP!Failures(q, g, m).blocked = {}
  BY <1>1 DEF RP!Blocked
<1> QED BY <1>2, <1>3, <1>4

\* What had failed are some of the checks, of which there are finitely many.
LEMMA FailedFinite ==
  ASSUME TypeInv, NEW stage \in BasisStages, NEW checks, checks \subseteq Failed(basis[stage])
  PROVE  IsFiniteSet(checks)
<1>1. basis[stage] = Nothing \/ basis[stage] \in [Checks -> Outcomes]
  BY DEF TypeInv, TypeOK
<1>2. DOMAIN basis[stage] \subseteq Checks
  BY <1>1 DEF Nothing
<1>3. checks \subseteq Checks /\ IsFiniteSet(Checks)
  BY <1>2, ChecksAssumption DEF Failed, Checks
<1> QED BY <1>3, FS_Subset

\* Handed what the gate said, stripped or not, or nothing; the monitor's newest
\* result, which may be newer than what the gate saw, or nothing.
LEMMA PlanJudged ==
  ASSUME ShapeInv, TypeInv, MonitorInv, GateInv, PlanRepair
  PROVE  PlanInv'
<1>0. DOMAIN evidence = Stages /\ DOMAIN basis = BasisStages
  BY DEF ShapeInv, TypeInv
<1>u. Use' = Use /\ Required' = Required /\ GraveWithheld' = GraveWithheld
  <2>1. Use' = Use
    BY SameUse DEF Next
  <2> QED BY <2>1 DEF Required, GraveWithheld
<1>1. PICK q \in Use.planner, g \in Handed("repairgate", evidence.repairgate, RG!NoResult),
           m \in MayOmit("monitor", evidence.monitor, CM!NoResult) :
        /\ Record("planner", RP!Result(Counted(q), g, m, MG!NoResult, PC!NoResult))
        /\ basis' = [basis EXCEPT !.planner = IF g.failing # {} THEN basis.repairgate
                                              ELSE basis.monitor]
  BY DEF PlanRepair
<1> DEFINE asked == Counted(q)
           planned == RP!Planned(asked, g, m, MG!NoResult, PC!NoResult)
           failing == RP!Failing(g, m)
<1>2. basis'.planner = IF g.failing # {} THEN basis.repairgate ELSE basis.monitor
  BY <1>0, <1>1 DEF BasisStages
<1>3. failing = IF g.failing # {} THEN g.failing ELSE m.failing
  BY DEF RP!Failing, RP!OrChecks
<1>4. \/ /\ g = RG!NoResult /\ g.failing = {} /\ g.categories = {} /\ ~g.given
      \/ /\ g.failing = evidence.repairgate.failing
         /\ g.categories = evidence.repairgate.categories
         /\ g.blocked_categories = evidence.repairgate.blocked_categories
         /\ g.blocked = evidence.repairgate.blocked
         /\ g.given = evidence.repairgate.given
  <2>1. g = RG!NoResult \/ \A field \in DOMAIN evidence.repairgate \ {"truth"} : g[field] = evidence.repairgate[field]
    BY HandedWhole
  <2>2. g = RG!NoResult => g.failing = {} /\ g.categories = {} /\ ~g.given
    BY DEF RG!NoResult
  <2> QED BY <2>1, <2>2 DEF GateInv
<1>5. m = evidence.monitor \/ (m.failing = {} /\ ~m.monitored)
  BY DEF MayOmit, CM!NoResult
<1>6. failing \subseteq Failed(basis'.planner)
  BY <1>2, <1>3, <1>4, <1>5 DEF GateInv, MonitorInv
<1>7. IsFiniteSet(failing)
  <2>1. CASE g.failing # {}
    BY <1>2, <1>6, <2>1, FailedFinite DEF BasisStages
  <2>2. CASE g.failing = {}
    BY <1>2, <1>6, <2>2, FailedFinite DEF BasisStages
  <2> QED BY <2>1, <2>2
<1>8. asked.steps \in Nat /\ asked.allowed = q.allowed
  BY CountedKeeps DEF TypeInv
<1>9. /\ {"planned", "steps"} \subseteq DOMAIN evidence'.planner
      /\ evidence'.planner.planned = planned
      /\ evidence'.planner.steps = IF planned THEN RP!Steps(asked, g, m) ELSE << >>
  <2>1. evidence'.planner = RP!Result(asked, g, m, MG!NoResult, PC!NoResult)
    BY <1>0, <1>1, Recorded DEF Stages
  <2> QED BY <2>1, PlanResult
<1> HIDE DEF asked, planned, failing
<1>10. /\ \E S : evidence'.planner.steps \in Seq(S)
       /\ \A i \in DOMAIN evidence'.planner.steps :
            PlanStep(evidence'.planner.steps[i], Failed(basis'.planner))
       /\ DOMAIN evidence'.planner.steps # {} => evidence'.planner.planned
  <2>1. CASE planned
    <3>1. /\ \E S : RP!Steps(asked, g, m) \in Seq(S)
          /\ \A i \in DOMAIN RP!Steps(asked, g, m) : PlanStep(RP!Steps(asked, g, m)[i], failing)
      BY <1>7, <1>8, StepsAnswer DEF failing
    <3>2. \A step : PlanStep(step, failing) => PlanStep(step, Failed(basis'.planner))
      BY <1>6 DEF PlanStep
    <3> QED BY <1>9, <2>1, <3>1, <3>2
  <2>2. CASE ~planned
    <3>1. evidence'.planner.steps = << >>
      BY <1>9, <2>2
    <3>2. << >> \in Seq({}) /\ DOMAIN << >> = {}
      OBVIOUS
    <3> QED BY <3>1, <3>2
  <2> QED BY <2>1, <2>2
<1>11. ASSUME planned, GraveWithheld
       PROVE  \A check \in Failed(basis'.planner) \cap Required : Category(check) \notin Grave
  <2>1. /\ g.given /\ ~g.blocked /\ g.blocked_categories = {}
        /\ m.monitored /\ m.failed /\ RP!OrChecks(g.missing, m.missing) = {}
        /\ RP!Failures(asked, g, m).blocked = {}
    BY <1>11, PlannedMeans DEF planned
  <2>2. CASE g.failing # {}
    BY <1>2, <1>4, <1>11, <2>1, <2>2 DEF GateInv
  <2>3. CASE g.failing = {}
    <3>1. m = evidence.monitor /\ m.missing = {}
      BY <1>5, <2>1 DEF RP!OrChecks
    <3>2. Failed(basis.monitor) \cap Required \subseteq m.failing
      BY <2>1, <3>1 DEF MonitorInv
    <3>3. g.categories = {}
      BY <1>4, <2>3 DEF GateInv
    <3>4. RP!Failures(asked, g, m) = RP!Classified(failing, asked)
      BY <2>1, <3>3 DEF RP!Failures, failing
    <3>5. \A check \in failing : Category(check) \notin Grave
      <4>1. Sorted(RP!Classified(failing, asked), failing, asked)
        BY PlannerSorts
      <4>2. asked.allowed \cap Grave = {}
        BY <1>8, <1>11 DEF GraveWithheld
      <4> QED BY <2>1, <3>4, <4>1, <4>2 DEF Sorted
    <3> QED BY <1>2, <1>3, <2>3, <3>2, <3>5
  <2> QED BY <2>2, <2>3
<1> QED BY <1>u, <1>9, <1>10, <1>11 DEF PlanInv

-----------------------------------------------------------------------------
(* What is proposed. *)

\* Grown is the function its recursion describes.
LEMMA GrownIsRecursive ==
  ASSUME NEW q, NEW s, NEW steps, Len(steps) \in Nat
  PROVE  SE!Grown(q, s, steps) =
           [n \in 0 .. Len(steps) |->
              IF n = 0 THEN << >>
              ELSE SE!AddHunk(q, s, SE!Grown(q, s, steps)[n - 1], steps[n])]
<1> DEFINE Is(f, k) ==
             f = [n \in 0 .. k |-> IF n = 0 THEN << >> ELSE SE!AddHunk(q, s, f[n - 1], steps[n])]
           Reached == { k \in Nat : \E f : Is(f, k) }
<1>1. 0 \in Reached
  <2>1. Is([n \in 0 .. 0 |-> << >>], 0)
    OBVIOUS
  <2> QED BY <2>1
<1>2. ASSUME NEW k \in Nat, k \in Reached PROVE k + 1 \in Reached
  <2>1. PICK f : Is(f, k)
    BY <1>2
  <2> DEFINE g == [n \in 0 .. (k + 1) |->
                     IF n <= k THEN f[n] ELSE SE!AddHunk(q, s, f[k], steps[k + 1])]
             e(n) == IF n = 0 THEN << >> ELSE SE!AddHunk(q, s, g[n - 1], steps[n])
  <2>2. \A n \in 0 .. k : g[n] = f[n]
    OBVIOUS
  <2>3. ASSUME NEW n \in 0 .. (k + 1) PROVE g[n] = e(n)
    <3>1. CASE n = 0
      BY <2>1, <3>1
    <3>2. CASE n \in 1 .. k
      <4>1. n - 1 \in 0 .. k /\ n \in 0 .. k
        BY <3>2
      <4>2. f[n] = SE!AddHunk(q, s, f[n - 1], steps[n])
        BY <2>1, <3>2, <4>1
      <4> QED BY <2>2, <3>2, <4>1, <4>2
    <3>3. CASE n = k + 1
      <4>1. k \in 0 .. k /\ n - 1 = k /\ n # 0 /\ ~(n <= k)
        BY <3>3
      <4>2. g[n] = SE!AddHunk(q, s, f[k], steps[k + 1])
        BY <4>1
      <4> QED BY <2>2, <3>3, <4>1, <4>2
    <3> QED BY <3>1, <3>2, <3>3
  <2>4. Is(g, k + 1)
    <3>1. g = [n \in 0 .. (k + 1) |-> g[n]]
      OBVIOUS
    <3> HIDE DEF g, e
    <3>2. [n \in 0 .. (k + 1) |-> g[n]] = [n \in 0 .. (k + 1) |-> e(n)]
      BY <2>3, Zenon
    <3>3. g = [n \in 0 .. (k + 1) |-> e(n)]
      BY <3>1, <3>2, Zenon
    <3> QED BY <3>3, Zenon DEF e
  <2>5. \E h : Is(h, k + 1)
    <3> HIDE DEF g
    <3> QED BY <2>4, Zenon
  <2> QED BY <2>5
<1>3. Len(steps) \in Reached
  <2> HIDE DEF Reached
  <2> QED BY <1>1, <1>2, NatSetInduction
<1> QED BY <1>3 DEF SE!Grown

\* Of the steps of a plan the safe ones make the hunks.
SafeCategories(steps, s) ==
  {steps[i].category : i \in {j \in DOMAIN steps : SE!Safe(steps[j], s)}}

\* Every hunk is of a step the engine takes for safe.
LEMMA HunksOfSafeSteps ==
  ASSUME NEW q, NEW s, NEW S, NEW steps \in Seq(S)
  PROVE  LET hunks == SE!Grown(q, s, steps)[Len(steps)] IN
         /\ \A i \in DOMAIN hunks : hunks[i].category \in SafeCategories(steps, s)
         /\ hunks # << >> => \E i \in DOMAIN hunks : TRUE
<1> DEFINE H == [root : {SE!Root(steps[i].area) : i \in DOMAIN steps},
                 area : {steps[i].area : i \in DOMAIN steps},
                 category : SafeCategories(steps, s),
                 kind : {steps[i].kind : i \in DOMAIN steps}]
           grown == SE!Grown(q, s, steps)
           T == {n \in Nat : n <= Len(steps) => grown[n] \in Seq(H)}
<1>1. Len(steps) \in Nat /\ DOMAIN steps = 1 .. Len(steps)
  OBVIOUS
<1>2. grown = [n \in 0 .. Len(steps) |->
                 IF n = 0 THEN << >> ELSE SE!AddHunk(q, s, grown[n - 1], steps[n])]
  BY <1>1, GrownIsRecursive
<1>3. ASSUME NEW hunks \in Seq(H), NEW i \in DOMAIN steps
      PROVE  SE!AddHunk(q, s, hunks, steps[i]) \in Seq(H)
  <2> DEFINE hunk == [root |-> SE!Root(steps[i].area), area |-> steps[i].area,
                      category |-> steps[i].category, kind |-> steps[i].kind]
  <2>1. \/ SE!AddHunk(q, s, hunks, steps[i]) = hunks
        \/ SE!Safe(steps[i], s) /\ SE!AddHunk(q, s, hunks, steps[i]) = Append(hunks, hunk)
    BY Zenon DEF SE!AddHunk
  <2>2. SE!Safe(steps[i], s) => hunk \in H
    BY DEF SafeCategories
  <2> HIDE DEF hunk, H
  <2> QED BY <2>1, <2>2
<1> HIDE DEF H, grown
<1>4. 0 \in T
  <2>1. grown[0] = << >>
    BY <1>1, <1>2
  <2>2. << >> \in Seq(H)
    OBVIOUS
  <2> QED BY <2>1, <2>2
<1>5. ASSUME NEW n \in Nat, n \in T PROVE n + 1 \in T
  <2>1. SUFFICES ASSUME n + 1 <= Len(steps) PROVE grown[n + 1] \in Seq(H)
    OBVIOUS
  <2>2. n + 1 \in 0 .. Len(steps) /\ n + 1 \in DOMAIN steps /\ n + 1 # 0 /\ (n + 1) - 1 = n
    BY <1>1, <2>1
  <2>3. grown[n + 1] = SE!AddHunk(q, s, grown[n], steps[n + 1])
    BY <1>2, <2>2
  <2>4. grown[n] \in Seq(H)
    BY <1>1, <1>5, <2>1
  <2> QED BY <1>3, <2>2, <2>3, <2>4
<1>6. grown[Len(steps)] \in Seq(H)
  <2>1. \A n \in Nat : n \in T
    <3> HIDE DEF T
    <3> QED BY <1>4, <1>5, NatSetInduction
  <2> QED BY <1>1, <2>1
<1>7. PICK hunks : hunks = grown[Len(steps)]
  OBVIOUS
<1>8. \A i \in DOMAIN hunks : hunks[i].category \in SafeCategories(steps, s)
  <2>1. \A i \in DOMAIN hunks : hunks[i] \in H
    BY <1>6, <1>7
  <2> QED BY <2>1 DEF H
<1>9. hunks # << >> => \E i \in DOMAIN hunks : TRUE
  <2>1. hunks # << >> => 1 \in DOMAIN hunks
    BY <1>6, <1>7
  <2> QED BY <2>1
<1> QED BY <1>7, <1>8, <1>9 DEF grown

\* A name with a grave word and no whole command in it is of a grave category.
LEMMA GraveWordsAreGrave ==
  ASSUME NEW check, Words[check] \cap CommandWords = {}, Words[check] \cap GraveWords # {}
  PROVE  Category(check) \in Grave
<1> DEFINE hits == {i \in DOMAIN FailureMap : FailureMap[i][1] \cap Words[check] # {}}
<1>1. DOMAIN FailureMap = 1 .. 15
  BY DEF FailureMap
<1>2. FailureMap[1][1] \cup FailureMap[2][1] \subseteq CommandWords
  BY DEF FailureMap, CommandWords
<1>3. GraveWords \subseteq FailureMap[4][1] \cup FailureMap[6][1] \cup FailureMap[7][1]
                   \cup FailureMap[8][1] \cup FailureMap[9][1] \cup FailureMap[10][1]
  BY DEF FailureMap, GraveWords
<1>4. \A i \in 3 .. 10 : FailureMap[i][2] \in Grave
  <2>1. /\ FailureMap[3][2] \in Grave /\ FailureMap[4][2] \in Grave
        /\ FailureMap[5][2] \in Grave /\ FailureMap[6][2] \in Grave
        /\ FailureMap[7][2] \in Grave /\ FailureMap[8][2] \in Grave
        /\ FailureMap[9][2] \in Grave /\ FailureMap[10][2] \in Grave
    BY Zenon DEF FailureMap, Grave
  <2> QED BY <2>1
<1>5. 1 \notin hits /\ 2 \notin hits
  BY <1>2
<1>6. \E i \in {4, 6, 7, 8, 9, 10} : i \in hits
  BY <1>1, <1>3
<1> HIDE DEF hits
<1>7. hits # {} /\ hits \subseteq 1 .. 15 /\ hits \subseteq Nat
  BY <1>1, <1>6 DEF hits
<1>8. PICK least : least = Min(hits)
  OBVIOUS
<1>9. least \in hits /\ \A i \in hits : least <= i
  BY <1>7, <1>8, MinOfNats
<1>10. least \in 3 .. 10
  <2>1. PICK i \in {4, 6, 7, 8, 9, 10} : least <= i
    BY <1>6, <1>9
  <2>2. least \in 1 .. 15 /\ least # 1 /\ least # 2
    BY <1>5, <1>7, <1>9
  <2> QED BY <2>1, <2>2
<1>11. Category(check) = FailureMap[least][2]
  BY <1>7, <1>8 DEF Category, hits
<1> QED BY <1>4, <1>10, <1>11

\* A plan, as the planner made it or with its inspections turned into proposals:
\* only a step that answers a failing check is safe.
LEMMA PlanCategories ==
  ASSUME PlanInv, NEW r \in MayOmit("planner", Plan, RP!NoResult), NEW s
  PROVE  /\ \E S : r.steps \in Seq(S)
         /\ SafeCategories(r.steps, s) \subseteq {Category(check) : check \in Failed(basis.planner)}
         /\ DOMAIN r.steps # {} => evidence.planner.planned
<1> DEFINE steps == evidence.planner.steps
           answered == {Category(check) : check \in Failed(basis.planner)}
           Fit(step) == /\ step.kind = "human" => step.human
                        /\ step.kind # "human" => step.category \in answered
<1>1. PICK S : steps \in Seq(S)
  BY DEF PlanInv
<1>2. \A i \in DOMAIN steps : PlanStep(steps[i], Failed(basis.planner))
  BY DEF PlanInv
<1>3. \A i \in DOMAIN steps : Fit(steps[i])
  BY <1>2 DEF PlanStep
<1>4. ASSUME NEW T, r.steps \in Seq(T), \A i \in DOMAIN r.steps : Fit(r.steps[i])
      PROVE  SafeCategories(r.steps, s) \subseteq answered
  BY <1>4 DEF SafeCategories, SE!Safe
<1>5. CASE r = RP!NoResult
  <2>1. r.steps = << >>
    BY <1>5 DEF RP!NoResult
  <2>2. << >> \in Seq({}) /\ DOMAIN << >> = {}
    OBVIOUS
  <2> QED BY <2>1, <2>2 DEF SafeCategories
<1>6. CASE r = evidence.planner
  BY <1>1, <1>3, <1>4, <1>6 DEF PlanInv
<1>7. CASE r = Reworded(evidence.planner)
  <2> DEFINE Reword(step) == IF step.kind = "inspect" THEN [step EXCEPT !.kind = "propose"] ELSE step
  <2>1. r.steps = [i \in DOMAIN steps |-> Reword(steps[i])]
    BY <1>7 DEF PlanInv, Reworded
  <2>2. DOMAIN r.steps = DOMAIN steps /\ \A i \in DOMAIN steps : r.steps[i] = Reword(steps[i])
    BY <2>1
  <2>3. \A i \in DOMAIN steps : Fit(Reword(steps[i]))
    <3>1. SUFFICES ASSUME NEW i \in DOMAIN steps, steps[i].kind = "inspect"
                   PROVE  Fit([steps[i] EXCEPT !.kind = "propose"])
      BY <1>3
    <3>2. {"kind", "category", "human"} \subseteq DOMAIN steps[i]
      BY <1>2 DEF PlanStep
    <3>3. /\ [steps[i] EXCEPT !.kind = "propose"].kind = "propose"
          /\ [steps[i] EXCEPT !.kind = "propose"].category = steps[i].category
      BY <3>2
    <3> QED BY <1>3, <3>1, <3>3
  <2>4. \E T : r.steps \in Seq(T)
    <3> DEFINE T == {Reword(steps[i]) : i \in DOMAIN steps}
    <3>1. r.steps \in [1 .. Len(steps) -> T] /\ Len(steps) \in Nat
      BY <1>1, <2>1
    <3>2. r.steps \in Seq(T)
      BY <3>1, SeqDef
    <3> QED BY <3>2
  <2>5. \A i \in DOMAIN r.steps : Fit(r.steps[i])
    BY <2>2, <2>3
  <2> HIDE DEF Reword, Fit
  <2> QED BY <1>4, <2>2, <2>4, <2>5 DEF PlanInv
<1> QED BY <1>5, <1>6, <1>7 DEF MayOmit, Plan

\* A proposal answers failing checks of the reports its plan rests on, none of them
\* grave where grave categories are withheld.
ProposalInv == ProposalsAnswerFailures /\ GraveFailuresStopProposals

\* What the engine proposes rests on the plan it was handed.
LEMMA ProposalJudged ==
  ASSUME ShapeInv, TypeInv, PlanInv, Propose
  PROVE  ProposalInv'
<1>0. DOMAIN evidence = Stages /\ DOMAIN basis = BasisStages
  BY DEF ShapeInv, TypeInv
<1>u. Use' = Use /\ Required' = Required /\ GraveWithheld' = GraveWithheld
  <2>1. Use' = Use
    BY SameUse DEF Next
  <2> QED BY <2>1 DEF Required, GraveWithheld
<1>1. PICK q \in Use.proposal, r \in MayOmit("planner", Plan, RP!NoResult) :
        Record("proposal", SE!Result(Counted(q), evidence.propgate, r, evidence.monitor))
  BY DEF Propose
<1> DEFINE s == evidence.propgate
           asked == Counted(q)
           hunks == SE!Grown(asked, s, r.steps)[Len(r.steps)]
<1>2. basis'.proposal = basis.planner
  BY <1>0 DEF Propose, BasisStages
<1>3. /\ evidence'.proposal.proposal_created = SE!Created(asked, s, r, evidence.monitor)
      /\ evidence'.proposal.hunks = hunks
  <2>1. evidence'.proposal = SE!Result(asked, s, r, evidence.monitor)
    BY <1>0, <1>1, Recorded DEF Stages
  <2>2. SE!Result(asked, s, r, evidence.monitor).proposal_created = SE!Created(asked, s, r, evidence.monitor)
    BY DEF SE!Result
  <2>3. SE!Result(asked, s, r, evidence.monitor).hunks = hunks
    BY DEF SE!Result, SE!HandedOut, SE!Hunks
  <2> QED BY <2>1, <2>2, <2>3
<1>4. SUFFICES ASSUME hunks # << >>
               PROVE  /\ \A i \in DOMAIN hunks : \E check \in Checks :
                           /\ basis.planner[check] \in Failures
                           /\ Category(check) = hunks[i].category
                      /\ GraveWithheld =>
                           \A check \in Required :
                             basis.planner[check] \in Failures /\ Words[check] \cap CommandWords = {}
                               => Words[check] \cap GraveWords = {}
  <2>1. SE!Created(asked, s, r, evidence.monitor) => hunks # << >>
    BY DEF SE!Created, SE!Hunks
  <2> HIDE DEF hunks, asked, s
  <2> QED BY <1>u, <1>2, <1>3, <1>4, <2>1 DEF ProposalInv, ProposalsAnswerFailures,
        GraveFailuresStopProposals
<1>5. /\ \E S : r.steps \in Seq(S)
      /\ SafeCategories(r.steps, s) \subseteq {Category(check) : check \in Failed(basis.planner)}
      /\ DOMAIN r.steps # {} => evidence.planner.planned
  BY PlanCategories
<1>6. /\ \A i \in DOMAIN hunks : hunks[i].category \in SafeCategories(r.steps, s)
      /\ \E i \in DOMAIN hunks : TRUE
  BY <1>4, <1>5, HunksOfSafeSteps
<1> HIDE DEF hunks
<1>7. basis.planner \in [Checks -> Outcomes]
  <2>1. basis.planner = Nothing \/ basis.planner \in [Checks -> Outcomes]
    BY <1>0 DEF TypeInv, TypeOK, BasisStages
  <2>2. Failed(basis.planner) # {}
    BY <1>5, <1>6
  <2>3. Failed(Nothing) = {}
    BY DEF Failed, Nothing
  <2> QED BY <2>1, <2>2, <2>3
<1>8. Failed(basis.planner) = {check \in Checks : basis.planner[check] \in Failures}
  BY <1>7 DEF Failed
<1>9. GraveWithheld => \A check \in Failed(basis.planner) \cap Required : Category(check) \notin Grave
  <2>1. DOMAIN r.steps # {}
    <3>1. SafeCategories(r.steps, s) # {}
      BY <1>6
    <3> QED BY <3>1 DEF SafeCategories
  <2> QED BY <1>5, <2>1 DEF PlanInv
<1>10. ASSUME GraveWithheld, NEW check \in Required, basis.planner[check] \in Failures,
              Words[check] \cap CommandWords = {}
       PROVE  Words[check] \cap GraveWords = {}
  <2>1. check \in Failed(basis.planner)
    BY <1>8, <1>10 DEF Required
  <2> QED BY <1>9, <1>10, <2>1, GraveWordsAreGrave
<1> QED BY <1>5, <1>6, <1>8, <1>10

-----------------------------------------------------------------------------
(* From the failing check to the proposal. *)

AnswersInv == GateInv /\ PlanInv /\ ProposalInv

\* Each of the three stages changes its own part, and no other step changes any.
LEMMA NextAnswers ==
  ASSUME ShapeInv, TypeInv, MonitorInv, AnswersInv, Next
  PROVE  AnswersInv'
<1>u. Use' = Use /\ Required' = Required /\ GraveWithheld' = GraveWithheld
  <2>1. Use' = Use
    BY SameUse
  <2> QED BY <2>1 DEF Required, GraveWithheld
<1>1. GateInv'
  <2>1. \/ EvaluateRepairLoopGate
        \/ /\ UNCHANGED evidence \/ \E other \in Stages \ {"repairgate"} : \E r : Record(other, r)
           /\ \/ UNCHANGED basis
              \/ \E other \in BasisStages \ {"repairgate"} : \E r : basis' = [basis EXCEPT ![other] = r]
    BY DEF Next, Push, EvaluatePrCreationGate, StartCreate, FindOpenPullRequest,
           CreatePullRequest, ClientFails, FinishCreate, EvaluateCiMonitorGate, MonitorCi,
           PlanRepair, EvaluateProposalGate, Propose, CiReports, Meddle, Stages, BasisStages
  <2>2. CASE evidence'.repairgate = evidence.repairgate /\ basis'.repairgate = basis.repairgate
    BY <1>u, <2>2 DEF AnswersInv, GateInv
  <2> QED BY <2>1, <2>2, GateJudged, StageKept DEF AnswersInv, BasisStages
<1>2. PlanInv'
  <2>1. \/ PlanRepair
        \/ /\ UNCHANGED evidence \/ \E other \in Stages \ {"planner"} : \E r : Record(other, r)
           /\ \/ UNCHANGED basis
              \/ \E other \in BasisStages \ {"planner"} : \E r : basis' = [basis EXCEPT ![other] = r]
    BY DEF Next, Push, EvaluatePrCreationGate, StartCreate, FindOpenPullRequest,
           CreatePullRequest, ClientFails, FinishCreate, EvaluateCiMonitorGate, MonitorCi,
           EvaluateRepairLoopGate, EvaluateProposalGate, Propose, CiReports, Meddle, Stages,
           BasisStages
  <2>2. CASE evidence'.planner = evidence.planner /\ basis'.planner = basis.planner
    BY <1>u, <2>2 DEF AnswersInv, PlanInv
  <2> QED BY <2>1, <2>2, PlanJudged, StageKept DEF AnswersInv, BasisStages
<1>3. ProposalInv'
  <2>1. \/ Propose
        \/ /\ UNCHANGED evidence \/ \E other \in Stages \ {"proposal"} : \E r : Record(other, r)
           /\ \/ UNCHANGED basis
              \/ \E other \in BasisStages \ {"proposal"} : \E r : basis' = [basis EXCEPT ![other] = r]
    BY DEF Next, Push, EvaluatePrCreationGate, StartCreate, FindOpenPullRequest,
           CreatePullRequest, ClientFails, FinishCreate, EvaluateCiMonitorGate, MonitorCi,
           EvaluateRepairLoopGate, PlanRepair, EvaluateProposalGate, CiReports, Meddle,
           Stages, BasisStages
  <2>2. CASE evidence'.proposal = evidence.proposal /\ basis'.proposal = basis.proposal
    BY <1>u, <2>2 DEF AnswersInv, ProposalInv, ProposalsAnswerFailures,
                      GraveFailuresStopProposals
  <2> QED BY <2>1, <2>2, ProposalJudged, StageKept DEF AnswersInv, BasisStages
<1> QED BY <1>1, <1>2, <1>3 DEF AnswersInv

\* The three of them, throughout.
LEMMA Answers == Spec => []AnswersInv
<1>1. Init => AnswersInv
  <2> SUFFICES ASSUME Init PROVE AnswersInv
    OBVIOUS
  <2>1. GateInv
    <3>1. /\ {"given", "blocked", "failing", "categories", "blocked_categories", "missing"}
               \subseteq DOMAIN evidence.repairgate
          /\ evidence.repairgate.failing = {} /\ evidence.repairgate.categories = {}
          /\ ~evidence.repairgate.given
      BY DEF Init, RG!NoResult
    <3> QED BY <3>1 DEF GateInv
  <2>2. PlanInv
    <3>1. /\ {"planned", "steps"} \subseteq DOMAIN evidence.planner
          /\ evidence.planner.steps = << >> /\ ~evidence.planner.planned
      BY DEF Init, RP!NoResult
    <3>2. << >> \in Seq({}) /\ DOMAIN << >> = {}
      OBVIOUS
    <3> QED BY <3>1, <3>2 DEF PlanInv
  <2>3. ProposalInv
    <3>1. ~evidence.proposal.proposal_created
      BY DEF Init, SE!NoResult
    <3> QED BY <3>1 DEF ProposalInv, ProposalsAnswerFailures, GraveFailuresStopProposals
  <2> QED BY <2>1, <2>2, <2>3 DEF AnswersInv
<1>2. ShapeInv /\ TypeInv /\ MonitorInv /\ AnswersInv /\ [Next]_vars => AnswersInv'
  <2>1. UNCHANGED vars /\ AnswersInv => AnswersInv'
    BY DEF vars, AnswersInv, GateInv, PlanInv, ProposalInv, ProposalsAnswerFailures,
           GraveFailuresStopProposals, GraveWithheld, Required, Use
  <2> QED BY NextAnswers, <2>1
<1> QED BY <1>1, <1>2, Shapes, TypesKept, MonitorJudges, PTL DEF Spec

\* Every hunk proposed answers a check that had failed in the reports its plan rests
\* on, however the stages are repeated, handed older results, or handed nothing,
\* while checks go on reporting (_build_repair_plan_steps of ci_repair_planner.py,
\* _generate_proposals of scoped_ci_patch_proposal_engine.py).
THEOREM ProposalsAnswer == Spec => []ProposalsAnswerFailures
<1>1. AnswersInv => ProposalsAnswerFailures
  BY DEF AnswersInv, ProposalInv
<1> QED BY <1>1, Answers, PTL

\* A required check that fails with a grave word in its name stops every proposal
\* that rests on reports it is in: a gate that saw another failure as well names
\* both, and a plan is only made when none of them is barred (_FAILURE_MAP and
\* _classify_failures of ci_repair_loop_gate.py and ci_repair_planner.py).
THEOREM GraveFailuresStop == Spec => []GraveFailuresStopProposals
<1>1. AnswersInv => GraveFailuresStopProposals
  BY DEF AnswersInv, ProposalInv
<1> QED BY <1>1, Answers, PTL
================================================================================
