------------------------- MODULE RegistryStoreProofs -------------------------
(***************************************************************************)
(* Proofs about RegistryStore, for every set of writers, runs and requests *)
(* and every pair of caps.                                                 *)
(***************************************************************************)
EXTENDS RegistryStore, RunRegistryFacts

-----------------------------------------------------------------------------
(* The inductive invariant. *)

Inside == {"locked", "loaded", "written", "replaced"}

\* A writer inside the block holds the flock, so there is at most one.
LockInv == \A w \in Writers : pc[w] \in Inside => lock = w

\* What the writer inside has loaded is still what the file says, and what it
\* is about to rename over the file is its own change of that and nothing else.
CopyInv ==
  \A w \in Writers :
    /\ pc[w] \in {"loaded", "written"} => Reloaded(w) = cache[w]
    /\ pc[w] = "written" =>
         /\ temp[w] = Effect(cache[w], call[w])
         /\ ~ WritesNothing(cache[w], call[w])

IInv == TypeOK /\ LockInv /\ CopyInv

-----------------------------------------------------------------------------
(* Types. *)

\* A request changes a document into a document.
LEMMA EffectType ==
  ASSUME NEW doc \in Documents, NEW req \in Requests
  PROVE  Effect(doc, req) \in Documents
<1> DEFINE new == IF req.op = "register"
                  THEN Registered(doc[req.run], req.status, req.action, req.enabled)
                  ELSE Updated(doc[req.run], req.status, req.action, req.reason)
<1>1. /\ req.run \in Runs /\ req.status \in Statuses /\ req.action \in LastActions
      /\ req.reason \in Reasons /\ req.enabled \in Enablement
  BY StoreAssumption DEF Request
<1>2. doc[req.run] \in Row \cup {NoRow}
  BY <1>1 DEF Documents
<1>3. new \in Row \cup {NoRow}
  BY <1>1, <1>2, RegisteredType, UpdatedType
<1> HIDE DEF new
<1>4. [doc EXCEPT ![req.run] = new] \in Documents
  BY <1>3 DEF Documents
<1> QED BY <1>4 DEF Effect, new

\* The rows nobody has written form a document.
LEMMA EmptyType == EmptyDocument \in Documents
BY DEF EmptyDocument, Documents

\* The inductive invariant holds at first.
LEMMA InitInv == Init => IInv
<1> SUFFICES ASSUME Init PROVE IInv
  OBVIOUS
<1>1. TypeOK
  BY EmptyType DEF Init, TypeOK, Labels
<1>2. LockInv /\ CopyInv
  BY DEF Init, LockInv, CopyInv, Inside
<1> QED BY <1>1, <1>2 DEF IInv

\* Every step keeps the types.
LEMMA NextType ==
  ASSUME IInv, Next
  PROVE  TypeOK'
<1> USE DEF TypeOK
<1>0. TypeOK
  BY DEF IInv
<1> PICK w \in Writers : \/ Call(w) \/ Acquire(w) \/ Step(w) \/ Read(w)
                         \/ WriteFails(w) \/ Crash(w)
  BY DEF Next
<1>g. ASSUME NEW label \in Labels, Goto(w, label)
      PROVE  pc' \in [Writers -> Labels]
  BY <1>0, <1>g DEF Goto
<1>r. Reloaded(w) \in Documents
  BY <1>0 DEF Reloaded
<1>1. CASE Call(w)
  BY <1>0, <1>1, <1>g DEF Call, Labels
<1>2. CASE Acquire(w)
  BY <1>0, <1>2, <1>g DEF Acquire, Labels
<1>3. CASE Load(w)
  BY <1>0, <1>3, <1>g, <1>r DEF Load, Labels
<1>4. CASE WriteTemp(w)
  BY <1>0, <1>4, <1>g, EffectType DEF WriteTemp, Labels
<1>5. CASE UnknownRun(w)
  BY <1>0, <1>5, <1>g DEF UnknownRun, Labels
<1>6. CASE Replace(w)
  <2>1. temp[w] \in Documents
    BY <1>0, <1>6, EffectType DEF Replace, IInv, CopyInv
  <2> QED BY <1>0, <1>6, <1>g, <2>1 DEF Replace, Labels
<1>7. CASE Release(w)
  BY <1>0, <1>7, <1>g DEF Release, Labels
<1>8. CASE Read(w)
  BY <1>0, <1>8, <1>r DEF Read
<1>9. CASE WriteFails(w)
  <2>1. temp[w] \in Documents
    BY <1>0, <1>9, EffectType DEF WriteFails, IInv, CopyInv
  <2> QED BY <1>0, <1>9, <1>g, <2>1 DEF WriteFails, Labels
<1>10. CASE Crash(w)
  <2>1. (IF file = NoFile THEN EmptyDocument ELSE file) \in Documents
    BY <1>0, EmptyType
  <2> QED BY <1>0, <1>10, <1>g, <2>1 DEF Crash, Labels
<1> QED BY <1>1, <1>2, <1>3, <1>4, <1>5, <1>6, <1>7, <1>8, <1>9, <1>10 DEF Step

-----------------------------------------------------------------------------
(* The flock. *)

\* Every step keeps the writers out of each other's way.
LEMMA NextLock ==
  ASSUME IInv, Next
  PROVE  LockInv'
<1> USE DEF LockInv, Inside, Goto
<1>0. LockInv /\ pc \in [Writers -> Labels]
  BY DEF IInv, TypeOK
<1> PICK w \in Writers : \/ Call(w) \/ Acquire(w) \/ Step(w) \/ Read(w)
                         \/ WriteFails(w) \/ Crash(w)
  BY DEF Next
<1>f. Free \notin Writers
  BY StoreAssumption
<1>1. CASE Call(w)
  BY <1>0, <1>1 DEF Call
<1>2. CASE Acquire(w)
  BY <1>0, <1>2, <1>f DEF Acquire
<1>3. CASE Load(w) \/ WriteTemp(w) \/ UnknownRun(w) \/ Replace(w)
  BY <1>0, <1>3 DEF Load, WriteTemp, UnknownRun, Replace
<1>4. CASE Release(w) \/ WriteFails(w)
  BY <1>0, <1>4 DEF Release, WriteFails
<1>5. CASE Read(w)
  BY <1>0, <1>5 DEF Read
<1>6. CASE Crash(w)
  BY <1>0, <1>6 DEF Crash
<1> QED BY <1>1, <1>2, <1>3, <1>4, <1>5, <1>6 DEF Step

\* Every step keeps the copy of the writer inside up to date.
LEMMA NextCopy ==
  ASSUME IInv, Next
  PROVE  CopyInv'
<1> USE DEF Goto
<1>0. /\ pc \in [Writers -> Labels] /\ cache \in [Writers -> Documents]
      /\ temp \in [Writers -> Documents \cup {NoFile}] /\ call \in [Writers -> Requests]
      /\ LockInv /\ CopyInv
  BY DEF IInv, TypeOK
<1>a. PICK w \in Writers : \/ Call(w) \/ Acquire(w) \/ Step(w) \/ Read(w)
                           \/ WriteFails(w) \/ Crash(w)
  BY DEF Next
<1> SUFFICES ASSUME NEW v \in Writers
             PROVE  /\ pc'[v] \in {"loaded", "written"} => Reloaded(v)' = cache'[v]
                    /\ pc'[v] = "written" =>
                         /\ temp'[v] = Effect(cache'[v], call'[v])
                         /\ ~ WritesNothing(cache'[v], call'[v])
  BY DEF CopyInv
<1>v. /\ pc[v] \in {"loaded", "written"} => Reloaded(v) = cache[v]
      /\ pc[v] = "written" =>
           /\ temp[v] = Effect(cache[v], call[v])
           /\ ~ WritesNothing(cache[v], call[v])
  BY <1>0 DEF CopyInv
<1>1. CASE v = w
  <2>1. CASE Load(w)
    BY <1>0, <1>1, <2>1 DEF Load, Reloaded
  <2>2. CASE WriteTemp(w)
    BY <1>0, <1>1, <1>v, <2>2 DEF WriteTemp, Reloaded
  <2>3. CASE Read(w)
    BY <1>0, <1>1, <2>3 DEF Read
  <2>4. CASE ~ (Load(w) \/ WriteTemp(w) \/ Read(w))
    <3>1. pc'[w] \notin {"loaded", "written"}
      BY <1>0, <1>a, <2>4
      DEF Call, Acquire, Step, UnknownRun, Replace, Release, WriteFails, Crash
    <3> QED BY <1>1, <3>1
  <2> QED BY <2>1, <2>2, <2>3, <2>4
<1>2. CASE v # w
  <2>1. pc'[v] = pc[v] /\ cache'[v] = cache[v] /\ temp'[v] = temp[v] /\ call'[v] = call[v]
    BY <1>0, <1>2, <1>a
    DEF Call, Acquire, Step, Load, WriteTemp, UnknownRun, Replace, Release, Read,
        WriteFails, Crash
  <2>2. pc[v] \in {"loaded", "written"} => file' = file
    <3>1. CASE Replace(w)
      BY <1>0, <1>2, <3>1 DEF Replace, LockInv, Inside
    <3>2. CASE ~ Replace(w)
      BY <1>a, <3>2
      DEF Call, Acquire, Step, Load, WriteTemp, UnknownRun, Release, Read, WriteFails, Crash
    <3> QED BY <3>1, <3>2
  <2> QED BY <1>v, <2>1, <2>2 DEF Reloaded
<1> QED BY <1>1, <1>2

\* A step that changes nothing keeps the invariant.
LEMMA StutterInv ==
  ASSUME IInv, UNCHANGED vars
  PROVE  IInv'
BY DEF vars, IInv, TypeOK, LockInv, CopyInv, Reloaded

\* The inductive invariant holds throughout.
THEOREM Invariance == Spec => []IInv
<1>1. IInv /\ [Next]_vars => IInv'
  BY NextType, NextLock, NextCopy, StutterInv DEF IInv
<1> QED BY InitInv, <1>1, PTL DEF Spec

\* The file, the flock, the caches and the temporary files keep their types.
THEOREM TypeCorrect == Spec => []TypeOK
BY Invariance, PTL DEF IInv

-----------------------------------------------------------------------------
(* The audit trails. *)

\* No transition is recorded as a start.
LEMMA NoSecondStart ==
  ASSUME NEW status \in Statuses, NEW reason \in Reasons, NEW current \in Resolutions
  PROVE  InferEventType(reason, status, current) # "start"
<1>1. reason \in DOMAIN ReasonEvent => ReasonEvent[reason] # "start"
  BY DEF ReasonEvent
<1>2. current \in DOMAIN ResolutionEvent => ResolutionEvent[current] # "start"
  BY DEF ResolutionEvent
<1> QED BY <1>1, <1>2 DEF InferEventType

GoodRow(row) == TrailsAgree(row) /\ StartsOnce(row)

\* A transition adds one entry to each trail and cuts the longer past first.
LEMMA TransitionedGood ==
  ASSUME NEW row \in Row, NEW status \in Statuses, NEW action \in LastActions,
         NEW reason \in Reasons, GoodRow(row)
  PROVE  GoodRow(Transitioned(row, status, action, reason))
<1> DEFINE res == ResolutionFor(status, reason)
           event == EventFor(InferEventType(reason, status, res.current), res, status)
           h == Append(row.history, res)
           t == Append(row.timeline, event)
           hist == LastN(h, HistoryCap)
           line == LastN(t, TimelineCap)
           new == Transitioned(row, status, action, reason)
<1>1. res \in Resolution /\ res.current \in Resolutions
  BY ResolutionForType DEF Resolution
<1>2. event \in Event /\ event.resolution = res /\ event.type # "start"
  BY <1>1, EventTypeType, NoSecondStart DEF EventFor, Event
<1>3. row.history \in Seq(Resolution) /\ row.timeline \in Seq(Event)
  BY DEF Row
<1>4. new.history = hist /\ new.timeline = line
  BY DEF Transitioned, Row
<1> HIDE DEF res, event, new
<1>5. /\ h \in Seq(Resolution) /\ Len(h) = Len(row.history) + 1
      /\ h[Len(h)] = res
      /\ \A i \in 1 .. Len(row.history) : h[i] = row.history[i]
  BY <1>1, <1>3
<1>6. /\ t \in Seq(Event) /\ Len(t) = Len(row.timeline) + 1
      /\ t[Len(t)] = event
      /\ \A i \in 1 .. Len(row.timeline) : t[i] = row.timeline[i]
  BY <1>2, <1>3
<1> HIDE DEF h, t
<1>7. /\ hist \in Seq(Resolution)
      /\ Len(hist) = IF Len(h) <= HistoryCap THEN Len(h) ELSE HistoryCap
      /\ \A k \in 0 .. Len(hist) - 1 : hist[Len(hist) - k] = h[Len(h) - k]
  BY <1>5, LastNProperties, CapAssumption
<1>8. /\ line \in Seq(Event)
      /\ Len(line) = IF Len(t) <= TimelineCap THEN Len(t) ELSE TimelineCap
      /\ \A k \in 0 .. Len(line) - 1 : line[Len(line) - k] = t[Len(t) - k]
  BY <1>6, LastNProperties, CapAssumption
<1> HIDE DEF hist, line
<1>9. Len(row.history) \in Nat /\ Len(row.timeline) \in Nat /\ Len(row.history) <= Len(row.timeline)
  BY <1>3 DEF GoodRow, TrailsAgree
<1>10. Len(hist) \in Nat /\ Len(line) \in Nat /\ Len(hist) <= Len(line)
       /\ Len(hist) <= Len(h) /\ Len(line) <= Len(t)
  <2> DEFINE lh == Len(row.history)  lt == Len(row.timeline)
             nh == Len(hist)         nt == Len(line)
  <2>1. /\ Len(h) = lh + 1 /\ nh = IF Len(h) <= HistoryCap THEN Len(h) ELSE HistoryCap
        /\ Len(t) = lt + 1 /\ nt = IF Len(t) <= TimelineCap THEN Len(t) ELSE TimelineCap
    BY <1>5, <1>6, <1>7, <1>8
  <2>2. lh \in Nat /\ lt \in Nat /\ lh <= lt
    BY <1>9
  <2> HIDE DEF lh, lt, nh, nt
  <2>3. nh \in Nat /\ nt \in Nat /\ nh <= nt /\ nh <= Len(h) /\ nt <= Len(t)
    BY <2>1, <2>2, CapAssumption
  <2> QED BY <2>3 DEF nh, nt
<1>11. TrailsAgree(new)
  <2> SUFFICES ASSUME NEW k \in 0 .. Len(hist) - 1
               PROVE  hist[Len(hist) - k] = line[Len(line) - k].resolution
    BY <1>4, <1>10 DEF TrailsAgree
  <2>1. hist[Len(hist) - k] = h[Len(h) - k] /\ line[Len(line) - k] = t[Len(t) - k]
    BY <1>7, <1>8, <1>10
  <2>2. CASE k = 0
    BY <1>2, <1>5, <1>6, <1>9, <2>1, <2>2
  <2>3. CASE k # 0
    <3>1. k - 1 \in 0 .. Len(row.history) - 1
      BY <1>5, <1>9, <1>10, <2>3
    <3>2. row.history[Len(row.history) - (k - 1)]
            = row.timeline[Len(row.timeline) - (k - 1)].resolution
      BY <3>1 DEF GoodRow, TrailsAgree
    <3>3. h[Len(h) - k] = row.history[Len(row.history) - (k - 1)]
      <4> DEFINE i == Len(row.history) - (k - 1)
      <4>1. i \in 1 .. Len(row.history) /\ Len(h) - k = i
        BY <1>5, <1>9, <3>1
      <4> QED BY <1>5, <4>1
    <3>4. t[Len(t) - k] = row.timeline[Len(row.timeline) - (k - 1)]
      <4> DEFINE i == Len(row.timeline) - (k - 1)
      <4>1. i \in 1 .. Len(row.timeline) /\ Len(t) - k = i
        BY <1>6, <1>9, <3>1
      <4> QED BY <1>6, <4>1
    <3> QED BY <2>1, <3>2, <3>3, <3>4
  <2> QED BY <2>2, <2>3
<1>12. StartsOnce(new)
  <2> SUFFICES ASSUME NEW k \in 2 .. Len(line)
               PROVE  line[k].type # "start"
    BY <1>4 DEF StartsOnce
  <2> DEFINE i == Len(t) - (Len(line) - k)
  <2>1. i \in 2 .. Len(t) /\ line[k] = t[i]
    <3> DEFINE j == Len(line) - k
    <3>1. j \in 0 .. Len(line) - 1 /\ Len(line) - j = k /\ i = Len(t) - j
      BY <1>6, <1>9, <1>10
    <3>2. i \in 2 .. Len(t)
      BY <1>6, <1>9, <1>10
    <3> QED BY <1>8, <3>1, <3>2
  <2>2. CASE i = Len(t)
    BY <1>2, <1>6, <2>1, <2>2
  <2>3. CASE i # Len(t)
    <3>1. i \in 2 .. Len(row.timeline)
      BY <1>6, <1>9, <2>1, <2>3
    <3>2. t[i] = row.timeline[i] /\ row.timeline[i].type # "start"
      BY <1>6, <1>9, <3>1 DEF GoodRow, StartsOnce
    <3> QED BY <2>1, <3>2
  <2> QED BY <2>2, <2>3
<1> QED BY <1>11, <1>12 DEF GoodRow, new

\* A new row has one event, its start.
LEMMA NewRowGood ==
  ASSUME NEW status \in Statuses, NEW action \in LastActions, NEW enabled \in Enablement
  PROVE  GoodRow(NewRow(status, action, enabled))
<1> DEFINE new == NewRow(status, action, enabled)
<1>1. new.history = << >> /\ Len(new.timeline) = 1
  BY DEF NewRow
<1> HIDE DEF new
<1>2. Len(new.history) = 0
  BY <1>1
<1>3. TrailsAgree(new)
  BY <1>1, <1>2 DEF TrailsAgree
<1>4. StartsOnce(new)
  BY <1>1 DEF StartsOnce
<1> QED BY <1>3, <1>4 DEF GoodRow, new

\* A registration over a row that exists leaves its trails alone.
LEMMA RegisteredGood ==
  ASSUME NEW row \in Row \cup {NoRow}, NEW status \in Statuses, NEW action \in LastActions,
         NEW enabled \in Enablement, row # NoRow => GoodRow(row)
  PROVE  GoodRow(Registered(row, status, action, enabled))
<1>1. CASE row = NoRow
  BY <1>1, NewRowGood DEF Registered
<1>2. CASE row # NoRow
  <2> DEFINE new == MergedRow(row, status, action, enabled)
  <2>1. new.history = row.history /\ new.timeline = row.timeline
    BY <1>2 DEF MergedRow, Row
  <2> HIDE DEF new
  <2>2. GoodRow(new)
    BY <1>2, <2>1 DEF GoodRow, TrailsAgree, StartsOnce
  <2> QED BY <1>2, <2>2 DEF Registered, new
<1> QED BY <1>1, <1>2

GoodDoc(doc) == \A r \in Runs : doc[r] # NoRow => GoodRow(doc[r])

\* Every request keeps the trails of every row in order.
LEMMA EffectGood ==
  ASSUME NEW doc \in Documents, NEW req \in Requests, GoodDoc(doc)
  PROVE  GoodDoc(Effect(doc, req))
<1> DEFINE old == doc[req.run]
           new == IF req.op = "register"
                  THEN Registered(old, req.status, req.action, req.enabled)
                  ELSE Updated(old, req.status, req.action, req.reason)
<1>1. /\ req.run \in Runs /\ req.status \in Statuses /\ req.action \in LastActions
      /\ req.reason \in Reasons /\ req.enabled \in Enablement
  BY StoreAssumption DEF Request
<1>2. old \in Row \cup {NoRow} /\ (old # NoRow => GoodRow(old))
  BY <1>1 DEF Documents, GoodDoc
<1> HIDE DEF old
<1>3. new # NoRow => GoodRow(new)
  BY <1>1, <1>2, RegisteredGood, TransitionedGood DEF Updated
<1> HIDE DEF new
<1>4. Effect(doc, req) = [doc EXCEPT ![req.run] = new]
  BY DEF Effect, new, old
<1> QED BY <1>3, <1>4 DEF GoodDoc, Documents

\* Every row anywhere has trails in order; it is inductive next to IInv.
TrailInv ==
  /\ file # NoFile => GoodDoc(file)
  /\ \A w \in Writers : GoodDoc(cache[w])

\* Every step keeps the trails of the rows in the file and the caches in order.
LEMMA NextTrails ==
  ASSUME IInv, TrailInv, Next
  PROVE  TrailInv'
<1>0. /\ file \in Documents \cup {NoFile} /\ cache \in [Writers -> Documents]
      /\ call \in [Writers -> Requests] /\ CopyInv
  BY DEF IInv, TypeOK
<1> PICK w \in Writers : \/ Call(w) \/ Acquire(w) \/ Step(w) \/ Read(w)
                         \/ WriteFails(w) \/ Crash(w)
  BY DEF Next
<1>e. GoodDoc(EmptyDocument)
  BY DEF GoodDoc, EmptyDocument
<1>r. GoodDoc(Reloaded(w))
  BY DEF TrailInv, Reloaded
<1>t. pc[w] = "written" => GoodDoc(temp[w])
  BY <1>0, EffectGood DEF TrailInv, CopyInv
<1>c. ASSUME NEW doc, GoodDoc(doc), cache' = [cache EXCEPT ![w] = doc]
      PROVE  \A v \in Writers : GoodDoc(cache'[v])
  BY <1>0, <1>c DEF TrailInv
<1>1. CASE Call(w) \/ Acquire(w) \/ WriteTemp(w) \/ UnknownRun(w) \/ Release(w)
  BY <1>1 DEF Call, Acquire, WriteTemp, UnknownRun, Release, TrailInv
<1>2. CASE Load(w) \/ Read(w)
  BY <1>2, <1>r, <1>c DEF Load, Read, TrailInv
<1>3. CASE Replace(w)
  BY <1>3, <1>t, <1>c DEF Replace, TrailInv
<1>4. CASE WriteFails(w)
  BY <1>4, <1>t, <1>c DEF WriteFails, TrailInv
<1>5. CASE Crash(w)
  <2>1. GoodDoc(IF file = NoFile THEN EmptyDocument ELSE file)
    BY <1>e DEF TrailInv
  <2> QED BY <1>5, <1>c, <2>1 DEF Crash, TrailInv
<1> QED BY <1>1, <1>2, <1>3, <1>4, <1>5 DEF Step

\* The trails are in order throughout.
THEOREM TrailInvariance == Spec => []TrailInv
<1>1. Init => TrailInv
  BY DEF Init, TrailInv, GoodDoc, EmptyDocument
<1>2. IInv /\ TrailInv /\ [Next]_vars => TrailInv'
  <2>1. ASSUME TrailInv, UNCHANGED vars PROVE TrailInv'
    BY <2>1 DEF vars, TrailInv
  <2> QED BY <2>1, NextTrails
<1> QED BY <1>1, <1>2, Invariance, PTL DEF Spec

\* A row anywhere is a row of a document in order.
LEMMA RowsGood ==
  ASSUME TypeOK, TrailInv, NEW row \in AllRows \ {NoRow}
  PROVE  GoodRow(row)
<1>1. CASE \E r \in Runs : file # NoFile /\ row = file[r]
  BY <1>1 DEF TrailInv, GoodDoc
<1>2. CASE \E w \in Writers, r \in Runs : row = cache[w][r]
  BY <1>2 DEF TrailInv, GoodDoc
<1> QED BY <1>1, <1>2 DEF AllRows

\* History and timeline of every row, in the file and in every cache, tell one
\* story: no entry of the history lacks its event, whatever the caps cut.
THEOREM TrailsTellOneStory == Spec => []AuditTrailsAgree
<1>1. IInv /\ TrailInv => AuditTrailsAgree
  BY RowsGood DEF IInv, AuditTrailsAgree, GoodRow
<1> QED BY <1>1, Invariance, TrailInvariance, PTL

\* However often a run is registered, its timeline has a single start event.
THEOREM StartsAreSingle == Spec => []SingleStart
<1>1. IInv /\ TrailInv => SingleStart
  BY RowsGood DEF IInv, SingleStart, GoodRow
<1> QED BY <1>1, Invariance, TrailInvariance, PTL

-----------------------------------------------------------------------------
(* The store implements the atomic document. *)

\* What a request does to a document is the same for both specifications.
LEMMA SameEffect ==
  ASSUME NEW doc, NEW req
  PROVE  Atomic!Effect(doc, req) = Effect(doc, req)
<1>1. ASSUME NEW a, NEW s
      PROVE  Atomic!InferGovernanceReason(a, s) = InferGovernanceReason(a, s)
  BY DEF Atomic!InferGovernanceReason, InferGovernanceReason,
         Atomic!StatusReason, StatusReason, Atomic!PauseTexts, PauseTexts,
         Atomic!PolicyTexts, PolicyTexts
<1>2. ASSUME NEW s, NEW r
      PROVE  Atomic!InferResolutionState(s, r) = InferResolutionState(s, r)
  BY DEF Atomic!InferResolutionState, InferResolutionState,
         Atomic!StatusResolution, StatusResolution
<1>3. ASSUME NEW r, NEW s, NEW c
      PROVE  Atomic!InferEventType(r, s, c) = InferEventType(r, s, c)
  BY Zenon DEF Atomic!InferEventType, InferEventType, Atomic!ReasonEvent,
         ReasonEvent, Atomic!ResolutionEvent, ResolutionEvent
<1>4. ASSUME NEW s, NEW r
      PROVE  Atomic!ResolutionFor(s, r) = ResolutionFor(s, r)
  BY <1>2, Zenon DEF Atomic!ResolutionFor, ResolutionFor
<1>5. ASSUME NEW t, NEW r, NEW s
      PROVE  Atomic!EventFor(t, r, s) = EventFor(t, r, s)
  BY Zenon DEF Atomic!EventFor, EventFor
<1>6. ASSUME NEW seq, NEW cap
      PROVE  Atomic!LastN(seq, cap) = LastN(seq, cap)
  BY Zenon DEF Atomic!LastN, LastN
<1>7. ASSUME NEW row, NEW s, NEW a, NEW e
      PROVE  Atomic!Registered(row, s, a, e) = Registered(row, s, a, e)
  <2>1. Atomic!NewRow(s, a, e) = NewRow(s, a, e)
    BY <1>1, <1>4, <1>5, Zenon DEF Atomic!NewRow, NewRow
  <2>2. Atomic!MergedRow(row, s, a, e) = MergedRow(row, s, a, e)
    BY <1>1, <1>4, Zenon DEF Atomic!MergedRow, MergedRow
  <2> QED BY <2>1, <2>2, Zenon DEF Atomic!Registered, Registered
<1>8. ASSUME NEW row, NEW s, NEW a, NEW r
      PROVE  Atomic!Updated(row, s, a, r) = Updated(row, s, a, r)
  <2>1. Atomic!Transitioned(row, s, a, r) = Transitioned(row, s, a, r)
    BY <1>3, <1>4, <1>5, <1>6, Zenon DEF Atomic!Transitioned, Transitioned
  <2> QED BY <2>1, Zenon DEF Atomic!Updated, Updated
<1> QED BY <1>7, <1>8, Zenon DEF Atomic!Effect, Effect

\* The abstract variables that are not variables of the store.
Leftover == [w \in Writers |-> IF file = NoFile THEN cache[w] ELSE EmptyDocument]
OutcomeOf == [w \in Writers |-> Outcome(pc[w])]

AbstractVars == << file, Leftover, call, OutcomeOf >>

\* A write starts from what its writer has loaded.
LEMMA SameBase ==
  ASSUME NEW w \in Writers
  PROVE  /\ Atomic!Base(w) = Reloaded(w)
         /\ Atomic!Ignored(w) <=> WritesNothing(Reloaded(w), call[w])
<1>1. Atomic!Base(w) = Reloaded(w)
  BY DEF Atomic!Base, Reloaded
<1> QED BY <1>1 DEF Atomic!Ignored, WritesNothing

\* The store starts where the atomic document does.
LEMMA InitRefines == Init => Atomic!Init
BY DEF Init, Atomic!Init, Outcome, EmptyDocument, Atomic!EmptyDocument

\* Moving one writer moves its abstract outcome and no other.
LEMMA GotoOutcome ==
  ASSUME TypeOK, NEW w \in Writers, NEW label \in Labels, Goto(w, label)
  PROVE  OutcomeOf' = [OutcomeOf EXCEPT ![w] = Outcome(label)]
<1>1. pc' = [pc EXCEPT ![w] = label] /\ pc \in [Writers -> Labels]
  BY DEF Goto, TypeOK
<1> QED BY <1>1 DEF OutcomeOf

\* A change of a writer's cache shows only while there is no document.
LEMMA CacheLeftover ==
  ASSUME TypeOK, NEW w \in Writers, NEW doc,
         cache' = [cache EXCEPT ![w] = doc], UNCHANGED file
  PROVE  Leftover' = IF file = NoFile THEN [Leftover EXCEPT ![w] = doc]
                                      ELSE Leftover
<1>1. cache \in [Writers -> Documents]
  BY DEF TypeOK
<1>2. CASE file = NoFile
  BY <1>1, <1>2 DEF Leftover
<1>3. CASE file # NoFile
  BY <1>1, <1>3 DEF Leftover
<1> QED BY <1>2, <1>3

\* Every step of the store is a step of the atomic document, or none.
LEMMA NextRefines ==
  ASSUME IInv, Next
  PROVE  Atomic!Next \/ UNCHANGED AbstractVars
<1>0. TypeOK /\ LockInv /\ CopyInv
  BY DEF IInv
<1>t. /\ pc \in [Writers -> Labels]
      /\ cache \in [Writers -> Documents]
      /\ file \in Documents \cup {NoFile}
      /\ call \in [Writers -> Requests]
  BY <1>0 DEF TypeOK
<1>o. /\ OutcomeOf = [v \in Writers |-> Outcome(pc[v])]
      /\ DOMAIN OutcomeOf = Writers /\ DOMAIN Leftover = Writers
      /\ \A v \in Writers : OutcomeOf[v] = Outcome(pc[v])
  BY DEF OutcomeOf, Leftover
<1> PICK w \in Writers : \/ Call(w) \/ Acquire(w) \/ Step(w) \/ Read(w)
                         \/ WriteFails(w) \/ Crash(w)
  BY DEF Next
<1>s. ASSUME NEW label \in Labels, Goto(w, label), OutcomeOf[w] = Outcome(label)
      PROVE  OutcomeOf' = OutcomeOf
  BY <1>0, <1>s, <1>o, GotoOutcome
<1>1. CASE Call(w)
  <2>1. Leftover' = Leftover
    BY <1>1 DEF Call, Leftover
  <2>2. OutcomeOf[w] = "none" /\ OutcomeOf' = [OutcomeOf EXCEPT ![w] = "pending"]
    BY <1>0, <1>1, <1>o, GotoOutcome DEF Call, Labels, Outcome
  <2>3. Atomic!Call(w)
    BY <1>1, <2>1, <2>2 DEF Call, Atomic!Call, Leftover, OutcomeOf
  <2> QED BY <2>3 DEF Atomic!Next
<1>2. CASE Acquire(w)
  <2>1. OutcomeOf' = OutcomeOf
    BY <1>2, <1>o, <1>s DEF Acquire, Labels, Outcome
  <2> QED BY <1>2, <2>1 DEF Acquire, AbstractVars, Leftover
<1>3. CASE Load(w)
  <2>1. OutcomeOf' = OutcomeOf
    BY <1>3, <1>o, <1>s DEF Load, Labels, Outcome
  <2>2. Leftover' = Leftover
    BY <1>0, <1>3, CacheLeftover, <1>o DEF Load, Reloaded, Leftover
  <2> QED BY <1>3, <2>1, <2>2 DEF Load, AbstractVars
<1>4. CASE WriteTemp(w)
  <2>1. OutcomeOf' = OutcomeOf
    BY <1>4, <1>o, <1>s DEF WriteTemp, Labels, Outcome
  <2> QED BY <1>4, <2>1 DEF WriteTemp, AbstractVars, Leftover
<1>5. CASE UnknownRun(w)
  <2>1. OutcomeOf[w] = "pending" /\ OutcomeOf' = [OutcomeOf EXCEPT ![w] = "done"]
    BY <1>0, <1>5, <1>o, GotoOutcome DEF UnknownRun, Labels, Outcome
  <2>2. Atomic!Ignored(w)
    BY <1>0, <1>5, SameBase DEF UnknownRun, CopyInv
  <2>3. Leftover' = Leftover
    BY <1>5 DEF UnknownRun, Leftover
  <2>4. Atomic!Ignore(w)
    BY <1>5, <2>1, <2>2, <2>3 DEF UnknownRun, Atomic!Ignore, Leftover, OutcomeOf
  <2> QED BY <2>4 DEF Atomic!Next
<1>6. CASE Replace(w)
  <2>1. OutcomeOf[w] = "pending" /\ OutcomeOf' = [OutcomeOf EXCEPT ![w] = "done"]
    BY <1>0, <1>6, <1>o, GotoOutcome DEF Replace, Labels, Outcome
  <2>2. /\ temp[w] = Effect(cache[w], call[w])
        /\ ~ WritesNothing(cache[w], call[w])
        /\ Reloaded(w) = cache[w]
    BY <1>0, <1>6 DEF Replace, CopyInv
  <2>3. ~ Atomic!Ignored(w) /\ file' = Atomic!Effect(Atomic!Base(w), call[w])
    BY <1>6, <2>2, SameBase, SameEffect DEF Replace
  <2>4. file' \in Documents /\ file' # NoFile
    BY <1>6, <1>t, <2>2, EffectType, StoreAssumption DEF Replace
  <2>5. Leftover' = [v \in Writers |-> Atomic!EmptyDocument]
    BY <2>4 DEF Leftover, EmptyDocument, Atomic!EmptyDocument
  <2>6. Atomic!Apply(w)
    BY <1>6, <2>1, <2>3, <2>5 DEF Replace, Atomic!Apply, Leftover, OutcomeOf
  <2> QED BY <2>6 DEF Atomic!Next
<1>7. CASE Release(w)
  <2>1. OutcomeOf[w] = "done" /\ OutcomeOf' = [OutcomeOf EXCEPT ![w] = "none"]
    BY <1>0, <1>7, <1>o, GotoOutcome DEF Release, Labels, Outcome
  <2>2. Leftover' = Leftover
    BY <1>7 DEF Release, Leftover
  <2>3. Atomic!Return(w)
    BY <1>7, <2>1, <2>2 DEF Release, Atomic!Return, Leftover, OutcomeOf
  <2> QED BY <2>3 DEF Atomic!Next
<1>8. CASE Read(w)
  <2>1. OutcomeOf' = OutcomeOf
    BY <1>8 DEF Read, OutcomeOf
  <2>2. Leftover' = Leftover
    BY <1>0, <1>8, CacheLeftover, <1>o DEF Read, Reloaded, Leftover
  <2> QED BY <1>8, <2>1, <2>2 DEF Read, AbstractVars
<1>9. CASE WriteFails(w)
  <2>1. OutcomeOf[w] = "pending" /\ OutcomeOf' = [OutcomeOf EXCEPT ![w] = "none"]
    BY <1>0, <1>9, <1>o, GotoOutcome DEF WriteFails, Labels, Outcome
  <2>2. temp[w] = Atomic!Effect(cache[w], call[w])
    BY <1>0, <1>9, SameEffect DEF WriteFails, CopyInv
  <2>3. Leftover' = IF file = NoFile THEN [Leftover EXCEPT ![w] = temp[w]]
                                     ELSE Leftover
    BY <1>0, <1>9, CacheLeftover DEF WriteFails
  <2>4. file = NoFile => Leftover[w] = cache[w]
    BY DEF Leftover
  <2>5. Leftover' = IF file = NoFile
                    THEN [Leftover EXCEPT ![w] = Atomic!Effect(@, call[w])]
                    ELSE Leftover
    BY <2>2, <2>3, <2>4
  <2>6. Atomic!Raise(w)
    BY <1>9, <2>1, <2>5 DEF WriteFails, Atomic!Raise, Leftover, OutcomeOf
  <2> QED BY <2>6 DEF Atomic!Next
<1>10. CASE Crash(w)
  <2>1. OutcomeOf' = [OutcomeOf EXCEPT ![w] = "none"]
    BY <1>0, <1>10, GotoOutcome DEF Crash, Labels, Outcome
  <2>2. Leftover' = [Leftover EXCEPT ![w] = Atomic!EmptyDocument]
    <3>1. Leftover' = IF file = NoFile THEN [Leftover EXCEPT ![w] = EmptyDocument]
                                       ELSE Leftover
      BY <1>0, <1>10, CacheLeftover DEF Crash
    <3> QED BY <3>1 DEF Leftover, EmptyDocument, Atomic!EmptyDocument
  <2>3. Atomic!Die(w)
    BY <1>10, <2>1, <2>2 DEF Crash, Atomic!Die, Leftover, OutcomeOf
  <2> QED BY <2>3 DEF Atomic!Next
<1> QED BY <1>1, <1>2, <1>3, <1>4, <1>5, <1>6, <1>7, <1>8, <1>9, <1>10 DEF Step

\* Several processes over one file, with crashes and failed writes, look to
\* their callers like one document that changes in indivisible steps.
THEOREM RefinesAtomic == Spec => ImplementsAtomic
<1>1. IInv /\ [Next]_vars => [Atomic!Next]_(Atomic!vars)
  <2> SUFFICES ASSUME IInv, [Next]_vars
               PROVE  Atomic!Next \/ UNCHANGED AbstractVars
    BY DEF AbstractVars, Atomic!vars, Leftover, OutcomeOf
  <2>1. CASE Next
    BY <2>1, NextRefines
  <2>2. CASE UNCHANGED vars
    BY <2>2 DEF vars, AbstractVars, Leftover, OutcomeOf
  <2> QED BY <2>1, <2>2
<1> QED BY <1>1, InitRefines, Invariance, PTL DEF Spec, ImplementsAtomic, Atomic!Spec
=============================================================================
