------------------------- MODULE PatchValidationProofs -------------------------
(***************************************************************************)
(* Proofs about PatchValidation, for every workspace, every patches and    *)
(* requests, whatever the commands do, and any number of applications,     *)
(* validations, edits and faults.                                          *)
(***************************************************************************)
EXTENDS PatchValidation, InductionFacts, SequenceTheorems

Texts == Seq(Tokens)

-----------------------------------------------------------------------------
(* The hunks of one proposal. *)

\* Tried is the function its recursion describes: approximations of every length
\* exist, each an extension of the one before.
LEMMA TriedIsRecursive ==
  ASSUME NEW q, NEW p, NEW hunks, NEW start, Len(hunks) \in Nat
  PROVE  PA!Tried(q, p, hunks, start) =
           [n \in 0 .. Len(hunks) |->
              IF n = 0 THEN start
              ELSE PA!TryHunk(q, p, PA!Tried(q, p, hunks, start)[n - 1], hunks[n])]
<1> DEFINE Is(f, k) ==
             f = [n \in 0 .. k |-> IF n = 0 THEN start ELSE PA!TryHunk(q, p, f[n - 1], hunks[n])]
           Reached == { k \in Nat : \E f : Is(f, k) }
<1>1. 0 \in Reached
  <2>1. Is([n \in 0 .. 0 |-> start], 0)
    OBVIOUS
  <2> QED BY <2>1
<1>2. ASSUME NEW k \in Nat, k \in Reached PROVE k + 1 \in Reached
  <2>1. PICK f : Is(f, k)
    BY <1>2
  <2> DEFINE g == [n \in 0 .. (k + 1) |->
                     IF n <= k THEN f[n] ELSE PA!TryHunk(q, p, f[k], hunks[k + 1])]
  <2>2. \A n \in 0 .. k : g[n] = f[n]
    OBVIOUS
  <2>3. ASSUME NEW n \in 0 .. (k + 1)
        PROVE  g[n] = IF n = 0 THEN start ELSE PA!TryHunk(q, p, g[n - 1], hunks[n])
    <3>1. CASE n = 0
      BY <2>1, <3>1
    <3>2. CASE n \in 1 .. k
      <4>1. n - 1 \in 0 .. k /\ n \in 0 .. k
        BY <3>2
      <4>2. f[n] = PA!TryHunk(q, p, f[n - 1], hunks[n])
        BY <2>1, <3>2, <4>1
      <4> QED BY <2>2, <3>2, <4>1, <4>2
    <3>3. CASE n = k + 1
      <4>1. k \in 0 .. k /\ n - 1 = k /\ n # 0 /\ ~(n <= k)
        BY <3>3
      <4>2. g[n] = PA!TryHunk(q, p, f[k], hunks[k + 1])
        BY <4>1
      <4> QED BY <2>2, <3>3, <4>1, <4>2
    <3> QED BY <3>1, <3>2, <3>3
  <2>4. Is(g, k + 1)
    <3> DEFINE e(n) == IF n = 0 THEN start ELSE PA!TryHunk(q, p, g[n - 1], hunks[n])
    <3>1. g = [n \in 0 .. (k + 1) |-> g[n]]
      OBVIOUS
    <3>2. \A n \in 0 .. (k + 1) : g[n] = e(n)
      BY <2>3
    <3> HIDE DEF g, e
    <3>3. [n \in 0 .. (k + 1) |-> g[n]] = [n \in 0 .. (k + 1) |-> e(n)]
      BY <3>2, Zenon
    <3>4. g = [n \in 0 .. (k + 1) |-> e(n)]
      BY <3>1, <3>3, Zenon
    <3> QED BY <3>4, Zenon DEF e
  <2>5. \E h : Is(h, k + 1)
    <3> HIDE DEF g
    <3> QED BY <2>4, Zenon
  <2> QED BY <2>5
<1>3. Len(hunks) \in Reached
  <2> HIDE DEF Reached
  <2> QED BY <1>1, <1>2, NatSetInduction
<1> QED BY <1>3 DEF PA!Tried

\* One token is a text.
LEMMA SingleToken ==
  ASSUME NEW S, NEW token \in S
  PROVE  << token >> \in Seq(S)
<1>1. << token >> \in [1 .. 1 -> S]
  OBVIOUS
<1> QED BY <1>1, SeqDef

\* A hunk that applies leaves a text within the limit.
LEMMA HunkText ==
  ASSUME NEW q, NEW p, NEW hunk \in AnyHunk, NEW text \in Texts
  PROVE  LET new == PA!ApplyHunk(q, p, hunk, text) IN
         /\ new \in Texts
         /\ new # PA!NoText => Len(new) <= q.budget.size
<1> DEFINE replaced ==
             [i \in DOMAIN text |-> IF text[i] = hunk.before THEN hunk.snippet ELSE text[i]]
<1>1. PA!NoText \in Texts /\ << hunk.snippet >> \in Texts /\ Append(text, hunk.snippet) \in Texts
  <2>1. hunk.snippet \in Tokens
    BY DEF AnyHunk
  <2>2. Append(text, hunk.snippet) \in Texts
    BY <2>1, AppendProperties DEF Texts
  <2>3. << "no file" >> \in Seq(Tokens)
    BY SingleToken, TextAssumption DEF TextAssumption
  <2>4. << hunk.snippet >> \in Seq(Tokens)
    BY <2>1, SingleToken
  <2> QED BY <2>2, <2>3, <2>4 DEF PA!NoText, Texts
<1>2. replaced \in Texts
  <2>1. DOMAIN text = 1 .. Len(text) /\ Len(text) \in Nat
    BY DEF Texts
  <2>2. replaced \in [1 .. Len(text) -> Tokens]
    BY <2>1 DEF AnyHunk, Texts
  <2> QED BY <2>1, <2>2, SeqDef DEF Texts
<1> HIDE DEF replaced, Texts
<1> QED BY <1>1, <1>2 DEF PA!ApplyHunk, replaced

HunkState == [text : Texts, here : Nat, hunks_applied : Nat, hunks_blocked : Nat]

\* What the hunks of a proposal leave: counts within the budget, and if any was
\* applied, a text within the limit.
HunksDone(q, s) ==
  /\ s \in HunkState
  /\ s.hunks_applied <= q.budget.hunks
  /\ s.here > 0 => s.text # PA!NoText /\ Len(s.text) <= q.budget.size

\* So the hunks of a proposal, tried one after the other, keep to the budget.
LEMMA TriedInBudget ==
  ASSUME NEW q, q.budget \in Budgets, NEW p, NEW hunks \in Seq(AnyHunk), NEW start,
         HunksDone(q, start)
  PROVE  HunksDone(q, PA!Tried(q, p, hunks, start)[Len(hunks)])
<1> DEFINE after == PA!Tried(q, p, hunks, start)
           Fine == { n \in Nat : n <= Len(hunks) => HunksDone(q, after[n]) }
<1>1. Len(hunks) \in Nat /\ \A n \in 1 .. Len(hunks) : hunks[n] \in AnyHunk
  OBVIOUS
<1>2. after = [n \in 0 .. Len(hunks) |->
                 IF n = 0 THEN start ELSE PA!TryHunk(q, p, after[n - 1], hunks[n])]
  BY <1>1, TriedIsRecursive
<1> HIDE DEF after
<1>3. 0 \in Fine
  <2>1. after[0] = start
    BY <1>1, <1>2
  <2> QED BY <2>1
<1>4. ASSUME NEW n \in Nat, n \in Fine PROVE n + 1 \in Fine
  <2>1. SUFFICES ASSUME n + 1 <= Len(hunks) PROVE HunksDone(q, after[n + 1])
    OBVIOUS
  <2> DEFINE s == after[n]
             new == PA!ApplyHunk(q, p, hunks[n + 1], s.text)
  <2>2. HunksDone(q, s) /\ n + 1 \in 1 .. Len(hunks) /\ hunks[n + 1] \in AnyHunk
    BY <1>1, <1>4, <2>1
  <2>3. after[n + 1] = PA!TryHunk(q, p, s, hunks[n + 1])
    <3>1. n + 1 \in 0 .. Len(hunks) /\ n + 1 # 0 /\ (n + 1) - 1 = n
      BY <2>2
    <3> QED BY <1>2, <3>1
  <2>4. new \in Texts /\ (new # PA!NoText => Len(new) <= q.budget.size)
    BY <2>2, HunkText DEF HunksDone, HunkState
  <2> HIDE DEF s, new
  <2>5. HunksDone(q, PA!TryHunk(q, p, s, hunks[n + 1]))
    <3> DEFINE refused == [s EXCEPT !.hunks_blocked = @ + 1]
               applied == [text |-> new, here |-> s.here + 1,
                           hunks_applied |-> s.hunks_applied + 1, hunks_blocked |-> s.hunks_blocked]
               spent == s.hunks_applied + s.hunks_blocked >= q.budget.hunks
    <3>1. HunksDone(q, refused)
      BY <2>2 DEF HunksDone, HunkState
    <3>2. ASSUME ~spent, new # PA!NoText PROVE HunksDone(q, applied)
      <4>1. /\ applied \in HunkState
            /\ applied.text = new /\ applied.hunks_applied = s.hunks_applied + 1
        BY <2>2, <2>4 DEF HunksDone, HunkState
      <4>2. s.hunks_applied + 1 <= q.budget.hunks
        BY <2>2, <3>2 DEF HunksDone, HunkState, Budgets
      <4> QED BY <2>2, <2>4, <3>2, <4>1, <4>2 DEF HunksDone, HunkState
    <3>3. PA!TryHunk(q, p, s, hunks[n + 1]) =
            IF spent \/ hunks[n + 1].bad \/ new = PA!NoText THEN refused ELSE applied
      BY DEF PA!TryHunk, new
    <3> HIDE DEF refused, applied, spent
    <3> QED BY <3>1, <3>2, <3>3, Zenon
  <2> QED BY <2>3, <2>5
<1>5. \A n \in Nat : n \in Fine
  <2> HIDE DEF Fine
  <2> QED BY <1>3, <1>4, NatSetInduction
<1> QED BY <1>1, <1>5 DEF after

-----------------------------------------------------------------------------
(* One proposal. *)

\* Progress within the budget of hunks.
ProgressFine(q, s) ==
  /\ DOMAIN s = {"considered", "applied", "refused", "changes_blocked", "hunks_applied",
                 "hunks_blocked"}
  /\ s.considered \in Nat
  /\ s.hunks_applied \in 0 .. q.budget.hunks
  /\ s.hunks_blocked \in Nat

\* A file is written exactly when it counts as applied, and every file is applied or
\* refused.
ProposalDone(q, s, p, tried) ==
  /\ ProgressFine(q, tried.progress)
  /\ IF tried.write = PA!NoText
     THEN tried.progress.applied = s.applied
     ELSE /\ tried.progress.applied = s.applied \cup {p.file}
          /\ tried.write \in Texts /\ Len(tried.write) <= q.budget.size
  /\ tried.progress.applied \cup tried.progress.refused = s.applied \cup s.refused \cup {p.file}

\* The hunks of a proposal that are tried are hunks, a finite number of them.
LEMMA HunksOfProposal ==
  ASSUME NEW q, q.budget \in Budgets, NEW p \in AnyProposal
  PROVE  PA!Hunks(q, p) \in Seq(AnyHunk) /\ Len(PA!Hunks(q, p)) \in Nat
<1> DEFINE n == IF Len(p.hunks) < q.budget.hunks_per_file
                THEN Len(p.hunks) ELSE q.budget.hunks_per_file
<1>1. p.hunks \in Seq(AnyHunk)
  BY DEF AnyProposal
<1>2. n \in Nat /\ n <= Len(p.hunks)
  BY <1>1 DEF Budgets
<1>3. \A i \in 1 .. n : p.hunks[i] \in AnyHunk
  BY <1>1, <1>2
<1>4. PA!Hunks(q, p) = SubSeq(p.hunks, 1, n)
  BY DEF PA!Hunks
<1> HIDE DEF n
<1>5. SubSeq(p.hunks, 1, n) \in Seq(AnyHunk)
  BY <1>2, <1>3, SubSeqProperties
<1> QED BY <1>4, <1>5

\* Trying a proposal keeps the counts and the text within their bounds.
LEMMA TryProposalDone ==
  ASSUME NEW q, q.budget \in Budgets, NEW p \in AnyProposal, NEW text \in Texts, NEW s,
         ProgressFine(q, s)
  PROVE  ProposalDone(q, s, p, PA!TryProposal(q, s, p, text))
<1> DEFINE tried == PA!TryProposal(q, s, p, text)
           hunks == PA!Hunks(q, p)
<1>0. hunks \in Seq(AnyHunk) /\ Len(hunks) \in Nat
  BY HunksOfProposal
<1>1. CASE s.considered >= q.budget.files
  <2>1. tried = [progress |-> [s EXCEPT !.refused = @ \cup {p.file}, !.changes_blocked = TRUE],
                 write |-> PA!NoText]
    BY <1>1 DEF PA!TryProposal
  <2> DEFINE t == tried.progress
  <2>2. tried.write = PA!NoText
        /\ t = [s EXCEPT !.refused = @ \cup {p.file}, !.changes_blocked = TRUE]
    BY <2>1
  <2> HIDE DEF tried, t
  <2>3. /\ DOMAIN t = DOMAIN s /\ t.applied = s.applied /\ t.considered = s.considered
        /\ t.refused = s.refused \cup {p.file}
        /\ t.hunks_applied = s.hunks_applied /\ t.hunks_blocked = s.hunks_blocked
    BY <2>2 DEF ProgressFine
  <2>4. ProgressFine(q, t)
    BY <2>3 DEF ProgressFine
  <2> QED BY <2>2, <2>3, <2>4 DEF ProposalDone, tried, t
<1>2. CASE ~(s.considered >= q.budget.files) /\ PA!ProposalIssue(q, p)
  <2>1. tried = [progress |-> [s EXCEPT !.considered = @ + 1, !.refused = @ \cup {p.file},
                                !.hunks_blocked = @ + Len(hunks), !.changes_blocked = TRUE],
                 write |-> PA!NoText]
    BY <1>2 DEF PA!TryProposal
  <2> DEFINE t == tried.progress
  <2>2. tried.write = PA!NoText
        /\ t = [s EXCEPT !.considered = @ + 1, !.refused = @ \cup {p.file},
                         !.hunks_blocked = @ + Len(hunks), !.changes_blocked = TRUE]
    BY <2>1
  <2> HIDE DEF tried, hunks, t
  <2>3. /\ DOMAIN t = DOMAIN s /\ t.applied = s.applied
        /\ t.considered = s.considered + 1 /\ t.refused = s.refused \cup {p.file}
        /\ t.hunks_applied = s.hunks_applied
        /\ t.hunks_blocked = s.hunks_blocked + Len(hunks)
    BY <2>2 DEF ProgressFine
  <2>4. ProgressFine(q, t)
    BY <1>0, <2>3 DEF ProgressFine
  <2> QED BY <2>2, <2>3, <2>4 DEF ProposalDone, tried, t
<1>3. CASE ~(s.considered >= q.budget.files) /\ ~PA!ProposalIssue(q, p)
  <2> DEFINE start == [text |-> text, here |-> 0, hunks_applied |-> s.hunks_applied,
                       hunks_blocked |-> s.hunks_blocked]
             after == PA!Tried(q, p, hunks, start)[Len(hunks)]
             changed == s.changes_blocked \/ after.hunks_blocked > s.hunks_blocked
  <2>1. tried = [progress |->
                   [considered |-> s.considered + 1,
                    applied |-> s.applied \cup (IF after.here > 0 THEN {p.file} ELSE {}),
                    refused |-> s.refused \cup (IF after.here > 0 THEN {} ELSE {p.file}),
                    changes_blocked |-> changed,
                    hunks_applied |-> after.hunks_applied,
                    hunks_blocked |-> after.hunks_blocked],
                 write |-> IF after.here > 0 THEN after.text ELSE PA!NoText]
    BY <1>3 DEF PA!TryProposal
  <2>2. HunksDone(q, start)
    BY DEF HunksDone, HunkState, ProgressFine, Budgets
  <2>3. HunksDone(q, after)
    <3> HIDE DEF start, hunks
    <3> QED BY <1>0, <2>2, TriedInBudget
  <2> DEFINE t == tried.progress
  <2> HIDE DEF after, changed
  <2>4. /\ DOMAIN t = {"considered", "applied", "refused", "changes_blocked", "hunks_applied",
                       "hunks_blocked"}
        /\ t.considered = s.considered + 1
        /\ t.applied = s.applied \cup (IF after.here > 0 THEN {p.file} ELSE {})
        /\ t.refused = s.refused \cup (IF after.here > 0 THEN {} ELSE {p.file})
        /\ t.hunks_applied = after.hunks_applied /\ t.hunks_blocked = after.hunks_blocked
        /\ tried.write = IF after.here > 0 THEN after.text ELSE PA!NoText
    <3> HIDE DEF tried
    <3> QED BY <2>1
  <2> HIDE DEF tried, t
  <2>5. ProgressFine(q, t)
    BY <2>3, <2>4 DEF ProgressFine, HunksDone, HunkState, Budgets
  <2>6. t.applied \cup t.refused = s.applied \cup s.refused \cup {p.file}
    BY <2>4
  <2>7. IF tried.write = PA!NoText
        THEN t.applied = s.applied
        ELSE /\ t.applied = s.applied \cup {p.file}
             /\ tried.write \in Texts /\ Len(tried.write) <= q.budget.size
    BY <2>3, <2>4 DEF HunksDone, HunkState
  <2> QED BY <2>5, <2>6, <2>7 DEF ProposalDone, tried, t
<1> QED BY <1>1, <1>2, <1>3

-----------------------------------------------------------------------------
(* The invariant: one part for the applier, one for the loop, one for each of their *)
(* results, and the bounds.                                                         *)

Counters == {"applies", "validations", "edits", "faults"}

CountsInv ==
  /\ counts \in [Counters -> Nat]
  /\ \A what \in Counters : counts[what] <= Bound[what]

DiskInv ==
  /\ disk \in [Files -> Texts]
  /\ FilesStayInSize

Named(proposals) == {p.file : p \in Range(proposals)}

\* At work, the files written are those that count as applied, and of the files of
\* the proposals each is applied, refused or still to come.
ApplyInv ==
  /\ written \subseteq Files
  /\ work.at = "apply" =>
       /\ DOMAIN work = {"at", "q", "proposals", "rest", "progress"}
       /\ work.q \in ApplyRequests
       /\ work.rest \in Seq(AnyProposal)
       /\ ProgressFine(work.q, work.progress)
       /\ work.q.mode = "act" => written = work.progress.applied
       /\ \/ PA!GlobalBlocked(work.q)
          \/ Named(work.proposals) =
               work.progress.applied \cup work.progress.refused \cup Named(work.rest)

\* A result that refused no file and is no failure applied all it was asked for.
PatchInv ==
  patch.files_blocked = {} /\ (patch.given => patch.success)
    => patch.files = patch.files_requested

\* What the loop has recorded: a process that did not pass leaves it failed.
AnyResult ==
  { PV!Skipped(c) : c \in Commands } \cup
  { PV!RunnerResult(r, c, outcome) :
      r \in { PV!RunnerRequest(PV!LoopRequest(q)) : q \in ValidationRequests },
      c \in Commands, outcome \in Outcomes }

\* What a process may have done that the loop does not call a failure.
Harmless == {"passed", "leaked_past"}

Dry(r) == PV!RunnerRequest(r).runner = "dry_run"

\* A dry run starts nothing; of a loop that has not failed otherwise, every command
\* so far has a process.
Covered(r, loop, all) ==
  /\ Dry(r) => \A i \in DOMAIN loop.results : ~loop.results[i].executed
  /\ ~loop.failed => ~loop.stopped
  /\ ~loop.failed /\ ~Dry(r) =>
       \A i \in DOMAIN loop.results : \E run \in all : run[1] = PV!Planned(r)[i]

LoopInv ==
  work.at = "loop" =>
    /\ DOMAIN work = {"at", "q", "r", "loop", "ran"}
    /\ work.q \in ValidationRequests /\ work.r = PV!LoopRequest(work.q)
    /\ DOMAIN work.loop = DOMAIN PV!Begun
    /\ work.loop.results \in Seq(AnyResult)
    /\ Len(work.loop.results) <= Len(PV!Planned(work.r))
    /\ work.ran \subseteq Commands \X Outcomes
    /\ (\E run \in work.ran : run[2] \notin Harmless) => work.loop.failed
    /\ Covered(work.r, work.loop, work.ran)

\* A validation that passed has only harmless processes behind it, and one of each
\* command if it has any.
RanInv ==
  /\ ran \subseteq Commands \X Outcomes /\ owed \subseteq Commands
  /\ (\E run \in ran : run[2] \notin Harmless) => ~validation.success
  /\ validation.success /\ validation.executed > 0 =>
       \A c \in owed : \E run \in ran : run[1] = c

WorkInv == work = Idle \/ work.at \in {"apply", "loop"}

Inv == CountsInv /\ DiskInv /\ ApplyInv /\ PatchInv /\ LoopInv /\ RanInv /\ WorkInv

-----------------------------------------------------------------------------
(* Facts the steps rest on. *)

\* Counting adds one, within its bound.
LEMMA Counted ==
  ASSUME CountsInv, NEW what \in Counters, Count(what)
  PROVE  /\ CountsInv'
         /\ counts'[what] = counts[what] + 1
         /\ \A other \in Counters \ {what} : counts'[other] = counts[other]
<1>1. Bound[what] \in Nat
  BY BoundAssumption DEF Bound, Counters, BoundAssumption
<1> QED BY <1>1 DEF CountsInv, Count, Counters, Bound

\* The files patches name are that of the first and those of the rest.
LEMMA NamedTail ==
  ASSUME NEW proposals \in Seq(AnyProposal), proposals # << >>
  PROVE  Named(proposals) = {Head(proposals).file} \cup Named(Tail(proposals))
<1>1. /\ Head(proposals) = proposals[1]
      /\ Tail(proposals) \in Seq(AnyProposal) /\ Len(Tail(proposals)) = Len(proposals) - 1
      /\ \A i \in 1 .. Len(Tail(proposals)) : Tail(proposals)[i] = proposals[i + 1]
  BY HeadTailProperties
<1>2. /\ Len(proposals) \in Nat \ {0}
      /\ DOMAIN proposals = 1 .. Len(proposals)
      /\ DOMAIN Tail(proposals) = 1 .. Len(Tail(proposals))
  BY <1>1
<1>3. \A i \in DOMAIN proposals : i = 1 \/ i - 1 \in DOMAIN Tail(proposals)
  BY <1>1, <1>2
<1>4. \A i \in DOMAIN proposals : i # 1 => proposals[i] = Tail(proposals)[i - 1]
  BY <1>1, <1>2, <1>3
<1>5. \A i \in DOMAIN Tail(proposals) :
        i + 1 \in DOMAIN proposals /\ Tail(proposals)[i] = proposals[i + 1]
  BY <1>1, <1>2
<1>6. Range(proposals) = {Head(proposals)} \cup Range(Tail(proposals))
  <2>1. ASSUME NEW x \in Range(proposals) PROVE x \in {Head(proposals)} \cup Range(Tail(proposals))
    BY <1>1, <1>3, <1>4 DEF Range
  <2>2. Head(proposals) \in Range(proposals)
    BY <1>1, <1>2 DEF Range
  <2>3. ASSUME NEW x \in Range(Tail(proposals)) PROVE x \in Range(proposals)
    BY <1>5 DEF Range
  <2> QED BY <2>1, <2>2, <2>3
<1> QED BY <1>6 DEF Named

\* A sequence that is cut is a sequence of the same items.
LEMMA Cut ==
  ASSUME NEW S, NEW s \in Seq(S), NEW n \in Int
  PROVE  SubSeq(s, 1, IF Len(s) < n THEN Len(s) ELSE n) \in Seq(S)
<1> DEFINE m == IF Len(s) < n THEN Len(s) ELSE n
<1>1. m \in Int /\ \A i \in 1 .. m : s[i] \in S
  OBVIOUS
<1> HIDE DEF m
<1>2. SubSeq(s, 1, m) \in Seq(S)
  BY <1>1, SubSeqProperties
<1> QED BY <1>2 DEF m

\* The loop's commands are those of the request, cut.
LEMMA PlannedCommands ==
  ASSUME NEW q \in ValidationRequests
  PROVE  PV!Planned(PV!LoopRequest(q)) \in Seq(Commands)
<1> DEFINE r == PV!LoopRequest(q)
<1>1. q.commands \in Seq(Commands) /\ q.max \in Int /\ CommandLimit \in Int
  BY RequestAssumption, BoundAssumption DEF RequestAssumption, BoundAssumption
<1>2. PV!ValidationCommands(q) \in Seq(Commands)
  BY <1>1, Cut DEF PV!ValidationCommands
<1>3. r.commands = PV!ValidationCommands(q) /\ r.max = q.max
  BY DEF PV!LoopRequest
<1> HIDE DEF r
<1>4. PV!MaxCommands(r) \in Int
  BY <1>1, <1>3 DEF PV!MaxCommands
<1> QED BY <1>2, <1>3, <1>4, Cut DEF PV!Planned, r

\* What a command adds to a loop in progress.
LEMMA CommandDone ==
  ASSUME NEW r, NEW loop, DOMAIN loop = DOMAIN PV!Begun, NEW c, NEW result
  PROVE  LET next == PV!AfterCommand(r, loop, c, result) IN
         /\ DOMAIN next = DOMAIN PV!Begun
         /\ next.results = Append(loop.results, result)
         /\ loop.failed => next.failed
         /\ PV!Classified(c, result) # "none" => next.failed
         /\ ~next.failed => ~next.stopped
BY DEF PV!AfterCommand, PV!Begun

\* A command the loop refuses is recorded, and leaves the loop failed.
LEMMA UnplannedDone ==
  ASSUME NEW r, NEW loop, DOMAIN loop = DOMAIN PV!Begun, NEW c
  PROVE  LET next == PV!AfterUnplanned(r, loop, c) IN
         /\ DOMAIN next = DOMAIN PV!Begun
         /\ next.results = Append(loop.results, PV!Skipped(c))
         /\ next.failed = TRUE
BY DEF PV!AfterUnplanned, PV!Begun

\* A process that was started and did not pass is classified as a failure.
LEMMA FailureIsClassified ==
  ASSUME NEW r, NEW c, NEW outcome \in Outcomes, PV!Runs(r, c), outcome \notin Harmless
  PROVE  PV!Classified(c, PV!RunnerResult(r, c, outcome)) # "none"
<1> DEFINE result == PV!RunnerResult(r, c, outcome)
<1>1. CASE outcome = "leaked"
  <2>1. result.redacted
    BY <1>1 DEF PV!RunnerResult
  <2> QED BY <2>1 DEF PV!Classified
<1>2. CASE outcome = "timed_out"
  <2>1. result.timed_out
    BY <1>2 DEF PV!RunnerResult
  <2> QED BY <2>1 DEF PV!Classified
<1>3. CASE outcome = "failed"
  <2>1. result.exit = "failed"
    BY <1>3 DEF PV!RunnerResult
  <2>2. Traits[c] \cap PV!Kinds # {} => (CHOOSE k \in PV!Kinds : PV!Has(c, k)) \in PV!Kinds
    BY DEF PV!Has
  <2> QED BY <2>1, <2>2 DEF PV!Classified, PV!Kinds
<1> QED BY <1>1, <1>2, <1>3 DEF Outcomes, Harmless

\* Outside a dry run, a command that is no failure was run; in one, none is.
LEMMA CleanIsRun ==
  ASSUME NEW r, NEW c, NEW outcome
  PROVE  LET result == PV!RunnerResult(r, c, outcome) IN
         /\ PV!Classified(c, result) = "none" /\ r.runner # "dry_run" => PV!Runs(r, c)
         /\ r.runner = "dry_run" => ~result.executed
<1> DEFINE result == PV!RunnerResult(r, c, outcome)
<1>1. result.executed = PV!Runs(r, c) /\ result.blocked = PV!RunnerBlocked(r, c)
  BY DEF PV!RunnerResult
<1> HIDE DEF result
<1>2. PV!Classified(c, result) = "none" => ~result.blocked
  BY DEF PV!Classified
<1>3. ~PV!RunnerBlocked(r, c) => r.runner \in {"dry_run", "sandbox_readonly"}
  BY DEF PV!RunnerBlocked
<1>4. PV!Runs(r, c) <=> ~PV!RunnerBlocked(r, c) /\ r.runner = "sandbox_readonly"
  BY DEF PV!Runs
<1> QED BY <1>1, <1>2, <1>3, <1>4 DEF result

-----------------------------------------------------------------------------
(* Every step keeps the invariant. *)

\* The invariant holds at first, and every action keeps it.
LEMMA Initially == Init => Inv
<1> SUFFICES ASSUME Init PROVE Inv
  OBVIOUS
<1>1. CountsInv
  BY BoundAssumption DEF Init, CountsInv, Counters, Bound, BoundAssumption
<1>2. DiskInv
  <2>1. disk = Text /\ counts["edits"] \in Nat
    BY <1>1 DEF Init, CountsInv, Counters
  <2>2. disk \in [Files -> Texts] /\ \A f \in Files : Len(disk[f]) <= MaxText
    BY <2>1, TextAssumption DEF TextAssumption, Texts
  <2>3. \A f \in Files : Len(disk[f]) \in Nat
    BY <2>2 DEF Texts
  <2> QED
    BY <2>1, <2>2, <2>3, BoundAssumption DEF DiskInv, FilesStayInSize, BoundAssumption
<1>3. work.at = "idle" /\ written = {} /\ ran = {} /\ owed = {}
  BY DEF Init, Idle
<1>4. ApplyInv /\ LoopInv /\ WorkInv /\ RanInv
  BY <1>3 DEF Init, ApplyInv, LoopInv, WorkInv, RanInv
<1>5. PatchInv
  BY DEF Init, PatchInv, PA!NoResult
<1> QED BY <1>1, <1>2, <1>4, <1>5 DEF Inv

LEMMA StartApplyKeeps == Inv /\ StartApply => Inv'
<1> SUFFICES ASSUME Inv, StartApply PROVE Inv'
  OBVIOUS
<1>1. CountsInv' /\ counts'["edits"] = counts["edits"]
  BY Counted DEF Inv, StartApply, Counters
<1>2. PICK q \in ApplyRequests : \E proposals \in Patches :
        work' = [at |-> "apply", q |-> q, proposals |-> proposals,
                 rest |-> IF PA!GlobalBlocked(q) THEN << >> ELSE proposals,
                 progress |-> PA!Begun]
  BY DEF StartApply
<1>3. PICK proposals \in Patches :
        work' = [at |-> "apply", q |-> q, proposals |-> proposals,
                 rest |-> IF PA!GlobalBlocked(q) THEN << >> ELSE proposals,
                 progress |-> PA!Begun]
  BY <1>2
<1>4. DiskInv'
  BY <1>1 DEF Inv, DiskInv, FilesStayInSize, StartApply
<1>5. ApplyInv'
  <2>1. q.budget \in Budgets /\ proposals \in Seq(AnyProposal)
    BY RequestAssumption DEF RequestAssumption
  <2>2. ProgressFine(q, PA!Begun)
    BY <2>1 DEF ProgressFine, PA!Begun, Budgets
  <2>3. work'.rest \in Seq(AnyProposal)
    BY <1>3, <2>1
  <2>4. PA!Begun.applied = {} /\ PA!Begun.refused = {}
    BY DEF PA!Begun
  <2>5. PA!GlobalBlocked(q) \/ Named(proposals) = {} \cup {} \cup Named(work'.rest)
    BY <1>3
  <2>6. /\ DOMAIN work' = {"at", "q", "proposals", "rest", "progress"}
        /\ work'.q = q /\ work'.proposals = proposals /\ work'.progress = PA!Begun
        /\ written' = {}
    BY <1>3 DEF StartApply
  <2> QED BY <2>2, <2>3, <2>4, <2>5, <2>6 DEF ApplyInv
<1>6. work'.at = "apply"
  BY <1>3
<1>7. LoopInv' /\ WorkInv' /\ RanInv' /\ PatchInv'
  BY <1>6 DEF Inv, LoopInv, WorkInv, RanInv, PatchInv, StartApply
<1> QED BY <1>1, <1>4, <1>5, <1>7 DEF Inv

LEMMA ApplyNextKeeps == Inv /\ ApplyNext => Inv'
<1> SUFFICES ASSUME Inv, ApplyNext PROVE Inv'
  OBVIOUS
<1> DEFINE p == Head(work.rest)
           tried == PA!TryProposal(work.q, work.progress, p, disk[p.file])
           writes == work.q.mode = "act" /\ tried.write # PA!NoText
<1>1. /\ work.at = "apply" /\ work.rest # << >>
      /\ disk' = IF writes THEN [disk EXCEPT ![p.file] = tried.write] ELSE disk
      /\ written' = IF writes THEN written \cup {p.file} ELSE written
      /\ work' = [work EXCEPT !.rest = Tail(@), !.progress = tried.progress]
      /\ UNCHANGED << patch, validation, ran, owed, counts >>
  BY DEF ApplyNext
<1>2. /\ DOMAIN work = {"at", "q", "proposals", "rest", "progress"}
      /\ work.q \in ApplyRequests /\ work.q.budget \in Budgets
      /\ work.rest \in Seq(AnyProposal)
      /\ ProgressFine(work.q, work.progress)
  BY <1>1, RequestAssumption DEF Inv, ApplyInv, RequestAssumption
<1>3. p \in AnyProposal /\ Tail(work.rest) \in Seq(AnyProposal) /\ p.file \in Files
  <2>1. p \in AnyProposal /\ Tail(work.rest) \in Seq(AnyProposal)
    BY <1>1, <1>2, HeadTailProperties
  <2> HIDE DEF p
  <2> QED BY <2>1 DEF AnyProposal
<1>4. disk \in [Files -> Texts] /\ disk[p.file] \in Texts
  BY <1>3 DEF Inv, DiskInv
<1>5. ProposalDone(work.q, work.progress, p, tried)
  <2> HIDE DEF p
  <2> QED BY <1>2, <1>3, <1>4, TryProposalDone
<1> HIDE DEF tried, p
<1>6. /\ DOMAIN work' = DOMAIN work /\ work'.at = "apply" /\ work'.q = work.q
      /\ work'.proposals = work.proposals
      /\ work'.rest = Tail(work.rest) /\ work'.progress = tried.progress
  BY <1>1, <1>2
<1>7. CountsInv'
  BY <1>1 DEF Inv, CountsInv
<1>8. DiskInv'
  <2>1. CASE writes
    <3>1. tried.write \in Texts /\ Len(tried.write) <= MaxText
      BY <1>2, <1>5, <2>1 DEF ProposalDone, Budgets
    <3>2. Len(tried.write) \in Nat /\ counts["edits"] \in Nat
      BY <3>1 DEF Texts, Inv, CountsInv, Counters
    <3>3. disk' = [disk EXCEPT ![p.file] = tried.write] /\ counts' = counts
      BY <1>1, <2>1
    <3>4. Len(tried.write) <= MaxText + counts["edits"]
      BY <3>1, <3>2, BoundAssumption DEF BoundAssumption
    <3> QED BY <1>3, <1>4, <3>1, <3>3, <3>4 DEF Inv, DiskInv, FilesStayInSize
  <2>2. CASE ~writes
    BY <1>1, <2>2 DEF Inv, DiskInv, FilesStayInSize
  <2> QED BY <2>1, <2>2
<1>9. ApplyInv'
  <2>1. written' \subseteq Files
    BY <1>1, <1>3 DEF Inv, ApplyInv
  <2>2. ProgressFine(work'.q, work'.progress)
    BY <1>5, <1>6 DEF ProposalDone
  <2>3. work'.q.mode = "act" => written' = work'.progress.applied
    <3>1. SUFFICES ASSUME work.q.mode = "act" PROVE written' = tried.progress.applied
      BY <1>6
    <3>2. written = work.progress.applied
      BY <1>1, <3>1 DEF Inv, ApplyInv
    <3>3. CASE tried.write = PA!NoText
      BY <1>1, <1>5, <3>2, <3>3 DEF ProposalDone
    <3>4. CASE tried.write # PA!NoText
      BY <1>1, <1>5, <3>1, <3>2, <3>4 DEF ProposalDone
    <3> QED BY <3>3, <3>4
  <2>4. PA!GlobalBlocked(work'.q)
        \/ Named(work'.proposals) =
             work'.progress.applied \cup work'.progress.refused \cup Named(work'.rest)
    <3>1. SUFFICES ASSUME ~PA!GlobalBlocked(work.q)
                   PROVE  Named(work.proposals) =
                            tried.progress.applied \cup tried.progress.refused
                              \cup Named(Tail(work.rest))
      BY <1>6
    <3>2. Named(work.proposals) =
            work.progress.applied \cup work.progress.refused \cup Named(work.rest)
      BY <1>1, <3>1 DEF Inv, ApplyInv
    <3>3. Named(work.rest) = {p.file} \cup Named(Tail(work.rest))
      BY <1>1, <1>2, NamedTail DEF p
    <3>4. tried.progress.applied \cup tried.progress.refused =
            work.progress.applied \cup work.progress.refused \cup {p.file}
      BY <1>5 DEF ProposalDone
    <3> QED BY <3>2, <3>3, <3>4
  <2> QED BY <1>2, <1>3, <1>6, <2>1, <2>2, <2>3, <2>4 DEF ApplyInv
<1>10. LoopInv' /\ WorkInv' /\ RanInv' /\ PatchInv'
  BY <1>1, <1>6 DEF Inv, LoopInv, WorkInv, RanInv, PatchInv
<1> QED BY <1>7, <1>8, <1>9, <1>10 DEF Inv

LEMMA FinishApplyKeeps == Inv /\ FinishApply => Inv'
<1> SUFFICES ASSUME Inv, FinishApply PROVE Inv'
  OBVIOUS
<1>1. /\ work.at = "apply" /\ work.rest = << >>
      /\ patch' = PA!Result(work.q, work.progress, Range(work.proposals))
      /\ work' = Idle
      /\ UNCHANGED << disk, validation, written, ran, owed, counts >>
  BY DEF FinishApply
<1>2. CountsInv' /\ DiskInv' /\ RanInv' /\ WorkInv'
  BY <1>1 DEF Inv, CountsInv, DiskInv, FilesStayInSize, RanInv, WorkInv, Idle
<1>3. work'.at = "idle"
  BY <1>1 DEF Idle
<1>4. ApplyInv' /\ LoopInv'
  BY <1>1, <1>3 DEF Inv, ApplyInv, LoopInv
<1>5. PatchInv'
  <2>1. SUFFICES ASSUME patch'.files_blocked = {}, patch'.given => patch'.success
                 PROVE  patch'.files = patch'.files_requested
    BY DEF PatchInv
  <2>2. /\ patch'.files = work.progress.applied /\ patch'.files_blocked = work.progress.refused
        /\ patch'.files_requested = Named(work.proposals)
    BY <1>1 DEF PA!Result, Named
  <2>3. ~PA!GlobalBlocked(work.q)
    BY <1>1, <2>1 DEF PA!Result
  <2>4. Named(work.proposals) =
          work.progress.applied \cup work.progress.refused \cup Named(<< >>)
    BY <1>1, <2>3 DEF Inv, ApplyInv
  <2>5. Named(<< >>) = {}
    BY DEF Named, Range
  <2> QED BY <2>1, <2>2, <2>4, <2>5
<1> QED BY <1>2, <1>4, <1>5 DEF Inv

LEMMA StartValidationKeeps == Inv /\ StartValidation => Inv'
<1> SUFFICES ASSUME Inv, StartValidation PROVE Inv'
  OBVIOUS
<1>1. CountsInv' /\ counts'["edits"] = counts["edits"]
  BY Counted DEF Inv, StartValidation, Counters
<1>2. UNCHANGED << disk, patch, written >> /\ work = Idle
  BY DEF StartValidation
<1>3. DiskInv' /\ PatchInv' /\ written' \subseteq Files
  BY <1>1, <1>2 DEF Inv, DiskInv, FilesStayInSize, PatchInv, ApplyInv
<1>4. PICK q \in ValidationRequests :
        LET r == PV!LoopRequest(q) IN
        IF PV!RunsLoop(q, patch) /\ ~PV!BaseBlocked(r)
        THEN /\ work' = [at |-> "loop", q |-> q, r |-> r, loop |-> PV!Begun, ran |-> {}]
             /\ UNCHANGED << validation, ran, owed >>
        ELSE /\ validation' = PV!Result(q, patch, IF PV!RunsLoop(q, patch)
                                                  THEN PV!BlockedResult(r) ELSE PV!NoLoop)
             /\ ran' = {} /\ owed' = {}
             /\ UNCHANGED work
  BY DEF StartValidation
<1>5. CASE PV!RunsLoop(q, patch) /\ ~PV!BaseBlocked(PV!LoopRequest(q))
  <2> DEFINE r == PV!LoopRequest(q)
  <2>1. /\ work' = [at |-> "loop", q |-> q, r |-> r, loop |-> PV!Begun, ran |-> {}]
        /\ UNCHANGED << validation, ran, owed >>
    BY <1>4, <1>5
  <2>2. PV!Begun.results = << >> /\ ~PV!Begun.stopped
    BY DEF PV!Begun
  <2>3. Len(PV!Planned(r)) \in Nat
    BY PlannedCommands
  <2> HIDE DEF r
  <2>4. /\ work'.at = "loop" /\ DOMAIN work' = {"at", "q", "r", "loop", "ran"}
        /\ work'.q = q /\ work'.r = r /\ work'.loop = PV!Begun /\ work'.ran = {}
    BY <2>1
  <2>5. /\ PV!Begun.results \in Seq(AnyResult) /\ Len(PV!Begun.results) = 0
        /\ ~(\E run \in {} : run[2] \notin Harmless)
        /\ DOMAIN PV!Begun.results = {} /\ ~PV!Begun.stopped
    BY <2>2
  <2>6. r = PV!LoopRequest(q)
    BY DEF r
  <2> HIDE DEF r
  <2>7. LoopInv'
    <3>1. Covered(r, PV!Begun, {})
      BY <2>5 DEF Covered
    <3> QED BY <2>3, <2>4, <2>5, <2>6, <3>1 DEF LoopInv
  <2> QED BY <1>1, <1>3, <2>1, <2>4, <2>7 DEF Inv, ApplyInv, RanInv, WorkInv
<1>6. CASE ~(PV!RunsLoop(q, patch) /\ ~PV!BaseBlocked(PV!LoopRequest(q)))
  <2>1. ran' = {} /\ owed' = {} /\ work' = Idle
    BY <1>2, <1>4, <1>6
  <2>2. work'.at = "idle"
    BY <2>1 DEF Idle
  <2> QED BY <1>1, <1>3, <2>1, <2>2 DEF Inv, ApplyInv, LoopInv, RanInv, WorkInv
<1> QED BY <1>5, <1>6

\* What LoopInv says of a loop in progress.
LEMMA AtLoop ==
  ASSUME Inv, work.at = "loop"
  PROVE  /\ DOMAIN work = {"at", "q", "r", "loop", "ran"}
         /\ work.q \in ValidationRequests /\ work.r = PV!LoopRequest(work.q)
         /\ DOMAIN work.loop = DOMAIN PV!Begun
         /\ work.loop.results \in Seq(AnyResult)
         /\ Len(work.loop.results) <= Len(PV!Planned(work.r))
         /\ work.ran \subseteq Commands \X Outcomes
         /\ (\E run \in work.ran : run[2] \notin Harmless) => work.loop.failed
         /\ Covered(work.r, work.loop, work.ran)
BY DEF Inv, LoopInv

\* It is enough that the loop grows by one result and says when it failed.
LEMMA LoopGrows ==
  ASSUME Inv, work.at = "loop",
         UNCHANGED << disk, patch, validation, written, ran, owed, counts >>,
         Len(work.loop.results) < Len(PV!Planned(work.r)),
         NEW loop, NEW all, NEW result \in AnyResult,
         DOMAIN work' = DOMAIN work, work'.at = "loop", work'.q = work.q, work'.r = work.r,
         work'.loop = loop, work'.ran = all,
         DOMAIN loop = DOMAIN PV!Begun,
         loop.results = Append(work.loop.results, result),
         work.loop.failed => loop.failed,
         work.ran \subseteq all,
         \A run \in all : run \in work.ran
                          \/ /\ run \in Commands \X Outcomes
                             /\ run[2] \notin Harmless => loop.failed,
         Dry(work.r) => ~result.executed,
         ~loop.failed => ~loop.stopped,
         ~loop.failed /\ ~Dry(work.r) =>
           \E run \in all : run[1] = PV!Planned(work.r)[Len(work.loop.results) + 1]
  PROVE  Inv'
<1>1. CountsInv' /\ DiskInv' /\ PatchInv' /\ RanInv' /\ written' \subseteq Files
  BY DEF Inv, CountsInv, DiskInv, FilesStayInSize, PatchInv, RanInv, ApplyInv
<1>2. /\ DOMAIN work = {"at", "q", "r", "loop", "ran"}
      /\ work.q \in ValidationRequests /\ work.r = PV!LoopRequest(work.q)
      /\ work.loop.results \in Seq(AnyResult)
      /\ work.ran \subseteq Commands \X Outcomes
      /\ (\E run \in work.ran : run[2] \notin Harmless) => work.loop.failed
      /\ Covered(work.r, work.loop, work.ran)
  BY AtLoop
<1>3. loop.results \in Seq(AnyResult) /\ Len(loop.results) = Len(work.loop.results) + 1
  BY <1>2, AppendProperties
<1>4. Len(PV!Planned(work.r)) \in Nat /\ Len(work.loop.results) \in Nat
  BY <1>2, PlannedCommands
<1>5. Len(loop.results) <= Len(PV!Planned(work.r))
  BY <1>3, <1>4
<1>6. all \subseteq Commands \X Outcomes
  BY <1>2
<1>7. (\E run \in all : run[2] \notin Harmless) => loop.failed
  BY <1>2
<1>8. LoopInv'
  <2> DEFINE n == Len(work.loop.results)
  <2>1. \A i \in DOMAIN loop.results :
          \/ i \in DOMAIN work.loop.results /\ loop.results[i] = work.loop.results[i]
          \/ i = n + 1 /\ loop.results[i] = result
    BY <1>2, <1>3, AppendProperties
  <2> HIDE DEF n
  <2>2. Dry(work.r) => \A i \in DOMAIN loop.results : ~loop.results[i].executed
    BY <1>2, <2>1 DEF Covered
  <2>3. ~loop.failed /\ ~Dry(work.r) =>
          \A i \in DOMAIN loop.results : \E run \in all : run[1] = PV!Planned(work.r)[i]
    BY <1>2, <2>1 DEF Covered, n
  <2>4. Covered(work.r, loop, all)
    BY <2>2, <2>3 DEF Covered
  <2> QED BY <1>2, <1>3, <1>5, <1>6, <1>7, <2>4 DEF LoopInv
<1>9. ApplyInv' /\ WorkInv'
  BY <1>1 DEF ApplyInv, WorkInv
<1> QED BY <1>1, <1>8, <1>9 DEF Inv

LEMMA RunNextKeeps == Inv /\ RunNext => Inv'
<1> SUFFICES ASSUME Inv, RunNext PROVE Inv'
  OBVIOUS
<1> DEFINE c == PV!Planned(work.r)[Len(work.loop.results) + 1]
           request == PV!RunnerRequest(work.r)
<1>1. /\ work.at = "loop" /\ ~PV!Done(work.r, work.loop)
      /\ UNCHANGED << disk, patch, validation, written, ran, owed, counts >>
  BY DEF RunNext
<1>2. /\ DOMAIN work = {"at", "q", "r", "loop", "ran"}
      /\ work.q \in ValidationRequests /\ work.r = PV!LoopRequest(work.q)
      /\ DOMAIN work.loop = DOMAIN PV!Begun
      /\ work.loop.results \in Seq(AnyResult)
      /\ Len(work.loop.results) <= Len(PV!Planned(work.r))
  BY <1>1, AtLoop
<1>3. c \in Commands /\ Len(work.loop.results) < Len(PV!Planned(work.r))
  <2>1. PV!Planned(work.r) \in Seq(Commands)
    BY <1>2, PlannedCommands
  <2>2. Len(work.loop.results) # Len(PV!Planned(work.r))
    BY <1>1 DEF PV!Done
  <2>3. Len(work.loop.results) \in Nat /\ Len(PV!Planned(work.r)) \in Nat
    BY <1>2, <2>1
  <2>4. Len(work.loop.results) + 1 \in 1 .. Len(PV!Planned(work.r))
    BY <1>2, <2>2, <2>3
  <2> QED BY <2>1, <2>3, <2>4
<1>4. CASE PV!PlanningError(c)
  <2> DEFINE loop == PV!AfterUnplanned(work.r, work.loop, c)
             result == PV!Skipped(c)
  <2>1. work' = [work EXCEPT !.loop = loop]
    BY <1>4 DEF RunNext
  <2>2. /\ DOMAIN loop = DOMAIN PV!Begun
        /\ loop.results = Append(work.loop.results, result)
        /\ loop.failed = TRUE
    <3> HIDE DEF c
    <3> QED BY <1>2, UnplannedDone
  <2>3. result \in AnyResult
    <3> HIDE DEF c
    <3> QED BY <1>3 DEF AnyResult
  <2>6. ~result.executed
    BY DEF PV!Skipped
  <2> HIDE DEF loop, result, c
  <2>4. /\ DOMAIN work' = DOMAIN work /\ work'.at = "loop" /\ work'.q = work.q
        /\ work'.r = work.r /\ work'.loop = loop /\ work'.ran = work.ran
    BY <1>1, <1>2, <2>1
  <2>5. \A run \in work.ran : run \in work.ran
    OBVIOUS
  <2> QED BY <1>1, <1>3, <2>2, <2>3, <2>4, <2>5, <2>6, LoopGrows
<1>5. CASE ~PV!PlanningError(c)
  <2>1. PICK outcome \in Outcomes :
          work' = [work EXCEPT
            !.loop = PV!AfterCommand(work.r, work.loop, c, PV!RunnerResult(request, c, outcome)),
            !.ran = IF PV!Runs(request, c) THEN work.ran \cup {<< c, outcome >>} ELSE work.ran]
    BY <1>5 DEF RunNext, Outcomes
  <2> DEFINE result == PV!RunnerResult(request, c, outcome)
             loop == PV!AfterCommand(work.r, work.loop, c, result)
             all == IF PV!Runs(request, c) THEN work.ran \cup {<< c, outcome >>} ELSE work.ran
  <2>2. work' = [work EXCEPT !.loop = loop, !.ran = all]
    BY <2>1
  <2>3. result \in AnyResult
    <3> HIDE DEF c
    <3> QED BY <1>2, <1>3 DEF AnyResult
  <2>4. ASSUME PV!Runs(request, c)
        PROVE  /\ << c, outcome >> \in Commands \X Outcomes
               /\ outcome \notin Harmless => PV!Classified(c, result) # "none"
    <3> HIDE DEF c, request
    <3>1. << c, outcome >> \in Commands \X Outcomes
      BY <1>3
    <3> QED BY <2>4, <3>1, FailureIsClassified
  <2>8. /\ PV!Classified(c, result) = "none" /\ ~Dry(work.r) => PV!Runs(request, c)
        /\ Dry(work.r) => ~result.executed
    <3>1. Dry(work.r) <=> request.runner = "dry_run"
      BY DEF Dry
    <3> HIDE DEF c, request
    <3> QED BY <3>1, CleanIsRun
  <2> HIDE DEF result, c, request
  <2>5. /\ DOMAIN loop = DOMAIN PV!Begun
        /\ loop.results = Append(work.loop.results, result)
        /\ work.loop.failed => loop.failed
        /\ PV!Classified(c, result) # "none" => loop.failed
        /\ ~loop.failed => ~loop.stopped
    <3> DEFINE r == work.r
               before == work.loop
    <3>1. DOMAIN before = DOMAIN PV!Begun
      BY <1>2
    <3> HIDE DEF r, before
    <3>2. /\ DOMAIN PV!AfterCommand(r, before, c, result) = DOMAIN PV!Begun
          /\ PV!AfterCommand(r, before, c, result).results = Append(before.results, result)
          /\ before.failed => PV!AfterCommand(r, before, c, result).failed
          /\ PV!Classified(c, result) # "none" => PV!AfterCommand(r, before, c, result).failed
          /\ ~PV!AfterCommand(r, before, c, result).failed =>
               ~PV!AfterCommand(r, before, c, result).stopped
      BY <3>1, CommandDone
    <3> QED BY <3>2 DEF r, before
  <2> HIDE DEF loop
  <2>6. \A run \in all : run \in work.ran
                         \/ /\ run \in Commands \X Outcomes
                            /\ run[2] \notin Harmless => loop.failed
    <3> SUFFICES ASSUME NEW run \in all, run \notin work.ran
                 PROVE  /\ run \in Commands \X Outcomes
                        /\ run[2] \notin Harmless => loop.failed
      OBVIOUS
    <3>1. PV!Runs(request, c) /\ run = << c, outcome >> /\ run[1] = c /\ run[2] = outcome
      OBVIOUS
    <3> HIDE DEF all
    <3>2. run \in Commands \X Outcomes
      BY <2>4, <3>1
    <3>3. run[2] \notin Harmless => loop.failed
      BY <2>4, <2>5, <3>1
    <3> QED BY <3>2, <3>3
  <2>9. /\ work.ran \subseteq all
        /\ ~loop.failed /\ ~Dry(work.r) => \E run \in all : run[1] = c
    <3>1. work.ran \subseteq all
      OBVIOUS
    <3>2. PV!Runs(request, c) => << c, outcome >> \in all /\ << c, outcome >>[1] = c
      OBVIOUS
    <3> HIDE DEF all
    <3>3. ASSUME ~loop.failed, ~Dry(work.r) PROVE PV!Runs(request, c)
      BY <2>5, <2>8, <3>3
    <3> QED BY <3>1, <3>2, <3>3
  <2> HIDE DEF all
  <2>7. /\ DOMAIN work' = DOMAIN work /\ work'.at = "loop" /\ work'.q = work.q
        /\ work'.r = work.r /\ work'.loop = loop /\ work'.ran = all
    BY <1>1, <1>2, <2>2
  <2> QED BY <1>1, <1>3, <2>3, <2>5, <2>6, <2>7, <2>8, <2>9, LoopGrows DEF c
<1> QED BY <1>4, <1>5

LEMMA LoopOutOfTimeKeeps == Inv /\ LoopOutOfTime => Inv'
<1> SUFFICES ASSUME Inv, LoopOutOfTime PROVE Inv'
  OBVIOUS
<1> DEFINE loop == PV!OutOfTime(work.loop)
<1>1. CountsInv' /\ counts'["edits"] = counts["edits"]
  BY Counted DEF Inv, LoopOutOfTime, Counters
<1>2. /\ work.at = "loop" /\ work' = [work EXCEPT !.loop = loop]
      /\ UNCHANGED << disk, patch, validation, written, ran, owed >>
  BY DEF LoopOutOfTime
<1>3. DiskInv' /\ PatchInv' /\ RanInv' /\ written' \subseteq Files
  BY <1>1, <1>2 DEF Inv, DiskInv, FilesStayInSize, PatchInv, RanInv, ApplyInv
<1>4. /\ DOMAIN work = {"at", "q", "r", "loop", "ran"}
      /\ work.q \in ValidationRequests /\ work.r = PV!LoopRequest(work.q)
      /\ DOMAIN work.loop = DOMAIN PV!Begun
      /\ work.loop.results \in Seq(AnyResult)
      /\ Len(work.loop.results) <= Len(PV!Planned(work.r))
      /\ work.ran \subseteq Commands \X Outcomes
      /\ Covered(work.r, work.loop, work.ran)
  BY <1>2, AtLoop
<1>5. DOMAIN loop = DOMAIN PV!Begun /\ loop.results = work.loop.results /\ loop.failed = TRUE
  BY <1>4 DEF PV!OutOfTime, PV!Begun
<1> HIDE DEF loop
<1>6. /\ DOMAIN work' = DOMAIN work /\ work'.at = "loop" /\ work'.q = work.q /\ work'.r = work.r
      /\ work'.loop = loop /\ work'.ran = work.ran
  BY <1>2, <1>4
<1>7. LoopInv'
  <2>1. Covered(work.r, loop, work.ran)
    BY <1>4, <1>5 DEF Covered
  <2> QED BY <1>4, <1>5, <1>6, <2>1 DEF LoopInv
<1>8. ApplyInv' /\ WorkInv'
  BY <1>3, <1>6 DEF ApplyInv, WorkInv
<1> QED BY <1>1, <1>3, <1>7, <1>8 DEF Inv

\* The loop's result is a success only when nothing failed, the validator's only when
\* the loop's is.
LEMMA PassedHasNotFailed ==
  ASSUME NEW q, NEW a, NEW r, NEW loop, PV!Result(q, a, PV!LoopResult(r, loop)).success
  PROVE  ~loop.failed
<1>1. PV!Passed(q, a, PV!LoopResult(r, loop))
  BY DEF PV!Result
<1>2. PV!LoopResult(r, loop).success
  BY <1>1 DEF PV!Passed
<1>3. PV!Success(r, loop)
  BY <1>2 DEF PV!LoopResult
<1> QED BY <1>3 DEF PV!Success

LEMMA FinishValidationKeeps == Inv /\ FinishValidation => Inv'
<1> SUFFICES ASSUME Inv, FinishValidation PROVE Inv'
  OBVIOUS
<1>1. /\ work.at = "loop"
      /\ validation' = PV!Result(work.q, patch, PV!LoopResult(work.r, work.loop))
      /\ ran' = work.ran /\ owed' = Range(PV!Planned(work.r)) /\ work' = Idle
      /\ PV!Done(work.r, work.loop)
      /\ UNCHANGED << disk, patch, written, counts >>
  BY DEF FinishValidation
<1>2. CountsInv' /\ DiskInv' /\ PatchInv' /\ written' \subseteq Files
  BY <1>1 DEF Inv, CountsInv, DiskInv, FilesStayInSize, PatchInv, ApplyInv
<1>3. work'.at = "idle" /\ WorkInv'
  BY <1>1 DEF Idle, WorkInv
<1>4. ApplyInv' /\ LoopInv'
  BY <1>2, <1>3 DEF ApplyInv, LoopInv
<1>5. RanInv'
  <2>1. /\ work.ran \subseteq Commands \X Outcomes
        /\ (\E run \in work.ran : run[2] \notin Harmless) => work.loop.failed
        /\ Covered(work.r, work.loop, work.ran)
        /\ work.q \in ValidationRequests /\ work.r = PV!LoopRequest(work.q)
        /\ work.loop.results \in Seq(AnyResult)
    BY <1>1, AtLoop
  <2>2. validation'.success => ~work.loop.failed
    BY <1>1, PassedHasNotFailed
  <2>3. PV!Planned(work.r) \in Seq(Commands)
    BY <2>1, PlannedCommands
  <2>4. owed' \subseteq Commands
    BY <1>1, <2>3 DEF Range
  <2>5. ASSUME validation'.success, validation'.executed > 0, NEW c \in owed'
        PROVE  \E run \in work.ran : run[1] = c
    <3>1. ~work.loop.failed /\ ~work.loop.stopped
      BY <2>1, <2>2, <2>5 DEF Covered
    <3>2. DOMAIN work.loop.results = DOMAIN PV!Planned(work.r)
      BY <1>1, <2>1, <2>3, <3>1 DEF PV!Done
    <3>3. ~Dry(work.r)
      <4> DEFINE l == PV!LoopResult(work.r, work.loop)
      <4>4. PV!Result(work.q, patch, l).executed = l.executed
        BY Zenon DEF PV!Result
      <4>5. l.executed = Cardinality(PV!Executed(work.loop))
        <5>1. l.executed = PV!Cardinality(PV!Executed(work.loop))
          BY Zenon DEF PV!LoopResult
        <5>2. PV!Cardinality(PV!Executed(work.loop)) = Cardinality(PV!Executed(work.loop))
          BY Zenon DEF PV!Cardinality, Cardinality
        <5> QED BY <5>1, <5>2
      <4>1. validation'.executed = Cardinality(PV!Executed(work.loop))
        BY <1>1, <4>4, <4>5
      <4>2. Dry(work.r) => PV!Executed(work.loop) = {}
        BY <2>1 DEF Covered, PV!Executed
      <4>3. Cardinality({}) = 0
        BY FS_EmptySet
      <4> QED BY <2>5, <4>1, <4>2, <4>3
    <3>4. PICK i \in DOMAIN PV!Planned(work.r) : PV!Planned(work.r)[i] = c
      BY <1>1, <2>5 DEF Range
    <3> QED BY <2>1, <3>1, <3>2, <3>3, <3>4 DEF Covered
  <2> QED BY <1>1, <2>1, <2>2, <2>4, <2>5 DEF RanInv
<1> QED BY <1>2, <1>3, <1>4, <1>5 DEF Inv

LEMMA RaiseKeeps == Inv /\ Raise => Inv'
<1> SUFFICES ASSUME Inv, Raise PROVE Inv'
  OBVIOUS
<1>1. CountsInv' /\ counts'["edits"] = counts["edits"]
  BY Counted DEF Inv, Raise, Counters
<1>2. work' = Idle /\ UNCHANGED << disk, patch, validation, written, ran, owed >>
  BY DEF Raise
<1>3. DiskInv' /\ PatchInv' /\ RanInv' /\ written' \subseteq Files
  BY <1>1, <1>2 DEF Inv, DiskInv, FilesStayInSize, PatchInv, RanInv, ApplyInv
<1>4. work'.at = "idle" /\ WorkInv'
  BY <1>2 DEF Idle, WorkInv
<1> QED BY <1>1, <1>3, <1>4 DEF Inv, ApplyInv, LoopInv

LEMMA EditKeeps == Inv /\ Edit => Inv'
<1> SUFFICES ASSUME Inv, Edit PROVE Inv'
  OBVIOUS
<1>1. CountsInv' /\ counts'["edits"] = counts["edits"] + 1
  BY Counted DEF Inv, Edit, Counters
<1>2. UNCHANGED << patch, validation, work, written, ran, owed >>
  BY DEF Edit
<1>3. PICK f \in Files : \E token \in Edits :
        disk' = [disk EXCEPT ![f] = IF @ = PA!NoText THEN << token >> ELSE Append(@, token)]
  BY DEF Edit
<1>4. PICK token \in Edits :
        disk' = [disk EXCEPT ![f] = IF @ = PA!NoText THEN << token >> ELSE Append(@, token)]
  BY <1>3
<1>5. DiskInv'
  <2> DEFINE new == IF disk[f] = PA!NoText THEN << token >> ELSE Append(disk[f], token)
  <2>1. token \in Tokens
    BY TextAssumption DEF TextAssumption
  <2>2. disk \in [Files -> Texts] /\ disk[f] \in Seq(Tokens)
    BY DEF Inv, DiskInv, Texts
  <2>3. counts["edits"] \in Nat /\ MaxText \in Nat
        /\ \A g \in Files : Len(disk[g]) <= MaxText + counts["edits"]
    BY BoundAssumption DEF Inv, DiskInv, FilesStayInSize, CountsInv, Counters, BoundAssumption
  <2>4. << token >> \in Seq(Tokens) /\ Len(<< token >>) = 1
    BY <2>1, SingleToken
  <2>5. Append(disk[f], token) \in Seq(Tokens) /\ Len(Append(disk[f], token)) = Len(disk[f]) + 1
    BY <2>1, <2>2, AppendProperties
  <2>6. new \in Texts /\ Len(new) <= MaxText + (counts["edits"] + 1)
    <3>1. Len(disk[f]) \in Nat
      BY <2>2
    <3>2. CASE disk[f] = PA!NoText
      BY <2>3, <2>4, <3>2 DEF Texts
    <3>3. CASE disk[f] # PA!NoText
      BY <2>3, <2>5, <3>1, <3>3 DEF Texts
    <3> QED BY <3>2, <3>3
  <2>7. disk' = [disk EXCEPT ![f] = new]
    BY <1>4
  <2> HIDE DEF new
  <2>8. disk' \in [Files -> Texts]
    BY <2>2, <2>6, <2>7
  <2>9. ASSUME NEW g \in Files PROVE Len(disk'[g]) <= MaxText + (counts["edits"] + 1)
    <3>1. CASE g = f
      BY <2>2, <2>6, <2>7, <3>1
    <3>2. CASE g # f
      <4>1. disk'[g] = disk[g] /\ Len(disk[g]) \in Nat
        BY <2>2, <2>7, <3>2 DEF Texts
      <4> QED BY <2>3, <4>1
    <3> QED BY <3>1, <3>2
  <2> QED BY <1>1, <2>8, <2>9 DEF DiskInv, FilesStayInSize
<1>6. ApplyInv' /\ PatchInv' /\ LoopInv' /\ RanInv' /\ WorkInv'
  BY <1>2 DEF Inv, ApplyInv, PatchInv, LoopInv, RanInv, WorkInv
<1> QED BY <1>1, <1>5, <1>6 DEF Inv

\* So it holds throughout.
LEMMA Invariance == Spec => []Inv
<1>1. Inv /\ [Next]_vars => Inv'
  <2> SUFFICES ASSUME Inv, [Next]_vars PROVE Inv'
    OBVIOUS
  <2>1. CASE UNCHANGED vars
    BY <2>1 DEF vars, Inv, CountsInv, DiskInv, FilesStayInSize, ApplyInv, PatchInv, LoopInv,
                RanInv, WorkInv
  <2> QED BY <2>1, StartApplyKeeps, ApplyNextKeeps, FinishApplyKeeps, StartValidationKeeps,
             RunNextKeeps, LoopOutOfTimeKeeps, FinishValidationKeeps, RaiseKeeps, EditKeeps
             DEF Next
<1> QED BY <1>1, Initially, PTL DEF Spec

-----------------------------------------------------------------------------
(* What follows. *)

\* Texts are texts, work is idle or at one of its two loops, the applier's count of
\* hunks stays in its budget, and the bookkeeping has its types.
THEOREM TypeCorrect == Spec => []TypeOK
<1>1. Inv => TypeOK
  <2> SUFFICES ASSUME Inv PROVE TypeOK
    OBVIOUS
  <2>1. \A f \in Files : disk[f] \in Seq(Tokens)
    BY DEF Inv, DiskInv, Texts
  <2>2. work = Idle \/ work.at \in {"apply", "loop"}
    BY DEF Inv, WorkInv
  <2>3. work.at = "apply" => work.progress.hunks_applied \in 0 .. work.q.budget.hunks
    BY DEF Inv, ApplyInv, ProgressFine
  <2>4. written \subseteq Files /\ ran \subseteq Commands \X Outcomes
        /\ owed \subseteq Commands
    BY DEF Inv, ApplyInv, RanInv
  <2>5. \A what \in DOMAIN Bound : counts[what] \in 0 .. Bound[what]
    <3>1. DOMAIN Bound = Counters
      BY DEF Bound, Counters
    <3>2. \A what \in Counters : Bound[what] \in Nat
      BY BoundAssumption DEF Bound, Counters, BoundAssumption
    <3> QED BY <3>1, <3>2 DEF Inv, CountsInv
  <2> QED BY <2>1, <2>2, <2>3, <2>4, <2>5 DEF TypeOK
<1> QED BY <1>1, Invariance, PTL

\* However often patches are applied, and again when their result was lost, no file
\* grows past the size limit by more than people add: every hunk is held to the limit,
\* whatever text it starts from.
THEOREM SizeStays == Spec => []FilesStayInSize
<1>1. Inv => FilesStayInSize
  BY DEF Inv, DiskInv
<1> QED BY <1>1, Invariance, PTL

\* The commit gate accepts no patch that left a file out: of an unblocked request every
\* file is applied or refused, and the gate refuses the others.
THEOREM RefusalStopsCommit == Spec => []RefusedFileStopsCommit
<1>1. Inv => RefusedFileStopsCommit
  <2> SUFFICES ASSUME Inv, MayBeCommitted PROVE patch.files = patch.files_requested
    BY DEF RefusedFileStopsCommit
  <2>1. ~CG!Blocked(Ordinary, validation, patch, {})
    BY DEF MayBeCommitted, CG!Eligible
  <2>2. patch.files_blocked = {} /\ ~(patch.given /\ ~patch.success)
    BY <2>1 DEF CG!Blocked
  <2> QED BY <2>2 DEF Inv, PatchInv
<1> QED BY <1>1, Invariance, PTL

\* Behind a validation the commit gate accepts is no process that failed, timed out or
\* printed a credential where the runner looks for one: each is classified as a failure, a failure outlives the loop
\* whether or not it stops there, and the validator passes no failed loop.
THEOREM FailureStops == Spec => []FailureStopsCommit
<1>1. Inv => FailureStopsCommit
  <2> SUFFICES ASSUME Inv, MayBeCommitted PROVE \A run \in ran : run[2] \in Harmless
    BY DEF FailureStopsCommit, Harmless
  <2>1. CG!ValidationPassed(validation)
    BY DEF MayBeCommitted, CG!Eligible
  <2>2. validation.success
    BY <2>1 DEF CG!ValidationPassed
  <2> QED BY <2>2 DEF Inv, RanInv
<1> QED BY <1>1, Invariance, PTL

\* Behind a validation the commit gate accepts, unless it was a dry run, is a process
\* of every command the loop had to run: a command that is refused by the loop, the
\* gate or the runner leaves the loop failed, and so does one that is not reached.
THEOREM NothingPassedOver == Spec => []NothingIsPassedOver
<1>1. Inv => NothingIsPassedOver
  <2> SUFFICES ASSUME Inv, MayBeCommitted, validation.executed > 0
               PROVE  \A c \in owed : \E run \in ran : run[1] = c
    BY DEF NothingIsPassedOver
  <2>1. CG!ValidationPassed(validation)
    BY DEF MayBeCommitted, CG!Eligible
  <2>2. validation.success
    BY <2>1 DEF CG!ValidationPassed
  <2> QED BY <2>2 DEF Inv, RanInv
<1> QED BY <1>1, Invariance, PTL

\* When the applier reports an applied patch, the files it lists are the files it wrote.
THEOREM WritesAreReported == Spec => WrittenIsReported
<1>1. Inv /\ [Next]_vars => [patch' # patch => patch'.files = written' \/ ~patch'.applied]_vars
  <2> SUFFICES ASSUME Inv, Next, patch' # patch, patch'.applied
               PROVE  patch'.files = written'
    BY DEF vars
  <2>1. FinishApply
    BY DEF Next, StartApply, ApplyNext, StartValidation, RunNext, LoopOutOfTime,
           FinishValidation, Raise, Edit
  <2>2. /\ work.at = "apply" /\ written' = written
        /\ patch' = PA!Result(work.q, work.progress, Range(work.proposals))
    BY <2>1 DEF FinishApply
  <2>3. work.q.mode = "act" /\ patch'.files = work.progress.applied
    BY <2>2 DEF PA!Result, PA!Applied
  <2> QED BY <2>2, <2>3 DEF Inv, ApplyInv
<1> QED BY <1>1, Invariance, PTL DEF Spec, WrittenIsReported
================================================================================
