---------------------------- MODULE RegistryStore ----------------------------
(***************************************************************************)
(* The run registry file and the processes that share it.                  *)
(*                                                                         *)
(* A write holds an exclusive flock on a sibling lock file while it loads  *)
(* the document into the writer's own cache, changes a row, writes a       *)
(* temporary file and renames it over the document; the flock falls when   *)
(* the handle is closed, by leaving the block, by an exception or by the   *)
(* death of the process.  Reads load the document with no lock.            *)
(*                                                                         *)
(* A writer is one RunRegistry object with the thread that uses it: the    *)
(* runtime's, and the one each operator command line creates.  Threads     *)
(* that share an object take turns under its RLock for a whole operation,  *)
(* so nobody sees the cache between its change and the rename: the change  *)
(* is shown at the rename, or at the failure that precedes it.             *)
(***************************************************************************)
EXTENDS RunRegistry

CONSTANTS
  Writers,    \* threads of control that hold a RunRegistry object
  Runs,       \* run ids
  Requests,   \* the writes callers may ask for
  NoFile,     \* stands for a file that does not exist
  Free        \* the flock when nobody holds it

EmptyDocument == [r \in Runs |-> NoRow]

Documents == [Runs -> Row \cup {NoRow}]

\* A request is a registration or a status update of one run.
Request ==
  [op : {"register", "update"}, run : Runs, status : Statuses,
   action : LastActions, reason : Reasons, enabled : Enablement]

ASSUME StoreAssumption ==
  /\ Requests \subseteq Request
  /\ NoFile \notin Documents
  /\ Free \notin Writers

VARIABLES
  file,     \* run_registry.json: a document or NoFile
  lock,     \* the writer that holds the flock, or Free
  cache,    \* writer -> its object's _runs
  temp,     \* writer -> the temporary file it has written, or NoFile
  pc,       \* writer -> where it is in register / update_status
  call      \* writer -> the request it is serving

vars == << file, lock, cache, temp, pc, call >>

Labels == {"idle", "waiting", "locked", "loaded", "written", "replaced"}

TypeOK ==
  /\ file \in Documents \cup {NoFile}
  /\ lock \in Writers \cup {Free}
  /\ cache \in [Writers -> Documents]
  /\ temp \in [Writers -> Documents \cup {NoFile}]
  /\ pc \in [Writers -> Labels]
  /\ call \in [Writers -> Requests]

Init ==
  /\ file = NoFile
  /\ lock = Free
  /\ cache = [w \in Writers |-> EmptyDocument]
  /\ temp = [w \in Writers |-> NoFile]
  /\ pc = [w \in Writers |-> "idle"]
  /\ call \in [Writers -> Requests]

-----------------------------------------------------------------------------
\* The change a request makes to a document.
Effect(doc, req) ==
  [doc EXCEPT ![req.run] =
     IF req.op = "register"
     THEN Registered(@, req.status, req.action, req.enabled)
     ELSE Updated(@, req.status, req.action, req.reason)]

\* update_status of an unknown run returns before it writes anything.
WritesNothing(doc, req) == req.op = "update" /\ doc[req.run] = NoRow

Goto(w, label) == pc' = [pc EXCEPT ![w] = label]

\* A caller enters register or update_status and asks for the flock.
Call(w) ==
  /\ pc[w] = "idle"
  /\ \E req \in Requests : call' = [call EXCEPT ![w] = req]
  /\ Goto(w, "waiting")
  /\ UNCHANGED << file, lock, cache, temp >>

\* Mutant: the flock is shared instead of exclusive.
AcquireShared(w) ==
  /\ pc[w] = "waiting"
  /\ lock' = w
  /\ Goto(w, "locked")
  /\ UNCHANGED << file, cache, temp, call >>

Acquire(w) ==
  /\ pc[w] = "waiting"
  /\ lock = Free
  /\ lock' = w
  /\ Goto(w, "locked")
  /\ UNCHANGED << file, cache, temp, call >>

\* Mutant: the reload does not ask whether the file exists.
ReloadedUnasked(w) == file

\* if backend.exists(): reload_from_disk(), on a document or on no file at all
Reloaded(w) == IF file = NoFile THEN cache[w] ELSE file

Load(w) ==
  /\ pc[w] = "locked"
  /\ cache' = [cache EXCEPT ![w] = Reloaded(w)]
  /\ Goto(w, "loaded")
  /\ UNCHANGED << file, lock, temp, call >>

\* Change the row and write the document to a temporary file.
WriteTemp(w) ==
  /\ pc[w] = "loaded"
  /\ ~ WritesNothing(cache[w], call[w])
  /\ temp' = [temp EXCEPT ![w] = Effect(cache[w], call[w])]
  /\ Goto(w, "written")
  /\ UNCHANGED << file, lock, cache, call >>

UnknownRun(w) ==
  /\ pc[w] = "loaded"
  /\ WritesNothing(cache[w], call[w])
  /\ Goto(w, "replaced")
  /\ UNCHANGED << file, lock, cache, temp, call >>

\* os.replace: the document changes in one step.
Replace(w) ==
  /\ pc[w] = "written"
  /\ file' = temp[w]
  /\ cache' = [cache EXCEPT ![w] = temp[w]]
  /\ temp' = [temp EXCEPT ![w] = NoFile]
  /\ Goto(w, "replaced")
  /\ UNCHANGED << lock, call >>

Release(w) ==
  /\ pc[w] = "replaced"
  /\ lock' = Free
  /\ Goto(w, "idle")
  /\ UNCHANGED << file, cache, temp, call >>

\* A read: the object reloads from the file, without the flock.
Read(w) ==
  /\ pc[w] = "idle"
  /\ cache' = [cache EXCEPT ![w] = Reloaded(w)]
  /\ UNCHANGED << file, lock, temp, pc, call >>

\* Mutant: an exception leaves the block without closing the handle.
WriteFailsLocked(w) ==
  /\ pc[w] = "written"
  /\ cache' = [cache EXCEPT ![w] = temp[w]]
  /\ temp' = [temp EXCEPT ![w] = NoFile]
  /\ Goto(w, "idle")
  /\ UNCHANGED << file, lock, call >>

\* Writing or renaming the temporary file fails: it is unlinked, both blocks
\* are left by the exception, and the cache keeps the change.
WriteFails(w) ==
  /\ pc[w] = "written"
  /\ cache' = [cache EXCEPT ![w] = temp[w]]
  /\ temp' = [temp EXCEPT ![w] = NoFile]
  /\ lock' = Free
  /\ Goto(w, "idle")
  /\ UNCHANGED << file, call >>

\* The process dies and a new one takes its place with a fresh object, which
\* its constructor fills from the file.  A temporary file is left behind under
\* a name nobody uses again.
Crash(w) ==
  /\ cache' = [cache EXCEPT ![w] = IF file = NoFile THEN EmptyDocument ELSE file]
  /\ temp' = [temp EXCEPT ![w] = NoFile]
  /\ lock' = IF lock = w THEN Free ELSE lock
  /\ Goto(w, "idle")
  /\ UNCHANGED << file, call >>

Step(w) ==
  Load(w) \/ WriteTemp(w) \/ UnknownRun(w) \/ Replace(w) \/ Release(w)

Next ==
  \E w \in Writers :
    \/ Call(w) \/ Acquire(w) \/ Step(w) \/ Read(w)
    \/ WriteFails(w) \/ Crash(w)

Spec == Init /\ [][Next]_vars

\* A thread inside the block runs on, and the kernel hands the flock to a
\* waiter that keeps asking for it.
FairSpec ==
  /\ Spec
  /\ \A w \in Writers : WF_vars(Step(w)) /\ SF_vars(Acquire(w))

-----------------------------------------------------------------------------
\* A writer that waits for the flock leaves register / update_status, whatever
\* the others do: they crash, fail, or keep coming back for the flock.
EveryWriteEnds ==
  \A w \in Writers : pc[w] = "waiting" ~> pc[w] = "idle"

\* The rows in the file and in every cache.
AllRows == { file[r] : r \in IF file = NoFile THEN {} ELSE Runs } \cup
           { cache[w][r] : w \in Writers, r \in Runs }

\* The two audit trails of a row tell one story: entry for entry from the end,
\* the history holds the resolutions of the timeline's events, and the longer
\* cap is the timeline's, so no resolution in the history lacks its event.
TrailsAgree(row) ==
  /\ Len(row.history) <= Len(row.timeline)
  /\ \A k \in 0 .. Len(row.history) - 1 :
       row.history[Len(row.history) - k] =
         row.timeline[Len(row.timeline) - k].resolution

AuditTrailsAgree == \A row \in AllRows \ {NoRow} : TrailsAgree(row)

\* register_run_start promises "a single start timeline event": merging a
\* registration into a row that exists adds none, so a start event can only be
\* the first of a timeline.
StartsOnce(row) ==
  \A k \in 2 .. Len(row.timeline) : row.timeline[k].type # "start"

SingleStart == \A row \in AllRows \ {NoRow} : StartsOnce(row)

\* The registry is an atomic document: see AtomicRegistry.
Outcome(label) ==
  CASE label = "idle" -> "none"
    [] label = "replaced" -> "done"
    [] OTHER -> "pending"

Atomic ==
  INSTANCE AtomicRegistry
    WITH document <- file,
         leftover <- [w \in Writers |->
                        IF file = NoFile THEN cache[w] ELSE EmptyDocument],
         outcome  <- [w \in Writers |-> Outcome(pc[w])],
         NoDocument <- NoFile

ImplementsAtomic == Atomic!Spec
=============================================================================
