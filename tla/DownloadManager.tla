-------------------------- MODULE DownloadManager --------------------------
(***************************************************************************)
(* The model-download manager of the controller                            *)
(* (controller/src/inference/downloads/manager.zig with records.zig and    *)
(* store.zig).  HTTP handlers start, resume, pause and cancel downloads;   *)
(* each running download is a background task.  They share                 *)
(*                                                                         *)
(*   - the download records, in SQLite (one lock section per helper of     *)
(*     records.zig, so a handler and a task interleave between helpers);   *)
(*   - State{reservations, active, retired}, under State.mutex;            *)
(*   - the Active owners, reference-counted by hand (handles, finished).   *)
(*                                                                         *)
(* One action is one lock section, or one wait.  A Reservation and the     *)
(* Active it is handed to are one "owner" slot here: the code moves the    *)
(* reservation into the Active and frees them together.                    *)
(*                                                                         *)
(* Left out: the bytes of a transfer (a file is fetched or not), the       *)
(* wording of errors, the value of completed_at, and, inside pruneRetired  *)
(* and retire, a failure to allocate or to take the mutex.                 *)
(***************************************************************************)
EXTENDS Naturals, FiniteSets

CONSTANTS
    Handlers,    \* concurrent HTTP handlers
    Ids,         \* download ids that randomId may return
    Requests,    \* what a start may ask for: a model, its files and a target
    Contains,    \* pairs <<r, s>>: the target of r contains that of s
    Owners,      \* slots a Reservation/Active may be allocated in
    MaxActive,   \* max_active_downloads
    Offered,     \* the calls clients make: a bound, all of Calls in the real system
    FileCount    \* files of a model

ASSUME ContainsAssumption ==
    /\ Contains \subseteq Requests \X Requests
    /\ \A r \in Requests : <<r, r>> \in Contains
ASSUME BoundsAssumption == MaxActive \in Nat \ {0} /\ FileCount \in Nat

None == "none"
Calls == {"start", "resume", "paused", "canceled"}
ASSUME OfferedAssumption == Offered \subseteq Calls
ASSUME NoneAssumption == None \notin Owners \cup Ids \cup Requests

VARIABLES
    record,        \* the rows of model_downloads
    reservations,  \* State.reservations: the owners whose reservation is listed
    active,        \* State.active: download id -> owner
    retired,       \* State.retired
    owner,         \* the heap of reservations and Actives
    task,          \* where the background task of an owner is
    handler,       \* where each HTTP handler is, with its locals
    orphaned       \* history: ids that lost their task for a known reason

vars == <<record, reservations, active, retired, owner, task, handler, orphaned>>

Statuses == {None, "queued", "downloading", "paused", "completed", "failed", "canceled"}
Stopped == {"paused", "canceled"}
Running == {"queued", "downloading"}

\* The stages of runDownload: "none" before the task is spawned, "retire" once
\* its result is settled, "returning" after retire, "returned" when it is gone.
Working == {"begin", "next", "transfer", "check", "complete", "incomplete", "stamp", "failing"}
Stages == Working \cup {None, "retire", "returning", "returned"}
Live == Working \cup {"retire"}

Places == {"idle", "prune", "reap", "read", "acquire", "select", "save", "queue",
           "install", "spawn", "lookup", "cancel", "await", "drop"}

NewOwner(i, r) == [id |-> i, request |-> r, handles |-> 0, cancelRequested |-> FALSE,
                   finished |-> FALSE, interrupted |-> FALSE]
FreeOwner == NewOwner(None, None)
NewCall(place, call, i, r) == [at |-> place, call |-> call, id |-> i, request |-> r,
                               owner |-> None, ready |-> {}, late |-> FALSE]
IdleHandler == NewCall("idle", None, None, None)

Owner == [id : Ids \cup {None}, request : Requests \cup {None},
          handles : Nat,
          cancelRequested : BOOLEAN, finished : BOOLEAN, interrupted : BOOLEAN]
Handler == [at : Places, call : Calls \cup {None}, id : Ids \cup {None},
            request : Requests \cup {None}, owner : Owners \cup {None},
            ready : SUBSET Owners, late : BOOLEAN]
Record == [request : Requests \cup {None}, status : Statuses, files : 0..FileCount]

TypeOK ==
    /\ record \in [Ids -> Record]
    /\ reservations \subseteq Owners
    /\ active \in [Ids -> Owners \cup {None}]
    /\ retired \subseteq Owners
    /\ owner \in [Owners -> Owner]
    /\ task \in [Owners -> Stages]
    /\ handler \in [Handlers -> Handler]
    /\ orphaned \subseteq Ids

Init ==
    /\ record = [i \in Ids |-> [request |-> None, status |-> None, files |-> 0]]
    /\ reservations = {}
    /\ active = [i \in Ids |-> None]
    /\ retired = {}
    /\ owner = [o \in Owners |-> FreeOwner]
    /\ task = [o \in Owners |-> None]
    /\ handler = [h \in Handlers |-> IdleHandler]
    /\ orphaned = {}

-----------------------------------------------------------------------------
(* Helpers *)

Allocated(o) == owner[o].request # None

\* A slot the allocator may hand out.  A slot some handler still points to is not
\* reused, so that a dangling handle stays visible to HandlesAreLive.
Available(o) == ~Allocated(o) /\ \A h \in Handlers : handler[h].owner # o

Overlap(r, s) == <<r, s>> \in Contains \/ <<s, r>> \in Contains

\* owner.deinit: the Active and its reservation are freed.
Freed(os) == [o \in Owners |-> IF o \in os THEN FreeOwner ELSE owner[o]]
Unspawned(os) == [o \in Owners |-> IF o \in os /\ task[o] = "returned" THEN None ELSE task[o]]

Goto(h, place) == handler' = [handler EXCEPT ![h].at = place]
Return(h) == handler' = [handler EXCEPT ![h] = IdleHandler]
SetStatus(i, s) == record' = [record EXCEPT ![i].status = s]

\* An id no record carries and no start is about to give a record.
Fresh(i) == record[i].status = None /\ \A h \in Handlers : handler[h].id # i

\* reusablePriority: a completed record first, then a running, then a paused one.
Reusable(r) ==
    LET with(S) == {i \in Ids : record[i].request = r /\ record[i].status \in S}
    IN IF with({"completed"}) # {} THEN with({"completed"})
       ELSE IF with(Running) # {} THEN with(Running) ELSE with({"paused"})

-----------------------------------------------------------------------------
(* startPayload and resumePayload *)

StartCall(h) ==
    /\ "start" \in Offered
    /\ handler[h].at = "idle"
    /\ \E r \in Requests :
          handler' = [handler EXCEPT ![h] = NewCall("prune", "start", None, r)]
    /\ UNCHANGED <<record, reservations, active, retired, owner, task, orphaned>>

ResumeCall(h) ==
    /\ "resume" \in Offered
    /\ handler[h].at = "idle"
    /\ \E i \in Ids :
          /\ record[i].status # None
          /\ handler' = [handler EXCEPT ![h] = NewCall("prune", "resume", i, None)]
    /\ UNCHANGED <<record, reservations, active, retired, owner, task, orphaned>>

\* Where a call goes on once pruneRetired is through.
AfterPrune(h) ==
    CASE handler[h].call = "start" -> NewCall("acquire", "start", None, handler[h].request)
      [] handler[h].call = "resume" -> NewCall("read", "resume", handler[h].id, None)
      [] OTHER -> IdleHandler

\* Mutant: the reference count is not looked at.
PruneIgnoringHandles(h) ==
    /\ handler[h].at = "prune"
    /\ LET ready == {o \in retired : owner[o].finished}
       IN /\ retired' = retired \ ready
          /\ handler' = [handler EXCEPT ![h] =
                 IF ready = {} THEN AfterPrune(h) ELSE [@ EXCEPT !.at = "reap", !.ready = ready]]
    /\ UNCHANGED <<record, reservations, active, owner, task, orphaned>>

\* pruneRetired, first half: under the mutex, take the owners nobody holds.
Prune(h) ==
    /\ handler[h].at = "prune"
    /\ LET ready == {o \in retired : owner[o].finished /\ owner[o].handles = 0}
       IN /\ retired' = retired \ ready
          /\ handler' = [handler EXCEPT ![h] =
                 IF ready = {} THEN AfterPrune(h) ELSE [@ EXCEPT !.at = "reap", !.ready = ready]]
    /\ UNCHANGED <<record, reservations, active, owner, task, orphaned>>

\* Mutant: deinit does not wait for the task to be gone.
ReapWithoutWaiting(h) ==
    /\ handler[h].at = "reap"
    /\ owner' = Freed(handler[h].ready)
    /\ task' = Unspawned(handler[h].ready)
    /\ handler' = [handler EXCEPT ![h] = AfterPrune(h)]
    /\ UNCHANGED <<record, reservations, active, retired, orphaned>>

\* pruneRetired, second half: group.cancel waits for each task, then deinit.
Reap(h) ==
    /\ handler[h].at = "reap"
    /\ \A o \in handler[h].ready : task[o] = "returned"
    /\ owner' = Freed(handler[h].ready)
    /\ task' = Unspawned(handler[h].ready)
    /\ handler' = [handler EXCEPT ![h] = AfterPrune(h)]
    /\ UNCHANGED <<record, reservations, active, retired, orphaned>>

\* resumePayload reads the record; a completed one is returned as it is.
ReadRecord(h) ==
    /\ handler[h].at = "read"
    /\ LET current == record[handler[h].id]
       IN IF current.status = "completed"
          THEN Return(h)
          ELSE handler' = [handler EXCEPT ![h].at = "acquire", ![h].request = current.request]
    /\ UNCHANGED <<record, reservations, active, retired, owner, task, orphaned>>

\* acquireReservation compares the directories both ways.
\* Mutant: only a directory inside a reserved one is refused.
ConflictOneWay(r) == \E o \in reservations : <<owner[o].request, r>> \in Contains
Conflict(r) == \E o \in reservations : Overlap(owner[o].request, r)

AcquireRefused(h) ==
    /\ handler[h].at = "acquire"
    /\ \/ Cardinality(reservations) >= MaxActive
       \/ Conflict(handler[h].request)
    /\ Return(h)
    /\ UNCHANGED <<record, reservations, active, retired, owner, task, orphaned>>

\* The record cannot be read or the target resolved, or cancelActive cannot take
\* the mutex: the call answers an error.
CallFails(h) ==
    /\ handler[h].at \in {"read", "acquire", "lookup"}
    /\ Return(h)
    /\ UNCHANGED <<record, reservations, active, retired, owner, task, orphaned>>

AcquireGranted(h) ==
    /\ handler[h].at = "acquire"
    /\ Cardinality(reservations) < MaxActive
    /\ ~Conflict(handler[h].request)
    /\ \E o \in Owners :
         \E i \in IF handler[h].call = "resume" THEN {handler[h].id} ELSE {j \in Ids : Fresh(j)} :
          /\ Available(o)
          /\ owner' = [owner EXCEPT ![o] = NewOwner(i, handler[h].request)]
          /\ reservations' = reservations \cup {o}
          /\ handler' = [handler EXCEPT ![h].at = IF handler[h].call = "resume"
                                                  THEN "queue" ELSE "select",
                                        ![h].id = i, ![h].owner = o]
    /\ UNCHANGED <<record, active, retired, task, orphaned>>

\* releaseReservation, then the handler answers.
Release(h) ==
    /\ reservations' = reservations \ {handler[h].owner}
    /\ owner' = Freed({handler[h].owner})
    /\ Return(h)

\* The models directory is not writable, Hugging Face cannot be asked, or the
\* database does not take the record (or, of a resume, the status queued).
StartFails(h) ==
    /\ handler[h].at \in {"select", "save", "queue"}
    /\ Release(h)
    /\ UNCHANGED <<record, active, retired, task, orphaned>>

\* findReusablePayload: an earlier record of the same model, target and files is
\* the answer, whatever it is doing; otherwise a new record is saved.
LookupReusable(h) ==
    /\ handler[h].at = "select"
    /\ IF Reusable(handler[h].request) # {}
       THEN Release(h)
       ELSE Goto(h, "save") /\ UNCHANGED <<reservations, owner>>
    /\ UNCHANGED <<record, active, retired, task, orphaned>>

SaveRecord(h) ==
    /\ handler[h].at = "save"
    /\ record' = [record EXCEPT ![handler[h].id] =
                    [request |-> handler[h].request, status |-> "queued", files |-> 0]]
    /\ Goto(h, "install")
    /\ UNCHANGED <<reservations, active, retired, owner, task, orphaned>>

\* resumePayload: setStatus(queued).  The history marks the stop requests that
\* have written the record and not yet looked for its task.
QueueRecord(h) ==
    /\ handler[h].at = "queue"
    /\ LET i == handler[h].id
       IN /\ SetStatus(i, "queued")
          /\ orphaned' = orphaned \ {i}
          /\ handler' = [g \in Handlers |->
                 IF g = h THEN [handler[g] EXCEPT !.at = "install"]
                 ELSE IF handler[g].at = "lookup" /\ handler[g].id = i
                      THEN [handler[g] EXCEPT !.late = TRUE] ELSE handler[g]]
    /\ UNCHANGED <<reservations, active, retired, owner, task>>

\* removeFailedActive and owner.deinit.  The history marks the stop requests that
\* hold the owner, and that the id has a queued record and no task.
Discard(h) ==
    LET o == handler[h].owner
        i == handler[h].id
    IN /\ active' = [active EXCEPT ![i] = IF @ = o THEN None ELSE @]
       /\ reservations' = reservations \ {o}
       /\ owner' = Freed({o})
       /\ orphaned' = orphaned \cup {i}
       /\ handler' = [g \in Handlers |->
              IF g = h THEN IdleHandler
              ELSE IF handler[g].owner = o THEN [handler[g] EXCEPT !.late = TRUE] ELSE handler[g]]

\* createActive and installActive; error.DownloadAlreadyActive if the id is mapped.
Install(h) ==
    /\ handler[h].at = "install"
    /\ IF active[handler[h].id] # None
       THEN Discard(h)
       ELSE /\ active' = [active EXCEPT ![handler[h].id] = handler[h].owner]
            /\ Goto(h, "spawn")
            /\ UNCHANGED <<reservations, owner, orphaned>>
    /\ UNCHANGED <<record, retired, task>>

Spawn(h) ==
    /\ handler[h].at = "spawn"
    /\ task' = [task EXCEPT ![handler[h].owner] = "begin"]
    /\ Return(h)
    /\ UNCHANGED <<record, reservations, active, retired, owner, orphaned>>

\* Once the record is saved: the answer or the owner cannot be allocated, or
\* group.concurrent fails after the owner became visible in State.active.
SpawnFails(h) ==
    /\ handler[h].at \in {"install", "spawn"}
    /\ Discard(h)
    /\ UNCHANGED <<record, retired, task>>

-----------------------------------------------------------------------------
(* pausePayload and cancelPayload *)

\* records.setStatus(paused | canceled): whatever the record says now.
StopCall(h) ==
    /\ handler[h].at = "idle"
    /\ \E i \in Ids, s \in Stopped \cap Offered :
          /\ record[i].status # None
          /\ SetStatus(i, s)
          /\ handler' = [handler EXCEPT ![h] = NewCall("lookup", s, i, None)]
    /\ UNCHANGED <<reservations, active, retired, owner, task, orphaned>>

\* Mutant: the target is released before the task that writes there is gone.
CancelLookupReleasing(h) ==
    /\ handler[h].at = "lookup"
    /\ LET i == handler[h].id
           o == active[i]
       IN IF o = None
          THEN Return(h) /\ UNCHANGED <<active, reservations, owner, orphaned>>
          ELSE /\ owner' = [owner EXCEPT ![o].handles = @ + 1, ![o].cancelRequested = TRUE]
               /\ handler' = [handler EXCEPT ![h].at = "cancel", ![h].owner = o,
                                             ![h].late = FALSE]
               /\ orphaned' = IF handler[h].late THEN orphaned \cup {i} ELSE orphaned
               /\ active' = [active EXCEPT ![i] = None]
               /\ reservations' = reservations \ {o}
    /\ UNCHANGED <<record, retired, task>>

\* cancelActive, first lock section.
CancelLookup(h) ==
    /\ handler[h].at = "lookup"
    /\ LET i == handler[h].id
           o == active[i]
       IN IF o = None
          THEN Return(h) /\ UNCHANGED <<owner, orphaned>>
          ELSE /\ owner' = [owner EXCEPT ![o].handles = @ + 1, ![o].cancelRequested = TRUE]
               /\ handler' = [handler EXCEPT ![h].at = "cancel", ![h].owner = o,
                                             ![h].late = FALSE]
               /\ orphaned' = IF handler[h].late THEN orphaned \cup {i} ELSE orphaned
    /\ UNCHANGED <<record, reservations, active, retired, task>>

\* group.cancel asks the tasks now in the group to stop and waits for them; on a
\* group whose task is not spawned yet there is nothing to wait for.
CancelGroup(h) ==
    /\ handler[h].at = "cancel"
    /\ LET o == handler[h].owner
       IN IF task[o] = None
          THEN Goto(h, "drop") /\ UNCHANGED owner
          ELSE Goto(h, "await") /\ owner' = [owner EXCEPT ![o].interrupted = TRUE]
    /\ UNCHANGED <<record, reservations, active, retired, task, orphaned>>

AwaitTask(h) ==
    /\ handler[h].at = "await"
    /\ task[handler[h].owner] = "returned"
    /\ Goto(h, "drop")
    /\ UNCHANGED <<record, reservations, active, retired, owner, task, orphaned>>

\* cancelActive, second lock section; pruneRetired follows.
DropHandle(h) ==
    /\ handler[h].at = "drop"
    /\ owner' = [owner EXCEPT ![handler[h].owner].handles = IF @ > 0 THEN @ - 1 ELSE 0]
    /\ handler' = [handler EXCEPT ![h].at = "prune", ![h].owner = None]
    /\ UNCHANGED <<record, reservations, active, retired, task, orphaned>>

-----------------------------------------------------------------------------
(* runDownload, the background task of owner o *)

Step(o, from, to) == task[o] = from /\ task' = [task EXCEPT ![o] = to]

\* records.begin: only a queued record is taken up.
TaskBegin(o) ==
    /\ task[o] = "begin"
    /\ LET i == owner[o].id
       IN IF record[i].status = "queued"
          THEN SetStatus(i, "downloading") /\ Step(o, "begin", "next")
          ELSE Step(o, "begin", "retire") /\ UNCHANGED record
    /\ UNCHANGED <<reservations, active, retired, owner, handler, orphaned>>

\* records.nextFile: error.Canceled on a stopped record, else the next file to
\* fetch or the end of the loop.
TaskNext(o) ==
    /\ LET current == record[owner[o].id]
       IN Step(o, "next", IF current.status \in Stopped THEN "retire"
                          ELSE IF current.files = FileCount THEN "check" ELSE "transfer")
    /\ UNCHANGED <<record, reservations, active, retired, owner, handler, orphaned>>

\* downloadFile succeeds: updateFile(completed), which does not look at the status.
TaskTransfer(o) ==
    /\ Step(o, "transfer", "next")
    /\ record' = [record EXCEPT ![owner[o].id].files = IF @ < FileCount THEN @ + 1 ELSE @]
    /\ UNCHANGED <<reservations, active, retired, owner, handler, orphaned>>

\* A directory, a request, a transfer or a record helper fails.
TaskError(o) ==
    /\ task[o] \in Working \ {"failing"}
    /\ Step(o, task[o], IF owner[o].cancelRequested THEN "retire" ELSE "failing")
    /\ UNCHANGED <<record, reservations, active, retired, owner, handler, orphaned>>

\* records.allFilesComplete.
TaskCheck(o) ==
    /\ Step(o, "check", IF record[owner[o].id].files = FileCount THEN "complete" ELSE "incomplete")
    /\ UNCHANGED <<record, reservations, active, retired, owner, handler, orphaned>>

\* records.setStatus(completed | failed): whatever the record says now.
TaskFinalize(o) ==
    /\ task[o] \in {"complete", "incomplete"}
    /\ Step(o, task[o], IF task[o] = "complete" THEN "stamp" ELSE "retire")
    /\ SetStatus(owner[o].id, IF task[o] = "complete" THEN "completed" ELSE "failed")
    /\ UNCHANGED <<reservations, active, retired, owner, handler, orphaned>>

\* records.setCompletedAt.
TaskStamp(o) ==
    /\ Step(o, "stamp", "retire")
    /\ UNCHANGED <<record, reservations, active, retired, owner, handler, orphaned>>

\* records.setFailureUnlessStopped.
SetFailureUnlessStopped(i) ==
    IF record[i].status \in Stopped THEN UNCHANGED record ELSE SetStatus(i, "failed")

\* Mutants: a failure that overwrites a stop; one that writes the status of a file.
TaskFailAlways(o) ==
    /\ Step(o, "failing", "retire")
    /\ SetStatus(owner[o].id, "failed")
    /\ UNCHANGED <<reservations, active, retired, owner, handler, orphaned>>
TaskFailAsFile(o) ==
    /\ Step(o, "failing", "retire")
    /\ IF record[owner[o].id].status \in Stopped
       THEN UNCHANGED record ELSE SetStatus(owner[o].id, "error")
    /\ UNCHANGED <<reservations, active, retired, owner, handler, orphaned>>

\* The error is recorded, or the database does not take it: then the task only
\* logs, and the history marks the id, whose record goes on saying that it runs.
TaskFail(o) ==
    /\ Step(o, "failing", "retire")
    /\ LET i == owner[o].id
       IN \/ SetFailureUnlessStopped(i) /\ UNCHANGED orphaned
          \/ /\ orphaned' = IF record[i].status \in Running THEN orphaned \cup {i} ELSE orphaned
             /\ UNCHANGED record
    /\ UNCHANGED <<reservations, active, retired, owner, handler>>

\* Mutant: a transfer that hangs does not see the cancellation.
TaskCanceledBetweenFiles(o) ==
    /\ task[o] \in Working \ {"transfer"}
    /\ owner[o].interrupted
    /\ Step(o, task[o], "retire")
    /\ UNCHANGED <<record, reservations, active, retired, owner, handler, orphaned>>

\* A wait of the task returns error.Canceled.  The task may also pass every lock
\* without waiting, so the other steps stay possible after group.cancel.
TaskCanceled(o) ==
    /\ task[o] \in Working
    /\ owner[o].interrupted
    /\ Step(o, task[o], "retire")
    /\ UNCHANGED <<record, reservations, active, retired, owner, handler, orphaned>>

\* Mutant: the map entry outlives the reservation.
TaskRetireLeavingActive(o) ==
    /\ Step(o, "retire", "returning")
    /\ reservations' = reservations \ {o}
    /\ retired' = retired \cup {o}
    /\ owner' = [owner EXCEPT ![o].finished = TRUE]
    /\ UNCHANGED <<record, active, handler, orphaned>>

\* State.retire, with cancellation blocked.
TaskRetire(o) ==
    /\ Step(o, "retire", "returning")
    /\ active' = [active EXCEPT ![owner[o].id] = IF @ = o THEN None ELSE @]
    /\ reservations' = reservations \ {o}
    /\ retired' = retired \cup {o}
    /\ owner' = [owner EXCEPT ![o].finished = TRUE]
    /\ UNCHANGED <<record, handler, orphaned>>

TaskReturn(o) ==
    /\ Step(o, "returning", "returned")
    /\ UNCHANGED <<record, reservations, active, retired, owner, handler, orphaned>>

-----------------------------------------------------------------------------
\* Mutant: the records are not rehydrated.
RestartWithoutRehydrate ==
    /\ reservations' = {}
    /\ active' = [i \in Ids |-> None]
    /\ retired' = {}
    /\ owner' = [o \in Owners |-> FreeOwner]
    /\ task' = [o \in Owners |-> None]
    /\ handler' = [h \in Handlers |-> IdleHandler]
    /\ orphaned' = {}
    /\ UNCHANGED record

\* The controller stops, in order or not, and starts again: State is new and
\* store.rehydrate pauses every record that was running.
Restart ==
    /\ record' = [i \in Ids |-> IF record[i].status \in Running
                                THEN [record[i] EXCEPT !.status = "paused"] ELSE record[i]]
    /\ reservations' = {}
    /\ active' = [i \in Ids |-> None]
    /\ retired' = {}
    /\ owner' = [o \in Owners |-> FreeOwner]
    /\ task' = [o \in Owners |-> None]
    /\ handler' = [h \in Handlers |-> IdleHandler]
    /\ orphaned' = {}

HandlerStep(h) ==
    \/ StartCall(h) \/ ResumeCall(h) \/ Prune(h) \/ Reap(h) \/ ReadRecord(h)
    \/ CallFails(h) \/ AcquireRefused(h) \/ AcquireGranted(h) \/ StartFails(h)
    \/ LookupReusable(h) \/ SaveRecord(h) \/ QueueRecord(h) \/ Install(h)
    \/ Spawn(h) \/ SpawnFails(h)
    \/ StopCall(h) \/ CancelLookup(h) \/ CancelGroup(h) \/ AwaitTask(h) \/ DropHandle(h)

TaskStep(o) ==
    \/ TaskBegin(o) \/ TaskNext(o) \/ TaskTransfer(o) \/ TaskError(o) \/ TaskCheck(o)
    \/ TaskFinalize(o) \/ TaskStamp(o) \/ TaskFail(o) \/ TaskCanceled(o) \/ TaskRetire(o) \/ TaskReturn(o)

Next == (\E h \in Handlers : HandlerStep(h)) \/ (\E o \in Owners : TaskStep(o)) \/ Restart

Spec == Init /\ [][Next]_vars

-----------------------------------------------------------------------------
(* Safety *)

\* No two background tasks ever write into overlapping target directories: a
\* reservation is listed from before the task is spawned until after its last
\* write, whatever pauses, resumes, failures and restarts happen meanwhile.
ExclusiveTargets ==
    \A o, p \in Owners :
        o # p /\ task[o] \in Live /\ task[p] \in Live
            => ~Overlap(owner[o].request, owner[p].request)

\* installActive never answers DownloadAlreadyActive: an id stays mapped only as
\* long as its reservation is listed, and a resume of the same id needs it too.
InstallNeverCollides ==
    \A h \in Handlers : handler[h].at = "install" => active[handler[h].id] = None

\* An Active that a stop request has in hand is not freed under it: pruneRetired
\* spares it while handles > 0.  The one exception is an owner discarded because
\* its task could not be spawned, which startPayload frees whoever holds it.
HandlesAreLive ==
    \A h \in Handlers :
        handler[h].at \in {"cancel", "await", "drop"} /\ ~handler[h].late
            => Allocated(handler[h].owner) /\ owner[handler[h].owner].handles > 0

\* An owner is freed only after it left every list and its task is gone.
FreedIsUnreachable ==
    \A o \in Owners : ~Allocated(o) =>
        /\ o \notin reservations \cup retired
        /\ \A i \in Ids : active[i] # o
        /\ task[o] = None

\* A record that says queued or downloading has a task, or a handler about to
\* spawn one.  Three causes leave a record that runs nowhere until it is resumed:
\* a stop request that was overtaken by a resume cancelled the new task; no task
\* could be spawned; or a task failed and the database did not take the failure.
Starting(i) == \E h \in Handlers : handler[h].id = i /\ handler[h].at \in {"install", "spawn"}
RunningHasTask ==
    \A i \in Ids : record[i].status \in Running =>
        \/ \E o \in Owners : owner[o].id = i /\ task[o] \in Live
        \/ Starting(i)
        \/ i \in orphaned

\* A stopped record leaves its status only because it was resumed or stopped
\* again, or because its task had already seen every file on disk: it never
\* fails afterwards and never starts downloading by itself.
StopSticks ==
    [][\A i \in Ids :
        record[i].status \in Stopped /\ record'[i].status \notin Stopped
            => \/ \E h \in Handlers : handler[h].at = "queue" /\ handler[h].id = i
               \/ record'[i].status = "completed" /\ record'[i].files = FileCount]_vars

-----------------------------------------------------------------------------
(* The inductive invariant behind ExclusiveTargets and InstallNeverCollides. *)

Holding == {"select", "save", "queue", "install", "spawn"}

\* What a handler knows at each place of its call.
CallerKnows(h) ==
    LET call == handler[h].call
        i == handler[h].id
        r == handler[h].request
    IN /\ call = "resume" => i \in Ids /\ record[i].request \in Requests
       /\ call = "start" => r \in Requests
       /\ handler[h].at \in {"read", "queue"} => call = "resume"
       /\ handler[h].at \in {"select", "save"} => call = "start"
       /\ handler[h].at = "lookup" => i \in Ids
       /\ handler[h].at = "acquire" => call \in {"start", "resume"} /\ r \in Requests
       /\ handler[h].at = "acquire" /\ call = "resume" => record[i].request = r
LocalsMatch == \A h \in Handlers : CallerKnows(h)

\* A handler on its way to spawn a task holds a listed reservation of its own,
\* for its id and request, with no task and no map entry yet.
HolderKnows(h) ==
    LET o == handler[h].owner
        i == handler[h].id
    IN /\ i \in Ids
       /\ o \in reservations
       /\ task[o] = None
       /\ owner[o].id = i
       /\ owner[o].request = handler[h].request
       /\ handler[h].at \in {"queue", "install", "spawn"} => record[i].request = handler[h].request
       /\ handler[h].at \in {"select", "save"} => record[i].status = None
       /\ handler[h].at # "spawn" => \A j \in Ids : active[j] # o
HoldersReserve == \A h \in Handlers : handler[h].at \in Holding => HolderKnows(h)

HoldersApart ==
    \A g, h \in Handlers :
        /\ g # h /\ handler[g].at \in Holding /\ handler[h].at \in Holding
              => handler[g].owner # handler[h].owner
        /\ g # h /\ handler[h].at \in {"select", "save"} => handler[g].id # handler[h].id

\* A row has a request exactly when it exists.
RecordsNamed == \A i \in Ids : record[i].status = None <=> record[i].request = None

\* A listed reservation is allocated, and no two listed ones overlap.
ReservationsDisjoint ==
    /\ \A o \in reservations : owner[o].request \in Requests
    /\ \A o, p \in reservations : o # p => ~Overlap(owner[o].request, owner[p].request)

\* A task runs only while its reservation is listed, on the record of its owner.
LiveIsReserved ==
    \A o \in Owners : task[o] \in Live =>
        /\ o \in reservations
        /\ owner[o].id \in Ids
        /\ record[owner[o].id].request = owner[o].request

\* The map leads from an id to a listed reservation made for its record.
ActiveIsReserved ==
    \A i \in Ids : active[i] # None =>
        /\ active[i] \in reservations
        /\ owner[active[i]].id = i
        /\ owner[active[i]].request = record[i].request

\* A freed slot has no task.
FreedHasNoTask == \A o \in Owners : ~Allocated(o) => task[o] = None

\* What pruneRetired frees was retired by its task, is allocated once, and is in
\* the hands of one handler only.
RetiredIsDone == \A o \in retired : o \notin reservations /\ owner[o].request # None
ReadyIsDone ==
    /\ \A h \in Handlers : \A o \in handler[h].ready :
          /\ handler[h].at = "reap"
          /\ o \notin reservations \cup retired
          /\ owner[o].request # None
    /\ \A g, h \in Handlers : g # h => handler[g].ready \cap handler[h].ready = {}

ReservationInv ==
    /\ TypeOK
    /\ LocalsMatch /\ HoldersReserve /\ HoldersApart
    /\ RecordsNamed /\ ReservationsDisjoint
    /\ LiveIsReserved /\ ActiveIsReserved
    /\ FreedHasNoTask /\ RetiredIsDone /\ ReadyIsDone

-----------------------------------------------------------------------------
(* Liveness: handlers and tasks keep running, but nothing says that Hugging   *)
(* Face ever answers: neither the selection nor a transfer is fair.           *)

Fairness ==
    /\ \A h \in Handlers : WF_vars(Prune(h) \/ Reap(h) \/ CancelLookup(h) \/ CancelGroup(h)
                                   \/ AwaitTask(h) \/ DropHandle(h) \/ Install(h) \/ Spawn(h))
    /\ \A o \in Owners : WF_vars(TaskBegin(o) \/ TaskNext(o) \/ TaskCheck(o) \/ TaskFinalize(o)
                                 \/ TaskStamp(o) \/ TaskFail(o) \/ TaskCanceled(o) \/ TaskRetire(o) \/ TaskReturn(o))

FairSpec == Spec /\ Fairness

\* A pause or a cancel is answered, even when the transfer it stops hangs.
StopIsAnswered ==
    \A h \in Handlers : handler[h].call \in Stopped ~> handler[h].call = None
=============================================================================
