------------------------ MODULE DownloadRecordProofs ------------------------
(***************************************************************************)
(* What the records of DownloadManager say, for any number of handlers,    *)
(* ids, requests and owners: a running record has a task or a known reason *)
(* to have none, and a stopped one stays stopped.                          *)
(***************************************************************************)
EXTENDS DownloadManagerProofs, FiniteSetTheorems

USE DEF None

\* A record that runs nowhere may say that it runs only for a known reason.
Excused(i) == record[i].status \in Running => i \in orphaned

\* What a task that is not yet retired has seen of its record
TaskKnows(o) ==
    LET i == owner[o].id
    IN task[o] \in Live =>
         /\ task[o] = "begin" => record[i].status # "downloading"
         /\ task[o] = "retire" \/ owner[o].cancelRequested => Excused(i)
         /\ owner[o].interrupted => owner[o].cancelRequested
         /\ task[o] \in {"check", "complete"} => record[i].files = FileCount
         /\ task[o] # "incomplete"
         /\ task[o] = "stamp" => record[i].status \notin Running

\* What a handler that starts a task, or stops one, has seen of it
StopKnows(h) ==
    LET i == handler[h].id
        o == handler[h].owner
    IN /\ handler[h].at \in {"install", "spawn"} => record[i].status # "downloading"
       /\ handler[h].at \in Holding => ~owner[o].interrupted
       /\ handler[h].at \in Holding /\ owner[o].cancelRequested =>
             handler[h].at = "spawn" /\ Excused(i)
       /\ handler[h].at = "lookup" /\ ~handler[h].late => Excused(i)
       /\ handler[h].at = "cancel" => o \in Owners /\ (owner[o].cancelRequested \/ ~Allocated(o))

StatusInv ==
    /\ RunningHasTask
    /\ \A o \in Owners : TaskKnows(o)
    /\ \A h \in Handlers : StopKnows(h)

-----------------------------------------------------------------------------
(* What a step leaves alone *)

\* The record of id i; a reason once known stays.
RowSame(i) ==
    /\ record'[i].status = record[i].status /\ record'[i].files = record[i].files
    /\ i \in orphaned => i \in orphaned'

\* What the invariant reads of an owner
Steady(o) ==
    /\ owner'[o].id = owner[o].id /\ owner'[o].request = owner[o].request
    /\ owner'[o].cancelRequested = owner[o].cancelRequested
    /\ owner'[o].interrupted = owner[o].interrupted

\* Every handler but h; one may learn that a resume overtook it.
Same(g) ==
    /\ handler'[g].at = handler[g].at /\ handler'[g].id = handler[g].id
    /\ handler'[g].owner = handler[g].owner
    /\ handler[g].late => handler'[g].late
Untouched(h) == \A g \in Handlers \ {h} : Same(g)

\* A task that does not move keeps what it knows.
LEMMA TaskStays ==
    ASSUME NEW o, TaskKnows(o), task'[o] \in Live => task'[o] = task[o],
           Steady(o), task[o] \in Live => RowSame(owner[o].id)
    PROVE  TaskKnows(o)'
<1>1. CASE task'[o] \notin Live
  BY <1>1 DEF TaskKnows
<1>2. CASE task'[o] \in Live
  BY <1>2 DEF TaskKnows, Steady, RowSame, Excused
<1> QED BY <1>1, <1>2

\* So does a handler whose owner and record stay.
LEMMA HandlerStays ==
    ASSUME NEW g, StopKnows(g), Same(g),
           handler[g].at \in {"install", "spawn", "lookup"} => RowSame(handler[g].id),
           handler[g].at \in Holding \cup {"cancel"} =>
              Steady(handler[g].owner) \/ (handler[g].at = "cancel" /\ ~Allocated(handler[g].owner)')
    PROVE  StopKnows(g)'
<1> USE DEF StopKnows, Same
<1>1. handler'[g].at \in {"install", "spawn"} => record'[handler'[g].id].status # "downloading"
  BY DEF RowSame
<1>2. handler'[g].at \in Holding => ~owner'[handler'[g].owner].interrupted
  BY DEF Steady, Holding
<1>3. handler'[g].at \in Holding /\ owner'[handler'[g].owner].cancelRequested =>
         handler'[g].at = "spawn" /\ Excused(handler[g].id)'
  BY DEF Steady, Holding, RowSame, Excused
<1>4. handler'[g].at = "lookup" /\ ~handler'[g].late => Excused(handler[g].id)'
  BY DEF RowSame, Excused
<1>5. handler'[g].at = "cancel" =>
         /\ handler'[g].owner \in Owners
         /\ owner'[handler'[g].owner].cancelRequested \/ ~Allocated(handler[g].owner)'
  BY DEF Steady, Allocated
<1> QED BY <1>1, <1>2, <1>3, <1>4, <1>5

\* A running record keeps its task through a step that moves no live task and no handler
\* on its way to spawn one.
LEMMA RunningStays ==
    ASSUME RunningHasTask, NEW h \in Handlers, Untouched(h), UNCHANGED record,
           orphaned \subseteq orphaned',
           \A o \in Owners : task[o] \in Live => task'[o] \in Live /\ owner'[o].id = owner[o].id,
           handler[h].at \in {"install", "spawn"} =>
              \/ handler[h].id \in orphaned'
              \/ handler'[h].at \in {"install", "spawn"} /\ handler'[h].id = handler[h].id
              \/ \E o \in Owners : task'[o] \in Live /\ owner'[o].id = handler[h].id
    PROVE  RunningHasTask'
<1> SUFFICES ASSUME NEW i \in Ids, record[i].status \in Running
             PROVE  \/ \E o \in Owners : owner'[o].id = i /\ task'[o] \in Live
                    \/ Starting(i)'
                    \/ i \in orphaned'
  BY DEF RunningHasTask
<1>1. CASE \E o \in Owners : owner[o].id = i /\ task[o] \in Live
  BY <1>1
<1>2. CASE i \in orphaned
  BY <1>2
<1>3. CASE Starting(i)
  <2>1. PICK g \in Handlers : handler[g].id = i /\ handler[g].at \in {"install", "spawn"}
    BY <1>3 DEF Starting
  <2>2. CASE g = h
    BY <2>1, <2>2 DEF Starting
  <2>3. CASE g # h
    BY <2>1, <2>3 DEF Starting, Untouched, Same
  <2> QED BY <2>2, <2>3
<1> QED BY <1>1, <1>2, <1>3 DEF RunningHasTask

\* A step of a handler that writes no record.
LEMMA HandlerSteps ==
    ASSUME ReservationInv, StatusInv, NEW h \in Handlers, Untouched(h), UNCHANGED record,
           orphaned \subseteq orphaned',
           \A o \in Owners : task[o] \in Live => task'[o] = task[o],
           \A o \in Owners : task'[o] \in Live => task[o] \in Live,
           \A o \in Owners : task[o] \in Live => Steady(o),
           \A g \in Handlers \ {h} : handler[g].at \in Holding => Steady(handler[g].owner),
           \A g \in Handlers \ {h} : handler[g].at = "cancel" =>
              Steady(handler[g].owner) \/ ~Allocated(handler[g].owner)',
           handler[h].at \in {"install", "spawn"} =>
              \/ handler[h].id \in orphaned'
              \/ handler'[h].at \in {"install", "spawn"} /\ handler'[h].id = handler[h].id,
           StopKnows(h)'
    PROVE  StatusInv'
<1>1. \A i : RowSame(i)
  BY DEF RowSame
<1>2. RunningHasTask'
  BY RunningStays DEF StatusInv, Steady
<1>3. ASSUME NEW o \in Owners PROVE TaskKnows(o)'
  <2>1. CASE task[o] \in Live
    BY <1>1, <2>1, TaskStays DEF StatusInv
  <2>2. CASE task[o] \notin Live
    BY <2>2 DEF TaskKnows
  <2> QED BY <2>1, <2>2
<1>4. ASSUME NEW g \in Handlers \ {h} PROVE StopKnows(g)'
  <2>1. StopKnows(g) /\ Same(g) /\ g \in Handlers
    BY DEF StatusInv, Untouched
  <2>2. handler[g].at \in Holding \cup {"cancel"} =>
           Steady(handler[g].owner) \/ (handler[g].at = "cancel" /\ ~Allocated(handler[g].owner)')
    BY <2>1
  <2> QED BY <1>1, <2>1, <2>2, HandlerStays
<1> QED BY <1>2, <1>3, <1>4 DEF StatusInv

-----------------------------------------------------------------------------
(* The steps of a handler that write no record *)

\* A handler takes a new place.
LEMMA PutEffect ==
    ASSUME TypeOK, NEW h \in Handlers, NEW call, handler' = [handler EXCEPT ![h] = call]
    PROVE  Untouched(h) /\ handler'[h] = call
BY DEF TypeOK, Untouched, Same

\* It goes on with its locals.
LEMMA GotoPuts ==
    ASSUME TypeOK, NEW h \in Handlers, NEW place, Goto(h, place)
    PROVE  /\ Untouched(h) /\ handler'[h].at = place /\ handler'[h].id = handler[h].id
           /\ handler'[h].owner = handler[h].owner /\ handler'[h].late = handler[h].late
<1> DEFINE call == [handler[h] EXCEPT !.at = place]
<1>1. handler' = [handler EXCEPT ![h] = call]
  BY DEF Goto
<1>2. handler[h] \in Handler
  BY DEF TypeOK
<1>3. /\ call.at = place /\ call.id = handler[h].id
      /\ call.owner = handler[h].owner /\ call.late = handler[h].late
  BY <1>2 DEF Handler
<1> HIDE DEF call
<1> QED BY <1>1, <1>3, PutEffect

\* It returns.
LEMMA ReturnPuts ==
    ASSUME TypeOK, NEW h \in Handlers, Return(h)
    PROVE  Untouched(h) /\ handler'[h].at = "idle"
<1>1. handler' = [handler EXCEPT ![h] = IdleHandler]
  BY DEF Return
<1>2. Untouched(h) /\ handler'[h] = IdleHandler
  BY <1>1, PutEffect
<1> QED BY <1>2 DEF IdleHandler, NewCall

\* It looks around, and neither holds a reservation nor stops a task.
LEMMA LooksAround ==
    ASSUME ReservationInv, StatusInv, NEW h \in Handlers, Untouched(h),
           UNCHANGED <<record, owner, task, orphaned>>,
           handler[h].at \notin {"install", "spawn"},
           handler'[h].at \notin Holding \cup {"lookup", "cancel"}
    PROVE  StatusInv'
<1>1. \A o : Steady(o)
  BY DEF Steady
<1>2. StopKnows(h)'
  BY DEF StopKnows, Holding
<1> QED BY <1>1, <1>2, HandlerSteps

\* The first steps of startPayload and resumePayload, and the wait of a stop.
LEMMA LookingKeeps ==
    ASSUME ReservationInv, StatusInv, NEW h \in Handlers,
           \/ StartCall(h) \/ ResumeCall(h) \/ Prune(h) \/ ReadRecord(h)
           \/ CallFails(h) \/ AcquireRefused(h) \/ AwaitTask(h)
    PROVE  StatusInv'
<1>1. TypeOK /\ handler[h] \in Handler
  BY DEF ReservationInv, TypeOK
<1>2. /\ UNCHANGED <<record, owner, task, orphaned>>
      /\ handler[h].at \notin {"install", "spawn"}
  BY DEF StartCall, ResumeCall, Prune, ReadRecord, CallFails, AcquireRefused, AwaitTask
<1>3. Untouched(h) /\ handler'[h].at \notin Holding \cup {"lookup", "cancel"}
  <2>1. CASE StartCall(h)
    <3>1. PICK r \in Requests : handler' = [handler EXCEPT ![h] = NewCall("prune", "start", None, r)]
      BY <2>1 DEF StartCall
    <3>2. Untouched(h) /\ handler'[h] = NewCall("prune", "start", None, r)
      BY <1>1, <3>1, PutEffect
    <3> QED BY <3>2 DEF NewCall, Holding
  <2>2. CASE ResumeCall(h)
    <3>1. PICK i \in Ids : handler' = [handler EXCEPT ![h] = NewCall("prune", "resume", i, None)]
      BY <2>2 DEF ResumeCall
    <3>2. Untouched(h) /\ handler'[h] = NewCall("prune", "resume", i, None)
      BY <1>1, <3>1, PutEffect
    <3> QED BY <3>2 DEF NewCall, Holding
  <2>3. CASE Prune(h)
    <3> DEFINE ready == {o \in retired : owner[o].finished /\ owner[o].handles = 0}
               reaps == [handler[h] EXCEPT !.at = "reap", !.ready = ready]
               call == IF ready = {} THEN AfterPrune(h) ELSE reaps
    <3>1. /\ handler' = [handler EXCEPT ![h] = call]
          /\ call = AfterPrune(h) \/ call.at = "reap"
      <4>1. handler' = [handler EXCEPT ![h] = call]
        BY <1>1, <2>3 DEF Prune, TypeOK
      <4>2. reaps.at = "reap"
        BY <1>1 DEF Handler
      <4> QED BY <4>1, <4>2
    <3> HIDE DEF call
    <3>2. call.at \in {"acquire", "read", "idle", "reap"}
      BY <3>1 DEF AfterPrune, NewCall, IdleHandler
    <3> QED BY <1>1, <3>1, <3>2, PutEffect DEF Holding
  <2>4. CASE ReadRecord(h)
    <3>1. PICK call : handler' = [handler EXCEPT ![h] = call] /\ call.at \in {"idle", "acquire"}
      BY <1>1, <2>4 DEF ReadRecord, Return, IdleHandler, NewCall, TypeOK, Handler
    <3> QED BY <1>1, <3>1, PutEffect DEF Holding
  <2>5. CASE AcquireRefused(h) \/ CallFails(h)
    BY <1>1, <2>5, ReturnPuts DEF AcquireRefused, CallFails, Holding
  <2>6. CASE AwaitTask(h)
    BY <1>1, <2>6, GotoPuts DEF AwaitTask, Holding
  <2> QED BY <2>1, <2>2, <2>3, <2>4, <2>5, <2>6
<1> QED BY <1>2, <1>3, LooksAround

\* Owners without a live task are freed.
LEMMA Frees ==
    ASSUME ReservationInv, StatusInv, NEW h \in Handlers, NEW S \in SUBSET Owners,
           Untouched(h), UNCHANGED record, orphaned \subseteq orphaned',
           owner' = Freed(S), \A o \in S : task[o] \notin Live,
           \A o \in Owners \ S : task'[o] = task[o], \A o \in S : task'[o] \notin Live,
           \A g \in Handlers \ {h} : handler[g].at \in Holding => handler[g].owner \notin S,
           handler[h].at \in {"install", "spawn"} => handler[h].id \in orphaned',
           handler'[h].at \notin Holding \cup {"lookup", "cancel"}
    PROVE  StatusInv'
<1>1. \A o \in Owners \ S : owner'[o] = owner[o]
  BY FreedEffect DEF ReservationInv
<1>2. \A o \in Owners \ S : Steady(o)
  BY <1>1 DEF Steady
<1>3. \A o \in S : ~Allocated(o)'
  BY DEF Freed, FreeOwner, NewOwner, Allocated
<1>4. \A o \in Owners : task[o] \in Live => o \in Owners \ S
  OBVIOUS
<1>5. ASSUME NEW g \in Handlers \ {h}, handler[g].at \in Holding PROVE Steady(handler[g].owner)
  BY <1>2, <1>5, HolderFacts
<1>6. ASSUME NEW g \in Handlers \ {h}, handler[g].at = "cancel"
      PROVE  Steady(handler[g].owner) \/ ~Allocated(handler[g].owner)'
  <2>1. CASE handler[g].owner \in S
    BY <1>3, <2>1 DEF Untouched, Same, Allocated
  <2>2. CASE handler[g].owner \in Owners \ S
    BY <1>2, <2>2
  <2> QED BY <1>6, <2>1, <2>2 DEF StatusInv, StopKnows
<1>7. StopKnows(h)'
  BY DEF StopKnows, Holding
<1> QED BY <1>2, <1>4, <1>5, <1>6, <1>7, HandlerSteps

\* pruneRetired frees tasks that have returned.
LEMMA ReapKeepsStatus ==
    ASSUME ReservationInv, StatusInv, NEW h \in Handlers, Reap(h) PROVE StatusInv'
<1> DEFINE S == handler[h].ready
<1>1. TypeOK /\ S \in SUBSET Owners /\ HoldersReserve
      /\ \A o \in S : task[o] = "returned" /\ o \notin reservations
  BY DEF ReservationInv, TypeOK, Handler, Reap, ReadyIsDone
<1>2. PICK call : handler' = [handler EXCEPT ![h] = call] /\ call = AfterPrune(h)
  BY DEF Reap
<1>3. call.at \in {"acquire", "read", "idle"}
  BY <1>2 DEF AfterPrune, NewCall, IdleHandler
<1>4. Untouched(h) /\ handler'[h] = call
  BY <1>1, <1>2, PutEffect
<1>5. /\ \A o \in S : task[o] \notin Live
      /\ \A o \in Owners \ S : task'[o] = task[o]
      /\ \A o \in S : task'[o] \notin Live
  BY <1>1 DEF Reap, Unspawned, Live, Working
<1>6. \A g \in Handlers \ {h} : handler[g].at \in Holding => handler[g].owner \notin S
  BY <1>1, HolderFacts
<1>7. /\ UNCHANGED record /\ orphaned \subseteq orphaned' /\ owner' = Freed(S)
      /\ handler[h].at \notin {"install", "spawn"}
      /\ handler'[h].at \notin Holding \cup {"lookup", "cancel"}
  BY <1>3, <1>4 DEF Reap, Holding
<1> HIDE DEF S
<1> QED BY <1>1, <1>4, <1>5, <1>6, <1>7, Frees

\* A handler frees the owner it holds and answers.
LEMMA HolderLetsGo ==
    ASSUME ReservationInv, StatusInv, NEW h \in Handlers, handler[h].at \in Holding,
           Untouched(h), handler'[h].at = "idle", owner' = Freed({handler[h].owner}),
           UNCHANGED <<record, task>>, orphaned \subseteq orphaned',
           handler[h].at \in {"install", "spawn"} => handler[h].id \in orphaned'
    PROVE  StatusInv'
<1> DEFINE S == {handler[h].owner}
<1>1. /\ S \in SUBSET Owners
      /\ \A o \in S : task[o] \notin Live /\ task'[o] \notin Live
      /\ \A g \in Handlers \ {h} : handler[g].at \in Holding => handler[g].owner \notin S
  BY HolderFacts DEF Live, Working
<1>2. owner' = Freed(S) /\ handler'[h].at \notin Holding \cup {"lookup", "cancel"}
  BY DEF Holding
<1> HIDE DEF S
<1> QED BY <1>1, <1>2, Frees

\* The search for a record of the same model fails, finds one, or goes on.
LEMMA SelectingKeeps ==
    ASSUME ReservationInv, StatusInv, NEW h \in Handlers, StartFails(h) \/ LookupReusable(h)
    PROVE  StatusInv'
<1>1. /\ TypeOK /\ handler[h].at \in {"select", "save", "queue"}
      /\ UNCHANGED <<record, task, orphaned>>
  BY DEF ReservationInv, StartFails, LookupReusable
<1>2. CASE Release(h)
  BY <1>1, <1>2, ReturnPuts, HolderLetsGo DEF Release, Holding
<1>3. CASE Goto(h, "save") /\ UNCHANGED <<reservations, owner>>
  <2>1. /\ Untouched(h) /\ handler'[h].at = "save" /\ handler'[h].owner = handler[h].owner
    BY <1>1, <1>3, GotoPuts
  <2>2. StopKnows(h)'
    BY <1>1, <1>3, <2>1 DEF StatusInv, StopKnows, Holding
  <2>3. \A o : Steady(o)
    BY <1>3 DEF Steady
  <2> QED BY <1>1, <2>1, <2>2, <2>3, HandlerSteps
<1> QED BY <1>2, <1>3 DEF StartFails, LookupReusable

\* The slot of a new reservation belongs to nobody.
LEMMA GrantKeeps ==
    ASSUME ReservationInv, StatusInv, NEW h \in Handlers, AcquireGranted(h) PROVE StatusInv'
<1> DEFINE place == IF handler[h].call = "resume" THEN "queue" ELSE "select"
           r == handler[h].request
<1>1. PICK o \in Owners, i \in IF handler[h].call = "resume" THEN {handler[h].id}
                              ELSE {j \in Ids : Fresh(j)} :
         /\ Available(o)
         /\ owner' = [owner EXCEPT ![o] = NewOwner(i, r)]
         /\ handler' = [handler EXCEPT ![h].at = place, ![h].id = i, ![h].owner = o]
  BY DEF AcquireGranted
<1>2. /\ TypeOK /\ handler[h].at = "acquire" /\ task[o] = None
      /\ \A g \in Handlers : handler[g].owner # o
  BY <1>1 DEF AcquireGranted, ReservationInv, FreedHasNoTask, Available
<1>3. UNCHANGED <<record, task, orphaned>>
  BY DEF AcquireGranted
<1>4. /\ \A p \in Owners \ {o} : owner'[p] = owner[p]
      /\ ~owner'[o].interrupted /\ ~owner'[o].cancelRequested
  BY <1>1, <1>2 DEF TypeOK, NewOwner
<1>5. Untouched(h) /\ handler'[h].at = place /\ handler'[h].owner = o
  <2> DEFINE new == [handler[h] EXCEPT !.at = place, !.id = i, !.owner = o]
  <2>1. handler' = [handler EXCEPT ![h] = new]
    BY <1>1, <1>2 DEF TypeOK, Handler
  <2>2. new.at = place /\ new.owner = o
    BY <1>2 DEF TypeOK, Handler
  <2> HIDE DEF new, place
  <2> QED BY <1>2, <2>1, <2>2, PutEffect
<1>6. StopKnows(h)'
  BY <1>4, <1>5 DEF StopKnows, Holding
<1>7. \A p \in Owners \ {o} : Steady(p)
  BY <1>4 DEF Steady
<1>8. \A p \in Owners : task[p] \in Live => Steady(p)
  BY <1>2, <1>7 DEF Live, Working
<1>9. ASSUME NEW g \in Handlers \ {h}
      PROVE  /\ handler[g].at \in Holding => Steady(handler[g].owner)
             /\ handler[g].at = "cancel" => Steady(handler[g].owner)
  <2>1. handler[g].at \in Holding => handler[g].owner \in Owners
    BY HolderFacts
  <2>2. handler[g].at = "cancel" => handler[g].owner \in Owners
    BY DEF StatusInv, StopKnows
  <2> QED BY <1>2, <1>7, <2>1, <2>2
<1>10. handler[h].at \notin {"install", "spawn"}
  BY <1>2
<1> QED BY <1>3, <1>5, <1>6, <1>8, <1>9, <1>10, HandlerSteps

-----------------------------------------------------------------------------
(* One reservation for each record *)

\* Two listed reservations have different requests.
LEMMA OneReservation ==
    ASSUME ReservationInv, NEW o \in reservations, NEW p \in reservations, o # p
    PROVE  owner[o].request # owner[p].request
BY ContainsAssumption DEF ReservationInv, ReservationsDisjoint, Overlap

\* The record of a live task is that of no other task and of no handler that starts one.
LEMMA LiveIsAlone ==
    ASSUME ReservationInv, NEW o \in Owners, task[o] \in Live
    PROVE  /\ owner[o].id \in Ids /\ record[owner[o].id].status # None
           /\ \A p \in Owners \ {o} : task[p] \in Live => owner[p].id # owner[o].id
           /\ \A g \in Handlers :
                 handler[g].at \in {"save", "queue", "install", "spawn"} =>
                    handler[g].id # owner[o].id /\ handler[g].owner # o
<1>1. /\ owner[o].id \in Ids /\ o \in reservations
      /\ record[owner[o].id].request = owner[o].request /\ owner[o].request \in Requests
  BY DEF ReservationInv, LiveIsReserved, ReservationsDisjoint
<1>2. record[owner[o].id].status # None
  BY <1>1, NoneAssumption DEF ReservationInv, RecordsNamed
<1>3. ASSUME NEW p \in Owners \ {o}, task[p] \in Live PROVE owner[p].id # owner[o].id
  <2>1. p \in reservations /\ record[owner[p].id].request = owner[p].request
    BY <1>3 DEF ReservationInv, LiveIsReserved
  <2> QED BY <1>1, <2>1, OneReservation
<1>4. ASSUME NEW g \in Handlers, handler[g].at \in {"save", "queue", "install", "spawn"}
      PROVE  handler[g].id # owner[o].id /\ handler[g].owner # o
  <2>1. /\ handler[g].owner \in reservations /\ task[handler[g].owner] = None
        /\ owner[handler[g].owner].request = handler[g].request
        /\ handler[g].at # "save" => record[handler[g].id].request = handler[g].request
        /\ handler[g].at = "save" => record[handler[g].id].status = None
    BY <1>4, HolderFacts DEF Holding
  <2>2. handler[g].owner # o
    BY <2>1 DEF Live, Working
  <2> QED BY <1>1, <1>2, <1>4, <2>1, <2>2, OneReservation
<1> QED BY <1>1, <1>2, <1>3, <1>4

\* So is the record of a handler that starts a task.
LEMMA StartIsAlone ==
    ASSUME ReservationInv, NEW h \in Handlers, handler[h].at \in {"save", "queue"},
           NEW g \in Handlers \ {h}
    PROVE  /\ handler[g].at \in {"install", "spawn"} => handler[g].id # handler[h].id
           /\ handler[h].at = "save" => handler[g].id # handler[h].id
<1>1. handler[h].at = "save" => handler[g].id # handler[h].id
  BY DEF ReservationInv, HoldersApart
<1>2. ASSUME handler[h].at = "queue", handler[g].at \in {"install", "spawn"}
      PROVE  handler[g].id # handler[h].id
  <2>1. /\ handler[h].owner \in reservations
        /\ owner[handler[h].owner].request = record[handler[h].id].request
    BY <1>2, HolderFacts DEF Holding
  <2>2. /\ handler[g].owner \in reservations /\ handler[g].owner # handler[h].owner
        /\ owner[handler[g].owner].request = record[handler[g].id].request
    BY <1>2, HolderFacts DEF Holding
  <2> QED BY <2>1, <2>2, OneReservation
<1> QED BY <1>1, <1>2

-----------------------------------------------------------------------------
(* The steps of a handler that write a record *)

\* A record is queued by a handler that goes on to spawn its task.
LEMMA QueuesRow ==
    ASSUME ReservationInv, StatusInv, NEW h \in Handlers, handler[h].at \in {"save", "queue"},
           Untouched(h), UNCHANGED <<owner, task>>,
           record'[handler[h].id].status = "queued",
           \A j \in Ids \ {handler[h].id} : RowSame(j),
           \A g \in Handlers \ {h} :
              handler[g].at = "lookup" /\ handler[g].id = handler[h].id => handler'[g].late,
           handler'[h].at = "install", handler'[h].id = handler[h].id,
           handler'[h].owner = handler[h].owner
    PROVE  StatusInv'
<1> DEFINE i == handler[h].id
<1>1. i \in Ids
  BY HolderFacts DEF Holding
<1>2. \A o : Steady(o)
  BY DEF Steady
<1>3. RunningHasTask'
  <2> SUFFICES ASSUME NEW j \in Ids, record'[j].status \in Running
               PROVE  \/ \E o \in Owners : owner'[o].id = j /\ task'[o] \in Live
                      \/ Starting(j)'
                      \/ j \in orphaned'
    BY DEF RunningHasTask
  <2>1. CASE j = i
    BY <2>1 DEF Starting
  <2>2. CASE j # i
    <3>1. RowSame(j)
      BY <2>2
    <3>2. \/ \E o \in Owners : owner[o].id = j /\ task[o] \in Live
          \/ Starting(j)
          \/ j \in orphaned
      BY <3>1 DEF StatusInv, RunningHasTask, RowSame
    <3>3. ASSUME NEW g \in Handlers, handler[g].id = j, handler[g].at \in {"install", "spawn"}
          PROVE  Starting(j)'
      BY <2>2, <3>3 DEF Starting, Untouched, Same
    <3> QED BY <3>1, <3>2, <3>3 DEF Starting, RowSame
  <2> QED BY <2>1, <2>2
<1>4. ASSUME NEW o \in Owners PROVE TaskKnows(o)'
  <2>1. CASE task[o] \in Live
    <3>1. owner[o].id \in Ids \ {i}
      BY <2>1, LiveIsAlone
    <3> QED BY <1>2, <3>1, TaskStays DEF StatusInv
  <2>2. CASE task[o] \notin Live
    BY <2>2 DEF TaskKnows
  <2> QED BY <2>1, <2>2
<1>5. ASSUME NEW g \in Handlers \ {h} PROVE StopKnows(g)'
  <2>1. StopKnows(g) /\ Same(g)
    BY DEF StatusInv, Untouched
  <2>2. CASE handler[g].at = "lookup" /\ handler[g].id = i
    BY <2>1, <2>2 DEF StopKnows, Same, Holding
  <2>3. CASE ~(handler[g].at = "lookup" /\ handler[g].id = i)
    <3>1. handler[g].at \in {"install", "spawn", "lookup"} => handler[g].id \in Ids \ {i}
      BY <2>3, StartIsAlone, HolderFacts DEF Holding, ReservationInv, LocalsMatch, CallerKnows
    <3> QED BY <1>2, <2>1, <3>1, HandlerStays
  <2> QED BY <2>2, <2>3
<1>6. StopKnows(h)'
  BY DEF StatusInv, StopKnows, Holding
<1> QED BY <1>3, <1>4, <1>5, <1>6 DEF StatusInv

\* A start saves a record that nobody had.
LEMMA SaveRecordKeepsStatus ==
    ASSUME ReservationInv, StatusInv, NEW h \in Handlers, SaveRecord(h) PROVE StatusInv'
<1> DEFINE i == handler[h].id
           row == [request |-> handler[h].request, status |-> "queued", files |-> 0]
<1>1. /\ TypeOK /\ handler[h].at = "save" /\ i \in Ids
      /\ UNCHANGED <<owner, task, orphaned>>
  BY HolderFacts DEF SaveRecord, Holding
<1>2. record'[i].status = "queued" /\ \A j \in Ids \ {i} : RowSame(j)
  <2>1. record' = [record EXCEPT ![i] = row] /\ row.status = "queued"
    BY DEF SaveRecord
  <2> HIDE DEF row
  <2> QED BY <1>1, <2>1 DEF TypeOK, RowSame
<1>3. /\ Untouched(h) /\ handler'[h].at = "install" /\ handler'[h].id = i
      /\ handler'[h].owner = handler[h].owner
  BY <1>1, GotoPuts DEF SaveRecord
<1>4. \A g \in Handlers \ {h} : handler[g].id # i
  BY <1>1, StartIsAlone
<1> QED BY <1>1, <1>2, <1>3, <1>4, QueuesRow

\* A resume queues the record and overtakes the stops of it.
LEMMA QueueRecordKeepsStatus ==
    ASSUME ReservationInv, StatusInv, NEW h \in Handlers, QueueRecord(h) PROVE StatusInv'
<1> DEFINE i == handler[h].id
           next(g) == IF g = h THEN [handler[g] EXCEPT !.at = "install"]
                      ELSE IF handler[g].at = "lookup" /\ handler[g].id = i
                           THEN [handler[g] EXCEPT !.late = TRUE] ELSE handler[g]
<1>1. /\ TypeOK /\ handler[h].at = "queue" /\ i \in Ids /\ UNCHANGED <<owner, task>>
      /\ \A g \in Handlers : handler[g] \in Handler
  BY HolderFacts DEF QueueRecord, Holding, TypeOK
<1>2. record'[i].status = "queued" /\ \A j \in Ids \ {i} : RowSame(j)
  <2>1. SetStatus(i, "queued") /\ orphaned' = orphaned \ {i}
    BY DEF QueueRecord
  <2> QED BY <1>1, <2>1, SetStatusEffect DEF RowSame, Statuses
<1>3. \A g \in Handlers : handler'[g] = next(g)
  BY DEF QueueRecord
<1>4. /\ next(h).at = "install" /\ next(h).id = i /\ next(h).owner = handler[h].owner
      /\ \A g \in Handlers \ {h} :
            /\ next(g).at = handler[g].at /\ next(g).id = handler[g].id
            /\ next(g).owner = handler[g].owner /\ (handler[g].late => next(g).late)
            /\ handler[g].at = "lookup" /\ handler[g].id = i => next(g).late
  BY <1>1 DEF Handler
<1> HIDE DEF next
<1>5. Untouched(h)
  BY <1>3, <1>4 DEF Untouched, Same
<1> QED BY <1>1, <1>2, <1>3, <1>4, <1>5, QueuesRow

\* A stop writes the record of a task that runs on until it is canceled.
LEMMA StopCallKeepsStatus ==
    ASSUME ReservationInv, StatusInv, NEW h \in Handlers, StopCall(h) PROVE StatusInv'
<1>1. PICK i \in Ids, s \in Stopped :
         /\ record[i].status # None /\ SetStatus(i, s)
         /\ handler' = [handler EXCEPT ![h] = NewCall("lookup", s, i, None)]
  BY DEF StopCall
<1>2. TypeOK /\ handler[h].at = "idle" /\ UNCHANGED <<owner, task, orphaned>>
  BY DEF ReservationInv, StopCall
<1>3. /\ record'[i].status = s /\ s \notin Running /\ record'[i].files = record[i].files
      /\ \A j \in Ids \ {i} : RowSame(j)
  <2>1. s \in Statuses /\ s \notin Running
    BY DEF Stopped, Statuses, Running
  <2>2. record'[i].files = record[i].files
    BY <1>1, <1>2 DEF SetStatus, TypeOK, Record
  <2> QED BY <1>1, <1>2, <2>1, <2>2, SetStatusEffect DEF RowSame
<1>4. Untouched(h) /\ handler'[h].at = "lookup" /\ handler'[h].id = i
  <2>1. Untouched(h) /\ handler'[h] = NewCall("lookup", s, i, None)
    BY <1>1, <1>2, PutEffect
  <2> QED BY <2>1 DEF NewCall
<1>5. Excused(i)' /\ \A j \in Ids \ {i} : Excused(j) => Excused(j)'
  BY <1>2, <1>3 DEF Excused, RowSame
<1>6. RunningHasTask'
  <2> SUFFICES ASSUME NEW j \in Ids \ {i}, record[j].status \in Running
               PROVE  \/ \E o \in Owners : owner[o].id = j /\ task[o] \in Live
                      \/ Starting(j)'
                      \/ j \in orphaned
    BY <1>2, <1>3 DEF RunningHasTask, RowSame
  <2>1. ASSUME NEW g \in Handlers, handler[g].id = j, handler[g].at \in {"install", "spawn"}
        PROVE  Starting(j)'
    BY <1>2, <1>4, <2>1 DEF Starting, Untouched, Same
  <2> QED BY <2>1 DEF StatusInv, RunningHasTask, Starting
<1>7. ASSUME NEW o \in Owners PROVE TaskKnows(o)'
  <2>1. CASE task[o] \in Live
    <3>1. TaskKnows(o) /\ owner[o].id \in Ids
      BY <2>1, LiveIsAlone DEF StatusInv
    <3>2. record'[owner[o].id].status = "downloading" => record[owner[o].id].status = "downloading"
      BY <1>3, <3>1 DEF RowSame, Stopped
    <3>3. record'[owner[o].id].files = record[owner[o].id].files
      BY <1>3, <3>1 DEF RowSame
    <3>4. Excused(owner[o].id) => Excused(owner[o].id)'
      BY <1>2, <1>5, <3>1
    <3>5. record'[owner[o].id].status \in Running => record[owner[o].id].status \in Running
      BY <1>3, <3>1 DEF RowSame
    <3> QED BY <1>2, <3>1, <3>2, <3>3, <3>4, <3>5 DEF TaskKnows
  <2>2. CASE task[o] \notin Live
    BY <1>2, <2>2 DEF TaskKnows
  <2> QED BY <2>1, <2>2
<1>8. ASSUME NEW g \in Handlers \ {h} PROVE StopKnows(g)'
  <2>1. StopKnows(g) /\ Same(g)
    BY <1>4 DEF StatusInv, Untouched
  <2>2. handler[g].at \in {"install", "spawn", "lookup"} => handler[g].id \in Ids
    BY HolderFacts DEF Holding, ReservationInv, LocalsMatch, CallerKnows
  <2> USE DEF StopKnows, Same
  <2>3. handler'[g].at \in {"install", "spawn"} => record'[handler'[g].id].status # "downloading"
    BY <1>3, <2>1, <2>2 DEF RowSame, Stopped
  <2>4. handler'[g].at \in Holding => ~owner'[handler'[g].owner].interrupted
    BY <1>2, <2>1
  <2>5. handler'[g].at \in Holding /\ owner'[handler'[g].owner].cancelRequested =>
           handler'[g].at = "spawn" /\ Excused(handler[g].id)'
    BY <1>2, <1>3, <2>1, <2>2 DEF RowSame, Excused
  <2>6. handler'[g].at = "lookup" /\ ~handler'[g].late => Excused(handler[g].id)'
    BY <1>2, <1>3, <2>1, <2>2 DEF RowSame, Excused
  <2>7. handler'[g].at = "cancel" =>
           /\ handler'[g].owner \in Owners
           /\ owner'[handler'[g].owner].cancelRequested \/ ~Allocated(handler[g].owner)'
    BY <1>2, <2>1 DEF Allocated
  <2> QED BY <2>3, <2>4, <2>5, <2>6, <2>7
<1>9. StopKnows(h)'
  BY <1>3, <1>4 DEF StopKnows, Holding, Excused
<1> QED BY <1>6, <1>7, <1>8, <1>9 DEF StatusInv

-----------------------------------------------------------------------------
(* The steps of a handler that starts or stops a task *)

\* A handler takes an owner off the map and frees it.
LEMMA DiscardKeepsStatus ==
    ASSUME ReservationInv, StatusInv, NEW h \in Handlers, handler[h].at \in {"install", "spawn"},
           Discard(h), UNCHANGED <<record, retired, task>>
    PROVE  StatusInv'
<1> DEFINE o == handler[h].owner
           next(g) == IF g = h THEN IdleHandler
                      ELSE IF handler[g].owner = o THEN [handler[g] EXCEPT !.late = TRUE]
                      ELSE handler[g]
<1>1. \A g \in Handlers : handler[g] \in Handler /\ handler'[g] = next(g)
  BY DEF ReservationInv, TypeOK, Discard
<1>2. /\ next(h).at = "idle"
      /\ \A g \in Handlers \ {h} :
            /\ next(g).at = handler[g].at /\ next(g).id = handler[g].id
            /\ next(g).owner = handler[g].owner /\ (handler[g].late => next(g).late)
  BY <1>1 DEF Handler, IdleHandler, NewCall
<1> HIDE DEF next
<1>3. Untouched(h) /\ handler'[h].at = "idle"
  BY <1>1, <1>2 DEF Untouched, Same
<1>4. /\ owner' = Freed({o}) /\ orphaned \subseteq orphaned' /\ handler[h].id \in orphaned'
      /\ handler[h].at \in Holding
  BY DEF Discard, Holding
<1> QED BY <1>3, <1>4, HolderLetsGo

\* installActive, and a task that cannot be spawned.
LEMMA InstallingKeeps ==
    ASSUME ReservationInv, StatusInv, NEW h \in Handlers, Install(h) \/ SpawnFails(h)
    PROVE  StatusInv'
<1>1. CASE Discard(h) /\ UNCHANGED <<record, retired, task>>
  BY <1>1, DiscardKeepsStatus DEF Install, SpawnFails
<1>2. CASE /\ handler[h].at = "install" /\ Goto(h, "spawn")
           /\ UNCHANGED <<record, task, owner, orphaned>>
  <2>1. /\ Untouched(h) /\ handler'[h].at = "spawn" /\ handler'[h].owner = handler[h].owner
        /\ handler'[h].id = handler[h].id
    BY <1>2, GotoPuts DEF ReservationInv
  <2>2. StopKnows(h)'
    BY <1>2, <2>1 DEF StatusInv, StopKnows, Holding
  <2>3. \A o : Steady(o)
    BY <1>2 DEF Steady
  <2> QED BY <1>2, <2>1, <2>2, <2>3, HandlerSteps
<1> QED BY <1>1, <1>2 DEF Install, SpawnFails

\* The task takes over what its handler knew.
LEMMA SpawnKeepsStatus ==
    ASSUME ReservationInv, StatusInv, NEW h \in Handlers, Spawn(h) PROVE StatusInv'
<1> DEFINE o == handler[h].owner
<1>1. /\ TypeOK /\ handler[h].at = "spawn" /\ o \in Owners /\ owner[o].id = handler[h].id
      /\ task[o] = None /\ UNCHANGED <<record, owner, orphaned>>
      /\ task'[o] = "begin" /\ \A p \in Owners \ {o} : task'[p] = task[p]
  BY HolderFacts DEF Spawn, Holding, TypeOK
<1>2. Untouched(h) /\ handler'[h].at = "idle"
  BY <1>1, ReturnPuts DEF Spawn
<1>3. (\A i : RowSame(i)) /\ \A p : Steady(p)
  BY <1>1 DEF RowSame, Steady
<1>4. "begin" \in Live /\ None \notin Live
  BY DEF Live, Working
<1>5. RunningHasTask'
  BY <1>1, <1>2, <1>4, RunningStays DEF StatusInv
<1>6. ASSUME NEW p \in Owners PROVE TaskKnows(p)'
  <2>1. CASE p = o
    BY <1>1, <2>1 DEF StatusInv, StopKnows, TaskKnows, Holding, Excused
  <2>2. CASE p # o
    BY <1>1, <1>3, <2>2, TaskStays DEF StatusInv
  <2> QED BY <2>1, <2>2
<1>7. ASSUME NEW g \in Handlers \ {h} PROVE StopKnows(g)'
  BY <1>2, <1>3, HandlerStays DEF StatusInv, Untouched
<1>8. StopKnows(h)'
  BY <1>2 DEF StopKnows, Holding
<1> QED BY <1>5, <1>6, <1>7, <1>8 DEF StatusInv

\* cancelActive finds the task whose record the stop has written, or that of a later resume.
LEMMA CancelLookupKeepsStatus ==
    ASSUME ReservationInv, StatusInv, NEW h \in Handlers, CancelLookup(h) PROVE StatusInv'
<1> DEFINE i == handler[h].id
           o == active[i]
           new == [owner[o] EXCEPT !.handles = @ + 1, !.cancelRequested = TRUE]
<1>1. TypeOK /\ handler[h].at = "lookup" /\ i \in Ids /\ UNCHANGED <<record, task>>
  BY DEF CancelLookup, ReservationInv, LocalsMatch, CallerKnows
<1>2. CASE o = None
  <2>1. Return(h) /\ UNCHANGED <<owner, orphaned>>
    BY <1>2 DEF CancelLookup
  <2>2. Untouched(h) /\ handler'[h].at = "idle"
    BY <1>1, <2>1, ReturnPuts
  <2> QED BY <1>1, <2>1, <2>2, LooksAround DEF Holding
<1>3. CASE o # None
  <2>1. /\ o \in Owners /\ owner[o].id = i /\ o \in reservations
        /\ owner[o] \in Owner
    BY <1>1, <1>3 DEF ReservationInv, ActiveIsReserved, TypeOK
  <2>2. /\ owner' = [owner EXCEPT ![o] = new]
        /\ orphaned' = IF handler[h].late THEN orphaned \cup {i} ELSE orphaned
    BY <1>3 DEF CancelLookup
  <2>3. /\ new.id = owner[o].id /\ new.request = owner[o].request
        /\ new.cancelRequested /\ new.interrupted = owner[o].interrupted
    BY <2>1 DEF Owner
  <2> HIDE DEF new
  <2>4. /\ owner'[o] = new /\ \A p \in Owners \ {o} : owner'[p] = owner[p]
    BY <1>1, <2>1, <2>2 DEF TypeOK
  <2>5. Untouched(h) /\ handler'[h].at = "cancel" /\ handler'[h].owner = o
    <3> DEFINE call == [handler[h] EXCEPT !.at = "cancel", !.owner = o, !.late = FALSE]
    <3>1. handler' = [handler EXCEPT ![h] = call] /\ handler[h] \in Handler
      BY <1>1, <1>3 DEF CancelLookup, TypeOK, Handler
    <3>2. call.at = "cancel" /\ call.owner = o
      BY <3>1 DEF Handler
    <3> HIDE DEF call
    <3> QED BY <1>1, <3>1, <3>2, PutEffect
  <2>6. /\ record[i].status \in Running => i \in orphaned'
        /\ (\A j : RowSame(j)) /\ orphaned \subseteq orphaned'
    <3>1. StopKnows(h)
      BY DEF StatusInv
    <3> QED BY <1>1, <2>2, <3>1 DEF StopKnows, Excused, RowSame
  <2>7. \A p \in Owners \ {o} : Steady(p)
    BY <2>4 DEF Steady
  <2>8. RunningHasTask'
    BY <1>1, <2>1, <2>3, <2>4, <2>5, <2>6, RunningStays DEF StatusInv
  <2>9. ASSUME NEW p \in Owners PROVE TaskKnows(p)'
    <3>1. CASE p = o
      <4>1. TaskKnows(p) /\ owner'[p].id = i /\ owner'[p] = new
        BY <2>1, <2>3, <2>4, <3>1 DEF StatusInv
      <4> QED BY <1>1, <2>1, <2>3, <2>6, <3>1, <4>1 DEF TaskKnows, Excused
    <3>2. CASE p # o
      BY <1>1, <2>6, <2>7, <3>2, TaskStays DEF StatusInv
    <3> QED BY <3>1, <3>2
  <2>10. ASSUME NEW g \in Handlers \ {h} PROVE StopKnows(g)'
    <3>1. StopKnows(g) /\ Same(g)
      BY <2>5 DEF StatusInv, Untouched
    <3>2. CASE handler[g].at \in Holding \cup {"cancel"} /\ handler[g].owner = o
      <4>1. handler[g].at \in Holding => handler[g].at = "spawn" /\ handler[g].id = i
        BY <1>1, <2>1, <3>2, HolderFacts
      <4>2. owner'[handler'[g].owner] = new
        BY <2>4, <3>1, <3>2 DEF Same
      <4>3. CASE handler[g].at = "cancel"
        BY <2>1, <2>3, <3>1, <3>2, <4>2, <4>3 DEF StopKnows, Same, Holding
      <4>4. CASE handler[g].at = "spawn" /\ handler[g].id = i
        BY <1>1, <2>1, <2>3, <2>6, <3>1, <3>2, <4>2, <4>4
           DEF StopKnows, Same, Holding, Excused
      <4> QED BY <3>2, <4>1, <4>3, <4>4
    <3>3. CASE ~(handler[g].at \in Holding \cup {"cancel"} /\ handler[g].owner = o)
      <4>1. handler[g].at \in Holding \cup {"cancel"} => handler[g].owner \in Owners
        BY <3>1, HolderFacts DEF StopKnows
      <4> QED BY <2>6, <2>7, <3>1, <3>3, <4>1, HandlerStays
    <3> QED BY <3>2, <3>3
  <2>11. StopKnows(h)'
    BY <2>1, <2>3, <2>4, <2>5 DEF StopKnows, Holding
  <2> QED BY <2>8, <2>9, <2>10, <2>11 DEF StatusInv
<1> QED BY <1>2, <1>3

\* group.cancel interrupts a task whose cancellation was requested.
LEMMA CancelGroupKeepsStatus ==
    ASSUME ReservationInv, StatusInv, NEW h \in Handlers, CancelGroup(h) PROVE StatusInv'
<1> DEFINE o == handler[h].owner
           new == [owner[o] EXCEPT !.interrupted = TRUE]
<1>1. /\ TypeOK /\ handler[h].at = "cancel" /\ o \in Owners
      /\ UNCHANGED <<record, task, orphaned>>
  BY DEF CancelGroup, ReservationInv, StatusInv, StopKnows
<1>2. CASE Goto(h, "drop") /\ UNCHANGED owner
  <2>1. Untouched(h) /\ handler'[h].at = "drop"
    BY <1>1, <1>2, GotoPuts
  <2> QED BY <1>1, <1>2, <2>1, LooksAround DEF Holding
<1>3. CASE task[o] # None /\ Goto(h, "await") /\ owner' = [owner EXCEPT ![o].interrupted = TRUE]
  <2>1. Untouched(h) /\ handler'[h].at = "await"
    BY <1>1, <1>3, GotoPuts
  <2>2. owner[o] \in Owner /\ owner' = [owner EXCEPT ![o] = new]
    BY <1>1, <1>3 DEF TypeOK
  <2>3. /\ new.id = owner[o].id /\ new.request = owner[o].request
        /\ new.cancelRequested = owner[o].cancelRequested
    BY <2>2 DEF Owner
  <2> HIDE DEF new
  <2>4. /\ owner'[o] = new /\ \A p \in Owners \ {o} : owner'[p] = owner[p]
    BY <1>1, <2>2 DEF TypeOK
  <2>5. owner[o].cancelRequested
    BY <1>1, <1>3 DEF StatusInv, StopKnows, ReservationInv, FreedHasNoTask
  <2>6. (\A i : RowSame(i)) /\ \A p \in Owners \ {o} : Steady(p)
    BY <1>1, <2>4 DEF RowSame, Steady
  <2>7. RunningHasTask'
    BY <1>1, <2>1, <2>3, <2>4, RunningStays DEF StatusInv
  <2>8. ASSUME NEW p \in Owners PROVE TaskKnows(p)'
    <3>1. CASE p = o
      BY <1>1, <2>3, <2>4, <2>5, <3>1 DEF StatusInv, TaskKnows, Excused
    <3>2. CASE p # o
      BY <1>1, <2>6, <3>2, TaskStays DEF StatusInv
    <3> QED BY <3>1, <3>2
  <2>9. ASSUME NEW g \in Handlers \ {h} PROVE StopKnows(g)'
    <3>1. StopKnows(g) /\ Same(g)
      BY <2>1 DEF StatusInv, Untouched
    <3>2. CASE handler[g].at \in Holding \cup {"cancel"} /\ handler[g].owner = o
      <4>1. handler[g].at = "cancel"
        BY <1>3, <3>2, HolderFacts
      <4> QED BY <1>1, <2>3, <2>4, <2>5, <3>1, <3>2, <4>1 DEF StopKnows, Same, Holding
    <3>3. CASE ~(handler[g].at \in Holding \cup {"cancel"} /\ handler[g].owner = o)
      <4>1. handler[g].at \in Holding \cup {"cancel"} => handler[g].owner \in Owners
        BY <3>1, HolderFacts DEF StopKnows
      <4> QED BY <2>6, <3>1, <3>3, <4>1, HandlerStays
    <3> QED BY <3>2, <3>3
  <2>10. StopKnows(h)'
    BY <2>1 DEF StopKnows, Holding
  <2> QED BY <2>7, <2>8, <2>9, <2>10 DEF StatusInv
<1> QED BY <1>2, <1>3 DEF CancelGroup

\* The last lock section of cancelActive only counts.
LEMMA DropHandleKeepsStatus ==
    ASSUME ReservationInv, StatusInv, NEW h \in Handlers, DropHandle(h) PROVE StatusInv'
<1> DEFINE o == handler[h].owner
           count == IF owner[o].handles > 0 THEN owner[o].handles - 1 ELSE 0
           new == [owner[o] EXCEPT !.handles = count]
<1>1. TypeOK /\ handler[h].at = "drop" /\ UNCHANGED <<record, task, orphaned>>
  BY DEF DropHandle, ReservationInv
<1>2. Untouched(h) /\ handler'[h].at = "prune"
  <2> DEFINE call == [handler[h] EXCEPT !.at = "prune", !.owner = None]
  <2>1. handler' = [handler EXCEPT ![h] = call] /\ handler[h] \in Handler
    BY <1>1 DEF DropHandle, TypeOK, Handler
  <2>2. call.at = "prune"
    BY <2>1 DEF Handler
  <2> HIDE DEF call
  <2> QED BY <1>1, <2>1, <2>2, PutEffect
<1>3. \A p \in Owners : Steady(p)
  <2>1. owner' = [owner EXCEPT ![o] = new]
    BY DEF DropHandle
  <2>2. ASSUME o \in Owners
        PROVE  /\ new.id = owner[o].id /\ new.request = owner[o].request
               /\ new.cancelRequested = owner[o].cancelRequested
               /\ new.interrupted = owner[o].interrupted
    BY <1>1, <2>2 DEF TypeOK, Owner
  <2> HIDE DEF new
  <2> QED BY <1>1, <2>1, <2>2 DEF TypeOK, Steady
<1>4. \A g \in Handlers : handler[g].at \in Holding \cup {"cancel"} => Steady(handler[g].owner)
  BY <1>3, HolderFacts DEF StatusInv, StopKnows
<1>5. StopKnows(h)'
  BY <1>2 DEF StopKnows, Holding
<1> QED BY <1>1, <1>2, <1>3, <1>4, <1>5, HandlerSteps

-----------------------------------------------------------------------------
(* The steps of a task *)

\* A task goes on or ends, and writes no other record than its own.
LEMMA TaskSteps ==
    ASSUME ReservationInv, StatusInv, NEW o \in Owners, task[o] \in Live,
           UNCHANGED handler, orphaned \subseteq orphaned', \A p \in Owners : Steady(p),
           \A p \in Owners \ {o} : task'[p] = task[p],
           \A j \in Ids \ {owner[o].id} : record'[j] = record[j],
           record'[owner[o].id].status \in Running => record[owner[o].id].status \in Running,
           TaskKnows(o)',
           \/ task'[o] \in Live
           \/ record'[owner[o].id].status \in Running => owner[o].id \in orphaned'
    PROVE  StatusInv'
<1> DEFINE i == owner[o].id
<1>1. \A j \in Ids \ {i} : RowSame(j)
  BY DEF RowSame
<1>2. RunningHasTask'
  <2> SUFFICES ASSUME NEW j \in Ids, record'[j].status \in Running, j \notin orphaned'
               PROVE  (\E p \in Owners : owner[p].id = j /\ task'[p] \in Live) \/ Starting(j)
    BY DEF RunningHasTask, Starting, Steady
  <2>1. CASE j = i
    BY <2>1
  <2>2. CASE j # i
    BY <2>2 DEF StatusInv, RunningHasTask
  <2> QED BY <2>1, <2>2
<1>3. ASSUME NEW p \in Owners PROVE TaskKnows(p)'
  <2>1. CASE p # o /\ task[p] \in Live
    BY <1>1, <2>1, LiveIsAlone, TaskStays DEF StatusInv
  <2>2. CASE p # o /\ task[p] \notin Live
    BY <2>2 DEF TaskKnows
  <2> QED BY <2>1, <2>2
<1>4. ASSUME NEW g \in Handlers PROVE StopKnows(g)'
  <2>1. StopKnows(g) /\ Same(g)
    BY DEF StatusInv, Same
  <2>2. handler[g].at \in Holding \cup {"cancel"} => Steady(handler[g].owner)
    BY <2>1, HolderFacts DEF StopKnows
  <2>3. CASE handler[g].at = "lookup"
    BY <2>1, <2>3 DEF StopKnows, Excused, Holding, ReservationInv, LocalsMatch, CallerKnows
  <2>4. CASE handler[g].at \in {"install", "spawn"}
    <3>1. handler[g].id \in Ids \ {i}
      BY <2>4, HolderFacts, LiveIsAlone DEF Holding
    <3> QED BY <1>1, <2>1, <2>2, <2>4, <3>1, HandlerStays
  <2>5. CASE handler[g].at \notin {"install", "spawn", "lookup"}
    BY <2>1, <2>2, <2>5, HandlerStays
  <2> QED BY <2>3, <2>4, <2>5
<1> QED BY <1>2, <1>3, <1>4 DEF StatusInv

\* The stages of a task that is not retired
LEMMA StagesLive ==
    /\ {"begin", "next", "transfer", "check", "complete", "incomplete", "stamp", "failing",
         "retire"} = Live
    /\ {"returning", "returned"} \cap Live = {}
BY DEF Live, Working

\* The steps that write no record.
LEMMA TaskQuietStatus ==
    ASSUME ReservationInv, StatusInv, NEW o \in Owners,
           TaskNext(o) \/ TaskError(o) \/ TaskCheck(o) \/ TaskStamp(o) \/ TaskCanceled(o)
    PROVE  StatusInv'
<1> USE DEF TaskNext, TaskError, TaskCheck, TaskStamp, TaskCanceled
<1>1. UNCHANGED <<record, owner, handler, orphaned>> /\ TypeOK
  BY DEF ReservationInv
<1>2. PICK from, to : Step(o, from, to)
  OBVIOUS
<1>3. task[o] \in Live /\ \A p \in Owners \ {o} : task'[p] = task[p]
  BY <1>1, StagesLive DEF Step, Working, TypeOK
<1>4. TaskKnows(o)' /\ task'[o] \in Live
  <2>1. TaskKnows(o)
    BY DEF StatusInv
  <2> USE DEF TaskKnows, Excused, Step, TypeOK
  <2>2. CASE TaskNext(o)
    BY <1>1, <1>3, <2>1, <2>2, StagesLive DEF Stopped, Running
  <2>3. CASE TaskError(o)
    BY <1>1, <1>3, <2>1, <2>3, StagesLive
  <2>4. CASE TaskCheck(o)
    BY <1>1, <1>3, <2>1, <2>4, StagesLive
  <2>5. CASE TaskCanceled(o)
    BY <1>1, <1>3, <2>1, <2>5, StagesLive
  <2>6. CASE TaskStamp(o)
    BY <1>1, <1>3, <2>1, <2>6, StagesLive
  <2> QED BY <2>2, <2>3, <2>4, <2>5, <2>6
<1>5. \A p : Steady(p)
  BY <1>1 DEF Steady
<1> QED BY <1>1, <1>3, <1>4, <1>5, TaskSteps

\* records.begin takes up a queued record only; a task is told to begin once.
LEMMA TaskBeginStatus ==
    ASSUME ReservationInv, StatusInv, NEW o \in Owners, TaskBegin(o) PROVE StatusInv'
<1> DEFINE i == owner[o].id
<1>1. /\ TypeOK /\ task[o] = "begin" /\ task[o] \in Live /\ i \in Ids /\ TaskKnows(o)
      /\ UNCHANGED <<owner, handler, orphaned>>
  BY LiveIsAlone, StagesLive DEF TaskBegin, ReservationInv, StatusInv
<1>2. \A p : Steady(p)
  BY <1>1 DEF Steady
<1>3. CASE record[i].status = "queued" /\ SetStatus(i, "downloading") /\ Step(o, "begin", "next")
  <2>1. /\ record'[i].status = "downloading"
        /\ \A j \in Ids \ {i} : record'[j] = record[j]
    BY <1>1, <1>3, SetStatusEffect DEF Statuses
  <2>2. task'[o] = "next" /\ \A p \in Owners \ {o} : task'[p] = task[p]
    BY <1>1, <1>3 DEF Step, TypeOK
  <2>3. TaskKnows(o)'
    BY <1>1, <1>3, <2>1, <2>2 DEF TaskKnows, Excused, Running
  <2> QED BY <1>1, <1>2, <1>3, <2>1, <2>2, <2>3, StagesLive, TaskSteps DEF Running
<1>4. CASE record[i].status # "queued" /\ UNCHANGED record /\ Step(o, "begin", "retire")
  <2>1. task'[o] = "retire" /\ \A p \in Owners \ {o} : task'[p] = task[p]
    BY <1>1, <1>4 DEF Step, TypeOK
  <2>2. TaskKnows(o)'
    BY <1>1, <1>4, <2>1 DEF TaskKnows, Excused, Running
  <2> QED BY <1>1, <1>2, <1>4, <2>1, <2>2, StagesLive, TaskSteps
<1> QED BY <1>3, <1>4 DEF TaskBegin

\* A file more of the record is complete.
LEMMA TaskTransferStatus ==
    ASSUME ReservationInv, StatusInv, NEW o \in Owners, TaskTransfer(o) PROVE StatusInv'
<1> DEFINE i == owner[o].id
           done == IF record[i].files < FileCount THEN record[i].files + 1 ELSE record[i].files
           new == [record[i] EXCEPT !.files = done]
<1>1. /\ TypeOK /\ task[o] = "transfer" /\ task[o] \in Live /\ i \in Ids /\ TaskKnows(o)
      /\ UNCHANGED <<owner, handler, orphaned>> /\ task'[o] = "next"
      /\ \A p \in Owners \ {o} : task'[p] = task[p]
  BY LiveIsAlone, StagesLive DEF TaskTransfer, ReservationInv, StatusInv, Step, TypeOK
<1>2. record' = [record EXCEPT ![i] = new]
  BY DEF TaskTransfer
<1>3. new.status = record[i].status
  BY <1>1 DEF TypeOK, Record
<1> HIDE DEF new
<1>4. record'[i].status = record[i].status /\ \A j \in Ids \ {i} : record'[j] = record[j]
  BY <1>1, <1>2, <1>3 DEF TypeOK
<1>5. TaskKnows(o)' /\ \A p : Steady(p)
  BY <1>1, <1>4 DEF TaskKnows, Excused, Steady
<1> QED BY <1>1, <1>4, <1>5, StagesLive, TaskSteps

\* The last status of a record, after which it does not run.
LEMMA TaskSettles ==
    ASSUME ReservationInv, StatusInv, NEW o \in Owners, NEW from \in Live,
           NEW to \in {"stamp", "retire"}, Step(o, from, to), NEW s \in {"completed", "failed"},
           \/ SetStatus(owner[o].id, s)
           \/ UNCHANGED record /\ record[owner[o].id].status \in Stopped,
           UNCHANGED <<owner, handler, orphaned>>
    PROVE  StatusInv'
<1> DEFINE i == owner[o].id
<1>1. /\ TypeOK /\ task[o] \in Live /\ i \in Ids /\ TaskKnows(o)
      /\ task'[o] = to /\ \A p \in Owners \ {o} : task'[p] = task[p]
  BY LiveIsAlone DEF ReservationInv, StatusInv, Step, TypeOK
<1>2. record'[i].status \notin Running /\ \A j \in Ids \ {i} : record'[j] = record[j]
  BY <1>1, SetStatusEffect DEF Statuses, Running, Stopped
<1>3. TaskKnows(o)' /\ \A p : Steady(p)
  BY <1>1, <1>2 DEF TaskKnows, Excused, Steady
<1> QED BY <1>1, <1>2, <1>3, StagesLive, TaskSteps

\* setStatus(completed).
LEMMA TaskFinalizeStatus ==
    ASSUME ReservationInv, StatusInv, NEW o \in Owners, TaskFinalize(o) PROVE StatusInv'
<1>1. PICK to \in {"stamp", "retire"} : Step(o, task[o], to)
  BY DEF TaskFinalize
<1> QED BY <1>1, TaskSettles, StagesLive DEF TaskFinalize

\* setFailureUnlessStopped; a failure that the database does not take is marked.
LEMMA TaskFailStatus ==
    ASSUME ReservationInv, StatusInv, NEW o \in Owners, TaskFail(o) PROVE StatusInv'
<1> DEFINE i == owner[o].id
<1>1. /\ Step(o, "failing", "retire") /\ UNCHANGED <<owner, handler>>
      /\ "failing" \in Live /\ "retire" \in Live
  BY StagesLive DEF TaskFail
<1>2. CASE /\ SetStatus(i, "failed") \/ (UNCHANGED record /\ record[i].status \in Stopped)
           /\ UNCHANGED orphaned
  BY <1>1, <1>2, TaskSettles
<1>3. CASE /\ orphaned' = IF record[i].status \in Running THEN orphaned \cup {i} ELSE orphaned
           /\ UNCHANGED record
  <2>1. /\ task[o] \in Live /\ task'[o] = "retire"
        /\ \A p \in Owners \ {o} : task'[p] = task[p]
    BY <1>1 DEF ReservationInv, TypeOK, Step
  <2>2. Excused(i)' /\ orphaned \subseteq orphaned'
    BY <1>1, <1>3 DEF Excused
  <2>3. TaskKnows(o) /\ \A p : Steady(p)
    BY <1>1 DEF StatusInv, Steady
  <2>4. TaskKnows(o)'
    BY <1>1, <1>3, <2>1, <2>2, <2>3 DEF TaskKnows
  <2> QED BY <1>1, <1>3, <2>1, <2>2, <2>3, <2>4, TaskSteps
<1> QED BY <1>2, <1>3 DEF TaskFail, SetFailureUnlessStopped

\* State.retire comes after the record was settled, or had a reason not to be.
LEMMA TaskRetireStatus ==
    ASSUME ReservationInv, StatusInv, NEW o \in Owners, TaskRetire(o) PROVE StatusInv'
<1> DEFINE new == [owner[o] EXCEPT !.finished = TRUE]
<1>1. /\ TypeOK /\ task[o] = "retire" /\ task[o] \in Live /\ TaskKnows(o)
      /\ UNCHANGED <<record, handler, orphaned>> /\ task'[o] = "returning"
      /\ \A p \in Owners \ {o} : task'[p] = task[p]
  BY StagesLive DEF TaskRetire, ReservationInv, StatusInv, Step, TypeOK
<1>2. \A p \in Owners : Steady(p)
  <2>1. owner' = [owner EXCEPT ![o] = new]
    BY DEF TaskRetire
  <2>2. /\ new.id = owner[o].id /\ new.request = owner[o].request
        /\ new.cancelRequested = owner[o].cancelRequested /\ new.interrupted = owner[o].interrupted
    BY <1>1 DEF TypeOK, Owner
  <2> HIDE DEF new
  <2> QED BY <1>1, <2>1, <2>2 DEF TypeOK, Steady
<1>3. TaskKnows(o)'
  BY <1>1, StagesLive DEF TaskKnows
<1>4. record[owner[o].id].status \in Running => owner[o].id \in orphaned
  BY <1>1 DEF TaskKnows, Excused
<1> QED BY <1>1, <1>2, <1>3, <1>4, TaskSteps

\* The task returns.
LEMMA TaskReturnStatus ==
    ASSUME ReservationInv, StatusInv, NEW o \in Owners, TaskReturn(o) PROVE StatusInv'
<1>1. /\ UNCHANGED <<record, owner, handler, orphaned>>
      /\ \A p \in Owners : task'[p] = task[p] \/ (task[p] \notin Live /\ task'[p] \notin Live)
  BY StagesLive DEF TaskReturn, ReservationInv, TypeOK, Step
<1>2. RunningHasTask'
  BY <1>1 DEF StatusInv, RunningHasTask, Starting
<1>3. ASSUME NEW p \in Owners PROVE TaskKnows(p)'
  BY <1>1 DEF StatusInv, TaskKnows, Excused
<1>4. \A g \in Handlers : StopKnows(g)'
  BY <1>1 DEF StatusInv, StopKnows, Excused, Allocated
<1> QED BY <1>2, <1>3, <1>4 DEF StatusInv

-----------------------------------------------------------------------------
(* The theorems *)

\* Nothing runs, and no handler is on its way.
LEMMA NothingRunning ==
    ASSUME \A i \in Ids : record[i].status \notin Running,
           \A o \in Owners : task[o] = None, \A h \in Handlers : handler[h].at = "idle"
    PROVE  StatusInv
<1>1. RunningHasTask
  BY DEF RunningHasTask
<1>2. \A o \in Owners : TaskKnows(o)
  BY DEF TaskKnows, Live, Working
<1>3. \A h \in Handlers : StopKnows(h)
  BY DEF StopKnows, Holding
<1> QED BY <1>1, <1>2, <1>3 DEF StatusInv

\* At first nothing runs.
LEMMA StatusInit == Init => StatusInv
BY NothingRunning DEF Init, IdleHandler, NewCall, Running

\* store.rehydrate pauses what was running.
LEMMA RestartStatus ==
    ASSUME ReservationInv, Restart PROVE StatusInv'
<1>1. \A i \in Ids : record'[i].status \notin Running
  <2> SUFFICES ASSUME NEW i \in Ids PROVE record'[i].status \notin Running
    OBVIOUS
  <2>1. [record[i] EXCEPT !.status = "paused"].status = "paused"
    BY DEF ReservationInv, TypeOK, Record
  <2>2. record'[i] = IF record[i].status \in Running
                     THEN [record[i] EXCEPT !.status = "paused"] ELSE record[i]
    BY DEF Restart
  <2> QED BY <2>1, <2>2 DEF Running
<1>2. /\ \A o \in Owners : task'[o] = None
      /\ \A h \in Handlers : handler'[h].at = "idle"
  BY DEF Restart, IdleHandler, NewCall
<1>3. RunningHasTask'
  BY <1>1 DEF RunningHasTask
<1>4. \A o \in Owners : TaskKnows(o)'
  BY <1>2 DEF TaskKnows, Live, Working
<1>5. \A h \in Handlers : StopKnows(h)'
  BY <1>2 DEF StopKnows, Holding
<1> QED BY <1>3, <1>4, <1>5 DEF StatusInv

\* Every step keeps the invariant, given that of the reservations.
LEMMA StatusNext == ReservationInv /\ StatusInv /\ [Next]_vars => StatusInv'
<1> SUFFICES ASSUME ReservationInv, StatusInv, [Next]_vars PROVE StatusInv'
  OBVIOUS
<1>1. ASSUME NEW h \in Handlers, HandlerStep(h) PROVE StatusInv'
  BY <1>1, LookingKeeps, ReapKeepsStatus, GrantKeeps, SelectingKeeps, SaveRecordKeepsStatus,
     QueueRecordKeepsStatus, StopCallKeepsStatus, InstallingKeeps, SpawnKeepsStatus,
     CancelLookupKeepsStatus, CancelGroupKeepsStatus, DropHandleKeepsStatus
  DEF HandlerStep
<1>2. ASSUME NEW o \in Owners, TaskStep(o) PROVE StatusInv'
  BY <1>2, TaskQuietStatus, TaskBeginStatus, TaskTransferStatus, TaskFinalizeStatus,
     TaskFailStatus, TaskRetireStatus, TaskReturnStatus
  DEF TaskStep
<1>3. CASE Restart
  BY <1>3, RestartStatus
<1>4. CASE UNCHANGED vars
  BY <1>4 DEF vars, StatusInv, RunningHasTask, Starting, TaskKnows, StopKnows, Excused, Allocated
<1> QED BY <1>1, <1>2, <1>3, <1>4 DEF Next

\* What the records, the tasks and the handlers know of one another.
THEOREM StatusHolds == Spec => []StatusInv
BY StatusInit, StatusNext, ReservationsHold, PTL DEF Spec

\* A record that says queued or downloading has a task, or a handler about to spawn one, unless
\* a stop that a resume overtook cancelled the new task, no task could be spawned, or its task
\* failed and the database did not take the failure.
THEOREM RunningIsDriven == Spec => []RunningHasTask
<1>1. StatusInv => RunningHasTask
  BY DEF StatusInv
<1> QED BY <1>1, StatusHolds, PTL

\* A paused or canceled record leaves its status by a resume, by another stop, or because its
\* task had seen every file on disk.
THEOREM StopsStick == Spec => StopSticks
<1> DEFINE Sticks(i) == record[i].status \in Stopped /\ record'[i].status \notin Stopped
                           => \/ \E h \in Handlers : handler[h].at = "queue" /\ handler[h].id = i
                              \/ record'[i].status = "completed" /\ record'[i].files = FileCount
<1>1. ReservationInv /\ StatusInv /\ [Next]_vars => [\A i \in Ids : Sticks(i)]_vars
  <2> SUFFICES ASSUME ReservationInv, StatusInv, Next, NEW i \in Ids,
                      record[i].status \in Stopped, record'[i].status \notin Stopped
               PROVE  \/ \E h \in Handlers : handler[h].at = "queue" /\ handler[h].id = i
                      \/ record'[i].status = "completed" /\ record'[i].files = FileCount
    OBVIOUS
  <2>1. TypeOK /\ record'[i] # record[i] /\ record[i].status # None
        /\ record[i].status \notin Running
    BY DEF ReservationInv, Stopped, Running
  <2>2. ASSUME NEW h \in Handlers, HandlerStep(h)
        PROVE  handler[h].at = "queue" /\ handler[h].id = i
    <3>1. SaveRecord(h) \/ QueueRecord(h) \/ StopCall(h)
      BY <2>1, <2>2 DEF HandlerStep, StartCall, ResumeCall, Prune, Reap, ReadRecord,
         CallFails, AcquireRefused, AcquireGranted, StartFails, LookupReusable, Install, Spawn, SpawnFails,
         CancelLookup, CancelGroup, AwaitTask, DropHandle
    <3>2. CASE SaveRecord(h)
      <4>1. record[handler[h].id].status = None
        BY <3>2, HolderFacts DEF SaveRecord, Holding
      <4> QED BY <2>1, <3>2, <4>1 DEF SaveRecord, TypeOK
    <3>3. CASE QueueRecord(h)
      BY <2>1, <3>3, SetStatusEffect, HolderFacts DEF QueueRecord, Holding, Statuses
    <3>4. CASE StopCall(h)
      BY <2>1, <3>4, SetStatusEffect DEF StopCall, Statuses, Stopped
    <3> QED BY <3>1, <3>2, <3>3, <3>4
  <2>3. ASSUME NEW o \in Owners, TaskStep(o)
        PROVE  record'[i].status = "completed" /\ record'[i].files = FileCount
    <3> DEFINE j == owner[o].id
    <3>1. \/ TaskBegin(o) /\ record[j].status = "queued"
          \/ TaskTransfer(o)
          \/ TaskFinalize(o)
          \/ TaskFail(o) /\ record[j].status \notin Stopped
      BY <2>1, <2>3 DEF TaskStep, TaskBegin, TaskNext, TaskError, TaskCheck, TaskStamp, TaskFail,
         SetFailureUnlessStopped, TaskCanceled, TaskRetire, TaskReturn
    <3>2. task[o] \in Live /\ j \in Ids
      BY <3>1, StagesLive, LiveIsAlone
         DEF TaskBegin, TaskTransfer, TaskFinalize, TaskFail, Step
    <3>3. CASE TaskBegin(o) /\ record[j].status = "queued"
      BY <2>1, <3>2, <3>3, SetStatusEffect DEF TaskBegin, Statuses, Running
    <3>4. CASE TaskTransfer(o)
      BY <2>1, <3>2, <3>4 DEF TaskTransfer, TypeOK, Record
    <3>5. CASE TaskFinalize(o)
      <4>1. task[o] = "complete" /\ record[j].files = FileCount
        BY <3>2, <3>5 DEF TaskFinalize, StatusInv, TaskKnows
      <4>2. SetStatus(j, "completed")
        BY <3>5, <4>1 DEF TaskFinalize
      <4>3. i = j /\ record'[j].status = "completed"
        BY <2>1, <3>2, <4>2, SetStatusEffect DEF Statuses
      <4>4. record'[j].files = record[j].files
        BY <2>1, <3>2, <4>2 DEF SetStatus, TypeOK, Record
      <4> QED BY <4>1, <4>3, <4>4
    <3>6. CASE TaskFail(o) /\ record[j].status \notin Stopped
      BY <2>1, <3>2, <3>6, SetStatusEffect
         DEF TaskFail, SetFailureUnlessStopped, Statuses
    <3> QED BY <3>1, <3>3, <3>4, <3>5, <3>6
  <2>4. CASE Restart
    BY <2>1, <2>4 DEF Restart
  <2> QED BY <2>2, <2>3, <2>4 DEF Next
<1> QED BY <1>1, ReservationsHold, StatusHolds, PTL DEF Spec, StopSticks

-----------------------------------------------------------------------------
(***************************************************************************)
(* The reference count of an owner in DownloadManager, for any number of   *)
(* handlers, ids, requests and owners: handles counts the stop requests    *)
(* that point to the owner, so pruneRetired frees nothing under them.      *)
(***************************************************************************)

\* A stop request that has an owner in hand, and those of one owner
Pinning == {"cancel", "await", "drop"}
Pinners(o) == {h \in Handlers : handler[h].at \in Pinning /\ handler[h].owner = o}

HandlesCount ==
    \A o \in Owners :
        /\ IsFiniteSet(Pinners(o))
        /\ Allocated(o) => owner[o].handles = Cardinality(Pinners(o))

\* What a handler has in hand, is about to free or has just reserved
PinKnows(h) ==
    LET o == handler[h].owner
    IN /\ handler[h].at \in Pinning => o \in Owners /\ (~handler[h].late => Allocated(o))
       /\ \A p \in handler[h].ready : Pinners(p) = {}
       /\ handler[h].at \in Holding \ {"spawn"} => Pinners(o) = {}

PinInv == HandlesCount /\ \A h \in Handlers : PinKnows(h)

-----------------------------------------------------------------------------
(* What a step leaves alone *)

\* Every handler but h
Beside(h) ==
    \A g \in Handlers \ {h} :
        /\ handler'[g].at = handler[g].at /\ handler'[g].owner = handler[g].owner
        /\ handler'[g].ready = handler[g].ready
        /\ handler[g].late => handler'[g].late

\* An owner keeps its count.
Counted(o) == owner'[o].handles = owner[o].handles /\ owner'[o].request = owner[o].request

\* A handler takes a new place.
LEMMA PutExact ==
    ASSUME TypeOK, NEW h \in Handlers, NEW call, handler' = [handler EXCEPT ![h] = call]
    PROVE  Beside(h) /\ handler'[h] = call
BY DEF TypeOK, Beside

\* The pins change only with the handler that steps.
LEMMA PinsStay ==
    ASSUME NEW h \in Handlers, Beside(h),
           handler[h].at \in Pinning <=> handler'[h].at \in Pinning,
           handler[h].at \in Pinning => handler'[h].owner = handler[h].owner
    PROVE  \A o : Pinners(o)' = Pinners(o)
<1> SUFFICES ASSUME NEW o PROVE Pinners(o)' = Pinners(o)
  OBVIOUS
<1>1. \A g \in Handlers :
         handler'[g].at \in Pinning /\ handler'[g].owner = o
            <=> handler[g].at \in Pinning /\ handler[g].owner = o
  BY DEF Beside
<1> QED BY <1>1 DEF Pinners

\* Another handler knows what it knew, if what it points to stays.
LEMMA PinKnowsStays ==
    ASSUME NEW h \in Handlers, Beside(h), NEW g \in Handlers \ {h}, PinKnows(g),
           handler[g].at \in Pinning /\ ~handler'[g].late /\ Allocated(handler[g].owner)
              => owner'[handler[g].owner].request # None,
           \A o : Pinners(o)' = Pinners(o)
    PROVE  PinKnows(g)'
BY DEF PinKnows, Beside, Allocated

\* A step that moves no pin.
LEMMA PinSteps ==
    ASSUME PinInv, NEW h \in Handlers, Beside(h), \A o : Pinners(o)' = Pinners(o),
           \A o \in Owners : \/ Counted(o)
                             \/ ~Allocated(o)'
                             \/ Pinners(o) = {} /\ owner'[o].handles = 0,
           \A g \in Handlers \ {h} : handler[g].at \in Pinning /\ ~handler'[g].late
              /\ Allocated(handler[g].owner) => owner'[handler[g].owner].request # None,
           PinKnows(h)'
    PROVE  PinInv'
<1>1. Cardinality({}) = 0
  BY FS_EmptySet
<1>2. HandlesCount'
  BY <1>1 DEF PinInv, HandlesCount, Counted, Allocated
<1>3. ASSUME NEW g \in Handlers \ {h} PROVE PinKnows(g)'
  <2>1. PinKnows(g)
    BY DEF PinInv
  <2> QED BY <2>1, PinKnowsStays
<1> QED BY <1>2, <1>3 DEF PinInv

\* A step of a handler that changes no owner's count.
LEMMA QuietPins ==
    ASSUME PinInv, NEW h \in Handlers, Beside(h), \A o \in Owners : Counted(o),
           handler[h].at \in Pinning <=> handler'[h].at \in Pinning,
           handler[h].at \in Pinning =>
              handler'[h].owner = handler[h].owner /\ handler'[h].late = handler[h].late,
           \A p \in handler'[h].ready : Pinners(p) = {},
           handler'[h].at \in Holding \ {"spawn"} => Pinners(handler'[h].owner) = {}
    PROVE  PinInv'
<1>1. \A o : Pinners(o)' = Pinners(o)
  BY PinsStay
<1>2. \A g \in Handlers : handler[g].at \in Pinning /\ Allocated(handler[g].owner)
         => owner'[handler[g].owner].request # None
  BY DEF PinInv, PinKnows, Counted, Allocated
<1>3. PinKnows(h)'
  BY <1>1, <1>2 DEF PinInv, PinKnows, Counted, Allocated
<1> QED BY <1>1, <1>2, <1>3, PinSteps

-----------------------------------------------------------------------------
(* The steps of a handler *)

\* A handler goes on with its locals.
LEMMA GotoExact ==
    ASSUME TypeOK, NEW h \in Handlers, NEW place, Goto(h, place)
    PROVE  /\ Beside(h) /\ handler'[h].at = place /\ handler'[h].owner = handler[h].owner
           /\ handler'[h].ready = handler[h].ready /\ handler'[h].late = handler[h].late
<1> DEFINE call == [handler[h] EXCEPT !.at = place]
<1>1. handler' = [handler EXCEPT ![h] = call] /\ handler[h] \in Handler
  BY DEF Goto, TypeOK
<1>2. /\ call.at = place /\ call.owner = handler[h].owner /\ call.ready = handler[h].ready
      /\ call.late = handler[h].late
  BY <1>1 DEF Handler
<1> HIDE DEF call
<1> QED BY <1>1, <1>2, PutExact

\* A new call, or none.
LEMMA CallExact ==
    ASSUME TypeOK, NEW h \in Handlers, NEW place, NEW call, NEW i, NEW r,
           handler' = [handler EXCEPT ![h] = NewCall(place, call, i, r)]
    PROVE  Beside(h) /\ handler'[h].at = place /\ handler'[h].ready = {}
<1>1. Beside(h) /\ handler'[h] = NewCall(place, call, i, r)
  BY PutExact
<1> QED BY <1>1 DEF NewCall

\* It answers.
LEMMA ReturnExact ==
    ASSUME TypeOK, NEW h \in Handlers, Return(h)
    PROVE  Beside(h) /\ handler'[h].at = "idle" /\ handler'[h].ready = {}
BY CallExact DEF Return, IdleHandler

\* The steps that neither pin an owner nor look at its count.
LEMMA CallsPin ==
    ASSUME ReservationInv, PinInv, NEW h \in Handlers,
           \/ StartCall(h) \/ ResumeCall(h) \/ StopCall(h) \/ ReadRecord(h) \/ CallFails(h)
           \/ AcquireRefused(h) \/ SaveRecord(h) \/ Spawn(h)
           \/ Goto(h, "save") /\ handler[h].at = "select" /\ UNCHANGED owner
           \/ Goto(h, "spawn") /\ handler[h].at = "install" /\ UNCHANGED owner
    PROVE  PinInv'
<1>1. TypeOK /\ handler[h] \in Handler /\ UNCHANGED owner /\ handler[h].at \notin Pinning
  BY DEF ReservationInv, TypeOK, Pinning, StartCall, ResumeCall, StopCall, ReadRecord,
         CallFails, AcquireRefused, SaveRecord, Spawn
<1>2. /\ Beside(h)
      /\ handler'[h].ready = {} \/ handler'[h].ready = handler[h].ready
      /\ \/ handler'[h].at \in {"idle", "prune", "lookup", "acquire", "spawn"}
         \/ /\ handler'[h].at \in {"save", "install"}
            /\ handler[h].at \in Holding \ {"spawn"} /\ handler'[h].owner = handler[h].owner
  <2>1. CASE StartCall(h)
    <3>1. PICK r : handler' = [handler EXCEPT ![h] = NewCall("prune", "start", None, r)]
      BY <2>1 DEF StartCall
    <3> QED BY <1>1, <3>1, CallExact
  <2>2. CASE ResumeCall(h)
    <3>1. PICK i : handler' = [handler EXCEPT ![h] = NewCall("prune", "resume", i, None)]
      BY <2>2 DEF ResumeCall
    <3> QED BY <1>1, <3>1, CallExact
  <2>3. CASE StopCall(h)
    <3>1. PICK i, s : handler' = [handler EXCEPT ![h] = NewCall("lookup", s, i, None)]
      BY <2>3 DEF StopCall
    <3> QED BY <1>1, <3>1, CallExact
  <2>4. CASE ReadRecord(h)
    <3> DEFINE call == [handler[h] EXCEPT !.at = "acquire", !.request = record[handler[h].id].request]
    <3>1. Return(h) \/ handler' = [handler EXCEPT ![h] = call]
      BY <1>1, <2>4 DEF ReadRecord, TypeOK
    <3>2. call.at = "acquire" /\ call.ready = handler[h].ready
      BY <1>1 DEF Handler
    <3> HIDE DEF call
    <3> QED BY <1>1, <3>1, <3>2, ReturnExact, PutExact
  <2>5. CASE AcquireRefused(h) \/ CallFails(h) \/ Spawn(h)
    BY <1>1, <2>5, ReturnExact DEF AcquireRefused, CallFails, Spawn
  <2>6. CASE SaveRecord(h)
    BY <1>1, <2>6, GotoExact DEF SaveRecord, Holding
  <2>7. CASE Goto(h, "save") /\ handler[h].at = "select"
    BY <1>1, <2>7, GotoExact DEF Holding
  <2>8. CASE Goto(h, "spawn") /\ handler[h].at = "install"
    BY <1>1, <2>8, GotoExact
  <2> QED BY <2>1, <2>2, <2>3, <2>4, <2>5, <2>6, <2>7, <2>8
<1>3. \A o : Counted(o)
  BY <1>1 DEF Counted
<1>4. handler'[h].at \notin Pinning /\ PinKnows(h)
  BY <1>2 DEF Pinning, PinInv
<1>5. \A p \in handler'[h].ready : Pinners(p) = {}
  BY <1>2, <1>4 DEF PinKnows
<1>6. handler'[h].at \in Holding \ {"spawn"} => Pinners(handler'[h].owner) = {}
  BY <1>2, <1>4 DEF PinKnows, Holding
<1> QED BY <1>1, <1>2, <1>3, <1>4, <1>5, <1>6, QuietPins

\* A resume moves no pin; the stops it overtakes have looked at no owner yet.
LEMMA QueuePins ==
    ASSUME ReservationInv, PinInv, NEW h \in Handlers, QueueRecord(h) PROVE PinInv'
<1> DEFINE i == handler[h].id
           next(g) == IF g = h THEN [handler[g] EXCEPT !.at = "install"]
                      ELSE IF handler[g].at = "lookup" /\ handler[g].id = i
                           THEN [handler[g] EXCEPT !.late = TRUE] ELSE handler[g]
<1>1. /\ handler[h].at = "queue" /\ UNCHANGED owner /\ PinKnows(h)
      /\ \A g \in Handlers : handler[g] \in Handler /\ handler'[g] = next(g)
  BY DEF QueueRecord, ReservationInv, TypeOK, PinInv
<1>2. /\ next(h).at = "install" /\ next(h).owner = handler[h].owner
      /\ next(h).ready = handler[h].ready
      /\ \A g \in Handlers \ {h} :
            /\ next(g).at = handler[g].at /\ next(g).owner = handler[g].owner
            /\ next(g).ready = handler[g].ready /\ (handler[g].late => next(g).late)
  BY <1>1 DEF Handler
<1> HIDE DEF next
<1>3. Beside(h) /\ \A o : Counted(o)
  BY <1>1, <1>2 DEF Beside, Counted
<1>4. handler[h].at \notin Pinning /\ handler'[h].at \notin Pinning
  BY <1>1, <1>2 DEF Pinning
<1>5. /\ \A p \in handler'[h].ready : Pinners(p) = {}
      /\ Pinners(handler'[h].owner) = {}
  BY <1>1, <1>2 DEF PinKnows, Holding
<1> QED BY <1>3, <1>4, <1>5, QuietPins

\* pruneRetired takes the owners that nobody pins.
LEMMA PrunePins ==
    ASSUME ReservationInv, PinInv, NEW h \in Handlers, Prune(h) PROVE PinInv'
<1> DEFINE ready == {o \in retired : owner[o].finished /\ owner[o].handles = 0}
           reaps == [handler[h] EXCEPT !.at = "reap", !.ready = ready]
           call == IF ready = {} THEN AfterPrune(h) ELSE reaps
<1>1. /\ TypeOK /\ handler[h].at = "prune" /\ handler[h] \in Handler /\ UNCHANGED owner
      /\ handler' = [handler EXCEPT ![h] = call]
  BY DEF Prune, ReservationInv, TypeOK
<1>2. ASSUME NEW o \in ready PROVE Pinners(o) = {}
  <2>1. o \in Owners /\ Allocated(o) /\ owner[o].handles = 0
    BY DEF ReservationInv, RetiredIsDone, TypeOK, Allocated
  <2>2. IsFiniteSet(Pinners(o)) /\ Cardinality(Pinners(o)) = 0
    BY <2>1 DEF PinInv, HandlesCount
  <2> QED BY <2>2, FS_EmptySet
<1>3. reaps.at = "reap" /\ reaps.ready = ready
  BY <1>1 DEF Handler
<1>4. AfterPrune(h).at \in {"acquire", "read", "idle"} /\ AfterPrune(h).ready = {}
  BY DEF AfterPrune, NewCall, IdleHandler
<1>5. call.at \in {"acquire", "read", "idle", "reap"} /\ \A o \in call.ready : Pinners(o) = {}
  BY <1>2, <1>3, <1>4
<1> HIDE DEF call, ready, reaps
<1>6. Beside(h) /\ handler'[h] = call /\ \A o : Counted(o)
  BY <1>1, PutExact DEF Counted
<1>7. /\ handler[h].at \notin Pinning /\ handler'[h].at \notin Pinning
      /\ handler'[h].at \notin Holding
  BY <1>1, <1>5, <1>6 DEF Pinning, Holding
<1> QED BY <1>5, <1>6, <1>7, QuietPins

\* Owners that nobody pins are freed.
LEMMA FreesUnpinned ==
    ASSUME ReservationInv, PinInv, NEW h \in Handlers, NEW S \in SUBSET Owners,
           Beside(h), owner' = Freed(S), \A o \in S : Pinners(o) = {},
           handler[h].at \notin Pinning, handler'[h].at \notin Pinning \cup Holding,
           handler'[h].ready = {}
    PROVE  PinInv'
<1>1. \A o \in Owners \ S : owner'[o] = owner[o]
  BY FreedEffect DEF ReservationInv
<1>2. \A o : Pinners(o)' = Pinners(o)
  BY PinsStay
<1>3. \A o \in S : ~Allocated(o)'
  BY DEF Freed, FreeOwner, NewOwner, Allocated
<1>4. \A o \in Owners : Counted(o) \/ ~Allocated(o)'
  BY <1>1, <1>3 DEF Counted
<1>5. \A g \in Handlers : handler[g].at \in Pinning =>
         handler[g].owner \in Owners /\ handler[g].owner \notin S
  BY DEF PinInv, PinKnows, Pinners
<1>6. \A g \in Handlers : handler[g].at \in Pinning /\ Allocated(handler[g].owner)
         => owner'[handler[g].owner].request # None
  BY <1>1, <1>5 DEF Allocated
<1>7. PinKnows(h)'
  BY DEF PinKnows
<1> QED BY <1>2, <1>4, <1>6, <1>7, PinSteps

\* pruneRetired, once the tasks are gone.
LEMMA ReapPins ==
    ASSUME ReservationInv, PinInv, NEW h \in Handlers, Reap(h) PROVE PinInv'
<1> DEFINE S == handler[h].ready
<1>1. /\ TypeOK /\ S \in SUBSET Owners /\ owner' = Freed(S) /\ handler[h].at = "reap"
      /\ \A o \in S : Pinners(o) = {}
      /\ handler' = [handler EXCEPT ![h] = AfterPrune(h)]
  BY DEF Reap, ReservationInv, TypeOK, Handler, PinInv, PinKnows
<1>2. AfterPrune(h).at \in {"acquire", "read", "idle"} /\ AfterPrune(h).ready = {}
  BY DEF AfterPrune, NewCall, IdleHandler
<1>3. Beside(h) /\ handler'[h] = AfterPrune(h)
  BY <1>1, PutExact
<1>4. /\ handler[h].at \notin Pinning /\ handler'[h].at \notin Pinning \cup Holding
      /\ handler'[h].ready = {}
  BY <1>1, <1>2, <1>3 DEF Pinning, Holding
<1> HIDE DEF S
<1> QED BY <1>1, <1>3, <1>4, FreesUnpinned

\* A start that does not go on frees what it reserved; a resume or a start may go on.
LEMMA SelectPins ==
    ASSUME ReservationInv, PinInv, NEW h \in Handlers, StartFails(h) \/ LookupReusable(h)
    PROVE  PinInv'
<1>1. TypeOK /\ handler[h].at \in {"select", "save", "queue"}
  BY DEF ReservationInv, StartFails, LookupReusable
<1>2. CASE Release(h)
  <2> DEFINE S == {handler[h].owner}
  <2>1. S \in SUBSET Owners /\ \A o \in S : Pinners(o) = {}
    BY <1>1, HolderFacts DEF Holding, PinInv, PinKnows
  <2>2. owner' = Freed(S) /\ Beside(h) /\ handler'[h].at = "idle" /\ handler'[h].ready = {}
    BY <1>1, <1>2, ReturnExact DEF Release
  <2> HIDE DEF S
  <2> QED BY <1>1, <2>1, <2>2, FreesUnpinned DEF Pinning, Holding
<1>3. CASE Goto(h, "save") /\ handler[h].at = "select" /\ UNCHANGED owner
  BY <1>3, CallsPin
<1> QED BY <1>2, <1>3 DEF StartFails, LookupReusable

\* Nobody points to the slot of a new reservation.
LEMMA GrantPins ==
    ASSUME ReservationInv, PinInv, NEW h \in Handlers, AcquireGranted(h) PROVE PinInv'
<1> DEFINE place == IF handler[h].call = "resume" THEN "queue" ELSE "select"
           r == handler[h].request
<1>1. PICK o \in Owners, i \in IF handler[h].call = "resume" THEN {handler[h].id}
                              ELSE {j \in Ids : Fresh(j)} :
         /\ Available(o)
         /\ owner' = [owner EXCEPT ![o] = NewOwner(i, r)]
         /\ handler' = [handler EXCEPT ![h].at = place, ![h].id = i, ![h].owner = o]
  BY DEF AcquireGranted
<1>2. /\ TypeOK /\ handler[h] \in Handler /\ handler[h].at = "acquire" /\ handler[h].ready = {}
      /\ \A g \in Handlers : handler[g].owner # o
  BY <1>1 DEF AcquireGranted, ReservationInv, TypeOK, ReadyIsDone, Available
<1>3. owner'[o].handles = 0 /\ \A p \in Owners \ {o} : owner'[p] = owner[p]
  BY <1>1, <1>2 DEF TypeOK, NewOwner
<1>4. /\ Beside(h) /\ handler'[h].at = place /\ handler'[h].owner = o /\ handler'[h].ready = {}
  <2> DEFINE new == [handler[h] EXCEPT !.at = place, !.id = i, !.owner = o]
  <2>1. handler' = [handler EXCEPT ![h] = new]
    BY <1>1, <1>2 DEF TypeOK, Handler
  <2>2. new.at = place /\ new.owner = o /\ new.ready = {}
    BY <1>2 DEF Handler
  <2> HIDE DEF new, place
  <2> QED BY <1>2, <2>1, <2>2, PutExact
<1>5. Pinners(o) = {}
  BY <1>2 DEF Pinners
<1>6. \A p : Pinners(p)' = Pinners(p)
  BY <1>2, <1>4, PinsStay DEF Pinning
<1>7. \A p \in Owners \ {o} : Counted(p)
  BY <1>3 DEF Counted
<1>8. ASSUME NEW g \in Handlers, handler[g].at \in Pinning, Allocated(handler[g].owner)
      PROVE  owner'[handler[g].owner].request # None
  <2>1. handler[g].owner \in Owners \ {o}
    BY <1>2, <1>8 DEF PinInv, PinKnows
  <2> QED BY <1>3, <1>8, <2>1 DEF Allocated
<1>9. PinKnows(h)'
  BY <1>4, <1>5, <1>6 DEF PinKnows, Pinning
<1> QED BY <1>3, <1>4, <1>5, <1>6, <1>7, <1>8, <1>9, PinSteps

\* An owner is freed whoever points to it: those who do know that they are late.
LEMMA DiscardPins ==
    ASSUME ReservationInv, PinInv, NEW h \in Handlers, handler[h].at \in {"install", "spawn"},
           Discard(h)
    PROVE  PinInv'
<1> DEFINE o == handler[h].owner
           next(g) == IF g = h THEN IdleHandler
                      ELSE IF handler[g].owner = o THEN [handler[g] EXCEPT !.late = TRUE]
                      ELSE handler[g]
           S == {o}
<1>1. /\ o \in Owners /\ \A g \in Handlers : handler[g] \in Handler /\ handler'[g] = next(g)
  BY HolderFacts DEF ReservationInv, TypeOK, Discard, Holding
<1>2. /\ next(h).at = "idle" /\ next(h).ready = {}
      /\ \A g \in Handlers \ {h} :
            /\ next(g).at = handler[g].at /\ next(g).owner = handler[g].owner
            /\ next(g).ready = handler[g].ready /\ (handler[g].late => next(g).late)
            /\ handler[g].owner = o => next(g).late
  BY <1>1 DEF Handler, IdleHandler, NewCall
<1> HIDE DEF next
<1>3. Beside(h) /\ handler'[h].at = "idle" /\ handler'[h].ready = {}
  BY <1>1, <1>2 DEF Beside
<1>4. owner' = Freed(S) /\ S \in SUBSET Owners
  BY <1>1 DEF Discard
<1>5. \A p \in Owners \ S : owner'[p] = owner[p]
  BY <1>4, FreedEffect DEF ReservationInv
<1>6. \A p \in S : ~Allocated(p)'
  BY <1>1 DEF Discard, Freed, FreeOwner, NewOwner, Allocated
<1>7. \A p \in Owners : Counted(p) \/ ~Allocated(p)'
  BY <1>5, <1>6 DEF Counted
<1>8. \A p : Pinners(p)' = Pinners(p)
  BY <1>3, PinsStay DEF Pinning
<1>9. ASSUME NEW g \in Handlers \ {h}, handler[g].at \in Pinning, ~handler'[g].late,
             Allocated(handler[g].owner)
      PROVE  owner'[handler[g].owner].request # None
  <2>1. handler[g].owner \in Owners \ S
    BY <1>1, <1>2, <1>9 DEF PinInv, PinKnows
  <2> QED BY <1>5, <1>9, <2>1 DEF Allocated
<1>10. PinKnows(h)'
  BY <1>3 DEF PinKnows, Pinning, Holding
<1> QED BY <1>3, <1>7, <1>8, <1>9, <1>10, PinSteps

\* installActive, and a task that cannot be spawned.
LEMMA InstallPins ==
    ASSUME ReservationInv, PinInv, NEW h \in Handlers, Install(h) \/ SpawnFails(h)
    PROVE  PinInv'
<1>1. CASE Discard(h)
  BY <1>1, DiscardPins DEF Install, SpawnFails
<1>2. CASE Goto(h, "spawn") /\ handler[h].at = "install" /\ UNCHANGED owner
  BY <1>2, CallsPin
<1> QED BY <1>1, <1>2 DEF Install, SpawnFails

\* cancelActive pins the owner and counts itself.
LEMMA LookupPins ==
    ASSUME ReservationInv, PinInv, NEW h \in Handlers, CancelLookup(h) PROVE PinInv'
<1> DEFINE o == active[handler[h].id]
           new == [owner[o] EXCEPT !.handles = @ + 1, !.cancelRequested = TRUE]
<1>1. TypeOK /\ handler[h].at = "lookup" /\ handler[h].id \in Ids /\ handler[h].ready = {}
      /\ handler[h] \in Handler
  BY DEF CancelLookup, ReservationInv, LocalsMatch, CallerKnows, ReadyIsDone, TypeOK
<1>2. CASE o = None
  <2>1. UNCHANGED owner /\ Beside(h) /\ handler'[h].at = "idle" /\ handler'[h].ready = {}
    BY <1>1, <1>2, ReturnExact DEF CancelLookup
  <2>2. \A p : Counted(p)
    BY <2>1 DEF Counted
  <2> QED BY <1>1, <2>1, <2>2, QuietPins DEF Pinning, Holding
<1>3. CASE o # None
  <2>1. /\ o \in Owners /\ o \in reservations /\ owner[o] \in Owner /\ Allocated(o)
    BY <1>1, <1>3, NoneAssumption
       DEF ReservationInv, ActiveIsReserved, ReservationsDisjoint, TypeOK, Allocated
  <2>2. /\ owner' = [owner EXCEPT ![o] = new]
        /\ handler' = [handler EXCEPT ![h].at = "cancel", ![h].owner = o, ![h].late = FALSE]
    BY <1>3 DEF CancelLookup
  <2>3. new.handles = owner[o].handles + 1 /\ new.request = owner[o].request
    BY <2>1 DEF Owner
  <2> HIDE DEF new
  <2>4. owner'[o] = new /\ \A p \in Owners \ {o} : owner'[p] = owner[p]
    BY <1>1, <2>1, <2>2 DEF TypeOK
  <2>5. Beside(h) /\ handler'[h].at = "cancel" /\ handler'[h].owner = o /\ handler'[h].ready = {}
    <3> DEFINE call == [handler[h] EXCEPT !.at = "cancel", !.owner = o, !.late = FALSE]
    <3>1. handler' = [handler EXCEPT ![h] = call]
      BY <1>1, <2>2 DEF TypeOK, Handler
    <3>2. call.at = "cancel" /\ call.owner = o /\ call.ready = {}
      BY <1>1 DEF Handler
    <3> HIDE DEF call
    <3> QED BY <1>1, <3>1, <3>2, PutExact
  <2>6. \A p : Pinners(p)' = IF p = o THEN Pinners(p) \cup {h} ELSE Pinners(p)
    <3> SUFFICES ASSUME NEW p
                 PROVE  Pinners(p)' = IF p = o THEN Pinners(p) \cup {h} ELSE Pinners(p)
      OBVIOUS
    <3>1. \A g \in Handlers :
             handler'[g].at \in Pinning /\ handler'[g].owner = p
                <=> \/ handler[g].at \in Pinning /\ handler[g].owner = p
                    \/ g = h /\ p = o
      BY <1>1, <2>5 DEF Beside, Pinning
    <3> QED BY <3>1 DEF Pinners
  <2>7. HandlesCount'
    <3> SUFFICES ASSUME NEW p \in Owners
                 PROVE  /\ IsFiniteSet(Pinners(p)')
                        /\ Allocated(p)' => owner'[p].handles = Cardinality(Pinners(p)')
      BY DEF HandlesCount
    <3>1. IsFiniteSet(Pinners(p)) /\ (Allocated(p) => owner[p].handles = Cardinality(Pinners(p)))
      BY DEF PinInv, HandlesCount
    <3>2. CASE p = o
      <4>1. h \notin Pinners(p)
        BY <1>1 DEF Pinners, Pinning
      <4>2. /\ IsFiniteSet(Pinners(p) \cup {h})
            /\ Cardinality(Pinners(p) \cup {h}) = Cardinality(Pinners(p)) + 1
        BY <3>1, <4>1, FS_AddElement
      <4> QED BY <2>1, <2>3, <2>4, <2>6, <3>1, <3>2, <4>2
    <3>3. CASE p # o
      BY <2>4, <2>6, <3>1, <3>3 DEF Allocated
    <3> QED BY <3>2, <3>3
  <2>8. ASSUME NEW g \in Handlers \ {h} PROVE PinKnows(g)'
    <3>1. PinKnows(g)
      BY DEF PinInv
    <3>2. /\ o \notin handler[g].ready
          /\ handler[g].at \in Holding \ {"spawn"} => handler[g].owner # o
      BY <1>1, <2>1, HolderFacts DEF ReservationInv, ReadyIsDone
    <3>3. handler[g].at \in Pinning /\ Allocated(handler[g].owner)
             => owner'[handler[g].owner].request # None
      BY <2>3, <2>4, <3>1 DEF PinKnows, Allocated
    <3> QED BY <2>5, <2>6, <3>1, <3>2, <3>3 DEF PinKnows, Beside, Allocated
  <2>9. PinKnows(h)'
    BY <2>1, <2>3, <2>4, <2>5 DEF PinKnows, Allocated, Holding
  <2> QED BY <2>7, <2>8, <2>9 DEF PinInv
<1> QED BY <1>2, <1>3

\* group.cancel and the wait move on with the pin.
LEMMA CancelPins ==
    ASSUME ReservationInv, PinInv, NEW h \in Handlers, CancelGroup(h) \/ AwaitTask(h)
    PROVE  PinInv'
<1> DEFINE o == handler[h].owner
           new == [owner[o] EXCEPT !.interrupted = TRUE]
<1>1. /\ TypeOK /\ handler[h].at \in Pinning /\ o \in Owners /\ PinKnows(h)
  BY DEF CancelGroup, AwaitTask, ReservationInv, PinInv, PinKnows, Pinning
<1>2. PICK place \in {"await", "drop"} : Goto(h, place)
  BY DEF CancelGroup, AwaitTask
<1>3. /\ Beside(h) /\ handler'[h].at \in Pinning /\ handler'[h].at \notin Holding
      /\ handler'[h].owner = o /\ handler'[h].ready = handler[h].ready
      /\ handler'[h].late = handler[h].late
  BY <1>1, <1>2, GotoExact DEF Pinning, Holding
<1>4. \A p \in Owners : Counted(p)
  <2>1. UNCHANGED owner \/ owner' = [owner EXCEPT ![o] = new]
    BY <1>1 DEF CancelGroup, AwaitTask, TypeOK
  <2>2. new.handles = owner[o].handles /\ new.request = owner[o].request
    BY <1>1 DEF TypeOK, Owner
  <2> HIDE DEF new
  <2> QED BY <1>1, <2>1, <2>2 DEF TypeOK, Counted
<1>5. \A p \in handler'[h].ready : Pinners(p) = {}
  BY <1>1, <1>3 DEF PinKnows
<1> QED BY <1>1, <1>3, <1>4, <1>5, QuietPins

\* The last lock section of cancelActive lets go of the owner.
LEMMA DropPins ==
    ASSUME ReservationInv, PinInv, NEW h \in Handlers, DropHandle(h) PROVE PinInv'
<1> DEFINE o == handler[h].owner
           count == IF owner[o].handles > 0 THEN owner[o].handles - 1 ELSE 0
           new == [owner[o] EXCEPT !.handles = count]
<1>1. /\ TypeOK /\ handler[h].at = "drop" /\ o \in Owners /\ owner[o] \in Owner
      /\ handler[h] \in Handler /\ handler[h].ready = {} /\ h \in Pinners(o)
  BY DEF DropHandle, ReservationInv, ReadyIsDone, TypeOK, PinInv, PinKnows, Pinning, Pinners
<1>2. /\ owner' = [owner EXCEPT ![o] = new]
      /\ handler' = [handler EXCEPT ![h].at = "prune", ![h].owner = None]
  BY DEF DropHandle
<1>3. new.handles = count /\ new.request = owner[o].request
  BY <1>1 DEF Owner
<1> HIDE DEF new
<1>4. owner'[o] = new /\ \A p \in Owners \ {o} : owner'[p] = owner[p]
  BY <1>1, <1>2 DEF TypeOK
<1>5. Beside(h) /\ handler'[h].at = "prune" /\ handler'[h].ready = {}
  <2> DEFINE call == [handler[h] EXCEPT !.at = "prune", !.owner = None]
  <2>1. handler' = [handler EXCEPT ![h] = call]
    BY <1>1, <1>2 DEF TypeOK, Handler
  <2>2. call.at = "prune" /\ call.ready = {}
    BY <1>1 DEF Handler
  <2> HIDE DEF call
  <2> QED BY <1>1, <2>1, <2>2, PutExact
<1>6. \A p : Pinners(p)' = Pinners(p) \ {h}
  <2> SUFFICES ASSUME NEW p PROVE Pinners(p)' = Pinners(p) \ {h}
    OBVIOUS
  <2>1. \A g \in Handlers :
           handler'[g].at \in Pinning /\ handler'[g].owner = p
              <=> handler[g].at \in Pinning /\ handler[g].owner = p /\ g # h
    BY <1>5 DEF Beside, Pinning
  <2> QED BY <2>1 DEF Pinners
<1>7. HandlesCount'
  <2> SUFFICES ASSUME NEW p \in Owners
               PROVE  /\ IsFiniteSet(Pinners(p)')
                      /\ Allocated(p)' => owner'[p].handles = Cardinality(Pinners(p)')
    BY DEF HandlesCount
  <2>1. IsFiniteSet(Pinners(p)) /\ (Allocated(p) => owner[p].handles = Cardinality(Pinners(p)))
    BY DEF PinInv, HandlesCount
  <2>2. /\ IsFiniteSet(Pinners(p) \ {h})
        /\ Cardinality(Pinners(p) \ {h}) =
              IF h \in Pinners(p) THEN Cardinality(Pinners(p)) - 1 ELSE Cardinality(Pinners(p))
    BY <2>1, FS_RemoveElement
  <2>3. CASE p = o
    <3>1. Cardinality(Pinners(o)) # 0 /\ Cardinality(Pinners(o)) \in Nat
      BY <1>1, <2>1, <2>3, FS_EmptySet, FS_CardinalityType
    <3>2. Allocated(p)' => Allocated(p)
      BY <1>3, <1>4, <2>3 DEF Allocated
    <3>3. Allocated(p) => count = Cardinality(Pinners(p)) - 1
      BY <2>1, <2>3, <3>1
    <3>4. owner'[p].handles = count /\ h \in Pinners(p)
      BY <1>1, <1>3, <1>4, <2>3
    <3>5. Pinners(p)' = Pinners(p) \ {h}
      BY <1>6
    <3> HIDE DEF count
    <3> QED BY <2>2, <2>3, <3>2, <3>3, <3>4, <3>5
  <2>4. CASE p # o
    <3>1. h \notin Pinners(p)
      BY <2>4 DEF Pinners
    <3> QED BY <1>4, <1>6, <2>1, <2>2, <2>4, <3>1 DEF Allocated
  <2> QED BY <2>3, <2>4
<1>8. ASSUME NEW g \in Handlers \ {h} PROVE PinKnows(g)'
  <2>1. PinKnows(g)
    BY DEF PinInv
  <2>2. handler[g].at \in Pinning /\ Allocated(handler[g].owner)
           => owner'[handler[g].owner].request # None
    BY <1>3, <1>4, <2>1 DEF PinKnows, Allocated
  <2> QED BY <1>5, <1>6, <2>1, <2>2 DEF PinKnows, Beside, Allocated
<1>9. PinKnows(h)'
  BY <1>5 DEF PinKnows, Pinning, Holding
<1> QED BY <1>7, <1>8, <1>9 DEF PinInv

-----------------------------------------------------------------------------
(* The theorems *)

\* Nobody points to an owner.
LEMMA NobodyPins ==
    ASSUME \A h \in Handlers : handler[h].at = "idle" /\ handler[h].ready = {},
           \A o \in Owners : ~Allocated(o)
    PROVE  PinInv
<1>1. \A o : Pinners(o) = {}
  BY DEF Pinners, Pinning
<1>2. HandlesCount
  BY <1>1, FS_EmptySet DEF HandlesCount
<1>3. \A h \in Handlers : PinKnows(h)
  BY DEF PinKnows, Pinning, Holding
<1> QED BY <1>2, <1>3 DEF PinInv

\* At first nobody does.
LEMMA PinInit == Init => PinInv
BY NobodyPins DEF Init, IdleHandler, NewCall, FreeOwner, NewOwner, Allocated

\* A restart forgets every owner and every handler.
LEMMA RestartPins == ASSUME Restart PROVE PinInv'
<1>1. /\ \A h \in Handlers : handler'[h].at = "idle" /\ handler'[h].ready = {}
      /\ \A o \in Owners : ~Allocated(o)'
  BY DEF Restart, IdleHandler, NewCall, FreeOwner, NewOwner, Allocated
<1>2. \A o : Pinners(o)' = {}
  BY <1>1 DEF Pinners, Pinning
<1>3. HandlesCount'
  BY <1>1, <1>2, FS_EmptySet DEF HandlesCount
<1>4. \A h \in Handlers : PinKnows(h)'
  BY <1>1 DEF PinKnows, Pinning, Holding
<1> QED BY <1>3, <1>4 DEF PinInv

\* A task has nothing to do with the counts.
LEMMA TaskPins ==
    ASSUME ReservationInv, PinInv, UNCHANGED handler, \A o \in Owners : Counted(o) PROVE PinInv'
<1>1. \A o : Pinners(o)' = Pinners(o)
  BY DEF Pinners
<1>2. HandlesCount'
  BY <1>1 DEF PinInv, HandlesCount, Counted, Allocated
<1>3. \A h \in Handlers : PinKnows(h)'
  BY <1>1 DEF PinInv, PinKnows, Counted, Allocated
<1> QED BY <1>2, <1>3 DEF PinInv

\* Every step keeps the invariant, given that of the reservations.
LEMMA PinNext == ReservationInv /\ PinInv /\ [Next]_vars => PinInv'
<1> SUFFICES ASSUME ReservationInv, PinInv, [Next]_vars PROVE PinInv'
  OBVIOUS
<1>1. ASSUME NEW h \in Handlers, HandlerStep(h) PROVE PinInv'
  BY <1>1, CallsPin, QueuePins, PrunePins, ReapPins, SelectPins, GrantPins, InstallPins,
     LookupPins, CancelPins, DropPins
  DEF HandlerStep
<1>2. ASSUME NEW o \in Owners, TaskStep(o) PROVE PinInv'
  <2> DEFINE new == [owner[o] EXCEPT !.finished = TRUE]
  <2>1. UNCHANGED handler /\ (UNCHANGED owner \/ owner' = [owner EXCEPT ![o] = new])
    BY <1>2 DEF TaskStep, TaskBegin, TaskNext, TaskTransfer, TaskError, TaskCheck, TaskFinalize,
       TaskStamp, TaskFail, TaskCanceled, TaskRetire, TaskReturn
  <2>2. TypeOK /\ new.handles = owner[o].handles /\ new.request = owner[o].request
    BY DEF ReservationInv, TypeOK, Owner
  <2> HIDE DEF new
  <2>3. \A p \in Owners : Counted(p)
    BY <2>1, <2>2 DEF TypeOK, Counted
  <2> QED BY <2>1, <2>3, TaskPins
<1>3. CASE Restart
  BY <1>3, RestartPins
<1>4. CASE UNCHANGED vars
  BY <1>4, TaskPins DEF vars, Counted
<1> QED BY <1>1, <1>2, <1>3, <1>4 DEF Next

\* The reference count of an owner is the number of stop requests that point to it.
THEOREM PinsHold == Spec => []PinInv
BY PinInit, PinNext, ReservationsHold, PTL DEF Spec

\* An owner that a stop request has in hand is not freed under it, but by a handler that could
\* not spawn its task.
THEOREM HandlesStayLive == Spec => []HandlesAreLive
<1>1. PinInv => HandlesAreLive
  <2> SUFFICES ASSUME PinInv, NEW h \in Handlers,
                      handler[h].at \in {"cancel", "await", "drop"}, ~handler[h].late
               PROVE  Allocated(handler[h].owner) /\ owner[handler[h].owner].handles > 0
    BY DEF HandlesAreLive
  <2> DEFINE o == handler[h].owner
  <2>1. /\ o \in Owners /\ Allocated(o) /\ h \in Pinners(o) /\ IsFiniteSet(Pinners(o))
        /\ owner[o].handles = Cardinality(Pinners(o))
    BY DEF PinInv, PinKnows, HandlesCount, Pinners, Pinning
  <2>2. Cardinality(Pinners(o)) # 0 /\ Cardinality(Pinners(o)) \in Nat
    BY <2>1, FS_EmptySet, FS_CardinalityType
  <2> QED BY <2>1, <2>2
<1> QED BY <1>1, PinsHold, PTL
=============================================================================
