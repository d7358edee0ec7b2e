----------------------- MODULE DownloadManagerProofs -----------------------
(***************************************************************************)
(* The reservations of DownloadManager, for every set of handlers, ids,    *)
(* requests and owners: ReservationInv is inductive, and it implies that   *)
(* no two tasks write into overlapping directories and that installActive  *)
(* never meets a mapped id.                                                *)
(*                                                                         *)
(* The effect lemmas say what the updates of a record with EXCEPT come to, *)
(* field by field.  Three lemmas then cover the shapes of a step: a        *)
(* handler that holds no reservation afterwards (HandlerLeaves), a handler *)
(* that goes on with the one it holds (one lemma per action) and a task    *)
(* that moves (TaskMoves).                                                 *)
(***************************************************************************)
EXTENDS DownloadManager, TLAPS

\* What a step leaves of handler g, of the rows and of an owner.
Alike(g) ==
    /\ handler'[g].at = handler[g].at /\ handler'[g].call = handler[g].call
    /\ handler'[g].id = handler[g].id /\ handler'[g].request = handler[g].request
    /\ handler'[g].owner = handler[g].owner /\ handler'[g].ready = handler[g].ready
Moved(h, place) ==
    /\ handler'[h].at = place /\ handler'[h].call = handler[h].call
    /\ handler'[h].id = handler[h].id /\ handler'[h].request = handler[h].request
    /\ handler'[h].owner = handler[h].owner /\ handler'[h].ready = handler[h].ready
OthersAlike(h) == \A g \in Handlers \ {h} : Alike(g)
RowsKept ==
    \A i \in Ids : /\ record'[i].request = record[i].request
                   /\ record'[i].status = None <=> record[i].status = None
Kept(o) == owner'[o].id = owner[o].id /\ owner'[o].request = owner[o].request

USE DEF None

-----------------------------------------------------------------------------
(* What the helpers of the model do *)

\* Goto changes the place of one handler.
LEMMA GotoEffect ==
    ASSUME TypeOK, NEW h \in Handlers, NEW place \in Places, Goto(h, place)
    PROVE  handler' \in [Handlers -> Handler] /\ Moved(h, place) /\ OthersAlike(h)
<1>1. handler[h] \in Handler
  BY DEF TypeOK
<1>2. [handler[h] EXCEPT !.at = place] \in Handler
  BY <1>1 DEF Handler
<1>3. handler' = [handler EXCEPT ![h] = [handler[h] EXCEPT !.at = place]]
  BY DEF TypeOK, Handler, Goto
<1> QED
  BY <1>1, <1>2, <1>3 DEF TypeOK, Handler, Moved, OthersAlike, Alike

\* A new call, or an idle handler, in the place of the old one.
LEMMA CallEffect ==
    ASSUME TypeOK, NEW h \in Handlers, NEW place \in Places, NEW call \in Calls \cup {None},
           NEW i \in Ids \cup {None}, NEW r \in Requests \cup {None},
           handler' = [handler EXCEPT ![h] = NewCall(place, call, i, r)]
    PROVE  /\ handler' \in [Handlers -> Handler] /\ OthersAlike(h)
           /\ handler'[h] = NewCall(place, call, i, r)
<1>1. NewCall(place, call, i, r) \in Handler
  BY DEF NewCall, Handler
<1> QED
  BY <1>1 DEF TypeOK, NewCall, OthersAlike, Alike

\* A call that starts, prunes, reads or stops holds no reservation.
LEMMA TalkPlaces ==
    /\ {"idle", "prune", "read", "acquire", "lookup"} \subseteq Places
    /\ {"start", "resume"} \cup Stopped \cup {None} \subseteq Calls \cup {None}
    /\ None \in Ids \cup {None} /\ None \in Requests \cup {None}
BY DEF Places, Calls, Stopped

\* Return puts the idle handler in the place of one handler.
LEMMA ReturnEffect ==
    ASSUME TypeOK, NEW h \in Handlers, Return(h)
    PROVE  /\ handler' \in [Handlers -> Handler] /\ OthersAlike(h)
           /\ handler'[h].at = "idle" /\ handler'[h].call = None /\ handler'[h].id = None
           /\ handler'[h].request = None /\ handler'[h].owner = None /\ handler'[h].ready = {}
<1>1. handler' = [handler EXCEPT ![h] = NewCall("idle", None, None, None)]
  BY DEF Return, IdleHandler
<1> QED
  BY <1>1, CallEffect, TalkPlaces DEF NewCall

\* SetStatus changes the status of one row.
LEMMA SetStatusEffect ==
    ASSUME TypeOK, NEW i \in Ids, NEW s \in Statuses, SetStatus(i, s)
    PROVE  /\ record' \in [Ids -> Record]
           /\ record'[i].status = s
           /\ \A j \in Ids : record'[j].request = record[j].request
           /\ \A j \in Ids \ {i} : record'[j] = record[j]
<1>1. record[i] \in Record
  BY DEF TypeOK
<1>2. [record[i] EXCEPT !.status = s] \in Record
  BY <1>1 DEF Record
<1>3. record' = [record EXCEPT ![i] = [record[i] EXCEPT !.status = s]]
  BY DEF TypeOK, Record, SetStatus
<1> QED
  BY <1>1, <1>2, <1>3 DEF TypeOK, Record

\* Freed forgets the owners of one set.
LEMMA FreedEffect ==
    ASSUME TypeOK, NEW S \in SUBSET Owners, owner' = Freed(S)
    PROVE  owner' \in [Owners -> Owner] /\ \A o \in Owners \ S : owner'[o] = owner[o]
<1>1. FreeOwner \in Owner
  BY DEF FreeOwner, NewOwner, Owner
<1> QED
  BY <1>1 DEF TypeOK, Freed

\* Step moves one task.
LEMMA StepEffect ==
    ASSUME TypeOK, NEW o \in Owners, NEW from, NEW to \in Stages, Step(o, from, to)
    PROVE  /\ task' \in [Owners -> Stages] /\ task[o] = from /\ task'[o] = to
           /\ \A p \in Owners \ {o} : task'[p] = task[p]
BY DEF TypeOK, Step

-----------------------------------------------------------------------------
(* The shapes of a step *)

\* A handler goes where it holds no reservation.  The owners of S are freed:
\* nothing leads to them any more.
LEMMA HandlerLeaves ==
    ASSUME ReservationInv, TypeOK', NEW h \in Handlers, NEW S \in SUBSET Owners,
           RowsKept, OthersAlike(h),
           retired' \subseteq retired,
           reservations' = reservations \ S,
           \A o \in Owners \ S : Kept(o),
           \A o \in Owners : task'[o] = IF o \in S THEN None ELSE task[o],
           \A i \in Ids : active'[i] \notin S /\ active'[i] \in {active[i], None},
           \A o \in S : o \notin retired /\ task[o] \notin Live,
           \A g \in Handlers \ {h} :
              /\ handler[g].at \in Holding => handler[g].owner \notin S
              /\ handler[g].ready \cap S = {},
           handler'[h].at \notin Holding,
           handler'[h].id = handler[h].id \/ handler'[h].id = None
              \/ record[handler'[h].id].status # None,
           \A o \in handler'[h].ready : handler'[h].at = "reap" /\ o \in retired \ retired',
           CallerKnows(h)'
    PROVE  ReservationInv'
<1>1. LocalsMatch'
  BY DEF ReservationInv, TypeOK, LocalsMatch, CallerKnows, OthersAlike, Alike, RowsKept
<1>2. HoldersReserve'
  <2>1. SUFFICES ASSUME NEW g \in Handlers, handler'[g].at \in Holding PROVE HolderKnows(g)'
    BY DEF HoldersReserve
  <2>2. g # h /\ Alike(g) /\ handler[g].at \in Holding /\ handler[g].owner \notin S
    BY <2>1 DEF OthersAlike, Alike
  <2>3. HolderKnows(g) /\ handler[g].owner \in Owners
    BY <2>2 DEF ReservationInv, TypeOK, HoldersReserve, HolderKnows
  <2> DEFINE o == handler[g].owner
             i == handler[g].id
  <2>4. i \in Ids /\ o \in Owners \ S
    BY <2>2, <2>3 DEF HolderKnows
  <2>5. o \in reservations' /\ task'[o] = None /\ Kept(o)
    BY <2>3, <2>4 DEF HolderKnows
  <2>6. handler[g].at # "spawn" => \A j \in Ids : active'[j] # o
    BY <2>3, <2>4, NoneAssumption DEF HolderKnows
  <2> QED
    BY <2>2, <2>3, <2>4, <2>5, <2>6 DEF HolderKnows, Alike, RowsKept, Kept
<1>3. HoldersApart'
  <2>1. ASSUME NEW f \in Handlers, NEW g \in Handlers, f # g,
               handler'[f].at \in Holding, handler'[g].at \in Holding
        PROVE  handler'[f].owner # handler'[g].owner
    BY <2>1 DEF ReservationInv, HoldersApart, OthersAlike, Alike
  <2>2. ASSUME NEW f \in Handlers, NEW g \in Handlers, f # g, handler'[g].at \in {"select", "save"}
        PROVE  handler'[f].id # handler'[g].id
    <3>1. g # h /\ handler[g].at \in {"select", "save"} /\ handler'[g].id = handler[g].id
      BY <2>2 DEF OthersAlike, Alike, Holding
    <3>2. handler[g].id \in Ids /\ record[handler[g].id].status = None /\ handler[g].id # None
      BY <3>1, NoneAssumption DEF ReservationInv, HoldersReserve, HolderKnows, Holding
    <3>3. handler[f].id # handler[g].id
      BY <2>2, <3>1 DEF ReservationInv, HoldersApart
    <3> QED
      BY <2>2, <3>1, <3>2, <3>3 DEF OthersAlike, Alike
  <2> QED
    BY <2>1, <2>2 DEF HoldersApart
<1>4. RecordsNamed'
  BY DEF ReservationInv, RecordsNamed, RowsKept
<1>5. ReservationsDisjoint'
  BY DEF ReservationInv, TypeOK, ReservationsDisjoint, Kept, Overlap
<1>6. LiveIsReserved'
  BY DEF ReservationInv, TypeOK, LiveIsReserved, Live, Working, Kept, RowsKept
<1>7. ActiveIsReserved'
  BY DEF ReservationInv, TypeOK, ActiveIsReserved, Kept, RowsKept
<1>8. RetiredIsDone' /\ FreedHasNoTask'
  BY DEF ReservationInv, TypeOK, RetiredIsDone, FreedHasNoTask, Allocated, Kept
<1>9. ReadyIsDone'
  <2>1. ASSUME NEW g \in Handlers \ {h}, NEW o \in handler'[g].ready
        PROVE  /\ handler'[g].at = "reap" /\ o \notin reservations \cup retired
               /\ o \in Owners \ S /\ owner[o].request # None
    <3>1. handler'[g].ready = handler[g].ready /\ handler'[g].at = handler[g].at
      BY DEF OthersAlike, Alike
    <3>2. o \in Owners
      BY <3>1 DEF ReservationInv, TypeOK, Handler
    <3> QED
      BY <3>1, <3>2 DEF ReservationInv, ReadyIsDone
  <2>2. ASSUME NEW o \in handler'[h].ready
        PROVE  /\ handler'[h].at = "reap" /\ o \in retired /\ o \notin reservations \cup retired'
               /\ o \in Owners \ S /\ owner[o].request # None
    BY DEF ReservationInv, TypeOK, RetiredIsDone
  <2>3. \A f, g \in Handlers : f # g => handler'[f].ready \cap handler'[g].ready = {}
    <3>1. \A f, g \in Handlers \ {h} : f # g => handler'[f].ready \cap handler'[g].ready = {}
      BY DEF ReservationInv, ReadyIsDone, OthersAlike, Alike
    <3> QED
      BY <2>1, <2>2, <3>1
  <2> QED
    BY <2>1, <2>2, <2>3 DEF ReadyIsDone, Kept
<1> QED
  BY <1>1, <1>2, <1>3, <1>4, <1>5, <1>6, <1>7, <1>8, <1>9 DEF ReservationInv

\* A task goes on, or ends after its reservation is gone.
LEMMA TaskMoves ==
    ASSUME ReservationInv, TypeOK', NEW o \in Owners, RowsKept,
           UNCHANGED <<reservations, active, retired, owner, handler>>,
           \A p \in Owners \ {o} : task'[p] = task[p],
           task[o] # None, task'[o] # None, task'[o] \in Live => task[o] \in Live
    PROVE  ReservationInv'
<1>1. LocalsMatch'
  BY DEF ReservationInv, TypeOK, LocalsMatch, CallerKnows, RowsKept
<1>2. HoldersReserve'
  BY DEF ReservationInv, TypeOK, HoldersReserve, HolderKnows, Holding, RowsKept
<1>3. HoldersApart'
  BY DEF ReservationInv, HoldersApart
<1>4. RecordsNamed'
  BY DEF ReservationInv, RecordsNamed, RowsKept
<1>5. ReservationsDisjoint'
  BY DEF ReservationInv, ReservationsDisjoint
<1>6. LiveIsReserved'
  BY DEF ReservationInv, TypeOK, LiveIsReserved, RowsKept
<1>7. ActiveIsReserved'
  BY DEF ReservationInv, TypeOK, ActiveIsReserved, RowsKept
<1>8. FreedHasNoTask' /\ RetiredIsDone' /\ ReadyIsDone'
  BY DEF ReservationInv, FreedHasNoTask, Allocated, RetiredIsDone, ReadyIsDone
<1> QED
  BY <1>1, <1>2, <1>3, <1>4, <1>5, <1>6, <1>7, <1>8 DEF ReservationInv

\* The same for a step that frees nothing.
LEMMA HandlerTalks ==
    ASSUME ReservationInv, TypeOK', NEW h \in Handlers,
           RowsKept, OthersAlike(h), \A o \in Owners : Kept(o),
           UNCHANGED <<reservations, active, task>>,
           retired' \subseteq retired,
           handler'[h].at \notin Holding,
           handler'[h].id = handler[h].id \/ handler'[h].id = None
              \/ record[handler'[h].id].status # None,
           \A o \in handler'[h].ready : handler'[h].at = "reap" /\ o \in retired \ retired',
           CallerKnows(h)'
    PROVE  ReservationInv'
<1> DEFINE S == {}
<1>1. /\ S \in SUBSET Owners /\ reservations' = reservations \ S
      /\ \A o \in Owners \ S : Kept(o)
      /\ \A o \in Owners : task'[o] = IF o \in S THEN None ELSE task[o]
      /\ \A i \in Ids : active'[i] \notin S /\ active'[i] \in {active[i], None}
      /\ \A o \in S : o \notin retired /\ task[o] \notin Live
      /\ \A g \in Handlers \ {h} :
              /\ handler[g].at \in Holding => handler[g].owner \notin S
              /\ handler[g].ready \cap S = {}
  OBVIOUS
<1> HIDE DEF S
<1> QED
  BY <1>1, HandlerLeaves

-----------------------------------------------------------------------------
(* startPayload and resumePayload *)

\* startPayload begins: nothing but its own locals changes.
LEMMA StartCallKeeps ==
    ASSUME ReservationInv, NEW h \in Handlers, StartCall(h) PROVE ReservationInv'
<1>1. PICK r \in Requests : handler' = [handler EXCEPT ![h] = NewCall("prune", "start", None, r)]
  BY DEF StartCall
<1>2. /\ handler' \in [Handlers -> Handler] /\ OthersAlike(h)
      /\ handler'[h].at = "prune" /\ handler'[h].call = "start" /\ handler'[h].id = None
      /\ handler'[h].request = r /\ handler'[h].ready = {}
  BY <1>1, CallEffect, TalkPlaces DEF ReservationInv, NewCall
<1>3. TypeOK'
  BY <1>2 DEF ReservationInv, TypeOK, StartCall
<1>4. RowsKept /\ \A o \in Owners : Kept(o)
  BY DEF StartCall, RowsKept, Kept
<1>5. CallerKnows(h)'
  BY <1>2 DEF CallerKnows
<1> QED
  BY <1>2, <1>3, <1>4, <1>5, HandlerTalks DEF StartCall, Holding

\* resumePayload begins with an existing row.
LEMMA ResumeCallKeeps ==
    ASSUME ReservationInv, NEW h \in Handlers, ResumeCall(h) PROVE ReservationInv'
<1>1. PICK i \in Ids : /\ record[i].status # None
                       /\ handler' = [handler EXCEPT ![h] = NewCall("prune", "resume", i, None)]
  BY DEF ResumeCall
<1>2. /\ handler' \in [Handlers -> Handler] /\ OthersAlike(h)
      /\ handler'[h].at = "prune" /\ handler'[h].call = "resume" /\ handler'[h].id = i
      /\ handler'[h].request = None /\ handler'[h].ready = {}
  BY <1>1, CallEffect, TalkPlaces DEF ReservationInv, NewCall
<1>3. TypeOK'
  BY <1>2 DEF ReservationInv, TypeOK, ResumeCall
<1>4. RowsKept /\ \A o \in Owners : Kept(o)
  BY DEF ResumeCall, RowsKept, Kept
<1>5. record[i].request \in Requests
  BY <1>1 DEF ReservationInv, TypeOK, Record, RecordsNamed
<1>6. CallerKnows(h)'
  BY <1>2, <1>4, <1>5 DEF CallerKnows, RowsKept
<1> QED
  BY <1>1, <1>2, <1>3, <1>4, <1>6, HandlerTalks DEF ResumeCall, Holding

\* Where a call goes on after pruneRetired.
GoesOn(h) == handler' = [handler EXCEPT ![h] = AfterPrune(h)]

\* A call past pruneRetired still knows its id or its request.
LEMMA AfterPruneEffect ==
    ASSUME ReservationInv, NEW h \in Handlers, RowsKept, GoesOn(h)
    PROVE  /\ handler' \in [Handlers -> Handler] /\ OthersAlike(h)
           /\ handler'[h].at \notin Holding /\ handler'[h].ready = {}
           /\ handler'[h].id = handler[h].id \/ handler'[h].id = None
           /\ CallerKnows(h)'
<1> DEFINE call == handler[h].call
<1>0. TypeOK /\ handler[h] \in Handler /\ CallerKnows(h)
  BY DEF ReservationInv, TypeOK, LocalsMatch
<1>1. CASE call = "start"
  <2>1. PICK r \in Requests :
           handler' = [handler EXCEPT ![h] = NewCall("acquire", "start", None, r)]
    BY <1>0, <1>1 DEF GoesOn, AfterPrune, CallerKnows
  <2>2. /\ handler' \in [Handlers -> Handler] /\ OthersAlike(h)
        /\ handler'[h] = NewCall("acquire", "start", None, r)
    BY <1>0, <2>1, CallEffect, TalkPlaces
  <2>3. /\ handler'[h].at = "acquire" /\ handler'[h].call = "start" /\ handler'[h].id = None
        /\ handler'[h].request = r /\ handler'[h].ready = {}
    BY <2>2 DEF NewCall
  <2> QED
    BY <2>2, <2>3 DEF CallerKnows, Holding
<1>2. CASE call = "resume"
  <2>1. PICK i \in Ids :
           /\ i = handler[h].id
           /\ handler' = [handler EXCEPT ![h] = NewCall("read", "resume", i, None)]
    BY <1>0, <1>2 DEF GoesOn, AfterPrune, CallerKnows
  <2>2. /\ handler' \in [Handlers -> Handler] /\ OthersAlike(h)
        /\ handler'[h] = NewCall("read", "resume", i, None)
    BY <1>0, <2>1, CallEffect, TalkPlaces
  <2>3. /\ handler'[h].at = "read" /\ handler'[h].call = "resume" /\ handler'[h].id = i
        /\ handler'[h].request = None /\ handler'[h].ready = {}
    BY <2>2 DEF NewCall
  <2> QED
    BY <1>0, <1>2, <2>1, <2>2, <2>3 DEF CallerKnows, Holding, RowsKept
<1>3. CASE call \notin {"start", "resume"}
  <2>1. Return(h)
    BY <1>3 DEF GoesOn, AfterPrune, Return
  <2>2. /\ handler' \in [Handlers -> Handler] /\ OthersAlike(h)
        /\ handler'[h].at = "idle" /\ handler'[h].call = None /\ handler'[h].id = None
        /\ handler'[h].ready = {}
    BY <2>1, ReturnEffect DEF ReservationInv
  <2> QED
    BY <2>2 DEF CallerKnows, Holding
<1> QED
  BY <1>1, <1>2, <1>3

\* pruneRetired takes retired owners for one handler, so no two have the same.
LEMMA PruneKeeps ==
    ASSUME ReservationInv, NEW h \in Handlers, Prune(h) PROVE ReservationInv'
<1> DEFINE ready == {o \in retired : owner[o].finished /\ owner[o].handles = 0}
<1>1. /\ TypeOK /\ handler[h] \in Handler /\ handler[h].at = "prune" /\ retired' = retired \ ready
      /\ ready \subseteq retired /\ ready \in SUBSET Owners /\ CallerKnows(h)
  BY DEF Prune, ReservationInv, TypeOK, LocalsMatch
<1>2. RowsKept /\ \A o \in Owners : Kept(o)
  BY DEF Prune, RowsKept, Kept
<1>3. CASE ready = {}
  <2>1. GoesOn(h)
    BY <1>3 DEF Prune, GoesOn
  <2>2. /\ handler' \in [Handlers -> Handler] /\ OthersAlike(h) /\ CallerKnows(h)'
        /\ handler'[h].at \notin Holding /\ handler'[h].ready = {}
        /\ handler'[h].id = handler[h].id \/ handler'[h].id = None
    BY <1>2, <2>1, AfterPruneEffect
  <2>3. TypeOK'
    BY <1>1, <2>2 DEF Prune, TypeOK
  <2> QED
    BY <1>1, <1>2, <2>2, <2>3, HandlerTalks DEF Prune
<1>4. CASE ready # {}
  <2>1. handler' = [handler EXCEPT ![h] = [@ EXCEPT !.at = "reap", !.ready = ready]]
    BY <1>4 DEF Prune
  <2> HIDE DEF ready
  <2>2. /\ handler' \in [Handlers -> Handler] /\ OthersAlike(h)
        /\ handler'[h].at = "reap" /\ handler'[h].ready = ready /\ handler'[h].id = handler[h].id
        /\ handler'[h].call = handler[h].call /\ handler'[h].request = handler[h].request
    <3> DEFINE new == [handler[h] EXCEPT !.at = "reap", !.ready = ready]
    <3>1. /\ new \in Handler
          /\ new.at = "reap" /\ new.ready = ready /\ new.id = handler[h].id
          /\ new.call = handler[h].call /\ new.request = handler[h].request
      BY <1>1 DEF Handler, Places
    <3>2. handler' = [handler EXCEPT ![h] = new]
      BY <2>1
    <3> HIDE DEF new
    <3> QED
      BY <1>1, <3>1, <3>2 DEF TypeOK, OthersAlike, Alike
  <2>3. TypeOK'
    BY <1>1, <2>2 DEF Prune, TypeOK
  <2>4. CallerKnows(h)'
    BY <1>1, <1>2, <2>2 DEF CallerKnows, RowsKept
  <2>5. handler'[h].at \notin Holding
    BY <2>2 DEF Holding
  <2>6. \A o \in handler'[h].ready : handler'[h].at = "reap" /\ o \in retired \ retired'
    BY <1>1, <2>2
  <2> QED
    BY <1>1, <1>2, <2>2, <2>3, <2>4, <2>5, <2>6, HandlerTalks DEF Prune
<1> QED
  BY <1>3, <1>4

\* pruneRetired frees owners that no list has and whose task is gone.
LEMMA ReapKeeps ==
    ASSUME ReservationInv, NEW h \in Handlers, Reap(h) PROVE ReservationInv'
<1> DEFINE S == handler[h].ready
<1>1. /\ TypeOK /\ handler[h].at = "reap" /\ S \in SUBSET Owners
      /\ \A o \in S : task[o] = "returned" /\ o \notin reservations \cup retired
      /\ GoesOn(h) /\ owner' = Freed(S) /\ task' = Unspawned(S)
      /\ UNCHANGED <<record, reservations, active, retired, orphaned>>
  BY DEF Reap, GoesOn, ReservationInv, TypeOK, Handler, ReadyIsDone
<1>2. RowsKept
  BY <1>1 DEF RowsKept
<1>3. /\ handler' \in [Handlers -> Handler] /\ OthersAlike(h) /\ CallerKnows(h)'
      /\ handler'[h].at \notin Holding /\ handler'[h].ready = {}
      /\ handler'[h].id = handler[h].id \/ handler'[h].id = None
  BY <1>1, <1>2, AfterPruneEffect
<1>4. owner' \in [Owners -> Owner] /\ \A o \in Owners \ S : Kept(o)
  BY <1>1, FreedEffect DEF Kept
<1>5. /\ task' \in [Owners -> Stages]
      /\ \A o \in Owners : task'[o] = IF o \in S THEN None ELSE task[o]
  BY <1>1 DEF Unspawned, TypeOK, Stages
<1>6. TypeOK'
  BY <1>1, <1>3, <1>4, <1>5 DEF TypeOK
<1>7. reservations' = reservations \ S /\ retired' \subseteq retired
  BY <1>1
<1>8. \A i \in Ids : active'[i] \notin S /\ active'[i] \in {active[i], None}
  BY <1>1, NoneAssumption DEF ReservationInv, TypeOK, ActiveIsReserved
<1>9. \A o \in S : o \notin retired /\ task[o] \notin Live
  BY <1>1 DEF Live, Working
<1>10. \A g \in Handlers \ {h} :
          /\ handler[g].at \in Holding => handler[g].owner \notin S
          /\ handler[g].ready \cap S = {}
  BY <1>1 DEF ReservationInv, HoldersReserve, HolderKnows, ReadyIsDone
<1> HIDE DEF S
<1> QED
  BY <1>1, <1>2, <1>3, <1>4, <1>5, <1>6, <1>7, <1>8, <1>9, <1>10, HandlerLeaves

\* resumePayload takes its target from the row.
LEMMA ReadRecordKeeps ==
    ASSUME ReservationInv, NEW h \in Handlers, ReadRecord(h) PROVE ReservationInv'
<1> DEFINE row == record[handler[h].id]
<1>1. /\ TypeOK /\ handler[h] \in Handler /\ handler[h].at = "read" /\ handler[h].call = "resume"
      /\ handler[h].id \in Ids /\ row.request \in Requests
  BY DEF ReadRecord, ReservationInv, TypeOK, LocalsMatch, CallerKnows
<1>2. RowsKept /\ \A o \in Owners : Kept(o)
  BY DEF ReadRecord, RowsKept, Kept
<1>3. handler[h].ready = {}
  BY <1>1 DEF ReservationInv, ReadyIsDone
<1>4. /\ handler' \in [Handlers -> Handler] /\ OthersAlike(h) /\ CallerKnows(h)'
      /\ handler'[h].at \notin Holding /\ handler'[h].ready = {}
      /\ handler'[h].id = handler[h].id \/ handler'[h].id = None
  <2>1. CASE row.status = "completed"
    <3>1. Return(h)
      BY <2>1 DEF ReadRecord
    <3> QED
      BY <1>1, <3>1, ReturnEffect DEF CallerKnows, Holding
  <2>2. CASE row.status # "completed"
    <3> DEFINE new == [handler[h] EXCEPT !.at = "acquire", !.request = row.request]
    <3>1. handler' = [handler EXCEPT ![h] = new]
      BY <1>1, <2>2 DEF ReadRecord, TypeOK, Handler
    <3>2. /\ new \in Handler
          /\ new.at = "acquire" /\ new.request = row.request /\ new.id = handler[h].id
          /\ new.call = "resume" /\ new.ready = {}
      BY <1>1, <1>3 DEF Handler, Places
    <3> HIDE DEF new
    <3>3. /\ handler' \in [Handlers -> Handler] /\ OthersAlike(h) /\ handler'[h] = new
      BY <1>1, <3>1, <3>2 DEF TypeOK, OthersAlike, Alike
    <3> QED
      BY <1>1, <1>2, <3>2, <3>3 DEF CallerKnows, Holding, RowsKept
  <2> QED
    BY <2>1, <2>2
<1>5. TypeOK'
  BY <1>1, <1>4 DEF ReadRecord, TypeOK
<1> QED
  BY <1>1, <1>2, <1>4, <1>5, HandlerTalks DEF ReadRecord

\* acquireReservation refuses, or the call fails, and the handler answers.
LEMMA AcquireRefusedKeeps ==
    ASSUME ReservationInv, NEW h \in Handlers, AcquireRefused(h) \/ CallFails(h)
    PROVE  ReservationInv'
<1>1. TypeOK /\ Return(h)
  BY DEF AcquireRefused, CallFails, ReservationInv
<1>2. /\ handler' \in [Handlers -> Handler] /\ OthersAlike(h)
      /\ handler'[h].at = "idle" /\ handler'[h].call = None /\ handler'[h].id = None
      /\ handler'[h].ready = {}
  BY <1>1, ReturnEffect
<1>3. TypeOK'
  BY <1>1, <1>2 DEF AcquireRefused, CallFails, TypeOK
<1>4. RowsKept /\ \A o \in Owners : Kept(o)
  BY DEF AcquireRefused, CallFails, RowsKept, Kept
<1>5. CallerKnows(h)' /\ handler'[h].at \notin Holding
  BY <1>2 DEF CallerKnows, Holding
<1> QED
  BY <1>2, <1>3, <1>4, <1>5, HandlerTalks DEF AcquireRefused, CallFails

-----------------------------------------------------------------------------
(* pausePayload and cancelPayload *)

\* One owner changes, but not whose it is.
LEMMA OwnerEffect ==
    ASSUME TypeOK, NEW o, NEW new, owner' = [owner EXCEPT ![o] = new],
           o \in Owners => new \in Owner /\ new.id = owner[o].id /\ new.request = owner[o].request
    PROVE  owner' \in [Owners -> Owner] /\ \A p \in Owners : Kept(p)
BY DEF TypeOK, Kept

\* Between a place that holds nothing and another one.
LEMMA IdlePlaces ==
    ASSUME ReservationInv, NEW h \in Handlers, handler[h].at \in {"cancel", "await", "drop", "lookup"}
    PROVE  TypeOK /\ handler[h] \in Handler /\ handler[h].ready = {} /\ CallerKnows(h)
BY DEF ReservationInv, TypeOK, ReadyIsDone, LocalsMatch

\* setStatus(paused | canceled) keeps what the row asks for.
LEMMA StopCallKeeps ==
    ASSUME ReservationInv, NEW h \in Handlers, StopCall(h) PROVE ReservationInv'
<1>1. PICK i \in Ids, s \in Stopped \cap Offered :
         /\ record[i].status # None /\ SetStatus(i, s)
         /\ handler' = [handler EXCEPT ![h] = NewCall("lookup", s, i, None)]
  BY DEF StopCall
<1>2. TypeOK /\ s \in Statuses /\ s # None /\ s \notin {"start", "resume"} /\ s \in Calls \cup {None}
  BY DEF ReservationInv, Stopped, Statuses, Calls
<1>3. /\ handler' \in [Handlers -> Handler] /\ OthersAlike(h)
      /\ handler'[h] = NewCall("lookup", s, i, None)
  BY <1>1, <1>2, CallEffect, TalkPlaces
<1>4. /\ handler'[h].at = "lookup" /\ handler'[h].call = s /\ handler'[h].id = i
      /\ handler'[h].ready = {}
  BY <1>3 DEF NewCall
<1>5. /\ record' \in [Ids -> Record] /\ record'[i].status = s
      /\ \A j \in Ids : record'[j].request = record[j].request
      /\ \A j \in Ids \ {i} : record'[j] = record[j]
  BY <1>1, <1>2, SetStatusEffect
<1>6. RowsKept /\ \A o \in Owners : Kept(o)
  BY <1>1, <1>2, <1>5 DEF StopCall, RowsKept, Kept
<1>7. TypeOK'
  BY <1>2, <1>3, <1>5 DEF StopCall, TypeOK
<1>8. CallerKnows(h)' /\ handler'[h].at \notin Holding
  BY <1>2, <1>4 DEF CallerKnows, Holding
<1> QED
  BY <1>1, <1>3, <1>4, <1>6, <1>7, <1>8, HandlerTalks DEF StopCall

\* cancelActive retires an active owner and counts its handle.
LEMMA CancelLookupKeeps ==
    ASSUME ReservationInv, NEW h \in Handlers, CancelLookup(h) PROVE ReservationInv'
<1> DEFINE i == handler[h].id
           o == active[i]
<1>1. /\ TypeOK /\ handler[h] \in Handler /\ handler[h].ready = {} /\ CallerKnows(h)
      /\ i \in Ids /\ o \in Owners \cup {None}
  BY IdlePlaces DEF CancelLookup, CallerKnows, TypeOK
<1>2. RowsKept
  BY DEF CancelLookup, RowsKept
<1>3. CASE o = None
  <2>1. Return(h) /\ UNCHANGED <<owner, orphaned>>
    BY <1>3 DEF CancelLookup
  <2>2. /\ handler' \in [Handlers -> Handler] /\ OthersAlike(h)
        /\ handler'[h].at = "idle" /\ handler'[h].call = None /\ handler'[h].id = None
        /\ handler'[h].ready = {}
    BY <1>1, <2>1, ReturnEffect
  <2>3. TypeOK' /\ \A p \in Owners : Kept(p)
    BY <1>1, <2>1, <2>2 DEF CancelLookup, TypeOK, Kept
  <2>4. CallerKnows(h)' /\ handler'[h].at \notin Holding
    BY <2>2 DEF CallerKnows, Holding
  <2> QED
    BY <1>2, <2>2, <2>3, <2>4, HandlerTalks DEF CancelLookup
<1>4. CASE o # None
  <2> DEFINE newOwner == [owner[o] EXCEPT !.handles = @ + 1, !.cancelRequested = TRUE]
             new == [handler[h] EXCEPT !.at = "cancel", !.owner = o, !.late = FALSE]
  <2>1. /\ o \in Owners /\ owner[o] \in Owner
        /\ owner' = [owner EXCEPT ![o] = newOwner] /\ handler' = [handler EXCEPT ![h] = new]
        /\ orphaned' \subseteq Ids
    <3>1. o \in Owners /\ owner[o] \in Owner
      BY <1>1, <1>4 DEF TypeOK
    <3>2. owner' = [owner EXCEPT ![o] = newOwner] /\ handler' = [handler EXCEPT ![h] = new]
      BY <1>4 DEF CancelLookup
    <3>3. orphaned' = orphaned \cup {i} \/ orphaned' = orphaned
      BY <1>4 DEF CancelLookup
    <3>4. orphaned' \subseteq Ids
      BY <1>1, <3>3 DEF TypeOK
    <3> QED
      BY <3>1, <3>2, <3>4
  <2>2. newOwner \in Owner /\ newOwner.id = owner[o].id /\ newOwner.request = owner[o].request
    <3> DEFINE n == owner[o].handles + 1
    <3>1. n \in Nat
      BY <2>1 DEF Owner
    <3>2. newOwner = [owner[o] EXCEPT !.handles = n, !.cancelRequested = TRUE]
      OBVIOUS
    <3> HIDE DEF n
    <3> QED
      BY <2>1, <3>1, <3>2 DEF Owner
  <2>3. /\ new \in Handler /\ new.at = "cancel" /\ new.id = i /\ new.ready = {}
        /\ new.call = handler[h].call /\ new.request = handler[h].request
    BY <1>1, <2>1 DEF Handler, Places
  <2> HIDE DEF newOwner, new
  <2>4. /\ handler' \in [Handlers -> Handler] /\ OthersAlike(h) /\ handler'[h] = new
        /\ owner' \in [Owners -> Owner] /\ \A p \in Owners : Kept(p)
    BY <1>1, <2>1, <2>2, <2>3 DEF TypeOK, OthersAlike, Alike, Kept
  <2>5. TypeOK'
    BY <1>1, <2>1, <2>4 DEF CancelLookup, TypeOK
  <2>6. CallerKnows(h)' /\ handler'[h].at \notin Holding
    BY <1>1, <1>2, <2>3, <2>4 DEF CallerKnows, Holding, RowsKept
  <2> QED
    BY <1>2, <2>3, <2>4, <2>5, <2>6, HandlerTalks DEF CancelLookup
<1> QED
  BY <1>3, <1>4

\* group.cancel only marks the owner.
LEMMA CancelGroupKeeps ==
    ASSUME ReservationInv, NEW h \in Handlers, CancelGroup(h) PROVE ReservationInv'
<1> DEFINE o == handler[h].owner
<1>1. TypeOK /\ handler[h] \in Handler /\ handler[h].ready = {} /\ CallerKnows(h)
  BY IdlePlaces DEF CancelGroup
<1>2. PICK place \in {"drop", "await"} : Goto(h, place)
  BY DEF CancelGroup
<1>3. handler' \in [Handlers -> Handler] /\ Moved(h, place) /\ OthersAlike(h)
  BY <1>1, <1>2, GotoEffect DEF Places
<1>4. owner' \in [Owners -> Owner] /\ \A p \in Owners : Kept(p)
  <2>1. CASE owner' = owner
    BY <1>1, <2>1 DEF TypeOK, Kept
  <2>2. CASE owner' = [owner EXCEPT ![o].interrupted = TRUE]
    <3> DEFINE new == [owner[o] EXCEPT !.interrupted = TRUE]
    <3>1. owner' = [owner EXCEPT ![o] = new]
      BY <2>2
    <3>2. ASSUME o \in Owners
          PROVE  new \in Owner /\ new.id = owner[o].id /\ new.request = owner[o].request
      <4>1. owner[o] \in Owner
        BY <1>1, <3>2 DEF TypeOK
      <4> QED
        BY <4>1 DEF Owner
    <3> HIDE DEF new
    <3> QED
      BY <1>1, <3>1, <3>2, OwnerEffect
  <2> QED
    BY <2>1, <2>2 DEF CancelGroup
<1>5. RowsKept
  BY DEF CancelGroup, RowsKept
<1>6. TypeOK'
  BY <1>1, <1>3, <1>4 DEF CancelGroup, TypeOK
<1>7. CallerKnows(h)' /\ handler'[h].at \notin Holding
  BY <1>1, <1>3, <1>5 DEF CallerKnows, Holding, RowsKept, Moved
<1> QED
  BY <1>1, <1>3, <1>4, <1>5, <1>6, <1>7, HandlerTalks DEF CancelGroup, Moved

\* The stop request saw its task gone.
LEMMA AwaitTaskKeeps ==
    ASSUME ReservationInv, NEW h \in Handlers, AwaitTask(h) PROVE ReservationInv'
<1>1. TypeOK /\ handler[h] \in Handler /\ handler[h].ready = {} /\ CallerKnows(h)
  BY IdlePlaces DEF AwaitTask
<1>2. handler' \in [Handlers -> Handler] /\ Moved(h, "drop") /\ OthersAlike(h)
  BY <1>1, GotoEffect DEF AwaitTask, Places
<1>3. RowsKept /\ \A p \in Owners : Kept(p)
  BY DEF AwaitTask, RowsKept, Kept
<1>4. TypeOK'
  BY <1>1, <1>2 DEF AwaitTask, TypeOK
<1>5. CallerKnows(h)' /\ handler'[h].at \notin Holding
  BY <1>1, <1>2, <1>3 DEF CallerKnows, Holding, RowsKept, Moved
<1> QED
  BY <1>1, <1>2, <1>3, <1>4, <1>5, HandlerTalks DEF AwaitTask, Moved

\* cancelActive gives its handle back.
LEMMA DropHandleKeeps ==
    ASSUME ReservationInv, NEW h \in Handlers, DropHandle(h) PROVE ReservationInv'
<1> DEFINE o == handler[h].owner
           new == [handler[h] EXCEPT !.at = "prune", !.owner = None]
<1>1. TypeOK /\ handler[h] \in Handler /\ handler[h].ready = {} /\ CallerKnows(h)
  BY IdlePlaces DEF DropHandle
<1>2. /\ new \in Handler /\ new.at = "prune" /\ new.id = handler[h].id /\ new.ready = {}
      /\ new.call = handler[h].call /\ new.request = handler[h].request
  BY <1>1 DEF Handler, Places
<1>3. handler' = [handler EXCEPT ![h] = new]
  BY <1>1 DEF DropHandle, TypeOK, Handler
<1> HIDE DEF new
<1>4. handler' \in [Handlers -> Handler] /\ OthersAlike(h) /\ handler'[h] = new
  BY <1>1, <1>2, <1>3 DEF TypeOK, OthersAlike, Alike
<1>5. owner' \in [Owners -> Owner] /\ \A p \in Owners : Kept(p)
  <2> DEFINE fewer == IF owner[o].handles > 0 THEN owner[o].handles - 1 ELSE 0
             less == [owner[o] EXCEPT !.handles = fewer]
  <2>1. o \in Owners => owner[o] \in Owner
    BY <1>1 DEF TypeOK
  <2>2. o \in Owners => fewer \in Nat
    BY <2>1 DEF Owner
  <2>3. owner' = [owner EXCEPT ![o] = less]
    BY DEF DropHandle
  <2> HIDE DEF fewer
  <2>4. o \in Owners => less \in Owner /\ less.id = owner[o].id /\ less.request = owner[o].request
    BY <2>1, <2>2 DEF Owner
  <2> HIDE DEF less
  <2> QED
    BY <1>1, <2>3, <2>4, OwnerEffect
<1>6. RowsKept
  BY DEF DropHandle, RowsKept
<1>7. TypeOK'
  BY <1>1, <1>4, <1>5 DEF DropHandle, TypeOK
<1>8. CallerKnows(h)' /\ handler'[h].at \notin Holding
  BY <1>1, <1>2, <1>4, <1>6 DEF CallerKnows, Holding, RowsKept
<1> QED
  BY <1>2, <1>4, <1>5, <1>6, <1>7, <1>8, HandlerTalks DEF DropHandle

-----------------------------------------------------------------------------
(* A handler that holds a reservation *)

\* What nobody else has of the owner of a handler on its way to spawn a task.
LEMMA HolderFacts ==
    ASSUME ReservationInv, NEW h \in Handlers, handler[h].at \in Holding
    PROVE  /\ TypeOK /\ CallerKnows(h) /\ handler[h] \in Handler /\ handler[h].ready = {}
           /\ handler[h].owner \in Owners /\ handler[h].owner \in reservations \ retired
           /\ handler[h].id \in Ids /\ task[handler[h].owner] = None
           /\ owner[handler[h].owner].id = handler[h].id
           /\ owner[handler[h].owner].request = handler[h].request
           /\ handler[h].at \in {"queue", "install", "spawn"}
                 => record[handler[h].id].request = handler[h].request
           /\ handler[h].at \in {"select", "save"} => record[handler[h].id].status = None
           /\ handler[h].at # "spawn" => \A j \in Ids : active[j] # handler[h].owner
           /\ \A g \in Handlers \ {h} :
                /\ handler[g].at \in Holding => handler[g].owner # handler[h].owner
                /\ handler[h].owner \notin handler[g].ready
<1>1. TypeOK /\ CallerKnows(h) /\ HolderKnows(h)
  BY DEF ReservationInv, LocalsMatch, HoldersReserve
<1>2. handler[h] \in Handler /\ handler[h].owner \in reservations /\ handler[h].owner \in Owners
  BY <1>1 DEF TypeOK, HolderKnows
<1>3. handler[h].owner \notin retired
  BY <1>2 DEF ReservationInv, RetiredIsDone
<1>4. handler[h].ready = {}
  BY DEF ReservationInv, ReadyIsDone, Holding
<1>5. \A g \in Handlers \ {h} :
         /\ handler[g].at \in Holding => handler[g].owner # handler[h].owner
         /\ handler[h].owner \notin handler[g].ready
  BY <1>2 DEF ReservationInv, ReadyIsDone, HoldersApart
<1> QED
  BY <1>1, <1>2, <1>3, <1>4, <1>5 DEF HolderKnows

\* It goes on and keeps its reservation; the rows keep their requests.
LEMMA HolderAdvances ==
    ASSUME ReservationInv, TypeOK', NEW h \in Handlers, NEW place \in Holding,
           handler[h].at \in Holding \ {"spawn"}, Moved(h, place), OthersAlike(h), RowsKept,
           UNCHANGED <<reservations, retired, owner, task>>,
           \A j \in Ids : \/ active'[j] = active[j] /\ place # "spawn"
                          \/ j # handler[h].id /\ active'[j] = active[j]
                          \/ /\ j = handler[h].id /\ active'[j] = handler[h].owner
                             /\ place = "spawn" /\ handler[h].at = "install",
           place \in {"queue", "install", "spawn"}
              => record[handler[h].id].request = handler[h].request,
           place \in {"select", "save"} => handler[h].at \in {"select", "save"},
           place = "spawn" => handler[h].at = "install",
           CallerKnows(h)'
    PROVE  ReservationInv'
<1> DEFINE o == handler[h].owner
           i == handler[h].id
<1>1. /\ TypeOK /\ o \in reservations /\ o \in Owners /\ i \in Ids /\ task[o] = None
      /\ owner[o].id = i /\ owner[o].request = handler[h].request /\ handler[h].ready = {}
      /\ handler[h].at \in {"select", "save"} => record[i].status = None
      /\ handler[h].at # "spawn" => \A j \in Ids : active[j] # o
      /\ \A g \in Handlers \ {h} : handler[g].at \in Holding => handler[g].owner # o
  BY HolderFacts
<1>2. LocalsMatch'
  BY DEF ReservationInv, TypeOK, LocalsMatch, CallerKnows, OthersAlike, Alike, RowsKept
<1>3. HoldersReserve'
  <2>1. ASSUME NEW g \in Handlers \ {h}, handler'[g].at \in Holding
        PROVE  HolderKnows(g)'
    <3>1. Alike(g) /\ handler[g].at \in Holding /\ HolderKnows(g) /\ handler[g].owner # o
      BY <1>1, <2>1 DEF OthersAlike, Alike, ReservationInv, HoldersReserve
    <3>2. handler[g].at # "spawn" => \A j \in Ids : active'[j] # handler[g].owner
      BY <3>1 DEF HolderKnows
    <3> QED
      BY <3>1, <3>2 DEF HolderKnows, Alike, RowsKept
  <2>2. HolderKnows(h)'
    <3>1. place # "spawn" => \A j \in Ids : active'[j] # o
      BY <1>1
    <3> QED
      BY <1>1, <3>1 DEF HolderKnows, Moved, RowsKept
  <2> QED
    BY <2>1, <2>2 DEF HoldersReserve
<1>4. HoldersApart'
  BY DEF ReservationInv, HoldersApart, OthersAlike, Alike, Moved
<1>5. RecordsNamed'
  BY DEF ReservationInv, RecordsNamed, RowsKept
<1>6. ReservationsDisjoint' /\ RetiredIsDone' /\ FreedHasNoTask'
  BY DEF ReservationInv, ReservationsDisjoint, RetiredIsDone, FreedHasNoTask, Allocated
<1>7. LiveIsReserved'
  BY DEF ReservationInv, LiveIsReserved, RowsKept
<1>8. ActiveIsReserved'
  <2>1. ASSUME NEW j \in Ids, active'[j] = active[j], active'[j] # None
        PROVE  /\ active'[j] \in reservations' /\ owner'[active'[j]].id = j
               /\ owner'[active'[j]].request = record'[j].request
    BY <2>1 DEF ReservationInv, ActiveIsReserved, RowsKept
  <2>2. ASSUME NEW j \in Ids, j = i, active'[j] = o, place = "spawn"
        PROVE  /\ active'[j] \in reservations' /\ owner'[active'[j]].id = j
               /\ owner'[active'[j]].request = record'[j].request
    BY <1>1, <2>2 DEF RowsKept
  <2> QED
    BY <2>1, <2>2 DEF ActiveIsReserved
<1>9. ReadyIsDone'
  <2>1. \A g \in Handlers : handler'[g].ready = handler[g].ready
    BY DEF OthersAlike, Alike, Moved
  <2>2. \A g \in Handlers : handler[g].ready # {} => handler'[g].at = handler[g].at
    BY <1>1 DEF OthersAlike, Alike
  <2> QED
    BY <2>1, <2>2 DEF ReservationInv, ReadyIsDone
<1> QED
  BY <1>2, <1>3, <1>4, <1>5, <1>6, <1>7, <1>8, <1>9 DEF ReservationInv

\* It lets go of its reservation: S is its owner.
LEMMA HolderFrees ==
    ASSUME ReservationInv, TypeOK', NEW h \in Handlers, handler[h].at \in Holding,
           RowsKept, OthersAlike(h), UNCHANGED <<retired, task>>,
           reservations' = reservations \ {handler[h].owner},
           \A p \in Owners \ {handler[h].owner} : Kept(p),
           \A i \in Ids : active'[i] # handler[h].owner /\ active'[i] \in {active[i], None},
           handler'[h].at = "idle", handler'[h].id = None, handler'[h].ready = {},
           handler'[h].call = None
    PROVE  ReservationInv'
<1> DEFINE S == {handler[h].owner}
<1>1. /\ S \in SUBSET Owners /\ reservations' = reservations \ S
      /\ \A o \in Owners \ S : Kept(o)
      /\ \A o \in Owners : task'[o] = IF o \in S THEN None ELSE task[o]
      /\ \A i \in Ids : active'[i] \notin S /\ active'[i] \in {active[i], None}
      /\ \A o \in S : o \notin retired /\ task[o] \notin Live
      /\ \A g \in Handlers \ {h} :
              /\ handler[g].at \in Holding => handler[g].owner \notin S
              /\ handler[g].ready \cap S = {}
  BY HolderFacts DEF Live, Working
<1> HIDE DEF S
<1>2. CallerKnows(h)' /\ handler'[h].at \notin Holding
  BY DEF CallerKnows, Holding
<1> QED
  BY <1>1, <1>2, HandlerLeaves

\* releaseReservation, at the places where no map entry leads to the owner.
LEMMA ReleaseKeeps ==
    ASSUME ReservationInv, NEW h \in Handlers, handler[h].at \in {"select", "save", "queue"}, Release(h),
           UNCHANGED <<record, active, retired, task, orphaned>>
    PROVE  ReservationInv'
<1>1. /\ handler[h].at \in Holding /\ TypeOK /\ handler[h].owner \in Owners
      /\ \A j \in Ids : active[j] # handler[h].owner
  BY HolderFacts DEF Holding
<1>2. /\ handler' \in [Handlers -> Handler] /\ OthersAlike(h)
      /\ handler'[h].at = "idle" /\ handler'[h].call = None /\ handler'[h].id = None
      /\ handler'[h].ready = {}
  BY <1>1, ReturnEffect DEF Release
<1>3. /\ owner' \in [Owners -> Owner] /\ \A p \in Owners \ {handler[h].owner} : Kept(p)
  BY <1>1, FreedEffect DEF Release, Kept
<1>4. TypeOK' /\ RowsKept
  BY <1>1, <1>2, <1>3 DEF TypeOK, Release, RowsKept
<1> QED
  BY <1>1, <1>2, <1>3, <1>4, HolderFrees DEF Release

\* The call failed and the reservation is released.
LEMMA StartFailsKeeps ==
    ASSUME ReservationInv, NEW h \in Handlers, StartFails(h) PROVE ReservationInv'
BY ReleaseKeeps DEF StartFails

\* removeFailedActive.
LEMMA DiscardKeeps ==
    ASSUME ReservationInv, NEW h \in Handlers, handler[h].at \in {"install", "spawn"}, Discard(h),
           UNCHANGED <<record, retired, task>>
    PROVE  ReservationInv'
<1> DEFINE o == handler[h].owner
           i == handler[h].id
<1>1. /\ handler[h].at \in Holding /\ TypeOK /\ o \in Owners /\ i \in Ids
      /\ owner[o].id = i
  BY HolderFacts DEF Holding
<1>2. /\ handler' \in [Handlers -> Handler] /\ OthersAlike(h) /\ handler'[h] = IdleHandler
  <2> DEFINE late(g) == [handler[g] EXCEPT !.late = TRUE]
  <2>1. \A g \in Handlers : handler'[g] \in {IdleHandler, handler[g], late(g)}
    BY DEF Discard
  <2>2. \A g \in Handlers : handler[g] \in Handler
    BY <1>1 DEF TypeOK
  <2>3. \A g \in Handlers :
           /\ late(g) \in Handler /\ late(g).at = handler[g].at /\ late(g).call = handler[g].call
           /\ late(g).id = handler[g].id /\ late(g).request = handler[g].request
           /\ late(g).owner = handler[g].owner /\ late(g).ready = handler[g].ready
    BY <2>2 DEF Handler
  <2>4. IdleHandler \in Handler
    BY DEF IdleHandler, NewCall, Handler, Places
  <2>5. handler'[h] = IdleHandler /\ \A g \in Handlers \ {h} : handler'[g] \in {handler[g], late(g)}
    BY DEF Discard
  <2>6. handler' = [g \in Handlers |-> handler'[g]]
    BY DEF Discard
  <2> HIDE DEF late
  <2> QED
    BY <2>1, <2>2, <2>3, <2>4, <2>5, <2>6 DEF OthersAlike, Alike
<1>3. /\ handler'[h].at = "idle" /\ handler'[h].id = None /\ handler'[h].ready = {}
      /\ handler'[h].call = None
  BY <1>2 DEF IdleHandler, NewCall
<1>4. /\ owner' \in [Owners -> Owner] /\ \A p \in Owners \ {o} : Kept(p)
  BY <1>1, FreedEffect DEF Discard, Kept
<1>5. \A j \in Ids : j # i => active[j] # o
  BY <1>1, NoneAssumption DEF ReservationInv, ActiveIsReserved
<1>6. /\ active' \in [Ids -> Owners \cup {None}]
      /\ \A j \in Ids : active'[j] # o /\ active'[j] \in {active[j], None}
  BY <1>1, <1>5, NoneAssumption DEF Discard, TypeOK
<1>7. TypeOK' /\ RowsKept
  BY <1>1, <1>2, <1>4, <1>6 DEF TypeOK, Discard, RowsKept
<1>8. reservations' = reservations \ {o}
  BY DEF Discard
<1> QED
  BY <1>1, <1>2, <1>3, <1>4, <1>6, <1>7, <1>8, HolderFrees

\* findReusablePayload answers, or the handler goes on to save its row.
LEMMA LookupReusableKeeps ==
    ASSUME ReservationInv, NEW h \in Handlers, LookupReusable(h) PROVE ReservationInv'
<1>1. CASE Release(h)
  BY <1>1, ReleaseKeeps DEF LookupReusable
<1>2. CASE Goto(h, "save") /\ UNCHANGED <<reservations, owner>>
  <2>1. TypeOK /\ CallerKnows(h) /\ handler[h].at = "select"
    BY DEF LookupReusable, ReservationInv, LocalsMatch
  <2>2. handler' \in [Handlers -> Handler] /\ Moved(h, "save") /\ OthersAlike(h)
    BY <1>2, <2>1, GotoEffect DEF Places
  <2>3. TypeOK' /\ RowsKept
    BY <1>2, <2>1, <2>2 DEF LookupReusable, TypeOK, RowsKept
  <2>4. CallerKnows(h)'
    BY <2>1, <2>2, <2>3 DEF CallerKnows, Moved, RowsKept
  <2>5. /\ "save" \in Holding /\ handler[h].at \in Holding \ {"spawn"}
        /\ \A j \in Ids : active'[j] = active[j] /\ "save" # "spawn"
        /\ UNCHANGED <<reservations, retired, owner, task>>
    BY <1>2, <2>1 DEF LookupReusable, Holding
  <2> QED
    BY <2>1, <2>2, <2>3, <2>4, <2>5, HolderAdvances
<1> QED
  BY <1>1, <1>2 DEF LookupReusable

\* resumePayload queues the row it holds the reservation of.
LEMMA QueueRecordKeeps ==
    ASSUME ReservationInv, NEW h \in Handlers, QueueRecord(h) PROVE ReservationInv'
<1> DEFINE i == handler[h].id
           late(g) == [handler[g] EXCEPT !.late = TRUE]
<1>1. /\ handler[h].at = "queue" /\ TypeOK /\ CallerKnows(h) /\ i \in Ids
      /\ record[i].request = handler[h].request /\ handler[h].call = "resume"
      /\ record[i].status # None
  <2>1. /\ handler[h].at = "queue" /\ TypeOK /\ CallerKnows(h) /\ i \in Ids
        /\ record[i].request = handler[h].request
    BY HolderFacts DEF QueueRecord, Holding
  <2>2. handler[h].call = "resume" /\ record[i].request \in Requests
    BY <2>1 DEF CallerKnows
  <2> QED
    BY <2>1, <2>2, NoneAssumption DEF ReservationInv, RecordsNamed
<1>2. /\ record' \in [Ids -> Record] /\ record'[i].status = "queued"
      /\ \A j \in Ids : record'[j].request = record[j].request
      /\ \A j \in Ids \ {i} : record'[j] = record[j]
  BY <1>1, SetStatusEffect DEF QueueRecord, Statuses
<1>3. RowsKept
  BY <1>1, <1>2 DEF RowsKept
<1>4. /\ handler' \in [Handlers -> Handler] /\ OthersAlike(h) /\ Moved(h, "install")
  <2> DEFINE new == [handler[h] EXCEPT !.at = "install"]
  <2>1. handler'[h] = new /\ \A g \in Handlers \ {h} : handler'[g] \in {handler[g], late(g)}
    BY DEF QueueRecord
  <2>2. \A g \in Handlers : handler[g] \in Handler
    BY <1>1 DEF TypeOK
  <2>3. \A g \in Handlers :
           /\ late(g) \in Handler /\ late(g).at = handler[g].at /\ late(g).call = handler[g].call
           /\ late(g).id = handler[g].id /\ late(g).request = handler[g].request
           /\ late(g).owner = handler[g].owner /\ late(g).ready = handler[g].ready
    BY <2>2 DEF Handler
  <2>4. /\ new \in Handler /\ new.at = "install" /\ new.call = handler[h].call
        /\ new.id = handler[h].id /\ new.request = handler[h].request
        /\ new.owner = handler[h].owner /\ new.ready = handler[h].ready
    BY <2>2 DEF Handler, Places
  <2>5. handler' = [g \in Handlers |-> handler'[g]]
    BY DEF QueueRecord
  <2> HIDE DEF late, new
  <2> QED
    BY <2>1, <2>2, <2>3, <2>4, <2>5 DEF OthersAlike, Alike, Moved
<1>5. TypeOK'
  BY <1>1, <1>2, <1>4 DEF QueueRecord, TypeOK
<1>6. CallerKnows(h)'
  BY <1>1, <1>3, <1>4 DEF CallerKnows, Moved, RowsKept
<1>7. /\ "install" \in Holding /\ handler[h].at \in Holding \ {"spawn"}
      /\ \A j \in Ids : active'[j] = active[j] /\ "install" # "spawn"
      /\ UNCHANGED <<reservations, retired, owner, task>>
  BY <1>1 DEF QueueRecord, Holding
<1> QED
  BY <1>1, <1>3, <1>4, <1>5, <1>6, <1>7, HolderAdvances

\* installActive maps the id to the owner, or the owner is discarded.
LEMMA InstallKeeps ==
    ASSUME ReservationInv, NEW h \in Handlers, Install(h) PROVE ReservationInv'
<1> DEFINE i == handler[h].id
           o == handler[h].owner
<1>1. /\ handler[h].at = "install" /\ TypeOK /\ CallerKnows(h) /\ i \in Ids /\ o \in Owners
      /\ record[i].request = handler[h].request
  BY HolderFacts DEF Install, Holding
<1>2. CASE Discard(h)
  BY <1>1, <1>2, DiscardKeeps DEF Install
<1>3. CASE /\ active' = [active EXCEPT ![i] = o] /\ Goto(h, "spawn")
           /\ UNCHANGED <<reservations, owner, orphaned>>
  <2>1. handler' \in [Handlers -> Handler] /\ Moved(h, "spawn") /\ OthersAlike(h)
    BY <1>1, <1>3, GotoEffect DEF Places
  <2>2. TypeOK' /\ RowsKept
    BY <1>1, <1>3, <2>1 DEF Install, TypeOK, RowsKept
  <2>3. CallerKnows(h)'
    BY <1>1, <2>1, <2>2 DEF CallerKnows, Moved, RowsKept
  <2>4. /\ "spawn" \in Holding /\ handler[h].at \in Holding \ {"spawn"}
        /\ UNCHANGED <<reservations, retired, owner, task>>
        /\ \A j \in Ids : \/ j # i /\ active'[j] = active[j]
                          \/ j = i /\ active'[j] = o
    BY <1>1, <1>3 DEF Install, Holding, TypeOK
  <2> QED
    BY <1>1, <2>1, <2>2, <2>3, <2>4, HolderAdvances
<1> QED
  BY <1>2, <1>3 DEF Install

\* No task could be spawned and the owner is discarded.
LEMMA SpawnFailsKeeps ==
    ASSUME ReservationInv, NEW h \in Handlers, SpawnFails(h) PROVE ReservationInv'
BY DiscardKeeps DEF SpawnFails

\* The task takes the reservation over.
LEMMA SpawnKeeps ==
    ASSUME ReservationInv, NEW h \in Handlers, Spawn(h) PROVE ReservationInv'
<1> DEFINE o == handler[h].owner
<1>1. /\ handler[h].at = "spawn" /\ TypeOK /\ o \in Owners /\ o \in reservations
      /\ handler[h].id \in Ids /\ owner[o].id = handler[h].id
      /\ owner[o].request = record[owner[o].id].request
      /\ \A g \in Handlers \ {h} : handler[g].at \in Holding => handler[g].owner # o
  BY HolderFacts DEF Spawn, Holding
<1>2. /\ handler' \in [Handlers -> Handler] /\ OthersAlike(h)
      /\ handler'[h].at = "idle" /\ handler'[h].call = None /\ handler'[h].id = None
      /\ handler'[h].ready = {}
  BY <1>1, ReturnEffect DEF Spawn
<1>3. /\ task' \in [Owners -> Stages] /\ task'[o] = "begin"
      /\ \A p \in Owners \ {o} : task'[p] = task[p]
  BY <1>1 DEF Spawn, TypeOK, Stages, Working
<1>4. TypeOK'
  BY <1>1, <1>2, <1>3 DEF Spawn, TypeOK
<1>5. UNCHANGED <<record, reservations, active, retired, owner, orphaned>>
  BY DEF Spawn
<1>6. LocalsMatch'
  BY <1>2, <1>5 DEF ReservationInv, LocalsMatch, CallerKnows, OthersAlike, Alike
<1>7. HoldersReserve'
  <2>1. SUFFICES ASSUME NEW g \in Handlers \ {h}, handler[g].at \in Holding, Alike(g)
                 PROVE  HolderKnows(g)'
    BY <1>2 DEF HoldersReserve, OthersAlike, Alike, Holding
  <2>2. HolderKnows(g) /\ handler[g].owner # o /\ handler[g].owner \in Owners
    BY <1>1, <2>1 DEF ReservationInv, HoldersReserve, HolderKnows, TypeOK
  <2> QED
    BY <1>3, <1>5, <2>1, <2>2 DEF HolderKnows, Alike
<1>8. HoldersApart'
  <2>1. \A g \in Handlers : handler'[g].at \in Holding \cup {"select", "save"} =>
           g # h /\ handler[g].at = handler'[g].at /\ handler[g].owner = handler'[g].owner
           /\ handler[g].id = handler'[g].id /\ handler[g].id \in Ids
    BY <1>2 DEF OthersAlike, Alike, Holding, ReservationInv, HoldersReserve, HolderKnows
  <2>2. \A g \in Handlers : handler'[g].id \in {handler[g].id, None}
    BY <1>2 DEF OthersAlike, Alike
  <2> QED
    BY <2>1, <2>2, NoneAssumption DEF ReservationInv, HoldersApart
<1>9. RecordsNamed' /\ ReservationsDisjoint' /\ ActiveIsReserved' /\ RetiredIsDone'
  BY <1>5 DEF ReservationInv, RecordsNamed, ReservationsDisjoint, ActiveIsReserved, RetiredIsDone
<1>10. LiveIsReserved' /\ FreedHasNoTask'
  BY <1>1, <1>3, <1>5, NoneAssumption
     DEF ReservationInv, LiveIsReserved, FreedHasNoTask, Allocated, ReservationsDisjoint
<1>11. ReadyIsDone'
  BY <1>2, <1>5 DEF ReservationInv, ReadyIsDone, OthersAlike, Alike
<1> QED
  BY <1>4, <1>6, <1>7, <1>8, <1>9, <1>10, <1>11 DEF ReservationInv

\* No row of the id exists yet, so nobody relies on it.
LEMMA SaveRecordKeeps ==
    ASSUME ReservationInv, NEW h \in Handlers, SaveRecord(h) PROVE ReservationInv'
<1> DEFINE i == handler[h].id
           o == handler[h].owner
           row == [request |-> handler[h].request, status |-> "queued", files |-> 0]
<1>1. /\ handler[h].at = "save" /\ TypeOK /\ CallerKnows(h) /\ i \in Ids /\ o \in Owners
      /\ o \in reservations /\ task[o] = None /\ owner[o].id = i
      /\ owner[o].request = handler[h].request /\ record[i].status = None
      /\ handler[h].ready = {} /\ handler[h] \in Handler
      /\ \A j \in Ids : active[j] # o
      /\ \A g \in Handlers \ {h} : handler[g].at \in Holding => handler[g].owner # o
  BY HolderFacts DEF SaveRecord, Holding
<1>2. handler[h].call = "start" /\ handler[h].request \in Requests /\ record[i].request = None
  BY <1>1 DEF CallerKnows, ReservationInv, RecordsNamed
<1>3. handler' \in [Handlers -> Handler] /\ Moved(h, "install") /\ OthersAlike(h)
  BY <1>1, GotoEffect DEF SaveRecord, Places
<1>4. UNCHANGED <<reservations, active, retired, owner, task, orphaned>>
  BY DEF SaveRecord
<1>5. /\ record' \in [Ids -> Record] /\ \A j \in Ids \ {i} : record'[j] = record[j]
      /\ record'[i].request = handler[h].request /\ record'[i].status = "queued"
  <2>1. row \in Record /\ row.request = handler[h].request /\ row.status = "queued"
    BY <1>2, BoundsAssumption DEF Record, Statuses
  <2>2. record' = [record EXCEPT ![i] = row]
    BY DEF SaveRecord
  <2> HIDE DEF row
  <2> QED
    BY <1>1, <2>1, <2>2 DEF TypeOK
<1>6. TypeOK'
  BY <1>1, <1>3, <1>4, <1>5 DEF TypeOK
<1>7. \A g \in Handlers \ {h} : handler[g].id # i
  BY <1>1 DEF ReservationInv, HoldersApart
<1>8. LocalsMatch'
  <2>1. ASSUME NEW g \in Handlers \ {h} PROVE CallerKnows(g)'
    <3>1. CallerKnows(g) /\ Alike(g) /\ handler[g].id # i
      BY <1>3, <1>7 DEF OthersAlike, ReservationInv, LocalsMatch
    <3> QED
      BY <1>5, <3>1 DEF CallerKnows, Alike
  <2>2. CallerKnows(h)'
    BY <1>1, <1>2, <1>3 DEF CallerKnows, Moved
  <2> QED
    BY <2>1, <2>2 DEF LocalsMatch
<1>9. HoldersReserve'
  <2>1. ASSUME NEW g \in Handlers \ {h}, handler'[g].at \in Holding PROVE HolderKnows(g)'
    <3>1. Alike(g) /\ HolderKnows(g) /\ handler[g].id # i
      BY <1>3, <1>7, <2>1 DEF OthersAlike, Alike, ReservationInv, HoldersReserve
    <3> QED
      BY <1>4, <1>5, <3>1 DEF HolderKnows, Alike
  <2>2. HolderKnows(h)'
    BY <1>1, <1>3, <1>4, <1>5 DEF HolderKnows, Moved
  <2> QED
    BY <2>1, <2>2 DEF HoldersReserve
<1>10. HoldersApart'
  BY <1>1, <1>3 DEF ReservationInv, HoldersApart, OthersAlike, Alike, Moved, Holding
<1>11. RecordsNamed'
  BY <1>2, <1>5, NoneAssumption DEF ReservationInv, RecordsNamed
<1>12. ReservationsDisjoint' /\ RetiredIsDone' /\ FreedHasNoTask'
  BY <1>4 DEF ReservationInv, ReservationsDisjoint, RetiredIsDone, FreedHasNoTask, Allocated
<1>13. LiveIsReserved'
  BY <1>2, <1>4, <1>5, NoneAssumption
     DEF ReservationInv, LiveIsReserved, ReservationsDisjoint
<1>14. ActiveIsReserved'
  BY <1>2, <1>4, <1>5, NoneAssumption
     DEF ReservationInv, ActiveIsReserved, ReservationsDisjoint
<1>15. ReadyIsDone'
  <2>1. \A g \in Handlers : handler'[g].ready = handler[g].ready
    BY <1>3 DEF OthersAlike, Alike, Moved
  <2>2. \A g \in Handlers : handler[g].ready # {} => handler'[g].at = handler[g].at
    BY <1>1, <1>3 DEF OthersAlike, Alike
  <2> QED
    BY <1>4, <2>1, <2>2 DEF ReservationInv, ReadyIsDone
<1> QED
  BY <1>6, <1>8, <1>9, <1>10, <1>11, <1>12, <1>13, <1>14, <1>15 DEF ReservationInv

\* The new reservation overlaps no listed one, and its slot is in use nowhere.
LEMMA AcquireGrantedKeeps ==
    ASSUME ReservationInv, NEW h \in Handlers, AcquireGranted(h) PROVE ReservationInv'
<1> DEFINE r == handler[h].request
           place == IF handler[h].call = "resume" THEN "queue" ELSE "select"
<1>1. /\ TypeOK /\ CallerKnows(h) /\ handler[h] \in Handler /\ handler[h].at = "acquire"
      /\ r \in Requests /\ handler[h].call \in {"start", "resume"} /\ ~Conflict(r)
      /\ handler[h].ready = {}
  BY DEF AcquireGranted, ReservationInv, TypeOK, LocalsMatch, CallerKnows, ReadyIsDone
<1>2. PICK o \in Owners,
           i \in IF handler[h].call = "resume" THEN {handler[h].id} ELSE {j \in Ids : Fresh(j)} :
         /\ Available(o)
         /\ owner' = [owner EXCEPT ![o] = NewOwner(i, r)]
         /\ reservations' = reservations \cup {o}
         /\ handler' = [handler EXCEPT ![h].at = place, ![h].id = i, ![h].owner = o]
  BY DEF AcquireGranted
<1>3. UNCHANGED <<record, active, retired, task, orphaned>>
  BY DEF AcquireGranted
<1>4. /\ i \in Ids
      /\ handler[h].call = "resume" => i = handler[h].id /\ record[i].request = r
      /\ handler[h].call = "start" => record[i].status = None
                                      /\ \A g \in Handlers : handler[g].id # i
  BY <1>1, <1>2 DEF CallerKnows, Fresh
<1>5. /\ owner' \in [Owners -> Owner] /\ owner'[o].id = i /\ owner'[o].request = r
      /\ \A p \in Owners \ {o} : owner'[p] = owner[p]
  <2>1. NewOwner(i, r) \in Owner /\ NewOwner(i, r).id = i /\ NewOwner(i, r).request = r
    BY <1>1, <1>4 DEF NewOwner, Owner
  <2> QED
    BY <1>1, <1>2, <2>1 DEF TypeOK
<1>6. /\ handler' \in [Handlers -> Handler] /\ OthersAlike(h)
      /\ handler'[h].at = place /\ handler'[h].id = i /\ handler'[h].owner = o
      /\ handler'[h].call = handler[h].call /\ handler'[h].request = r /\ handler'[h].ready = {}
  <2> DEFINE new == [handler[h] EXCEPT !.at = place, !.id = i, !.owner = o]
  <2>1. /\ new \in Handler /\ new.at = place /\ new.id = i /\ new.owner = o
        /\ new.call = handler[h].call /\ new.request = r /\ new.ready = {}
    BY <1>1, <1>4 DEF Handler, Places
  <2>2. handler' = [handler EXCEPT ![h] = new]
    BY <1>1, <1>2 DEF TypeOK, Handler
  <2> HIDE DEF new, place
  <2> QED
    BY <1>1, <2>1, <2>2 DEF TypeOK, OthersAlike, Alike
<1>7. TypeOK'
  BY <1>1, <1>2, <1>3, <1>5, <1>6 DEF TypeOK
<1>8. /\ owner[o].request = None /\ o \notin reservations /\ o \notin retired
      /\ \A g \in Handlers : handler[g].owner # o /\ o \notin handler[g].ready
      /\ task[o] = None /\ \A j \in Ids : active[j] # o
  BY <1>2, NoneAssumption DEF Available, Allocated, ReservationInv, ReservationsDisjoint,
                              RetiredIsDone, ReadyIsDone, FreedHasNoTask, ActiveIsReserved
<1>9. LocalsMatch'
  <2>1. CallerKnows(h)'
    BY <1>1, <1>3, <1>4, <1>6 DEF CallerKnows
  <2> QED
    BY <1>3, <1>6, <2>1 DEF ReservationInv, LocalsMatch, CallerKnows, OthersAlike, Alike
<1>10. HoldersReserve'
  <2>1. ASSUME NEW g \in Handlers \ {h}, handler'[g].at \in Holding PROVE HolderKnows(g)'
    <3>1. Alike(g) /\ HolderKnows(g) /\ handler[g].owner # o /\ handler[g].owner \in Owners
      BY <1>6, <1>8, <2>1 DEF OthersAlike, Alike, ReservationInv, HoldersReserve, HolderKnows, TypeOK
    <3>2. owner'[handler[g].owner] = owner[handler[g].owner]
          /\ handler[g].owner \in reservations'
      BY <1>2, <1>5, <3>1 DEF HolderKnows
    <3> QED
      BY <1>3, <3>1, <3>2 DEF HolderKnows, Alike
  <2>2. HolderKnows(h)'
    BY <1>1, <1>2, <1>3, <1>4, <1>5, <1>6, <1>8 DEF HolderKnows
  <2> QED
    BY <2>1, <2>2 DEF HoldersReserve
<1>11. HoldersApart'
  <2>1. ASSUME NEW g \in Handlers \ {h} PROVE handler'[g].owner # handler'[h].owner
    BY <1>6, <1>8 DEF OthersAlike, Alike
  <2>2. ASSUME NEW g \in Handlers \ {h}, handler'[h].at \in {"select", "save"}
        PROVE  handler'[g].id # handler'[h].id
    BY <1>1, <1>4, <1>6, <2>2 DEF OthersAlike, Alike
  <2>3. ASSUME NEW g \in Handlers \ {h}, handler'[g].at \in {"select", "save"}
        PROVE  handler'[g].id # handler'[h].id
    <3>1. handler[g].at \in {"select", "save"} /\ handler'[g].id = handler[g].id
      BY <1>6, <2>3 DEF OthersAlike, Alike
    <3>2. handler[g].id # handler[h].id /\ record[handler[g].id].status = None
          /\ handler[g].id \in Ids
      BY <3>1 DEF ReservationInv, HoldersApart, HoldersReserve, HolderKnows, Holding
    <3> QED
      BY <1>1, <1>4, <1>6, <3>1, <3>2
  <2>4. \A f, g \in Handlers \ {h} :
           handler'[f].owner = handler[f].owner /\ handler'[f].at = handler[f].at
           /\ handler'[f].id = handler[f].id
    BY <1>6 DEF OthersAlike, Alike
  <2> QED
    BY <2>1, <2>2, <2>3, <2>4 DEF ReservationInv, HoldersApart
<1>12. RecordsNamed' /\ RetiredIsDone'
  BY <1>2, <1>3, <1>5, <1>8 DEF ReservationInv, TypeOK, RecordsNamed, RetiredIsDone
<1>13. ReservationsDisjoint'
  <2>1. \A p \in reservations : p \in Owners /\ p # o /\ owner'[p] = owner[p]
                                /\ ~Overlap(owner[p].request, r) /\ ~Overlap(r, owner[p].request)
    BY <1>1, <1>5, <1>8 DEF TypeOK, Conflict, Overlap
  <2>2. \A p \in reservations' : p = o \/ p \in reservations
    BY <1>2
  <2>3. /\ \A p \in reservations : owner[p].request \in Requests
        /\ \A p, q \in reservations : p # q => ~Overlap(owner[p].request, owner[q].request)
    BY DEF ReservationInv, ReservationsDisjoint
  <2>4. \A p, q \in reservations' : p # q => ~Overlap(owner'[p].request, owner'[q].request)
    BY <1>5, <2>1, <2>2, <2>3
  <2>5. \A p \in reservations' : owner'[p].request \in Requests
    BY <1>1, <1>5, <2>1, <2>2, <2>3
  <2> QED
    BY <2>4, <2>5 DEF ReservationsDisjoint, Overlap
<1>14. LiveIsReserved' /\ ActiveIsReserved' /\ FreedHasNoTask'
  BY <1>1, <1>2, <1>3, <1>5, <1>8, NoneAssumption
     DEF ReservationInv, TypeOK, LiveIsReserved, ActiveIsReserved, FreedHasNoTask, Allocated,
         Live, Working
<1>15. ReadyIsDone'
  <2>1. \A g \in Handlers : handler'[g].ready = handler[g].ready
    BY <1>1, <1>6 DEF OthersAlike, Alike
  <2>2. \A g \in Handlers : \A p \in handler[g].ready : p \in Owners /\ p # o /\ g # h
    BY <1>1, <1>8 DEF TypeOK, Handler
  <2>3. \A g \in Handlers \ {h} : handler'[g].at = handler[g].at
    BY <1>6 DEF OthersAlike, Alike
  <2>4. \A g \in Handlers : \A p \in handler'[g].ready :
           /\ handler'[g].at = "reap" /\ p \notin reservations' \cup retired'
           /\ owner'[p].request # None
    <3> SUFFICES ASSUME NEW g \in Handlers, NEW p \in handler'[g].ready
                 PROVE  /\ handler'[g].at = "reap" /\ p \notin reservations' \cup retired'
                        /\ owner'[p].request # None
      OBVIOUS
    <3>1. p \in handler[g].ready /\ p \in Owners \ {o} /\ g # h
      BY <2>1, <2>2
    <3>2. handler[g].at = "reap" /\ p \notin reservations \cup retired /\ owner[p].request # None
      BY <3>1 DEF ReservationInv, ReadyIsDone
    <3> QED
      BY <1>2, <1>3, <1>5, <2>3, <3>1, <3>2
  <2>5. \A f, g \in Handlers : f # g => handler'[f].ready \cap handler'[g].ready = {}
    BY <2>1 DEF ReservationInv, ReadyIsDone
  <2> QED
    BY <2>4, <2>5 DEF ReadyIsDone
<1> QED
  BY <1>7, <1>9, <1>10, <1>11, <1>12, <1>13, <1>14, <1>15 DEF ReservationInv

-----------------------------------------------------------------------------
(* The background task *)

\* records.begin starts the row, or finds it stopped.
LEMMA TaskBeginKeeps ==
    ASSUME ReservationInv, NEW o \in Owners, TaskBegin(o) PROVE ReservationInv'
<1> DEFINE i == owner[o].id
<1>1. /\ TypeOK /\ task[o] = "begin" /\ task[o] \in Live /\ i \in Ids
      /\ UNCHANGED <<reservations, active, retired, owner, handler, orphaned>>
  BY DEF TaskBegin, ReservationInv, LiveIsReserved, Live, Working
<1>2. CASE SetStatus(i, "downloading") /\ Step(o, "begin", "next") /\ record[i].status = "queued"
  <2>1. /\ record' \in [Ids -> Record] /\ record'[i].status = "downloading"
        /\ \A j \in Ids : record'[j].request = record[j].request
        /\ \A j \in Ids \ {i} : record'[j] = record[j]
    BY <1>1, <1>2, SetStatusEffect DEF Statuses
  <2>2. /\ task' \in [Owners -> Stages] /\ task'[o] = "next"
        /\ \A p \in Owners \ {o} : task'[p] = task[p]
    BY <1>1, <1>2, StepEffect DEF Stages, Working
  <2>3. TypeOK' /\ RowsKept
    BY <1>1, <1>2, <2>1, <2>2 DEF TypeOK, RowsKept
  <2> QED
    BY <1>1, <2>2, <2>3, TaskMoves
<1>3. CASE Step(o, "begin", "retire") /\ UNCHANGED record
  <2>1. /\ task' \in [Owners -> Stages] /\ task'[o] = "retire"
        /\ \A p \in Owners \ {o} : task'[p] = task[p]
    BY <1>1, <1>3, StepEffect DEF Stages
  <2>2. TypeOK' /\ RowsKept
    BY <1>1, <1>3, <2>1 DEF TypeOK, RowsKept
  <2> QED
    BY <1>1, <2>1, <2>2, TaskMoves
<1> QED
  BY <1>2, <1>3 DEF TaskBegin

\* The steps that only move the task.
LEMMA TaskOnlyMoves ==
    ASSUME ReservationInv, NEW o \in Owners, NEW from \in Stages, NEW to \in Stages,
           Step(o, from, to), from # None, to # None, to \in Live => from \in Live,
           UNCHANGED <<record, reservations, active, retired, owner, handler, orphaned>>
    PROVE  ReservationInv'
<1>1. /\ TypeOK /\ task' \in [Owners -> Stages] /\ task[o] = from /\ task'[o] = to
      /\ \A p \in Owners \ {o} : task'[p] = task[p]
  BY StepEffect DEF ReservationInv
<1>2. TypeOK' /\ RowsKept
  BY <1>1 DEF TypeOK, RowsKept
<1> QED
  BY <1>1, <1>2, TaskMoves

\* The steps of a task that read the rows and write nothing.
LEMMA TaskQuietSteps ==
    ASSUME ReservationInv, NEW o \in Owners,
           \/ TaskNext(o) \/ TaskError(o) \/ TaskCheck(o) \/ TaskStamp(o)
           \/ TaskCanceled(o) \/ TaskReturn(o)
    PROVE  ReservationInv'
<1>1. UNCHANGED <<record, reservations, active, retired, owner, handler, orphaned>>
  BY DEF TaskNext, TaskError, TaskCheck, TaskStamp, TaskCanceled, TaskReturn
<1>2. PICK from \in Live \cup {"returning"}, to \in Stages :
         Step(o, from, to) /\ to # None /\ (to \in Live => from \in Live)
  BY DEF TaskNext, TaskError, TaskCheck, TaskStamp, TaskCanceled, TaskReturn, Stages, Working, Live
<1>3. from \in Stages /\ from # None
  BY DEF Live, Working, Stages
<1> QED
  BY <1>1, <1>2, <1>3, TaskOnlyMoves

\* A status that names an existing row keeps the rows.
LEMMA TaskSetsStatus ==
    ASSUME ReservationInv, NEW o \in Owners, NEW from \in Live, NEW to \in Live,
           Step(o, from, to), NEW s \in Statuses \ {None},
           SetStatus(owner[o].id, s) \/ UNCHANGED record, orphaned' \subseteq Ids,
           UNCHANGED <<reservations, active, retired, owner, handler>>
    PROVE  ReservationInv'
<1> DEFINE i == owner[o].id
<1>1. /\ TypeOK /\ task' \in [Owners -> Stages] /\ task[o] = from /\ task'[o] = to
      /\ \A p \in Owners \ {o} : task'[p] = task[p]
  BY StepEffect DEF ReservationInv, Stages, Live
<1>2. i \in Ids /\ record[i].status # None /\ from # None /\ to # None
  <2>1. i \in Ids /\ record[i].request = owner[o].request /\ o \in reservations
    BY <1>1 DEF ReservationInv, LiveIsReserved
  <2>2. record[i].request # None
    BY <2>1, NoneAssumption DEF ReservationInv, ReservationsDisjoint
  <2> QED
    BY <2>1, <2>2 DEF ReservationInv, RecordsNamed, Live, Working
<1>3. record' \in [Ids -> Record] /\ RowsKept
  <2>1. CASE SetStatus(i, s)
    <3>1. /\ record' \in [Ids -> Record] /\ record'[i].status = s
          /\ \A j \in Ids : record'[j].request = record[j].request
          /\ \A j \in Ids \ {i} : record'[j] = record[j]
      BY <1>1, <1>2, <2>1, SetStatusEffect
    <3> QED
      BY <1>2, <3>1 DEF RowsKept
  <2>2. CASE UNCHANGED record
    BY <1>1, <2>2 DEF TypeOK, RowsKept
  <2> QED
    BY <2>1, <2>2
<1>4. TypeOK'
  BY <1>1, <1>3 DEF TypeOK
<1> QED
  BY <1>1, <1>2, <1>3, <1>4, TaskMoves

\* The final setStatus(completed).
LEMMA TaskFinalizeKeeps ==
    ASSUME ReservationInv, NEW o \in Owners, TaskFinalize(o) PROVE ReservationInv'
<1>1. PICK s \in {"completed", "failed"} : SetStatus(owner[o].id, s)
  BY DEF TaskFinalize
<1>2. PICK to \in {"stamp", "retire"} : Step(o, task[o], to)
  BY DEF TaskFinalize
<1>3. s \in Statuses \ {None} /\ task[o] \in Live /\ to \in Live /\ orphaned' \subseteq Ids
  BY DEF Statuses, TaskFinalize, Live, Working, ReservationInv, TypeOK
<1> QED
  BY <1>1, <1>2, <1>3, TaskSetsStatus DEF TaskFinalize

\* setFailureUnlessStopped, whether the database takes it or not.
LEMMA TaskFailKeeps ==
    ASSUME ReservationInv, NEW o \in Owners, TaskFail(o) PROVE ReservationInv'
<1>1. "failed" \in Statuses \ {None} /\ "failing" \in Live /\ "retire" \in Live
  BY DEF Statuses, Live, Working
<1>2. orphaned' \subseteq Ids
  BY <1>1 DEF TaskFail, Step, ReservationInv, TypeOK, LiveIsReserved
<1> QED
  BY <1>1, <1>2, TaskSetsStatus DEF TaskFail, SetFailureUnlessStopped

\* updateFile counts a file of the row.
LEMMA TaskTransferKeeps ==
    ASSUME ReservationInv, NEW o \in Owners, TaskTransfer(o) PROVE ReservationInv'
<1> DEFINE i == owner[o].id
           done == IF record[i].files < FileCount THEN record[i].files + 1 ELSE record[i].files
           new == [record[i] EXCEPT !.files = done]
<1>1. /\ TypeOK /\ task' \in [Owners -> Stages] /\ task[o] = "transfer" /\ task'[o] = "next"
      /\ \A p \in Owners \ {o} : task'[p] = task[p]
  BY StepEffect DEF ReservationInv, TaskTransfer, Stages, Working
<1>2. i \in Ids /\ record[i] \in Record
  BY <1>1 DEF ReservationInv, TypeOK, LiveIsReserved, Live, Working
<1>3. done \in 0..FileCount
  BY <1>2, BoundsAssumption DEF Record
<1>4. record' = [record EXCEPT ![i] = new]
  BY DEF TaskTransfer
<1> HIDE DEF done
<1>5. new \in Record /\ new.request = record[i].request /\ new.status = record[i].status
  BY <1>2, <1>3 DEF Record
<1> HIDE DEF new
<1>6. TypeOK' /\ RowsKept
  BY <1>1, <1>2, <1>4, <1>5 DEF TaskTransfer, TypeOK, RowsKept
<1>7. "transfer" \in Live
  BY DEF Live, Working
<1> QED
  BY <1>1, <1>6, <1>7, TaskMoves DEF TaskTransfer

\* retire: the map entry, the reservation and the owner's place change together.
LEMMA TaskRetireKeeps ==
    ASSUME ReservationInv, NEW o \in Owners, TaskRetire(o) PROVE ReservationInv'
<1> DEFINE i == owner[o].id
           done == [owner[o] EXCEPT !.finished = TRUE]
<1>1. /\ TypeOK /\ task' \in [Owners -> Stages] /\ task[o] = "retire" /\ task'[o] = "returning"
      /\ \A p \in Owners \ {o} : task'[p] = task[p]
  BY StepEffect DEF ReservationInv, TaskRetire, Stages
<1>2. o \in reservations /\ i \in Ids /\ owner[o].request \in Requests
  BY <1>1 DEF ReservationInv, LiveIsReserved, Live, ReservationsDisjoint
<1>3. UNCHANGED <<record, handler, orphaned>> /\ reservations' = reservations \ {o}
      /\ retired' = retired \cup {o}
  BY DEF TaskRetire
<1>4. owner' \in [Owners -> Owner] /\ \A p \in Owners : Kept(p)
  <2>1. owner' = [owner EXCEPT ![o] = done]
    BY DEF TaskRetire
  <2>2. done \in Owner /\ done.id = owner[o].id /\ done.request = owner[o].request
    <3>1. owner[o] \in Owner
      BY <1>1 DEF TypeOK
    <3> QED
      BY <3>1 DEF Owner
  <2> HIDE DEF done
  <2> QED
    BY <1>1, <2>1, <2>2, OwnerEffect
<1>5. /\ active' \in [Ids -> Owners \cup {None}]
      /\ \A j \in Ids : active'[j] # o /\ active'[j] \in {active[j], None}
  <2>1. \A j \in Ids : j # i => active[j] # o
    BY <1>2, NoneAssumption DEF ReservationInv, ActiveIsReserved
  <2> QED
    BY <1>1, <1>2, <2>1, NoneAssumption DEF TaskRetire, TypeOK
<1>6. TypeOK' /\ RowsKept
  BY <1>1, <1>3, <1>4, <1>5 DEF TypeOK, RowsKept
<1>7. LocalsMatch' /\ HoldersApart' /\ RecordsNamed'
  BY <1>3 DEF ReservationInv, LocalsMatch, CallerKnows, HoldersApart, RecordsNamed
<1>8. HoldersReserve'
  <2>1. SUFFICES ASSUME NEW g \in Handlers, handler[g].at \in Holding PROVE HolderKnows(g)'
    BY <1>3 DEF HoldersReserve
  <2>2. HolderKnows(g) /\ handler[g].owner \in Owners \ {o}
    BY <1>1, <2>1 DEF ReservationInv, HoldersReserve, HolderKnows, TypeOK
  <2>3. Kept(handler[g].owner) /\ task'[handler[g].owner] = task[handler[g].owner]
    BY <1>1, <1>4, <2>2
  <2>4. handler[g].at # "spawn" => \A j \in Ids : active'[j] # handler[g].owner
    BY <1>5, <2>2, NoneAssumption DEF HolderKnows
  <2> QED
    BY <1>3, <2>2, <2>3, <2>4 DEF HolderKnows, Kept
<1>9. ReservationsDisjoint'
  BY <1>1, <1>3, <1>4 DEF ReservationInv, TypeOK, ReservationsDisjoint, Overlap, Kept
<1>10. LiveIsReserved'
  <2>1. "returning" \notin Live
    BY DEF Live, Working
  <2> QED
    BY <1>1, <1>3, <1>4, <2>1 DEF ReservationInv, LiveIsReserved, Kept
<1>11. ActiveIsReserved'
  BY <1>1, <1>3, <1>4, <1>5 DEF ReservationInv, TypeOK, ActiveIsReserved, Kept
<1>12. FreedHasNoTask' /\ RetiredIsDone'
  BY <1>1, <1>2, <1>3, <1>4, NoneAssumption
     DEF ReservationInv, TypeOK, FreedHasNoTask, Allocated, RetiredIsDone, Kept
<1>13. ReadyIsDone'
  <2>1. \A g \in Handlers : \A p \in handler[g].ready : p \in Owners \ {o}
    BY <1>1, <1>2 DEF ReservationInv, ReadyIsDone, TypeOK, Handler
  <2> QED
    BY <1>3, <1>4, <2>1 DEF ReservationInv, ReadyIsDone, Kept
<1> QED
  BY <1>6, <1>7, <1>8, <1>9, <1>10, <1>11, <1>12, <1>13 DEF ReservationInv

-----------------------------------------------------------------------------
(* The theorems *)

\* Nothing is reserved, active or running.
LEMMA NothingRuns ==
    ASSUME record \in [Ids -> Record], RecordsNamed, reservations = {},
           active = [i \in Ids |-> None], retired = {}, owner = [o \in Owners |-> FreeOwner],
           task = [o \in Owners |-> None], handler = [h \in Handlers |-> IdleHandler],
           orphaned = {}
    PROVE  ReservationInv
<1>1. FreeOwner \in Owner /\ IdleHandler \in Handler /\ None \in Stages
  BY DEF FreeOwner, NewOwner, Owner, IdleHandler, NewCall, Handler, Places, Stages
<1>2. TypeOK
  BY <1>1 DEF TypeOK
<1>3. \A h \in Handlers : /\ handler[h].at = "idle" /\ handler[h].call = None
                          /\ handler[h].ready = {}
  BY DEF IdleHandler, NewCall
<1>4. LocalsMatch /\ HoldersReserve /\ HoldersApart /\ ReadyIsDone
  BY <1>3 DEF LocalsMatch, CallerKnows, HoldersReserve, HoldersApart, Holding, ReadyIsDone
<1>5. ReservationsDisjoint /\ LiveIsReserved /\ ActiveIsReserved /\ FreedHasNoTask /\ RetiredIsDone
  BY DEF ReservationsDisjoint, LiveIsReserved, ActiveIsReserved, FreedHasNoTask, RetiredIsDone,
         Live, Working
<1> QED
  BY <1>2, <1>4, <1>5 DEF ReservationInv

\* The empty State has nothing to keep apart.
LEMMA InitHolds == Init => ReservationInv
<1> SUFFICES ASSUME Init PROVE ReservationInv
  OBVIOUS
<1>1. record \in [Ids -> Record] /\ RecordsNamed
  BY BoundsAssumption DEF Init, Record, Statuses, RecordsNamed
<1> QED
  BY <1>1, NothingRuns DEF Init

\* A restart forgets every owner and keeps what the rows ask for.
LEMMA RestartKeeps ==
    ASSUME ReservationInv, Restart PROVE ReservationInv'
<1> DEFINE paused(i) == [record[i] EXCEPT !.status = "paused"]
<1>1. \A i \in Ids : record[i] \in Record
  BY DEF ReservationInv, TypeOK
<1>2. \A i \in Ids : paused(i) \in Record /\ paused(i).request = record[i].request
                     /\ paused(i).status = "paused"
  BY <1>1 DEF Record, Statuses
<1>3. record' = [i \in Ids |-> IF record[i].status \in Running THEN paused(i) ELSE record[i]]
  BY DEF Restart
<1> HIDE DEF paused
<1>4. record' \in [Ids -> Record] /\ RecordsNamed'
  BY <1>1, <1>2, <1>3 DEF ReservationInv, RecordsNamed, Running
<1>5. FreeOwner \in Owner /\ IdleHandler \in Handler /\ None \in Stages
  BY DEF FreeOwner, NewOwner, Owner, IdleHandler, NewCall, Handler, Places, Stages
<1>6. TypeOK'
  BY <1>4, <1>5 DEF Restart, TypeOK
<1>7. \A h \in Handlers : /\ handler'[h].at = "idle" /\ handler'[h].call = None
                          /\ handler'[h].ready = {}
  BY DEF Restart, IdleHandler, NewCall
<1>8. LocalsMatch' /\ HoldersReserve' /\ HoldersApart' /\ ReadyIsDone'
  BY <1>7 DEF LocalsMatch, CallerKnows, HoldersReserve, HoldersApart, Holding, ReadyIsDone
<1>9. /\ ReservationsDisjoint' /\ LiveIsReserved' /\ ActiveIsReserved'
      /\ FreedHasNoTask' /\ RetiredIsDone'
  BY DEF Restart, ReservationsDisjoint, LiveIsReserved, ActiveIsReserved, FreedHasNoTask,
         RetiredIsDone, Live, Working
<1> QED
  BY <1>4, <1>6, <1>8, <1>9 DEF ReservationInv

\* Every step keeps the invariant.
LEMMA NextKeeps == ReservationInv /\ [Next]_vars => ReservationInv'
<1> SUFFICES ASSUME ReservationInv, [Next]_vars PROVE ReservationInv'
  OBVIOUS
<1>1. ASSUME NEW h \in Handlers, HandlerStep(h) PROVE ReservationInv'
  BY <1>1, StartCallKeeps, ResumeCallKeeps, PruneKeeps, ReapKeeps, ReadRecordKeeps,
     AcquireRefusedKeeps, AcquireGrantedKeeps, StartFailsKeeps, LookupReusableKeeps,
     SaveRecordKeeps, QueueRecordKeeps, InstallKeeps, SpawnKeeps, SpawnFailsKeeps,
     StopCallKeeps, CancelLookupKeeps, CancelGroupKeeps, AwaitTaskKeeps, DropHandleKeeps
  DEF HandlerStep
<1>2. ASSUME NEW o \in Owners, TaskStep(o) PROVE ReservationInv'
  BY <1>2, TaskBeginKeeps, TaskQuietSteps, TaskTransferKeeps, TaskFinalizeKeeps, TaskFailKeeps,
     TaskRetireKeeps
  DEF TaskStep
<1>3. CASE Restart
  BY <1>3, RestartKeeps
<1>4. CASE UNCHANGED vars
  BY <1>4 DEF vars, ReservationInv, TypeOK, LocalsMatch, CallerKnows, HoldersReserve, HolderKnows,
              HoldersApart, RecordsNamed, ReservationsDisjoint, LiveIsReserved, ActiveIsReserved,
              FreedHasNoTask, Allocated, RetiredIsDone, ReadyIsDone
<1> QED
  BY <1>1, <1>2, <1>3, <1>4 DEF Next

\* The invariant holds in every reachable state, whatever the numbers of handlers,
\* ids, requests and owners, and whatever the targets contain one another.
THEOREM ReservationsHold == Spec => []ReservationInv
BY InitHolds, NextKeeps, PTL DEF Spec

\* Every variable keeps to its set of values.
THEOREM TypeCorrect == Spec => []TypeOK
<1>1. ReservationInv => TypeOK
  BY DEF ReservationInv
<1> QED
  BY <1>1, ReservationsHold, PTL

\* No two background tasks run with overlapping target directories: each runs
\* under its own listed reservation, and acquireReservation compares a new one
\* with every listed one both ways.
THEOREM TargetsExclusive == Spec => []ExclusiveTargets
<1>1. ReservationInv => ExclusiveTargets
  BY DEF ReservationInv, LiveIsReserved, ReservationsDisjoint, ExclusiveTargets
<1> QED
  BY <1>1, ReservationsHold, PTL

\* installActive never finds the id mapped: the map entry of an id leads to a
\* listed reservation for the same target, and a target overlaps itself.
THEOREM InstallSafe == Spec => []InstallNeverCollides
<1>1. ReservationInv => InstallNeverCollides
  <2>1. SUFFICES ASSUME ReservationInv, NEW h \in Handlers, handler[h].at = "install",
                        active[handler[h].id] # None
                 PROVE  FALSE
    BY DEF InstallNeverCollides
  <2> DEFINE o == handler[h].owner
             p == active[handler[h].id]
  <2>2. /\ o \in reservations /\ owner[o].request = handler[h].request
        /\ record[handler[h].id].request = handler[h].request /\ handler[h].id \in Ids
        /\ p # o
    BY <2>1, HolderFacts DEF Holding
  <2>3. p \in reservations /\ owner[p].request = handler[h].request
    BY <2>1, <2>2 DEF ReservationInv, ActiveIsReserved
  <2>4. /\ \A q \in reservations : owner[q].request \in Requests
        /\ \A q, s \in reservations : q # s => ~Overlap(owner[q].request, owner[s].request)
    BY <2>1 DEF ReservationInv, ReservationsDisjoint
  <2> QED
    BY <2>2, <2>3, <2>4, ContainsAssumption DEF Overlap
<1> QED
  BY <1>1, ReservationsHold, PTL

\* A freed owner is in no list, mapped to no id, and has no task: what is freed
\* was retired or released before, and a task outlives its owner in no case.
THEOREM FreedNowhere == Spec => []FreedIsUnreachable
<1>1. ReservationInv => FreedIsUnreachable
  <2>1. SUFFICES ASSUME ReservationInv, NEW o \in Owners, owner[o].request = None
                 PROVE  /\ o \notin reservations \cup retired
                        /\ \A i \in Ids : active[i] # o
                        /\ task[o] = None
    BY DEF FreedIsUnreachable, Allocated
  <2>2. o \notin reservations \cup retired
    BY <2>1, NoneAssumption DEF ReservationInv, ReservationsDisjoint, RetiredIsDone
  <2>3. \A i \in Ids : active[i] # o
    <3>1. o # None /\ ActiveIsReserved
      BY <2>1, NoneAssumption DEF ReservationInv
    <3> QED
      BY <2>2, <3>1 DEF ActiveIsReserved
  <2>4. task[o] = None
    BY <2>1 DEF ReservationInv, FreedHasNoTask, Allocated
  <2> QED
    BY <2>2, <2>3, <2>4
<1> QED
  BY <1>1, ReservationsHold, PTL
=============================================================================
