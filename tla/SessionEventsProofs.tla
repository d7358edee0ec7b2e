------------------------- MODULE SessionEventsProofs -------------------------
(***************************************************************************)
(* What is proved of SessionEvents for every value of its constants.       *)
(***************************************************************************)
EXTENDS SessionEvents, TLAPS

\* A batch is empty, or it holds at least one event of some life.
BatchOK(b) == b = NoEvents \/ (b.lo < b.hi /\ b.life # 0)

RepliesAreBatches ==
    /\ \A p \in Pollers : BatchOK(poller[p].reply.batch)
    /\ \A t \in Turns : BatchOK(turn[t].reply.batch)
LivesAreNumbered == harness.present => harness.life # 0
MarksAreOld == \A t \in Turns : turn[t].pc \in {"read", "saved"} => turn[t].mark <= store.cursor

EventsInv ==
    /\ TypeOK
    /\ RepliesAreBatches
    /\ LivesAreNumbered
    /\ MarksAreOld
    /\ CursorIsLastRow

-----------------------------------------------------------------------------
\* ---- Operators ----

LEMMA NoReplyIsTyped == NoReply \in Reply /\ BatchOK(NoReply.batch) /\ NoEvents \in Batch
BY BoundsAssumption DEF NoReply, Reply, Batch, NoEvents, BatchOK, Phases, Listed, Lives

LEMMA IdleIsTyped ==
    /\ IdlePoller \in Poller /\ BatchOK(IdlePoller.reply.batch)
    /\ IdleTurn \in Turn /\ BatchOK(IdleTurn.reply.batch)
BY NoReplyIsTyped, BoundsAssumption DEF IdlePoller, IdleTurn, Poller, Turn

\* The events the harness holds after a number are a batch above that number.
LEMMA EventsAfterIsBatch ==
    ASSUME TypeOK, LivesAreNumbered, harness.present, NEW after \in 0..MaxSeq
    PROVE  /\ EventsAfter(harness, after) \in Batch
           /\ BatchOK(EventsAfter(harness, after))
           /\ \/ EventsAfter(harness, after) = NoEvents
              \/ after <= EventsAfter(harness, after).lo
BY BoundsAssumption
   DEF EventsAfter, Evicted, Larger, Batch, BatchOK, NoEvents, TypeOK, Harness, Lives,
       LivesAreNumbered

LEMMA PhasesOfIsTyped ==
    ASSUME NEW h, NEW some \in BOOLEAN PROVE PhasesOf(h, some) \subseteq Phases
BY DEF PhasesOf, Phases, Listed

\* An answer of the harness is a well-formed reply above the number asked for.
LEMMA AnswersAreReplies ==
    ASSUME TypeOK, LivesAreNumbered, NEW after \in 0..MaxSeq, NEW r \in Answers(after)
    PROVE  /\ r \in Reply /\ BatchOK(r.batch)
           /\ r.batch = NoEvents \/ after <= r.batch.lo
<1>1. CASE r = NoReply
  BY <1>1, NoReplyIsTyped DEF NoReply
<1>2. CASE r = [NoReply EXCEPT !.answer = "missing"]
  BY <1>2, NoReplyIsTyped DEF NoReply, Reply
<1>3. CASE /\ harness.present
           /\ r \in [answer : {"session"},
                     phase : PhasesOf(harness, EventsAfter(harness, after) # NoEvents),
                     batch : {EventsAfter(harness, after)}]
  <2>1. r.phase \in Phases
    BY <1>3, PhasesOfIsTyped
  <2>2. r.batch = EventsAfter(harness, after) /\ r.answer = "session"
    BY <1>3
  <2>3. r \in Reply
    BY <1>3, <2>1, <2>2, EventsAfterIsBatch DEF Reply
  <2> QED BY <1>3, <2>2, <2>3, EventsAfterIsBatch
<1> QED BY <1>1, <1>2, <1>3 DEF Answers

\* A prompt leaves a session that is present and has a number.
LEMMA PromptedIsTyped ==
    ASSUME TypeOK, LivesAreNumbered, Reused(harness) \/ harness.life < MaxLives,
           NEW seen \in 0..MaxSeq
    PROVE  Prompted(harness, seen) \in Harness /\ Prompted(harness, seen).life # 0
<1> DEFINE from == IF kind = "pi" THEN 0 ELSE seen
<1> DEFINE base == IF Reused(harness) THEN harness
                   ELSE [harness EXCEPT !.present = TRUE, !.life = @ + 1, !.first = from,
                                        !.seq = from, !.active = FALSE, !.failed = FALSE]
<1>1. from \in 0..MaxSeq
  BY BoundsAssumption
<1>2. harness \in Harness
  BY DEF TypeOK
<1>3. base \in Harness /\ base.life # 0
  <2> HIDE DEF from
  <2>1. CASE Reused(harness)
    BY <2>1, <1>2 DEF Reused, LivesAreNumbered
  <2>2. CASE ~Reused(harness)
    <3>1. harness.life + 1 \in Lives /\ harness.life + 1 # 0
      BY <2>2, <1>2, BoundsAssumption DEF Harness, Lives
    <3>2. base = [harness EXCEPT !.present = TRUE, !.life = harness.life + 1, !.first = from,
                                 !.seq = from, !.active = FALSE, !.failed = FALSE]
      BY <2>2
    <3> QED BY <1>1, <1>2, <3>1, <3>2 DEF Harness
  <2> QED BY <2>1, <2>2
<1>4. (base.active \/ kind # "pi") \in BOOLEAN /\ (base.failed /\ kind # "codex") \in BOOLEAN
  OBVIOUS
<1>5. Prompted(harness, seen) = [base EXCEPT !.running = TRUE, !.active = @ \/ kind # "pi",
                                             !.failed = @ /\ kind # "codex"]
  BY DEF Prompted
<1> HIDE DEF base
<1> QED BY <1>3, <1>4, <1>5 DEF Harness

\* Ingesting a reply keeps the rows there are and moves the cursor to the last.
LEMMA IngestedIsSound ==
    ASSUME TypeOK, CursorIsLastRow, NEW r \in Reply, BatchOK(r.batch)
    PROVE  /\ Ingested(r) \in Store
           /\ store.cursor <= Ingested(r).cursor
           /\ \A q \in Seqs : store.log[q] # 0 => Ingested(r).log[q] = store.log[q]
           /\ LastRow(Ingested(r))
<1>1. store \in Store /\ LastRow(store)
  BY DEF TypeOK, CursorIsLastRow
<1>2. CASE r.answer = "session"
  <2> DEFINE new == Ingested(r)
  <2>1. /\ new.status = r.phase
        /\ new.cursor = Larger(r.batch.hi, store.cursor)
        /\ new.log = [q \in Seqs |-> IF q \in Rows(r) /\ store.log[q] = 0
                                     THEN r.batch.life ELSE store.log[q]]
        /\ new.transcript = [q \in Seqs |-> IF q \in Rows(r)
                                            THEN r.batch.life ELSE store.transcript[q]]
        /\ new = [status |-> new.status, cursor |-> new.cursor, log |-> new.log,
                  transcript |-> new.transcript]
    BY <1>2 DEF Ingested
  <2>2. /\ r.batch.life \in Lives /\ r.batch.hi \in 0..MaxSeq /\ r.batch.lo \in 0..MaxSeq
        /\ r.phase \in Phases
    BY DEF Reply, Batch
  <2>3. /\ store.cursor \in 0..MaxSeq /\ store.log \in [Seqs -> Lives]
        /\ store.transcript \in [Seqs -> Lives]
    BY <1>1 DEF Store
  <2>4. new.cursor \in 0..MaxSeq /\ store.cursor <= new.cursor
    BY <2>1, <2>2, <2>3, BoundsAssumption DEF Larger
  <2>5. new.log \in [Seqs -> Lives] /\ new.transcript \in [Seqs -> Lives]
    BY <2>1, <2>2, <2>3
  <2>6. new \in Store
    BY <2>1, <2>2, <2>4, <2>5 DEF Store, Statuses
  <2>7. ASSUME NEW q \in Seqs, store.log[q] # 0 PROVE new.log[q] = store.log[q]
    BY <2>1, <2>7
  <2>8. ASSUME NEW q \in Seqs, new.log[q] # 0 PROVE q <= new.cursor
    <3>1. CASE q \in Rows(r)
      BY <3>1, <2>1, <2>2, <2>3, BoundsAssumption DEF Rows, Larger, Seqs
    <3>2. CASE q \notin Rows(r)
      <4>1. store.log[q] # 0
        BY <3>2, <2>1, <2>8
      <4> QED BY <4>1, <1>1, <2>3, <2>4, BoundsAssumption DEF LastRow, Seqs
    <3> QED BY <3>1, <3>2
  <2>9. ASSUME new.cursor > 0 PROVE new.log[new.cursor] # 0
    <3>1. CASE r.batch.hi > store.cursor
      <4>1. new.cursor = r.batch.hi
        BY <3>1, <2>1 DEF Larger
      <4>2. r.batch.lo < r.batch.hi /\ r.batch.life # 0
        BY <3>1, <2>3 DEF BatchOK, NoEvents
      <4>3. r.batch.hi \in Rows(r)
        BY <4>2, <2>2, BoundsAssumption DEF Rows, Seqs
      <4> QED BY <4>1, <4>2, <4>3, <2>1 DEF Rows
    <3>2. CASE ~(r.batch.hi > store.cursor)
      <4>1. new.cursor = store.cursor
        BY <3>2, <2>1 DEF Larger
      <4>2. store.cursor \in Seqs
        BY <4>1, <2>9, <2>3, BoundsAssumption DEF Seqs
      <4>3. store.log[store.cursor] # 0
        BY <4>1, <2>9, <1>1 DEF LastRow
      <4> QED BY <4>1, <4>2, <4>3, <2>7
    <3> QED BY <3>1, <3>2
  <2> QED BY <2>4, <2>6, <2>7, <2>8, <2>9 DEF LastRow
<1>3. CASE r.answer # "session"
  <2>1. PICK s \in Statuses : Ingested(r) = [store EXCEPT !.status = s]
    BY <1>3 DEF Ingested, Statuses
  <2>2. /\ Ingested(r).cursor = store.cursor /\ Ingested(r).log = store.log
        /\ Ingested(r) \in Store
    BY <1>1, <2>1 DEF Store
  <2> QED BY <1>1, <2>2, BoundsAssumption DEF LastRow, Store
<1> QED BY <1>2, <1>3

-----------------------------------------------------------------------------
\* ---- The invariant, one part of the state at a time ----

PollersOK == /\ poller \in [Pollers -> Poller]
             /\ \A p \in Pollers : BatchOK(poller[p].reply.batch)
TurnsOK == /\ turn \in [Turns -> Turn]
           /\ \A t \in Turns : BatchOK(turn[t].reply.batch)
           /\ MarksAreOld
HarnessOK == harness \in Harness /\ LivesAreNumbered
StoreOK == store \in Store /\ LastRow(store)
RestOK == /\ kind \in Kinds
          /\ stream \in [Streams -> Stream]
          /\ restarts \in 0..MaxRestarts

\* What a step may do to the database: rows are added after those there are.
Keeps == /\ store.cursor <= store'.cursor
         /\ \A q \in Seqs : store.log[q] # 0 => store'.log[q] = store.log[q]

LEMMA PartsOfEventsInv ==
    /\ EventsInv <=> PollersOK /\ TurnsOK /\ HarnessOK /\ StoreOK /\ RestOK
    /\ EventsInv' <=> PollersOK' /\ TurnsOK' /\ HarnessOK' /\ StoreOK' /\ RestOK'
BY DEF EventsInv, TypeOK, RepliesAreBatches, PollersOK, TurnsOK, HarnessOK, StoreOK, RestOK,
       CursorIsLastRow, MarksAreOld, LivesAreNumbered, LastRow

\* Giving one poller a well-formed state keeps them all well-formed.
LEMMA OnePoller ==
    ASSUME PollersOK, NEW p \in Pollers, NEW v \in Poller, BatchOK(v.reply.batch),
           poller' = [poller EXCEPT ![p] = v]
    PROVE  PollersOK'
BY DEF PollersOK

\* Giving one turn a well-formed state keeps them all well-formed.
LEMMA OneTurn ==
    ASSUME TurnsOK, StoreOK, StoreOK', Keeps, NEW t \in Turns, NEW v \in Turn,
           BatchOK(v.reply.batch),
           v.pc \in {"read", "saved"} => v.mark <= store'.cursor,
           turn' = [turn EXCEPT ![t] = v]
    PROVE  TurnsOK'
<1>1. turn' \in [Turns -> Turn] /\ \A u \in Turns : BatchOK(turn'[u].reply.batch)
  BY DEF TurnsOK
<1>2. ASSUME NEW u \in Turns, turn'[u].pc \in {"read", "saved"}
      PROVE  turn'[u].mark <= store'.cursor
  <2>1. CASE u = t
    BY <1>2, <2>1 DEF TurnsOK
  <2>2. CASE u # t
    <3>1. turn[u].mark <= store.cursor /\ turn[u] = turn'[u]
      BY <1>2, <2>2 DEF TurnsOK, MarksAreOld
    <3>2. /\ turn[u].mark \in Nat /\ store.cursor \in Nat /\ store'.cursor \in Nat
      BY BoundsAssumption DEF TurnsOK, Turn, StoreOK, Store
    <3> QED BY <3>1, <3>2 DEF Keeps
  <2> QED BY <2>1, <2>2
<1> QED BY <1>1, <1>2 DEF TurnsOK, MarksAreOld

\* A step that leaves the database alone keeps what is said of it.
LEMMA StoreStays ==
    ASSUME StoreOK, UNCHANGED store PROVE StoreOK' /\ Keeps
BY BoundsAssumption DEF StoreOK, Store, LastRow, Keeps

\* Ingesting a well-formed reply keeps what is said of the database.
LEMMA StoreIngests ==
    ASSUME EventsInv, NEW r \in Reply, BatchOK(r.batch), store' = Ingested(r)
    PROVE  StoreOK' /\ Keeps
<1>1. TypeOK /\ CursorIsLastRow
  BY DEF EventsInv
<1> QED BY <1>1, IngestedIsSound DEF StoreOK, Keeps, LastRow

-----------------------------------------------------------------------------
\* ---- One lemma per group of actions ----

LEMMA InitIsSound == Init => EventsInv
<1> SUFFICES ASSUME Init PROVE PollersOK /\ TurnsOK /\ HarnessOK /\ StoreOK /\ RestOK
  BY PartsOfEventsInv
<1>1. PollersOK
  BY IdleIsTyped DEF Init, PollersOK
<1>2. TurnsOK
  BY IdleIsTyped DEF Init, TurnsOK, MarksAreOld, IdleTurn
<1>3. HarnessOK
  BY BoundsAssumption DEF Init, HarnessOK, Harness, LivesAreNumbered, Lives
<1>4. StoreOK
  BY BoundsAssumption DEF Init, StoreOK, Store, LastRow, NoRows, Statuses, Lives, Seqs
<1>5. RestOK
  BY BoundsAssumption DEF Init, RestOK, Stream, NoRows, Lives, Seqs
<1> QED BY <1>1, <1>2, <1>3, <1>4, <1>5

LEMMA HarnessSteps ==
    ASSUME EventsInv, Emit \/ PiStarts \/ Settle \/ Exit \/ NodeRestart
    PROVE  EventsInv' /\ Keeps
<1>1. PollersOK /\ TurnsOK /\ HarnessOK /\ StoreOK /\ RestOK
  BY PartsOfEventsInv
<1>2. UNCHANGED <<kind, store, poller, turn, stream, restarts>>
  BY DEF Emit, PiStarts, Settle, Exit, NodeRestart
<1>3. HarnessOK'
  <2> harness.seq < MaxSeq => harness.seq + 1 \in 0..MaxSeq
    BY <1>1, BoundsAssumption DEF HarnessOK, Harness
  <2>1. CASE Emit
    BY <1>1, <2>1 DEF Emit, HarnessOK, Harness, LivesAreNumbered
  <2>2. CASE PiStarts
    BY <1>1, <2>2 DEF PiStarts, HarnessOK, Harness, LivesAreNumbered
  <2>3. CASE Settle
    <3>1. PICK failed \in BOOLEAN : harness' = [harness EXCEPT !.seq = @ + 1, !.active = FALSE,
                                                              !.failed = failed]
      BY <1>1, <2>3 DEF Settle, HarnessOK, Harness
    <3> QED BY <1>1, <2>3, <3>1 DEF Settle, HarnessOK, Harness, LivesAreNumbered
  <2>4. CASE Exit
    BY <1>1, <2>4 DEF Exit, HarnessOK, Harness, LivesAreNumbered
  <2>5. CASE NodeRestart
    BY <1>1, <2>5 DEF NodeRestart, Lost, HarnessOK, Harness, LivesAreNumbered
  <2> QED BY <2>1, <2>2, <2>3, <2>4, <2>5
<1>4. StoreOK' /\ Keeps
  BY <1>1, <1>2, StoreStays
<1>5. PollersOK' /\ TurnsOK' /\ RestOK'
  BY <1>1, <1>2 DEF PollersOK, TurnsOK, MarksAreOld, RestOK
<1> QED BY <1>3, <1>4, <1>5, PartsOfEventsInv

LEMMA PollerSteps ==
    ASSUME EventsInv,
           \/ List \/ \E c \in Callers : Call(c)
           \/ \E p \in Pollers : Ask(p) \/ Ingest(p)
    PROVE  EventsInv' /\ Keeps
<1>1. PollersOK /\ TurnsOK /\ HarnessOK /\ StoreOK /\ RestOK
  BY PartsOfEventsInv
<1>2. UNCHANGED <<kind, harness, turn, stream, restarts>>
  BY DEF List, Call, Ask, Ingest
<1>3. StoreOK' /\ Keeps
  <2>1. CASE UNCHANGED store
    BY <1>1, <2>1, StoreStays
  <2>2. ASSUME NEW p \in Pollers, Ingest(p) PROVE StoreOK' /\ Keeps
    <3>1. poller[p].reply \in Reply /\ BatchOK(poller[p].reply.batch)
      BY <1>1 DEF PollersOK, Poller
    <3> QED BY <2>2, <3>1, StoreIngests DEF Ingest
  <2> QED BY <2>1, <2>2 DEF List, Call, Ask
<1>4. PollersOK'
  <2>1. ASSUME NEW p \in Pollers, NEW after \in 0..MaxSeq,
               poller' = [poller EXCEPT ![p].pc = "ask", ![p].after = after]
        PROVE  PollersOK'
    <3> DEFINE v == [poller[p] EXCEPT !.pc = "ask", !.after = after]
    <3>1. v \in Poller /\ BatchOK(v.reply.batch)
      BY <1>1 DEF PollersOK, Poller
    <3>2. poller' = [poller EXCEPT ![p] = v]
      BY <1>1, <2>1 DEF PollersOK
    <3> HIDE DEF v
    <3> QED BY <1>1, <3>1, <3>2, OnePoller
  <2>2. CASE List
    BY <1>1, <2>1, <2>2 DEF List, Pollers, StoreOK, Store
  <2>3. ASSUME NEW c \in Callers, Call(c) PROVE PollersOK'
    <3>1. c \in Pollers /\ 0 \in 0..MaxSeq
      BY BoundsAssumption DEF Pollers
    <3> QED BY <2>1, <2>3, <3>1 DEF Call
  <2>4. ASSUME NEW p \in Pollers, Ask(p) PROVE PollersOK'
    <3>1. PICK r \in Answers(poller[p].after) :
            poller' = [poller EXCEPT ![p] = [pc |-> "answered", after |-> 0, reply |-> r]]
      BY <2>4 DEF Ask
    <3>2. poller[p].after \in 0..MaxSeq
      BY <1>1 DEF PollersOK, Poller
    <3>3. r \in Reply /\ BatchOK(r.batch)
      BY <3>2, AnswersAreReplies DEF EventsInv
    <3>4. [pc |-> "answered", after |-> 0, reply |-> r] \in Poller
      BY <3>3, BoundsAssumption DEF Poller
    <3> QED BY <1>1, <3>1, <3>3, <3>4, OnePoller
  <2>5. ASSUME NEW p \in Pollers, Ingest(p) PROVE PollersOK'
    BY <1>1, <2>5, IdleIsTyped, OnePoller DEF Ingest
  <2> QED BY <2>2, <2>3, <2>4, <2>5
<1>5. TurnsOK'
  <2>1. ASSUME NEW t \in Turns PROVE turn[t].mark \in Nat /\ store.cursor \in Nat
                                   /\ store'.cursor \in Nat
    BY <1>1, <1>3, BoundsAssumption DEF TurnsOK, Turn, StoreOK, Store
  <2> QED BY <1>1, <1>2, <1>3, <2>1 DEF TurnsOK, MarksAreOld, Keeps
<1>6. HarnessOK' /\ RestOK'
  BY <1>1, <1>2 DEF HarnessOK, LivesAreNumbered, RestOK
<1> QED BY <1>3, <1>4, <1>5, <1>6, PartsOfEventsInv

\* What a turn writes to the database: its own row, or what it ingests.
LEMMA TurnWrites ==
    ASSUME EventsInv, NEW t \in Turns, TurnStep(t)
    PROVE  StoreOK' /\ Keeps
<1>1. PollersOK /\ TurnsOK /\ HarnessOK /\ StoreOK /\ RestOK
  BY PartsOfEventsInv
<1>2. CASE UNCHANGED store
  BY <1>1, <1>2, StoreStays
<1>3. CASE Save(t)
  <2>1. turn[t].mark <= store.cursor /\ turn[t].mark \in Nat /\ store.cursor \in Nat
    BY <1>1, <1>3, BoundsAssumption DEF Save, TurnsOK, MarksAreOld, Turn, StoreOK, Store
  <2>2. store' = [store EXCEPT !.status = "starting"]
    <3>1. Larger(turn[t].mark, store.cursor) = store.cursor
      BY <2>1 DEF Larger
    <3>2. store' = [store EXCEPT !.status = "starting", !.cursor = store.cursor]
      BY <1>3, <3>1 DEF Save
    <3> QED BY <1>1, <3>2 DEF StoreOK, Store
  <2> QED BY <1>1, <2>1, <2>2 DEF StoreOK, Store, Statuses, LastRow, Keeps
<1>4. CASE Accept(t) \/ Follow(t)
  <2>1. turn[t].reply \in Reply /\ BatchOK(turn[t].reply.batch)
    BY <1>1 DEF TurnsOK, Turn
  <2> QED BY <1>4, <2>1, StoreIngests DEF Accept, Follow
<1> QED BY <1>2, <1>3, <1>4
        DEF TurnStep, Read, Send, Control, Refuse, StartFails, Respond, LoseResponse, Poll

\* The state of the turn after its step.
LEMMA TurnMoves ==
    ASSUME EventsInv, NEW t \in Turns, TurnStep(t)
    PROVE  TurnsOK'
<1>1. PollersOK /\ TurnsOK /\ HarnessOK /\ StoreOK /\ RestOK
  BY PartsOfEventsInv
<1>2. StoreOK' /\ Keeps
  BY TurnWrites
<1>3. turn[t] \in Turn /\ BatchOK(turn[t].reply.batch)
  BY <1>1 DEF TurnsOK
<1> DEFINE Fine(v) == /\ v \in Turn /\ BatchOK(v.reply.batch)
                      /\ v.pc \in {"read", "saved"} => v.mark <= store'.cursor
                      /\ turn' = [turn EXCEPT ![t] = v]
<1>4. ASSUME NEW v, Fine(v) PROVE TurnsOK'
  BY <1>1, <1>2, <1>4, OneTurn
<1> HIDE DEF Fine
<1>5. CASE Read(t)
  <2> DEFINE v == [turn[t] EXCEPT !.pc = "read", !.mark = store.cursor]
  <2>1. v \in Turn /\ BatchOK(v.reply.batch) /\ v.mark = store.cursor
    BY <1>1, <1>3 DEF Turn, StoreOK, Store
  <2>2. v.mark <= store'.cursor
    BY <2>1, <1>2 DEF Keeps
  <2>3. turn' = [turn EXCEPT ![t] = v]
    BY <1>1, <1>5 DEF Read, TurnsOK
  <2> QED BY <1>4, <2>1, <2>2, <2>3 DEF Fine
<1>6. CASE Save(t)
  <2> DEFINE v == [turn[t] EXCEPT !.pc = "saved"]
  <2>1. v \in Turn /\ BatchOK(v.reply.batch) /\ v.mark = turn[t].mark
    BY <1>3 DEF Turn
  <2>2. v.mark <= store'.cursor
    <3>1. turn[t].mark \in Nat /\ store.cursor \in Nat /\ store'.cursor \in Nat
      BY <1>1, <1>2, BoundsAssumption DEF TurnsOK, Turn, StoreOK, Store
    <3>2. turn[t].mark <= store.cursor
      BY <1>1, <1>6 DEF Save, TurnsOK, MarksAreOld
    <3> QED BY <1>2, <2>1, <3>1, <3>2 DEF Keeps
  <2>3. turn' = [turn EXCEPT ![t] = v]
    BY <1>1, <1>6 DEF Save, TurnsOK
  <2> QED BY <1>4, <2>1, <2>2, <2>3 DEF Fine
<1>7. CASE Send(t) \/ Control(t)
  <2> DEFINE v == [IdleTurn EXCEPT !.pc = "sent"]
  <2>1. v \in Turn /\ BatchOK(v.reply.batch) /\ v.pc = "sent"
    BY IdleIsTyped DEF Turn, IdleTurn
  <2>2. turn' = [turn EXCEPT ![t] = v]
    BY <1>7 DEF Send, Control
  <2> QED BY <1>4, <2>1, <2>2 DEF Fine
<1>8. ASSUME NEW r \in Reply, NEW mark \in 0..MaxSeq, BatchOK(r.batch), Answered(t, r, mark)
      PROVE  TurnsOK'
  <2>1. [pc |-> "answered", mark |-> mark, reply |-> r] \in Turn
    BY DEF Turn
  <2> QED BY <1>4, <1>8, <2>1 DEF Fine, Answered
<1>9. CASE Refuse(t) \/ StartFails(t) \/ LoseResponse(t)
  <2>1. NoReply \in Reply /\ BatchOK(NoReply.batch) /\ 0 \in 0..MaxSeq
    BY NoReplyIsTyped, BoundsAssumption
  <2> QED BY <1>8, <1>9, <2>1 DEF Refuse, StartFails, LoseResponse
<1>10. CASE Respond(t)
  <2>1. PICK phase \in PhasesOf(harness, FALSE) :
          Answered(t, [answer |-> "session", phase |-> phase, batch |-> NoEvents], harness.seq)
    BY <1>10 DEF Respond
  <2>2. phase \in Phases
    BY PhasesOfIsTyped
  <2>3. /\ [answer |-> "session", phase |-> phase, batch |-> NoEvents] \in Reply
        /\ harness.seq \in 0..MaxSeq
    BY <1>1, <2>2, NoReplyIsTyped DEF Reply, HarnessOK, Harness
  <2> QED BY <1>8, <2>1, <2>3 DEF BatchOK
<1>11. ASSUME NEW mark \in 0..MaxSeq, turn' = [turn EXCEPT ![t] = Waiting(mark)]
       PROVE  TurnsOK'
  <2>1. Waiting(mark) \in Turn /\ BatchOK(Waiting(mark).reply.batch) /\ Waiting(mark).pc = "wait"
    BY NoReplyIsTyped DEF Waiting, Turn
  <2> QED BY <1>4, <1>11, <2>1 DEF Fine
<1>12. CASE turn' = [turn EXCEPT ![t] = IdleTurn]
  BY <1>4, <1>12, IdleIsTyped DEF Fine, IdleTurn
<1>13. CASE Accept(t)
  <2>1. turn[t].mark \in 0..MaxSeq
    BY <1>3 DEF Turn
  <2> QED BY <1>11, <1>12, <1>13, <2>1 DEF Accept
<1>14. CASE Poll(t)
  <2>1. PICK r \in Answers(turn[t].mark) :
          turn' = [turn EXCEPT ![t].pc = "polled", ![t].reply = r]
    BY <1>14 DEF Poll
  <2>2. r \in Reply /\ BatchOK(r.batch)
    BY <1>3, AnswersAreReplies DEF EventsInv, Turn
  <2> DEFINE v == [turn[t] EXCEPT !.pc = "polled", !.reply = r]
  <2>3. v \in Turn /\ BatchOK(v.reply.batch) /\ v.pc = "polled"
    BY <1>3, <2>2 DEF Turn
  <2>4. turn' = [turn EXCEPT ![t] = v]
    BY <1>1, <2>1 DEF TurnsOK
  <2> QED BY <1>4, <2>3, <2>4 DEF Fine
<1>15. CASE Follow(t)
  <2>1. Followed(t) \subseteq 0..MaxSeq
    <3>1. turn[t].mark \in 0..MaxSeq
      BY <1>3 DEF Turn
    <3>2. Seqs \subseteq 0..MaxSeq
      BY BoundsAssumption DEF Seqs
    <3> QED BY <3>1, <3>2 DEF Followed, Rows
  <2> QED BY <1>11, <1>12, <1>15, <2>1 DEF Follow
<1> QED BY <1>5, <1>6, <1>7, <1>9, <1>10, <1>13, <1>14, <1>15 DEF TurnStep

LEMMA TurnSteps ==
    ASSUME EventsInv, NEW t \in Turns, TurnStep(t)
    PROVE  EventsInv' /\ Keeps
<1>1. PollersOK /\ TurnsOK /\ HarnessOK /\ StoreOK /\ RestOK
  BY PartsOfEventsInv
<1>2. UNCHANGED <<kind, poller, stream, restarts>>
  BY DEF TurnStep, Read, Save, Send, Control, Refuse, StartFails, Respond, LoseResponse,
         Accept, Poll, Follow, Answered
<1>3. HarnessOK'
  <2>1. CASE UNCHANGED harness
    BY <1>1, <2>1 DEF HarnessOK, LivesAreNumbered
  <2>2. CASE Send(t)
    <3>1. turn[t].mark \in 0..MaxSeq
      BY <1>1 DEF TurnsOK, Turn
    <3>2. harness' \in Harness /\ harness'.life # 0
      BY <2>2, <3>1, PromptedIsTyped DEF Send, EventsInv
    <3> QED BY <3>2 DEF HarnessOK, LivesAreNumbered
  <2>3. CASE StartFails(t)
    <3>1. Lost(harness) \in Harness /\ Lost(harness).present = FALSE
      BY <1>1 DEF Lost, HarnessOK, Harness
    <3> QED BY <2>3, <3>1 DEF StartFails, HarnessOK, LivesAreNumbered
  <2> QED BY <2>1, <2>2, <2>3 DEF TurnStep, Read, Save, Control, Refuse, Respond, LoseResponse,
                                 Accept, Poll, Follow
<1>4. PollersOK' /\ RestOK'
  BY <1>1, <1>2 DEF PollersOK, RestOK
<1> QED BY <1>3, <1>4, TurnWrites, TurnMoves, PartsOfEventsInv

LEMMA StreamSteps ==
    ASSUME EventsInv, NEW s \in Streams, StreamStep(s)
    PROVE  EventsInv' /\ Keeps
<1>1. PollersOK /\ TurnsOK /\ HarnessOK /\ StoreOK /\ RestOK
  BY PartsOfEventsInv
<1>2. UNCHANGED <<kind, store, harness, poller, turn, restarts>>
  BY DEF StreamStep, Connect, Deliver, Quiet, Disconnect
<1> SUFFICES RestOK'
  <2>1. PollersOK' /\ TurnsOK' /\ HarnessOK'
    BY <1>1, <1>2 DEF PollersOK, TurnsOK, MarksAreOld, HarnessOK, LivesAreNumbered
  <2> QED BY <1>1, <1>2, <2>1, StoreStays, PartsOfEventsInv
<1>3. stream[s] \in Stream
  BY <1>1 DEF RestOK
<1>4. ASSUME NEW v \in Stream, stream' = [stream EXCEPT ![s] = v] PROVE RestOK'
  BY <1>1, <1>2, <1>4 DEF RestOK
<1>5. ASSUME NEW open \in BOOLEAN, NEW quiet \in BOOLEAN,
             stream' = [stream EXCEPT ![s].open = open, ![s].quiet = quiet]
      PROVE  RestOK'
  <2>1. [stream[s] EXCEPT !.open = open, !.quiet = quiet] \in Stream
    BY <1>3 DEF Stream
  <2>2. stream' = [stream EXCEPT ![s] = [stream[s] EXCEPT !.open = open, !.quiet = quiet]]
    BY <1>1, <1>5 DEF RestOK
  <2> QED BY <1>4, <2>1, <2>2
<1>6. CASE Connect(s) \/ Disconnect(s)
  BY <1>5, <1>6 DEF Connect, Disconnect
<1>7. CASE Deliver(s)
  <2>1. PICK top \in News(s) :
          stream' = [stream EXCEPT ![s] =
             [open |-> TRUE, quiet |-> FALSE, at |-> top,
              got |-> [q \in Seqs |-> IF q > stream[s].at THEN store.log[q]
                                      ELSE stream[s].got[q]]]]
    BY <1>7 DEF Deliver
  <2>2. top \in 0..MaxSeq
    BY BoundsAssumption DEF News, Seqs
  <2>3. [q \in Seqs |-> IF q > stream[s].at THEN store.log[q] ELSE stream[s].got[q]]
          \in [Seqs -> Lives]
    BY <1>1, <1>3 DEF Stream, StoreOK, Store
  <2> DEFINE v == [open |-> TRUE, quiet |-> FALSE, at |-> top,
                   got |-> [q \in Seqs |-> IF q > stream[s].at THEN store.log[q]
                                           ELSE stream[s].got[q]]]
  <2>4. v \in Stream
    BY <2>2, <2>3 DEF Stream
  <2> QED BY <1>4, <2>1, <2>4
<1>8. CASE Quiet(s)
  <2>1. CASE stream[s].quiet /\ store.status \notin Listed
    BY <1>5, <1>8, <2>1 DEF Quiet
  <2>2. CASE ~(stream[s].quiet /\ store.status \notin Listed)
    <3>1. [stream[s] EXCEPT !.quiet = TRUE] \in Stream
      BY <1>3 DEF Stream
    <3>2. stream' = [stream EXCEPT ![s] = [stream[s] EXCEPT !.quiet = TRUE]]
      BY <1>1, <1>8, <2>2 DEF Quiet, RestOK
    <3> QED BY <1>4, <3>1, <3>2
  <2> QED BY <2>1, <2>2
<1> QED BY <1>6, <1>7, <1>8 DEF StreamStep

LEMMA RestartStep ==
    ASSUME EventsInv, Restart
    PROVE  EventsInv' /\ Keeps
<1>1. PollersOK /\ TurnsOK /\ HarnessOK /\ StoreOK /\ RestOK
  BY PartsOfEventsInv
<1>2. HarnessOK'
  <2>1. Lost(harness) \in Harness /\ Lost(harness).present = FALSE
    BY <1>1 DEF Lost, HarnessOK, Harness
  <2> QED BY <1>1, <2>1 DEF Restart, HarnessOK, LivesAreNumbered
<1>3. PollersOK'
  BY IdleIsTyped DEF Restart, PollersOK
<1>4. TurnsOK'
  BY IdleIsTyped DEF Restart, TurnsOK, MarksAreOld, IdleTurn
<1>5. RestOK'
  <2>1. stream' \in [Streams -> Stream]
    <3>1. ASSUME NEW s \in Streams
          PROVE  [stream[s] EXCEPT !.open = FALSE, !.quiet = FALSE] \in Stream
      BY <1>1 DEF RestOK, Stream
    <3> QED BY <3>1 DEF Restart
  <2>2. restarts' \in 0..MaxRestarts
    <3>1. restarts' = restarts + 1 /\ restarts < MaxRestarts
      BY DEF Restart
    <3>2. restarts \in 0..MaxRestarts
      BY <1>1 DEF RestOK
    <3> QED BY <3>1, <3>2, BoundsAssumption
  <2> QED BY <1>1, <2>1, <2>2 DEF Restart, RestOK
<1> QED BY <1>1, <1>2, <1>3, <1>4, <1>5, StoreStays, PartsOfEventsInv DEF Restart

LEMMA NextIsSound == EventsInv /\ [Next]_vars => EventsInv' /\ Keeps
<1> SUFFICES ASSUME EventsInv, [Next]_vars PROVE EventsInv' /\ Keeps
  OBVIOUS
<1>1. CASE UNCHANGED vars
  BY <1>1, PartsOfEventsInv, StoreStays
     DEF vars, PollersOK, TurnsOK, MarksAreOld, HarnessOK, LivesAreNumbered, RestOK
<1>2. CASE Next
  BY <1>2, HarnessSteps, PollerSteps, TurnSteps, StreamSteps, RestartStep DEF Next
<1> QED BY <1>1, <1>2

-----------------------------------------------------------------------------
\* ---- The theorems ----

\* The invariant holds throughout, and with it the type invariant: whatever
\* senders, pump, status requests, restarts and lost answers do.
THEOREM EventsAreTyped == Spec => []TypeOK
<1>1. EventsInv => TypeOK
  BY DEF EventsInv
<1> QED BY <1>1, InitIsSound, NextIsSound, PTL DEF Spec

\* Every turn and every ingested answer writes the cursor (control_store.zig,
\* save and updateRuntime), each in a lock section of its own: at every moment it
\* is the number of the last row of agent_events.
THEOREM CursorNamesLastRow == Spec => []CursorIsLastRow
<1>1. EventsInv => CursorIsLastRow
  BY DEF EventsInv
<1> QED BY <1>1, InitIsSound, NextIsSound, PTL DEF Spec

\* No write replaces a stored event or moves the cursor back, however old the
\* cursor a turn read before it saved its row.
THEOREM StoredStays == Spec => StoredIsFinal
<1>1. EventsInv /\ [Next]_vars =>
        [ /\ store.cursor <= store'.cursor
          /\ \A q \in Seqs : store.log[q] # 0 => store'.log[q] = store.log[q] ]_vars
  BY NextIsSound DEF Keeps
<1> QED BY <1>1, InitIsSound, NextIsSound, PTL DEF Spec, StoredIsFinal

-----------------------------------------------------------------------------
\* ---- The event log, when the pump alone ingests events ----

OnlyPump == ~Waits /\ Callers = {}

TurnsBringNothing ==
    \A t \in Turns : turn[t].reply.batch = NoEvents /\ turn[t].pc \notin {"wait", "polled"}
\* The pump asks for what follows the log, and brings nothing else.
PumpIsNext ==
    /\ poller[Pump].pc = "ask" => poller[Pump].after = store.cursor
    /\ \/ poller[Pump].reply.batch = NoEvents
       \/ store.cursor <= poller[Pump].reply.batch.lo
ReadersAreBehind == \A s \in Streams : stream[s].at <= store.cursor

LogInv ==
    /\ EventsInv
    /\ TurnsBringNothing
    /\ PumpIsNext
    /\ ReadersAreBehind
    /\ ReadersMissNothing

\* A reply without events leaves the log as it is.
LEMMA NothingIngested ==
    ASSUME StoreOK, NEW r \in Reply, r.batch = NoEvents \/ r.answer # "session"
    PROVE  Ingested(r).log = store.log /\ Ingested(r).cursor = store.cursor
<1>1. CASE r.answer # "session"
  BY <1>1 DEF Ingested, StoreOK, Store
<1>2. CASE r.answer = "session" /\ r.batch = NoEvents
  <2>1. Rows(r) = {}
    BY <1>2, BoundsAssumption DEF Rows, NoEvents, Seqs
  <2>2. Ingested(r).log = [q \in Seqs |-> store.log[q]]
    BY <1>2, <2>1 DEF Ingested
  <2>3. Ingested(r).cursor = Larger(0, store.cursor)
    BY <1>2 DEF Ingested, NoEvents
  <2> QED BY <2>2, <2>3, BoundsAssumption DEF StoreOK, Store, Larger
<1> QED BY <1>1, <1>2

\* The log and the cursor change only when the pump ingests an answer.
LEMMA OnlyPumpWrites ==
    ASSUME OnlyPump, LogInv, Next, ~Ingest(Pump)
    PROVE  store'.log = store.log /\ store'.cursor = store.cursor
<1>1. PollersOK /\ TurnsOK /\ HarnessOK /\ StoreOK /\ RestOK
  BY PartsOfEventsInv DEF LogInv
<1>2. CASE UNCHANGED store
  BY <1>2
<1>3. ASSUME NEW t \in Turns, Save(t)
      PROVE  store'.log = store.log /\ store'.cursor = store.cursor
  <2>1. turn[t].mark <= store.cursor /\ turn[t].mark \in Nat /\ store.cursor \in Nat
    BY <1>1, <1>3, BoundsAssumption DEF Save, TurnsOK, MarksAreOld, Turn, StoreOK, Store
  <2> QED BY <1>1, <1>3, <2>1 DEF Save, StoreOK, Store, Larger
<1>4. ASSUME NEW t \in Turns, Accept(t) \/ Follow(t)
      PROVE  store'.log = store.log /\ store'.cursor = store.cursor
  <2>1. turn[t].reply \in Reply /\ turn[t].reply.batch = NoEvents
    BY <1>1 DEF TurnsOK, Turn, LogInv, TurnsBringNothing
  <2> QED BY <1>1, <1>4, <2>1, NothingIngested DEF Accept, Follow
<1> QED BY <1>2, <1>3, <1>4
        DEF Next, Emit, PiStarts, Settle, Exit, NodeRestart, List, Call, Ask, Ingest, OnlyPump,
            Pollers, TurnStep, Read, Send, Control, Refuse, StartFails, Respond, LoseResponse, Poll,
            StreamStep, Connect, Deliver, Quiet, Disconnect, Restart

\* What the pump ingests comes after everything in the log.
LEMMA PumpExtends ==
    ASSUME LogInv, Ingest(Pump)
    PROVE  \/ store'.log = store.log
           \/ \E rows \in SUBSET Seqs, life \in 1..MaxLives : Log!Extend(rows, life)
<1> DEFINE r == poller[Pump].reply
<1>1. PollersOK /\ TurnsOK /\ HarnessOK /\ StoreOK /\ RestOK
  BY PartsOfEventsInv DEF LogInv
<1>2. r \in Reply /\ BatchOK(r.batch) /\ store' = Ingested(r) /\ UNCHANGED stream
  BY <1>1 DEF PollersOK, Poller, Pollers, Ingest
<1>3. CASE r.batch = NoEvents \/ r.answer # "session"
  BY <1>1, <1>2, <1>3, NothingIngested
<1>4. CASE r.batch # NoEvents /\ r.answer = "session"
  <2>1. /\ store.cursor <= r.batch.lo
        /\ r.batch.lo \in Nat /\ store.cursor \in Nat /\ r.batch.life \in 1..MaxLives
    BY <1>1, <1>2, <1>4, BoundsAssumption
       DEF LogInv, PumpIsNext, Reply, Batch, BatchOK, StoreOK, Store, Lives
  <2>2. ASSUME NEW q \in Rows(r), NEW p \in Seqs, store.log[p] # 0 PROVE p < q
    <3>1. p <= store.cursor
      BY <1>1, <2>2 DEF StoreOK, LastRow
    <3> QED BY <2>1, <3>1, BoundsAssumption DEF Rows, Seqs
  <2>3. ASSUME NEW q \in Rows(r) PROVE store.log[q] = 0
    <3>1. q \in Seqs /\ q \in Nat
      BY BoundsAssumption DEF Rows, Seqs
    <3> QED BY <2>2, <3>1
  <2>4. store'.log = [q \in Seqs |-> IF q \in Rows(r) THEN r.batch.life ELSE store.log[q]]
    <3>1. store'.log = [q \in Seqs |-> IF q \in Rows(r) /\ store.log[q] = 0
                                       THEN r.batch.life ELSE store.log[q]]
      BY <1>2, <1>4 DEF Ingested
    <3> QED BY <2>3, <3>1
  <2>5. Log!Extend(Rows(r), r.batch.life)
    BY <1>2, <2>2, <2>4 DEF Log!Extend, Log!Seqs, Log!Stored, Seqs
  <2>6. Rows(r) \in SUBSET Seqs
    BY DEF Rows
  <2> QED BY <2>1, <2>5, <2>6
<1> QED BY <1>3, <1>4

\* A delivery takes a reader to the end of the log.
LEMMA DeliverCatchesUp ==
    ASSUME LogInv, NEW s \in Streams, Deliver(s)
    PROVE  \E top \in Seqs : Log!CatchUp(s, top)
<1>1. StoreOK /\ RestOK
  BY PartsOfEventsInv DEF LogInv
<1>2. PICK top \in News(s) :
        /\ \A q \in News(s) : q <= top
        /\ stream' = [stream EXCEPT ![s] =
              [open |-> TRUE, quiet |-> FALSE, at |-> top,
               got |-> [q \in Seqs |-> IF q > stream[s].at THEN store.log[q]
                                       ELSE stream[s].got[q]]]]
  BY DEF Deliver
<1>3. top \in Seqs /\ top > stream[s].at /\ store.log[top] # 0
  BY DEF News
<1>4. ASSUME NEW q \in Seqs, store.log[q] # 0 PROVE q <= top
  <2>1. CASE q > stream[s].at
    BY <1>2, <1>4, <2>1 DEF News
  <2>2. CASE ~(q > stream[s].at)
    BY <1>1, <1>3, <2>2, BoundsAssumption DEF RestOK, Stream, Seqs
  <2> QED BY <2>1, <2>2
<1>5. [u \in Streams |-> stream'[u].at] = [[u \in Streams |-> stream[u].at] EXCEPT ![s] = top]
  BY <1>1, <1>2 DEF RestOK
<1>6. [u \in Streams |-> stream'[u].got]
        = [[u \in Streams |-> stream[u].got] EXCEPT ![s] =
             [q \in Seqs |-> IF q > stream[s].at THEN store.log[q] ELSE stream[s].got[q]]]
  BY <1>1, <1>2 DEF RestOK
<1>7. UNCHANGED store.log
  BY DEF Deliver
<1> QED BY <1>3, <1>4, <1>5, <1>6, <1>7 DEF Log!CatchUp, Log!Seqs, Log!Stored, Seqs

\* Every other step leaves what the readers have as it is.
LEMMA ReadersStay ==
    ASSUME LogInv, Next, \A s \in Streams : ~Deliver(s)
    PROVE  /\ [s \in Streams |-> stream'[s].at] = [s \in Streams |-> stream[s].at]
           /\ [s \in Streams |-> stream'[s].got] = [s \in Streams |-> stream[s].got]
<1>1. stream \in [Streams -> Stream]
  BY PartsOfEventsInv DEF LogInv, RestOK
<1> DEFINE Same == \A u \in Streams : /\ stream'[u].at = stream[u].at
                                      /\ stream'[u].got = stream[u].got
<1> SUFFICES Same
  OBVIOUS
<1>2. UNCHANGED stream => Same
  OBVIOUS
<1>3. ASSUME NEW s \in Streams, Connect(s) \/ Quiet(s) \/ Disconnect(s) PROVE Same
  <2> SUFFICES ASSUME NEW u \in Streams
               PROVE  stream'[u].at = stream[u].at /\ stream'[u].got = stream[u].got
    OBVIOUS
  <2>1. CASE u = s
    <3>1. /\ DOMAIN stream = Streams
          /\ stream[s] = [open |-> stream[s].open, quiet |-> stream[s].quiet,
                          at |-> stream[s].at, got |-> stream[s].got]
      BY <1>1 DEF Stream
    <3>2. \/ stream' = [stream EXCEPT ![s].open = TRUE, ![s].quiet = FALSE]
          \/ stream' = [stream EXCEPT ![s].open = FALSE, ![s].quiet = FALSE]
          \/ stream' = [stream EXCEPT ![s].quiet = TRUE]
      BY <1>3 DEF Connect, Quiet, Disconnect
    <3> QED BY <2>1, <3>1, <3>2
  <2>2. CASE u # s
    BY <1>1, <1>3, <2>2 DEF Connect, Quiet, Disconnect
  <2> QED BY <2>1, <2>2
<1>4. Restart => Same
  BY <1>1 DEF Restart, Stream
<1>5. ASSUME NEW t \in Turns, TurnStep(t) PROVE UNCHANGED stream
  BY <1>5 DEF TurnStep, Read, Save, Send, Control, Refuse, StartFails, Respond, LoseResponse,
              Accept, Poll, Follow, Answered
<1>6. ASSUME NEW s \in Streams, StreamStep(s) PROVE Same
  BY <1>3, <1>6 DEF StreamStep
<1>7. ASSUME NEW p \in Pollers, Ask(p) \/ Ingest(p) PROVE UNCHANGED stream
  BY <1>7 DEF Ask, Ingest
<1>8. ASSUME Emit \/ PiStarts \/ Settle \/ Exit \/ NodeRestart \/ List
             \/ \E c \in Callers : Call(c)
      PROVE  UNCHANGED stream
  BY <1>8 DEF Emit, PiStarts, Settle, Exit, NodeRestart, List, Call
<1> HIDE DEF Same
<1> QED BY <1>2, <1>4, <1>5, <1>6, <1>7, <1>8 DEF Next

LEMMA LogInitIsSound == Init => LogInv /\ Log!Init
<1> SUFFICES ASSUME Init PROVE LogInv /\ Log!Init
  OBVIOUS
<1>1. EventsInv
  BY InitIsSound
<1>2. TurnsBringNothing /\ PumpIsNext
  BY DEF Init, TurnsBringNothing, PumpIsNext, IdleTurn, IdlePoller, NoReply, Pollers
<1>3. ReadersAreBehind /\ ReadersMissNothing
  BY BoundsAssumption
     DEF Init, ReadersAreBehind, ReadersMissNothing, Log!ReadersMissNothing, Log!Seqs, NoRows, Seqs
<1>4. Log!Init
  BY DEF Init, Log!Init, Log!Empty, Log!Seqs, NoRows, Seqs
<1> QED BY <1>1, <1>2, <1>3, <1>4 DEF LogInv

\* Every step extends the log, lets a reader catch up, or leaves both alone.
LEMMA StepsAreLogSteps ==
    ASSUME OnlyPump, LogInv, [Next]_vars
    PROVE  [Log!Next]_(Log!vars)
<1>1. CASE UNCHANGED vars
  BY <1>1 DEF vars, Log!vars
<1>2. ASSUME Ingest(Pump) PROVE [Log!Next]_(Log!vars)
  <2>1. UNCHANGED stream
    BY <1>2 DEF Ingest
  <2> QED BY <1>2, <2>1, PumpExtends DEF Log!Next, Log!vars, Log!Seqs, Seqs
<1>3. ASSUME NEW s \in Streams, Deliver(s) PROVE [Log!Next]_(Log!vars)
  BY <1>3, DeliverCatchesUp DEF Log!Next, Log!Seqs, Seqs
<1>4. CASE Next /\ ~Ingest(Pump) /\ \A s \in Streams : ~Deliver(s)
  BY <1>4, OnlyPumpWrites, ReadersStay DEF Log!vars
<1> QED BY <1>1, <1>2, <1>3, <1>4

\* Readers are never ahead of the cursor, and have all rows up to their position.
LEMMA ReadersArePreserved ==
    ASSUME OnlyPump, LogInv, [Next]_vars
    PROVE  ReadersAreBehind' /\ ReadersMissNothing'
<1>1. StoreOK /\ RestOK /\ StoreOK' /\ RestOK' /\ Keeps
  BY PartsOfEventsInv, NextIsSound DEF LogInv
<1>2. /\ store.cursor \in Nat /\ store'.cursor \in Nat /\ store.cursor <= store'.cursor
      /\ store.log \in [Seqs -> Lives] /\ store'.log \in [Seqs -> Lives]
      /\ \A s \in Streams : /\ stream[s].at \in Nat /\ stream'[s].at \in Nat
                             /\ stream[s].got \in [Seqs -> Lives]
  BY <1>1, BoundsAssumption DEF StoreOK, Store, RestOK, Stream, Keeps
<1>3. \A q \in Seqs : q \in Nat /\ q > 0
  BY BoundsAssumption DEF Seqs
<1>4. \A s \in Streams :
        /\ stream[s].at <= store.cursor
        /\ \A q \in Seqs : stream[s].got[q] = IF q <= stream[s].at THEN store.log[q] ELSE 0
  BY DEF LogInv, ReadersAreBehind, ReadersMissNothing, Log!ReadersMissNothing, Log!Seqs, Seqs
<1> SUFFICES ASSUME NEW s \in Streams
             PROVE  /\ stream'[s].at <= store'.cursor
                    /\ \A q \in Seqs :
                         stream'[s].got[q] = IF q <= stream'[s].at THEN store'.log[q] ELSE 0
  BY DEF ReadersAreBehind, ReadersMissNothing, Log!ReadersMissNothing, Log!Seqs, Seqs
<1>5. [Log!Next]_(Log!vars)
  BY StepsAreLogSteps
<1>6. ASSUME [u \in Streams |-> stream'[u].at] = [u \in Streams |-> stream[u].at],
             [u \in Streams |-> stream'[u].got] = [u \in Streams |-> stream[u].got]
      PROVE  stream'[s].at = stream[s].at /\ stream'[s].got = stream[s].got
  BY <1>6
<1>7. CASE UNCHANGED Log!vars
  <2>1. stream'[s].at = stream[s].at /\ stream'[s].got = stream[s].got
    BY <1>6, <1>7 DEF Log!vars
  <2>2. store'.log = store.log
    BY <1>7 DEF Log!vars
  <2> QED BY <1>2, <1>4, <2>1, <2>2
<1>8. CASE \E rows \in SUBSET Seqs, life \in 1..MaxLives : Log!Extend(rows, life)
  <2>1. PICK rows \in SUBSET Seqs, life \in 1..MaxLives : Log!Extend(rows, life)
    BY <1>8
  <2>2. stream'[s].at = stream[s].at /\ stream'[s].got = stream[s].got
    BY <1>6, <2>1 DEF Log!Extend
  <2>3. ASSUME NEW q \in rows PROVE q > stream[s].at
    <3>1. CASE stream[s].at = 0
      BY <1>3, <3>1
    <3>2. CASE stream[s].at # 0
      <4>1. store.cursor \in Seqs /\ store.log[store.cursor] # 0
        BY <1>1, <1>2, <1>4, <3>2, BoundsAssumption DEF StoreOK, Store, LastRow, Seqs
      <4>2. store.cursor < q
        BY <2>1, <4>1 DEF Log!Extend, Log!Seqs, Log!Stored, Seqs
      <4> QED BY <1>2, <1>3, <1>4, <4>2
    <3> QED BY <3>1, <3>2
  <2>4. ASSUME NEW q \in Seqs, q <= stream[s].at PROVE store'.log[q] = store.log[q]
    <3>1. q \notin rows
      BY <1>2, <1>3, <2>3, <2>4
    <3> QED BY <2>1, <3>1 DEF Log!Extend, Log!Seqs, Seqs
  <2> QED BY <1>2, <1>4, <2>2, <2>4
<1>9. CASE \E r \in Streams, top \in Seqs : Log!CatchUp(r, top)
  <2>1. PICK r \in Streams, top \in Seqs : Log!CatchUp(r, top)
    BY <1>9
  <2>2. /\ store'.log = store.log /\ store.log[top] # 0
        /\ \A q \in Seqs : store.log[q] # 0 => q <= top
    BY <2>1 DEF Log!CatchUp, Log!Seqs, Log!Stored, Seqs
  <2>3. CASE s = r
    <3>1. stream'[s].at = top
      BY <2>1, <2>3 DEF Log!CatchUp
    <3>2. \A q \in Seqs : stream'[s].got[q] = IF q > stream[s].at THEN store.log[q]
                                              ELSE stream[s].got[q]
      BY <2>1, <2>3 DEF Log!CatchUp, Log!Seqs, Seqs
    <3>3. top <= store'.cursor
      BY <1>1, <2>2 DEF StoreOK, LastRow
    <3> QED BY <1>2, <1>3, <1>4, <2>2, <3>1, <3>2, <3>3 DEF Lives
  <2>4. CASE s # r
    <3>1. stream'[s].at = stream[s].at /\ stream'[s].got = stream[s].got
      BY <2>1, <2>4 DEF Log!CatchUp
    <3> QED BY <1>2, <1>4, <2>2, <3>1
  <2> QED BY <2>3, <2>4
<1> QED BY <1>5, <1>7, <1>8, <1>9 DEF Log!Next, Log!Seqs, Seqs

\* The pump alone asks and brings events, from the end of the log on.
LEMMA PumpStaysNext ==
    ASSUME OnlyPump, LogInv, [Next]_vars
    PROVE  PumpIsNext'
<1>1. PollersOK /\ StoreOK /\ Pump \in Pollers
  BY PartsOfEventsInv DEF LogInv, Pollers
<1>2. PumpIsNext /\ poller[Pump] \in Poller
  BY <1>1 DEF LogInv, PollersOK
<1>3. poller'[Pump] = IdlePoller => PumpIsNext'
  BY DEF PumpIsNext, IdlePoller, NoReply
<1>4. CASE Ingest(Pump) \/ Restart
  BY <1>1, <1>3, <1>4 DEF Ingest, Restart, PollersOK
<1>5. CASE ~Ingest(Pump) /\ ~Restart
  <2>1. store'.cursor = store.cursor
    BY <1>5, OnlyPumpWrites DEF vars
  <2>2. CASE List
    <3>1. poller'[Pump].after = store.cursor /\ poller'[Pump].reply = poller[Pump].reply
      BY <1>1, <1>2, <2>2 DEF List, PollersOK, Poller
    <3> QED BY <1>2, <2>1, <3>1 DEF PumpIsNext
  <2>3. CASE Ask(Pump)
    <3>1. PICK r \in Answers(poller[Pump].after) :
            poller' = [poller EXCEPT ![Pump] = [pc |-> "answered", after |-> 0, reply |-> r]]
      BY <2>3 DEF Ask
    <3>2. poller[Pump].after = store.cursor /\ poller[Pump].after \in 0..MaxSeq
      BY <1>2, <2>3 DEF Ask, PumpIsNext, Poller
    <3>3. r.batch = NoEvents \/ store.cursor <= r.batch.lo
      BY <3>2, AnswersAreReplies DEF LogInv, EventsInv
    <3>4. poller'[Pump] = [pc |-> "answered", after |-> 0, reply |-> r]
      BY <1>1, <3>1 DEF PollersOK
    <3> QED BY <2>1, <3>3, <3>4 DEF PumpIsNext
  <2>4. CASE UNCHANGED poller
    BY <1>2, <2>1, <2>4 DEF PumpIsNext
  <2> QED BY <1>5, <2>2, <2>3, <2>4
          DEF Next, vars, Emit, PiStarts, Settle, Exit, NodeRestart, OnlyPump, Pollers,
              TurnStep, Read, Save, Send, Control, Refuse, StartFails, Respond,
              LoseResponse, Accept, Poll, Follow, StreamStep, Connect, Deliver, Quiet, Disconnect
<1> QED BY <1>4, <1>5

\* A turn's answer carries no events, and without waits nothing else asks.
LEMMA TurnsStayEmpty ==
    ASSUME OnlyPump, LogInv, [Next]_vars
    PROVE  TurnsBringNothing'
<1>1. TurnsOK /\ TurnsBringNothing
  BY PartsOfEventsInv DEF LogInv
<1> DEFINE Empty(v) == v.reply.batch = NoEvents /\ v.pc \notin {"wait", "polled"}
<1>2. \A t \in Turns : turn[t] \in Turn /\ Empty(turn[t])
  BY <1>1 DEF TurnsBringNothing, TurnsOK
<1>3. Empty(IdleTurn) /\ Empty([IdleTurn EXCEPT !.pc = "sent"])
  BY DEF IdleTurn, NoReply
<1>4. ASSUME NEW t \in Turns, NEW v, Empty(v), turn' = [turn EXCEPT ![t] = v]
      PROVE  TurnsBringNothing'
  BY <1>1, <1>4 DEF TurnsBringNothing, TurnsOK
<1>5. ASSUME NEW t \in Turns, TurnStep(t) PROVE TurnsBringNothing'
  <2>1. CASE Read(t)
    <3>1. Empty([turn[t] EXCEPT !.pc = "read", !.mark = store.cursor])
      BY <1>2 DEF Turn
    <3>2. turn' = [turn EXCEPT ![t] = [turn[t] EXCEPT !.pc = "read", !.mark = store.cursor]]
      BY <1>1, <2>1 DEF Read, TurnsOK
    <3> QED BY <1>4, <3>1, <3>2
  <2>2. CASE Save(t)
    <3>1. Empty([turn[t] EXCEPT !.pc = "saved"])
      BY <1>2 DEF Turn
    <3>2. turn' = [turn EXCEPT ![t] = [turn[t] EXCEPT !.pc = "saved"]]
      BY <1>1, <2>2 DEF Save, TurnsOK
    <3> QED BY <1>4, <3>1, <3>2
  <2>3. CASE Send(t) \/ Control(t)
    BY <1>3, <1>4, <2>3 DEF Send, Control
  <2>4. ASSUME NEW r, NEW mark, r.batch = NoEvents, Answered(t, r, mark)
        PROVE  TurnsBringNothing'
    <3>1. Empty([pc |-> "answered", mark |-> mark, reply |-> r])
      BY <2>4
    <3> QED BY <1>4, <2>4, <3>1 DEF Answered
  <2>5. CASE Refuse(t) \/ StartFails(t) \/ LoseResponse(t)
    <3>1. NoReply.batch = NoEvents
      BY DEF NoReply
    <3> QED BY <2>4, <2>5, <3>1 DEF Refuse, StartFails, LoseResponse
  <2>6. CASE Respond(t)
    BY <2>4, <2>6 DEF Respond
  <2>7. CASE Accept(t)
    BY <1>3, <1>4, <2>7 DEF Accept, OnlyPump
  <2>8. ~Poll(t) /\ ~Follow(t)
    BY <1>2 DEF Poll, Follow
  <2> QED BY <1>5, <2>1, <2>2, <2>3, <2>5, <2>6, <2>7, <2>8 DEF TurnStep
<1>6. CASE Restart
  BY <1>3, <1>6 DEF Restart, TurnsBringNothing
<1>7. CASE UNCHANGED turn
  BY <1>1, <1>7 DEF TurnsBringNothing
<1> QED BY <1>5, <1>6, <1>7
        DEF Next, vars, Emit, PiStarts, Settle, Exit, NodeRestart, List, Call, Ask, Ingest,
            StreamStep, Connect, Deliver, Quiet, Disconnect

LEMMA LogInvIsInductive == OnlyPump /\ LogInv /\ [Next]_vars => LogInv'
<1> SUFFICES ASSUME OnlyPump, LogInv, [Next]_vars PROVE LogInv'
  OBVIOUS
<1> QED BY NextIsSound, PumpStaysNext, TurnsStayEmpty, ReadersArePreserved DEF LogInv

\* What serveEvents promises a browser, as long as the pump alone ingests: it
\* has every stored event up to its position, and none is slipped in later.
THEOREM ReadersAreComplete == ASSUME OnlyPump PROVE Spec => []ReadersMissNothing
<1>1. LogInv => ReadersMissNothing
  BY DEF LogInv
<1>2. Init => LogInv
  BY LogInitIsSound
<1>3. LogInv /\ [Next]_vars => LogInv'
  BY LogInvIsInductive
<1> QED BY <1>1, <1>2, <1>3, PTL DEF Spec

\* The pump, the turns and the streams together implement an append-only log.
THEOREM ImplementsEventLog == ASSUME OnlyPump PROVE Spec => LogSpec
<1>1. Init => LogInv /\ Log!Init
  BY LogInitIsSound
<1>2. LogInv /\ [Next]_vars => LogInv'
  BY LogInvIsInductive
<1>3. LogInv /\ [Next]_vars => [Log!Next]_(Log!vars)
  BY StepsAreLogSteps
<1> QED BY <1>1, <1>2, <1>3, PTL DEF Spec, LogSpec, Log!Spec

-----------------------------------------------------------------------------
(***************************************************************************)
(* What the cursor of an embedded chat in SessionEvents means, for any     *)
(* number of senders and browsers and any bounds: everything up to it is   *)
(* stored, as far as the harness still holds it.                           *)
(***************************************************************************)

\* What the pump brings ends with the harness's session, and begins no later than what the
\* log is missing of it.
PumpBringsNext ==
    LET b == poller[Pump].reply.batch
    IN  b # NoEvents =>
          /\ harness.present /\ b.life = harness.life /\ b.hi <= harness.seq
          /\ b.lo <= Larger(store.cursor, Evicted(harness))

\* The log has what the harness holds up to the cursor.
StoredToCursor ==
    \A q \in Seqs : (Evicted(harness) < q /\ q <= store.cursor) => store.log[q] = harness.life

\* While there is no harness session, every cursor read is the stored one: the next session
\* numbers on from it.
MarksAreCurrent ==
    \A t \in Turns : turn[t].pc \in {"read", "saved"} => turn[t].mark = store.cursor

ChatParts ==
    /\ store.transcript = store.log
    /\ harness.running = harness.present
    /\ harness.present => store.cursor <= harness.seq /\ StoredToCursor
    /\ ~harness.present => MarksAreCurrent
    /\ PumpBringsNext

ChatInv == LogInv /\ (kind = "chat" => ChatParts)

-----------------------------------------------------------------------------
\* ---- Steps that move neither the harness nor the log ----

\* The rows, the cursor and the transcript stay.
RowsStay == /\ store'.log = store.log /\ store'.cursor = store.cursor
            /\ store'.transcript = store.transcript

\* A turn that is to send has read the cursor now, or had read it before.
MarksStay ==
    \A t \in Turns : turn'[t].pc \in {"read", "saved"} =>
        \/ turn'[t].mark = store.cursor
        \/ turn[t].pc \in {"read", "saved"} /\ turn'[t].mark = turn[t].mark

\* Such a step keeps everything.
LEMMA StillStep ==
    ASSUME ChatParts, RowsStay, MarksStay, UNCHANGED harness,
           poller'[Pump].reply = poller[Pump].reply
    PROVE  ChatParts'
<1>1. StoredToCursor => StoredToCursor'
  BY DEF StoredToCursor, RowsStay, Evicted, Larger
<1>2. MarksAreCurrent => MarksAreCurrent'
  BY DEF MarksAreCurrent, RowsStay, MarksStay
<1>3. PumpBringsNext => PumpBringsNext'
  BY DEF PumpBringsNext, RowsStay
<1> QED BY <1>1, <1>2, <1>3 DEF ChatParts, RowsStay

\* An answer without events leaves the transcript too.
LEMMA NothingTranscribed ==
    ASSUME StoreOK, NEW r \in Reply, r.batch = NoEvents \/ r.answer # "session"
    PROVE  Ingested(r).transcript = store.transcript
<1>1. CASE r.answer # "session"
  BY <1>1 DEF Ingested, StoreOK, Store
<1>2. CASE r.answer = "session" /\ r.batch = NoEvents
  <2>1. Rows(r) = {}
    BY <1>2, BoundsAssumption DEF Rows, NoEvents, Seqs
  <2>2. Ingested(r).transcript = [q \in Seqs |-> store.transcript[q]]
    BY <1>2, <2>1 DEF Ingested
  <2> QED BY <2>2 DEF StoreOK, Store
<1> QED BY <1>1, <1>2

\* A sender changes the harness only by its prompt, which a running chat takes as it is.
LEMMA SendersKeep ==
    ASSUME LogInv, kind = "chat", ChatParts, NEW t \in Turns, TurnStep(t), ~Send(t)
    PROVE  ChatParts'
<1>1. TurnsOK /\ StoreOK /\ TurnsBringNothing
  BY PartsOfEventsInv DEF LogInv
<1>2. UNCHANGED <<poller, harness>>
  BY DEF TurnStep, Read, Save, Control, Refuse, StartFails, Respond, LoseResponse, Accept,
         Poll, Follow, Answered
<1>3. RowsStay
  <2>1. CASE UNCHANGED store
    BY <2>1 DEF RowsStay
  <2>2. CASE Save(t)
    <3>1. turn[t].mark <= store.cursor /\ turn[t].mark \in Nat /\ store.cursor \in Nat
      BY <1>1, <2>2, BoundsAssumption DEF Save, TurnsOK, MarksAreOld, Turn, StoreOK, Store
    <3> QED BY <1>1, <2>2, <3>1 DEF Save, StoreOK, Store, Larger, RowsStay
  <2>3. CASE Accept(t) \/ Follow(t)
    <3>1. turn[t].reply \in Reply /\ turn[t].reply.batch = NoEvents
      BY <1>1 DEF TurnsOK, Turn, TurnsBringNothing
    <3> QED BY <1>1, <2>3, <3>1, NothingIngested, NothingTranscribed
            DEF Accept, Follow, RowsStay
  <2> QED BY <2>1, <2>2, <2>3
          DEF TurnStep, Read, Control, Refuse, StartFails, Respond, LoseResponse, Poll
<1>4. MarksStay
  <2>1. turn \in [Turns -> Turn]
    BY <1>1 DEF TurnsOK
  <2>2. CASE Read(t)
    BY <2>1, <2>2 DEF Read, MarksStay, Turn
  <2>3. CASE Save(t)
    BY <2>1, <2>3 DEF Save, MarksStay, Turn
  <2>4. ASSUME NEW v, v.pc \notin {"read", "saved"}, turn' = [turn EXCEPT ![t] = v]
        PROVE  MarksStay
    BY <2>1, <2>4 DEF MarksStay
  <2>5. CASE Control(t)
    BY <2>4, <2>5 DEF Control, IdleTurn
  <2>6. CASE Refuse(t) \/ StartFails(t) \/ LoseResponse(t) \/ Respond(t)
    <3>1. PICK r, mark : Answered(t, r, mark)
      BY <2>6 DEF Refuse, StartFails, LoseResponse, Respond
    <3> QED BY <2>4, <3>1 DEF Answered
  <2>7. CASE Accept(t)
    BY <2>4, <2>7 DEF Accept, Waiting, IdleTurn
  <2>8. ~Poll(t) /\ ~Follow(t)
    BY <1>1 DEF Poll, Follow, TurnsBringNothing
  <2> QED BY <2>2, <2>3, <2>5, <2>6, <2>7, <2>8 DEF TurnStep
<1> QED BY <1>2, <1>3, <1>4, StillStep

-----------------------------------------------------------------------------
\* ---- The harness ----

\* The chat emits an event, or ends a turn with one.
LEMMA EmittingKeeps ==
    ASSUME LogInv, kind = "chat", ChatParts, Emit \/ Settle
    PROVE  ChatParts'
<1>1. HarnessOK /\ StoreOK /\ PollersOK
  BY PartsOfEventsInv DEF LogInv
<1>2. /\ UNCHANGED <<store, poller, turn>>
      /\ harness'.present = harness.present /\ harness'.running = harness.running
      /\ harness'.life = harness.life /\ harness'.first = harness.first
      /\ harness'.seq = harness.seq + 1
  BY <1>1 DEF Emit, Settle, HarnessOK, Harness
<1>3. /\ harness.seq \in Nat /\ harness.first \in Nat /\ store.cursor \in Nat
      /\ poller[Pump].reply.batch.hi \in Nat /\ poller[Pump].reply.batch.lo \in Nat
  BY <1>1, BoundsAssumption
     DEF HarnessOK, Harness, StoreOK, Store, PollersOK, Poller, Pollers, Reply, Batch
<1>4. /\ Evicted(harness) \in Nat /\ Evicted(harness)' \in Nat
      /\ Evicted(harness) <= Evicted(harness)'
  BY <1>2, <1>3, BoundsAssumption DEF Evicted, Larger
<1>5. StoredToCursor => StoredToCursor'
  BY <1>2, <1>4, BoundsAssumption DEF StoredToCursor, Seqs
<1>6. PumpBringsNext => PumpBringsNext'
  BY <1>2, <1>3, <1>4 DEF PumpBringsNext, Larger
<1>7. MarksAreCurrent => MarksAreCurrent'
  BY <1>2 DEF MarksAreCurrent
<1> QED BY <1>2, <1>3, <1>5, <1>6, <1>7 DEF ChatParts

\* A prompt goes to the session there is, or starts one at the cursor.
LEMMA SendKeeps ==
    ASSUME LogInv, kind = "chat", ChatParts, NEW t \in Turns, Send(t)
    PROVE  ChatParts'
<1>1. HarnessOK /\ StoreOK /\ TurnsOK
  BY PartsOfEventsInv DEF LogInv
<1>2. /\ UNCHANGED <<store, poller>> /\ turn[t].pc = "saved"
      /\ harness' = Prompted(harness, turn[t].mark)
      /\ turn' = [turn EXCEPT ![t] = [IdleTurn EXCEPT !.pc = "sent"]]
  BY DEF Send
<1>3. CASE harness.present
  <2>1. /\ harness'.present /\ harness'.running
        /\ harness'.life = harness.life /\ harness'.first = harness.first
        /\ harness'.seq = harness.seq
    BY <1>1, <1>2, <1>3 DEF Prompted, Reused, ChatParts, HarnessOK, Harness
  <2>2. Evicted(harness)' = Evicted(harness)
    BY <2>1 DEF Evicted
  <2> QED BY <1>2, <1>3, <2>1, <2>2 DEF ChatParts, StoredToCursor, PumpBringsNext
<1>4. CASE ~harness.present
  <2>1. turn[t].mark = store.cursor /\ store.cursor \in Nat
    BY <1>1, <1>2, <1>4, BoundsAssumption DEF ChatParts, MarksAreCurrent, StoreOK, Store
  <2>2. /\ harness'.present = TRUE /\ harness'.running = TRUE
        /\ harness'.first = store.cursor /\ harness'.seq = store.cursor
    BY <1>1, <1>2, <1>4, <2>1 DEF Prompted, Reused, HarnessOK, Harness
  <2>3. Evicted(harness)' \in Nat /\ store.cursor <= Evicted(harness)'
    BY <2>1, <2>2, BoundsAssumption DEF Evicted, Larger
  <2>4. StoredToCursor'
    BY <1>2, <2>1, <2>3, BoundsAssumption DEF StoredToCursor, Seqs
  <2>5. PumpBringsNext'
    BY <1>2, <1>4 DEF ChatParts, PumpBringsNext
  <2>6. store'.transcript = store'.log /\ store'.cursor <= harness'.seq
    BY <1>2, <2>1, <2>2 DEF ChatParts
  <2> QED BY <2>2, <2>4, <2>5, <2>6 DEF ChatParts
<1> QED BY <1>3, <1>4

\* A restart takes the session, the answers and the senders with it.
LEMMA RestartKeeps ==
    ASSUME LogInv, kind = "chat", ChatParts, Restart
    PROVE  ChatParts'
<1>1. ~Remote
  <2>1. kind \in Kinds
    BY PartsOfEventsInv DEF LogInv, RestOK
  <2> QED BY <2>1, KindsAssumption
<1>2. ~harness'.present /\ ~harness'.running /\ harness'.running = harness'.present
  <2>1. HarnessOK
    BY PartsOfEventsInv DEF LogInv
  <2> QED BY <1>1, <2>1 DEF Restart, Lost, HarnessOK, Harness
<1>3. MarksAreCurrent' /\ PumpBringsNext'
  BY DEF Restart, MarksAreCurrent, PumpBringsNext, IdleTurn, IdlePoller, NoReply, Pollers
<1> QED BY <1>2, <1>3 DEF ChatParts, Restart

-----------------------------------------------------------------------------
\* ---- The pump ----

\* The pump asks from the cursor: what it gets is the harness's, and nothing is left out but
\* what the ring has lost.
LEMMA AskKeeps ==
    ASSUME LogInv, kind = "chat", ChatParts, Ask(Pump)
    PROVE  ChatParts'
<1>1. HarnessOK /\ StoreOK /\ PollersOK /\ PumpIsNext /\ Pump \in Pollers
  BY PartsOfEventsInv DEF LogInv, Pollers
<1>2. PICK r \in Answers(poller[Pump].after) :
        poller' = [poller EXCEPT ![Pump] = [pc |-> "answered", after |-> 0, reply |-> r]]
  BY DEF Ask
<1>3. poller'[Pump].reply = r /\ poller[Pump].after = store.cursor
  BY <1>1, <1>2 DEF Ask, PollersOK, PumpIsNext
<1>4. UNCHANGED <<store, harness, turn>>
  BY DEF Ask
<1>5. r.batch = NoEvents \/ (harness.present /\ r.batch = EventsAfter(harness, store.cursor))
  BY <1>2, <1>3 DEF Answers, NoReply
<1>6. CASE r.batch = NoEvents
  <2>1. PumpBringsNext'
    BY <1>3, <1>6 DEF PumpBringsNext
  <2> QED BY <1>4, <2>1 DEF ChatParts, StoredToCursor, MarksAreCurrent
<1>7. CASE r.batch # NoEvents
  <2>1. /\ harness.present
        /\ r.batch = [life |-> harness.life, lo |-> Larger(store.cursor, Evicted(harness)),
                      hi |-> harness.seq]
    BY <1>5, <1>7 DEF EventsAfter
  <2>2. /\ r.batch.life = harness.life /\ r.batch.hi = harness.seq
        /\ r.batch.lo = Larger(store.cursor, Evicted(harness))
    BY <2>1
  <2>3. /\ harness.seq \in Nat /\ Larger(store.cursor, Evicted(harness)) \in Nat
    BY <1>1, BoundsAssumption DEF HarnessOK, Harness, StoreOK, Store, Evicted, Larger
  <2>4. PumpBringsNext'
    BY <1>3, <1>4, <2>1, <2>2, <2>3 DEF PumpBringsNext
  <2> QED BY <1>4, <2>4 DEF ChatParts, StoredToCursor, MarksAreCurrent
<1> QED BY <1>6, <1>7

\* Ingesting it stores what the harness holds up to the new cursor.
LEMMA IngestKeeps ==
    ASSUME LogInv, kind = "chat", ChatParts, Ingest(Pump)
    PROVE  ChatParts'
<1> DEFINE r == poller[Pump].reply
<1>1. HarnessOK /\ StoreOK /\ PollersOK /\ PumpIsNext /\ Pump \in Pollers
  BY PartsOfEventsInv DEF LogInv, Pollers
<1>2. r \in Reply /\ store' = Ingested(r) /\ UNCHANGED <<harness, turn>>
  BY <1>1 DEF Ingest, PollersOK, Poller
<1>3. PumpBringsNext'
  BY <1>1 DEF Ingest, PumpBringsNext, PollersOK, IdlePoller, NoReply
<1>4. CASE r.batch = NoEvents \/ r.answer # "session"
  <2>1. RowsStay
    BY <1>1, <1>2, <1>4, NothingIngested, NothingTranscribed DEF RowsStay
  <2> QED BY <1>2, <1>3, <2>1 DEF ChatParts, StoredToCursor, MarksAreCurrent, RowsStay
<1>5. CASE r.batch # NoEvents /\ r.answer = "session"
  <2>1. /\ harness.present /\ r.batch.life = harness.life /\ r.batch.hi <= harness.seq
        /\ r.batch.lo <= Larger(store.cursor, Evicted(harness))
        /\ store.cursor <= r.batch.lo
    BY <1>1, <1>5 DEF ChatParts, PumpBringsNext, PumpIsNext
  <2>2. /\ r.batch.lo \in Nat /\ r.batch.hi \in Nat /\ store.cursor \in Nat
        /\ harness.seq \in Nat /\ Evicted(harness) \in Nat
    BY <1>1, <1>2, BoundsAssumption
       DEF Reply, Batch, StoreOK, Store, HarnessOK, Harness, Evicted, Larger
  <2>3. /\ store'.cursor = Larger(r.batch.hi, store.cursor)
        /\ store'.log = [q \in Seqs |-> IF q \in Rows(r) /\ store.log[q] = 0
                                        THEN r.batch.life ELSE store.log[q]]
        /\ store'.transcript = [q \in Seqs |-> IF q \in Rows(r)
                                               THEN r.batch.life ELSE store.transcript[q]]
    BY <1>2, <1>5 DEF Ingested
  <2>4. ASSUME NEW q \in Seqs, q > store.cursor PROVE store.log[q] = 0
    BY <1>1, <2>2, <2>4, BoundsAssumption DEF StoreOK, LastRow, Seqs
  <2>5. \A q \in Rows(r) : store.log[q] = 0
    BY <2>1, <2>2, <2>4, BoundsAssumption DEF Rows, Seqs
  <2>6. store'.transcript = store'.log
    <3>1. store.transcript = store.log
      BY DEF ChatParts
    <3> HIDE DEF r
    <3> QED BY <2>3, <2>5, <3>1
  <2>7. store'.cursor <= harness.seq
    BY <2>1, <2>2, <2>3 DEF ChatParts, Larger
  <2>8. StoredToCursor'
    <3> SUFFICES ASSUME NEW q \in Seqs, Evicted(harness) < q, q <= store'.cursor
                 PROVE  store'.log[q] = harness.life
      BY <1>2 DEF StoredToCursor
    <3>0. q \in Nat
      BY BoundsAssumption DEF Seqs
    <3>1. CASE q <= store.cursor
      <4>1. q \notin Rows(r)
        BY <3>0, <3>1, <2>1, <2>2 DEF Rows
      <4>2. store.log[q] = harness.life
        BY <3>1, <2>1 DEF ChatParts, StoredToCursor
      <4> QED BY <2>3, <4>1, <4>2
    <3>2. CASE q > store.cursor
      <4>1. q \in Rows(r)
        BY <3>0, <3>2, <2>1, <2>2, <2>3 DEF Rows, Larger
      <4> QED BY <2>1, <2>3, <2>5, <4>1
    <3> QED BY <3>0, <3>1, <3>2, <2>2
  <2> QED BY <1>2, <1>3, <2>1, <2>6, <2>7, <2>8 DEF ChatParts
<1> QED BY <1>4, <1>5

-----------------------------------------------------------------------------
\* ---- The theorem ----

\* Every step of a chat keeps what its cursor means.
LEMMA ChatNext ==
    ASSUME OnlyPump, LogInv, kind = "chat", ChatParts, [Next]_vars
    PROVE  ChatParts'
<1>1. PollersOK /\ TurnsOK
  BY PartsOfEventsInv DEF LogInv
<1>2. ASSUME UNCHANGED <<store, harness, turn>>, poller'[Pump].reply = poller[Pump].reply
      PROVE  ChatParts'
  BY <1>2, StillStep DEF RowsStay, MarksStay
<1>3. CASE UNCHANGED vars
  BY <1>2, <1>3 DEF vars
<1>4. CASE List
  <2>1. poller'[Pump].reply = poller[Pump].reply
    BY <1>1, <1>4 DEF List, PollersOK, Poller, Pollers
  <2> QED BY <1>2, <1>4, <2>1 DEF List
<1>5. ASSUME NEW s \in Streams, StreamStep(s) PROVE ChatParts'
  BY <1>2, <1>5 DEF StreamStep, Connect, Deliver, Quiet, Disconnect
<1>6. ASSUME NEW t \in Turns, TurnStep(t) PROVE ChatParts'
  BY <1>6, SendersKeep, SendKeeps
<1>7. ~PiStarts /\ ~Exit
  BY DEF PiStarts, Exit
<1>8. ~NodeRestart
  <2>1. kind \in Kinds
    BY PartsOfEventsInv DEF LogInv, RestOK
  <2> QED BY <2>1, KindsAssumption DEF NodeRestart
<1>9. Callers = {} /\ Pollers = {Pump}
  BY DEF OnlyPump, Pollers
<1> QED BY <1>3, <1>4, <1>5, <1>6, <1>7, <1>8, <1>9, EmittingKeeps, RestartKeeps, AskKeeps,
           IngestKeeps DEF Next

\* A session keeps its kind of harness.
LEMMA KindStays == [Next]_vars => kind' = kind
BY DEF Next, vars, Emit, PiStarts, Settle, Exit, NodeRestart, List, Call, Ask, Ingest, TurnStep,
       Read, Save, Send, Control, Refuse, StartFails, Respond, LoseResponse, Accept, Poll, Follow,
       StreamStep, Connect, Deliver, Quiet, Disconnect, Restart

\* The cursor of a chat means that everything up to it is stored: inductive beside LogInv.
THEOREM ChatHolds == ASSUME OnlyPump PROVE Spec => []ChatInv
<1>1. Init => ChatInv
  <2> SUFFICES ASSUME Init PROVE LogInv /\ ChatParts
    BY DEF ChatInv
  <2>1. LogInv
    BY LogInitIsSound
  <2>2. ChatParts
    BY DEF Init, ChatParts, MarksAreCurrent, PumpBringsNext, IdleTurn, IdlePoller, NoReply, Pollers
  <2> QED BY <2>1, <2>2
<1>2. ChatInv /\ [Next]_vars => ChatInv'
  BY ChatNext, KindStays, LogInvIsInductive DEF ChatInv
<1> QED BY <1>1, <1>2, PTL DEF Spec

\* Whatever restarts, a chat's transcript tells the same as its log, and what the pump never
\* asks for again is stored.
THEOREM ChatsArePersisted == ASSUME OnlyPump PROVE Spec => []ChatIsPersisted
<1>1. ChatInv => ChatIsPersisted
  BY DEF ChatInv, ChatParts, StoredToCursor, ChatIsPersisted
<1> QED BY <1>1, ChatHolds, PTL
=============================================================================
