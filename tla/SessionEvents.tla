---------------------------- MODULE SessionEvents ----------------------------
(***************************************************************************)
(* How the events of one agent session get from its harness to the         *)
(* controller's database and to the browsers that watch it:                *)
(* controller/src/agent/sessions/coordinator.zig and control_store.zig,    *)
(* over the event ring of controller/src/agent/harness/runtime.zig.        *)
(*                                                                         *)
(* The harness numbers its events and keeps the last Window of them in     *)
(* memory.  A pump lists the sessions whose stored status says a turn is   *)
(* under way and asks the harness for what follows the stored cursor;      *)
(* turn handlers, completion waits and the status endpoint ingest replies  *)
(* of the harness too.  Each reads under one lock, waits, and writes under *)
(* another.  Browsers read the database.                                   *)
(*                                                                         *)
(* An event is named by its number and the life of the harness session     *)
(* that emitted it: what it says is left out, except that a batch may hold *)
(* an error and may end in a wait.                                         *)
(***************************************************************************)
EXTENDS Naturals

CONSTANTS
    Turns,        \* HTTP handlers and services that send prompts
    Callers,      \* requests for the session's status
    Streams,      \* browsers that follow the session
    Kinds,        \* the kinds of harness the session may be on
    Remote,       \* TRUE: the harness runs on a node, FALSE: in the controller
    Waits,        \* TRUE: some senders wait for the run to complete
    Window,       \* events a harness session keeps: 4000 in the code
    MaxSeq,       \* bound: event numbers
    MaxLives,     \* bound: harness sessions started for the session
    MaxRestarts   \* bound: restarts of the controller

Pump == "pump"
ASSUME KindsAssumption == /\ Kinds \subseteq {"chat", "fx", "codex", "pi"}
                          /\ Remote => "chat" \notin Kinds
ASSUME BoundsAssumption == /\ Window \in Nat /\ MaxSeq \in Nat /\ MaxLives \in Nat
                           /\ MaxRestarts \in Nat
ASSUME SwitchAssumption == Remote \in BOOLEAN /\ Waits \in BOOLEAN
ASSUME PumpAssumption == Pump \notin Callers

VARIABLES
    kind,       \* agent_sessions.harness, fixed for the session's life
    store,      \* the session's row and its rows in agent_events and the transcript
    harness,    \* the Session of harness/runtime.zig
    poller,     \* the event pump, and each request for the status
    turn,       \* each sender of prompts
    stream,     \* each browser's event stream
    restarts    \* how often the controller restarted

vars == <<kind, store, harness, poller, turn, stream, restarts>>

Seqs == 1..MaxSeq
Lives == 0..MaxLives
NoRows == [q \in Seqs |-> 0]
Larger(a, b) == IF a > b THEN a ELSE b
Pollers == Callers \cup {Pump}

\* "waiting" stands for the code's waiting and retrying; nothing writes queued.
Listed == {"running", "waiting"}
Phases == Listed \cup {"idle", "stopped", "failed"}
Statuses == Phases \cup {"none", "starting", "interrupted", "unavailable"}

\* What the harness answers: a phase and the events lo + 1 .. hi of a life; or
\* nothing, because it knows no such session, or because the call failed.
Batch == [life : Lives, lo : 0..MaxSeq, hi : 0..MaxSeq]
NoEvents == [life |-> 0, lo |-> 0, hi |-> 0]
Reply == [answer : {"session", "missing", "failure"}, phase : Phases, batch : Batch]
NoReply == [answer |-> "failure", phase |-> "idle", batch |-> NoEvents]

Store == [status : Statuses, cursor : 0..MaxSeq,
          log : [Seqs -> Lives], transcript : [Seqs -> Lives]]
Harness == [present : BOOLEAN, life : Lives, first : 0..MaxSeq, seq : 0..MaxSeq,
            running : BOOLEAN, active : BOOLEAN, failed : BOOLEAN]
Poller == [pc : {"idle", "ask", "answered"}, after : 0..MaxSeq, reply : Reply]
Turn == [pc : {"idle", "read", "saved", "sent", "answered", "wait", "polled"},
         mark : 0..MaxSeq, reply : Reply]
Stream == [open : BOOLEAN, quiet : BOOLEAN, at : 0..MaxSeq, got : [Seqs -> Lives]]

IdlePoller == [pc |-> "idle", after |-> 0, reply |-> NoReply]
IdleTurn == [pc |-> "idle", mark |-> 0, reply |-> NoReply]

TypeOK ==
    /\ kind \in Kinds
    /\ store \in Store
    /\ harness \in Harness
    /\ poller \in [Pollers -> Poller]
    /\ turn \in [Turns -> Turn]
    /\ stream \in [Streams -> Stream]
    /\ restarts \in 0..MaxRestarts

Init ==
    /\ kind \in Kinds
    /\ store = [status |-> "none", cursor |-> 0, log |-> NoRows, transcript |-> NoRows]
    /\ harness = [present |-> FALSE, life |-> 0, first |-> 0, seq |-> 0,
                  running |-> FALSE, active |-> FALSE, failed |-> FALSE]
    /\ poller = [p \in Pollers |-> IdlePoller]
    /\ turn = [t \in Turns |-> IdleTurn]
    /\ stream = [s \in Streams |-> [open |-> FALSE, quiet |-> FALSE, at |-> 0, got |-> NoRows]]
    /\ restarts = 0

-----------------------------------------------------------------------------
\* ---- The harness session ----

\* The events the ring still holds start after this number.
Evicted(h) == Larger(h.first, IF h.seq > Window THEN h.seq - Window ELSE 0)

\* Mutant: every new session numbers from 1.
Renumbered(h, seen) ==
    LET base == IF h.present /\ (h.running \/ kind = "codex") THEN h
                ELSE [h EXCEPT !.present = TRUE, !.life = @ + 1, !.first = 0, !.seq = 0,
                               !.active = FALSE, !.failed = FALSE]
    IN  [base EXCEPT !.running = TRUE, !.active = @ \/ kind # "pi",
                     !.failed = @ /\ kind # "codex"]
\* A prompt restarts a session whose process ended.  All harnesses number on
\* from the cursor the handler read, except pi, which numbers from 1; codex and
\* claude keep the session and run the next process in it.
Reused(h) == h.present /\ (h.running \/ kind = "codex")
Prompted(h, seen) ==
    LET from == IF kind = "pi" THEN 0 ELSE seen
        base == IF Reused(h) THEN h
                ELSE [h EXCEPT !.present = TRUE, !.life = @ + 1, !.first = from,
                               !.seq = from, !.active = FALSE, !.failed = FALSE]
    IN  [base EXCEPT !.running = TRUE,
                     !.active = @ \/ kind # "pi",
                     !.failed = @ /\ kind # "codex"]

\* Only pi queues a prompt behind a running turn; codex and claude also want
\* the process of the last turn gone.
Accepts(h) == \/ kind = "pi"
              \/ ~h.present
              \/ ~h.active /\ (kind = "codex" => ~h.running)

\* Any line of the process is an event; the embedded chat emits within a turn.
Emit ==
    /\ harness.running /\ harness.seq < MaxSeq
    /\ kind = "chat" => harness.active
    /\ harness' = [harness EXCEPT !.seq = @ + 1]
    /\ UNCHANGED <<kind, store, poller, turn, stream, restarts>>

\* pi says when a turn starts, after it acknowledged the prompt.
PiStarts ==
    /\ kind = "pi" /\ harness.running /\ ~harness.active /\ harness.seq < MaxSeq
    /\ harness' = [harness EXCEPT !.seq = @ + 1, !.active = TRUE]
    /\ UNCHANGED <<kind, store, poller, turn, stream, restarts>>

\* The event that ends a turn.  An ACP harness (fx, opencode) records the error
\* of a failed turn, and clears it when a turn succeeds.
Settle ==
    /\ harness.active /\ harness.seq < MaxSeq
    /\ \E failed \in (IF kind = "fx" THEN BOOLEAN ELSE {harness.failed}) :
          harness' = [harness EXCEPT !.seq = @ + 1, !.active = FALSE, !.failed = failed]
    /\ UNCHANGED <<kind, store, poller, turn, stream, restarts>>

\* The process ends, cleanly or not: the embedded chat has none.
Exit ==
    /\ kind # "chat" /\ harness.running
    /\ \E failed \in {harness.failed, TRUE} :
          harness' = [harness EXCEPT !.running = FALSE, !.active = FALSE, !.failed = failed]
    /\ UNCHANGED <<kind, store, poller, turn, stream, restarts>>

Lost(h) == [h EXCEPT !.present = FALSE, !.running = FALSE, !.active = FALSE]

NodeRestart ==
    /\ Remote /\ harness.present
    /\ harness' = Lost(harness)
    /\ UNCHANGED <<kind, store, poller, turn, stream, restarts>>

-----------------------------------------------------------------------------
\* ---- Asking the harness, and ingesting its answer ----

Rows(r) == {q \in Seqs : r.batch.lo < q /\ q <= r.batch.hi}

\* Mutant: one event more than the ring holds.
OneTooMany(h, after) ==
    LET lo == Larger(after, Evicted(h))
    IN  IF lo < h.seq THEN [life |-> h.life, lo |-> lo, hi |-> h.seq + 1] ELSE NoEvents
\* The events the harness holds after a number.
EventsAfter(h, after) ==
    LET lo == Larger(after, Evicted(h))
    IN  IF lo < h.seq THEN [life |-> h.life, lo |-> lo, hi |-> h.seq] ELSE NoEvents

\* runtimePhase: a recorded error wins, then an error among the events, then a
\* wait or a retry as the last of them (ACP only), then what the session says.
\* Only pi reports errors within a turn that goes on.
PhasesOf(h, some) ==
    IF h.failed THEN {"failed"}
    ELSE {IF h.active THEN "running" ELSE IF h.running THEN "idle" ELSE "stopped"}
         \cup {phase \in {"failed"} : some /\ (h.active => kind = "pi")}
         \cup {phase \in {"waiting"} : some /\ kind = "fx"}

\* What the harness answers to a request for the events after a number.
Answers(after) ==
    (IF Remote THEN {NoReply} ELSE {})
    \cup IF harness.present
         THEN LET batch == EventsAfter(harness, after)
              IN  [answer : {"session"}, phase : PhasesOf(harness, batch # NoEvents),
                   batch : {batch}]
         ELSE {[NoReply EXCEPT !.answer = "missing"]}

\* Mutants: a failed phase returns before the transcript is written; the cursor
\* follows the batch instead of the highest number stored.
IngestedUnlessFailed(r) ==
    IF r.answer # "session" THEN [store EXCEPT !.status = "unavailable"]
    ELSE [status |-> r.phase, cursor |-> Larger(r.batch.hi, store.cursor),
          log |-> [q \in Seqs |-> IF q \in Rows(r) /\ store.log[q] = 0
                                  THEN r.batch.life ELSE store.log[q]],
          transcript |-> [q \in Seqs |-> IF q \in Rows(r) /\ r.phase # "failed"
                                         THEN r.batch.life ELSE store.transcript[q]]]
IngestedToBatch(r) ==
    IF r.answer # "session" THEN [store EXCEPT !.status = "unavailable"]
    ELSE [store EXCEPT !.status = r.phase,
             !.cursor = IF Rows(r) = {} THEN @ ELSE r.batch.hi,
             !.log = [q \in Seqs |-> IF q \in Rows(r) /\ @[q] = 0 THEN r.batch.life ELSE @[q]]]
\* ingestRuntimeDocument, or the status written when there is nothing to
\* ingest.  A row of agent_events is never replaced, one of the transcript is.
Ingested(r) ==
    CASE r.answer = "session" ->
           [status |-> r.phase,
            cursor |-> Larger(r.batch.hi, store.cursor),
            log |-> [q \in Seqs |-> IF q \in Rows(r) /\ store.log[q] = 0
                                    THEN r.batch.life ELSE store.log[q]],
            transcript |-> [q \in Seqs |-> IF q \in Rows(r)
                                           THEN r.batch.life ELSE store.transcript[q]]]
      [] r.answer = "missing" -> [store EXCEPT !.status = "interrupted"]
      [] OTHER -> [store EXCEPT !.status = "unavailable"]

-----------------------------------------------------------------------------
\* ---- The event pump and the status endpoint ----

\* Mutant: the pump asks for what follows the next event.
ListPastNext ==
    /\ poller[Pump].pc = "idle" /\ store.status \in Listed
    /\ poller' = [poller EXCEPT ![Pump].pc = "ask",
                               ![Pump].after = IF store.cursor < MaxSeq THEN store.cursor + 1
                                               ELSE store.cursor]
    /\ UNCHANGED <<kind, store, harness, turn, stream, restarts>>
\* The pump lists the session with the cursor it is to continue from.
List ==
    /\ poller[Pump].pc = "idle" /\ store.status \in Listed
    /\ poller' = [poller EXCEPT ![Pump].pc = "ask", ![Pump].after = store.cursor]
    /\ UNCHANGED <<kind, store, harness, turn, stream, restarts>>

\* The browser asks for everything.
Call(c) ==
    /\ poller[c].pc = "idle" /\ store.status # "none"
    /\ poller' = [poller EXCEPT ![c].pc = "ask", ![c].after = 0]
    /\ UNCHANGED <<kind, store, harness, turn, stream, restarts>>

Ask(p) ==
    /\ poller[p].pc = "ask"
    /\ \E r \in Answers(poller[p].after) :
          poller' = [poller EXCEPT ![p] = [pc |-> "answered", after |-> 0, reply |-> r]]
    /\ UNCHANGED <<kind, store, harness, turn, stream, restarts>>

Ingest(p) ==
    /\ poller[p].pc = "answered"
    /\ store' = Ingested(poller[p].reply)
    /\ poller' = [poller EXCEPT ![p] = IdlePoller]
    /\ UNCHANGED <<kind, harness, turn, stream, restarts>>

-----------------------------------------------------------------------------
\* ---- A turn ----

Read(t) ==
    /\ turn[t].pc = "idle"
    /\ turn' = [turn EXCEPT ![t].pc = "read", ![t].mark = store.cursor]
    /\ UNCHANGED <<kind, store, harness, poller, stream, restarts>>

\* Mutant: the row is saved with the cursor the handler read.
SaveStale(t) ==
    /\ turn[t].pc = "read"
    /\ store' = [store EXCEPT !.status = "starting", !.cursor = turn[t].mark]
    /\ turn' = [turn EXCEPT ![t].pc = "saved"]
    /\ UNCHANGED <<kind, harness, poller, stream, restarts>>
Save(t) ==
    /\ turn[t].pc = "read"
    /\ store' = [store EXCEPT !.status = "starting", !.cursor = Larger(turn[t].mark, @)]
    /\ turn' = [turn EXCEPT ![t].pc = "saved"]
    /\ UNCHANGED <<kind, harness, poller, stream, restarts>>

Send(t) ==
    /\ turn[t].pc = "saved"
    /\ Accepts(harness)
    /\ Reused(harness) \/ harness.life < MaxLives
    /\ harness' = Prompted(harness, turn[t].mark)
    /\ turn' = [turn EXCEPT ![t] = [IdleTurn EXCEPT !.pc = "sent"]]
    /\ UNCHANGED <<kind, store, poller, stream, restarts>>

\* A steer or follow-up goes to a turn that runs on pi.
Control(t) ==
    /\ turn[t].pc = "saved" /\ kind = "pi" /\ harness.active
    /\ turn' = [turn EXCEPT ![t] = [IdleTurn EXCEPT !.pc = "sent"]]
    /\ UNCHANGED <<kind, store, harness, poller, stream, restarts>>

Answered(t, r, mark) ==
    turn' = [turn EXCEPT ![t] = [pc |-> "answered", mark |-> mark, reply |-> r]]

\* The prompt is refused: the harness is busy, not available, or on another
\* model, or a steer has no turn to go to; or the call does not reach the node.
Refuse(t) ==
    /\ turn[t].pc = "saved"
    /\ Answered(t, NoReply, 0)
    /\ UNCHANGED <<kind, store, harness, poller, stream, restarts>>

\* A session whose process ended is dropped before the next process is started,
\* which fails.
StartFails(t) ==
    /\ turn[t].pc = "saved" /\ kind \in {"pi", "fx"} /\ harness.present /\ ~harness.running
    /\ harness' = Lost(harness)
    /\ Answered(t, NoReply, 0)
    /\ UNCHANGED <<kind, store, poller, stream, restarts>>

\* turnResponse: the state of the session without its events.
Respond(t) ==
    /\ turn[t].pc = "sent" /\ harness.present
    /\ \E phase \in PhasesOf(harness, FALSE) :
          Answered(t, [answer |-> "session", phase |-> phase, batch |-> NoEvents], harness.seq)
    /\ UNCHANGED <<kind, store, harness, poller, stream, restarts>>

\* The answer is lost with the node or on the way, pi does not acknowledge, or an
\* ACP harness exits before the prompt is written to it.
LoseResponse(t) ==
    /\ turn[t].pc = "sent"
    /\ Remote \/ kind = "pi" \/ (kind = "fx" /\ ~harness.running)
    /\ Answered(t, NoReply, 0)
    /\ UNCHANGED <<kind, store, harness, poller, stream, restarts>>

Waiting(mark) == [pc |-> "wait", mark |-> mark, reply |-> NoReply]

\* The sender is done, or waits for what the harness numbers after the answer.
Accept(t) ==
    /\ turn[t].pc = "answered"
    /\ store' = Ingested(turn[t].reply)
    /\ \/ turn' = [turn EXCEPT ![t] = IdleTurn]
       \/ /\ Waits /\ turn[t].reply.answer = "session"
          /\ turn' = [turn EXCEPT ![t] = Waiting(turn[t].mark)]
    /\ UNCHANGED <<kind, harness, poller, stream, restarts>>

\* ---- Waiting for a run to complete ----

Poll(t) ==
    /\ turn[t].pc = "wait"
    /\ \E r \in Answers(turn[t].mark) :
          turn' = [turn EXCEPT ![t].pc = "polled", ![t].reply = r]
    /\ UNCHANGED <<kind, store, harness, poller, stream, restarts>>

\* How far the wait has read: events of the harness, or rows of the database
\* when the harness gave none.  It ends at a settled turn, an error or a timeout.
Followed(t) ==
    LET r == turn[t].reply
        rows == IF r.answer = "session" THEN Rows(r)
                ELSE {q \in Seqs : q > turn[t].mark /\ store.log[q] # 0}
    IN  IF rows = {} THEN {turn[t].mark} ELSE {top \in rows : \A q \in rows : q <= top}

Follow(t) ==
    /\ turn[t].pc = "polled"
    /\ store' = Ingested(turn[t].reply)
    /\ \/ turn' = [turn EXCEPT ![t] = IdleTurn]
       \/ \E mark \in Followed(t) : turn' = [turn EXCEPT ![t] = Waiting(mark)]
    /\ UNCHANGED <<kind, harness, poller, stream, restarts>>

-----------------------------------------------------------------------------
\* ---- Browsers ----

\* Mutants: a browser starts over when it reconnects; the query is off by one.
ConnectAfresh(s) ==
    /\ ~stream[s].open /\ store.status # "none"
    /\ stream' = [stream EXCEPT ![s].open = TRUE, ![s].quiet = FALSE, ![s].at = 0]
    /\ UNCHANGED <<kind, store, harness, poller, turn, restarts>>
NewsPastNext(s) == {q \in Seqs : q > stream[s].at + 1 /\ store.log[q] # 0}
DeliverPastNext(s) ==
    /\ stream[s].open
    /\ \E top \in {q \in Seqs : q > stream[s].at /\ store.log[q] # 0} :
          /\ \A q \in Seqs : store.log[q] # 0 => q <= top
          /\ stream' = [stream EXCEPT ![s] =
                [open |-> TRUE, quiet |-> FALSE, at |-> top,
                 got |-> [q \in Seqs |-> IF q > @.at + 1 THEN store.log[q] ELSE @.got[q]]]]
    /\ UNCHANGED <<kind, store, harness, poller, turn, restarts>>
\* A browser connects, or connects again from the last number it received.
Connect(s) ==
    /\ ~stream[s].open /\ store.status # "none"
    /\ stream' = [stream EXCEPT ![s].open = TRUE, ![s].quiet = FALSE]
    /\ UNCHANGED <<kind, store, harness, poller, turn, restarts>>

News(s) == {q \in Seqs : q > stream[s].at /\ store.log[q] # 0}

Deliver(s) ==
    /\ stream[s].open
    /\ \E top \in News(s) :
          /\ \A q \in News(s) : q <= top
          /\ stream' = [stream EXCEPT ![s] =
                [open |-> TRUE, quiet |-> FALSE, at |-> top,
                 got |-> [q \in Seqs |-> IF q > @.at THEN store.log[q] ELSE @.got[q]]]]
    /\ UNCHANGED <<kind, store, harness, poller, turn, restarts>>

\* A second round without news ends the stream of a session that is not listed.
Quiet(s) ==
    /\ stream[s].open /\ News(s) = {}
    /\ IF stream[s].quiet /\ store.status \notin Listed
       THEN stream' = [stream EXCEPT ![s].open = FALSE, ![s].quiet = FALSE]
       ELSE stream' = [stream EXCEPT ![s].quiet = TRUE]
    /\ UNCHANGED <<kind, store, harness, poller, turn, restarts>>

Disconnect(s) ==
    /\ stream[s].open
    /\ stream' = [stream EXCEPT ![s].open = FALSE, ![s].quiet = FALSE]
    /\ UNCHANGED <<kind, store, harness, poller, turn, restarts>>

-----------------------------------------------------------------------------
\* The controller stops at any point and starts again with the database, and
\* without the harness sessions it ran itself.
Restart ==
    /\ restarts < MaxRestarts
    /\ restarts' = restarts + 1
    /\ harness' = IF Remote THEN harness ELSE Lost(harness)
    /\ poller' = [p \in Pollers |-> IdlePoller]
    /\ turn' = [t \in Turns |-> IdleTurn]
    /\ stream' = [s \in Streams |-> [stream[s] EXCEPT !.open = FALSE, !.quiet = FALSE]]
    /\ UNCHANGED <<kind, store>>

TurnStep(t) == \/ Read(t) \/ Save(t) \/ Send(t) \/ Control(t) \/ Refuse(t) \/ StartFails(t)
               \/ Respond(t) \/ LoseResponse(t) \/ Accept(t) \/ Poll(t) \/ Follow(t)
StreamStep(s) == Connect(s) \/ Deliver(s) \/ Quiet(s) \/ Disconnect(s)

Next ==
    \/ Emit \/ PiStarts \/ Settle \/ Exit \/ NodeRestart
    \/ List
    \/ \E c \in Callers : Call(c)
    \/ \E p \in Pollers : Ask(p) \/ Ingest(p)
    \/ \E t \in Turns : TurnStep(t)
    \/ \E s \in Streams : StreamStep(s)
    \/ Restart

Spec == Init /\ [][Next]_vars

\* The pump never stops polling; an open stream never stops reading.
FairSpec ==
    /\ Spec
    /\ WF_vars(List) /\ WF_vars(Ask(Pump)) /\ WF_vars(Ingest(Pump))
    /\ \A s \in Streams : WF_vars(Deliver(s)) /\ WF_vars(Quiet(s))

-----------------------------------------------------------------------------
\* ---- Correctness ----

\* The stored cursor is the number of the last event stored, whoever moved it.
LastRow(st) ==
    /\ \A q \in Seqs : st.log[q] # 0 => q <= st.cursor
    /\ st.cursor > 0 => st.log[st.cursor] # 0
CursorIsLastRow == LastRow(store)

\* An event that has been stored is never replaced or removed, and the cursor
\* from which the harness is polled never goes back.
StoredIsFinal ==
    [][ /\ store.cursor <= store'.cursor
        /\ \A q \in Seqs : store.log[q] # 0 => store'.log[q] = store.log[q] ]_vars

\* In the embedded chat the cursor means "everything up to here is stored" (the pump never
\* asks for an event at or below it), and the transcript, which is overwritten, tells the same
\* as the log, which is not: whatever restarts, as long as nobody waits for completion, a new
\* session numbers on from a cursor no reply in flight moves.
ChatIsPersisted == kind = "chat" =>
    /\ store.transcript = store.log
    /\ \A q \in Seqs :
          (/\ harness.present /\ Evicted(harness) < q /\ q <= harness.seq
           /\ q <= store.cursor) => store.log[q] = harness.life

\* A browser has received what the log holds up to its position.
Log == INSTANCE EventLog WITH
    Readers <- Streams, log <- store.log,
    at <- [s \in Streams |-> stream[s].at], got <- [s \in Streams |-> stream[s].got]
LogSpec == Log!Spec
ReadersMissNothing == Log!ReadersMissNothing

\* An event the harness holds is stored while its session is listed.
ListedIsDrained ==
    \A q \in Seqs, life \in 1..MaxLives :
        (/\ harness.present /\ harness.life = life /\ Evicted(harness) < q /\ q <= harness.seq
         /\ store.status \in Listed)
        ~> (\/ store.log[q] # 0 \/ store.status \notin Listed
            \/ ~harness.present \/ harness.life # life \/ q <= Evicted(harness))

\* A stored event reaches every browser that stays connected.
StoredIsDelivered ==
    \A s \in Streams, q \in Seqs :
        (stream[s].open /\ store.log[q] # 0) ~> (q <= stream[s].at \/ ~stream[s].open)
=============================================================================
