---------------------------- MODULE SessionClient ----------------------------
(***************************************************************************)
(* The browser's view of one agent session: the live event stream, the     *)
(* cursor that orders it, and the status the session is shown with         *)
(* (frontend/src/features/agent/runtime: session-runtime-controller.ts,    *)
(* runtime-cursor.ts, effect-coalescer.ts, session-status.ts, the requests *)
(* of engine.ts and prompt-stream.ts, and the React binding in             *)
(* ui/use-workspace-effects.ts).                                           *)
(*                                                                         *)
(* The session is written by its event stream, by a poll of the runtime    *)
(* list, by liveness probes, and by the answers to the user's requests;    *)
(* each of them reads the server and is applied some time later.  The      *)
(* server is external: a log of numbered events per life of the runtime,   *)
(* and whether a turn is under way.  An event is <<life, number>>; its     *)
(* text is left out, its kind says whether the coalescer may hold it.      *)
(***************************************************************************)
EXTENDS Naturals, Sequences, FiniteSets

CONSTANTS
    Kinds,        \* kinds of event: "text" and "thinking" deltas merge, an "update" waits for
                  \* the frame by itself, a "block" is applied at once
    MaxSeq,       \* bound: events of one life of the runtime
    MaxLives,     \* bound: lives of the runtime (each numbers its events from 1)
    Budgets       \* bound: how often each of Chances happens, one choice for a behaviour

ASSUME KindsAssumption == Kinds \subseteq {"text", "thinking", "update", "block"}
ASSUME BoundsAssumption == MaxSeq \in Nat /\ MaxLives \in Nat \ {0}

\* What the user, the server and the network do of their own accord
Chances == {"prompt", "steer", "abort", "run", "load", "break", "restart", "reload"}
ASSUME BudgetsAssumption == Budgets \subseteq [Chances -> Nat]

VARIABLES
    server,   \* external: the runtime behind /api/agent
    client,   \* the Session record and the controller's maps for it
    att,      \* the SSE attachment (openAttachment)
    poll,     \* the fetch of the runtime list that may still be applied
    turn,     \* the prompt and the steer under way
    load,     \* loadAndReplay under way
    abort,    \* abortTurn under way
    left,     \* what remains of the budget
    lapse     \* history: why the transcript need not equal the log

vars == <<server, client, att, poll, turn, load, abort, left, lapse>>

Seqs == 1..MaxSeq
Lives == 1..MaxLives
Events == Lives \X Seqs
Statuses == {"idle", "starting", "running", "stopping", "loading"}
Merging == {"text", "thinking"}
Held == Merging \cup {"update"}
Larger(a, b) == IF a > b THEN a ELSE b
Last == Len(server.log)
Log(n) == {<<server.life, q>> : q \in 1..n}

\* A cursor that is undefined compares as 0 wherever it is read, and so does a missing one.
NoAttachment == [on |-> FALSE, key |-> 0, pi |-> FALSE, link |-> "closed", after |-> 0,
                 pos |-> 0, end |-> 0, timer |-> FALSE, probe |-> "none"]
NoPoll == [st |-> "none", active |-> FALSE, key |-> 0,
           mayIdle |-> FALSE, mayPromote |-> FALSE]
NoTurn == [st |-> "none", seq |-> 0]
NoLoad == [st |-> "none", canon |-> 0, active |-> FALSE, seq |-> 0, need |-> {}]

Spend(chance) == left[chance] > 0 /\ left' = [left EXCEPT ![chance] = @ - 1]

TypeOK ==
    /\ server \in [life : Lives, key : Lives, log : Seq(Kinds \cup {"settled"}),
                   active : BOOLEAN, settled : BOOLEAN]
    /\ client \in [status : Statuses, pi : BOOLEAN, lastSeq : 0..MaxSeq,
                   shown : [Events -> 0..2], received : 0..MaxSeq, committed : 0..MaxSeq,
                   pending : SUBSET Events, newest : 0..MaxSeq,
                   kind : Kinds \cup {"none"}, accepted : BOOLEAN,
                   finished : BOOLEAN, key : Lives,
                   seen : [status : Statuses, pi : BOOLEAN]]
    /\ att \in [on : BOOLEAN, key : 0..MaxLives, pi : BOOLEAN,
                link : {"open", "ended", "broken", "closed"}, after : 0..MaxSeq, pos : 0..MaxSeq,
                end : 0..MaxSeq + 1, timer : BOOLEAN,
                probe : {"none", "sent", "active", "idle", "null"}]
    /\ poll \in [st : {"none", "sent", "read"}, active : BOOLEAN, key : 0..MaxLives,
                 mayIdle : BOOLEAN, mayPromote : BOOLEAN]
    /\ turn \in [{"prompt", "steer"} ->
                   [st : {"none", "sent", "answered", "failed", "active", "idle"},
                    seq : 0..MaxSeq]]
    /\ load \in [st : {"none", "reading"}, canon : 0..MaxSeq, active : BOOLEAN,
                 seq : 0..MaxSeq, need : SUBSET {"canon", "status", "failed", "null"}]
    /\ abort \in {"none", "sent", "answered"}
    /\ left \in [Chances -> Nat]
    /\ lapse \subseteq {"overtaken", "reload", "reads", "restart", "rewind"}

\* The restored or fresh session of a page that just mounted.
Mounted(pi, seq) ==
    [status |-> "idle", pi |-> pi, lastSeq |-> seq, shown |-> [e \in Events |-> 0],
     received |-> 0, committed |-> 0, pending |-> {}, newest |-> 0, kind |-> "none",
     accepted |-> FALSE,
     finished |-> FALSE, key |-> 1, seen |-> [status |-> "idle", pi |-> pi]]

Init ==
    /\ server = [life |-> 1, key |-> 1, log |-> <<>>, active |-> FALSE,
               settled |-> FALSE]
    /\ client = Mounted(FALSE, 0)
    /\ att = NoAttachment
    /\ poll = NoPoll
    /\ turn = [k \in {"prompt", "steer"} |-> NoTurn]
    /\ load = NoLoad
    /\ abort = "none"
    /\ left \in Budgets
    /\ lapse = {}

-----------------------------------------------------------------------------
(* The session and the cursors: what the commits of the controller do.     *)

\* applyEvent: the effects and the cursor land in one commit.
Apply(c, es, n) ==
    [c EXCEPT !.shown = [e \in Events |-> IF e \in es /\ @[e] < 2 THEN @[e] + 1 ELSE @[e]],
              !.lastSeq = Larger(@, n),
              !.committed = Larger(@, n)]

\* coalescer.flushNow and coalescer.discard
Discard(c) == [c EXCEPT !.pending = {}, !.newest = 0, !.kind = "none"]
Flush(c) == IF c.pending = {} THEN c ELSE Discard(Apply(c, c.pending, c.newest))

\* Mutant: an event that cannot be held overtakes the one that is.
EnqueueUnordered(c, e, k) ==
    IF k \in Held
    THEN LET ready == IF k = c.kind /\ k \in Merging THEN c ELSE Flush(c) IN
         [ready EXCEPT !.pending = @ \cup {e}, !.newest = e[2], !.kind = k]
    ELSE Apply(c, {e}, e[2])

\* Mutant: a delta that cannot merge takes the place of the one that is held.
EnqueueReplaces(c, e, k) ==
    IF k \in Held
    THEN LET ready == IF k = c.kind /\ k \in Merging THEN c ELSE Flush(c) IN
         [ready EXCEPT !.pending = @ \cup {e}, !.newest = e[2], !.kind = k]
    ELSE Apply(Discard(c), {e}, e[2])

\* enqueueEvent: a delta joins the pending one of its kind; anything else flushes that first.
Enqueue(c, e, k) ==
    IF k \in Held
    THEN LET ready == IF k = c.kind /\ k \in Merging THEN c ELSE Flush(c) IN
         [ready EXCEPT !.pending = @ \cup {e}, !.newest = e[2], !.kind = k]
    ELSE Apply(Flush(c), {e}, e[2])

\* Mutant: the cursor moves and the held delta stays.
AdoptKeepsPending(c, n) == [c EXCEPT !.received = n, !.committed = n, !.lastSeq = n]

\* adoptCursor
Adopt(c, n) == [Discard(c) EXCEPT !.received = n, !.committed = n, !.lastSeq = n]

\* settleTurn, and the promotion that leaves a stopping session stopping
SettleTurn(c) == [c EXCEPT !.status = "idle"]
Busy(c) == [c EXCEPT !.status = IF @ = "stopping" THEN @ ELSE "running", !.pi = TRUE]

\* noteTurnAccepted: an answer whose number is below the gate rewinds it.
NoteTurnAccepted(c, n) ==
    [(IF n < c.received THEN Adopt(c, 0) ELSE c) EXCEPT
        !.accepted = TRUE, !.finished = FALSE]

\* A cursor set back to n leaves an open stream where it was: what lies between is lost.
Stranded(n) == /\ att.on
               /\ \/ att.link \in {"open", "ended"} /\ att.pos > n
                  \/ att.link = "broken" /\ att.after > n

\* What a rewind of the gate does to the history: a new life makes it harmless, before
\* anything of it was shown or skipped.
Rewound(skipped) ==
    IF "restart" \in lapse /\ ~skipped
       /\ \A e \in Events : e[1] = server.life => client.shown[e] = 0
    THEN lapse \ {"restart"} ELSE lapse \cup {"overtaken"}

-----------------------------------------------------------------------------
(* The server.                                                             *)

Emit(k) ==
    /\ server.active /\ ~server.settled /\ Last < MaxSeq
    /\ server' = [server EXCEPT !.log = Append(@, k)]
    /\ UNCHANGED <<client, att, poll, turn, load, abort, left, lapse>>

\* The run ends: agent_settled is logged first, the runtime leaves the list later.
EmitSettled ==
    /\ server.active /\ ~server.settled /\ Last < MaxSeq
    /\ server' = [server EXCEPT !.log = Append(@, "settled"), !.settled = TRUE]
    /\ UNCHANGED <<client, att, poll, turn, load, abort, left, lapse>>

GoIdle ==
    /\ server.active
    /\ server' = [server EXCEPT !.active = FALSE]
    /\ UNCHANGED <<client, att, poll, turn, load, abort, left, lapse>>

Started(s) == IF s.active /\ ~s.settled THEN s
              ELSE [s EXCEPT !.active = TRUE, !.settled = FALSE]

\* A goal or an automation starts a turn without this page.
ServerTurn ==
    /\ Spend("run") /\ ~server.active
    /\ server' = Started(server)
    /\ UNCHANGED <<client, att, poll, turn, load, abort, lapse>>

Broken(a) == IF a.link \in {"open", "ended"}
             THEN [a EXCEPT !.link = "broken", !.probe = IF @ = "none" THEN "sent" ELSE @]
             ELSE a

\* The runtime restarts, with its streams, perhaps under another server key; a restart in
\* the middle of a replay is left out.
Restart ==
    /\ server.life < MaxLives /\ load.st = "none" /\ Spend("restart")
    /\ \E k \in {server.key, server.life + 1} :
          server' = [server EXCEPT !.life = @ + 1, !.log = <<>>, !.active = FALSE,
                                     !.settled = FALSE, !.key = k]
    /\ att' = Broken(att)
    /\ lapse' = IF client.received > 0 \/ client.lastSeq > 0 THEN lapse \cup {"restart"} ELSE lapse
    /\ UNCHANGED <<client, poll, turn, load, abort>>

Server ==
    \/ \E k \in Kinds : Emit(k)
    \/ EmitSettled \/ GoIdle \/ ServerTurn \/ Restart

-----------------------------------------------------------------------------
(* The event stream.                                                       *)

\* The session is found by its runtime key or by its native id.
Found == att.key = server.key \/ att.pi

\* connect: from the highest received number.
Connected(a, n) == [a EXCEPT !.link = "open", !.after = n, !.pos = n, !.end = 0, !.timer = FALSE]
Opened(c) == Connected([NoAttachment EXCEPT !.on = TRUE, !.key = c.key, !.pi = c.pi], c.received)

\* onPayload of a numbered event (applyPiPayload)
ReceiveEvent ==
    /\ att.on /\ Found
    /\ \/ att.link = "open" /\ att.pos < Last
       \/ att.link = "ended" /\ att.pos < att.end
    /\ att' = [att EXCEPT !.pos = @ + 1]
    /\ LET q == att.pos + 1
           e == <<server.life, q>>
           gated == [client EXCEPT !.received = q]
       IN  IF q <= client.received THEN UNCHANGED <<client, poll>>
           ELSE IF server.log[q] = "settled"
           THEN /\ client' = [SettleTurn(Apply(Flush(gated), {e}, q)) EXCEPT !.finished = TRUE]
                /\ poll' = [poll EXCEPT !.mayPromote = FALSE]
           ELSE /\ client' = Enqueue([Busy(gated) EXCEPT !.pi = client.pi], e, server.log[q])
                /\ UNCHANGED poll
    /\ UNCHANGED <<server, turn, load, abort, left, lapse>>

\* A status frame of a stream that has nothing else to send
ReceiveBeat ==
    /\ att.on /\ Found /\ att.link = "open" /\ att.pos >= Last /\ server.active
    /\ client' = Busy(client)
    /\ UNCHANGED <<server, att, poll, turn, load, abort, left, lapse>>

\* The server has sent everything of a finished turn, writes a terminal status and hangs up.
EndStream ==
    /\ att.on /\ att.link = "open" /\ Found /\ ~server.active
    /\ att' = [att EXCEPT !.link = "ended", !.end = Larger(Last, att.pos)]
    /\ UNCHANGED <<server, client, poll, turn, load, abort, left, lapse>>

ReceiveTerminal ==
    /\ att.on /\ att.link = "ended" /\ att.pos >= att.end
    /\ client' = [SettleTurn(client) EXCEPT !.pi = TRUE]
    /\ att' = Broken(att)
    /\ UNCHANGED <<server, poll, turn, load, abort, left, lapse>>

\* onError
StreamBreaks ==
    /\ att.on /\ att.link \in {"open", "ended"}
    /\ \/ Spend("break")
       \/ ~Found /\ UNCHANGED left
    /\ att' = Broken(att)
    /\ UNCHANGED <<server, client, poll, turn, load, abort, lapse>>

\* The EventSource reconnects by itself, with the address it was opened with, while the
\* probe is on its way.
NativeRetry ==
    /\ att.on /\ att.link = "broken" /\ att.probe = "sent"
    /\ att' = [Connected(att, att.after) EXCEPT !.timer = att.timer]
    /\ UNCHANGED <<server, client, poll, turn, load, abort, left, lapse>>

\* The watchdog finds no payload for RESUME_IDLE_RECONNECT_MS.
Watchdog ==
    /\ att.on /\ att.probe = "none" /\ ~att.timer
    /\ att.link = "open" => att.pos >= Last
    /\ att' = [att EXCEPT !.probe = "sent"]
    /\ UNCHANGED <<server, client, poll, turn, load, abort, left, lapse>>

\* loadRuntimeStatus of reconcileLiveness: any failure reads as null.
ProbeRead ==
    /\ att.on /\ att.probe = "sent"
    /\ \/ /\ Found
          /\ att' = [att EXCEPT !.probe = IF server.active THEN "active" ELSE "idle"]
          /\ UNCHANGED left
       \/ /\ ~Found /\ att' = [att EXCEPT !.probe = "null"] /\ UNCHANGED left
       \/ /\ Spend("break")
          /\ att' = [att EXCEPT !.probe = "null"]
    /\ UNCHANGED <<server, client, poll, turn, load, abort, lapse>>

\* Mutant: a live runtime is left with the stream that broke.
ReconnectForgotten(a) == a

Reconnect(a) == IF a.timer THEN a ELSE [a EXCEPT !.timer = TRUE, !.link = "closed"]

ProbeApply ==
    /\ att.on /\ att.probe \in {"active", "idle", "null"}
    /\ LET a == [att EXCEPT !.probe = "none"] IN
       CASE att.probe = "null" -> att' = Reconnect(a) /\ UNCHANGED client
         [] att.probe = "active" -> /\ att' = Reconnect(a)
                                    /\ client' = Busy(client)
         [] att.probe = "idle" ->
              /\ att' = [a EXCEPT !.timer = FALSE, !.link = "closed"]
              /\ client' = IF client.status \in {"running", "starting", "stopping"}
                           THEN SettleTurn(Flush(client)) ELSE Flush(client)
    /\ UNCHANGED <<server, poll, turn, load, abort, left, lapse>>

ReconnectTimer ==
    /\ att.on /\ att.timer
    /\ att' = Connected(att, client.received)
    /\ UNCHANGED <<server, client, poll, turn, load, abort, left, lapse>>

\* The animation frame of the coalescer
Frame ==
    /\ client.pending # {}
    /\ client' = Flush(client)
    /\ UNCHANGED <<server, att, poll, turn, load, abort, left, lapse>>

Stream ==
    \/ ReceiveEvent \/ ReceiveBeat \/ EndStream \/ ReceiveTerminal \/ StreamBreaks
    \/ NativeRetry \/ Watchdog \/ ProbeRead \/ ProbeApply \/ ReconnectTimer \/ Frame

-----------------------------------------------------------------------------
(* The React binding and the poll of the runtime list.                     *)

\* Mutant: the fetch ignores the grace after an accepted turn.
FreshMayIdle(c) == [NoPoll EXCEPT !.st = "sent", !.mayIdle = TRUE, !.mayPromote = ~c.finished]

Fresh(c) == [NoPoll EXCEPT !.st = "sent", !.mayIdle = ~c.accepted, !.mayPromote = ~c.finished]

\* A render shows a new status or pi id: reconcile the attachments, then pollNow.
\* An attachment that stays is untouched; closing one flushes what it holds.
Effects ==
    /\ client.seen # [status |-> client.status, pi |-> client.pi]
    /\ LET wanted == client.status \in {"running", "stopping"}
           same == att.on /\ att.key = client.key /\ att.pi = client.pi
           closed == IF att.on /\ ~(wanted /\ same) THEN Flush(client) ELSE client
           seeded == IF wanted /\ ~same /\ client.lastSeq > closed.received
                     THEN [closed EXCEPT !.received = client.lastSeq, !.committed = client.lastSeq]
                     ELSE closed
       IN  /\ client' = [seeded EXCEPT !.seen = [status |-> client.status, pi |-> client.pi]]
           /\ att' = IF ~wanted THEN NoAttachment
                     ELSE IF same THEN att ELSE Opened(seeded)
           /\ poll' = Fresh(client)
    /\ UNCHANGED <<server, turn, load, abort, left, lapse>>

\* pollOnce, or pollNow, which disowns the fetch under way
PollStart ==
    /\ poll.st = "none"
    /\ poll' = Fresh(client)
    /\ UNCHANGED <<server, client, att, turn, load, abort, left, lapse>>

PollRead ==
    /\ poll.st = "sent"
    /\ \/ /\ poll' = [poll EXCEPT !.st = "read", !.active = server.active, !.key = server.key]
          /\ UNCHANGED left
       \/ /\ Spend("break")
          /\ poll' = NoPoll
    /\ UNCHANGED <<server, client, att, turn, load, abort, lapse>>

\* The list entry that speaks for the session as it was last rendered
Listed == poll.key = client.key \/ client.seen.pi

\* promoteFromRuntimeList and adoptConnectionKey
Promote ==
    IF poll.key = client.key
    THEN /\ client' = Busy(client)
         /\ UNCHANGED <<att, lapse>>
    ELSE LET moved == [Adopt(client, 0) EXCEPT !.key = poll.key] IN
         /\ client' = Busy(moved)
         /\ att' = IF att.on THEN Opened([moved EXCEPT !.pi = TRUE]) ELSE att
         /\ lapse' = Rewound(FALSE)

\* idleFromRuntimeList
IdleFromList ==
    IF client.status \in {"running", "stopping"}
    THEN /\ client' = [SettleTurn(client) EXCEPT !.pi = TRUE]
         /\ UNCHANGED <<att, lapse>>
    ELSE UNCHANGED <<client, att, lapse>>

PollApply ==
    /\ poll.st = "read"
    /\ poll' = NoPoll
    /\ IF client.seen.status = "loading" \/ ~Listed THEN UNCHANGED <<client, att, lapse>>
       ELSE IF poll.active
       THEN IF poll.mayPromote THEN Promote ELSE UNCHANGED <<client, att, lapse>>
       ELSE IF client.seen.status \in {"running", "stopping"} /\ poll.mayIdle
            THEN IdleFromList ELSE UNCHANGED <<client, att, lapse>>
    /\ UNCHANGED <<server, turn, load, abort, left>>

\* RUNTIME_POLL_IDLE_GRACE_MS pass after an accept or a settle.
GraceEnds ==
    /\ \/ client.accepted /\ client' = [client EXCEPT !.accepted = FALSE]
       \/ client.finished /\ client' = [client EXCEPT !.finished = FALSE]
    /\ UNCHANGED <<server, att, poll, turn, load, abort, left, lapse>>

Binding == Effects \/ PollStart \/ PollRead \/ PollApply \/ GraceEnds

-----------------------------------------------------------------------------
(* Prompts, steers, aborts and replays.                                    *)

\* sendMessage: acceptsControl refuses when the session or its runtime is idle.
SendPrompt ==
    /\ Spend("prompt") /\ turn["prompt"].st = "none"
    /\ client.status \in {"running", "starting", "stopping"} => ~server.active
    /\ client' = [client EXCEPT !.status = "starting"]
    /\ turn' = [turn EXCEPT !["prompt"].st = "sent"]
    /\ UNCHANGED <<server, att, poll, load, abort, lapse>>

SendSteer ==
    /\ Spend("steer") /\ turn["steer"].st = "none"
    /\ client.status \in {"running", "starting", "stopping"}
    /\ turn' = [turn EXCEPT !["steer"].st = "sent"]
    /\ UNCHANGED <<server, client, att, poll, load, abort, lapse>>

Answer(st) == [st |-> st, seq |-> Last]

\* The server runs the message, or puts it into the run under way; the answer may be lost.
TakeTurn(k) ==
    /\ turn[k].st = "sent"
    /\ \/ /\ server' = Started(server)
          /\ turn' = [turn EXCEPT ![k] = Answer("answered")]
          /\ UNCHANGED left
       \/ /\ Spend("break")
          /\ server' \in {server, Started(server)}
          /\ turn' = [turn EXCEPT ![k] = Answer("failed")]
    /\ UNCHANGED <<client, att, poll, load, abort, lapse>>

\* The session runs and the turn is accepted, in that order.
Accept(k) ==
    LET running == [client EXCEPT !.status = "running", !.pi = TRUE] IN
    /\ client' = NoteTurnAccepted(running, turn[k].seq)
    /\ poll' = IF poll.st = "none" THEN poll
               ELSE [poll EXCEPT !.mayIdle = FALSE, !.mayPromote = TRUE]
    /\ lapse' = IF turn[k].seq < client.received THEN Rewound(Stranded(0)) ELSE lapse
    /\ turn' = [turn EXCEPT ![k] = NoTurn]

AnswerTurn(k) ==
    /\ turn[k].st = "answered"
    /\ Accept(k)
    /\ UNCHANGED <<server, att, load, abort, left>>

\* A failed prompt asks the server whether it took the turn after all.
ProbeFailedPrompt ==
    /\ turn["prompt"].st = "failed"
    /\ \/ /\ turn' = [turn EXCEPT !["prompt"] =
                          Answer(IF server.active THEN "active" ELSE "idle")]
          /\ UNCHANGED left
       \/ /\ Spend("break")
          /\ turn' = [turn EXCEPT !["prompt"].st = "idle"]
    /\ UNCHANGED <<server, client, att, poll, load, abort, lapse>>

\* Mutant: the failed prompt is only forgotten.
SettleFailedPromptForgotten ==
    /\ turn["prompt"].st \in {"active", "idle"}
    /\ turn' = [turn EXCEPT !["prompt"] = NoTurn]
    /\ UNCHANGED <<server, client, att, poll, load, abort, left, lapse>>

SettleFailedPrompt ==
    /\ turn["prompt"].st \in {"active", "idle"}
    /\ \/ turn["prompt"].st = "active" /\ Accept("prompt")
       \/ /\ turn["prompt"].st = "idle"
          /\ client' = SettleTurn(client)
          /\ turn' = [turn EXCEPT !["prompt"] = NoTurn]
          /\ UNCHANGED <<poll, lapse>>
    /\ UNCHANGED <<server, att, load, abort, left>>

\* A failed steer goes back into the composer.
DropFailedSteer ==
    /\ turn["steer"].st = "failed"
    /\ turn' = [turn EXCEPT !["steer"] = NoTurn]
    /\ UNCHANGED <<server, client, att, poll, load, abort, left, lapse>>

Abort ==
    /\ Spend("abort") /\ abort = "none" /\ client.status \in {"starting", "running", "stopping"}
    /\ client' = [client EXCEPT !.status = "stopping"]
    /\ abort' = "sent"
    /\ UNCHANGED <<server, att, poll, turn, load, lapse>>

\* abortSession swallows every failure.
TakeAbort ==
    /\ abort = "sent"
    /\ \/ server' = [server EXCEPT !.active = FALSE] /\ UNCHANGED left
       \/ /\ Spend("break")
          /\ UNCHANGED server
    /\ abort' = "answered"
    /\ UNCHANGED <<client, att, poll, turn, load, lapse>>

AnswerAbort ==
    /\ abort = "answered"
    /\ client' = SettleTurn(Flush(client))
    /\ abort' = "none"
    /\ UNCHANGED <<server, att, poll, turn, load, left, lapse>>

\* loadAndReplay: an opened pane with no messages, or a compaction of an idle session
StartLoad ==
    /\ Spend("load") /\ load.st = "none" /\ client.pi /\ client.status = "idle"
    /\ client' = [client EXCEPT !.status = "loading"]
    /\ load' = [NoLoad EXCEPT !.st = "reading", !.need = {"canon", "status"}]
    /\ UNCHANGED <<server, att, poll, turn, abort, lapse>>

\* The canonical log and the runtime's status are read concurrently.
ReadCanon ==
    /\ "canon" \in load.need
    /\ \/ /\ load' = [load EXCEPT !.canon = Last, !.need = @ \ {"canon"}]
          /\ UNCHANGED left
       \/ /\ Spend("break")
          /\ load' = [load EXCEPT !.need = (@ \ {"canon"}) \cup {"failed"}]
    /\ UNCHANGED <<server, client, att, poll, turn, abort, lapse>>

ReadStatus ==
    /\ "status" \in load.need
    /\ \/ /\ load' = [load EXCEPT !.active = server.active, !.seq = Last, !.need = @ \ {"status"}]
          /\ UNCHANGED left
       \/ /\ Spend("break")
          /\ load' = [load EXCEPT !.need = (@ \ {"status"}) \cup {"null"}]
    /\ UNCHANGED <<server, client, att, poll, turn, abort, lapse>>

Transcript(n) == [e \in Events |-> IF e \in Log(n) THEN 1 ELSE 0]

\* The transcript is replaced by the canonical log, cut at the runtime's own events.
Replay ==
    LET content == IF load.active THEN load.seq ELSE load.canon
        hydrated == [client EXCEPT !.shown = Transcript(content), !.pi = TRUE,
                                   !.status = IF load.active THEN "running" ELSE "idle"]
    IN  /\ client' = Adopt(hydrated, load.seq)
        /\ lapse' = (IF content = load.seq THEN {} ELSE {"reads"})
                    \cup (IF Stranded(load.seq) THEN {"rewind"} ELSE {})

\* The canonical log could not be read: keep what is shown and follow a live runtime from 0.
ReplayFailed ==
    IF load.active
    THEN /\ client' = Adopt([client EXCEPT !.status = "running"], 0)
         /\ lapse' = (lapse \cup (IF client.received > 0 THEN {"reads"} ELSE {}))
    ELSE /\ client' = [client EXCEPT !.status = "idle"]
         /\ UNCHANGED lapse

FinishLoad ==
    /\ load.st = "reading" /\ {"canon", "status"} \cap load.need = {}
    /\ IF "failed" \in load.need THEN ReplayFailed ELSE Replay
    /\ load' = NoLoad
    /\ UNCHANGED <<server, att, poll, turn, abort, left>>

\* closeAll, then the tab restored from storage: its cursor, without its messages
Reload ==
    /\ Spend("reload")
    /\ client' = Mounted(client.pi, Flush(client).lastSeq)
    /\ att' = NoAttachment
    /\ poll' = Fresh(Mounted(client.pi, 0))
    /\ turn' = [k \in {"prompt", "steer"} |-> NoTurn]
    /\ load' = NoLoad
    /\ abort' = "none"
    /\ lapse' = {"reload"} \cup (lapse \cap {"restart"})
    /\ UNCHANGED server

Requests ==
    \/ SendPrompt \/ SendSteer
    \/ \E k \in {"prompt", "steer"} : TakeTurn(k) \/ AnswerTurn(k)
    \/ ProbeFailedPrompt \/ SettleFailedPrompt \/ DropFailedSteer
    \/ Abort \/ TakeAbort \/ AnswerAbort
    \/ StartLoad \/ ReadCanon \/ ReadStatus \/ FinishLoad \/ Reload

-----------------------------------------------------------------------------
Next == Server \/ Stream \/ Binding \/ Requests

Spec == Init /\ [][Next]_vars

-----------------------------------------------------------------------------
(* Properties.                                                             *)

\* No event of the log is applied to the transcript twice, however often streams reconnect
\* and replays reseed the cursor (the duplicated turns noteTurnAccepted warns of).
NothingTwice == lapse = {} =>
    \A e \in Events : client.shown[e] + (IF e \in client.pending THEN 1 ELSE 0) <= 1

\* An event the receive gate has passed is in the transcript or held by the coalescer: no
\* flush, discard or cursor jump loses it.
NothingMissing == lapse = {} =>
    \A q \in 1..client.received : client.shown[<<server.life, q>>] > 0
                                  \/ <<server.life, q>> \in client.pending

\* lastEventSeq, the cursor that is persisted, is never ahead of what is shown: stampSeq
\* lands it with the content.
PersistedIsShown == lapse = {} =>
    \A q \in 1..client.lastSeq : client.shown[<<server.life, q>>] > 0

\* A delta the coalescer holds is beyond the committed cursor and within the received one,
\* and only an attached session holds any: a flush never moves the cursor back, and a closed
\* attachment leaves nothing behind (close, flushNow).
HeldIsUncommitted ==
    /\ client.committed <= client.received
    /\ \A e \in client.pending : client.committed < e[2] /\ e[2] <= client.received
    /\ client.pending # {} => att.on

\* A runtime list fetched before a turn was accepted or settled, or in the grace after that,
\* neither idles the accepted turn nor revives the settled one (idleFromRuntimeList,
\* withinFinishGrace).
NoStaleList ==
    [][PollApply => /\ client.accepted /\ client.status = "running" => client'.status = "running"
                    /\ client.finished /\ client.status = "idle" => client'.status = "idle"]_vars

\* An accepted turn sets the gate back only when the runtime has restarted, as the comment on
\* noteTurnAccepted promises.
RewindMeansRestart ==
    [][(\E k \in DOMAIN turn : AnswerTurn(k)) /\ client'.received < client.received
         => server.life > 1]_vars

-----------------------------------------------------------------------------
\* Timers fire, requests are answered, the browser delivers what the stream carries and
\* renders what is committed.  Turns, faults, loads and reloads are left to chance.
Fairness ==
    /\ WF_vars(ReceiveEvent) /\ WF_vars(ReceiveTerminal) /\ WF_vars(EndStream)
    /\ WF_vars(Watchdog) /\ WF_vars(ProbeRead) /\ WF_vars(ProbeApply)
    /\ WF_vars(ReconnectTimer) /\ WF_vars(Frame)
    /\ WF_vars(Effects) /\ WF_vars(PollStart) /\ WF_vars(PollRead) /\ WF_vars(PollApply)
    /\ WF_vars(GraceEnds)
    /\ \A k \in {"prompt", "steer"} : WF_vars(TakeTurn(k)) /\ WF_vars(AnswerTurn(k))
    /\ WF_vars(ProbeFailedPrompt) /\ WF_vars(SettleFailedPrompt) /\ WF_vars(DropFailedSteer)
    /\ WF_vars(TakeAbort) /\ WF_vars(AnswerAbort)
    /\ WF_vars(ReadCanon) /\ WF_vars(ReadStatus) /\ WF_vars(FinishLoad)

FairSpec == Spec /\ Fairness

\* A session whose runtime has stopped for good is shown idle for good: no lost answer, broken
\* stream, stale list or abort leaves it working forever.
StoppedBecomesIdle == <>[](~server.active) => <>[](client.status = "idle")

\* A session whose runtime stays active comes to show all of its log, through breaks, probes
\* and reconnects.
ActiveCatchesUp == <>[](server.active) =>
    <>[](lapse = {} => \A e \in Log(Last) : client.shown[e] > 0)

===============================================================================
