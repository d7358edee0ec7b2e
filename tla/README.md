# Local Studio: verification project

TLA+ models of two halves of Local Studio, the TLC configurations that check them on
small instances, and TLAPS proofs of what holds for every size: of the controller
(`src/controller/src`, Zig) the model downloads, the turns of its agent harnesses and the
event log of a session; of the browser (`src/frontend/src/features/agent`, TypeScript) the
stream that follows such a log, the transcript built from it and the panes the sessions
are shown in. `PROJECT.json` maps every definition to the lines it models and lists the
hazards the properties are for. Paths below are relative to `src/controller/src/` for the
controller and to `src/frontend/src/features/agent/` for the browser.

## 1. The system

The controller is one process that serves HTTP (up to 256 connection handlers at a
time, `http/server.zig:82`), runs agent harnesses, downloads and supervises models,
and keeps its records in one SQLite database behind one mutex. It runs as a head,
as a worker that a head dispatches sessions to, or alone. A Next.js/Electron
frontend (`src/frontend`) talks to it over HTTP and server-sent events.

In the controller many handlers enter at once, and every component starts background
tasks of its own. There is one mutex per component; network calls, waits for processes
and sleeps happen outside it. That is where the hard behaviour is: what was read in one
lock section is used in the next. The browser is one thread, but everything it knows of
the server is an answer that was true when it was read: the event stream, a poll of the
runtime list, liveness probes and the answers to the user's requests arrive in any order
and are applied to the same session.

| component | state it keeps | operations | interacts with | hard behaviour | what makes it correct |
|---|---|---|---|---|---|
| model downloads `inference/downloads` | records in SQLite; active and retired owners; reservations of target directories | start, resume, pause, cancel, background transfer, rehydrate | SQLite, Hugging Face, HTTP handlers | a stop racing a start, a failure or a completion; owners freed while held; restart | two tasks never write the same directory; a stop sticks; no record claims a task it has not |
| ACP harness turns `agent/harness/runtime.zig` | one Session per session id: running, active, outstanding request, retry and continuation budgets, pending subagents | prompt, answer, retry, continue, observe subagents, exit, restart | harness process, HTTP handlers, session coordinator | the idle check and the send are separate; detached resume tasks; sessions freed while pointed to | one prompt at a time; an active turn has somebody to end it; every turn ends |
| other harness dialects (pi, codex, claude, chat) | the same Session | prompt, steer, abort, compact | as above | one process per turn or a command protocol with answers awaited by polling | as above |
| session coordinator and event log `agent/sessions` | head's copy of each session, its event log, per-session cursor, execution owner | dispatch a turn, ingest the harness window, serve SSE, transcript, recover after restart | harness, workers, execution ledger | snapshots fetched outside the lock and ingested later; sequence numbers that start again with a new harness | an event is stored once, in order; a cursor never passes an event that is not stored |
| session runtime controller `runtime/session-runtime-controller.ts` | per session: received and committed cursor, held deltas, attachment with its timer and probe, graces, connection key | attach, receive, reconnect, probe, poll, adopt a key, accept a turn, replay, close | SSE, runtime list, React binding, engine | a probe, a list or an answer read before an event and applied after it; a runtime that numbers from 1 again | an event is shown once; none is lost; a stale list overrules nothing; a stopped session becomes idle |
| session engine and prompt requests `runtime/engine.ts`, `prompt-stream.ts` | requests under way | prompt, steer, follow-up, abort, load and replay | controller, transcript | an answer that is lost although the request was executed | the turn is neither sent twice nor left starting for ever |
| transcript reducer `runtime/pi-event-applier.ts` | messages, bubbles, active bubble, live target, queue | echo, reply, queue update, end of run, end of turn | engine, send flow | an echo, an answer and an abort in any order | every message once, every reply below its message, the queue as pi has it |
| composer send flow `ui/chat-pane-send-flow.ts` | what the composer sent | send, queue, steer, promote, abort and send again | engine, transcript | a message taken back though it arrived; queued messages sent twice | as above |
| workspace panes and navigation `workspace/pane-controller.ts`, `layout.ts`, `ui/agent-workspace-navigation.ts` | layout tree, panes, focus, sessions | focus, close, drop, split, link, patch, side chat | persistence, engine | a patch gives two sessions the same native id; a working session loses its pane | panes are the leaves; one session per native session; no work is lost |
| workspace persistence `workspace/persistence.ts`, `effects.ts`, `store.ts` | the stored pane state | write, restore | workspace | a change that is not written | what is stored is what is shown |
| execution ledger, goals, subagents, automations, messaging, inference supervisor, compute instances, install jobs, model relay, topology, cloud workers | records, each of its own | single requests and background drivers | coordinator, processes, machines | section 10 | not modelled |
| browser service, connectors, accounts, providers, HTTP, SQLite wrapper, chat tools, configuration, contracts; the other pages of the frontend, React components, desktop shell | - | - | - | mostly I/O, translation, types or rendering | not modelled, section 10 |

## 2. Modules

In the order they were written, the most important behaviour first:

| module | models | instance | proofs |
|---|---|---|---|
| `DownloadManager` | model downloads | `MCDownloadManager` | `DownloadManagerProofs`, `DownloadRecordProofs` |
| `AcpTurn` | turns of an ACP session | `MCAcpTurn` | `AcpTurnProofs` |
| `SessionEvents` | from the harness to the database to the browsers, over the abstract log `EventLog` that it implements | `MCSessionEvents` | `SessionEventsProofs` |
| `SessionClient` | the browser's view of one session's log and status | `MCSessionClient` | `SessionClientProofs` |
| `Transcript` | messages, bubbles and queue of one session | `MCTranscript` | `TranscriptProofs`, `TranscriptReplyProofs` |
| `Workspace`, over the layouts of `PaneLayout` | panes, sessions and storage | `MCWorkspace` | `WorkspaceProofs` |

The modules follow a session through the system. `AcpTurn` is what a harness does
with prompts; `SessionEvents` takes its events as they are numbered and stores them;
`SessionClient` takes the log as given, with a runtime that may restart under it, and is
about delivering each event once; `Transcript` takes events as delivered once and in
order, and is about what they mean; `Workspace` takes sessions as they are patched. Each
module assumes of its neighbour what the neighbour's module is about. They are not
conjoined: two of them at once are beyond TLC on instances in which anything happens.

## 3. DownloadManager

`inference/downloads/manager.zig` with `records.zig`, `store.zig` and `targets.zig`.

| TLA+ | code |
|---|---|
| `record` | the rows of the downloads table: status and target |
| `reservations` | `State.reservations`: target directories taken |
| `active`, `retired` | `State.active` (by id) and `State.retired` |
| `owner`, `task` | the `Active` structs, and where the background task of each is |
| `handler` | where each HTTP handler is in startPayload, resumePayload, pausePayload or cancelPayload |
| `orphaned` | history only: ids whose record runs nowhere, for one of the three causes below |

A start prunes retired owners, takes the reservation, looks for a reusable record,
saves or queues its own, installs an owner and spawns the task. Each of these is one
lock section and one action (`Prune`, `Reap`, `AcquireGranted`, `LookupReusable`,
`SaveRecord`, `QueueRecord`, `Install`, `Spawn`). Each may fail, and what that leaves behind
depends on where: before the reservation the call only answers an error (`CallFails`), with
it the reservation is given back (`StartFails`), and once the record says queued the owner is
thrown away and the record stays as it is (`SpawnFails`: the answer or the owner cannot be
allocated, or no task can be spawned). A stop
writes the record first (`StopCall`), then looks for the owner (`CancelLookup`),
cancels its group (`CancelGroup`), waits for it (`AwaitTask`) and gives its reference
back (`DropHandle`). The task checks for a stop between files, transfers, fails or
finishes, and retires (`Task...`); a failure is written into the record unless it says
stopped (`SetFailureUnlessStopped`), or the database does not take it and the task
retires with its record as it was, the other branch of `TaskFail`. `Restart` is a crash followed by the rehydration of
`store.zig`. The target directories are compared after normalisation: `Contains` is a
constant, because only containment matters.

Properties:

- `ExclusiveTargets`: two tasks never write where one target contains the other.
- `InstallNeverCollides`: `installActive` never finds its id taken.
- `HandlesAreLive`: an owner that a stop request holds is not freed under it.
- `FreedIsUnreachable`: a freed owner is in no list and its task is over.
- `RunningHasTask`: a record that says queued or downloading has a task or a handler
  on the way to one. Three things the code does nothing against leave a record that runs
  nowhere (`orphaned`), until a resume, a stop or a restart: a pause that was overtaken by a
  resume cancels the new task; the owner is thrown away after the record was queued; a
  failure could not be recorded. That there is no fourth is what the property says.
- `StopSticks`: only a resume takes a record out of paused or canceled.
- `StopIsAnswered`: a pause or cancel returns, though the transfer may hang.

`State.deinit` copies active and retired owners into an array of `max_active_downloads * 2`
and panics beyond that (`manager.zig:90`). `pruneRetired` runs at the beginning of a request
and the reservation is taken later, so handlers that pruned while nothing had retired can go
on starting downloads while others retire: the retired owners are not bounded by that number.
No document promises the bound, so it is listed as a hazard without a property.

## 4. AcpTurn

`agent/harness/runtime.zig` for the harnesses that speak ACP (fx, opencode).

| TLA+ | code |
|---|---|
| `current` | the entry of `Manager.sessions` |
| `session[s]` | the `Session` at address `s`: running, active, active_request_id, retry_count, continuation_count, waiting_for_children, resume_scheduled, pending_subagents; `allocated` is the allocator's view |
| `reader[s]` | `readHarness`, and whether it is between releasing the mutex and spawning a resume task |
| `prompts[s]`, `deaf` | the harness process: requests it has not answered, standard input closed |
| `caller[c]` | a handler in turnPayloadAt and sendAcpPrompt |
| `task[k]` | a `resumeAcpPrompt` task, its sleep rounds |
| `overtaken`, `stale` | history only |

The `session.active` check of `turnPayloadAt` takes no mutex (`Check`), nor do the five
assignments of `sendAcpPrompt` (`Clear`, one action for each). The mutex is taken in
`sendAcpPromptContinuation` (`Send`, `SendRefused`, `SendFails`; for a task `Resume`,
`ResumeFails`), in `handleAcpLine` (`Response`, `Observe`), in `readHarness` (`Exit`)
and at each awakening of a resume task (`Wake`). The answer leads to `SpawnResume`
after the mutex was released.

Properties:

- `SingleFlight`: the harness has at most one prompt, the active request.
- `ActiveIsDriven`: an active session has an outstanding request, a scheduled resume
  task, a task that is sending, or a handler that is about to.
- `ExitedIsInactive`: nobody reactivates a session whose harness is gone.
- `FreedHasNoReader`: a session is freed only after its reader ended.
- `OutstandingIsActive`, `ResumeIsCurrent`: a session with an outstanding prompt says
  active, and a resume task continues the turn that scheduled it only. Both have an
  exception, `overtaken`: a handler that saw the session idle before another handler's
  prompt went out. In that case the second handler may clear the fields of the
  first one's turn, its own prompt may then take that turn over, and the resume task
  that is left may report SessionAlreadyActive over it. Without the exception TLC
  refutes both.
- `TurnSettles`: every turn ends, also across the exit and the replacement of a session.
- `TurnInv`: the inductive invariant of section 9.

What the model shows of freed memory: `ensureAcpSession` frees a session that has
exited without looking at who points to it. The reader is safe (`FreedHasNoReader`).
A resume task that sleeps through exit and replacement, and a handler between its
check and its send, are not: TLC reaches states where they point to a freed slot. In
the model an address is not reused while somebody points to it, so such a pointer
reads what the session last held, running = FALSE, and the task ends; in the program
that read is undefined. No property claims its absence.

## 5. SessionEvents and EventLog

`agent/sessions/coordinator.zig`, `control_store.zig` and `run_completion.zig`, over
the event ring of `agent/harness/runtime.zig` and `agent/runtime/window.zig`.

| TLA+ | code |
|---|---|
| `kind` | `agent_sessions.harness`: `chat`, `pi`, `fx` (also for opencode) and `codex` (also for claude) |
| `store` | the session's row (`status`, `cursor`), its rows in `agent_events` (`log`) and in the transcript |
| `harness` | the `Session` of runtime.zig: running, active, `failed` for a recorded error, and the ring (`first`, `seq`, `Evicted`) |
| `poller` | the event pump, and requests for the session's status: cursor read, answer of the harness |
| `turn` | a sender of a prompt, from the cursor it reads to the answer, and then its completion wait |
| `stream` | a browser on `/events`: position, and what it received |
| `restarts` | history only: bounds the restarts of the controller |

A stored row is represented by the number of the life of the harness session that
emitted it, 0 for none: two events under one number are then told apart exactly when a
harness that starts again has numbered an event like an earlier one. The text of an
event, and whether it is a message or a tool call, make no difference to storing it.

`List`, `Ask` and `Ingest` are the three parts of a pump round: `listActive` under the
database lock, the request to the harness (in the process or on a node) under the
harness lock or none, and `ingestRuntimeDocument` under the database lock. A status
request (`Call`) asks for everything and ingests likewise. A turn reads the cursor
(`Read`), saves its row as "starting" (`Save`), prompts the harness (`Send`, `Control`,
or `Refuse`, `StartFails`), takes the answer (`Respond`, `LoseResponse`) and ingests it
(`Accept`). A sender that waits for completion asks for what follows the number in
its answer and ingests that too (`Poll`, `Follow`). Everything may happen between any two
of these. `Emit`, `PiStarts`, `Settle` and `Exit` are the harness process; `NodeRestart`
and `Restart` are crashes of the node and of the controller, which keeps its database
and loses whatever it held in memory.

`EventLog` says what a log is for its readers: entries are appended after all others
and never change, and a reader takes what follows its position. `SessionEvents`
instantiates it with the log of the store and the streams as readers (`Log`, `LogSpec`).

Properties:

- `CursorIsLastRow`: the stored cursor is the number of the last stored event, though
  turns save a cursor they read earlier and answers arrive out of order.
- `StoredIsFinal`: a stored event is never replaced, and the cursor never goes back.
- `LogSpec`, `ReadersMissNothing`: nothing is slipped in behind a browser's position.
- `ChatIsPersisted`: for the embedded chat, what the cursor has passed is stored, as far as
  the ring still holds it.
- `ListedIsDrained`, `StoredIsDelivered`: what a listed session's harness holds gets
  stored, and what is stored reaches a browser that stays connected.

**Where persistence ends.** `ChatIsPersisted` names the embedded chat because the other
harnesses do not have it. A pi session numbers its events from 1 whenever its process is
started again, but the stored cursor only grows, so the pump never asks for the new events
up to the old cursor; `runtime-cursor.ts:38-42` of the browser describes the same effect
there and lets its cursor go back (section 6). And a prompt that reaches a running turn is
refused after the status of that turn has been overwritten, which leaves the session
"unavailable" and the pump without it. Both are listed as hazards.

**Where the log is not a log.** The refinement is checked and proved for sessions in
which the pump alone brings events: no status request, no sender that waits for
completion. Outside of that TLC refutes `ReadersMissNothing`. A completion
wait asks for what follows the number in the answer of its turn, which may lie beyond
what the pump has stored; its batch moves the cursor over the events in between, and a
status request, which asks for everything, later inserts them behind browsers that
have passed. If the ring has lost them by then they stay missing. With status requests
alone it takes a ring that evicts. No document promises otherwise, so this is
listed as a hazard and not as a finding; `CursorIsLastRow` and `StoredIsFinal` hold
all the same and are checked there (`session_events_node`).

## 6. SessionClient

`runtime/session-runtime-controller.ts`, `runtime-cursor.ts`, `effect-coalescer.ts`,
`session-status.ts`, the requests of `engine.ts` and `prompt-stream.ts`, and the binding to
React in `ui/use-workspace-effects.ts`, for one session.

| TLA+ | code |
|---|---|
| `server` | external: the log of the runtime's current life, and whether a turn is under way or has settled |
| `client` | the `Session` record (`status`, `pi` for its native id, `lastSeq`, `shown`) and the controller's maps for it: the cursor's `received` and `committed`, what the coalescer holds (`pending`, `newest`, `kind`), the graces `accepted` and `finished`, the connection `key`, and what was last rendered (`seen`) |
| `att` | the attachment: EventSource, position, reconnect timer, liveness probe |
| `poll` | the fetch of the runtime list, with the graces it may not overrule |
| `turn`, `load`, `abort` | a prompt and a steer, a replay, an abort under way |
| `left` | bound: what the user, the server and the network may still do of their own accord |
| `lapse` | history only: why the transcript need not equal the log |

An event is a pair of a life and a number; of its content only what the coalescer looks
at is kept, its kind. `Server` is the runtime: it emits, settles, goes idle, is started by
others, restarts. `Stream` is the event source: numbered events through the receive gate
(`ReceiveEvent`), beats, the terminal frame, errors with the browser's own retry, the
watchdog, the probe (`ProbeRead`, `ProbeApply`), the reconnect timer and the coalescer's
frame. `Binding` is what React and the poll do: reconcile the attachments when a render
shows a new status (`Effects`), fetch the list and apply it later (`PollStart`, `PollRead`,
`PollApply`), let the graces run out. `Requests` are the user's: each is sent, taken by the
server, answered or lost, and applied, in separate steps.

Properties:

- `NothingTwice`: an event is applied to the transcript once, through all reconnects.
- `NothingMissing`: what the gate has passed is shown or held.
- `PersistedIsShown`: the persisted cursor is not ahead of the transcript.
- `HeldIsUncommitted`: what is held lies between the committed and the received cursor, and
  an attachment that closes leaves nothing held.
- `NoStaleList`: a list fetched before a turn was accepted or settled, or in the grace after
  it, neither idles the one nor revives the other.
- `StoppedBecomesIdle`, `ActiveCatchesUp`: the status and the transcript come to agree with
  a server that stops, or goes on, for good.

The first three hold until a lapse, of which the code admits five, each remembered from the
step that makes it until a replay that ends it: `overtaken`, a rewind of the gate that was
not for a restart, or not in time for one; `reload`, a restored tab with its cursor and without
its messages; `reads`, a replay whose two concurrent reads disagree; `restart`, a runtime
that numbers from 1 again before the gate has noticed; `rewind`, a replay that sets the
cursor behind an open stream. If any one of them is no excuse TLC refutes one of the three.

**A finding.** The comment in `noteTurnAccepted` (`session-runtime-controller.ts:636`) says
that the gate is rewound "only on a genuine runtime restart". The number it compares is a
snapshot that the server takes before it answers; events of the turn that arrive before the
answer make it look like a restart (`client_overtaken`, violates `RewindMeansRestart`). The
held delta is discarded then and the stream stays past it.

## 7. Transcript

`runtime/pi-event-applier.ts`, the optimistic updates of `prompt-stream.ts` and `engine.ts`,
and `ui/chat-pane-send-flow.ts` with its model, for one pi session.

| TLA+ | code |
|---|---|
| `pi` | external: the run under way, what it answers, and the steers and follow-ups it holds |
| `wire` | events the stream has not delivered |
| `tab` | the `Session` record (`messages`, `activeAssistantId`, `queue`) and its entry in `liveAssistantIds` (`pin`) |
| `prompts`, `controls` | `submitPromptTurn` and `queueAndSendControl`, from the composer or resumed by an abort |
| `promote`, `abort` | `steerQueued` and `abortTurn` |
| `told` | history only: texts used, those sent as steers and those echoed, and why the transcript may be wrong |

Every message has a text of its own, and two of them may contain one another, which is how
the code compares an echo with the last user message. `Reduce` is one event: an echo is
matched, brightened or appended and a bubble opened (`EchoUser`), a part of a reply goes
into the bubble `Resolve` finds, a queue update is reconciled (`Reconcile`), a run and a
turn end. Pi echoes each message with two events, `message_start` and `message_end`, and
delivers steers before follow-ups.

The page's two lists only grow at their end and are filtered: `msgs` and `queue` are functions
from the ids of their items, which are issued in order, and "the last" or "the first" of
some items is the one with the largest or smallest id (`Latest`, `Earliest`).

Properties:

- `ShownOnce`: a message is in the transcript once. A steer carries a marker until its first
  echo, which must find it wherever it comes: below other messages, before or after the
  answer to its request, with retries of the run in between (the marker that styles the
  message would not do: with it the property fails). Every other echo must find its message
  while that stands last.
- `DeliveredIsShown`: a message that the model was shown is in the transcript.
- `RepliesAnswer`: what the model writes is below the message it answers, in a bubble that
  holds no other reply.
- `QueueConverges`: when nothing is under way, the queue is the one pi holds.

The code has no way of telling some cases apart, and `told.lapse` names them: `crossed`
(another message stands below one when an echo of it comes that is not the first of a steer),
`outlived` (the turn settles while the request of a steer is on its way, pi holds it, or its
first echo is still on the stream), `overlap` (a text that contains the
last one), `rollback` (a message taken back that pi has), `resent` (queued messages that an
abort sends again though pi has, or had, them, the stream still carries them, or they are
still to be sent), `cleared` (follow-ups queued since the abort, which its answer
clears with the rest), `late`, `tail` and `pinned` (an answer, an event or a
live target of the last turn that reaches the next) and `lost` (a prompt that is shown, or
taken back, while a run the page does not know of writes, or another prompt is on its way:
the run writes into the newest bubble, or into an older one when that has gone). `crossed` and `outlived` are read off the order of the messages, pi's queue and the stream,
never off the markers or the matching they are about, so that a mistake in those does not
excuse itself. Each property names those that excuse it; without any one of them TLC refutes it, for `cleared`
with a budget of two follow-ups and an abort, which the run leaves out for its size.

**A finding.** The comment on `findPendingUserMessage` (`pi-event-applier.ts:542`) describes
a repaired defect, two steers in flight that are both appended a second time. The first
still is: its `message_start` clears its marker, and its `message_end` finds the second steer
as the last user message (`transcript_steers`, violates `SteersShownOnce`).

## 8. PaneLayout and Workspace

`workspace/layout.ts`, `pane-controller.ts`, `reducer.ts`, `persistence.ts`, `effects.ts`,
the restore of `store.ts`, and `runtime/store.ts` and `selectors.ts`.

| TLA+ | code |
|---|---|
| `ws` | `WorkspaceState`: layout tree, the session of each pane, the focus, the sessions |
| `stored` | what `writePaneState` has last put into the storage |
| `side` | the id of the side chat's session |
| `copied`, `astray` | history only: native ids a split has given to a second session; sessions the side chat removed or replaced under a pane |

A session is its native id and whether it works on a turn. `Workspace` has each operation
of the pane controller as a function from a state to the states it may lead to, and an
action for each dispatch, which is such an operation and then the rule that decides what
is written (`Dispatch`, `DispatchPatch`). Patches come in any order, also of sessions that
have gone. `Reload` rebuilds the state from `stored`.

The pane controller never looks into a layout: it calls the functions of `layout.ts`. So
`Workspace` has the layouts and those functions as constants, and `LayoutAssumption` says
what it relies on (`LayoutLaws`): a layout lists panes, at least one and none twice; removing
leaves or splitting one changes the leaves by exactly that and leads to a layout; and a layout with leaves
removed is within the grid if it was before. `PaneLayout` has the trees of `layout.ts` and
its recursive functions, and `MCWorkspace` gives them to the constants. TLC evaluates the
assumption for every tree over the panes of the run, and the same laws for every tree over
four panes and every edge (`LargerLayoutAssumption`).

Properties:

- `PanesAreWhole`: the panes are the leaves of the layout, each once, within the grid of 3
  by 2, with the focus on one, and each shows a session that is there.
- `OneSessionPerNative`: no two sessions stand for one native session, except those that a
  split copied.
- `StoredIsShown`: a reload would restore what is shown.
- `WorkSurvives`: a session in the middle of a turn is not pruned.

`astray` is a gap the code leaves: a side chat started afresh while a pane shows its session
leaves that pane with an id of nothing. The model offers a few dispatches that no component
issues at this commit though `useWorkspace` hands them out (`openSessionPayloadInPane`,
`splitPaneWithPayload`, `splitTab`), because the properties should hold when one does; and it
leaves open whether a link is ignored because a later one was handled. Links always
ask to replace the workspace, so the other branches of `openNewSessionInFocusedPane` and
`replaySessionInFocusedPane` are dead and left out.

## 9. Runs, fairness and proofs

### Runs

| run | configuration | what it shows |
|---|---|---|
| `download_stop_resume` | fair; 2 handlers, 1 id, 2 owners, 1 file | everything two handlers can do to one download, with failures and restarts; a stop is answered |
| `download_targets` | 2 handlers, 2 ids, 3 owners, a target, one inside it and an unrelated one | exclusion of targets |
| `acp_turns` | 2 handlers, 2 tasks, 1 address, 2 request ids, 1 subagent, limits 2/1/1 | retries, continuations and resume tasks against concurrent prompts |
| `acp_restart` | fair; 1 handler, 1 task, 2 addresses, 1 request id, limits 1/1/1 | exit and replacement of the session while others hold it; every turn ends |
| `session_events` | fair; chat or codex in the controller, 1 sender, 1 browser, ring of 1, 2 numbers, 2 lives, 1 restart | the refinement of the log, persistence, storing and delivery |
| `session_events_node` | fx or pi on a node, 1 sender that may wait, 1 status request, ring of 1, 2 numbers, 1 life | four ingesters of old and new answers against one cursor |
| `client_safety` | events that merge and events that do not, 2 numbers, 2 lives, seven budgets of two or three chances | cursors, transcript and graces through breaks, replays, reloads, restarts |
| `client_liveness` | fair; 2 numbers, 1 life, four budgets | status and transcript come to agree with the server |
| `client_overtaken` | expected violation; a prompt, or a run and a steer | the finding of section 6 |
| `transcript` | 3 texts of which two overlap, twelve budgets of two to five chances | messages, replies and queue |
| `transcript_steers` | expected violation; a prompt and two steers | the finding of section 7 |
| `workspace` | 3 panes, 3 session ids, 2 native ids | panes, sessions, storage and work |

Why the bounds are enough. Each race needs an actor and one that overtakes it: two
handlers, and a task. Two downloads are needed for overlapping targets and three owners
so that one can be retired while two are active. In `AcpTurn` a second resume task can
exist only after the first one's turn was taken over, and the limits matter only
through "one left" and "none left", which 2, 1 and 1 reach; the code's 2, 8 and 1800
differ in number only. The two addresses of `acp_restart` are an old session and a new
one. Handlers, ids, owners, tasks and addresses are interchangeable, so safety runs
may use symmetry; runs with liveness properties do not.

In `SessionEvents` a race over the cursor needs an old answer and a new one: the pump
holds one, and a sender or a status request the other. A ring of one event against two
numbers is the smallest in which an event is evicted before it is asked for, and two
lives are an old process and a new one. Two senders in one run are beyond TLC's reach here:
the races of two prompts are those of `AcpTurn`, the writes a second sender could make
between the steps of the first (status, cursor, rows) are also made by the pump and the
status request, and the theorems hold for any number of senders. The harness
starts a second life in the first run and answers are lost in the second; no run does both.

In `SessionClient` two numbers are one event that is shown and one that is held or skipped,
and two kinds are one the coalescer may hold and one that flushes it. Streams, probes, polls
and renders go on without bound; what is bounded is what starts something: a
budget gives one prompt, steer, abort, replay, reload, restart, a turn of somebody else's
and one fault, and the seven budgets are the pairs and triples that meet. The proofs of the
safety properties have no such bound. In `Transcript` two steers, two prompts and two
follow-ups each have a budget, since a message is confused with another one only; the
third text is the prompt they follow. Two steers have one budget with a retry, which clears
the styling of both before either is echoed, and one with replies. In `Workspace` three panes are the least at which a
split may nest, and three sessions of two native ids are the least at which a claim closes
one pane and leaves another. New sessions are dropped above a pane and opened to its right,
which gives both directions; the sides mirror each other.

Deadlock is checked in the session runs, where a new prompt is always possible and every
step of a sender is answered, refused or lost, and in `workspace`. It is not checked in the
others: with no request pending the download manager and the harness rest, and the
browser's budgets run out.

### Fairness

`DownloadManager` assumes that the runtime schedules handlers and tasks: weak fairness
of every handler's step, and of a task's steps once it is canceled or has an answer.
Hugging Face is not fair: a transfer may hang for ever, and only cancellation ends it.

`AcpTurn` assumes that handlers, resume tasks and the reader are scheduled, that
sleeps end, and that the harness answers a prompt it has read. The last one is an
assumption about an external process: the code has no time limit on a prompt. Nothing is
assumed about subagents (they may stay pending for ever), about new prompts, or about
the harness exiting.

`SessionEvents` assumes two loops only: `runEventPump` lists, asks and ingests every
250 ms for as long as the controller lives, and `serveEvents` goes on reading the
database for an open stream. Nothing is assumed of senders, status requests, harnesses or
nodes: a node may fail to answer every time, and then the session is soon not listed.

`SessionClient` assumes that the page's timers fire (watchdog, reconnect, poll, graces,
frame), that React renders what was committed, that every request is answered, with success
or failure, and that the browser delivers what an open stream carries. Turns, faults, replays
and reloads are left to chance, and so is what the runtime does: the properties speak of a
server that has stopped, or goes on, for good.

### Proofs

TLAPS proves the following for any finite or infinite sets of actors and any limits,
from `Spec` and the named assumptions of the modules on their constants alone (limits
are naturals, `None` is not the name of anything, the target relation is what
`ASSUME`s in `DownloadManager` say, the budgets are functions into the naturals, the
layout operations obey `LayoutLaws`).

`DownloadManagerProofs`: `TypeCorrect`, `TargetsExclusive`, `InstallSafe`,
`FreedNowhere`, all from `ReservationsHold`. `ExclusiveTargets` is not inductive: it
speaks of tasks, and a task is allowed to write because its owner holds the
reservation, which the handler took before there was an owner. `ReservationInv` says
where each reservation is (with a handler between taking it and installing the owner,
or with an owner that is not yet retired), that reservations do not conflict, and that
the map, the list of retired owners and the freed owners are disjoint. Each
action is shown to keep the part it touches.

`DownloadRecordProofs`: `RunningIsDriven` and `StopsStick`, from `StatusHolds`. A running
record needs a task, and the task may be on its way out: so `StatusInv` says of each task
that when it retires, or when somebody has asked it to stop, its record is settled or its
owner's id is among the `orphaned` (`Excused`), also when the failure that made it retire
could not be recorded; of a handler that has written a stop and not yet
found the owner, the same, unless a resume overtook it (`late`); and that "check" and
"complete" are reached only with every file on disk, the one way a task may write
over a stop. A step on one record disturbs no other task, because the id of a live task
is that of no other live task and of no handler about to start one: both would
hold overlapping reservations (`LiveIsAlone`, from `ReservationInv`).

`DownloadRecordProofs` as well: `HandlesStayLive`, from `PinsHold`. `handles` is a counter that
`stop` raises and lowers in different lock sections; `PinInv` says that it is the
number of stop requests now pointing to the owner, that what `pruneRetired` has put aside to
free is pointed to by nobody, and that nobody points to what a handler has reserved and not
yet spawned. The exception in the property is an owner whose task cannot be spawned: it is
thrown away with whoever found it in between.

`AcpTurnProofs`: `TurnsAreTyped`, `TurnsAreSingle`, `ExitsAreFinal`, `ReadersAreSafe`,
`TurnsAreDriven`, all from `TurnsHold`. `TurnInv` adds to the properties that a
session runs exactly while its reader does, that the active request of a running
session is outstanding, and that whoever is past "idle" points to an address. One lemma
(`OneSlot`) reduces every step to the one session it touches; one lemma per action
does the rest. The interesting case is `WakeKeeps`: a resume task that finds itself
withdrawn leaves, and the turn still has somebody, because either a request is
outstanding or `resume_scheduled` is off, and then it was not this task that kept the
turn going.

`AcpTurnProofs` as well: `OutstandingSaysActive` and `ResumesAreCurrent`, from `SoloHolds`. A turn
passes from the outstanding request to the reader that is about to spawn a resume task, to
the task, and back to a request; `Solo` says that on a session nobody overtook exactly one
of them has it, that the session's two flags say which, and that a task whose write failed
is left over only where the harness is deaf or gone. A task of an earlier turn can be alive
beside a new turn only because a handler started that turn from what it had read before:
`StaleIsOvertaken` says so, and with it an overtaken session is the only one on which either
property could fail.

`SessionEventsProofs`: `EventsAreTyped`, `CursorNamesLastRow` and `StoredStays`, from
`EventsInv`, for all kinds of harness, numbers of senders, status requests and browsers,
and bounds. The cursor is the last row because every answer is a batch without holes
whose end is the harness's number (`RepliesAreBatches`), and because a sender never
saves a cursor larger than the stored one: it read it earlier, and it only grows
(`MarksAreOld`, without which saving a row would leave a cursor that names no event).
`ReadersAreComplete` and `ImplementsEventLog` hold under `OnlyPump`, the condition
explained in section 5. `LogInv` adds that turns bring no events, that an answer the
pump holds starts at or after the cursor (`PumpIsNext`: nobody else moves it while the
pump waits), and that no browser is ahead of the cursor. Then an ingestion that stores
something is `Extend`, a delivery is `CatchUp`, and every other step stutters.

`SessionEventsProofs` as well: `ChatsArePersisted`, from `ChatHolds`, also under `OnlyPump`. The
embedded chat has no process that ends, so its harness session is there until the
controller restarts, and a restart takes the pump's answer and every sender with it. Until
the next session starts nothing moves the cursor, and so each number a sender has read is the
cursor (`MarksAreCurrent`): the session numbers on from it, whichever sender gets there first.
While the session is there the pump's answer begins at the cursor, or at what the ring had
lost when it asked (`PumpBringsNext`), and the ring only loses more.

`SessionClientProofs`: `OnceHolds`, `WholeHolds`, `PersistedHolds`, `HeldHolds` and
`StaleListHolds`, all from `ClientHolds`, for any kinds, numbers, lives and budgets. None of
the properties is inductive: an event that arrives again is harmless only if the stream is
behind the gate or the gate refuses it, and an event that is held counts like one that is
shown. `ClientInv` therefore has, beside the types, `Cursors` (what is held lies between the
two cursors), `ViewInv` (an event is shown or held once, none beyond the gate, and while
nothing lapsed each one within it), `StreamInv` (the stream never sends what is beyond the next
number: it is opened at the gate, and only a lapse sets the gate back under it) and
`PollInv` (a fetch knows the graces that were given before it is applied). One lemma says
that applying the next event keeps the view (`SteppedKeeps`), one that moving what is held into the
transcript does (`Carried`), and the actions that do something of their own, the reconciling
render, the rewind and the replay, have lemmas of their own.

`WorkspaceProofs`: `PanesHold`, `NativesHold`, `StoredHolds` and `WorkHolds`, all from
`WorkspaceHolds`, for any panes (more than one), sessions and native ids, and for any
layouts that obey `LayoutLaws`. `WorkspaceInv` adds to the properties that every map has the
right kinds of things in it, and what the storage must be for a reload to restore a whole
state: a record per leaf, each with at most one tab, records of one session alike
(`StoredIsWhole`), and no native id under two sessions unless copied (`StoredIsSingle`,
without which a reload could bring a duplicate back). Each operation has a lemma that takes
a whole state to a whole one (`StepOK`); they meet in `ClaimStep`: before a claim the native
ids need be single only among the *other* sessions, and the claim removes whoever shares the
claimant's, closes the panes that would then show it twice, and keeps the focus if the
claimant had it. That no work is lost composes from steps that keep every working session
as it is (`KeptAsIs`) and a claim at the end, the one step that may merge it into another.

`TranscriptProofs`: `TranscriptHolds`, `DeliveredHolds` and `QueueConvergesHolds`, and over it
`TranscriptReplyProofs`: `ShownOnceHolds` and `RepliesHolds`, for any texts, any of them alike, and any budgets. `TypeInv` and `RefsInv` are the ground: ids are issued in
order, so that what is added stands last; a request refers to a message by an id under which
there is that message or none; each `message_start` on the wire has its `message_end` behind
it. Every step of the page is then one of a few kinds: it keeps the messages, takes one away,
or adds one at the end (`Grows`, `Keeps`, `AddsMessage`). `DeliveredIsShown` is not inductive because
of promotions: the refusal takes its copy of a message back, and the copy must not be the
only one that was echoed. `EchoedInv` says that what was echoed is shown by a message other
than the copy, or by one that no longer waits for its echo, and taking that one back is the excuse
`rollback`. `ShownOnce` needs to know that what is about to be shown is not shown yet: a message comes
from the composer, with a text that is nowhere (`UsedInv`), from an echo, or from an abort,
which sends a follow-up again. An echo adds a message only if it finds no marker and another
message stands last. If its message is shown all the same, either it is not the first of a
steer, and that is `crossed`; or it is, and `MarkedInv` says that a steer pi has yet to show
(`Owed`) has kept its marker, or that its two events are half delivered, which come together
(`Adjacent`). `MarkedInv` is kept by every step but the end of a turn that pi has not shown
the steer in (`outlived`), and rests on `SteerInv`: a steer is not a prompt, is not in a
queue, and is asked of pi once.
`WaitsInv` is about the abort: a follow-up that waits, in the page's queue, in pi's, in a
queue event or with an abort, is shown only if the stream has echoed it or is about to, and
sending it again is then the excuse `resent`. `OnceInv` is the property with the copy of a
promotion left out.

`QueueConverges` speaks of the moment at which nothing is under way; the invariant behind it,
`QueueInv`, says at every moment how what is shown will become what pi holds. `Ordered` reads
the stream from its head to its tail: the first list on it fits what is shown, each list leads
to the next by one change of pi's (a text added at the end, texts taken from the front), the
last list is pi's, and with no list on the stream what is shown begins with pi's list. To
*fit* is what `Reconcile` needs: what the two lists share comes first in the new one, in the
same order, so that keeping the old items in their places and adding the new ones at the end
gives pi's order; fitting is kept along the stream (`FullLeads`, `OrderedAfter`). It is not
enough alone. An echo takes a text out of the queue, and is harmless only because no later
list has it; the page adds a text at the end, and is right only if no list on the stream has
it already. `StagesInv` says where a follow-up may be: asked of pi, on the stream or in pi's
list, held by an abort, said as a prompt or a steer, echoed, and which of these exclude each
other; `SinglesInv` that it is in each place once. `PendingInv` gives the end: what is shown,
with no list on the stream, is in pi's list or its request is still open. The excuses are the
three ways to break this: a message is taken back that pi has (`rollback`), sent again though
it is somewhere (`resent`), or cleared with the queue that an abort sends again (`cleared`).

`RepliesAnswer` is about where a reply lands that is still on the stream. Three parts of
`AnswerInv` say it. `PageAnswers`: the live bubble and the live target are the last bubble or
none (`Live`), and while anything is under way that bubble is below every message that waits for no
echo and has only replies to the last of these (`Opened`, `Faces`). `StreamAnswers`: each reply on the
stream is to the message of the last echo before it, and, where no echo is before it, to the
one that the page shows last (`Telling`, `Speaks`); the same holds of what the run under way
says next, and a run that has settled has said all. `PromptsAnswer`: a prompt on its way
meets a runtime at rest, and its bubble is the last. An echo then carries the stream's part over
into the page's: it brightens the message that waits for it, or finds it last, or adds it, and opens a
bubble below (`EchoAnswers`). Since an echo is two events, the invariant also says what holds
between them (`Halfway`) and that they come together (`Adjacent`); and that the second does not find
another message to brighten is `DimInv`: of each text one message waits for an echo at most,
which rests on `OnceInv` and `WaitsInv`. The excuses are the steps that break `Live` (`late`,
`pinned`), the stream's part (`tail`, `lost`), or what an echo finds (`overlap`, `rollback`).

TLC checks `ReservationInv` and `TurnInv` as well, and of `EventsInv` the two parts that
are properties, `TypeOK` and `CursorIsLastRow`. Model-checked only are: liveness
(`StopIsAnswered`, `TurnSettles`, `ListedIsDrained`, `StoredIsDelivered`,
`StoppedBecomesIdle`, `ActiveCatchesUp`; temporal proofs under fairness are out of the
prover's reach), and the laws of `LayoutLaws` for the trees of `PaneLayout`, which are
recursive (inductions over data). Every other property of a passing run is a theorem.

## 10. What is not modelled

- The bytes of a transfer, revisions and `.part` files: a model of them would be one of the
  remote server and the file system. In `DownloadManager` also: a failure to allocate or to
  take the mutex inside `pruneRetired`, `retire`, `releaseReservation` and
  `removeFailedActive`, which then return early.
- In `AcpTurn`: abort (it only writes a notification to the harness; during a back-off
  there is no prompt it could cancel and the turn resumes all the same); allocation
  failures; the failure to spawn a resume task, after which the code unlocks its mutex
  twice and leaves the session active; the wait for a harness that closed its output but
  does not exit, under the mutex of all sessions; texts.
- In `SessionEvents`: archiving a session, adoption of native sessions, slash commands,
  the execution rows that are written in the transaction of an ingestion, the
  continuation of goals by the pump, and the text of events. claude and opencode behave
  like codex and fx in everything the module keeps.
- In `SessionClient`: two sessions with the same native id, whose list entries
  `collidingPiSessionIds` leaves out, and the pruning of the maps of sessions that have gone;
  a restart of the runtime in the middle of a replay; loading earlier messages, compaction
  beyond the replay it ends with, and the set-up of a checkout or sandbox before a prompt.
- In `Transcript`: what is inside a bubble (tools, text, thinking), extension requests,
  session headers, the folding of a canonical log, and `message` events, whose user messages
  are appended as they are, in a log and also on the live stream; the errors a
  request ends with before it is sent (no model chosen, no session on the server, a checkout
  or sandbox that cannot be set up); attachments.
- In `Workspace`: titles, drafts, models, the ratio of a split, the layouts of older
  versions, the replay queue, windows opened with `restore=0`, two windows on one storage.
- Controller components without a module. The execution ledger is written inside the
  coordinator's transactions and read by views only. Goals, automations, messaging and
  subagents start turns of sessions: `SessionEvents` and `SessionClient` have them as turns
  somebody else starts. The inference supervisor, compute instances, install jobs, model relay
  and topology have state and races of their own (a launch racing an eviction, two
  placements at once, a late completion after a timeout) and would each be worth a module;
  the sessions came first. Cloud workers live at a provider whose interface is outside
  the repository.
- Provider gateways, connectors, accounts, browser service, terminal and HTTP parsing are
  translation or I/O without a protocol of their own.
- The rest of the frontend, by far the largest part of the repository's TypeScript: React
  components that render the modelled state and turn clicks into the modelled dispatches,
  settings, set-up, dashboards and logs (forms and views over the controller's HTTP
  interface), page routes, the design system, and the desktop shell.
- The realtime mobile contract in `src/docs` is a plan that no code implements.
