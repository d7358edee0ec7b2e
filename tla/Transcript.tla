------------------------------ MODULE Transcript ------------------------------
(***************************************************************************)
(* What the user sees of one pi session: the messages, the bubbles the     *)
(* replies are written into, and the queue of follow-ups                   *)
(* (frontend/src/features/agent: runtime/pi-event-applier.ts,              *)
(* runtime/prompt-stream.ts, the requests of runtime/engine.ts and         *)
(* ui/chat-pane-send-flow.ts with its model).                              *)
(*                                                                         *)
(* A sent message is shown at once and is sent in a request; the runtime   *)
(* echoes it in the event stream when it shows it to the model.  Requests  *)
(* are answered, and events delivered, in any order relative to each       *)
(* other.  The events themselves are delivered once and in order, which is *)
(* what SessionClient is about.  Every message the user writes has a text  *)
(* of its own.                                                             *)
(*                                                                         *)
(* The lists the page shows, messages and queue, only grow at their end:   *)
(* they are functions from the ids of their items, which are issued in     *)
(* order, so that an item stands before those with a larger id.            *)
(***************************************************************************)
EXTENDS Naturals, FiniteSets, Sequences, Functions

CONSTANTS
    Texts,       \* texts of messages
    None,        \* no text
    Overlaps,    \* pairs of texts of which one contains the other
    Budgets      \* bound: how often each of Chances happens, one choice for a behaviour

\* What the user, the runtime and the network do of their own accord
Chances == {"prompt", "steer", "follow_up", "promote", "abort", "reply", "retry", "break"}

ASSUME TextsAssumption == None \notin Texts /\ Overlaps \subseteq Texts \X Texts
ASSUME BudgetsAssumption == Budgets \subseteq [Chances -> Nat]

VARIABLES
    pi,         \* external: the run under way and the messages pi holds
    wire,       \* events the stream has not delivered yet
    tab,        \* the Session record: messages, active bubble, queue; and its live target
    prompts,    \* submitPromptTurn under way, from the composer or resumed by an abort
    controls,   \* queueAndSendControl under way, likewise
    promote,    \* steerQueued under way
    abort,      \* abortTurn under way
    left,       \* what remains of the budget
    told        \* history: texts used, steered and echoed, and why the transcript may be wrong

vars == <<pi, wire, tab, prompts, controls, promote, abort, left, told>>

Senders == {"composer", "resume"}
Statuses == {"idle", "starting", "running", "stopping"}
Event(k, t, q) == [k |-> k, t |-> t, q |-> q]
Echo(t) == <<Event("start", t, <<>>), Event("end", t, <<>>)>>
Queued(q) == Event("queue", None, q)
RunEnds == <<Event("agent_end", None, <<>>), Event("settled", None, <<>>)>>

NoPrompt == [st |-> "none", bubble |-> 0, text |-> None]
NoControl == [st |-> "none", mode |-> "steer", id |-> 0, text |-> None]
Nothing == [i \in {} |-> None]
NoAbort == [st |-> "none", held |-> Nothing]

Spend(chance) == left[chance] > 0 /\ left' = [left EXCEPT ![chance] = @ - 1]
Fresh == Texts \ told.used

Init ==
    /\ pi = [run |-> FALSE, on |-> None, steering |-> <<>>, followUp |-> <<>>]
    /\ wire = <<>>
    /\ tab = [status |-> "idle", msgs |-> Nothing, active |-> 0, pin |-> 0,
              queue |-> Nothing, next |-> 1]
    /\ prompts = [s \in Senders |-> NoPrompt]
    /\ controls = [s \in Senders |-> NoControl]
    /\ promote = 0
    /\ abort = NoAbort
    /\ left \in Budgets
    /\ told = [used |-> {}, steers |-> {}, echoed |-> {}, lapse |-> {}]

Lapse(why) == [told EXCEPT !.lapse = @ \cup why]

-----------------------------------------------------------------------------
(* The transcript: pi-event-applier.ts and the optimistic updates.         *)

User(t, dimmed) ==
    [role |-> "user", text |-> t, pending |-> dimmed, awaiting |-> dimmed, got |-> {}]
Bubble == [role |-> "assistant", text |-> None, pending |-> FALSE, awaiting |-> FALSE, got |-> {}]

Earliest(ids) == CHOOSE i \in ids : \A j \in ids : i <= j
Latest(ids) == CHOOSE i \in ids : \A j \in ids : j <= i
Add(list, id, item) == [i \in DOMAIN list \cup {id} |-> IF i = id THEN item ELSE list[i]]
Without(list, id) == [i \in DOMAIN list \ {id} |-> list[i]]

Users(msgs) == {i \in DOMAIN msgs : msgs[i].role = "user"}
Bubbles(msgs) == {i \in DOMAIN msgs : msgs[i].role = "assistant"}
Shown(t) == {i \in Users(tab.msgs) : tab.msgs[i].text = t}

Say(c, t, dimmed) == [c EXCEPT !.msgs = Add(@, c.next, User(t, dimmed)), !.next = @ + 1]
OpenBubble(c) == [c EXCEPT !.msgs = Add(@, c.next, Bubble), !.active = c.next, !.next = @ + 1]
PinActive(c) == [c EXCEPT !.pin = c.active]
SettleTurn(c) == [c EXCEPT !.status = "idle", !.active = 0]
DropPin(c) == [c EXCEPT !.pin = 0]

\* resolveAssistantTarget: the pin, the active bubble, the last one, or a new one.
Resolve(c) ==
    LET checked == [c EXCEPT !.pin = IF @ \in DOMAIN c.msgs THEN @ ELSE 0] IN
    IF c.pin \in DOMAIN c.msgs THEN [c EXCEPT !.active = c.pin]
    ELSE IF c.active \in DOMAIN c.msgs THEN checked
    ELSE IF Bubbles(c.msgs) # {} THEN [checked EXCEPT !.active = Latest(Bubbles(c.msgs))]
    ELSE OpenBubble(checked)

\* patchAssistantMessage with a part of a reply to t
Write(c, t) ==
    LET r == Resolve(c) IN [r EXCEPT !.msgs[r.active].got = @ \cup {t}]

\* removeDeliveredQueuedMessage
Delivered(queue, t) ==
    LET those == {i \in DOMAIN queue : queue[i] = t}
    IN  IF those = {} THEN queue ELSE Without(queue, Earliest(those))

\* Mutant: the marker is the one that styles a message, which each end of a run clears.
AwaitedPending(msgs, t) == {i \in Users(msgs) : msgs[i].pending /\ msgs[i].text = t}

\* findPendingUserMessage and hasMatchingLastUserMessage
Awaited(msgs, t) ==
    {i \in Users(msgs) : (msgs[i].awaiting \/ msgs[i].pending) /\ msgs[i].text = t}
Alike(t, u) == t = u \/ <<t, u>> \in Overlaps \/ <<u, t>> \in Overlaps
MatchesLast(msgs, t) == Users(msgs) # {} /\ Alike(msgs[Latest(Users(msgs))].text, t)

\* The message that waits for the echo is brightened.
Brighten(c, w) == [c EXCEPT !.msgs[w] = [@ EXCEPT !.pending = FALSE, !.awaiting = FALSE]]

\* Mutant: the second of the two events of an echo is not matched with the first.
EchoUserAppends(c, t) ==
    LET dequeued == [c EXCEPT !.queue = Delivered(@, t)]
        waiting == Awaited(c.msgs, t)
    IN  IF waiting # {} THEN PinActive(OpenBubble(Brighten(dequeued, Latest(waiting))))
        ELSE PinActive(OpenBubble(Say(dequeued, t, FALSE)))

\* Mutant: a message the page did not show itself is not shown at all.
EchoUserOnlyMarks(c, t) ==
    LET dequeued == [c EXCEPT !.queue = Delivered(@, t)]
        waiting == Awaited(c.msgs, t)
    IN  IF waiting # {} THEN PinActive(OpenBubble(Brighten(dequeued, Latest(waiting))))
        ELSE dequeued

\* Mutant: a steer is brightened and the reply stays in the bubble above it.
EchoUserKeepsBubble(c, t) ==
    LET dequeued == [c EXCEPT !.queue = Delivered(@, t)]
        waiting == Awaited(c.msgs, t)
    IN  IF waiting # {} THEN Brighten(dequeued, Latest(waiting))
        ELSE IF MatchesLast(c.msgs, t) THEN dequeued
        ELSE PinActive(OpenBubble(Say(dequeued, t, FALSE)))

\* reduceUserMessageEvent of a live echo: brighten the message that waits for it, or take it
\* for the one just shown, or append it; a new bubble opens for the reply.
EchoUser(c, t) ==
    LET dequeued == [c EXCEPT !.queue = Delivered(@, t)]
        waiting == Awaited(c.msgs, t)
    IN  IF waiting # {} THEN PinActive(OpenBubble(Brighten(dequeued, Latest(waiting))))
        ELSE IF MatchesLast(c.msgs, t) THEN dequeued
        ELSE PinActive(OpenBubble(Say(dequeued, t, FALSE)))

\* The queue with those of its items that stay and those of pi's list that are new to it
Enqueue(c, stay, held, new) ==
    LET place(n) == c.next + n - 1 IN
    [c EXCEPT !.queue = [i \in stay \cup {place(n) : n \in new} |->
                           IF i \in stay THEN c.queue[i] ELSE held[i - c.next + 1]],
              !.next = @ + Len(held)]

\* Mutant: what pi holds is added to what is shown without matching the two.
ReconcileAdds(c, held) ==
    Enqueue(c, {i \in DOMAIN c.queue : c.queue[i] \in Range(held)}, held, DOMAIN held)

\* reconcileQueueWithPiEvent: every local item was sent, so pi's list decides; equal texts
\* are matched in order.
Reconcile(c, held) ==
    LET nth(list, i) == Cardinality({j \in DOMAIN list : j <= i /\ list[j] = list[i]})
        count(list, t) == Cardinality({j \in DOMAIN list : list[j] = t})
    IN  Enqueue(c, {i \in DOMAIN c.queue : nth(c.queue, i) <= count(held, c.queue[i])},
                held, {n \in DOMAIN held : nth(held, n) > count(c.queue, held[n])})

ClearPending(c) == [c EXCEPT !.msgs = [i \in DOMAIN @ |-> [@[i] EXCEPT !.pending = FALSE]]]
ClearAwaiting(c) == [c EXCEPT !.msgs = [i \in DOMAIN @ |-> [@[i] EXCEPT !.awaiting = FALSE]]]

\* reduceSessionEvent, and applyPiPayload for the end of the turn
Reduce(c, e) ==
    CASE e.k \in {"start", "end"} -> EchoUser(c, e.t)
      [] e.k = "reply" -> Write(c, e.t)
      [] e.k = "queue" -> Reconcile(c, e.q)
      [] e.k = "agent_end" -> ClearPending(Resolve(c))
      [] e.k = "settled" -> DropPin(ClearAwaiting(SettleTurn(c)))

-----------------------------------------------------------------------------
(* The runtime: what pi does with its messages.                            *)

Works(msgs) == pi' = msgs /\ UNCHANGED <<tab, prompts, controls, promote, abort, told>>

\* Pi shows the model a steer, or a follow-up when there is none.
PiDelivers ==
    /\ pi.run
    /\ \/ /\ pi.steering # <<>>
          /\ Works([pi EXCEPT !.on = Head(pi.steering), !.steering = Tail(@)])
          /\ wire' = wire \o Echo(Head(pi.steering))
       \/ /\ pi.steering = <<>> /\ pi.followUp # <<>>
          /\ Works([pi EXCEPT !.on = Head(pi.followUp), !.followUp = Tail(@)])
          /\ wire' = Append(wire, Queued(Tail(pi.followUp))) \o Echo(Head(pi.followUp))
    /\ UNCHANGED left

PiReplies ==
    /\ pi.run /\ Spend("reply")
    /\ wire' = Append(wire, Event("reply", pi.on, <<>>))
    /\ Works(pi)

\* agent_end in the middle of a prompt: a retry or a compaction follows.
PiRetries ==
    /\ pi.run /\ Spend("retry")
    /\ wire' = Append(wire, Event("agent_end", None, <<>>))
    /\ Works(pi)

PiSettles ==
    /\ pi.run /\ pi.steering = <<>> /\ pi.followUp = <<>>
    /\ wire' = wire \o RunEnds
    /\ Works([pi EXCEPT !.run = FALSE])
    /\ UNCHANGED left

\* Pi's answers to a prompt and to a message for the run under way
Starts(t) ==
    /\ ~pi.run
    /\ pi' = [pi EXCEPT !.run = TRUE, !.on = t]
    /\ wire' = wire \o Echo(t)
Holds(mode, t) ==
    /\ pi.run
    /\ IF mode = "steer"
       THEN pi' = [pi EXCEPT !.steering = Append(@, t)] /\ UNCHANGED wire
       ELSE /\ pi' = [pi EXCEPT !.followUp = Append(@, t)]
            /\ wire' = Append(wire, Queued(Append(pi.followUp, t)))

Runtime == PiDelivers \/ PiReplies \/ PiRetries \/ PiSettles

-----------------------------------------------------------------------------
(* The stream and the poll.                                                *)

\* The request of a steer is on its way, pi holds it, or it is on the stream to be shown.
Owed(t) == \/ \E s \in Senders : /\ controls[s].st = "sent" /\ controls[s].mode = "steer"
                               /\ controls[s].text = t
           \/ t \in Range(pi.steering)
           \/ \E e \in Range(wire) : e.k = "start" /\ e.t = t

\* Another message was shown below this one, and this echo is not the first of a steer's.
Crossed(e) ==
    IF /\ e.k \in {"start", "end"}
       /\ Shown(e.t) # {} /\ tab.msgs[Latest(Users(tab.msgs))].text # e.t
       /\ e.k = "start" => e.t \notin told.steers \ told.echoed
    THEN {"crossed"} ELSE {}

\* The turn settles before pi has shown a steer.
Outlived(e) ==
    IF e.k = "settled" /\ \E t \in told.steers : Shown(t) # {} /\ Owed(t)
    THEN {"outlived"} ELSE {}

\* An echo takes a message of another text for its own.
Overlapped(e) ==
    IF /\ e.k \in {"start", "end"} /\ Awaited(tab.msgs, e.t) = {} /\ MatchesLast(tab.msgs, e.t)
       /\ tab.msgs[Latest(Users(tab.msgs))].text # e.t
    THEN {"overlap"} ELSE {}

Mistaken(e) == Crossed(e) \cup Outlived(e) \cup Overlapped(e)

\* The stream is attached while the session is running or stopping.
Receive ==
    /\ wire # <<>> /\ tab.status \in {"running", "stopping"}
    /\ wire' = Tail(wire)
    /\ tab' = Reduce(tab, Head(wire))
    /\ told' = [told EXCEPT !.echoed = IF Head(wire).k = "end" THEN @ \cup {Head(wire).t} ELSE @,
                            !.lapse = @ \cup Mistaken(Head(wire))]
    /\ UNCHANGED <<pi, prompts, controls, promote, abort, left>>

\* A session that is idled leaves what the stream still carries to the next turn.
Tailed == IF wire = <<>> THEN {} ELSE {"tail"}

\* promoteFromRuntimeList and idleFromRuntimeList
Poll ==
    /\ \/ /\ pi.run /\ tab.status \in {"idle", "starting"}
          /\ tab' = [tab EXCEPT !.status = "running"]
          /\ UNCHANGED told
       \/ /\ ~pi.run /\ tab.status \in {"running", "stopping"}
          /\ tab' = DropPin(SettleTurn(tab))
          /\ told' = Lapse(Tailed)
    /\ UNCHANGED <<pi, wire, prompts, controls, promote, abort, left>>

-----------------------------------------------------------------------------
(* Prompts.                                                                *)

\* appendOptimisticPrompt: the message and the bubble for its reply.
Optimistic(c, t) == [OpenBubble(Say(c, t, FALSE)) EXCEPT !.status = "starting"]

\* submitPromptTurn of a session c
Submit(s, c, t) ==
    /\ tab' = Optimistic(c, t)
    /\ prompts' = [prompts EXCEPT ![s] = [st |-> "sent", bubble |-> Optimistic(c, t).active,
                                         text |-> t]]

\* A live target that outlives its turn takes the next prompt's reply until that is accepted.
Pinned == IF tab.pin \in DOMAIN tab.msgs THEN {"pinned"} ELSE {}

\* A run under way, or the one that a prompt on its way starts, writes into the bubble of a
\* prompt that is shown meanwhile, and into an older one when its own is taken back.
Lost(senders) ==
    IF pi.run \/ \E s \in senders : prompts[s].st = "sent" THEN {"lost"} ELSE {}

\* sendMessage and queueMessage of a session that does not accept control
SendPrompt ==
    /\ Spend("prompt") /\ prompts["composer"].st = "none"
    /\ tab.status = "idle" \/ ~pi.run
    /\ \E t \in Fresh :
          /\ Submit("composer", tab, t)
          /\ told' = [told EXCEPT !.used = @ \cup {t},
                                  !.lapse = @ \cup Pinned \cup Tailed \cup Lost(Senders)]
    /\ UNCHANGED <<pi, wire, controls, promote, abort>>

Prompted(s, st) == prompts' = [prompts EXCEPT ![s].st = st]

\* A prompt that meets a run is refused or taken as a steer; an answer may be lost.
TakePrompt(s) ==
    LET t == prompts[s].text IN
    /\ prompts[s].st = "sent"
    /\ \/ (Starts(t) \/ Holds("steer", t)) /\ Prompted(s, "taken") /\ UNCHANGED left
       \/ pi.run /\ Prompted(s, "failed") /\ UNCHANGED <<pi, wire, left>>
       \/ /\ Spend("break") /\ Prompted(s, "failed")
          /\ Starts(t) \/ UNCHANGED <<pi, wire>>
    /\ UNCHANGED <<tab, controls, promote, abort, told>>

\* The session runs on its active bubble; noteTurnAccepted sets the live target to the bubble
\* of the prompt that was accepted.
AcceptPrompt(s) ==
    LET b == prompts[s].bubble IN
    /\ prompts[s].st \in {"taken", "active"}
    /\ tab' = [tab EXCEPT !.status = "running", !.active = IF @ = 0 THEN b ELSE @, !.pin = b]
    /\ told' = Lapse(IF \E i \in Bubbles(tab.msgs) : i > b THEN {"late"} ELSE {})
    /\ prompts' = [prompts EXCEPT ![s] = NoPrompt]
    /\ UNCHANGED <<pi, wire, controls, promote, abort, left>>

ProbeFailedPrompt(s) ==
    /\ prompts[s].st = "failed"
    /\ \/ Prompted(s, IF pi.run THEN "active" ELSE "idle") /\ UNCHANGED left
       \/ Spend("break") /\ Prompted(s, "idle")
    /\ UNCHANGED <<pi, wire, tab, controls, promote, abort, told>>

\* settleFailedTurn, unless a newer turn owns the session
SettleFailedPrompt(s) ==
    LET b == prompts[s].bubble IN
    /\ prompts[s].st = "idle"
    /\ IF tab.active \in {0, b}
       THEN /\ tab' = [SettleTurn(tab) EXCEPT !.msgs = Without(@, b)]
            /\ told' = Lapse(Tailed \cup Lost({}))
       ELSE UNCHANGED <<tab, told>>
    /\ prompts' = [prompts EXCEPT ![s] = NoPrompt]
    /\ UNCHANGED <<pi, wire, controls, promote, abort, left>>

-----------------------------------------------------------------------------
(* Steers and follow-ups.                                                  *)

\* queueAndSendControl: a steer is shown dimmed, a follow-up is queued.
Control(s, mode, t) ==
    /\ tab' = IF mode = "steer" THEN Say(tab, t, TRUE)
              ELSE [tab EXCEPT !.queue = Add(@, tab.next, t), !.next = @ + 1]
    /\ controls' = [controls EXCEPT ![s] = [st |-> "sent", mode |-> mode, id |-> tab.next,
                                            text |-> t]]

\* sendMessage and queueMessage of a session whose runtime says it runs
SendControl ==
    /\ controls["composer"].st = "none" /\ tab.status # "idle" /\ pi.run
    /\ \E mode \in {"steer", "follow_up"}, t \in Fresh :
          /\ Spend(mode)
          /\ Control("composer", mode, t)
          /\ told' = [told EXCEPT !.used = @ \cup {t},
                                  !.steers = IF mode = "steer" THEN @ \cup {t} ELSE @]
    /\ UNCHANGED <<pi, wire, prompts, promote, abort>>

Controlled(s, st) == controls' = [controls EXCEPT ![s].st = st]

\* Only a run takes them; an answer may be lost.
TakeControl(s) ==
    /\ controls[s].st = "sent"
    /\ \/ Holds(controls[s].mode, controls[s].text) /\ Controlled(s, "taken") /\ UNCHANGED left
       \/ ~pi.run /\ Controlled(s, "failed") /\ UNCHANGED <<pi, wire, left>>
       \/ /\ Spend("break") /\ Controlled(s, "failed")
          /\ Holds(controls[s].mode, controls[s].text) \/ UNCHANGED <<pi, wire>>
    /\ UNCHANGED <<tab, prompts, promote, abort, told>>

\* sendControl, and noteTurnAccepted without a bubble
AcceptControl(s) ==
    /\ controls[s].st = "taken"
    /\ tab' = DropPin([tab EXCEPT !.status = "running"])
    /\ controls' = [controls EXCEPT ![s] = NoControl]
    /\ UNCHANGED <<pi, wire, prompts, promote, abort, left, told>>

\* Pi has the message, or the stream still carries it
InFlight(t) == \/ t \in Range(pi.steering) \cup Range(pi.followUp)
               \/ \E e \in Range(wire) : e.t = t \/ t \in Range(e.q)

\* A message that is taken back though pi has, or had, it
TakenBack(t) == IF t \in told.echoed \/ InFlight(t) THEN {"rollback"} ELSE {}

\* A failed message goes back into the composer.
RollBackControl(s) ==
    LET id == controls[s].id IN
    /\ controls[s].st = "failed"
    /\ tab' = [tab EXCEPT !.msgs = Without(@, id),
                          !.queue = Without(@, id)]
    /\ told' = Lapse(TakenBack(controls[s].text))
    /\ controls' = [controls EXCEPT ![s] = NoControl]
    /\ UNCHANGED <<pi, wire, prompts, promote, abort, left>>

\* steerQueued shows the queued message as a steer; the server refuses every queueAction.
Promote ==
    /\ promote = 0 /\ tab.status # "idle" /\ Spend("promote")
    /\ \E i \in DOMAIN tab.queue : tab' = Say(tab, tab.queue[i], TRUE)
    /\ promote' = tab.next
    /\ UNCHANGED <<pi, wire, prompts, controls, abort, told>>

PromoteRefused ==
    /\ promote # 0
    /\ tab' = [tab EXCEPT !.msgs = Without(@, promote)]
    /\ told' = Lapse(IF promote \in DOMAIN tab.msgs /\ ~tab.msgs[promote].awaiting
                     THEN TakenBack(tab.msgs[promote].text) ELSE {})
    /\ promote' = 0
    /\ UNCHANGED <<pi, wire, prompts, controls, abort, left>>

-----------------------------------------------------------------------------
(* Aborts.                                                                 *)

\* abortTurn, with the queue as it was rendered
Abort ==
    /\ Spend("abort") /\ abort.st = "none" /\ tab.status # "idle"
    /\ tab' = [tab EXCEPT !.status = "stopping"]
    /\ abort' = [st |-> "sent", held |-> tab.queue]
    /\ UNCHANGED <<pi, wire, prompts, controls, promote, told>>

\* Pi stops the run and keeps or clears what it holds; a failure is swallowed, and the answer
\* lists nothing as cleared.
TakeAbort ==
    /\ abort.st = "sent"
    /\ \/ /\ pi.run
          /\ \/ /\ pi' = [pi EXCEPT !.run = FALSE]
                /\ wire' = wire \o RunEnds
             \/ /\ pi' = [pi EXCEPT !.run = FALSE, !.steering = <<>>, !.followUp = <<>>]
                /\ wire' = Append(wire, Queued(<<>>)) \o RunEnds
          /\ UNCHANGED left
       \/ ~pi.run /\ UNCHANGED <<pi, wire, left>>
       \/ Spend("break") /\ UNCHANGED <<pi, wire>>
    /\ abort' = [abort EXCEPT !.st = "answered"]
    /\ UNCHANGED <<tab, prompts, controls, promote, told>>

\* Follow-ups that are sent again though pi has shown them to the model, they are in flight
\* or still to be sent, or another of them is the same
SentAgain ==
    IF \E i \in DOMAIN abort.held :
          \/ TakenBack(abort.held[i]) # {}
          \/ \E s \in Senders : controls[s].st = "sent" /\ controls[s].text = abort.held[i]
          \/ \E j \in DOMAIN abort.held \ {i} : abort.held[j] = abort.held[i]
    THEN {"resent"} ELSE {}

\* The answer comes when more than was sent again is queued, and clears that as well.
Cleared == IF Range(tab.queue) \subseteq Range(abort.held) THEN {} ELSE {"cleared"}

\* The turn is settled, its live target is not dropped; the queue is sent again, the first
\* message as a prompt (messagesToResumeAfterAbort).
AnswerAbort ==
    LET first == Earliest(DOMAIN abort.held) IN
    /\ abort.st = "answered"
    /\ IF DOMAIN abort.held = {}
       THEN /\ tab' = SettleTurn(tab)
            /\ abort' = NoAbort
            /\ told' = Lapse(Tailed)
            /\ UNCHANGED prompts
       ELSE /\ Submit("resume", [SettleTurn(tab) EXCEPT !.queue = Nothing], abort.held[first])
            /\ abort' = [st |-> "resuming", held |-> Without(abort.held, first)]
            /\ told' = Lapse(Tailed \cup Pinned \cup Lost(Senders) \cup SentAgain \cup Cleared)
    /\ UNCHANGED <<pi, wire, controls, promote, left>>

\* Each of the others follows, as a follow-up, the answer to the one before.
Resume ==
    LET first == Earliest(DOMAIN abort.held) IN
    /\ abort.st = "resuming"
    /\ prompts["resume"].st = "none" /\ controls["resume"].st = "none"
    /\ IF DOMAIN abort.held = {}
       THEN abort' = NoAbort /\ UNCHANGED <<tab, controls>>
       ELSE /\ Control("resume", "follow_up", abort.held[first])
            /\ abort' = [abort EXCEPT !.held = Without(@, first)]
    /\ UNCHANGED <<pi, wire, prompts, promote, left, told>>

Requests ==
    \/ SendPrompt \/ SendControl \/ Promote \/ PromoteRefused
    \/ \E s \in Senders : \/ TakePrompt(s) \/ AcceptPrompt(s)
                          \/ ProbeFailedPrompt(s) \/ SettleFailedPrompt(s)
                          \/ TakeControl(s) \/ AcceptControl(s) \/ RollBackControl(s)
    \/ Abort \/ TakeAbort \/ AnswerAbort \/ Resume

-----------------------------------------------------------------------------
Next == Runtime \/ Receive \/ Poll \/ Requests

Spec == Init /\ [][Next]_vars

-----------------------------------------------------------------------------
(* Properties.                                                             *)

Excused(why) == told.lapse \cap why # {}

\* A message is in the transcript once. A steer is known again by the marker it is shown with
\* when its first echo comes, whatever was shown, retried, settled or accepted meanwhile; every
\* other echo (a prompt's, and the second of the two) finds its message while it stands last.
ShownOnce == ~Excused({"crossed", "outlived", "resent"}) /\ promote = 0 =>
    \A t \in Texts : \A i, j \in Shown(t) : i = j

\* A message the model was shown is in the transcript.
DeliveredIsShown == ~Excused({"overlap", "rollback"}) =>
    \A t \in told.echoed : Shown(t) # {}

\* What the model writes lands below the message it answers and in a bubble of its own, while
\* prompts, steers and follow-ups are accepted, echoed and settled in any order.
RepliesAnswer == ~Excused({"late", "tail", "pinned", "lost", "overlap", "rollback"}) =>
    \A i \in DOMAIN tab.msgs :
        /\ \A t, u \in tab.msgs[i].got : t = u
        /\ \A t \in tab.msgs[i].got : \E j \in Shown(t) : j < i

\* Two steers in flight are each shown once, as the comment on findPendingUserMessage
\* promises, also when the prompt before them was.
SteersShownOnce == (\A t \in told.used \ told.steers : Cardinality(Shown(t)) <= 1) =>
    \A t \in told.steers : Cardinality(Shown(t)) <= 1

Resting == /\ wire = <<>> /\ promote = 0 /\ abort = NoAbort
           /\ \A s \in Senders : prompts[s] = NoPrompt /\ controls[s] = NoControl

\* The queue shows these texts, in this order.
Shows(queue, texts) ==
    \E place \in [DOMAIN texts -> DOMAIN queue] :
        /\ Range(place) = DOMAIN queue
        /\ \A m, n \in DOMAIN texts : m < n => place[m] < place[n]
        /\ \A n \in DOMAIN texts : queue[place[n]] = texts[n]

\* When nothing is under way the queue that is shown is the one pi holds.
QueueConverges == Resting /\ ~Excused({"rollback", "resent", "cleared"}) =>
    Shows(tab.queue, pi.followUp)

===============================================================================
