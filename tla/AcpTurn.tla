------------------------------ MODULE AcpTurn ------------------------------
(***************************************************************************)
(* One runtime session on an ACP harness (fx or opencode):                 *)
(* controller/src/agent/harness/runtime.zig.  HTTP handlers send prompts;  *)
(* one reader task per child process handles its output; a resume task     *)
(* sends a continuation after a transient failure, or when background      *)
(* subagents outlive the prompt that started them.                         *)
(*                                                                         *)
(* One action is one section under Manager.mutex, one access the code      *)
(* makes without it, or one wait.  The pipe from the harness is left out:  *)
(* a line the reader has not seen yet is one not written yet.  So are the  *)
(* event log, the texts of errors and prompts, and abort, which only       *)
(* writes a notification to the harness.                                   *)
(***************************************************************************)
EXTENDS Naturals, FiniteSets

CONSTANTS
    Callers,            \* concurrent HTTP handlers with a prompt for the session
    Slots,              \* addresses a Session may be allocated at
    Tasks,              \* resume tasks alive at once
    RequestIds,         \* what commandId may return
    Children,           \* tool call ids of background subagents
    RetryLimit,         \* 2 in the code
    ContinuationLimit,  \* 8
    WaitRounds          \* 1800

None == "none"
ASSUME LimitsAssumption == RetryLimit \in Nat /\ ContinuationLimit \in Nat /\ WaitRounds \in Nat
ASSUME NamesAssumption == None \notin Slots \cup RequestIds

VARIABLES
    current,    \* Manager.sessions: the slot of the session, or None
    session,    \* the Session structs
    reader,     \* readHarness of a session, and what it is about to spawn
    prompts,    \* the session/prompt requests the harness has not answered
    deaf,       \* sessions whose harness has closed its standard input
    caller,     \* where each HTTP handler is
    task,       \* where each resume task is
    overtaken,  \* history: slots where a handler past its check met an active turn
    stale       \* history: tasks that were alive when a later prompt was sent

vars == <<current, session, reader, prompts, deaf, caller, task, overtaken, stale>>

\* sendAcpPrompt clears these fields, in this order, without the mutex.
Cleared == [retries |-> 0, continuations |-> 0, waiting |-> FALSE,
            scheduled |-> FALSE, pending |-> {}]
AfterClear == [retries |-> "continuations", continuations |-> "waiting",
               waiting |-> "scheduled", scheduled |-> "pending", pending |-> "send"]
Fields == DOMAIN Cleared

Session == [allocated : BOOLEAN, running : BOOLEAN, active : BOOLEAN,
            request : RequestIds \cup {None},
            retries : 0..RetryLimit, continuations : 0..ContinuationLimit,
            waiting : BOOLEAN, scheduled : BOOLEAN, pending : SUBSET Children]
NewSession == [allocated |-> TRUE, running |-> TRUE, active |-> FALSE, request |-> None,
               retries |-> 0, continuations |-> 0, waiting |-> FALSE,
               scheduled |-> FALSE, pending |-> {}]
NoSession == [NewSession EXCEPT !.allocated = FALSE, !.running = FALSE]

Caller == [at : {"idle", "check", "send"} \cup Fields, slot : Slots \cup {None}]
IdleCaller == [at |-> "idle", slot |-> None]
Task == [at : {None, "sleep", "send", "failed"}, slot : Slots \cup {None},
         waits : BOOLEAN, rounds : 0..WaitRounds]
NoTask == [at |-> None, slot |-> None, waits |-> FALSE, rounds |-> 0]

\* The reader spawns a resume task after it has released the mutex.
ReaderStates == {None, "reading", "retry", "wait"}

TypeOK ==
    /\ current \in Slots \cup {None}
    /\ session \in [Slots -> Session]
    /\ reader \in [Slots -> ReaderStates]
    /\ prompts \in [Slots -> SUBSET RequestIds]
    /\ deaf \subseteq Slots
    /\ caller \in [Callers -> Caller]
    /\ task \in [Tasks -> Task]
    /\ overtaken \subseteq Slots
    /\ stale \subseteq Tasks

Init ==
    /\ current = None
    /\ session = [s \in Slots |-> NoSession]
    /\ reader = [s \in Slots |-> None]
    /\ prompts = [s \in Slots |-> {}]
    /\ deaf = {}
    /\ caller = [c \in Callers |-> IdleCaller]
    /\ task = [k \in Tasks |-> NoTask]
    /\ overtaken = {}
    /\ stale = {}

-----------------------------------------------------------------------------
(* A prompt: turnPayloadAt, ensureAcpSession, sendAcpPrompt *)

PointsTo(s) == (\E c \in Callers : caller[c].slot = s) \/ (\E k \in Tasks : task[k].slot = s)

\* An address is not handed out again while somebody holds a pointer to it, so a
\* dangling pointer reads what the session held when it was freed.
Available(s) == ~session[s].allocated /\ ~PointsTo(s)

CallerTo(c, place) == caller' = [caller EXCEPT ![c].at = place]
CallerReturns(c) == caller' = [caller EXCEPT ![c] = IdleCaller]

\* Mutant: an idle session is replaced while its reader still runs.
ReusableIfActive(s) == session[s].running /\ session[s].active
\* The session in the map is good for another prompt.
Reusable(s) == session[s].running

\* ensureAcpSession finds a running session.
EnsureFound(c) ==
    /\ caller[c].at = "idle"
    /\ current # None
    /\ Reusable(current)
    /\ caller' = [caller EXCEPT ![c] = [at |-> "check", slot |-> current]]
    /\ UNCHANGED <<current, session, reader, prompts, deaf, task, overtaken, stale>>

\* The session that exited is freed, whoever points to it.
Freed(s) == IF s = None THEN session ELSE [session EXCEPT ![s].allocated = FALSE]

\* ensureAcpSession frees the session that exited and starts a harness.
EnsureCreated(c) ==
    /\ caller[c].at = "idle"
    /\ current # None => ~Reusable(current)
    /\ \E s \in Slots :
          /\ Available(s)
          /\ session' = [Freed(current) EXCEPT ![s] = NewSession]
          /\ reader' = [reader EXCEPT ![s] = "reading"]
          /\ current' = s
          /\ caller' = [caller EXCEPT ![c] = [at |-> "check", slot |-> s]]
          /\ overtaken' = overtaken \ {s}
          /\ deaf' = deaf \ {s}
    /\ UNCHANGED <<prompts, task, stale>>

\* The harness does not start, or does not answer initialize.
EnsureFails(c) ==
    /\ caller[c].at = "idle"
    /\ current # None /\ ~Reusable(current)
    /\ session' = Freed(current)
    /\ current' = None
    /\ UNCHANGED <<reader, prompts, deaf, caller, task, overtaken, stale>>

\* turnPayloadAt reads session.active without the mutex: QueueMutationNotSupported.
Check(c) ==
    /\ caller[c].at = "check"
    /\ IF session[caller[c].slot].active THEN CallerReturns(c) ELSE CallerTo(c, "retries")
    /\ UNCHANGED <<current, session, reader, prompts, deaf, task, overtaken, stale>>

Overtakes(c) == overtaken' = IF session[caller[c].slot].active
                             THEN overtaken \cup {caller[c].slot} ELSE overtaken

\* sendAcpPrompt clears the next field.
Clear(c) ==
    /\ caller[c].at \in Fields
    /\ LET f == caller[c].at
       IN /\ session' = [session EXCEPT ![caller[c].slot][f] = Cleared[f]]
          /\ CallerTo(c, AfterClear[f])
    /\ Overtakes(c)
    /\ UNCHANGED <<current, reader, prompts, deaf, task, stale>>

\* Mutants: a request that is outstanding, or a harness that exited, is not seen.
RefusedIfExited(s) == ~session[s].running
RefusedIfBusy(s) == session[s].request # None
\* sendAcpPromptContinuation, under the mutex: HarnessExited or SessionAlreadyActive.
Refused(s) == ~session[s].running \/ session[s].request # None

\* Mutant: the request is recorded, and the turn is not marked active.
ClaimIdle(s) ==
    /\ s \notin deaf
    /\ \E r \in RequestIds \ prompts[s] :
        /\ session' = [session EXCEPT ![s].request = r, ![s].waiting = FALSE]
        /\ prompts' = [prompts EXCEPT ![s] = @ \cup {r}]
\* The request is written to the harness.
Claim(s) ==
    /\ s \notin deaf
    /\ \E r \in RequestIds \ prompts[s] :
        /\ session' = [session EXCEPT ![s].request = r, ![s].active = TRUE, ![s].waiting = FALSE]
        /\ prompts' = [prompts EXCEPT ![s] = @ \cup {r}]

\* The write fails, as every later one will: the harness has closed the pipe.
Unclaim(s) ==
    /\ s \in deaf
    /\ session' = [session EXCEPT ![s].request = None, ![s].active = FALSE, ![s].waiting = FALSE]
    /\ UNCHANGED prompts

SendRefused(c) ==
    /\ caller[c].at = "send"
    /\ Refused(caller[c].slot)
    /\ CallerReturns(c)
    /\ UNCHANGED <<current, session, reader, prompts, deaf, task, overtaken, stale>>

Send(c) ==
    /\ caller[c].at = "send"
    /\ ~Refused(caller[c].slot)
    /\ Claim(caller[c].slot)
    /\ CallerReturns(c)
    /\ Overtakes(c)
    /\ stale' = stale \cup {k \in Tasks : task[k].slot = caller[c].slot}
    /\ UNCHANGED <<current, reader, deaf, task>>

SendFails(c) ==
    /\ caller[c].at = "send"
    /\ ~Refused(caller[c].slot)
    /\ Unclaim(caller[c].slot)
    /\ CallerReturns(c)
    /\ Overtakes(c)
    /\ UNCHANGED <<current, reader, deaf, task, stale>>

-----------------------------------------------------------------------------
(* The reader task of a session: handleAcpLine, readHarness *)

\* The turn ends, with an error or not.
Settled(ss) == [ss EXCEPT !.active = FALSE, !.waiting = FALSE, !.scheduled = FALSE]

\* Mutants: the turn looks idle while it backs off; retries are not counted; the
\* resume task is not told to go ahead.
RetriedIdle(ss) == [ss EXCEPT !.retries = @ + 1, !.active = FALSE, !.scheduled = TRUE]
RetriedUncounted(ss) == [ss EXCEPT !.active = TRUE, !.scheduled = TRUE]
RetriedUnscheduled(ss) == [ss EXCEPT !.retries = @ + 1, !.active = TRUE]
\* A transient provider failure is tried again.
Retried(ss) == [ss EXCEPT !.retries = @ + 1, !.active = TRUE, !.scheduled = TRUE]

\* The prompt is done but subagents it started are not.
Continued(ss) == [ss EXCEPT !.continuations = @ + 1, !.active = TRUE,
                            !.waiting = TRUE, !.scheduled = TRUE]

Outcomes == {"result", "transient", "error"}

\* Mutant: one retry too many.
RetriesLeftOffByOne(ss) == ss.retries <= RetryLimit
RetriesLeft(ss) == ss.retries < RetryLimit

\* handleAcpLine on the answer to request r; an answer to another request than the
\* active one is only kept in Session.responses.
Response(s) ==
    /\ reader[s] = "reading"
    /\ \E r \in prompts[s], outcome \in Outcomes :
          /\ prompts' = [prompts EXCEPT ![s] = @ \ {r}]
          /\ LET answered == [session[s] EXCEPT !.request = None]
                 retry == outcome = "transient" /\ RetriesLeft(answered)
                 continue == /\ outcome = "result"
                             /\ answered.pending # {}
                             /\ answered.continuations < ContinuationLimit
             IN IF r # session[s].request
                THEN UNCHANGED <<session, reader>>
                ELSE /\ session' = [session EXCEPT ![s] =
                            IF retry THEN Retried(answered)
                            ELSE IF continue THEN Continued(answered)
                            ELSE Settled(answered)]
                     /\ reader' = [reader EXCEPT ![s] =
                            IF retry THEN "retry" ELSE IF continue THEN "wait" ELSE @]
    /\ UNCHANGED <<current, deaf, caller, task, overtaken, stale>>

\* tasks.concurrent(resumeAcpPrompt), after the mutex is released.
SpawnResume(s) ==
    /\ reader[s] \in {"retry", "wait"}
    /\ \E k \in Tasks :
          /\ task[k] = NoTask
          /\ task' = [task EXCEPT ![k] = [at |-> "sleep", slot |-> s,
                                          waits |-> reader[s] = "wait", rounds |-> 0]]
          /\ stale' = stale \ {k}
    /\ reader' = [reader EXCEPT ![s] = "reading"]
    /\ UNCHANGED <<current, session, prompts, deaf, caller, overtaken>>

\* observeOpenCodeSubagent: a background subagent starts during a prompt, or ends.
Observe(s) ==
    /\ reader[s] = "reading"
    /\ \E child \in Children :
          \/ /\ prompts[s] # {}
             /\ session' = [session EXCEPT ![s].pending = @ \cup {child}]
          \/ /\ child \in session[s].pending
             /\ session' = [session EXCEPT ![s].pending = @ \ {child}]
    /\ UNCHANGED <<current, reader, prompts, deaf, caller, task, overtaken, stale>>

\* The harness is on its way out, and the reader does not know yet.
Hangup(s) ==
    /\ reader[s] # None
    /\ deaf' = deaf \cup {s}
    /\ UNCHANGED <<current, session, reader, prompts, caller, task, overtaken, stale>>

\* readHarness at the end of the output.  The active request stays where it is.
Exit(s) ==
    /\ reader[s] = "reading"
    /\ reader' = [reader EXCEPT ![s] = None]
    /\ prompts' = [prompts EXCEPT ![s] = {}]
    /\ session' = [session EXCEPT ![s].running = FALSE, ![s].active = FALSE]
    /\ UNCHANGED <<current, deaf, caller, task, overtaken, stale>>

-----------------------------------------------------------------------------
(* resumeAcpPrompt *)

\* Mutant: a task sleeps on while a subagent is pending.
DeadlineNever(k) == FALSE
Deadline(k) == task[k].rounds = WaitRounds

Withdrawn(s) ==
    \/ ~session[s].running
    \/ ~session[s].active
    \/ ~session[s].scheduled
    \/ session[s].request # None

\* The task wakes up, under the mutex: it is not wanted any more, waits another
\* round, gives up waiting, or takes the turn over.
Wake(k) ==
    /\ task[k].at = "sleep"
    /\ LET s == task[k].slot
           waits == task[k].waits /\ session[s].pending # {}
       IN \/ /\ Withdrawn(s)
             /\ task' = [task EXCEPT ![k] = NoTask]
             /\ UNCHANGED session
          \/ /\ ~Withdrawn(s) /\ waits /\ ~Deadline(k)
             /\ task' = [task EXCEPT ![k].rounds = IF @ < WaitRounds THEN @ + 1 ELSE @]
             /\ UNCHANGED session
          \/ /\ ~Withdrawn(s) /\ waits /\ Deadline(k)
             /\ task' = [task EXCEPT ![k] = NoTask]
             /\ session' = [session EXCEPT ![s] = Settled(@)]
          \/ /\ ~Withdrawn(s) /\ ~waits
             /\ task' = [task EXCEPT ![k].at = "send"]
             /\ session' = [session EXCEPT ![s].scheduled = FALSE]
    /\ UNCHANGED <<current, reader, prompts, deaf, caller, overtaken, stale>>

\* sendAcpPromptContinuation, after the mutex was released.
Resume(k) ==
    /\ task[k].at = "send"
    /\ ~Refused(task[k].slot)
    /\ Claim(task[k].slot)
    /\ task' = [task EXCEPT ![k] = NoTask]
    /\ UNCHANGED <<current, reader, deaf, caller, overtaken, stale>>

ResumeFails(k) ==
    /\ task[k].at = "send"
    /\ IF Refused(task[k].slot)
       THEN UNCHANGED <<session, prompts>>
       ELSE Unclaim(task[k].slot)
    /\ task' = [task EXCEPT ![k].at = "failed"]
    /\ UNCHANGED <<current, reader, deaf, caller, overtaken, stale>>

\* The failure is recorded under the mutex, whatever the session does by now.
RecordFailure(k) ==
    /\ task[k].at = "failed"
    /\ session' = [session EXCEPT ![task[k].slot].active = FALSE,
                                  ![task[k].slot].waiting = FALSE]
    /\ task' = [task EXCEPT ![k] = NoTask]
    /\ UNCHANGED <<current, reader, prompts, deaf, caller, overtaken, stale>>

-----------------------------------------------------------------------------
CallerStep(c) ==
    \/ EnsureFound(c) \/ EnsureCreated(c) \/ EnsureFails(c)
    \/ Check(c) \/ Clear(c) \/ SendRefused(c) \/ Send(c) \/ SendFails(c)
ReaderStep(s) == Response(s) \/ SpawnResume(s) \/ Observe(s) \/ Hangup(s) \/ Exit(s)
TaskStep(k) == Wake(k) \/ Resume(k) \/ ResumeFails(k) \/ RecordFailure(k)

Next ==
    \/ \E c \in Callers : CallerStep(c)
    \/ \E s \in Slots : ReaderStep(s)
    \/ \E k \in Tasks : TaskStep(k)

Spec == Init /\ [][Next]_vars

-----------------------------------------------------------------------------
(* Safety *)

\* The harness never has two prompts of a session at once, and what it has is the
\* active request, however prompts, retries and continuations meet.
SingleFlight ==
    \A s \in Slots : prompts[s] \subseteq {session[s].request}

\* Nothing makes a session active again after its harness exited, although
\* handlers and resume tasks still hold it.
ExitedIsInactive ==
    \A s \in Slots : ~session[s].running => ~session[s].active

\* A session is freed only when its reader is gone: the reader never touches freed
\* memory (a resume task or a handler may, see the README).
FreedHasNoReader ==
    \A s \in Slots : ~session[s].allocated => reader[s] = None

\* A session that says active has somebody who will end the turn: an answer is
\* awaited, a resume task is on its way, or a handler is about to send a prompt.
Scheduled(s) ==
    /\ session[s].scheduled
    /\ \/ reader[s] \in {"retry", "wait"}
       \/ \E k \in Tasks : task[k].at = "sleep" /\ task[k].slot = s
Driven(s) ==
    \/ session[s].request \in prompts[s]
    \/ Scheduled(s)
    \/ \E k \in Tasks : task[k].at \in {"send", "failed"} /\ task[k].slot = s
    \/ \E c \in Callers : caller[c].at \in Fields \cup {"send"} /\ caller[c].slot = s
ActiveIsDriven == \A s \in Slots : session[s].active => Driven(s)

\* A session whose prompt is being worked on says active, unless a handler that
\* saw the session idle sent its prompt into the turn of another.
OutstandingIsActive ==
    \A s \in Slots \ overtaken : prompts[s] # {} => session[s].active

\* A resume task continues the turn that scheduled it, never a later one, with
\* the same exception.
ResumeIsCurrent ==
    \A k \in stale : task[k].at = "send" => task[k].slot \in overtaken

-----------------------------------------------------------------------------
(* The inductive invariant behind SingleFlight, ExitedIsInactive,              *)
(* FreedHasNoReader and ActiveIsDriven.                                        *)

PointersHeld ==
    /\ \A c \in Callers : caller[c].at # "idle" => caller[c].slot \in Slots
    /\ \A k \in Tasks : task[k].at # None => task[k].slot \in Slots

SlotInv(s) ==
    /\ session[s].running <=> reader[s] # None
    /\ session[s].running => session[s].allocated
    /\ session[s].running /\ session[s].request # None => session[s].request \in prompts[s]
    /\ prompts[s] \subseteq {session[s].request}
    /\ ~session[s].running => prompts[s] = {} /\ ~session[s].active
    /\ session[s].active => Driven(s)

TurnInv == TypeOK /\ PointersHeld /\ \A s \in Slots : SlotInv(s)

-----------------------------------------------------------------------------
(* Liveness: handlers, the reader and the tasks go on; the harness answers     *)
(* every prompt, and need not ever finish a subagent or exit.                  *)

Fairness ==
    /\ \A c \in Callers : WF_vars(Check(c) \/ Clear(c) \/ SendRefused(c) \/ Send(c) \/ SendFails(c))
    /\ \A s \in Slots : WF_vars(Response(s)) /\ WF_vars(SpawnResume(s))
    /\ \A k \in Tasks : WF_vars(TaskStep(k))

FairSpec == Spec /\ Fairness

\* Every turn ends, even when every attempt fails in a transient way and the
\* subagents never report back.
TurnSettles ==
    \A s \in Slots : session[s].active ~> ~session[s].active
=============================================================================
