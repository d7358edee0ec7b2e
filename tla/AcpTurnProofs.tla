--------------------------- MODULE AcpTurnProofs ---------------------------
(***************************************************************************)
(* What holds of AcpTurn for any number of handlers, tasks, addresses and  *)
(* request ids, and any limits.  Every step of a handler, of the reader or *)
(* of a task changes one session at most: OneSlot says that what is known  *)
(* of the others stays, and each action then has to keep SlotInv of the    *)
(* session it works on.                                                    *)
(***************************************************************************)
EXTENDS AcpTurn, TLAPS

USE DEF None

\* Nothing of slot t changes, nor anybody who points to it.
SlotKept(t) ==
    /\ session'[t] = session[t] /\ reader'[t] = reader[t] /\ prompts'[t] = prompts[t]
    /\ \A c \in Callers : caller[c].slot = t => caller'[c] = caller[c]
    /\ \A k \in Tasks : task[k].slot = t => task'[k] = task[k]

\* A step on one slot.
LEMMA OneSlot ==
    ASSUME TurnInv, TypeOK', PointersHeld', NEW s \in Slots, SlotInv(s)',
           \A t \in Slots \ {s} : SlotKept(t)
    PROVE  TurnInv'
<1>1. ASSUME NEW t \in Slots \ {s} PROVE SlotInv(t)'
  <2>1. SlotInv(t) /\ SlotKept(t)
    BY DEF TurnInv
  <2>2. Driven(t) => Driven(t)'
    <3>1. session[t].request \in prompts[t] => session'[t].request \in prompts'[t]
      BY <2>1 DEF SlotKept
    <3>2. Scheduled(t) => Scheduled(t)'
      BY <2>1 DEF SlotKept, Scheduled
    <3>3. ASSUME NEW k \in Tasks, task[k].slot = t PROVE task'[k] = task[k]
      BY <2>1, <3>3 DEF SlotKept
    <3>4. ASSUME NEW c \in Callers, caller[c].slot = t PROVE caller'[c] = caller[c]
      BY <2>1, <3>4 DEF SlotKept
    <3> QED BY <3>1, <3>2, <3>3, <3>4 DEF Driven
  <2> QED BY <2>1, <2>2 DEF SlotInv, SlotKept
<1> QED BY <1>1 DEF TurnInv

\* CallerTo moves one handler, which stays on its session.
LEMMA CallerToEffect ==
    ASSUME TypeOK, PointersHeld, NEW c \in Callers, caller[c].at # "idle",
           NEW place \in {"send"} \cup Fields, CallerTo(c, place)
    PROVE  /\ caller' \in [Callers -> Caller]
           /\ caller'[c].at = place /\ caller'[c].slot = caller[c].slot
           /\ \A d \in Callers \ {c} : caller'[d] = caller[d]
           /\ \A d \in Callers : caller'[d].at # "idle" => caller'[d].slot \in Slots
<1>1. /\ caller \in [Callers -> Caller] /\ caller[c] \in Caller
      /\ caller' = [caller EXCEPT ![c].at = place]
  BY DEF TypeOK, CallerTo
<1>2. /\ caller' \in [Callers -> Caller]
      /\ caller'[c].at = place /\ caller'[c].slot = caller[c].slot
  BY <1>1 DEF Caller
<1>3. \A d \in Callers \ {c} : caller'[d] = caller[d]
  BY <1>1
<1> QED BY <1>2, <1>3 DEF PointersHeld

\* CallerReturns forgets the session of one handler.
LEMMA CallerReturnsEffect ==
    ASSUME TypeOK, PointersHeld, NEW c \in Callers, CallerReturns(c)
    PROVE  /\ caller' \in [Callers -> Caller]
           /\ \A d \in Callers \ {c} : caller'[d] = caller[d]
           /\ \A d \in Callers : caller'[d].at # "idle" => caller'[d].slot \in Slots
<1>1. /\ caller \in [Callers -> Caller] /\ IdleCaller \in Caller /\ IdleCaller.at = "idle"
      /\ caller' = [caller EXCEPT ![c] = IdleCaller]
  BY DEF TypeOK, CallerReturns, IdleCaller, Caller
<1>2. caller' \in [Callers -> Caller] /\ caller'[c].at = "idle"
  BY <1>1
<1>3. \A d \in Callers \ {c} : caller'[d] = caller[d]
  BY <1>1
<1> QED BY <1>2, <1>3 DEF PointersHeld

\* Claim.
LEMMA ClaimEffect ==
    ASSUME TypeOK, NEW s \in Slots, Claim(s)
    PROVE  /\ session' \in [Slots -> Session]
           /\ prompts' \in [Slots -> SUBSET RequestIds]
           /\ \A t \in Slots \ {s} : session'[t] = session[t] /\ prompts'[t] = prompts[t]
           /\ session'[s].allocated = session[s].allocated
           /\ session'[s].running = session[s].running
           /\ \E r \in RequestIds : /\ session'[s].request = r
                                    /\ prompts'[s] = prompts[s] \cup {r}
<1>1. PICK r \in RequestIds : 
          /\ session' = [session EXCEPT ![s].request = r, ![s].active = TRUE, ![s].waiting = FALSE]
          /\ prompts' = [prompts EXCEPT ![s] = @ \cup {r}]
  BY DEF Claim
<1>2. session[s] \in Session /\ session \in [Slots -> Session] /\ prompts \in [Slots -> SUBSET RequestIds]
  BY DEF TypeOK
<1>3. session' \in [Slots -> Session]
  BY <1>1, <1>2 DEF Session
<1>4. /\ session'[s].allocated = session[s].allocated
      /\ session'[s].running = session[s].running
      /\ session'[s].request = r
  BY <1>1, <1>2 DEF Session
<1>5. \A t \in Slots \ {s} : session'[t] = session[t]
  BY <1>1, <1>2
<1>6. /\ prompts' \in [Slots -> SUBSET RequestIds]
      /\ \A t \in Slots \ {s} : prompts'[t] = prompts[t]
      /\ prompts'[s] = prompts[s] \cup {r}
  BY <1>1, <1>2
<1> QED BY <1>3, <1>4, <1>5, <1>6

\* Unclaim.
LEMMA UnclaimEffect ==
    ASSUME TypeOK, NEW s \in Slots, Unclaim(s)
    PROVE  /\ session' \in [Slots -> Session]
           /\ prompts' = prompts
           /\ \A t \in Slots \ {s} : session'[t] = session[t]
           /\ session'[s].allocated = session[s].allocated
           /\ session'[s].running = session[s].running
           /\ session'[s].request = None
           /\ session'[s].active = FALSE
<1>1. session' = [session EXCEPT ![s].request = None, ![s].active = FALSE, ![s].waiting = FALSE]
  BY DEF Unclaim
<1>2. session[s] \in Session /\ session \in [Slots -> Session]
  BY DEF TypeOK
<1>3. session' \in [Slots -> Session] /\ \A t \in Slots \ {s} : session'[t] = session[t]
  BY <1>1, <1>2 DEF Session
<1>4. /\ session'[s].allocated = session[s].allocated
      /\ session'[s].running = session[s].running
      /\ session'[s].request = None
      /\ session'[s].active = FALSE
  BY <1>1, <1>2 DEF Session
<1> QED BY <1>3, <1>4 DEF Unclaim

\* The first write of a turn, by a handler or by a resume task.
LEMMA ClaimKeeps ==
    ASSUME TurnInv, NEW s \in Slots, ~Refused(s), Claim(s), reader' = reader
    PROVE  SlotInv(s)'
<1>1. TypeOK /\ SlotInv(s)
  BY DEF TurnInv
<1>2. PICK r \in RequestIds : session'[s].request = r /\ prompts'[s] = prompts[s] \cup {r}
  BY <1>1, ClaimEffect
<1>3. session'[s].allocated = session[s].allocated /\ session'[s].running = session[s].running
  BY <1>1, ClaimEffect
<1>4. session[s].request = None /\ session[s].running
  BY DEF Refused
<1>5. prompts[s] = {}
  BY <1>1, <1>4, NamesAssumption DEF SlotInv, TypeOK
<1>6. Driven(s)'
  BY <1>2 DEF Driven
<1> QED BY <1>1, <1>2, <1>3, <1>4, <1>5, <1>6 DEF SlotInv

\* A write that failed.
LEMMA UnclaimKeeps ==
    ASSUME TurnInv, NEW s \in Slots, ~Refused(s), Unclaim(s), reader' = reader
    PROVE  SlotInv(s)'
<1>1. TypeOK /\ SlotInv(s)
  BY DEF TurnInv
<1>2. /\ session'[s].allocated = session[s].allocated /\ session'[s].running = session[s].running
      /\ session'[s].request = None /\ session'[s].active = FALSE /\ prompts' = prompts
  BY <1>1, UnclaimEffect
<1> QED BY <1>1, <1>2 DEF SlotInv, Refused

-----------------------------------------------------------------------------
(* The shapes of a step *)

\* A handler goes on, or returns, and changes at most the session it points to.
LEMMA CallerMoves ==
    ASSUME TurnInv, NEW c \in Callers, NEW s \in Slots, caller[c].slot = s,
           caller[c].at # "idle",
           CallerReturns(c) \/ \E place \in {"send"} \cup Fields : CallerTo(c, place),
           session' \in [Slots -> Session], prompts' \in [Slots -> SUBSET RequestIds],
           \A t \in Slots \ {s} : session'[t] = session[t] /\ prompts'[t] = prompts[t],
           overtaken' \subseteq Slots, stale' \subseteq Tasks,
           UNCHANGED <<current, reader, deaf, task>>,
           SlotInv(s)'
    PROVE  TurnInv'
<1>1. TypeOK /\ PointersHeld
  BY DEF TurnInv
<1>2. /\ caller' \in [Callers -> Caller]
      /\ \A d \in Callers \ {c} : caller'[d] = caller[d]
      /\ \A d \in Callers : caller'[d].at # "idle" => caller'[d].slot \in Slots
  <2>1. CASE CallerReturns(c)
    BY <1>1, <2>1, CallerReturnsEffect
  <2>2. ASSUME NEW place \in {"send"} \cup Fields, CallerTo(c, place) PROVE <1>2!:
    BY <1>1, <2>2, CallerToEffect
  <2> QED BY <2>1, <2>2
<1>3. TypeOK' /\ PointersHeld'
  BY <1>1, <1>2 DEF TypeOK, PointersHeld
<1>4. \A t \in Slots \ {s} : SlotKept(t)
  BY <1>2 DEF SlotKept
<1> QED BY <1>3, <1>4, OneSlot

\* A resume task goes on, or ends, and changes at most the session it points to.
LEMMA TaskMoves ==
    ASSUME TurnInv, NEW k \in Tasks, NEW s \in Slots, task[k].slot = s,
           task' \in [Tasks -> Task],
           task'[k].at # None => task'[k].slot \in Slots,
           \A j \in Tasks \ {k} : task'[j] = task[j],
           session' \in [Slots -> Session], prompts' \in [Slots -> SUBSET RequestIds],
           \A t \in Slots \ {s} : session'[t] = session[t] /\ prompts'[t] = prompts[t],
           UNCHANGED <<current, reader, deaf, caller, overtaken, stale>>,
           SlotInv(s)'
    PROVE  TurnInv'
<1>1. TypeOK /\ PointersHeld
  BY DEF TurnInv
<1>2. TypeOK' /\ PointersHeld'
  BY <1>1 DEF TypeOK, PointersHeld
<1>3. \A t \in Slots \ {s} : SlotKept(t)
  BY DEF SlotKept
<1> QED BY <1>2, <1>3, OneSlot

\* The reader of a session changes that session and nothing else.
LEMMA ReaderMoves ==
    ASSUME TurnInv, NEW s \in Slots,
           session' \in [Slots -> Session], prompts' \in [Slots -> SUBSET RequestIds],
           reader' \in [Slots -> ReaderStates], deaf' \subseteq Slots,
           \A t \in Slots \ {s} : session'[t] = session[t] /\ prompts'[t] = prompts[t]
                                  /\ reader'[t] = reader[t],
           UNCHANGED <<current, caller, task, overtaken, stale>>,
           SlotInv(s)'
    PROVE  TurnInv'
<1>1. TypeOK /\ PointersHeld
  BY DEF TurnInv
<1>2. TypeOK' /\ PointersHeld'
  BY <1>1 DEF TypeOK, PointersHeld
<1>3. \A t \in Slots \ {s} : SlotKept(t)
  BY DEF SlotKept
<1> QED BY <1>2, <1>3, OneSlot

-----------------------------------------------------------------------------
(* The actions of a handler *)

\* The place of a handler past its check leads to the end of the turn.
LEMMA FieldFacts ==
    /\ Fields = {"retries", "continuations", "waiting", "scheduled", "pending"}
    /\ \A f \in Fields : AfterClear[f] \in {"send"} \cup Fields
  BY DEF Fields, Cleared, AfterClear

\* ensureAcpSession finds the session and the handler points to it.
LEMMA EnsureFoundKeeps ==
    ASSUME TurnInv, NEW c \in Callers, EnsureFound(c) PROVE TurnInv'
<1>1. TypeOK /\ PointersHeld /\ current \in Slots
  BY DEF TurnInv, TypeOK, EnsureFound
<1>2. /\ UNCHANGED <<current, session, reader, prompts, deaf, task, overtaken, stale>>
      /\ caller[c].at = "idle"
      /\ caller' = [caller EXCEPT ![c] = [at |-> "check", slot |-> current]]
  BY DEF EnsureFound
<1>3. /\ caller' \in [Callers -> Caller]
      /\ caller'[c].slot \in Slots
      /\ \A d \in Callers \ {c} : caller'[d] = caller[d]
  <2>1. [at |-> "check", slot |-> current] \in Caller
    BY <1>1 DEF Caller
  <2> QED BY <1>1, <1>2, <2>1 DEF TypeOK
<1>4. TypeOK' /\ PointersHeld'
  BY <1>1, <1>2, <1>3 DEF TypeOK, PointersHeld
<1>5. ASSUME NEW s \in Slots PROVE SlotInv(s)'
  <2>1. SlotInv(s)
    BY DEF TurnInv
  <2>2. Driven(s) => Driven(s)'
    <3>1. Scheduled(s) => Scheduled(s)'
      BY <1>2 DEF Scheduled
    <3>2. caller[c].at \notin Fields \cup {"send"}
      BY <1>2, FieldFacts
    <3> QED BY <1>2, <1>3, <3>1, <3>2 DEF Driven
  <2> QED BY <1>2, <2>1, <2>2 DEF SlotInv
<1> QED BY <1>4, <1>5 DEF TurnInv

\* turnPayloadAt looks at the session.
LEMMA CheckKeeps ==
    ASSUME TurnInv, NEW c \in Callers, Check(c) PROVE TurnInv'
<1>1. PICK s \in Slots : caller[c].slot = s
  BY DEF TurnInv, PointersHeld, Check
<1>2. /\ UNCHANGED <<current, session, reader, prompts, deaf, task, overtaken, stale>>
      /\ caller[c].at = "check"
      /\ CallerReturns(c) \/ \E place \in {"send"} \cup Fields : CallerTo(c, place)
  BY FieldFacts DEF Check
<1>3. \A d \in Callers \ {c} : caller'[d] = caller[d]
  BY <1>2, CallerToEffect, CallerReturnsEffect DEF TurnInv
<1>4. SlotInv(s)'
  <2>1. SlotInv(s)
    BY DEF TurnInv
  <2>2. Driven(s) => Driven(s)'
    <3>1. Scheduled(s) => Scheduled(s)'
      BY <1>2 DEF Scheduled
    <3>2. caller[c].at \notin Fields \cup {"send"}
      BY <1>2, FieldFacts
    <3> QED BY <1>2, <1>3, <3>1, <3>2 DEF Driven
  <2> QED BY <1>2, <2>1, <2>2 DEF SlotInv
<1>5. TypeOK
  BY DEF TurnInv
<1> QED BY <1>1, <1>2, <1>4, <1>5, CallerMoves DEF TypeOK

\* sendAcpPrompt clears a field: the handler stays on its way to send.
LEMMA ClearKeeps ==
    ASSUME TurnInv, NEW c \in Callers, Clear(c) PROVE TurnInv'
<1>1. PICK s \in Slots : caller[c].slot = s
  BY FieldFacts DEF TurnInv, PointersHeld, Clear
<1>2. PICK f \in Fields : caller[c].at = f
  BY DEF Clear
<1>3. /\ session' = [session EXCEPT ![s][f] = Cleared[f]]
      /\ CallerTo(c, AfterClear[f])
      /\ UNCHANGED <<current, reader, prompts, deaf, task, stale>>
  BY <1>1, <1>2 DEF Clear
<1>4. AfterClear[f] \in {"send"} \cup Fields /\ caller[c].at # "idle"
  BY <1>2, FieldFacts
<1>5. TypeOK /\ PointersHeld /\ SlotInv(s) /\ session[s] \in Session
  BY DEF TurnInv, TypeOK
<1>6. /\ session' \in [Slots -> Session]
      /\ \A t \in Slots \ {s} : session'[t] = session[t]
      /\ session'[s].allocated = session[s].allocated
      /\ session'[s].running = session[s].running
      /\ session'[s].active = session[s].active
      /\ session'[s].request = session[s].request
  <2>1. CASE f = "retries"
    BY <1>3, <1>5, <2>1, LimitsAssumption DEF TypeOK, Session, Cleared
  <2>2. CASE f = "continuations"
    BY <1>3, <1>5, <2>2, LimitsAssumption DEF TypeOK, Session, Cleared
  <2>3. CASE f = "waiting"
    BY <1>3, <1>5, <2>3 DEF TypeOK, Session, Cleared
  <2>4. CASE f = "scheduled"
    BY <1>3, <1>5, <2>4 DEF TypeOK, Session, Cleared
  <2>5. CASE f = "pending"
    BY <1>3, <1>5, <2>5 DEF TypeOK, Session, Cleared
  <2> QED BY <2>1, <2>2, <2>3, <2>4, <2>5, FieldFacts
<1>7. Driven(s)'
  <2>1. caller'[c].at \in Fields \cup {"send"} /\ caller'[c].slot = s
    BY <1>1, <1>3, <1>4, <1>5, CallerToEffect
  <2> QED BY <2>1 DEF Driven
<1>8. SlotInv(s)'
  BY <1>3, <1>5, <1>6, <1>7 DEF SlotInv
<1>9. overtaken' \subseteq Slots
  BY <1>1, <1>5 DEF Clear, Overtakes, TypeOK
<1> QED BY <1>1, <1>3, <1>4, <1>5, <1>6, <1>8, <1>9, CallerMoves DEF TypeOK

\* The prompt is refused: somebody else's request is outstanding, or the harness
\* has exited.
LEMMA SendRefusedKeeps ==
    ASSUME TurnInv, NEW c \in Callers, SendRefused(c) PROVE TurnInv'
<1>1. PICK s \in Slots : caller[c].slot = s
  BY DEF TurnInv, PointersHeld, SendRefused
<1>2. /\ UNCHANGED <<current, session, reader, prompts, deaf, task, overtaken, stale>>
      /\ caller[c].at = "send" /\ CallerReturns(c) /\ Refused(s)
  BY <1>1 DEF SendRefused
<1>3. SlotInv(s)'
  <2>1. SlotInv(s)
    BY DEF TurnInv
  <2>2. session[s].active => Driven(s)'
    BY <1>2, <2>1 DEF Refused, SlotInv, Driven
  <2> QED BY <1>2, <2>1, <2>2 DEF SlotInv
<1>4. TypeOK
  BY DEF TurnInv
<1> QED BY <1>1, <1>2, <1>3, <1>4, CallerMoves DEF TypeOK

\* The prompt is sent.
LEMMA SendKeeps ==
    ASSUME TurnInv, NEW c \in Callers, Send(c) PROVE TurnInv'
<1>1. PICK s \in Slots : caller[c].slot = s
  BY DEF TurnInv, PointersHeld, Send
<1>2. /\ UNCHANGED <<current, reader, deaf, task>>
      /\ caller[c].at = "send" /\ CallerReturns(c) /\ ~Refused(s) /\ Claim(s)
  BY <1>1 DEF Send
<1>3. TypeOK
  BY DEF TurnInv
<1>4. overtaken' \subseteq Slots /\ stale' \subseteq Tasks
  BY <1>1, <1>3 DEF Send, Overtakes, TypeOK
<1>5. SlotInv(s)'
  BY <1>2, ClaimKeeps
<1>6. /\ session' \in [Slots -> Session] /\ prompts' \in [Slots -> SUBSET RequestIds]
      /\ \A t \in Slots \ {s} : session'[t] = session[t] /\ prompts'[t] = prompts[t]
  BY <1>2, <1>3, ClaimEffect
<1> QED BY <1>1, <1>2, <1>4, <1>5, <1>6, CallerMoves

\* The prompt could not be written.
LEMMA SendFailsKeeps ==
    ASSUME TurnInv, NEW c \in Callers, SendFails(c) PROVE TurnInv'
<1>1. PICK s \in Slots : caller[c].slot = s
  BY DEF TurnInv, PointersHeld, SendFails
<1>2. /\ UNCHANGED <<current, reader, deaf, task, stale>>
      /\ caller[c].at = "send" /\ CallerReturns(c) /\ ~Refused(s) /\ Unclaim(s)
  BY <1>1 DEF SendFails
<1>3. TypeOK
  BY DEF TurnInv
<1>4. overtaken' \subseteq Slots
  BY <1>1, <1>3 DEF SendFails, Overtakes, TypeOK
<1>5. SlotInv(s)'
  BY <1>2, UnclaimKeeps
<1>6. /\ session' \in [Slots -> Session] /\ prompts' \in [Slots -> SUBSET RequestIds]
      /\ \A t \in Slots \ {s} : session'[t] = session[t] /\ prompts'[t] = prompts[t]
  BY <1>2, <1>3, UnclaimEffect DEF TypeOK
<1> QED BY <1>1, <1>2, <1>3, <1>4, <1>5, <1>6, CallerMoves DEF TypeOK

\* Only a session whose harness exited is freed: its reader is gone.
LEMMA FreedEffect ==
    ASSUME TypeOK, current # None => ~session[current].running
    PROVE  /\ Freed(current) \in [Slots -> Session]
           /\ \A t \in Slots : LET new == Freed(current)[t]
                               IN /\ new.running = session[t].running
                                  /\ new.active = session[t].active
                                  /\ new.request = session[t].request
                                  /\ new.scheduled = session[t].scheduled
                                  /\ new.running => new.allocated = session[t].allocated
<1>1. session \in [Slots -> Session]
  BY DEF TypeOK
<1>2. CASE current = None
  BY <1>1, <1>2 DEF Freed
<1>3. CASE current # None
  <2>1. current \in Slots /\ ~session[current].running
    BY <1>3 DEF TypeOK
  <2>2. Freed(current) = [session EXCEPT ![current].allocated = FALSE]
    BY <1>3 DEF Freed
  <2>3. Freed(current) \in [Slots -> Session]
    BY <1>1, <2>1, <2>2 DEF Session
  <2>4. \A t \in Slots : /\ Freed(current)[t].running = session[t].running
                         /\ Freed(current)[t].active = session[t].active
                         /\ Freed(current)[t].request = session[t].request
                         /\ Freed(current)[t].scheduled = session[t].scheduled
    BY <1>1, <2>1, <2>2 DEF Session
  <2>5. \A t \in Slots \ {current} : Freed(current)[t].allocated = session[t].allocated
    BY <1>1, <2>1, <2>2 DEF Session
  <2> QED BY <2>1, <2>3, <2>4, <2>5
<1> QED BY <1>2, <1>3

\* ensureAcpSession starts a harness at an address nobody points to.
LEMMA EnsureCreatedKeeps ==
    ASSUME TurnInv, NEW c \in Callers, EnsureCreated(c) PROVE TurnInv'
<1>1. PICK s \in Slots :
          /\ Available(s)
          /\ session' = [Freed(current) EXCEPT ![s] = NewSession]
          /\ reader' = [reader EXCEPT ![s] = "reading"]
          /\ current' = s
          /\ caller' = [caller EXCEPT ![c] = [at |-> "check", slot |-> s]]
          /\ overtaken' = overtaken \ {s}
          /\ deaf' = deaf \ {s}
  BY DEF EnsureCreated
<1>2. /\ UNCHANGED <<prompts, task, stale>>
      /\ caller[c].at = "idle"
      /\ current # None => ~session[current].running
  BY DEF EnsureCreated, Reusable
<1>3. TypeOK /\ PointersHeld
  BY DEF TurnInv
<1>4. /\ caller' \in [Callers -> Caller]
      /\ caller'[c].slot \in Slots
      /\ \A d \in Callers \ {c} : caller'[d] = caller[d]
  <2>1. [at |-> "check", slot |-> s] \in Caller
    BY DEF Caller
  <2> QED BY <1>1, <1>3, <2>1 DEF TypeOK
<1>5. NewSession \in Session
  BY LimitsAssumption DEF NewSession, Session
<1>6. session' \in [Slots -> Session] /\ reader' \in [Slots -> ReaderStates]
  BY <1>1, <1>2, <1>3, <1>5, FreedEffect DEF TypeOK, ReaderStates
<1>7. TypeOK' /\ PointersHeld'
  BY <1>1, <1>2, <1>3, <1>4, <1>6 DEF TypeOK, PointersHeld
<1>8. SlotInv(s)'
  <2>1. session'[s] = NewSession /\ reader'[s] = "reading"
    BY <1>1, <1>2, <1>3, FreedEffect DEF TypeOK
  <2>2. ~session[s].running /\ SlotInv(s)
    BY <1>1 DEF Available, TurnInv, SlotInv
  <2>3. prompts'[s] = {}
    BY <1>2, <2>2 DEF SlotInv
  <2> QED BY <2>1, <2>3 DEF SlotInv, NewSession
<1>9. ASSUME NEW t \in Slots \ {s} PROVE SlotInv(t)'
  <2>1. SlotInv(t)
    BY DEF TurnInv
  <2>2. reader'[t] = reader[t] /\ session'[t] = Freed(current)[t]
    BY <1>1, <1>2, <1>3, FreedEffect DEF TypeOK
  <2>3. /\ session'[t].running = session[t].running
        /\ session'[t].active = session[t].active
        /\ session'[t].request = session[t].request
        /\ session'[t].scheduled = session[t].scheduled
        /\ session'[t].running => session'[t].allocated = session[t].allocated
    BY <1>2, <1>3, <2>2, FreedEffect
  <2>4. Driven(t) => Driven(t)'
    <3>1. Scheduled(t) => Scheduled(t)'
      BY <1>2, <2>2, <2>3 DEF Scheduled
    <3>2. caller[c].at \notin Fields \cup {"send"}
      BY <1>2, FieldFacts
    <3> QED BY <1>2, <1>4, <2>3, <3>1, <3>2 DEF Driven
  <2> QED BY <1>2, <2>1, <2>2, <2>3, <2>4 DEF SlotInv
<1> QED BY <1>7, <1>8, <1>9 DEF TurnInv

\* ensureAcpSession frees the session that exited and has no other.
LEMMA EnsureFailsKeeps ==
    ASSUME TurnInv, NEW c \in Callers, EnsureFails(c) PROVE TurnInv'
<1>1. /\ session' = Freed(current) /\ current' = None
      /\ current # None /\ ~session[current].running
      /\ UNCHANGED <<reader, prompts, deaf, caller, task, overtaken, stale>>
  BY DEF EnsureFails, Reusable
<1>2. TypeOK /\ PointersHeld
  BY DEF TurnInv
<1>3. TypeOK' /\ PointersHeld'
  BY <1>1, <1>2, FreedEffect DEF TypeOK, PointersHeld
<1>4. ASSUME NEW t \in Slots PROVE SlotInv(t)'
  <2>1. SlotInv(t)
    BY DEF TurnInv
  <2>2. /\ session'[t].running = session[t].running
        /\ session'[t].active = session[t].active
        /\ session'[t].request = session[t].request
        /\ session'[t].scheduled = session[t].scheduled
        /\ session'[t].running => session'[t].allocated = session[t].allocated
    BY <1>1, <1>2, FreedEffect
  <2>3. Driven(t) => Driven(t)'
    BY <1>1, <2>2 DEF Driven, Scheduled
  <2> QED BY <1>1, <2>1, <2>2, <2>3 DEF SlotInv
<1> QED BY <1>3, <1>4 DEF TurnInv

-----------------------------------------------------------------------------
(* The actions of the reader *)

\* handleAcpLine: the answer ends the turn, or leads to a resume task.
LEMMA ResponseKeeps ==
    ASSUME TurnInv, NEW s \in Slots, Response(s) PROVE TurnInv'
<1>1. PICK r \in prompts[s], outcome \in Outcomes :
          /\ prompts' = [prompts EXCEPT ![s] = @ \ {r}]
          /\ LET answered == [session[s] EXCEPT !.request = None]
                 retry == outcome = "transient" /\ RetriesLeft(answered)
                 continue == /\ outcome = "result"
                             /\ answered.pending # {}
                             /\ answered.continuations < ContinuationLimit
             IN IF r # session[s].request
                THEN UNCHANGED <<session, reader>>
                ELSE /\ session' = [session EXCEPT ![s] =
                            IF retry THEN Retried(answered)
                            ELSE IF continue THEN Continued(answered)
                            ELSE Settled(answered)]
                     /\ reader' = [reader EXCEPT ![s] =
                            IF retry THEN "retry" ELSE IF continue THEN "wait" ELSE @]
  BY DEF Response
<1>2. /\ reader[s] = "reading"
      /\ UNCHANGED <<current, deaf, caller, task, overtaken, stale>>
  BY DEF Response
<1>3. TypeOK /\ SlotInv(s) /\ session[s] \in Session
  BY DEF TurnInv, TypeOK
<1>4. r = session[s].request /\ session[s].running /\ prompts[s] = {r}
  BY <1>1, <1>2, <1>3 DEF SlotInv
<1> DEFINE answered == [session[s] EXCEPT !.request = None]
           retry == outcome = "transient" /\ RetriesLeft(answered)
           continue == /\ outcome = "result"
                       /\ answered.pending # {}
                       /\ answered.continuations < ContinuationLimit
           new == IF retry THEN Retried(answered)
                  ELSE IF continue THEN Continued(answered) ELSE Settled(answered)
           next == IF retry THEN "retry" ELSE IF continue THEN "wait" ELSE reader[s]
<1>5. /\ session' = [session EXCEPT ![s] = new]
      /\ reader' = [reader EXCEPT ![s] = next]
  BY <1>1, <1>4
<1>6. /\ new \in Session /\ new.running /\ new.allocated = session[s].allocated
      /\ new.request = None
      /\ new.active => new.scheduled /\ next \in {"retry", "wait"}
  <2>1. /\ answered \in Session /\ answered.running /\ answered.request = None
        /\ answered.allocated = session[s].allocated
    BY <1>3, <1>4 DEF Session
  <2>2. CASE retry
    <3>1. answered.retries + 1 \in 0..RetryLimit
      BY <2>1, <2>2, LimitsAssumption DEF Session, RetriesLeft
    <3>2. new = Retried(answered) /\ next = "retry"
      BY <2>2
    <3>3. Retried(answered) \in Session
      BY <2>1, <3>1 DEF Retried, Session
    <3>4. /\ Retried(answered).running /\ Retried(answered).scheduled
          /\ Retried(answered).allocated = session[s].allocated
          /\ Retried(answered).request = None
      BY <2>1 DEF Retried, Session
    <3> QED BY <3>2, <3>3, <3>4
  <2>3. CASE ~retry /\ continue
    <3>1. answered.continuations + 1 \in 0..ContinuationLimit
      BY <2>1, <2>3, LimitsAssumption DEF Session
    <3>2. new = Continued(answered) /\ next = "wait"
      BY <2>3
    <3>3. Continued(answered) \in Session
      BY <2>1, <3>1 DEF Continued, Session
    <3>4. /\ Continued(answered).running /\ Continued(answered).scheduled
          /\ Continued(answered).allocated = session[s].allocated
          /\ Continued(answered).request = None
      BY <2>1 DEF Continued, Session
    <3> QED BY <3>2, <3>3, <3>4
  <2>4. CASE ~retry /\ ~continue
    <3>1. new = Settled(answered)
      BY <2>4
    <3>2. Settled(answered) \in Session
      BY <2>1 DEF Settled, Session
    <3>3. /\ Settled(answered).running /\ ~Settled(answered).active
          /\ Settled(answered).allocated = session[s].allocated
          /\ Settled(answered).request = None
      BY <2>1 DEF Settled, Session
    <3> QED BY <3>1, <3>2, <3>3
  <2> QED BY <2>2, <2>3, <2>4
<1>7. next \in ReaderStates \ {None}
  BY <1>2 DEF ReaderStates
<1> HIDE DEF new, next
<1>8. /\ session' \in [Slots -> Session] /\ session'[s] = new
      /\ \A t \in Slots \ {s} : session'[t] = session[t]
  BY <1>3, <1>5, <1>6 DEF TypeOK
<1>9. /\ reader' \in [Slots -> ReaderStates] /\ reader'[s] = next
      /\ \A t \in Slots \ {s} : reader'[t] = reader[t]
  BY <1>3, <1>5, <1>7 DEF TypeOK
<1>10. /\ prompts' \in [Slots -> SUBSET RequestIds] /\ prompts'[s] = {}
       /\ \A t \in Slots \ {s} : prompts'[t] = prompts[t]
  BY <1>1, <1>3, <1>4 DEF TypeOK
<1>11. SlotInv(s)'
  <2>1. new.active => Driven(s)'
    BY <1>6, <1>8, <1>9 DEF Driven, Scheduled
  <2> QED BY <1>3, <1>4, <1>6, <1>7, <1>8, <1>9, <1>10, <2>1 DEF SlotInv
<1> QED BY <1>2, <1>3, <1>8, <1>9, <1>10, <1>11, ReaderMoves DEF TypeOK

\* The resume task that was promised is spawned.
LEMMA SpawnResumeKeeps ==
    ASSUME TurnInv, NEW s \in Slots, SpawnResume(s) PROVE TurnInv'
<1>1. PICK k \in Tasks :
          /\ task[k] = NoTask
          /\ task' = [task EXCEPT ![k] = [at |-> "sleep", slot |-> s,
                                          waits |-> reader[s] = "wait", rounds |-> 0]]
          /\ stale' = stale \ {k}
  BY DEF SpawnResume
<1>2. /\ reader[s] \in {"retry", "wait"}
      /\ reader' = [reader EXCEPT ![s] = "reading"]
      /\ UNCHANGED <<current, session, prompts, deaf, caller, overtaken>>
  BY DEF SpawnResume
<1>3. TypeOK /\ PointersHeld /\ SlotInv(s)
  BY DEF TurnInv
<1>4. /\ task' \in [Tasks -> Task]
      /\ task'[k].at = "sleep" /\ task'[k].slot = s
      /\ \A j \in Tasks \ {k} : task'[j] = task[j]
  <2>1. [at |-> "sleep", slot |-> s, waits |-> reader[s] = "wait", rounds |-> 0] \in Task
    BY LimitsAssumption DEF Task
  <2> QED BY <1>1, <1>3, <2>1 DEF TypeOK
<1>5. /\ reader' \in [Slots -> ReaderStates] /\ reader'[s] = "reading"
      /\ \A t \in Slots \ {s} : reader'[t] = reader[t]
  BY <1>2, <1>3 DEF TypeOK, ReaderStates
<1>6. TypeOK' /\ PointersHeld'
  BY <1>1, <1>2, <1>3, <1>4, <1>5 DEF TypeOK, PointersHeld
<1>7. SlotInv(s)'
  <2>1. Driven(s) => Driven(s)'
    <3>1. Scheduled(s) => Scheduled(s)'
      BY <1>2, <1>4 DEF Scheduled
    <3>2. task[k].at = None
      BY <1>1 DEF NoTask
    <3> QED BY <1>2, <1>4, <3>1, <3>2 DEF Driven
  <2> QED BY <1>2, <1>3, <1>5, <2>1 DEF SlotInv
<1>8. ASSUME NEW t \in Slots \ {s} PROVE SlotKept(t)
  <2>1. task[k].slot # t
    BY <1>1, NamesAssumption DEF NoTask
  <2> QED BY <1>2, <1>4, <1>5, <2>1 DEF SlotKept
<1> QED BY <1>6, <1>7, <1>8, OneSlot

\* observeOpenCodeSubagent touches the set of subagents only.
LEMMA ObserveKeeps ==
    ASSUME TurnInv, NEW s \in Slots, Observe(s) PROVE TurnInv'
<1>1. PICK pending \in SUBSET Children :
          session' = [session EXCEPT ![s].pending = pending]
  <2>1. PICK child \in Children :
            \/ session' = [session EXCEPT ![s].pending = @ \cup {child}]
            \/ session' = [session EXCEPT ![s].pending = @ \ {child}]
    BY DEF Observe
  <2>2. session[s].pending \in SUBSET Children
    BY DEF TurnInv, TypeOK, Session
  <2> QED BY <2>1, <2>2
<1>2. UNCHANGED <<current, reader, prompts, deaf, caller, task, overtaken, stale>>
  BY DEF Observe
<1>3. TypeOK /\ SlotInv(s) /\ session[s] \in Session
  BY DEF TurnInv, TypeOK
<1>4. /\ session' \in [Slots -> Session]
      /\ \A t \in Slots \ {s} : session'[t] = session[t]
  BY <1>1, <1>3 DEF TypeOK, Session
<1>5. /\ session'[s].allocated = session[s].allocated
      /\ session'[s].running = session[s].running
      /\ session'[s].active = session[s].active
      /\ session'[s].request = session[s].request
      /\ session'[s].scheduled = session[s].scheduled
  BY <1>1, <1>3 DEF TypeOK, Session
<1>6. SlotInv(s)'
  BY <1>2, <1>3, <1>5 DEF SlotInv, Driven, Scheduled
<1> QED BY <1>2, <1>3, <1>4, <1>6, ReaderMoves DEF TypeOK

\* The harness closes its input.
LEMMA HangupKeeps ==
    ASSUME TurnInv, NEW s \in Slots, Hangup(s) PROVE TurnInv'
<1>1. /\ deaf' = deaf \cup {s}
      /\ UNCHANGED <<current, session, reader, prompts, caller, task, overtaken, stale>>
  BY DEF Hangup
<1>2. SlotInv(s)'
  BY <1>1 DEF TurnInv, SlotInv, Driven, Scheduled
<1> QED BY <1>1, <1>2, ReaderMoves DEF TurnInv, TypeOK

\* readHarness ends: the session neither runs nor is active.
LEMMA ExitKeeps ==
    ASSUME TurnInv, NEW s \in Slots, Exit(s) PROVE TurnInv'
<1>1. /\ reader' = [reader EXCEPT ![s] = None]
      /\ prompts' = [prompts EXCEPT ![s] = {}]
      /\ session' = [session EXCEPT ![s].running = FALSE, ![s].active = FALSE]
      /\ UNCHANGED <<current, deaf, caller, task, overtaken, stale>>
  BY DEF Exit
<1>2. TypeOK /\ session[s] \in Session
  BY DEF TurnInv, TypeOK
<1>3. /\ session' \in [Slots -> Session]
      /\ \A t \in Slots \ {s} : session'[t] = session[t]
      /\ ~session'[s].running /\ ~session'[s].active
  BY <1>1, <1>2 DEF TypeOK, Session
<1>4. /\ prompts' \in [Slots -> SUBSET RequestIds] /\ prompts'[s] = {}
      /\ reader' \in [Slots -> ReaderStates] /\ reader'[s] = None
      /\ \A t \in Slots \ {s} : prompts'[t] = prompts[t] /\ reader'[t] = reader[t]
  BY <1>1, <1>2 DEF TypeOK, ReaderStates
<1>5. SlotInv(s)'
  BY <1>3, <1>4 DEF SlotInv
<1> QED BY <1>1, <1>2, <1>3, <1>4, <1>5, ReaderMoves DEF TypeOK

-----------------------------------------------------------------------------
(* The actions of a resume task *)

\* A task that ends because it is not wanted was not what the turn waited for.
LEMMA WakeKeeps ==
    ASSUME TurnInv, NEW k \in Tasks, Wake(k) PROVE TurnInv'
<1>1. PICK s \in Slots : task[k].slot = s
  BY DEF TurnInv, PointersHeld, Wake
<1>2. /\ task[k].at = "sleep"
      /\ UNCHANGED <<current, reader, prompts, deaf, caller, overtaken, stale>>
  BY DEF Wake
<1>3. TypeOK /\ SlotInv(s) /\ session[s] \in Session /\ task[k] \in Task
  BY DEF TurnInv, TypeOK
<1>4. NoTask \in Task /\ NoTask.at = None
  BY LimitsAssumption DEF NoTask, Task
<1>5. CASE Withdrawn(s) /\ task' = [task EXCEPT ![k] = NoTask] /\ UNCHANGED session
  <2>1. /\ task' \in [Tasks -> Task] /\ task'[k].at = None
        /\ \A j \in Tasks \ {k} : task'[j] = task[j]
    BY <1>3, <1>4, <1>5 DEF TypeOK
  <2>2. SlotInv(s)'
    <3>1. session[s].active => Driven(s)'
      <4>1. SUFFICES ASSUME session[s].active PROVE Driven(s)'
        OBVIOUS
      <4>2. session[s].running /\ (session[s].request # None \/ ~session[s].scheduled)
        BY <1>3, <1>5, <4>1 DEF SlotInv, Withdrawn
      <4>3. CASE session[s].request # None
        BY <1>2, <1>3, <1>5, <4>2, <4>3 DEF SlotInv, Driven
      <4>4. CASE ~session[s].scheduled
        <5>1. Driven(s) /\ ~Scheduled(s)
          BY <1>3, <4>1, <4>4 DEF SlotInv, Scheduled
        <5> QED BY <1>2, <1>5, <2>1, <5>1 DEF Driven
      <4> QED BY <4>2, <4>3, <4>4
    <3> QED BY <1>2, <1>3, <1>5, <3>1 DEF SlotInv
  <2> QED BY <1>1, <1>2, <1>3, <1>5, <2>1, <2>2, TaskMoves DEF TypeOK
<1>6. CASE ~Withdrawn(s) /\ UNCHANGED session
           /\ task' = [task EXCEPT ![k].rounds = IF @ < WaitRounds THEN @ + 1 ELSE @]
  <2>1. /\ task' \in [Tasks -> Task] /\ task'[k].at = task[k].at /\ task'[k].slot = task[k].slot
        /\ \A j \in Tasks \ {k} : task'[j] = task[j]
    BY <1>3, <1>6, LimitsAssumption DEF TypeOK, Task
  <2>2. Driven(s) => Driven(s)'
    BY <1>2, <1>6, <2>1 DEF Driven, Scheduled
  <2>3. SlotInv(s)'
    BY <1>2, <1>3, <1>6, <2>2 DEF SlotInv
  <2> QED BY <1>1, <1>2, <1>3, <1>6, <2>1, <2>3, TaskMoves DEF TypeOK
<1>7. CASE ~Withdrawn(s) /\ task' = [task EXCEPT ![k] = NoTask]
           /\ session' = [session EXCEPT ![s] = Settled(@)]
  <2>1. /\ task' \in [Tasks -> Task] /\ task'[k].at = None
        /\ \A j \in Tasks \ {k} : task'[j] = task[j]
    BY <1>3, <1>4, <1>7 DEF TypeOK
  <2>2. /\ session' \in [Slots -> Session]
        /\ \A t \in Slots \ {s} : session'[t] = session[t]
        /\ ~session'[s].active /\ session'[s].request = session[s].request
        /\ session'[s].running = session[s].running
        /\ session'[s].allocated = session[s].allocated
    BY <1>3, <1>7 DEF TypeOK, Session, Settled
  <2>3. SlotInv(s)'
    BY <1>2, <1>3, <2>2 DEF SlotInv
  <2> QED BY <1>1, <1>2, <1>3, <2>1, <2>2, <2>3, TaskMoves DEF TypeOK
<1>8. CASE ~Withdrawn(s) /\ task' = [task EXCEPT ![k].at = "send"]
           /\ session' = [session EXCEPT ![s].scheduled = FALSE]
  <2>1. /\ task' \in [Tasks -> Task] /\ task'[k].at = "send" /\ task'[k].slot = s
        /\ \A j \in Tasks \ {k} : task'[j] = task[j]
    BY <1>1, <1>3, <1>8 DEF TypeOK, Task
  <2>2. /\ session' \in [Slots -> Session]
        /\ \A t \in Slots \ {s} : session'[t] = session[t]
        /\ session'[s].active = session[s].active /\ session'[s].request = session[s].request
        /\ session'[s].running = session[s].running
        /\ session'[s].allocated = session[s].allocated
    BY <1>3, <1>8 DEF TypeOK, Session
  <2>3. Driven(s)'
    BY <2>1 DEF Driven
  <2>4. SlotInv(s)'
    BY <1>2, <1>3, <2>2, <2>3 DEF SlotInv
  <2> QED BY <1>1, <1>2, <1>3, <2>1, <2>2, <2>4, TaskMoves DEF TypeOK
<1> QED BY <1>1, <1>5, <1>6, <1>7, <1>8 DEF Wake

\* The continuation is sent.
LEMMA ResumeKeeps ==
    ASSUME TurnInv, NEW k \in Tasks, Resume(k) PROVE TurnInv'
<1>1. PICK s \in Slots : task[k].slot = s
  BY DEF TurnInv, PointersHeld, Resume
<1>2. /\ ~Refused(s) /\ Claim(s) /\ task' = [task EXCEPT ![k] = NoTask]
      /\ UNCHANGED <<current, reader, deaf, caller, overtaken, stale>>
  BY <1>1 DEF Resume
<1>3. TypeOK
  BY DEF TurnInv
<1>4. /\ task' \in [Tasks -> Task] /\ task'[k].at = None
      /\ \A j \in Tasks \ {k} : task'[j] = task[j]
  BY <1>2, <1>3, LimitsAssumption DEF TypeOK, NoTask, Task
<1>5. SlotInv(s)'
  BY <1>2, ClaimKeeps
<1>6. /\ session' \in [Slots -> Session] /\ prompts' \in [Slots -> SUBSET RequestIds]
      /\ \A t \in Slots \ {s} : session'[t] = session[t] /\ prompts'[t] = prompts[t]
  BY <1>2, <1>3, ClaimEffect
<1> QED BY <1>1, <1>2, <1>4, <1>5, <1>6, TaskMoves

\* The continuation is refused, or cannot be written.
LEMMA ResumeFailsKeeps ==
    ASSUME TurnInv, NEW k \in Tasks, ResumeFails(k) PROVE TurnInv'
<1>1. PICK s \in Slots : task[k].slot = s
  BY DEF TurnInv, PointersHeld, ResumeFails
<1>2. /\ IF Refused(s) THEN UNCHANGED <<session, prompts>> ELSE Unclaim(s)
      /\ task' = [task EXCEPT ![k].at = "failed"]
      /\ UNCHANGED <<current, reader, deaf, caller, overtaken, stale>>
  BY <1>1 DEF ResumeFails
<1>3. TypeOK /\ SlotInv(s)
  BY DEF TurnInv
<1>4. /\ task' \in [Tasks -> Task] /\ task'[k].at = "failed" /\ task'[k].slot = s
      /\ \A j \in Tasks \ {k} : task'[j] = task[j]
  BY <1>1, <1>2, <1>3 DEF TypeOK, Task
<1>5. /\ SlotInv(s)'
      /\ session' \in [Slots -> Session] /\ prompts' \in [Slots -> SUBSET RequestIds]
      /\ \A t \in Slots \ {s} : session'[t] = session[t] /\ prompts'[t] = prompts[t]
  <2>1. CASE Refused(s)
    <3>1. UNCHANGED <<session, prompts>>
      BY <1>2, <2>1
    <3>2. Driven(s)'
      BY <1>4 DEF Driven
    <3>3. SlotInv(s)'
      BY <1>2, <1>3, <3>1, <3>2 DEF SlotInv
    <3> QED BY <1>3, <3>1, <3>3 DEF TypeOK
  <2>2. CASE ~Refused(s)
    <3>1. SlotInv(s)'
      BY <1>2, <2>2, UnclaimKeeps
    <3> QED BY <1>2, <1>3, <2>2, <3>1, UnclaimEffect DEF TypeOK
  <2> QED BY <2>1, <2>2
<1> QED BY <1>1, <1>2, <1>4, <1>5, TaskMoves

\* The failure of a continuation ends the turn, whosever it is.
LEMMA RecordFailureKeeps ==
    ASSUME TurnInv, NEW k \in Tasks, RecordFailure(k) PROVE TurnInv'
<1>1. PICK s \in Slots : task[k].slot = s
  BY DEF TurnInv, PointersHeld, RecordFailure
<1>2. /\ session' = [session EXCEPT ![s].active = FALSE, ![s].waiting = FALSE]
      /\ task' = [task EXCEPT ![k] = NoTask]
      /\ UNCHANGED <<current, reader, prompts, deaf, caller, overtaken, stale>>
  BY <1>1 DEF RecordFailure
<1>3. TypeOK /\ SlotInv(s) /\ session[s] \in Session
  BY DEF TurnInv, TypeOK
<1>4. /\ task' \in [Tasks -> Task] /\ task'[k].at = None
      /\ \A j \in Tasks \ {k} : task'[j] = task[j]
  BY <1>2, <1>3, LimitsAssumption DEF TypeOK, NoTask, Task
<1>5. /\ session' \in [Slots -> Session]
      /\ \A t \in Slots \ {s} : session'[t] = session[t]
      /\ ~session'[s].active /\ session'[s].request = session[s].request
      /\ session'[s].running = session[s].running
      /\ session'[s].allocated = session[s].allocated
  BY <1>2, <1>3 DEF TypeOK, Session
<1>6. SlotInv(s)'
  BY <1>2, <1>3, <1>5 DEF SlotInv
<1> QED BY <1>1, <1>2, <1>3, <1>4, <1>5, <1>6, TaskMoves DEF TypeOK

-----------------------------------------------------------------------------
(* The invariant *)

\* The manager starts without sessions.
LEMMA InitHolds == Init => TurnInv
<1> SUFFICES ASSUME Init PROVE TurnInv
  OBVIOUS
<1>1. NoSession \in Session /\ ~NoSession.running /\ ~NoSession.active
  <2>1. NewSession \in Session
    BY LimitsAssumption DEF NewSession, Session
  <2>2. ~NewSession.active
    BY DEF NewSession
  <2> QED BY <2>1, <2>2 DEF NoSession, Session
<1>2. IdleCaller \in Caller /\ IdleCaller.at = "idle" /\ NoTask \in Task /\ NoTask.at = None
  BY LimitsAssumption DEF IdleCaller, Caller, NoTask, Task
<1>3. TypeOK /\ PointersHeld
  BY <1>1, <1>2 DEF Init, TypeOK, PointersHeld, ReaderStates
<1>4. \A s \in Slots : SlotInv(s)
  BY <1>1 DEF Init, SlotInv
<1> QED BY <1>3, <1>4 DEF TurnInv

\* Every step keeps it.
LEMMA NextKeeps == TurnInv /\ [Next]_vars => TurnInv'
<1> SUFFICES ASSUME TurnInv, [Next]_vars PROVE TurnInv'
  OBVIOUS
<1>1. ASSUME NEW c \in Callers, CallerStep(c) PROVE TurnInv'
  BY <1>1, EnsureFoundKeeps, EnsureCreatedKeeps, EnsureFailsKeeps, CheckKeeps,
     ClearKeeps, SendRefusedKeeps, SendKeeps, SendFailsKeeps DEF CallerStep
<1>2. ASSUME NEW s \in Slots, ReaderStep(s) PROVE TurnInv'
  BY <1>2, ResponseKeeps, SpawnResumeKeeps, ObserveKeeps, HangupKeeps, ExitKeeps DEF ReaderStep
<1>3. ASSUME NEW k \in Tasks, TaskStep(k) PROVE TurnInv'
  BY <1>3, WakeKeeps, ResumeKeeps, ResumeFailsKeeps, RecordFailureKeeps DEF TaskStep
<1>4. CASE UNCHANGED vars
  BY <1>4 DEF vars, TurnInv, TypeOK, PointersHeld, SlotInv, Driven, Scheduled
<1> QED BY <1>1, <1>2, <1>3, <1>4 DEF Next

\* The invariant holds in every state of every behaviour.
THEOREM TurnsHold == Spec => []TurnInv
<1>1. Init => TurnInv
  BY InitHolds
<1>2. TurnInv /\ [Next]_vars => TurnInv'
  BY NextKeeps
<1> QED BY <1>1, <1>2, PTL DEF Spec

\* Every variable keeps its type: the budgets of retries, continuations and waiting
\* are never exceeded, whichever handlers clear them meanwhile.
THEOREM TurnsAreTyped == Spec => []TypeOK
<1>1. TurnInv => TypeOK
  BY DEF TurnInv
<1> QED BY <1>1, TurnsHold, PTL

\* sendAcpPromptContinuation lets one prompt at a time through to the harness, for
\* any number of handlers, resume tasks and restarts of the harness.
THEOREM TurnsAreSingle == Spec => []SingleFlight
<1>1. TurnInv => SingleFlight
  BY DEF TurnInv, SlotInv, SingleFlight
<1> QED BY <1>1, TurnsHold, PTL

\* After readHarness has ended, no handler and no task makes the session active.
THEOREM ExitsAreFinal == Spec => []ExitedIsInactive
<1>1. TurnInv => ExitedIsInactive
  BY DEF TurnInv, SlotInv, ExitedIsInactive
<1> QED BY <1>1, TurnsHold, PTL

\* ensureAcpSession frees a session only when its reader task is gone.
THEOREM ReadersAreSafe == Spec => []FreedHasNoReader
<1>1. TurnInv => FreedHasNoReader
  BY DEF TurnInv, SlotInv, FreedHasNoReader
<1> QED BY <1>1, TurnsHold, PTL

\* A session never says active with nobody left to end the turn.
THEOREM TurnsAreDriven == Spec => []ActiveIsDriven
<1>1. TurnInv => ActiveIsDriven
  BY DEF TurnInv, SlotInv, ActiveIsDriven
<1> QED BY <1>1, TurnsHold, PTL

-----------------------------------------------------------------------------
(* A turn is carried on by one actor at a time: while no handler has overtaken *)
(* another, either a request is outstanding, or the reader is about to spawn   *)
(* the resume task, or that one task is alive.                                 *)

\* A resume task that is alive points to the session.
Holds(k, s) == task[k].at # None /\ task[k].slot = s

\* Who carries the turn on
Solo(s) ==
    /\ \A j, k \in Tasks : Holds(j, s) /\ Holds(k, s) => j = k
    /\ reader[s] \in {"retry", "wait"} =>
          /\ session[s].active /\ session[s].scheduled /\ prompts[s] = {}
          /\ \A k \in Tasks : ~Holds(k, s)
    /\ \A k \in Tasks : Holds(k, s) =>
          /\ prompts[s] = {}
          /\ session[s].running =>
                /\ task[k].at = "sleep" => session[s].active /\ session[s].scheduled
                /\ task[k].at = "send" => session[s].active /\ ~session[s].scheduled
                /\ task[k].at = "failed" => s \in deaf /\ ~session[s].scheduled
    /\ session[s].running /\ session[s].scheduled => session[s].active
    /\ prompts[s] # {} => session[s].active /\ ~session[s].scheduled

\* A task left over from an earlier turn is on a session that was overtaken.
StaleIsOvertaken == \A k \in stale : task[k].at # None => task[k].slot \in overtaken

SoloInv == (\A s \in Slots : s \notin overtaken => Solo(s)) /\ StaleIsOvertaken

\* Nothing changes that Solo(t) is about, but a task may leave.
SoloKept(t) ==
    /\ session'[t].running = session[t].running /\ session'[t].active = session[t].active
    /\ session'[t].scheduled = session[t].scheduled
    /\ reader'[t] = reader[t] /\ prompts'[t] = prompts[t]
    /\ t \in deaf => t \in deaf'
    /\ t \in overtaken => t \in overtaken'
    /\ \A k \in Tasks : Holds(k, t)' => Holds(k, t) /\ task'[k].at = task[k].at

\* Then Solo(t) stays.
LEMMA KeptSolo ==
    ASSUME NEW t \in Slots, Solo(t), SoloKept(t) PROVE Solo(t)'
<1> USE DEF SoloKept
<1>1. \A k \in Tasks : Holds(k, t)' => Holds(k, t)
  OBVIOUS
<1>2. (\A j, k \in Tasks : Holds(j, t) /\ Holds(k, t) => j = k)'
  BY <1>1 DEF Solo
<1>3. (reader[t] \in {"retry", "wait"} =>
          /\ session[t].active /\ session[t].scheduled /\ prompts[t] = {}
          /\ \A k \in Tasks : ~Holds(k, t))'
  BY <1>1 DEF Solo
<1>4. ASSUME NEW k \in Tasks, Holds(k, t)'
      PROVE  (/\ prompts[t] = {}
              /\ session[t].running =>
                   /\ task[k].at = "sleep" => session[t].active /\ session[t].scheduled
                   /\ task[k].at = "send" => session[t].active /\ ~session[t].scheduled
                   /\ task[k].at = "failed" => t \in deaf /\ ~session[t].scheduled)'
  <2>1. Holds(k, t) /\ task'[k].at = task[k].at
    BY <1>4
  <2> QED BY <2>1 DEF Solo
<1>5. (session[t].running /\ session[t].scheduled => session[t].active)'
  BY DEF Solo
<1>6. (prompts[t] # {} => session[t].active /\ ~session[t].scheduled)'
  BY DEF Solo
<1> QED BY <1>2, <1>3, <1>4, <1>5, <1>6 DEF Solo

\* A step on one session.
LEMMA OneSolo ==
    ASSUME SoloInv, NEW s \in Slots, s \notin overtaken' => Solo(s)',
           \A t \in Slots \ {s} : SoloKept(t), StaleIsOvertaken'
    PROVE  SoloInv'
<1>1. ASSUME NEW t \in Slots \ {s}, t \notin overtaken' PROVE Solo(t)'
  <2>1. SoloKept(t) /\ t \notin overtaken
    BY <1>1 DEF SoloKept
  <2> QED BY <2>1, KeptSolo DEF SoloInv
<1> QED BY <1>1 DEF SoloInv

\* A step that moves handlers only, or what Solo is not about.
LEMMA NoSolo ==
    ASSUME SoloInv, \A t \in Slots : SoloKept(t), StaleIsOvertaken'
    PROVE  SoloInv'
<1>1. ASSUME NEW t \in Slots, t \notin overtaken' PROVE Solo(t)'
  <2>1. SoloKept(t) /\ t \notin overtaken
    BY <1>1 DEF SoloKept
  <2> QED BY <2>1, KeptSolo DEF SoloInv
<1> QED BY <1>1 DEF SoloInv

\* What TurnInv says of a session that has a prompt or is idle
LEMMA SlotFacts ==
    ASSUME TurnInv, NEW s \in Slots
    PROVE  /\ ~session[s].running => prompts[s] = {} /\ ~session[s].active
           /\ session[s].running <=> reader[s] # None
           /\ session[s].running => session[s].allocated
           /\ prompts[s] \subseteq {session[s].request}
           /\ ~Refused(s) <=> session[s].running /\ session[s].request = None
           /\ session[s].request = None => prompts[s] = {}
           /\ session[s].running /\ prompts[s] = {} => ~Refused(s)
<1>1. SlotInv(s) /\ prompts[s] \in SUBSET RequestIds /\ None \notin RequestIds
  BY NamesAssumption DEF TurnInv, TypeOK
<1> QED BY <1>1 DEF SlotInv, Refused

\* A session that is not active and not overtaken has nobody who carries a turn on, but a
\* task whose write has failed.
LEMMA IdleFacts ==
    ASSUME TurnInv, NEW s \in Slots, Solo(s), session[s].running, ~session[s].active
    PROVE  /\ reader[s] \notin {"retry", "wait"} /\ prompts[s] = {} /\ ~session[s].scheduled
           /\ \A k \in Tasks : Holds(k, s) => task[k].at = "failed" /\ s \in deaf
<1>1. ASSUME NEW k \in Tasks, Holds(k, s) PROVE task[k].at = "failed" /\ s \in deaf
  <2>1. task[k].at \in {"sleep", "send", "failed"}
    BY <1>1 DEF TurnInv, TypeOK, Task, Holds
  <2> QED BY <1>1, <2>1 DEF Solo
<1> QED BY <1>1 DEF Solo

---------------------------------------------------------------------------
(* The actions of a handler *)

\* ensureAcpSession finds the session, turnPayloadAt looks at it, or the prompt is refused.
LEMMA LooksSolo ==
    ASSUME SoloInv,
           UNCHANGED <<session, reader, prompts, task, overtaken, stale>>, deaf \subseteq deaf'
    PROVE  SoloInv'
<1>1. \A t \in Slots : SoloKept(t)
  BY DEF SoloKept, Holds
<1>2. StaleIsOvertaken'
  BY DEF SoloInv, StaleIsOvertaken
<1> QED BY <1>1, <1>2, NoSolo

\* ensureAcpSession starts a harness at an address nobody points to.
LEMMA EnsureCreatedSolo ==
    ASSUME TurnInv, SoloInv, NEW c \in Callers, EnsureCreated(c) PROVE SoloInv'
<1>1. PICK s \in Slots :
          /\ Available(s)
          /\ session' = [Freed(current) EXCEPT ![s] = NewSession]
          /\ reader' = [reader EXCEPT ![s] = "reading"]
          /\ overtaken' = overtaken \ {s}
          /\ deaf' = deaf \ {s}
  BY DEF EnsureCreated
<1>2. /\ UNCHANGED <<prompts, task, stale>>
      /\ current # None => ~session[current].running
  BY DEF EnsureCreated, Reusable
<1>3. TypeOK /\ PointersHeld
  BY DEF TurnInv
<1>4. session'[s] = NewSession /\ reader'[s] = "reading"
  BY <1>1, <1>2, <1>3, FreedEffect DEF TypeOK
<1>5. \A k \in Tasks : ~Holds(k, s) /\ ~Holds(k, s)'
  BY <1>1, <1>2 DEF Available, PointsTo, Holds
<1>6. prompts'[s] = {}
  BY <1>1, <1>2, SlotFacts DEF Available
<1>7. Solo(s)'
  BY <1>4, <1>5, <1>6 DEF Solo, NewSession
<1>8. ASSUME NEW t \in Slots \ {s} PROVE SoloKept(t)
  <2>1. reader'[t] = reader[t] /\ session'[t] = Freed(current)[t]
    BY <1>1, <1>2, <1>3, FreedEffect DEF TypeOK
  <2>2. /\ session'[t].running = session[t].running
        /\ session'[t].active = session[t].active
        /\ session'[t].scheduled = session[t].scheduled
    BY <1>2, <1>3, <2>1, FreedEffect
  <2> QED BY <1>1, <1>2, <2>1, <2>2 DEF SoloKept, Holds
<1>9. StaleIsOvertaken'
  <2>1. ASSUME NEW k \in stale', task'[k].at # None PROVE task'[k].slot \in overtaken'
    <3>1. k \in stale /\ task[k].at # None /\ task'[k] = task[k] /\ k \in Tasks
      BY <1>2, <1>3, <2>1 DEF TypeOK
    <3>2. task[k].slot \in overtaken
      BY <3>1 DEF SoloInv, StaleIsOvertaken
    <3>3. task[k].slot # s
      BY <1>5, <3>1 DEF Holds
    <3> QED BY <1>1, <3>1, <3>2, <3>3
  <2> QED BY <2>1 DEF StaleIsOvertaken
<1> QED BY <1>7, <1>8, <1>9, OneSolo

\* ensureAcpSession frees the session that exited and has no other.
LEMMA EnsureFailsSolo ==
    ASSUME TurnInv, SoloInv, NEW c \in Callers, EnsureFails(c) PROVE SoloInv'
<1>1. /\ session' = Freed(current) /\ ~session[current].running
      /\ UNCHANGED <<reader, prompts, deaf, caller, task, overtaken, stale>>
  BY DEF EnsureFails, Reusable
<1>2. ASSUME NEW t \in Slots PROVE SoloKept(t)
  <2>1. /\ session'[t].running = session[t].running
        /\ session'[t].active = session[t].active
        /\ session'[t].scheduled = session[t].scheduled
    BY <1>1, FreedEffect DEF TurnInv
  <2> QED BY <1>1, <2>1 DEF SoloKept, Holds
<1>3. StaleIsOvertaken'
  BY <1>1 DEF SoloInv, StaleIsOvertaken
<1> QED BY <1>2, <1>3, NoSolo

\* A handler past its check meets a session: it is idle, or it is overtaken.
LEMMA OvertakesFacts ==
    ASSUME TypeOK, NEW c \in Callers, NEW s \in Slots, caller[c].slot = s, Overtakes(c)
    PROVE  /\ s \notin overtaken' => s \notin overtaken /\ ~session[s].active
           /\ overtaken \subseteq overtaken'
           /\ \A t \in Slots \ {s} : t \in overtaken' => t \in overtaken
  BY DEF Overtakes, TypeOK

\* sendAcpPrompt clears a field of an idle session.
LEMMA ClearSolo ==
    ASSUME TurnInv, SoloInv, NEW c \in Callers, Clear(c) PROVE SoloInv'
<1>1. PICK s \in Slots : caller[c].slot = s
  BY FieldFacts DEF TurnInv, PointersHeld, Clear
<1>2. PICK f \in Fields : caller[c].at = f
  BY DEF Clear
<1>3. /\ session' = [session EXCEPT ![s][f] = Cleared[f]]
      /\ Overtakes(c)
      /\ UNCHANGED <<current, reader, prompts, deaf, task, stale>>
  BY <1>1, <1>2 DEF Clear
<1>4. TypeOK /\ session[s] \in Session
  BY DEF TurnInv, TypeOK
<1>5. /\ \A t \in Slots \ {s} : session'[t] = session[t]
      /\ session'[s].running = session[s].running
      /\ session'[s].active = session[s].active
      /\ session'[s].scheduled => session[s].scheduled
  <2>1. CASE f = "scheduled"
    BY <1>3, <1>4, <2>1 DEF TypeOK, Session, Cleared
  <2>2. CASE f # "scheduled"
    BY <1>3, <1>4, <2>2, FieldFacts DEF TypeOK, Session
  <2> QED BY <2>1, <2>2
<1>6. ASSUME s \notin overtaken' PROVE Solo(s)'
  <2>1. s \notin overtaken /\ ~session[s].active /\ Solo(s)
    BY <1>1, <1>3, <1>4, <1>6, OvertakesFacts DEF SoloInv
  <2>2. \A k \in Tasks : Holds(k, s)' <=> Holds(k, s)
    BY <1>3 DEF Holds
  <2>3. CASE session[s].running
    <3>1. /\ reader[s] \notin {"retry", "wait"} /\ prompts[s] = {} /\ ~session[s].scheduled
          /\ \A k \in Tasks : Holds(k, s) => task[k].at = "failed" /\ s \in deaf
      BY <2>1, <2>3, IdleFacts
    <3> QED BY <1>3, <1>5, <2>1, <2>2, <3>1 DEF Solo
  <2>4. CASE ~session[s].running
    <3>1. prompts[s] = {} /\ reader[s] = None
      BY <2>4, SlotFacts
    <3> QED BY <1>3, <1>5, <2>1, <2>2, <2>4, <3>1 DEF Solo
  <2> QED BY <2>3, <2>4
<1>7. ASSUME NEW t \in Slots \ {s} PROVE SoloKept(t)
  BY <1>1, <1>3, <1>4, <1>5, OvertakesFacts DEF SoloKept, Holds
<1>8. StaleIsOvertaken'
  BY <1>1, <1>3, <1>4, OvertakesFacts DEF SoloInv, StaleIsOvertaken
<1> QED BY <1>6, <1>7, <1>8, OneSolo

\* The effect of a claim and of a failed one on what carries the turn on
LEMMA ClaimSets ==
    ASSUME TypeOK, NEW s \in Slots, Claim(s)
    PROVE  /\ session'[s].active /\ session'[s].running = session[s].running
           /\ session'[s].scheduled = session[s].scheduled
           /\ s \notin deaf
<1>1. PICK r \in RequestIds :
          session' = [session EXCEPT ![s].request = r, ![s].active = TRUE, ![s].waiting = FALSE]
  BY DEF Claim
<1>2. session[s] \in Session /\ session \in [Slots -> Session]
  BY DEF TypeOK
<1> QED BY <1>1, <1>2 DEF Session, Claim

\* Unclaim, likewise
LEMMA UnclaimSets ==
    ASSUME TypeOK, NEW s \in Slots, Unclaim(s)
    PROVE  /\ ~session'[s].active /\ session'[s].running = session[s].running
           /\ session'[s].scheduled = session[s].scheduled
           /\ s \in deaf
<1>1. session' = [session EXCEPT ![s].request = None, ![s].active = FALSE, ![s].waiting = FALSE]
  BY DEF Unclaim
<1>2. session[s] \in Session /\ session \in [Slots -> Session]
  BY DEF TypeOK
<1> QED BY <1>1, <1>2 DEF Session, Unclaim

\* The prompt is sent: nobody else carries a turn on, or the session is overtaken.
LEMMA SendSolo ==
    ASSUME TurnInv, SoloInv, NEW c \in Callers, Send(c) PROVE SoloInv'
<1>1. PICK s \in Slots : caller[c].slot = s
  BY DEF TurnInv, PointersHeld, Send
<1>2. /\ UNCHANGED <<current, reader, deaf, task>>
      /\ ~Refused(s) /\ Claim(s) /\ Overtakes(c)
      /\ stale' = stale \cup {k \in Tasks : task[k].slot = s}
  BY <1>1 DEF Send
<1>3. TypeOK
  BY DEF TurnInv
<1>4. /\ session'[s].active /\ session'[s].running = session[s].running
      /\ session'[s].scheduled = session[s].scheduled /\ s \notin deaf
      /\ \A t \in Slots \ {s} : session'[t] = session[t] /\ prompts'[t] = prompts[t]
  BY <1>2, <1>3, ClaimSets, ClaimEffect
<1>5. session[s].running
  BY <1>2, SlotFacts
<1>6. ASSUME s \notin overtaken'
      PROVE  /\ Solo(s) /\ reader[s] \notin {"retry", "wait"} /\ ~session[s].scheduled
             /\ \A k \in Tasks : ~Holds(k, s)
  <2>1. s \notin overtaken /\ ~session[s].active /\ Solo(s)
    BY <1>1, <1>2, <1>3, <1>6, OvertakesFacts DEF SoloInv
  <2> QED BY <1>4, <1>5, <2>1, IdleFacts
<1>7. ASSUME s \notin overtaken' PROVE Solo(s)'
  <2>1. \A k \in Tasks : ~Holds(k, s)'
    BY <1>2, <1>6, <1>7 DEF Holds
  <2> QED BY <1>2, <1>4, <1>6, <1>7, <2>1 DEF Solo
<1>8. ASSUME NEW t \in Slots \ {s} PROVE SoloKept(t)
  BY <1>1, <1>2, <1>3, <1>4, OvertakesFacts DEF SoloKept, Holds
<1>9. StaleIsOvertaken'
  <2>1. ASSUME NEW k \in stale', task'[k].at # None PROVE task'[k].slot \in overtaken'
    <3>1. CASE k \in stale
      BY <1>1, <1>2, <1>3, <2>1, <3>1, OvertakesFacts DEF SoloInv, StaleIsOvertaken
    <3>2. CASE k \notin stale
      <4>1. k \in Tasks /\ Holds(k, s) /\ task'[k].slot = s
        BY <1>2, <2>1, <3>2 DEF Holds
      <4> QED BY <1>6, <4>1
    <3> QED BY <3>1, <3>2
  <2> QED BY <2>1 DEF StaleIsOvertaken
<1> QED BY <1>7, <1>8, <1>9, OneSolo

\* The prompt could not be written.
LEMMA SendFailsSolo ==
    ASSUME TurnInv, SoloInv, NEW c \in Callers, SendFails(c) PROVE SoloInv'
<1>1. PICK s \in Slots : caller[c].slot = s
  BY DEF TurnInv, PointersHeld, SendFails
<1>2. /\ UNCHANGED <<current, reader, deaf, task, stale>>
      /\ ~Refused(s) /\ Unclaim(s) /\ Overtakes(c)
  BY <1>1 DEF SendFails
<1>3. TypeOK
  BY DEF TurnInv
<1>4. /\ ~session'[s].active /\ session'[s].running = session[s].running
      /\ session'[s].scheduled = session[s].scheduled
      /\ prompts' = prompts
      /\ \A t \in Slots \ {s} : session'[t] = session[t]
  BY <1>2, <1>3, UnclaimSets, UnclaimEffect
<1>5. session[s].running
  BY <1>2, SlotFacts
<1>6. ASSUME s \notin overtaken' PROVE Solo(s)'
  <2>1. s \notin overtaken /\ ~session[s].active /\ Solo(s)
    BY <1>1, <1>2, <1>3, <1>6, OvertakesFacts DEF SoloInv
  <2>2. /\ reader[s] \notin {"retry", "wait"} /\ prompts[s] = {} /\ ~session[s].scheduled
        /\ \A k \in Tasks : Holds(k, s) => task[k].at = "failed" /\ s \in deaf
    BY <1>5, <2>1, IdleFacts
  <2>3. \A k \in Tasks : Holds(k, s)' <=> Holds(k, s)
    BY <1>2 DEF Holds
  <2> QED BY <1>2, <1>4, <2>1, <2>2, <2>3 DEF Solo
<1>7. ASSUME NEW t \in Slots \ {s} PROVE SoloKept(t)
  BY <1>1, <1>2, <1>3, <1>4, OvertakesFacts DEF SoloKept, Holds
<1>8. StaleIsOvertaken'
  BY <1>1, <1>2, <1>3, OvertakesFacts DEF SoloInv, StaleIsOvertaken
<1> QED BY <1>6, <1>7, <1>8, OneSolo

---------------------------------------------------------------------------
(* The actions of the reader *)

\* handleAcpLine: the answer leaves the turn to the reader, or ends it.
LEMMA ResponseSolo ==
    ASSUME TurnInv, SoloInv, NEW s \in Slots, Response(s) PROVE SoloInv'
<1>1. PICK r \in prompts[s], outcome \in Outcomes :
          /\ prompts' = [prompts EXCEPT ![s] = @ \ {r}]
          /\ LET answered == [session[s] EXCEPT !.request = None]
                 retry == outcome = "transient" /\ RetriesLeft(answered)
                 continue == /\ outcome = "result"
                             /\ answered.pending # {}
                             /\ answered.continuations < ContinuationLimit
             IN IF r # session[s].request
                THEN UNCHANGED <<session, reader>>
                ELSE /\ session' = [session EXCEPT ![s] =
                            IF retry THEN Retried(answered)
                            ELSE IF continue THEN Continued(answered)
                            ELSE Settled(answered)]
                     /\ reader' = [reader EXCEPT ![s] =
                            IF retry THEN "retry" ELSE IF continue THEN "wait" ELSE @]
  BY DEF Response
<1>2. reader[s] = "reading" /\ UNCHANGED <<current, deaf, caller, task, overtaken, stale>>
  BY DEF Response
<1>3. TypeOK /\ session[s] \in Session
  BY DEF TurnInv, TypeOK
<1>4. prompts[s] = {r} /\ r = session[s].request /\ session[s].running
  BY <1>1, <1>2, SlotFacts
<1> DEFINE answered == [session[s] EXCEPT !.request = None]
           retry == outcome = "transient" /\ RetriesLeft(answered)
           continue == /\ outcome = "result"
                       /\ answered.pending # {}
                       /\ answered.continuations < ContinuationLimit
           new == IF retry THEN Retried(answered)
                  ELSE IF continue THEN Continued(answered) ELSE Settled(answered)
           next == IF retry THEN "retry" ELSE IF continue THEN "wait" ELSE reader[s]
<1>5. session' = [session EXCEPT ![s] = new] /\ reader' = [reader EXCEPT ![s] = next]
  BY <1>1, <1>4
<1>6. /\ new.running
      /\ \/ next \in {"retry", "wait"} /\ new.active /\ new.scheduled
         \/ next = "reading" /\ ~new.active /\ ~new.scheduled
  <2>1. answered \in Session /\ answered.running
    BY <1>3, <1>4 DEF Session
  <2>2. /\ Retried(answered).running /\ Retried(answered).active /\ Retried(answered).scheduled
        /\ Continued(answered).running /\ Continued(answered).active
        /\ Continued(answered).scheduled
        /\ Settled(answered).running /\ ~Settled(answered).active
        /\ ~Settled(answered).scheduled
    BY <2>1 DEF Retried, Continued, Settled, Session
  <2>3. \/ retry /\ new = Retried(answered) /\ next = "retry"
        \/ ~retry /\ continue /\ new = Continued(answered) /\ next = "wait"
        \/ ~retry /\ ~continue /\ new = Settled(answered) /\ next = reader[s]
    OBVIOUS
  <2> HIDE DEF new, next, answered, retry, continue
  <2> QED BY <1>2, <2>2, <2>3
<1> HIDE DEF new, next
<1>7. /\ session'[s] = new /\ reader'[s] = next /\ prompts'[s] = {}
      /\ \A t \in Slots \ {s} : /\ session'[t] = session[t] /\ reader'[t] = reader[t]
                                /\ prompts'[t] = prompts[t]
  BY <1>1, <1>3, <1>4, <1>5 DEF TypeOK
<1>8. ASSUME s \notin overtaken' PROVE Solo(s)'
  <2>1. Solo(s)
    BY <1>2, <1>8 DEF SoloInv
  <2>2. \A k \in Tasks : ~Holds(k, s)
    BY <1>4, <2>1 DEF Solo
  <2>3. \A k \in Tasks : ~Holds(k, s)'
    BY <1>2, <2>2 DEF Holds
  <2> QED BY <1>6, <1>7, <2>3 DEF Solo
<1>9. ASSUME NEW t \in Slots \ {s} PROVE SoloKept(t)
  BY <1>2, <1>7 DEF SoloKept, Holds
<1>10. StaleIsOvertaken'
  BY <1>2 DEF SoloInv, StaleIsOvertaken
<1> QED BY <1>8, <1>9, <1>10, OneSolo

\* The reader hands the turn to the task it spawns.
LEMMA SpawnResumeSolo ==
    ASSUME TurnInv, SoloInv, NEW s \in Slots, SpawnResume(s) PROVE SoloInv'
<1>1. PICK k \in Tasks :
          /\ task[k] = NoTask
          /\ task' = [task EXCEPT ![k] = [at |-> "sleep", slot |-> s,
                                          waits |-> reader[s] = "wait", rounds |-> 0]]
          /\ stale' = stale \ {k}
  BY DEF SpawnResume
<1>2. /\ reader[s] \in {"retry", "wait"}
      /\ reader' = [reader EXCEPT ![s] = "reading"]
      /\ UNCHANGED <<current, session, prompts, deaf, caller, overtaken>>
  BY DEF SpawnResume
<1>3. TypeOK
  BY DEF TurnInv
<1>4. /\ task'[k].at = "sleep" /\ task'[k].slot = s
      /\ \A j \in Tasks \ {k} : task'[j] = task[j]
      /\ reader'[s] = "reading" /\ \A t \in Slots \ {s} : reader'[t] = reader[t]
  BY <1>1, <1>2, <1>3 DEF TypeOK
<1>5. ASSUME s \notin overtaken' PROVE Solo(s)'
  <2>1. Solo(s)
    BY <1>2, <1>5 DEF SoloInv
  <2>2. session[s].active /\ session[s].scheduled /\ prompts[s] = {} /\ \A j \in Tasks : ~Holds(j, s)
    BY <1>2, <2>1 DEF Solo
  <2>3. \A j \in Tasks : Holds(j, s)' => j = k
    BY <1>4, <2>2 DEF Holds
  <2> QED BY <1>2, <1>4, <2>2, <2>3 DEF Solo
<1>6. ASSUME NEW t \in Slots \ {s} PROVE SoloKept(t)
  BY <1>2, <1>4 DEF SoloKept, Holds
<1>7. StaleIsOvertaken'
  BY <1>1, <1>2, <1>3, <1>4 DEF SoloInv, StaleIsOvertaken, TypeOK
<1> QED BY <1>5, <1>6, <1>7, OneSolo

\* observeOpenCodeSubagent touches the set of subagents only.
LEMMA ObserveSolo ==
    ASSUME TurnInv, SoloInv, NEW s \in Slots, Observe(s) PROVE SoloInv'
<1>1. PICK pending \in SUBSET Children :
          session' = [session EXCEPT ![s].pending = pending]
  <2>1. PICK child \in Children :
            \/ session' = [session EXCEPT ![s].pending = @ \cup {child}]
            \/ session' = [session EXCEPT ![s].pending = @ \ {child}]
    BY DEF Observe
  <2>2. session[s].pending \in SUBSET Children
    BY DEF TurnInv, TypeOK, Session
  <2> QED BY <2>1, <2>2
<1>2. UNCHANGED <<current, reader, prompts, deaf, caller, task, overtaken, stale>>
  BY DEF Observe
<1>3. session \in [Slots -> Session]
  BY DEF TurnInv, TypeOK
<1>4. ASSUME NEW t \in Slots
      PROVE  /\ session'[t].running = session[t].running
             /\ session'[t].active = session[t].active
             /\ session'[t].scheduled = session[t].scheduled
  BY <1>1, <1>3 DEF Session
<1>5. \A t \in Slots : SoloKept(t)
  BY <1>2, <1>4 DEF SoloKept, Holds
<1>6. StaleIsOvertaken'
  BY <1>2 DEF SoloInv, StaleIsOvertaken
<1> QED BY <1>5, <1>6, NoSolo

\* readHarness ends, and with it whatever was carried on.
LEMMA ExitSolo ==
    ASSUME TurnInv, SoloInv, NEW s \in Slots, Exit(s) PROVE SoloInv'
<1>1. /\ reader' = [reader EXCEPT ![s] = None]
      /\ prompts' = [prompts EXCEPT ![s] = {}]
      /\ session' = [session EXCEPT ![s].running = FALSE, ![s].active = FALSE]
      /\ UNCHANGED <<current, deaf, caller, task, overtaken, stale>>
  BY DEF Exit
<1>2. TypeOK /\ session[s] \in Session
  BY DEF TurnInv, TypeOK
<1>3. /\ ~session'[s].running /\ reader'[s] = None /\ prompts'[s] = {}
      /\ \A t \in Slots \ {s} : /\ session'[t] = session[t] /\ reader'[t] = reader[t]
                                /\ prompts'[t] = prompts[t]
  BY <1>1, <1>2 DEF TypeOK, Session
<1>4. ASSUME s \notin overtaken' PROVE Solo(s)'
  <2>1. Solo(s)
    BY <1>1, <1>4 DEF SoloInv
  <2>2. \A k \in Tasks : Holds(k, s)' <=> Holds(k, s)
    BY <1>1 DEF Holds
  <2> QED BY <1>3, <2>1, <2>2 DEF Solo
<1>5. ASSUME NEW t \in Slots \ {s} PROVE SoloKept(t)
  BY <1>1, <1>3 DEF SoloKept, Holds
<1>6. StaleIsOvertaken'
  BY <1>1 DEF SoloInv, StaleIsOvertaken
<1> QED BY <1>4, <1>5, <1>6, OneSolo

---------------------------------------------------------------------------
(* The actions of a resume task *)

\* A task that goes on or ends is stale only where it was.
LEMMA TaskStale ==
    ASSUME TurnInv, SoloInv, NEW k \in Tasks, task[k].at # None,
           \A j \in Tasks \ {k} : task'[j] = task[j],
           task'[k].at # None => task'[k].slot = task[k].slot,
           UNCHANGED <<overtaken, stale>>
    PROVE  StaleIsOvertaken'
BY DEF SoloInv, StaleIsOvertaken, TurnInv, TypeOK

\* The task that carries the turn on is the only one, and Solo(s) is about it.
LEMMA TaskFacts ==
    ASSUME TurnInv, SoloInv, NEW k \in Tasks, task[k].at # None, NEW s \in Slots,
           task[k].slot = s, s \notin overtaken,
           \A j \in Tasks \ {k} : task'[j] = task[j]
    PROVE  /\ Solo(s) /\ prompts[s] = {} /\ reader[s] \notin {"retry", "wait"}
           /\ session[s].running =>
                /\ task[k].at = "sleep" => session[s].active /\ session[s].scheduled
                /\ task[k].at = "send" => session[s].active /\ ~session[s].scheduled
                /\ task[k].at = "failed" => s \in deaf /\ ~session[s].scheduled
           /\ \A j \in Tasks : Holds(j, s)' => j = k
<1>1. Solo(s) /\ Holds(k, s)
  BY DEF SoloInv, Holds
<1>2. \A j \in Tasks : Holds(j, s) => j = k
  BY <1>1 DEF Solo
<1>3. \A j \in Tasks : Holds(j, s)' => j = k
  BY <1>2 DEF Holds
<1> QED BY <1>1, <1>3 DEF Solo

\* The task sleeps on, ends the turn, takes it over, or finds that the harness has gone.
LEMMA WakeSolo ==
    ASSUME TurnInv, SoloInv, NEW k \in Tasks, Wake(k) PROVE SoloInv'
<1>1. PICK s \in Slots : task[k].slot = s
  BY DEF TurnInv, PointersHeld, Wake
<1>2. /\ task[k].at = "sleep"
      /\ UNCHANGED <<current, reader, prompts, deaf, caller, overtaken, stale>>
  BY DEF Wake
<1>3. TypeOK /\ session[s] \in Session /\ task[k] \in Task
  BY DEF TurnInv, TypeOK
<1>4. \/ task'[k] = NoTask /\ session' = session
      \/ /\ ~Withdrawn(s) /\ task'[k].at = "sleep" /\ task'[k].slot = s /\ session' = session
      \/ /\ ~Withdrawn(s) /\ task'[k] = NoTask
         /\ session' = [session EXCEPT ![s] = Settled(@)]
      \/ /\ ~Withdrawn(s) /\ task'[k].at = "send" /\ task'[k].slot = s
         /\ session' = [session EXCEPT ![s].scheduled = FALSE]
  BY <1>1, <1>2, <1>3 DEF Wake, TypeOK, Task
<1>5. \A j \in Tasks \ {k} : task'[j] = task[j]
  BY <1>3 DEF Wake, TypeOK
<1>6. \A t \in Slots \ {s} : session'[t] = session[t]
  BY <1>3, <1>4 DEF TypeOK
<1>7. NoTask.at = None
  BY DEF NoTask
<1>8. ASSUME s \notin overtaken' PROVE Solo(s)'
  <2>1. /\ Solo(s) /\ prompts[s] = {} /\ reader[s] \notin {"retry", "wait"}
        /\ session[s].running => session[s].active /\ session[s].scheduled
        /\ \A j \in Tasks : Holds(j, s)' => j = k
    BY <1>1, <1>2, <1>5, <1>8, TaskFacts
  <2>2. CASE task'[k] = NoTask /\ session' = session
    BY <1>2, <1>7, <2>1, <2>2 DEF Solo, Holds
  <2>3. CASE task'[k].at = "sleep" /\ session' = session
    BY <1>2, <2>1, <2>3 DEF Solo
  <2>4. CASE task'[k] = NoTask /\ session' = [session EXCEPT ![s] = Settled(@)]
    <3>1. ~session'[s].active /\ ~session'[s].scheduled
      BY <1>3, <2>4 DEF TypeOK, Session, Settled
    <3> QED BY <1>2, <1>7, <2>1, <2>4, <3>1 DEF Solo, Holds
  <2>5. CASE /\ ~Withdrawn(s) /\ task'[k].at = "send"
             /\ session' = [session EXCEPT ![s].scheduled = FALSE]
    <3>1. session'[s].active /\ ~session'[s].scheduled
      BY <1>3, <2>5 DEF TypeOK, Session, Withdrawn
    <3> QED BY <1>2, <2>1, <2>5, <3>1 DEF Solo
  <2> QED BY <1>4, <2>2, <2>3, <2>4, <2>5
<1>9. ASSUME NEW t \in Slots \ {s} PROVE SoloKept(t)
  <2>1. \A j \in Tasks : Holds(j, t)' => j # k
    BY <1>4, <1>7 DEF Holds
  <2> QED BY <1>2, <1>5, <1>6, <2>1 DEF SoloKept, Holds
<1>10. StaleIsOvertaken'
  BY <1>1, <1>2, <1>4, <1>5, <1>7, TaskStale
<1> QED BY <1>8, <1>9, <1>10, OneSolo

\* The continuation is sent by the only one who could.
LEMMA ResumeSolo ==
    ASSUME TurnInv, SoloInv, NEW k \in Tasks, Resume(k) PROVE SoloInv'
<1>1. PICK s \in Slots : task[k].slot = s
  BY DEF TurnInv, PointersHeld, Resume
<1>2. /\ task[k].at = "send" /\ ~Refused(s) /\ Claim(s) /\ task' = [task EXCEPT ![k] = NoTask]
      /\ UNCHANGED <<current, reader, deaf, caller, overtaken, stale>>
  BY <1>1 DEF Resume
<1>3. TypeOK /\ NoTask.at = None
  BY DEF TurnInv, NoTask
<1>4. task'[k].at = None /\ \A j \in Tasks \ {k} : task'[j] = task[j]
  BY <1>2, <1>3 DEF TypeOK
<1>5. /\ session'[s].active /\ session'[s].running = session[s].running
      /\ session'[s].scheduled = session[s].scheduled
      /\ \A t \in Slots \ {s} : session'[t] = session[t] /\ prompts'[t] = prompts[t]
  BY <1>2, <1>3, ClaimSets, ClaimEffect
<1>6. ASSUME s \notin overtaken' PROVE Solo(s)'
  <2>1. /\ Solo(s) /\ reader[s] \notin {"retry", "wait"} /\ ~session[s].scheduled
        /\ \A j \in Tasks : Holds(j, s)' => j = k
    BY <1>1, <1>2, <1>4, <1>6, TaskFacts, SlotFacts
  <2>2. \A j \in Tasks : ~Holds(j, s)'
    BY <1>4, <2>1 DEF Holds
  <2> QED BY <1>2, <1>5, <2>1, <2>2 DEF Solo
<1>7. ASSUME NEW t \in Slots \ {s} PROVE SoloKept(t)
  BY <1>2, <1>4, <1>5 DEF SoloKept, Holds
<1>8. StaleIsOvertaken'
  BY <1>2, <1>4, TaskStale
<1> QED BY <1>6, <1>7, <1>8, OneSolo

\* The continuation cannot be written, or the harness has gone.
LEMMA ResumeFailsSolo ==
    ASSUME TurnInv, SoloInv, NEW k \in Tasks, ResumeFails(k) PROVE SoloInv'
<1>1. PICK s \in Slots : task[k].slot = s
  BY DEF TurnInv, PointersHeld, ResumeFails
<1>2. /\ task[k].at = "send"
      /\ IF Refused(s) THEN UNCHANGED <<session, prompts>> ELSE Unclaim(s)
      /\ task' = [task EXCEPT ![k].at = "failed"]
      /\ UNCHANGED <<current, reader, deaf, caller, overtaken, stale>>
  BY <1>1 DEF ResumeFails
<1>3. TypeOK
  BY DEF TurnInv
<1>4. /\ task'[k].at = "failed" /\ task'[k].slot = s
      /\ \A j \in Tasks \ {k} : task'[j] = task[j]
  BY <1>1, <1>2, <1>3 DEF TypeOK, Task
<1>5. /\ session'[s].running = session[s].running
      /\ session'[s].scheduled = session[s].scheduled
      /\ prompts' = prompts
      /\ \A t \in Slots \ {s} : session'[t] = session[t]
      /\ ~Refused(s) => s \in deaf
  <2>1. CASE Refused(s)
    BY <1>2, <2>1
  <2>2. CASE ~Refused(s)
    BY <1>2, <1>3, <2>2, UnclaimSets, UnclaimEffect
  <2> QED BY <2>1, <2>2
<1>6. ASSUME s \notin overtaken' PROVE Solo(s)'
  <2>1. /\ Solo(s) /\ prompts[s] = {} /\ reader[s] \notin {"retry", "wait"}
        /\ session[s].running => ~session[s].scheduled
        /\ \A j \in Tasks : Holds(j, s)' => j = k
    BY <1>1, <1>2, <1>4, <1>6, TaskFacts
  <2>2. session[s].running => s \in deaf
    BY <1>5, <2>1, SlotFacts
  <2> QED BY <1>2, <1>4, <1>5, <2>1, <2>2 DEF Solo
<1>7. ASSUME NEW t \in Slots \ {s} PROVE SoloKept(t)
  BY <1>1, <1>2, <1>4, <1>5 DEF SoloKept, Holds
<1>8. StaleIsOvertaken'
  BY <1>1, <1>2, <1>4, TaskStale
<1> QED BY <1>6, <1>7, <1>8, OneSolo

\* The failure is recorded: there is no prompt, so no turn is cut short.
LEMMA RecordFailureSolo ==
    ASSUME TurnInv, SoloInv, NEW k \in Tasks, RecordFailure(k) PROVE SoloInv'
<1>1. PICK s \in Slots : task[k].slot = s
  BY DEF TurnInv, PointersHeld, RecordFailure
<1>2. /\ task[k].at = "failed"
      /\ session' = [session EXCEPT ![s].active = FALSE, ![s].waiting = FALSE]
      /\ task' = [task EXCEPT ![k] = NoTask]
      /\ UNCHANGED <<current, reader, prompts, deaf, caller, overtaken, stale>>
  BY <1>1 DEF RecordFailure
<1>3. TypeOK /\ session[s] \in Session /\ NoTask.at = None
  BY DEF TurnInv, TypeOK, NoTask
<1>4. task'[k].at = None /\ \A j \in Tasks \ {k} : task'[j] = task[j]
  BY <1>2, <1>3 DEF TypeOK
<1>5. /\ session'[s].running = session[s].running
      /\ session'[s].scheduled = session[s].scheduled
      /\ \A t \in Slots \ {s} : session'[t] = session[t]
  BY <1>2, <1>3 DEF TypeOK, Session
<1>6. ASSUME s \notin overtaken' PROVE Solo(s)'
  <2>1. /\ Solo(s) /\ prompts[s] = {} /\ reader[s] \notin {"retry", "wait"}
        /\ session[s].running => ~session[s].scheduled
        /\ \A j \in Tasks : Holds(j, s)' => j = k
    BY <1>1, <1>2, <1>4, <1>6, TaskFacts
  <2>2. \A j \in Tasks : ~Holds(j, s)'
    BY <1>4, <2>1 DEF Holds
  <2> QED BY <1>2, <1>5, <2>1, <2>2 DEF Solo
<1>7. ASSUME NEW t \in Slots \ {s} PROVE SoloKept(t)
  BY <1>2, <1>4, <1>5 DEF SoloKept, Holds
<1>8. StaleIsOvertaken'
  BY <1>2, <1>4, TaskStale
<1> QED BY <1>6, <1>7, <1>8, OneSolo

---------------------------------------------------------------------------
(* The invariant *)

\* There are no sessions and no tasks at first.
LEMMA SoloInit == Init => SoloInv
<1> SUFFICES ASSUME Init PROVE SoloInv
  OBVIOUS
<1>1. ~NoSession.running /\ NoTask.at = None
  BY DEF NoSession, NewSession, NoTask
<1>2. \A s \in Slots : Solo(s)
  BY <1>1 DEF Init, Solo, Holds
<1> QED BY <1>2 DEF Init, SoloInv, StaleIsOvertaken

\* Every step keeps it, given the invariant of the turns.
LEMMA SoloNext == TurnInv /\ SoloInv /\ [Next]_vars => SoloInv'
<1> SUFFICES ASSUME TurnInv, SoloInv, [Next]_vars PROVE SoloInv'
  OBVIOUS
<1>1. ASSUME NEW c \in Callers, CallerStep(c) PROVE SoloInv'
  <2>1. CASE EnsureFound(c) \/ Check(c) \/ SendRefused(c)
    BY <2>1, LooksSolo DEF EnsureFound, Check, SendRefused
  <2> QED BY <1>1, <2>1, EnsureCreatedSolo, EnsureFailsSolo, ClearSolo, SendSolo, SendFailsSolo
          DEF CallerStep
<1>2. ASSUME NEW s \in Slots, ReaderStep(s) PROVE SoloInv'
  <2>1. CASE Hangup(s)
    BY <2>1, LooksSolo DEF Hangup
  <2> QED BY <1>2, <2>1, ResponseSolo, SpawnResumeSolo, ObserveSolo, ExitSolo DEF ReaderStep
<1>3. ASSUME NEW k \in Tasks, TaskStep(k) PROVE SoloInv'
  BY <1>3, WakeSolo, ResumeSolo, ResumeFailsSolo, RecordFailureSolo DEF TaskStep
<1>4. CASE UNCHANGED vars
  BY <1>4, LooksSolo DEF vars
<1> QED BY <1>1, <1>2, <1>3, <1>4 DEF Next

\* Until a handler overtakes another, a turn has one actor at a time that carries it on.
THEOREM SoloHolds == Spec => []SoloInv
<1>1. Init => SoloInv
  BY SoloInit
<1>2. TurnInv /\ SoloInv /\ [Next]_vars => SoloInv'
  BY SoloNext
<1> QED BY <1>1, <1>2, TurnsHold, PTL DEF Spec

\* A session with a prompt says active: no failure of an earlier continuation, no refusal and no
\* deadline ends its turn, unless a handler overtook another.
THEOREM OutstandingSaysActive == Spec => []OutstandingIsActive
<1>1. SoloInv => OutstandingIsActive
  BY DEF SoloInv, Solo, OutstandingIsActive
<1> QED BY <1>1, SoloHolds, PTL

\* A resume task that is about to send was scheduled by the turn it continues, likewise.
THEOREM ResumesAreCurrent == Spec => []ResumeIsCurrent
<1>1. TurnInv /\ SoloInv => ResumeIsCurrent
  BY DEF SoloInv, StaleIsOvertaken, ResumeIsCurrent
<1> QED BY <1>1, TurnsHold, SoloHolds, PTL
=============================================================================
