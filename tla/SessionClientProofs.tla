------------------------ MODULE SessionClientProofs ------------------------
(***************************************************************************)
(* What holds of SessionClient for any number of events, of lives of the   *)
(* runtime and of requests, faults and reloads.                            *)
(*                                                                         *)
(* ClientInv relates four things: the cursors and what the coalescer holds *)
(* (Cursors), the place of the stream and the receive gate (StreamInv),    *)
(* the transcript and the log (Once, Whole), and the fetch of the runtime  *)
(* list and the graces it must respect (PollInv).                          *)
(***************************************************************************)
EXTENDS SessionClient, TLAPS

USE DEF Last

ClientType ==
    [status : Statuses, pi : BOOLEAN, lastSeq : 0..MaxSeq,
     shown : [Events -> 0..2], received : 0..MaxSeq, committed : 0..MaxSeq,
     pending : SUBSET Events, newest : 0..MaxSeq,
     kind : Kinds \cup {"none"}, accepted : BOOLEAN,
     finished : BOOLEAN, key : Lives,
     seen : [status : Statuses, pi : BOOLEAN]]

ServerType == [life : Lives, key : Lives, log : Seq(Kinds \cup {"settled"}),
               active : BOOLEAN, settled : BOOLEAN]
AttType == [on : BOOLEAN, key : 0..MaxLives, pi : BOOLEAN,
            link : {"open", "ended", "broken", "closed"}, after : 0..MaxSeq, pos : 0..MaxSeq,
            end : 0..MaxSeq + 1, timer : BOOLEAN,
            probe : {"none", "sent", "active", "idle", "null"}]
PollType == [st : {"none", "sent", "read"}, active : BOOLEAN, key : 0..MaxLives,
             mayIdle : BOOLEAN, mayPromote : BOOLEAN]
TurnType == [st : {"none", "sent", "answered", "failed", "active", "idle"}, seq : 0..MaxSeq]
LoadType == [st : {"none", "reading"}, canon : 0..MaxSeq, active : BOOLEAN,
             seq : 0..MaxSeq, need : SUBSET {"canon", "status", "failed", "null"}]
Chats == {"prompt", "steer"}

\* TypeOK, variable by variable
Typed ==
    /\ server \in ServerType /\ client \in ClientType /\ att \in AttType /\ poll \in PollType
    /\ turn \in [Chats -> TurnType] /\ load \in LoadType
    /\ abort \in {"none", "sent", "answered"}
    /\ left \in [Chances -> Nat]
    /\ lapse \subseteq {"overtaken", "reload", "reads", "restart", "rewind"}

\* What is held lies between the committed and the received cursor.
Cursors(c) ==
    /\ c.committed <= c.received /\ c.newest <= c.received
    /\ \A e \in c.pending : c.committed < e[2] /\ e[2] <= c.received

\* How often an event is in the transcript or on its way to it
Weight(c, e) == c.shown[e] + (IF e \in c.pending THEN 1 ELSE 0)

\* No event twice, none of this life beyond the gate and none of a life to come
Once(c, life) ==
    /\ c.lastSeq <= c.committed
    /\ \A e \in Events : Weight(c, e) <= 1
    /\ \A e \in Events : Weight(c, e) > 0 => e[1] <= life /\ (e[1] = life => e[2] <= c.received)

\* None within the gate is missing.
Whole(c, life) == \A q \in Seqs : q <= c.received => Weight(c, <<life, q>>) = 1

\* A restart the gate has not noticed leaves the transcript without duplicates.
ViewInv ==
    /\ lapse \subseteq {"restart"} => Once(client, server.life)
    /\ lapse = {} => Whole(client, server.life)

\* The stream sends nothing that is beyond the next number.
Behind(a, n) ==
    a.on => /\ a.link \in {"open", "ended"} => a.pos <= n
            /\ a.link = "broken" => a.after <= n
StreamShape ==
    /\ att.after <= att.pos
    /\ att.link = "ended" /\ att.pos < att.end => att.end <= Last
    /\ Last <= MaxSeq
    /\ att.end <= MaxSeq
StreamInv == StreamShape /\ (lapse = {} => Behind(att, client.received))

\* A fetch knows the graces that were given before it is applied.
PollInv ==
    /\ poll.st = "none" => ~poll.mayIdle
    /\ poll.st = "read" => poll.key \in Lives
    /\ client.accepted => ~poll.mayIdle
    /\ client.finished => ~poll.mayPromote

HeldInv == Cursors(client) /\ (client.pending # {} => att.on)

ClientInv == Typed /\ HeldInv /\ ViewInv /\ StreamInv /\ PollInv

---------------------------------------------------------------------------
(* What the operations on a session do to it                               *)

\* The bounds are numbers, and there is a first life.
LEMMA BoundsFacts == MaxSeq \in Nat /\ MaxLives \in Nat /\ 1 \in Lives
BY BoundsAssumption DEF Lives

\* Larger is one of the two and at least both.
LEMMA LargerFacts ==
    ASSUME NEW m \in Nat, NEW n \in Nat
    PROVE  /\ Larger(m, n) \in Nat /\ m <= Larger(m, n) /\ n <= Larger(m, n)
           /\ Larger(m, n) \in {m, n}
BY DEF Larger

\* What the cursors and the transcript have nothing to do with
SameRest(d, c) ==
    /\ d.status = c.status /\ d.pi = c.pi /\ d.accepted = c.accepted
    /\ d.finished = c.finished /\ d.key = c.key /\ d.seen = c.seen

\* Apply counts each of the events once and moves the two committed cursors.
LEMMA ApplyFacts ==
    ASSUME NEW c \in ClientType, NEW es \in SUBSET Events, NEW n \in 0..MaxSeq
    PROVE  /\ Apply(c, es, n) \in ClientType
           /\ SameRest(Apply(c, es, n), c) /\ Apply(c, es, n).received = c.received
           /\ Apply(c, es, n).pending = c.pending /\ Apply(c, es, n).newest = c.newest
           /\ Apply(c, es, n).committed = Larger(c.committed, n)
           /\ Apply(c, es, n).lastSeq = Larger(c.lastSeq, n)
           /\ \A e \in Events : Apply(c, es, n).shown[e] =
                                   IF e \in es /\ c.shown[e] < 2 THEN c.shown[e] + 1 ELSE c.shown[e]
<1> DEFINE more == [e \in Events |-> IF e \in es /\ c.shown[e] < 2 THEN c.shown[e] + 1 ELSE c.shown[e]]
           a == Apply(c, es, n)
<1>1. /\ a = [c EXCEPT !.shown = more, !.lastSeq = Larger(c.lastSeq, n),
                       !.committed = Larger(c.committed, n)]
  BY DEF Apply, ClientType
<1>2. more \in [Events -> 0..2]
  <2>1. c.shown \in [Events -> 0..2]
    BY DEF ClientType
  <2> QED BY <2>1
<1>3. Larger(c.lastSeq, n) \in 0..MaxSeq /\ Larger(c.committed, n) \in 0..MaxSeq
  BY BoundsFacts DEF Larger, ClientType
<1> HIDE DEF more
<1>4. a \in ClientType
  BY <1>1, <1>2, <1>3 DEF ClientType
<1>5. /\ a.shown = more /\ a.committed = Larger(c.committed, n) /\ a.lastSeq = Larger(c.lastSeq, n)
      /\ a.status = c.status /\ a.pi = c.pi /\ a.received = c.received /\ a.pending = c.pending
      /\ a.newest = c.newest /\ a.kind = c.kind /\ a.accepted = c.accepted
      /\ a.finished = c.finished /\ a.key = c.key /\ a.seen = c.seen
  BY <1>1 DEF ClientType
<1> QED BY <1>4, <1>5 DEF more, SameRest

\* Discard forgets what is held and nothing else.
LEMMA DiscardFacts ==
    ASSUME NEW c \in ClientType
    PROVE  /\ Discard(c) \in ClientType /\ SameRest(Discard(c), c)
           /\ Discard(c).pending = {} /\ Discard(c).newest = 0
           /\ Discard(c).shown = c.shown /\ Discard(c).lastSeq = c.lastSeq
           /\ Discard(c).received = c.received /\ Discard(c).committed = c.committed
<1>1. 0 \in 0..MaxSeq /\ {} \in SUBSET Events
  BY BoundsFacts
<1>2. Discard(c) \in ClientType
  BY <1>1 DEF Discard, ClientType
<1>3. /\ Discard(c).pending = {} /\ Discard(c).newest = 0 /\ Discard(c).shown = c.shown
      /\ Discard(c).lastSeq = c.lastSeq /\ Discard(c).received = c.received
      /\ Discard(c).committed = c.committed
  BY DEF Discard, ClientType
<1>4. SameRest(Discard(c), c)
  BY DEF Discard, ClientType, SameRest
<1> QED BY <1>2, <1>3, <1>4

\* What a flush and an event that is applied at once do to the cursors
LEMMA FlushFacts ==
    ASSUME NEW c \in ClientType, Cursors(c)
    PROVE  /\ Flush(c) \in ClientType /\ Cursors(Flush(c)) /\ SameRest(Flush(c), c)
           /\ Flush(c).pending = {} /\ Flush(c).received = c.received
           /\ Flush(c).committed \in {c.committed, Larger(c.committed, c.newest)}
           /\ c.lastSeq <= c.committed => Flush(c).lastSeq <= Flush(c).committed
<1>1. CASE c.pending = {}
  BY <1>1 DEF Flush, Cursors, SameRest
<1>2. CASE c.pending # {}
  <2> DEFINE a == Apply(c, c.pending, c.newest)
  <2>1. c.pending \in SUBSET Events /\ c.newest \in 0..MaxSeq
        /\ c.committed \in 0..MaxSeq /\ c.lastSeq \in 0..MaxSeq /\ c.received \in 0..MaxSeq
    BY DEF ClientType
  <2>2. /\ a \in ClientType /\ SameRest(a, c) /\ a.received = c.received
        /\ a.committed = Larger(c.committed, c.newest) /\ a.lastSeq = Larger(c.lastSeq, c.newest)
    BY <2>1, ApplyFacts
  <2>3. Flush(c) = Discard(a)
    BY <1>2 DEF Flush
  <2> HIDE DEF a
  <2>4. /\ Discard(a) \in ClientType /\ SameRest(Discard(a), a) /\ Discard(a).pending = {}
        /\ Discard(a).newest = 0 /\ Discard(a).lastSeq = a.lastSeq
        /\ Discard(a).received = a.received /\ Discard(a).committed = a.committed
    BY <2>2, DiscardFacts
  <2>5. SameRest(Discard(a), c)
    BY <2>2, <2>4 DEF SameRest
  <2>6. a.committed <= c.received /\ (c.lastSeq <= c.committed => a.lastSeq <= a.committed)
    BY <2>1, <2>2, BoundsFacts DEF Larger, Cursors
  <2>7. Cursors(Discard(a))
    BY <2>1, <2>2, <2>4, <2>6 DEF Cursors
  <2> QED BY <2>2, <2>3, <2>4, <2>5, <2>6, <2>7
<1> QED BY <1>1, <1>2

\* A flush neither loses nor repeats an event.
LEMMA FlushWeight ==
    ASSUME NEW c \in ClientType, \A e \in Events : Weight(c, e) <= 1, NEW e \in Events
    PROVE  Weight(Flush(c), e) = Weight(c, e)
<1>1. CASE c.pending = {}
  BY <1>1 DEF Flush
<1>2. CASE c.pending # {}
  <2> DEFINE a == Apply(c, c.pending, c.newest)
  <2>1. c.pending \in SUBSET Events /\ c.newest \in 0..MaxSeq
    BY DEF ClientType
  <2>2. /\ a \in ClientType
        /\ a.shown[e] = IF e \in c.pending /\ c.shown[e] < 2 THEN c.shown[e] + 1 ELSE c.shown[e]
    BY <2>1, ApplyFacts
  <2>3. Flush(c) = Discard(a)
    BY <1>2 DEF Flush
  <2> HIDE DEF a
  <2>4. Discard(a).pending = {} /\ Discard(a).shown = a.shown
    BY <2>2, DiscardFacts
  <2>5. c.shown[e] \in 0..2
    BY DEF ClientType
  <2>6. Weight(c, e) <= 1
    OBVIOUS
  <2> QED BY <2>2, <2>3, <2>4, <2>5, <2>6 DEF Weight
<1> QED BY <1>1, <1>2

\* Weights are natural numbers.
LEMMA WeightType ==
    ASSUME NEW c \in ClientType, NEW e \in Events
    PROVE  Weight(c, e) \in Nat
<1>1. c.shown[e] \in 0..2
  BY DEF ClientType
<1> QED BY <1>1 DEF Weight

\* Sessions with the same events on their way to the same place
Alike(d, c) == d.received = c.received /\ \A e \in Events : Weight(d, e) = Weight(c, e)

\* Where the weights agree, so do the statements about them.
LEMMA AlikeView ==
    ASSUME NEW c \in ClientType, NEW d \in ClientType, Alike(d, c), NEW life \in Lives,
           c.lastSeq <= c.committed => d.lastSeq <= d.committed
    PROVE  /\ Once(c, life) => Once(d, life)
           /\ Whole(c, life) => Whole(d, life)
<1>1. Once(c, life) => Once(d, life)
  BY DEF Alike, Once
<1>2. Whole(c, life) => Whole(d, life)
  <2>1. \A q \in Seqs : <<life, q>> \in Events
    BY DEF Events
  <2> QED BY <2>1 DEF Alike, Whole
<1> QED BY <1>1, <1>2

\* A flush changes nothing a reader of the weights can see.
LEMMA FlushView ==
    ASSUME NEW c \in ClientType, Cursors(c), NEW life \in Lives
    PROVE  /\ Once(c, life) => Once(Flush(c), life)
           /\ Once(c, life) /\ Whole(c, life) => Whole(Flush(c), life)
<1> SUFFICES ASSUME Once(c, life)
             PROVE  Once(Flush(c), life) /\ (Whole(c, life) => Whole(Flush(c), life))
  OBVIOUS
<1>1. /\ Flush(c) \in ClientType /\ Flush(c).received = c.received
      /\ c.lastSeq <= c.committed => Flush(c).lastSeq <= Flush(c).committed
  BY FlushFacts
<1>2. \A e \in Events : Weight(Flush(c), e) = Weight(c, e)
  BY FlushWeight DEF Once
<1>3. Alike(Flush(c), c)
  BY <1>1, <1>2 DEF Alike
<1> QED BY <1>1, <1>3, AlikeView

\* Adopt forgets what is held and sets all three cursors to n.
LEMMA AdoptFacts ==
    ASSUME NEW c \in ClientType, NEW n \in 0..MaxSeq
    PROVE  /\ Adopt(c, n) \in ClientType /\ Cursors(Adopt(c, n)) /\ SameRest(Adopt(c, n), c)
           /\ Adopt(c, n).pending = {} /\ Adopt(c, n).shown = c.shown
           /\ Adopt(c, n).received = n /\ Adopt(c, n).lastSeq = n /\ Adopt(c, n).committed = n
<1> DEFINE d == Discard(c)
           a == [d EXCEPT !.received = n, !.committed = n, !.lastSeq = n]
<1>1. /\ d \in ClientType /\ SameRest(d, c) /\ d.pending = {}
      /\ d.newest = 0 /\ d.shown = c.shown
  BY DiscardFacts
<1>2. Adopt(c, n) = a
  BY DEF Adopt
<1> HIDE DEF d
<1>3. a \in ClientType
  BY <1>1 DEF ClientType
<1>4. /\ a.received = n /\ a.committed = n /\ a.lastSeq = n /\ a.pending = d.pending
      /\ a.newest = d.newest /\ a.shown = d.shown
  BY <1>1 DEF ClientType
<1>5. SameRest(a, d)
  BY <1>1 DEF ClientType, SameRest
<1>6. SameRest(a, c)
  BY <1>1, <1>5 DEF SameRest
<1>7. Cursors(a)
  BY <1>1, <1>4 DEF Cursors
<1> HIDE DEF a
<1> QED BY <1>1, <1>2, <1>3, <1>4, <1>6, <1>7

\* A transcript of which nothing beyond n of this life, and all up to it, is shown
LEMMA AdoptView ==
    ASSUME NEW c \in ClientType, NEW n \in 0..MaxSeq, NEW life \in Lives,
           \A e \in Events : c.shown[e] <= 1,
           \A e \in Events : c.shown[e] > 0 => e[1] <= life /\ (e[1] = life => e[2] <= n),
           \A q \in Seqs : q <= n => c.shown[<<life, q>>] = 1
    PROVE  Once(Adopt(c, n), life) /\ Whole(Adopt(c, n), life)
<1>1. /\ Adopt(c, n).pending = {} /\ Adopt(c, n).shown = c.shown
      /\ Adopt(c, n).received = n /\ Adopt(c, n).lastSeq = n /\ Adopt(c, n).committed = n
  BY AdoptFacts
<1>2. \A e \in Events : Weight(Adopt(c, n), e) = c.shown[e]
  <2> SUFFICES ASSUME NEW e \in Events PROVE Weight(Adopt(c, n), e) = c.shown[e]
    OBVIOUS
  <2>1. c.shown[e] \in 0..2
    BY DEF ClientType
  <2> QED BY <1>1, <2>1 DEF Weight
<1>3. Once(Adopt(c, n), life)
  BY <1>1, <1>2 DEF Once
<1>4. \A q \in Seqs : <<life, q>> \in Events
  BY DEF Events
<1> QED BY <1>1, <1>2, <1>3, <1>4 DEF Whole

\* An event comes in: the next number of the gate, above all that is held or committed.
LEMMA EnqueueFacts ==
    ASSUME NEW c \in ClientType, Cursors(c), NEW e \in Events, NEW k \in Kinds \cup {"settled"},
           c.received = e[2], c.committed < e[2], c.newest < e[2],
           \A p \in c.pending : p[2] < e[2]
    PROVE  /\ Enqueue(c, e, k) \in ClientType /\ Cursors(Enqueue(c, e, k))
           /\ SameRest(Enqueue(c, e, k), c) /\ Enqueue(c, e, k).received = c.received
           /\ c.lastSeq <= c.committed => Enqueue(c, e, k).lastSeq <= Enqueue(c, e, k).committed
<1> DEFINE f == Flush(c)
<1>0. /\ e[2] \in 0..MaxSeq /\ e[2] \in Nat /\ (k \in Held => k \in Kinds \cup {"none"})
  BY BoundsFacts DEF Events, Seqs, Held, Merging
<1>1. /\ f \in ClientType /\ Cursors(f) /\ SameRest(f, c) /\ f.pending = {}
      /\ f.received = c.received /\ f.committed < e[2]
      /\ c.lastSeq <= c.committed => f.lastSeq <= f.committed
  <2>1. c.committed \in Nat /\ c.newest \in Nat /\ c.received \in Nat
    BY DEF ClientType
  <2>2. Larger(c.committed, c.newest) < e[2]
    BY <2>1, <1>0 DEF Larger
  <2> QED BY <2>1, <2>2, FlushFacts
<1> HIDE DEF f
<1>2. CASE k \in Held
  <2> DEFINE r == IF k = c.kind /\ k \in Merging THEN c ELSE f
             h == [r EXCEPT !.pending = r.pending \cup {e}, !.newest = e[2], !.kind = k]
  <2>1. Enqueue(c, e, k) = h
    BY <1>2 DEF Enqueue, f
  <2>2. /\ r \in ClientType /\ Cursors(r) /\ SameRest(r, c) /\ r.received = c.received
        /\ r.committed < e[2]
        /\ c.lastSeq <= c.committed => r.lastSeq <= r.committed
        /\ \A p \in r.pending : p[2] < e[2]
    BY <1>1 DEF SameRest
  <2> HIDE DEF r
  <2>3. h \in ClientType
    <3>1. r.pending \cup {e} \in SUBSET Events
      BY <2>2 DEF ClientType
    <3> QED BY <1>0, <1>2, <2>2, <3>1 DEF ClientType
  <2>4. /\ h.pending = r.pending \cup {e} /\ h.newest = e[2] /\ h.received = r.received
        /\ h.committed = r.committed /\ h.lastSeq = r.lastSeq
    BY <2>2 DEF ClientType
  <2>5. SameRest(h, r)
    BY <2>2 DEF ClientType, SameRest
  <2>6. SameRest(h, c)
    BY <2>2, <2>5 DEF SameRest
  <2>7. Cursors(h)
    BY <1>0, <2>2, <2>4 DEF Cursors, ClientType
  <2> HIDE DEF h
  <2> QED BY <2>1, <2>2, <2>3, <2>4, <2>6, <2>7
<1>3. CASE k \notin Held
  <2> DEFINE a == Apply(f, {e}, e[2])
  <2>1. Enqueue(c, e, k) = a
    BY <1>3 DEF Enqueue, f
  <2>2. {e} \in SUBSET Events
    OBVIOUS
  <2>3. /\ a \in ClientType /\ SameRest(a, f) /\ a.received = f.received
        /\ a.pending = f.pending /\ a.newest = f.newest
        /\ a.committed = Larger(f.committed, e[2]) /\ a.lastSeq = Larger(f.lastSeq, e[2])
    BY <1>0, <1>1, <2>2, ApplyFacts
  <2> HIDE DEF a
  <2>4. f.committed \in Nat /\ f.lastSeq \in Nat
    BY <1>1 DEF ClientType
  <2>5. a.committed = e[2] /\ (f.lastSeq <= f.committed => a.lastSeq <= a.committed)
    BY <1>0, <1>1, <2>3, <2>4 DEF Larger
  <2>6. Cursors(a)
    BY <1>0, <1>1, <2>3, <2>5 DEF Cursors
  <2>7. SameRest(a, c)
    BY <1>1, <2>3 DEF SameRest
  <2> QED BY <1>1, <2>1, <2>3, <2>5, <2>6, <2>7
<1> QED BY <1>2, <1>3

\* An event that is new counts once, and no other changes its weight.
LEMMA EnqueueWeight ==
    ASSUME NEW c \in ClientType, Cursors(c), NEW e \in Events, NEW k \in Kinds \cup {"settled"},
           \A d \in Events : Weight(c, d) <= 1, Weight(c, e) = 0, NEW d \in Events
    PROVE  Weight(Enqueue(c, e, k), d) = IF d = e THEN 1 ELSE Weight(c, d)
<1> DEFINE f == Flush(c)
<1>1. f \in ClientType /\ f.pending = {} /\ Weight(f, d) = Weight(c, d) /\ Weight(f, e) = 0
  BY FlushFacts, FlushWeight
<1> HIDE DEF f
<1>2. CASE k \in Held
  <2> DEFINE r == IF k = c.kind /\ k \in Merging THEN c ELSE f
             h == [r EXCEPT !.pending = r.pending \cup {e}, !.newest = e[2], !.kind = k]
  <2>1. Enqueue(c, e, k) = h
    BY <1>2 DEF Enqueue, f
  <2>2. r \in ClientType /\ Weight(r, d) = Weight(c, d) /\ Weight(r, e) = 0
    BY <1>1
  <2> HIDE DEF r
  <2>3. h.pending = r.pending \cup {e} /\ h.shown = r.shown
    BY <2>2 DEF ClientType
  <2>4. r.shown[d] \in 0..2 /\ r.shown[e] \in 0..2
    BY <2>2 DEF ClientType
  <2>5. Weight(h, d) = IF d = e THEN 1 ELSE Weight(r, d)
    BY <2>2, <2>3, <2>4 DEF Weight
  <2> QED BY <2>1, <2>2, <2>5
<1>3. CASE k \notin Held
  <2> DEFINE a == Apply(f, {e}, e[2])
  <2>1. Enqueue(c, e, k) = a
    BY <1>3 DEF Enqueue, f
  <2>2. {e} \in SUBSET Events /\ e[2] \in 0..MaxSeq
    BY BoundsFacts DEF Events, Seqs
  <2>3. /\ a.pending = f.pending
        /\ a.shown[d] = IF d \in {e} /\ f.shown[d] < 2 THEN f.shown[d] + 1 ELSE f.shown[d]
    BY <1>1, <2>2, ApplyFacts
  <2> HIDE DEF a
  <2>4. f.shown[d] \in 0..2 /\ f.shown[e] \in 0..2
    BY <1>1 DEF ClientType
  <2>5. Weight(a, d) = IF d = e THEN 1 ELSE Weight(f, d)
    BY <1>1, <2>3, <2>4 DEF Weight
  <2> QED BY <1>1, <2>1, <2>5
<1> QED BY <1>2, <1>3

\* Sessions with the same transcript and the same cursors
SameHeld(d, c) ==
    /\ d.shown = c.shown /\ d.pending = c.pending /\ d.lastSeq = c.lastSeq
    /\ d.received = c.received /\ d.committed = c.committed /\ d.newest = c.newest

\* What was said of one of two such sessions holds of the other.
LEMMA SameHeldView ==
    ASSUME NEW c \in ClientType, NEW d \in ClientType, SameHeld(d, c), NEW life \in Lives
    PROVE  /\ Cursors(c) => Cursors(d)
           /\ Once(c, life) => Once(d, life)
           /\ Whole(c, life) => Whole(d, life)
<1>1. Cursors(c) => Cursors(d)
  BY DEF SameHeld, Cursors
<1>2. \A e \in Events : Weight(d, e) = Weight(c, e)
  BY DEF SameHeld, Weight
<1>3. Alike(d, c)
  BY <1>2 DEF Alike, SameHeld
<1> QED BY <1>1, <1>3, AlikeView DEF SameHeld

\* An event beyond the gate comes in: d is the session when the gate has passed it.
LEMMA ArriveFacts ==
    ASSUME NEW c \in ClientType, Cursors(c), NEW life \in Lives, NEW q \in Seqs, c.received < q,
           NEW k \in Kinds \cup {"settled"}, NEW d \in ClientType, d.received = q,
           d.shown = c.shown, d.pending = c.pending, d.lastSeq = c.lastSeq,
           d.committed = c.committed, d.newest = c.newest
    PROVE  /\ Enqueue(d, <<life, q>>, k) \in ClientType /\ Cursors(Enqueue(d, <<life, q>>, k))
           /\ SameRest(Enqueue(d, <<life, q>>, k), d)
           /\ Enqueue(d, <<life, q>>, k).received = q
           /\ Once(c, life) => Once(Enqueue(d, <<life, q>>, k), life)
           /\ Once(c, life) /\ Whole(c, life) /\ q = c.received + 1
                => Whole(Enqueue(d, <<life, q>>, k), life)
<1> DEFINE e == <<life, q>>
           n == Enqueue(d, e, k)
<1>1. e \in Events /\ e[1] = life /\ e[2] = q /\ q \in Nat
  BY BoundsFacts DEF Events, Seqs
<1>2. /\ c.committed \in Nat /\ c.received \in Nat /\ c.newest \in Nat
      /\ c.committed < q /\ c.newest < q
  BY <1>1 DEF ClientType, Cursors
<1>3. \A p \in c.pending : p[2] < q /\ p[2] \in Nat
  BY <1>1, <1>2 DEF ClientType, Cursors, Events, Seqs
<1>4. Cursors(d)
  BY <1>1, <1>2, <1>3 DEF Cursors
<1> HIDE DEF e
<1>5. /\ n \in ClientType /\ Cursors(n) /\ SameRest(n, d) /\ n.received = q
      /\ c.lastSeq <= c.committed => n.lastSeq <= n.committed
  BY <1>1, <1>2, <1>3, <1>4, EnqueueFacts
<1>6. \A p \in Events : Weight(d, p) = Weight(c, p)
  BY DEF Weight
<1>7. ASSUME Once(c, life) PROVE \A p \in Events : Weight(n, p) = IF p = e THEN 1 ELSE Weight(c, p)
  <2>1. Weight(c, e) \in Nat
    BY <1>1, WeightType
  <2>2. ~ (Weight(c, e) > 0)
    BY <1>1, <1>2, <1>7 DEF Once
  <2>3. Weight(d, e) = 0
    BY <1>1, <1>6, <2>1, <2>2
  <2>4. \A p \in Events : Weight(d, p) <= 1
    BY <1>6, <1>7 DEF Once
  <2>5. \A p \in Events : Weight(n, p) = IF p = e THEN 1 ELSE Weight(d, p)
    BY <1>1, <1>4, <2>3, <2>4, EnqueueWeight
  <2> QED BY <1>6, <2>5
<1> HIDE DEF n
<1>8. Once(c, life) => Once(n, life)
  <2> SUFFICES ASSUME Once(c, life) PROVE Once(n, life)
    OBVIOUS
  <2>1. ASSUME NEW p \in Events, Weight(n, p) > 0
        PROVE p[1] <= life /\ (p[1] = life => p[2] <= n.received)
    <3>1. CASE p = e
      BY <1>1, <1>5, <3>1 DEF Lives
    <3>2. CASE p # e
      <4>1. Weight(c, p) > 0
        BY <1>7, <2>1, <3>2
      <4>2. p[1] <= life /\ (p[1] = life => p[2] <= c.received)
        BY <4>1 DEF Once
      <4>3. p[2] \in Nat
        BY DEF Events, Seqs
      <4> QED BY <1>1, <1>2, <1>5, <4>2, <4>3
    <3> QED BY <3>1, <3>2
  <2>2. \A p \in Events : Weight(n, p) <= 1
    BY <1>7 DEF Once
  <2>3. n.lastSeq <= n.committed
    BY <1>5 DEF Once
  <2> QED BY <2>1, <2>2, <2>3 DEF Once
<1>9. Once(c, life) /\ Whole(c, life) /\ q = c.received + 1 => Whole(n, life)
  <2> SUFFICES ASSUME Once(c, life), Whole(c, life), q = c.received + 1,
                      NEW p \in Seqs, p <= n.received
               PROVE  Weight(n, <<life, p>>) = 1
    BY DEF Whole
  <2>1. <<life, p>> \in Events /\ p \in Nat
    BY DEF Events, Seqs
  <2>2. CASE p = q
    BY <1>7, <2>1, <2>2 DEF e
  <2>3. CASE p # q
    <3>1. p <= c.received
      BY <1>2, <1>5, <2>1, <2>3
    <3>2. Weight(c, <<life, p>>) = 1
      BY <3>1 DEF Whole
    <3> QED BY <1>7, <2>1, <3>2
  <2> QED BY <2>2, <2>3
<1> QED BY <1>5, <1>8, <1>9 DEF n, e

---------------------------------------------------------------------------
(* What the steps have in common                                           *)

\* A chance is spent.
LEMMA SpendType ==
    ASSUME left \in [Chances -> Nat], NEW chance \in Chances, Spend(chance)
    PROVE  left' \in [Chances -> Nat]
BY DEF Spend

\* The transcript and the cursors are what they were, or what a flush makes of them.
LEMMA CarriedView ==
    ASSUME Typed, Cursors(client), ViewInv, client' \in ClientType,
           SameHeld(client', client) \/ SameHeld(client', Flush(client)),
           lapse' = lapse, server'.life = server.life
    PROVE  Cursors(client') /\ ViewInv' /\ client'.received = client.received
<1>1. client \in ClientType /\ server.life \in Lives
  BY DEF Typed, ServerType
<1>2. CASE SameHeld(client', client)
  <2>1. /\ Cursors(client')
        /\ Once(client, server.life) => Once(client', server.life)
        /\ Whole(client, server.life) => Whole(client', server.life)
    BY <1>1, <1>2, SameHeldView
  <2> QED BY <1>2, <2>1 DEF ViewInv, SameHeld
<1>3. CASE SameHeld(client', Flush(client))
  <2> DEFINE f == Flush(client)
  <2>1. /\ f \in ClientType /\ Cursors(f) /\ f.received = client.received
        /\ Once(client, server.life) => Once(f, server.life)
        /\ Once(client, server.life) /\ Whole(client, server.life) => Whole(f, server.life)
    BY <1>1, FlushFacts, FlushView
  <2> HIDE DEF f
  <2>2. SameHeld(client', f)
    BY <1>3 DEF f
  <2>3. /\ Cursors(client')
        /\ Once(f, server.life) => Once(client', server.life)
        /\ Whole(f, server.life) => Whole(client', server.life)
    BY <1>1, <2>1, <2>2, SameHeldView
  <2> QED BY <2>1, <2>2, <2>3 DEF ViewInv, SameHeld
<1> QED BY <1>2, <1>3

\* Busy and SettleTurn touch the status and the native id alone.
LEMMA BusyFacts ==
    ASSUME NEW c \in ClientType
    PROVE  /\ Busy(c) \in ClientType /\ SameHeld(Busy(c), c)
           /\ Busy(c).accepted = c.accepted /\ Busy(c).finished = c.finished
           /\ Busy(c).key = c.key
<1>1. (IF c.status = "stopping" THEN c.status ELSE "running") \in Statuses
  BY DEF Statuses
<1>2. Busy(c) \in ClientType
  BY <1>1 DEF Busy, ClientType
<1>3. /\ SameHeld(Busy(c), c) /\ Busy(c).accepted = c.accepted
      /\ Busy(c).finished = c.finished /\ Busy(c).key = c.key
  BY DEF Busy, ClientType, SameHeld
<1> QED BY <1>2, <1>3

\* A settled turn is an idle status.
LEMMA SettleFacts ==
    ASSUME NEW c \in ClientType
    PROVE  /\ SettleTurn(c) \in ClientType /\ SameHeld(SettleTurn(c), c)
           /\ SettleTurn(c).accepted = c.accepted /\ SettleTurn(c).finished = c.finished
           /\ SettleTurn(c).key = c.key /\ SettleTurn(c).status = "idle"
BY DEF SettleTurn, ClientType, SameHeld, Statuses

\* A broken stream is still behind the gate.
LEMMA BrokenFacts ==
    ASSUME NEW a \in AttType, a.after <= a.pos, a.end <= MaxSeq
    PROVE  /\ Broken(a) \in AttType /\ Broken(a).on = a.on
           /\ Broken(a).after <= Broken(a).pos /\ Broken(a).end <= MaxSeq
           /\ Broken(a).link # "ended"
           /\ \A n \in Nat : Behind(a, n) => Behind(Broken(a), n)
<1>1. CASE a.link \in {"open", "ended"}
  <2> DEFINE p == IF a.probe = "none" THEN "sent" ELSE a.probe
             b == [a EXCEPT !.link = "broken", !.probe = p]
  <2>1. Broken(a) = b
    BY <1>1 DEF Broken, AttType
  <2>2. p \in {"none", "sent", "active", "idle", "null"}
    BY DEF AttType
  <2> HIDE DEF p
  <2>3. /\ b \in AttType /\ b.on = a.on /\ b.after = a.after /\ b.pos = a.pos /\ b.end = a.end
        /\ b.link = "broken"
    BY <2>2 DEF AttType
  <2>4. \A n \in Nat : Behind(a, n) => Behind(b, n)
    <3> SUFFICES ASSUME NEW n \in Nat, Behind(a, n) PROVE Behind(b, n)
      OBVIOUS
    <3>1. a.after \in Nat /\ a.pos \in Nat
      BY DEF AttType
    <3> QED BY <1>1, <2>3, <3>1 DEF Behind
  <2> HIDE DEF b
  <2> QED BY <2>1, <2>3, <2>4
<1>2. CASE a.link \notin {"open", "ended"}
  BY <1>2 DEF Broken
<1> QED BY <1>1, <1>2

\* A stream that was connected starts where it was asked to.
LEMMA ConnectedFacts ==
    ASSUME NEW a \in AttType, NEW n \in 0..MaxSeq
    PROVE  /\ Connected(a, n) \in AttType /\ Connected(a, n).on = a.on
           /\ Connected(a, n).after = n /\ Connected(a, n).pos = n /\ Connected(a, n).end = 0
           /\ Connected(a, n).link = "open" /\ Connected(a, n).timer = FALSE
           /\ \A m \in Nat : n <= m => Behind(Connected(a, n), m)
<1> DEFINE b == [a EXCEPT !.link = "open", !.after = n, !.pos = n, !.end = 0, !.timer = FALSE]
<1>1. Connected(a, n) = b
  BY DEF Connected
<1>2. 0 \in 0..MaxSeq + 1
  BY BoundsFacts
<1>3. b \in AttType
  BY <1>2 DEF AttType
<1>4. /\ b.on = a.on /\ b.after = n /\ b.pos = n /\ b.end = 0 /\ b.link = "open"
      /\ b.timer = FALSE
  BY DEF AttType
<1> HIDE DEF b
<1>5. \A m \in Nat : n <= m => Behind(b, m)
  BY <1>4 DEF Behind
<1> QED BY <1>1, <1>3, <1>4, <1>5

\* Nothing is attached.
LEMMA NoAttachmentFacts ==
    /\ NoAttachment \in AttType /\ ~NoAttachment.on
    /\ NoAttachment.after <= NoAttachment.pos /\ NoAttachment.end <= MaxSeq
    /\ NoAttachment.link # "ended"
    /\ \A n \in Nat : Behind(NoAttachment, n)
BY BoundsFacts DEF NoAttachment, AttType, Behind

\* An attachment that is opened for a session starts at the session's gate.
LEMMA OpenedFacts ==
    ASSUME NEW c \in ClientType
    PROVE  /\ Opened(c) \in AttType /\ Opened(c).on
           /\ Opened(c).after = c.received /\ Opened(c).pos = c.received /\ Opened(c).end = 0
           /\ Opened(c).link = "open" /\ Behind(Opened(c), c.received)
<1> DEFINE a == [NoAttachment EXCEPT !.on = TRUE, !.key = c.key, !.pi = c.pi]
<1>1. c.key \in 0..MaxLives /\ c.pi \in BOOLEAN /\ c.received \in 0..MaxSeq
  BY BoundsFacts DEF ClientType, Lives
<1>2. NoAttachment \in AttType
  BY NoAttachmentFacts
<1>3. a \in AttType /\ a.on
  BY <1>1, <1>2 DEF AttType
<1>4. Opened(c) = Connected(a, c.received)
  BY DEF Opened
<1> HIDE DEF a
<1> DEFINE n == c.received
<1> HIDE DEF n
<1>5. n \in 0..MaxSeq /\ n \in Nat /\ n <= n
  BY <1>1 DEF n
<1>6. /\ Connected(a, n) \in AttType /\ Connected(a, n).on
      /\ Connected(a, n).after = n /\ Connected(a, n).pos = n /\ Connected(a, n).end = 0
      /\ Connected(a, n).link = "open" /\ Behind(Connected(a, n), n)
  BY <1>3, <1>5, ConnectedFacts
<1> QED BY <1>4, <1>6 DEF n

\* Steps that leave the log's life, the transcript and the gate as they are, up to a flush
LEMMA Carried ==
    ASSUME ClientInv, Typed', StreamShape', PollInv', server'.life = server.life,
           SameHeld(client', client) \/ SameHeld(client', Flush(client)), lapse' = lapse,
           Behind(att, client.received) => Behind(att', client.received),
           client'.pending # {} => att'.on
    PROVE  ClientInv'
<1>1. Cursors(client') /\ ViewInv' /\ client'.received = client.received
  BY CarriedView DEF ClientInv, HeldInv, Typed
<1>2. StreamInv'
  BY <1>1 DEF ClientInv, StreamInv
<1> QED BY <1>1, <1>2 DEF ClientInv, HeldInv

\* Steps of the server and of requests that have not come back
LEMMA Elsewhere ==
    ASSUME ClientInv, UNCHANGED <<client, att, poll, lapse>>, server' \in ServerType,
           server'.life = server.life, Last <= Len(server'.log), Len(server'.log) <= MaxSeq,
           turn' \in [Chats -> TurnType], load' \in LoadType,
           abort' \in {"none", "sent", "answered"}, left' \in [Chances -> Nat]
    PROVE  ClientInv'
<1>1. Typed'
  BY DEF ClientInv, Typed
<1>2. StreamShape'
  <2>1. att.end \in Nat /\ Last \in Nat /\ Len(server'.log) \in Nat
    BY DEF ClientInv, Typed, AttType, ServerType
  <2> QED BY <2>1 DEF ClientInv, StreamInv, StreamShape
<1>3. PollInv'
  BY DEF ClientInv, PollInv
<1>4. SameHeld(client', client) /\ (client'.pending # {} => att'.on)
  BY DEF SameHeld, ClientInv, HeldInv
<1> QED BY <1>1, <1>2, <1>3, <1>4, Carried

---------------------------------------------------------------------------
(* Each action keeps the invariant                                         *)

\* The log grows, and so does the room for a stream that is behind.
LEMMA EmitKeeps ==
    ASSUME ClientInv, NEW k \in Kinds \cup {"settled"},
           server.active, Last < MaxSeq, NEW s \in BOOLEAN,
           server' = [server EXCEPT !.log = Append(@, k), !.settled = s],
           UNCHANGED <<client, att, poll, turn, load, abort, left, lapse>>
    PROVE  ClientInv'
<1>1. server \in ServerType /\ server.log \in Seq(Kinds \cup {"settled"})
  BY DEF ClientInv, Typed, ServerType
<1>2. /\ Append(server.log, k) \in Seq(Kinds \cup {"settled"})
      /\ Len(Append(server.log, k)) = Last + 1 /\ Last \in Nat
  BY <1>1
<1>3. server' \in ServerType /\ server'.life = server.life /\ server'.log = Append(server.log, k)
  BY <1>1, <1>2 DEF ServerType
<1>4. Last <= Len(server'.log) /\ Len(server'.log) <= MaxSeq
  BY <1>2, <1>3, BoundsFacts
<1> QED BY <1>3, <1>4, Elsewhere DEF ClientInv, Typed

\* A server that is told to start, or to stop, keeps its log.
LEMMA StartedFacts ==
    ASSUME NEW s \in ServerType
    PROVE  /\ Started(s) \in ServerType /\ Started(s).life = s.life /\ Started(s).log = s.log
           /\ \A b \in BOOLEAN : /\ [s EXCEPT !.active = b] \in ServerType
                                 /\ [s EXCEPT !.active = b].life = s.life
                                 /\ [s EXCEPT !.active = b].log = s.log
BY DEF Started, ServerType

\* A step that leaves the log and the page alone
LEMMA LogKept ==
    ASSUME ClientInv, server' \in ServerType, server'.life = server.life, server'.log = server.log,
           UNCHANGED <<client, att, poll, lapse>>,
           turn' \in [Chats -> TurnType], load' \in LoadType,
           abort' \in {"none", "sent", "answered"}, left' \in [Chances -> Nat]
    PROVE  ClientInv'
<1>1. Last \in Nat /\ Last <= MaxSeq
  BY DEF ClientInv, Typed, ServerType, StreamInv, StreamShape
<1> QED BY <1>1, Elsewhere

\* The server's own steps, a restart apart
LEMMA ServerKeeps == ClientInv /\ Server /\ ~Restart => ClientInv'
<1> SUFFICES ASSUME ClientInv, Server, ~Restart PROVE ClientInv'
  OBVIOUS
<1>0. /\ server \in ServerType /\ turn \in [Chats -> TurnType] /\ load \in LoadType
      /\ abort \in {"none", "sent", "answered"} /\ left \in [Chances -> Nat]
  BY DEF ClientInv, Typed
<1>1. ASSUME NEW k \in Kinds, Emit(k) PROVE ClientInv'
  <2>1. server.settled \in BOOLEAN /\ server' = [server EXCEPT !.log = Append(@, k), !.settled = server.settled]
    BY <1>0, <1>1 DEF Emit, ServerType
  <2> QED BY <1>1, <2>1, EmitKeeps DEF Emit
<1>2. CASE EmitSettled
  BY <1>2, EmitKeeps DEF EmitSettled
<1>3. CASE GoIdle
  BY <1>0, <1>3, StartedFacts, LogKept DEF GoIdle
<1>4. CASE ServerTurn
  <2>1. left' \in [Chances -> Nat]
    BY <1>0, <1>4, SpendType DEF ServerTurn, Chances
  <2> QED BY <1>0, <1>4, <2>1, StartedFacts, LogKept DEF ServerTurn
<1> QED BY <1>1, <1>2, <1>3, <1>4 DEF Server

\* What a restart does to the transcript of the lives before it
LEMMA RestartKeeps == ClientInv /\ Restart => ClientInv'
<1> SUFFICES ASSUME ClientInv, Restart PROVE ClientInv'
  OBVIOUS
<1>0. /\ server \in ServerType /\ client \in ClientType /\ att \in AttType
      /\ server.life \in Nat /\ server.life + 1 \in Lives /\ client.received \in Nat
      /\ client.lastSeq \in Nat
  BY BoundsFacts DEF ClientInv, Typed, ServerType, ClientType, Lives, Restart
<1>1. PICK k \in {server.key, server.life + 1} :
        server' = [server EXCEPT !.life = @ + 1, !.log = <<>>, !.active = FALSE,
                                 !.settled = FALSE, !.key = k]
  BY DEF Restart
<1>2. server' \in ServerType /\ server'.life = server.life + 1 /\ server'.log = <<>>
  <2>1. k \in Lives /\ <<>> \in Seq(Kinds \cup {"settled"})
    BY <1>0, <1>1 DEF ServerType
  <2> QED BY <1>0, <1>1, <2>1 DEF ServerType
<1>3. /\ att' = Broken(att) /\ Broken(att) \in AttType /\ Broken(att).on = att.on
      /\ Broken(att).after <= Broken(att).pos /\ Broken(att).end <= MaxSeq
      /\ Broken(att).link # "ended"
      /\ Behind(att, client.received) => Behind(Broken(att), client.received)
  BY <1>0, BrokenFacts DEF Restart, ClientInv, StreamInv, StreamShape
<1>4. /\ UNCHANGED <<client, poll, turn, load, abort>> /\ left' \in [Chances -> Nat]
  BY SpendType DEF Restart, ClientInv, Typed, Chances
<1>5. lapse' = IF client.received > 0 \/ client.lastSeq > 0 THEN lapse \cup {"restart"} ELSE lapse
  BY DEF Restart
<1>6. Typed'
  BY <1>2, <1>3, <1>4, <1>5 DEF ClientInv, Typed
<1>7. StreamInv'
  <2>1. Last' = 0
    BY <1>2
  <2>2. StreamShape'
    BY <1>3, <2>1, BoundsFacts DEF StreamShape
  <2>3. lapse' = {} => lapse = {}
    BY <1>5
  <2> QED BY <1>3, <1>4, <2>2, <2>3 DEF StreamInv, ClientInv
<1>8. ViewInv'
  <2>1. ASSUME lapse' \subseteq {"restart"} PROVE Once(client, server.life + 1)
    <3>1. Once(client, server.life)
      BY <1>5, <2>1 DEF ClientInv, ViewInv
    <3>2. \A e \in Events : e[1] \in Nat
      BY DEF Events, Lives
    <3> QED BY <1>0, <3>1, <3>2 DEF Once
  <2>2. ASSUME lapse' = {} PROVE Whole(client, server.life + 1)
    <3>1. client.received = 0
      BY <1>0, <1>5, <2>2
    <3> QED BY <3>1 DEF Whole, Seqs
  <2> QED BY <1>2, <1>4, <2>1, <2>2 DEF ViewInv
<1>9. PollInv' /\ HeldInv'
  BY <1>3, <1>4 DEF ClientInv, PollInv, HeldInv
<1> QED BY <1>6, <1>7, <1>8, <1>9 DEF ClientInv

\* An event or nothing comes out of the stream.
LEMMA ReceiveEventKeeps == ClientInv /\ ReceiveEvent => ClientInv'
<1> SUFFICES ASSUME ClientInv, ReceiveEvent PROVE ClientInv'
  OBVIOUS
<1> DEFINE q == att.pos + 1
           life == server.life
           e == <<life, q>>
           gated == [client EXCEPT !.received = q]
<1>0. /\ server \in ServerType /\ client \in ClientType /\ att \in AttType /\ poll \in PollType
      /\ life \in Lives /\ att.pos \in Nat /\ att.end \in Nat /\ client.received \in Nat
      /\ Cursors(client)
  BY DEF ClientInv, Typed, HeldInv, ServerType, ClientType, AttType
<1>1. /\ att.on /\ att.link \in {"open", "ended"} /\ att' = [att EXCEPT !.pos = @ + 1]
      /\ UNCHANGED <<server, turn, load, abort, left, lapse>>
  BY DEF ReceiveEvent
<1>2. q <= Last /\ q \in Seqs /\ server.log[q] \in Kinds \cup {"settled"}
  <2>1. server.log \in Seq(Kinds \cup {"settled"}) /\ Len(server.log) \in Nat
    BY <1>0 DEF ServerType
  <2>2. q <= Last /\ Last <= MaxSeq
    BY <1>0, <2>1 DEF ReceiveEvent, ClientInv, StreamInv, StreamShape
  <2> QED BY <1>0, <2>1, <2>2, BoundsFacts DEF Seqs
<1>3. /\ att' \in AttType /\ att'.on /\ att'.link = att.link /\ att'.after = att.after
      /\ att'.pos = q /\ att'.end = att.end
  BY <1>0, <1>1, <1>2 DEF AttType, Seqs
<1>4. StreamShape'
  <2>1. att.after \in Nat /\ Last \in Nat
    BY <1>0 DEF AttType, ServerType
  <2> QED BY <1>0, <1>1, <1>3, <2>1 DEF ClientInv, StreamInv, StreamShape
<1>5. CASE q <= client.received
  <2>1. UNCHANGED <<client, poll>>
    BY <1>5 DEF ReceiveEvent
  <2>2. Typed' /\ PollInv' /\ SameHeld(client', client)
    BY <1>1, <1>3, <2>1 DEF ClientInv, Typed, PollInv, SameHeld
  <2>3. Behind(att', client.received)
    BY <1>1, <1>3, <1>5 DEF Behind
  <2> QED BY <1>1, <1>3, <1>4, <2>2, <2>3, Carried
<1>6. CASE q > client.received
  <2>1. /\ gated \in ClientType /\ SameRest(gated, client) /\ gated.received = q
        /\ gated.shown = client.shown /\ gated.pending = client.pending
        /\ gated.lastSeq = client.lastSeq /\ gated.committed = client.committed
        /\ gated.newest = client.newest
    <3>1. q \in 0..MaxSeq
      BY <1>2, BoundsFacts DEF Seqs
    <3> QED BY <1>0, <3>1 DEF ClientType, SameRest
  <2>0. ~ (q <= client.received)
    BY <1>0, <1>6
  <2>a. server.log[q] = "settled" =>
            /\ client' = [SettleTurn(Apply(Flush(gated), {e}, q)) EXCEPT !.finished = TRUE]
            /\ poll' = [poll EXCEPT !.mayPromote = FALSE]
    BY <2>0 DEF ReceiveEvent
  <2>b. server.log[q] # "settled" =>
            /\ client' = Enqueue([Busy(gated) EXCEPT !.pi = client.pi], e, server.log[q])
            /\ poll' = poll
    BY <2>0 DEF ReceiveEvent
  <2> HIDE DEF gated
  <2> DEFINE n(d, k) == Enqueue(d, e, k)
             Arrived(d) == /\ d \in ClientType /\ Cursors(d) /\ d.received = q
                           /\ Once(client, life) => Once(d, life)
                           /\ Once(client, life) /\ Whole(client, life) /\ q = client.received + 1
                                => Whole(d, life)
  <2>2. Arrived(client') /\ PollInv' /\ poll' \in PollType
    <3>1. CASE server.log[q] = "settled"
      <4> DEFINE a == n(gated, "settled")
      <4>1. Arrived(a) /\ SameRest(a, gated)
        <5> DEFINE k == "settled"
        <5>1. k \in Kinds \cup {"settled"}
          OBVIOUS
        <5> HIDE DEF q, life, k
        <5>3. /\ client \in ClientType /\ Cursors(client) /\ life \in Lives /\ q \in Seqs
              /\ client.received < q
          BY <1>0, <1>2, <1>6
        <5>2. Arrived(n(gated, k)) /\ SameRest(n(gated, k), gated)
          BY <2>1, <5>1, <5>3, ArriveFacts
        <5> QED BY <5>2 DEF k
      <4>2. a = Apply(Flush(gated), {e}, q)
        BY DEF Enqueue, Held, Merging
      <4> HIDE DEF a
      <4>3. client' = [SettleTurn(a) EXCEPT !.finished = TRUE]
            /\ poll' = [poll EXCEPT !.mayPromote = FALSE]
        BY <2>a, <3>1, <4>2
      <4>4. /\ SettleTurn(a) \in ClientType /\ SameHeld(SettleTurn(a), a)
            /\ SettleTurn(a).accepted = a.accepted
        BY <4>1, SettleFacts
      <4>5. client' \in ClientType /\ client'.accepted = a.accepted /\ SameHeld(client', a)
        BY <4>3, <4>4 DEF ClientType, SameHeld
      <4>6. Arrived(client')
        BY <1>0, <4>1, <4>5, SameHeldView DEF SameHeld
      <4>7. /\ poll' \in PollType /\ poll'.mayPromote = FALSE /\ poll'.st = poll.st
            /\ poll'.mayIdle = poll.mayIdle /\ poll'.key = poll.key
        BY <1>0, <4>3 DEF PollType
      <4>8. client'.accepted = client.accepted
        BY <2>1, <4>1, <4>5 DEF SameRest
      <4> QED BY <4>6, <4>7, <4>8 DEF ClientInv, PollInv
    <3>2. CASE server.log[q] # "settled"
      <4> DEFINE d == [Busy(gated) EXCEPT !.pi = client.pi]
                 k == server.log[q]
      <4>1. /\ Busy(gated) \in ClientType /\ SameHeld(Busy(gated), gated)
            /\ Busy(gated).accepted = gated.accepted /\ Busy(gated).finished = gated.finished
        BY <2>1, BusyFacts
      <4>2. /\ d \in ClientType /\ SameHeld(d, gated) /\ d.accepted = gated.accepted
            /\ d.finished = gated.finished
        BY <1>0, <4>1 DEF ClientType, SameHeld
      <4>3. client' = n(d, k) /\ poll' = poll
        BY <2>b, <3>2
      <4>4. k \in Kinds \cup {"settled"}
        BY <1>2
      <4> HIDE DEF d, k
      <4>5. /\ d.received = q /\ d.shown = client.shown /\ d.pending = client.pending
            /\ d.lastSeq = client.lastSeq /\ d.committed = client.committed
            /\ d.newest = client.newest
        BY <2>1, <4>2 DEF SameHeld
      <4>6. Arrived(n(d, k)) /\ SameRest(n(d, k), d)
        <5> HIDE DEF q, life
        <5> QED BY <1>0, <1>2, <1>6, <4>2, <4>4, <4>5, ArriveFacts
      <4>7. client'.accepted = client.accepted /\ client'.finished = client.finished
        BY <2>1, <4>2, <4>3, <4>6 DEF SameRest
      <4> QED BY <1>0, <4>3, <4>6, <4>7 DEF ClientInv, PollInv
    <3> QED BY <3>1, <3>2
  <2>3. Typed'
    BY <1>1, <1>3, <2>2 DEF ClientInv, Typed
  <2>4. HeldInv'
    BY <1>3, <2>2 DEF HeldInv
  <2>5. ViewInv' /\ StreamInv'
    <3>1. lapse' \subseteq {"restart"} => Once(client', life)
      BY <1>1, <2>2 DEF ClientInv, ViewInv
    <3>2. ASSUME lapse' = {} PROVE Whole(client', life) /\ Behind(att', client'.received)
      <4>1. att.pos <= client.received
        BY <1>1, <3>2 DEF ClientInv, StreamInv, Behind
      <4>2. q = client.received + 1
        BY <1>0, <1>6, <4>1
      <4>3. Once(client, life) /\ Whole(client, life)
        BY <1>1, <3>2 DEF ClientInv, ViewInv
      <4>4. Behind(att', client'.received)
        <5>1. q <= q /\ client'.received = q
          BY <1>0, <2>2
        <5> QED BY <1>1, <1>3, <5>1 DEF Behind
      <4> QED BY <2>2, <4>2, <4>3, <4>4
    <3> QED BY <1>1, <1>4, <3>1, <3>2 DEF ViewInv, StreamInv
  <2> QED BY <2>2, <2>3, <2>4, <2>5 DEF ClientInv
<1> QED BY <1>0, <1>5, <1>6

\* Steps that may move the stream, the status and what is held, and not the gate: what is
\* left to show of them is that the stream stays behind it.
LEMMA SteppedKeeps ==
    ASSUME ClientInv, server' \in ServerType, server'.life = server.life,
           server'.log = server.log, lapse' = lapse,
           client' \in ClientType,
           SameHeld(client', client) \/ SameHeld(client', Flush(client)),
           att' \in AttType, att'.on = att.on, att'.after <= att'.pos, att'.end <= MaxSeq,
           att'.link = "ended" /\ att'.pos < att'.end => att'.end <= Last,
           Behind(att, client.received) => Behind(att', client.received),
           poll' \in PollType, PollInv',
           turn' \in [Chats -> TurnType], load' \in LoadType,
           abort' \in {"none", "sent", "answered"}, left' \in [Chances -> Nat]
    PROVE  ClientInv'
<1>1. Typed'
  BY DEF ClientInv, Typed
<1>2. StreamShape'
  BY DEF ClientInv, StreamInv, StreamShape
<1>3. client'.pending # {} => att'.on
  <2>1. client \in ClientType /\ Cursors(client) /\ (client.pending # {} => att.on)
    BY DEF ClientInv, HeldInv, Typed
  <2>2. Flush(client).pending = {}
    BY <2>1, FlushFacts
  <2> QED BY <2>1, <2>2 DEF SameHeld
<1> QED BY <1>1, <1>2, <1>3, Carried

\* A fetch that nobody touches stays within the graces while they end.
LEMMA PollKept ==
    ASSUME ClientInv, poll' = poll, client'.accepted => client.accepted,
           client'.finished => client.finished
    PROVE  PollInv' /\ poll' \in PollType
BY DEF ClientInv, Typed, PollInv

\* Nothing else moves: what a step of the stream alone leaves in place.
LEMMA Resting ==
    ASSUME ClientInv
    PROVE  /\ server \in ServerType /\ client \in ClientType /\ att \in AttType
           /\ poll \in PollType /\ turn \in [Chats -> TurnType] /\ load \in LoadType
           /\ abort \in {"none", "sent", "answered"} /\ left \in [Chances -> Nat]
           /\ Cursors(client) /\ SameHeld(client, client)
           /\ att.after \in Nat /\ att.pos \in Nat /\ att.end \in Nat
           /\ client.received \in Nat /\ Last \in Nat /\ Last <= MaxSeq
           /\ att.after <= att.pos /\ att.end <= MaxSeq
           /\ att.link = "ended" /\ att.pos < att.end => att.end <= Last
<1>1. /\ server \in ServerType /\ client \in ClientType /\ att \in AttType
      /\ poll \in PollType /\ turn \in [Chats -> TurnType] /\ load \in LoadType
      /\ abort \in {"none", "sent", "answered"} /\ left \in [Chances -> Nat]
      /\ Cursors(client) /\ Last <= MaxSeq
      /\ att.after <= att.pos /\ att.end <= MaxSeq
  BY DEF ClientInv, HeldInv, Typed, StreamInv, StreamShape
<1>2. /\ att.after \in Nat /\ att.pos \in Nat /\ att.end \in Nat
      /\ client.received \in Nat /\ Last \in Nat
  BY <1>1 DEF AttType, ClientType, ServerType
<1>3. att.link = "ended" /\ att.pos < att.end => att.end <= Last
  BY DEF ClientInv, StreamInv, StreamShape
<1> QED BY <1>1, <1>2, <1>3 DEF SameHeld

\* A status frame makes the session busy and nothing else.
LEMMA ReceiveBeatKeeps == ClientInv /\ ReceiveBeat => ClientInv'
<1> SUFFICES ASSUME ClientInv, ReceiveBeat PROVE ClientInv'
  OBVIOUS
<1>1. UNCHANGED <<server, att, poll, turn, load, abort, left, lapse>> /\ client' = Busy(client)
  BY DEF ReceiveBeat
<1>2. /\ client' \in ClientType /\ SameHeld(client', client)
      /\ client'.accepted = client.accepted /\ client'.finished = client.finished
  BY <1>1, Resting, BusyFacts
<1>3. PollInv' /\ poll' \in PollType
  BY <1>1, <1>2, PollKept
<1> QED BY <1>1, <1>2, <1>3, Resting, SteppedKeeps

\* The end a stream is given is the end of the log, or where it is already.
LEMMA EndStreamKeeps == ClientInv /\ EndStream => ClientInv'
<1> SUFFICES ASSUME ClientInv, EndStream PROVE ClientInv'
  OBVIOUS
<1> DEFINE n == Larger(Last, att.pos)
<1>1. /\ UNCHANGED <<server, client, poll, turn, load, abort, left, lapse>>
      /\ att.link = "open" /\ att' = [att EXCEPT !.link = "ended", !.end = n]
  BY DEF EndStream
<1>2. n \in Nat /\ n <= MaxSeq /\ n \in {Last, att.pos}
  <2>1. att.pos <= MaxSeq
    BY Resting DEF AttType
  <2>2. n \in {Last, att.pos}
    BY DEF Larger
  <2> QED BY <2>1, <2>2, Resting
<1> HIDE DEF n
<1>a. n \in 0..MaxSeq + 1 /\ att \in AttType
  BY <1>2, Resting, BoundsFacts
<1>3. /\ att' \in AttType /\ att'.on = att.on /\ att'.after = att.after /\ att'.pos = att.pos
      /\ att'.end = n /\ att'.link = "ended"
  BY <1>1, <1>a DEF AttType
<1>4. Behind(att, client.received) => Behind(att', client.received)
  BY <1>1, <1>3 DEF Behind
<1>5. PollInv' /\ poll' \in PollType
  BY <1>1, PollKept
<1>6. att'.link = "ended" /\ att'.pos < att'.end => att'.end <= Last
  BY <1>2, <1>3, Resting
<1>7. SameHeld(client', client) /\ client' \in ClientType
  BY <1>1, Resting
<1> QED BY <1>1, <1>2, <1>3, <1>4, <1>5, <1>6, <1>7, Resting, SteppedKeeps

\* onError and the terminal frame both leave a broken stream behind.
LEMMA BreakKeeps ==
    ASSUME ClientInv, att' = Broken(att), UNCHANGED <<server, poll, turn, load, abort, lapse>>,
           client' \in ClientType, SameHeld(client', client),
           client'.accepted = client.accepted, client'.finished = client.finished,
           left' \in [Chances -> Nat]
    PROVE  ClientInv'
<1>1. /\ att' \in AttType /\ att'.on = att.on /\ att'.after <= att'.pos /\ att'.end <= MaxSeq
      /\ att'.link # "ended" /\ (Behind(att, client.received) => Behind(att', client.received))
  BY Resting, BrokenFacts
<1>2. PollInv' /\ poll' \in PollType
  BY PollKept
<1> QED BY <1>1, <1>2, Resting, SteppedKeeps

\* The terminal frame settles the turn and breaks the stream.
LEMMA ReceiveTerminalKeeps == ClientInv /\ ReceiveTerminal => ClientInv'
<1> SUFFICES ASSUME ClientInv, ReceiveTerminal PROVE ClientInv'
  OBVIOUS
<1> DEFINE s == SettleTurn(client)
<1>1. /\ UNCHANGED <<server, poll, turn, load, abort, left, lapse>> /\ att' = Broken(att)
      /\ client' = [s EXCEPT !.pi = TRUE]
  BY DEF ReceiveTerminal
<1>2. /\ s \in ClientType /\ SameHeld(s, client)
      /\ s.accepted = client.accepted /\ s.finished = client.finished
  BY Resting, SettleFacts
<1> HIDE DEF s
<1>3. /\ client' \in ClientType /\ SameHeld(client', client)
      /\ client'.accepted = client.accepted /\ client'.finished = client.finished
  BY <1>1, <1>2 DEF ClientType, SameHeld
<1> QED BY <1>1, <1>3, Resting, BreakKeeps

\* The network breaks the stream.
LEMMA StreamBreaksKeeps == ClientInv /\ StreamBreaks => ClientInv'
<1> SUFFICES ASSUME ClientInv, StreamBreaks PROVE ClientInv'
  OBVIOUS
<1>1. left' \in [Chances -> Nat]
  BY Resting, SpendType DEF StreamBreaks, Chances
<1> QED BY <1>1, Resting, BreakKeeps DEF StreamBreaks

\* Steps that move nothing but the attachment
LEMMA AttachedKeeps ==
    ASSUME ClientInv, UNCHANGED <<server, client, poll, turn, load, abort, lapse>>,
           left' \in [Chances -> Nat],
           att' \in AttType, att'.on = att.on, att'.after <= att'.pos, att'.end <= MaxSeq,
           att'.link = "ended" => att'.link = att.link /\ att'.pos = att.pos /\ att'.end = att.end,
           Behind(att, client.received) => Behind(att', client.received)
    PROVE  ClientInv'
<1>1. PollInv' /\ poll' \in PollType
  BY PollKept
<1>2. SameHeld(client', client) /\ client' \in ClientType
  BY Resting
<1>3. att'.link = "ended" /\ att'.pos < att'.end => att'.end <= Last
  BY Resting
<1> QED BY <1>1, <1>2, <1>3, Resting, SteppedKeeps

\* The browser reconnects where it was first told to, which the gate has passed.
LEMMA NativeRetryKeeps == ClientInv /\ NativeRetry => ClientInv'
<1> SUFFICES ASSUME ClientInv, NativeRetry PROVE ClientInv'
  OBVIOUS
<1> DEFINE n == att.after
           c == Connected(att, n)
<1>1. /\ UNCHANGED <<server, client, poll, turn, load, abort, left, lapse>>
      /\ att.on /\ att.link = "broken" /\ att' = [c EXCEPT !.timer = att.timer]
  BY DEF NativeRetry
<1>2. n \in 0..MaxSeq /\ att.timer \in BOOLEAN /\ n <= n /\ att \in AttType
  BY Resting DEF AttType
<1> HIDE DEF n
<1>3. /\ c \in AttType /\ c.on = att.on /\ c.after = n /\ c.pos = n /\ c.end = 0
      /\ c.link = "open"
  BY <1>2, ConnectedFacts
<1> HIDE DEF c
<1>4. /\ att' \in AttType /\ att'.on = att.on /\ att'.after = n /\ att'.pos = n
      /\ att'.end = 0 /\ att'.link = "open"
  BY <1>1, <1>2, <1>3 DEF AttType
<1>5. Behind(att, client.received) => Behind(att', client.received)
  BY <1>1, <1>4 DEF Behind, n
<1>6. att'.after <= att'.pos /\ att'.end <= MaxSeq
  BY <1>2, <1>4, BoundsFacts
<1> QED BY <1>1, <1>4, <1>5, <1>6, Resting, AttachedKeeps

\* The probe and the timer of an attachment are not its place in the log.
LEMMA ProbeTimerFacts ==
    ASSUME NEW a \in AttType, NEW p \in {"none", "sent", "active", "idle", "null"}
    PROVE  /\ [a EXCEPT !.probe = p] \in AttType
           /\ [a EXCEPT !.probe = p].on = a.on /\ [a EXCEPT !.probe = p].after = a.after
           /\ [a EXCEPT !.probe = p].pos = a.pos /\ [a EXCEPT !.probe = p].end = a.end
           /\ [a EXCEPT !.probe = p].link = a.link /\ [a EXCEPT !.probe = p].timer = a.timer
BY DEF AttType

\* A step of the probe alone
LEMMA ProbedKeeps ==
    ASSUME ClientInv, UNCHANGED <<server, client, poll, turn, load, abort, lapse>>,
           left' \in [Chances -> Nat],
           NEW p \in {"none", "sent", "active", "idle", "null"}, att' = [att EXCEPT !.probe = p]
    PROVE  ClientInv'
<1>1. /\ att' \in AttType /\ att'.on = att.on /\ att'.after = att.after /\ att'.pos = att.pos
      /\ att'.end = att.end /\ att'.link = att.link
  BY Resting, ProbeTimerFacts
<1>2. Behind(att, client.received) => Behind(att', client.received)
  BY <1>1 DEF Behind
<1> QED BY <1>1, <1>2, Resting, AttachedKeeps

\* The watchdog sends a probe.
LEMMA WatchdogKeeps == ClientInv /\ Watchdog => ClientInv'
<1> DEFINE p == "sent"
<1>1. p \in {"none", "sent", "active", "idle", "null"} /\ p = "sent"
  OBVIOUS
<1> HIDE DEF p
<1> SUFFICES ASSUME ClientInv, Watchdog PROVE ClientInv'
  OBVIOUS
<1>2. /\ UNCHANGED <<server, client, poll, turn, load, abort, left, lapse>>
      /\ att' = [att EXCEPT !.probe = p]
  BY <1>1 DEF Watchdog
<1> QED BY <1>1, <1>2, Resting, ProbedKeeps

\* The probe reads the runtime, or fails.
LEMMA ProbeReadKeeps == ClientInv /\ ProbeRead => ClientInv'
<1> SUFFICES ASSUME ClientInv, ProbeRead PROVE ClientInv'
  OBVIOUS
<1>1. \E p \in {"none", "sent", "active", "idle", "null"} : att' = [att EXCEPT !.probe = p]
  <2>1. \/ att' = [att EXCEPT !.probe = IF server.active THEN "active" ELSE "idle"]
        \/ att' = [att EXCEPT !.probe = "null"]
    BY DEF ProbeRead
  <2>2. (IF server.active THEN "active" ELSE "idle") \in {"none", "sent", "active", "idle", "null"}
    OBVIOUS
  <2>3. "null" \in {"none", "sent", "active", "idle", "null"}
    OBVIOUS
  <2> QED BY <2>1, <2>2, <2>3
<1>2. UNCHANGED <<server, client, poll, turn, load, abort, lapse>> /\ left' \in [Chances -> Nat]
  BY Resting, SpendType DEF ProbeRead, Chances
<1> QED BY <1>1, <1>2, ProbedKeeps

\* A stream that is closed, with whatever timer
LEMMA ClosedFacts ==
    ASSUME NEW a \in AttType, NEW t \in BOOLEAN
    PROVE  /\ [a EXCEPT !.timer = t, !.link = "closed"] \in AttType
           /\ [a EXCEPT !.timer = t, !.link = "closed"].on = a.on
           /\ [a EXCEPT !.timer = t, !.link = "closed"].after = a.after
           /\ [a EXCEPT !.timer = t, !.link = "closed"].pos = a.pos
           /\ [a EXCEPT !.timer = t, !.link = "closed"].end = a.end
           /\ [a EXCEPT !.timer = t, !.link = "closed"].link = "closed"
BY DEF AttType

\* A reconnect in waiting closes the stream where it stands.
LEMMA ReconnectFacts ==
    ASSUME NEW a \in AttType
    PROVE  /\ Reconnect(a) \in AttType /\ Reconnect(a).on = a.on
           /\ Reconnect(a).after = a.after /\ Reconnect(a).pos = a.pos
           /\ Reconnect(a).end = a.end /\ Reconnect(a).link \in {a.link, "closed"}
<1> DEFINE t == TRUE
<1>1. t \in BOOLEAN /\ t = TRUE
  OBVIOUS
<1> HIDE DEF t
<1>2. Reconnect(a) = IF a.timer THEN a ELSE [a EXCEPT !.timer = t, !.link = "closed"]
  BY <1>1 DEF Reconnect
<1> QED BY <1>1, <1>2, ClosedFacts

\* Whatever the probe says, a closed stream is no further than it was.
LEMMA ProbeApplyKeeps == ClientInv /\ ProbeApply => ClientInv'
<1> SUFFICES ASSUME ClientInv, ProbeApply PROVE ClientInv'
  OBVIOUS
<1> DEFINE p == "none"
           a == [att EXCEPT !.probe = p]
           t == FALSE
           closed == [a EXCEPT !.timer = t, !.link = "closed"]
           f == Flush(client)
           s == SettleTurn(f)
<1>1. UNCHANGED <<server, poll, turn, load, abort, left, lapse>>
  BY DEF ProbeApply
<1>2. /\ att' \in {Reconnect(a), closed}
      /\ client' \in {client, Busy(client), f, s}
  BY DEF ProbeApply
<1>3. p \in {"none", "sent", "active", "idle", "null"} /\ t \in BOOLEAN
  OBVIOUS
<1> HIDE DEF p, t
<1>4. /\ a \in AttType /\ a.on = att.on /\ a.after = att.after /\ a.pos = att.pos
      /\ a.end = att.end /\ a.link = att.link
  BY <1>3, Resting, ProbeTimerFacts
<1> HIDE DEF a
<1>5. /\ Reconnect(a) \in AttType /\ Reconnect(a).on = a.on
      /\ Reconnect(a).after = a.after /\ Reconnect(a).pos = a.pos
      /\ Reconnect(a).end = a.end /\ Reconnect(a).link \in {a.link, "closed"}
  BY <1>4, ReconnectFacts
<1>6. /\ closed \in AttType /\ closed.on = a.on /\ closed.after = a.after
      /\ closed.pos = a.pos /\ closed.end = a.end /\ closed.link = "closed"
  BY <1>3, <1>4, ClosedFacts
<1> HIDE DEF closed
<1>7. /\ att' \in AttType /\ att'.on = att.on /\ att'.after = att.after
      /\ att'.pos = att.pos /\ att'.end = att.end /\ att'.link \in {att.link, "closed"}
  BY <1>2, <1>4, <1>5, <1>6
<1>8. Behind(att, client.received) => Behind(att', client.received)
  BY <1>7 DEF Behind
<1>9. /\ f \in ClientType /\ SameRest(f, client)
  BY Resting, FlushFacts
<1>10. SameHeld(f, Flush(client))
  BY DEF SameHeld
<1> HIDE DEF f
<1>11. /\ s \in ClientType /\ SameHeld(s, f) /\ s.accepted = f.accepted /\ s.finished = f.finished
  BY <1>9, SettleFacts
<1>12. SameHeld(s, Flush(client))
  BY <1>10, <1>11 DEF SameHeld
<1>13. /\ Busy(client) \in ClientType /\ SameHeld(Busy(client), client)
       /\ Busy(client).accepted = client.accepted /\ Busy(client).finished = client.finished
  BY Resting, BusyFacts
<1> HIDE DEF s
<1>14. /\ client' \in ClientType /\ (SameHeld(client', client) \/ SameHeld(client', Flush(client)))
       /\ client'.accepted = client.accepted /\ client'.finished = client.finished
  BY <1>2, <1>9, <1>10, <1>11, <1>12, <1>13, Resting DEF SameRest
<1>15. PollInv' /\ poll' \in PollType
  BY <1>1, <1>14, PollKept
<1>16. att'.link = "ended" /\ att'.pos < att'.end => att'.end <= Last
  BY <1>7, Resting
<1>17. att'.after <= att'.pos /\ att'.end <= MaxSeq
  BY <1>7, Resting
<1> QED BY <1>1, <1>7, <1>8, <1>14, <1>15, <1>16, <1>17, Resting, SteppedKeeps

\* The reconnect asks for what is beyond the gate.
LEMMA ReconnectTimerKeeps == ClientInv /\ ReconnectTimer => ClientInv'
<1> SUFFICES ASSUME ClientInv, ReconnectTimer PROVE ClientInv'
  OBVIOUS
<1> DEFINE n == client.received
<1>1. /\ UNCHANGED <<server, client, poll, turn, load, abort, left, lapse>>
      /\ att' = Connected(att, n)
  BY DEF ReconnectTimer
<1>2. n \in 0..MaxSeq /\ n \in Nat /\ n <= n /\ att \in AttType
  BY Resting DEF ClientType
<1> HIDE DEF n
<1>3. /\ att' \in AttType /\ att'.on = att.on /\ att'.after = n /\ att'.pos = n
      /\ att'.end = 0 /\ att'.link = "open" /\ Behind(att', n)
  BY <1>1, <1>2, ConnectedFacts
<1>4. att'.after <= att'.pos /\ att'.end <= MaxSeq
  BY <1>2, <1>3, BoundsFacts
<1>5. Behind(att', client.received)
  BY <1>3 DEF n
<1> QED BY <1>1, <1>3, <1>4, <1>5, Resting, AttachedKeeps

\* The animation frame is a flush.
LEMMA FrameKeeps == ClientInv /\ Frame => ClientInv'
<1> SUFFICES ASSUME ClientInv, Frame PROVE ClientInv'
  OBVIOUS
<1>1. UNCHANGED <<server, att, poll, turn, load, abort, left, lapse>> /\ client' = Flush(client)
  BY DEF Frame
<1>2. client' \in ClientType /\ SameRest(client', client)
  BY <1>1, Resting, FlushFacts
<1>3. SameHeld(client', Flush(client))
  BY <1>1 DEF SameHeld
<1>4. PollInv' /\ poll' \in PollType
  BY <1>1, <1>2, PollKept DEF SameRest
<1> QED BY <1>1, <1>2, <1>3, <1>4, Resting, SteppedKeeps

\* A fetch that has just been sent respects the graces of now; none at all respects any.
LEMMA FreshFacts ==
    ASSUME NEW c \in ClientType
    PROVE  /\ Fresh(c) \in PollType /\ Fresh(c).st = "sent"
           /\ Fresh(c).mayIdle = ~c.accepted /\ Fresh(c).mayPromote = ~c.finished
           /\ NoPoll \in PollType /\ NoPoll.st = "none" /\ ~NoPoll.mayIdle /\ ~NoPoll.mayPromote
<1> DEFINE i == ~c.accepted
           p == ~c.finished
<1>1. i \in BOOLEAN /\ p \in BOOLEAN
  BY DEF ClientType
<1>2. 0 \in 0..MaxLives
  BY BoundsFacts
<1>3. NoPoll \in PollType /\ NoPoll.st = "none" /\ ~NoPoll.mayIdle /\ ~NoPoll.mayPromote
  BY <1>2 DEF NoPoll, PollType
<1>4. Fresh(c) = [NoPoll EXCEPT !.st = "sent", !.mayIdle = i, !.mayPromote = p]
  BY DEF Fresh
<1> HIDE DEF i, p
<1>5. Fresh(c) \in PollType /\ Fresh(c).st = "sent" /\ Fresh(c).mayIdle = i
      /\ Fresh(c).mayPromote = p
  BY <1>1, <1>3, <1>4 DEF PollType
<1> QED BY <1>3, <1>5 DEF i, p

\* Steps of the poll that leave the stream alone
LEMMA PolledKeeps ==
    ASSUME ClientInv, UNCHANGED <<server, att, turn, load, abort, lapse>>,
           client' \in ClientType, SameHeld(client', client),
           poll' \in PollType, PollInv', left' \in [Chances -> Nat]
    PROVE  ClientInv'
<1>1. Behind(att, client.received) => Behind(att', client.received)
  OBVIOUS
<1> QED BY <1>1, Resting, SteppedKeeps

\* A new fetch is told the graces of the session as it is now.
LEMMA PollStartKeeps == ClientInv /\ PollStart => ClientInv'
<1> SUFFICES ASSUME ClientInv, PollStart PROVE ClientInv'
  OBVIOUS
<1>1. UNCHANGED <<server, client, att, turn, load, abort, left, lapse>> /\ poll' = Fresh(client)
  BY DEF PollStart
<1>2. poll' \in PollType /\ PollInv'
  BY <1>1, Resting, FreshFacts DEF PollInv
<1> QED BY <1>1, <1>2, Resting, PolledKeeps

\* The list names a key some life of the runtime has had.
LEMMA PollReadKeeps == ClientInv /\ PollRead => ClientInv'
<1> SUFFICES ASSUME ClientInv, PollRead PROVE ClientInv'
  OBVIOUS
<1>1. UNCHANGED <<server, client, att, turn, load, abort, lapse>> /\ left' \in [Chances -> Nat]
  BY Resting, SpendType DEF PollRead, Chances
<1>2. poll' \in PollType /\ PollInv'
  <2>1. CASE poll' = NoPoll
    BY <2>1, Resting, FreshFacts DEF PollInv
  <2>2. CASE poll' = [poll EXCEPT !.st = "read", !.active = server.active, !.key = server.key]
    <3>1. server.active \in BOOLEAN /\ server.key \in Lives /\ server.key \in 0..MaxLives
      BY Resting, BoundsFacts DEF ServerType, Lives
    <3>2. /\ poll' \in PollType /\ poll'.st = "read" /\ poll'.key = server.key
          /\ poll'.mayIdle = poll.mayIdle /\ poll'.mayPromote = poll.mayPromote
      BY <2>2, <3>1, Resting DEF PollType
    <3> QED BY <1>1, <3>1, <3>2 DEF ClientInv, PollInv
  <2> QED BY <2>1, <2>2 DEF PollRead
<1> QED BY <1>1, <1>2, Resting, PolledKeeps

\* A grace that ends only widens what a later fetch may do.
LEMMA GraceEndsKeeps == ClientInv /\ GraceEnds => ClientInv'
<1> SUFFICES ASSUME ClientInv, GraceEnds PROVE ClientInv'
  OBVIOUS
<1>1. UNCHANGED <<server, att, poll, turn, load, abort, left, lapse>>
  BY DEF GraceEnds
<1>2. /\ client' \in ClientType /\ SameHeld(client', client)
      /\ client'.accepted => client.accepted
      /\ client'.finished => client.finished
  BY Resting DEF GraceEnds, ClientType, SameHeld
<1>3. poll' \in PollType /\ PollInv'
  BY <1>1, <1>2, PollKept
<1> QED BY <1>1, <1>2, <1>3, Resting, PolledKeeps

\* A list that changes no key
LEMMA PollApplyKeeps ==
    ClientInv /\ PollApply /\ ~(poll.active /\ poll.mayPromote /\ poll.key # client.key)
        => ClientInv'
<1> SUFFICES ASSUME ClientInv, PollApply, ~(poll.active /\ poll.mayPromote /\ poll.key # client.key)
             PROVE  ClientInv'
  OBVIOUS
<1> DEFINE s == SettleTurn(client)
<1>1. UNCHANGED <<server, att, turn, load, abort, left, lapse>>
  BY DEF PollApply, Promote, IdleFromList
<1>2. poll' \in PollType /\ PollInv'
  BY Resting, FreshFacts DEF PollApply, PollInv
<1>3. client' \in {client, Busy(client), [s EXCEPT !.pi = TRUE]}
  BY DEF PollApply, Promote, IdleFromList
<1>4. s \in ClientType /\ SameHeld(s, client)
  BY Resting, SettleFacts
<1> HIDE DEF s
<1>5. [s EXCEPT !.pi = TRUE] \in ClientType /\ SameHeld([s EXCEPT !.pi = TRUE], client)
  BY <1>4 DEF ClientType, SameHeld
<1>6. Busy(client) \in ClientType /\ SameHeld(Busy(client), client)
  BY Resting, BusyFacts
<1>7. client' \in ClientType /\ SameHeld(client', client)
  BY <1>3, <1>5, <1>6, Resting
<1> QED BY <1>1, <1>2, <1>7, Resting, PolledKeeps

---------------------------------------------------------------------------
(* The requests                                                            *)

\* The status alone
LEMMA StatusFacts ==
    ASSUME NEW c \in ClientType, NEW st \in Statuses
    PROVE  /\ [c EXCEPT !.status = st] \in ClientType /\ SameHeld([c EXCEPT !.status = st], c)
           /\ [c EXCEPT !.status = st].accepted = c.accepted
           /\ [c EXCEPT !.status = st].finished = c.finished
BY DEF ClientType, SameHeld

\* What becomes of the record of a turn
LEMMA TurnFacts ==
    ASSUME turn \in [Chats -> TurnType], NEW k \in Chats
    PROVE  /\ NoTurn \in TurnType /\ [j \in Chats |-> NoTurn] \in [Chats -> TurnType]
           /\ \A r \in TurnType : [turn EXCEPT ![k] = r] \in [Chats -> TurnType]
           /\ \A st \in {"none", "sent", "answered", "failed", "active", "idle"} :
                 /\ [turn EXCEPT ![k].st = st] \in [Chats -> TurnType]
                 /\ ClientInv => Answer(st) \in TurnType
<1>1. NoTurn \in TurnType
  BY BoundsFacts DEF NoTurn, TurnType
<1>2. ASSUME NEW st \in {"none", "sent", "answered", "failed", "active", "idle"}
      PROVE  /\ [turn EXCEPT ![k].st = st] \in [Chats -> TurnType]
             /\ ClientInv => Answer(st) \in TurnType
  <2>1. [turn[k] EXCEPT !.st = st] \in TurnType
    BY DEF TurnType
  <2>2. ClientInv => Last \in 0..MaxSeq
    BY Resting, BoundsFacts
  <2> QED BY <2>1, <2>2 DEF Answer, TurnType
<1> QED BY <1>1, <1>2

\* A request that may set the status, and may flush
LEMMA AskedKeeps ==
    ASSUME ClientInv, UNCHANGED <<server, att, poll, lapse>>, client' \in ClientType,
           SameHeld(client', client) \/ SameHeld(client', Flush(client)),
           client'.accepted = client.accepted, client'.finished = client.finished,
           turn' \in [Chats -> TurnType], load' \in LoadType,
           abort' \in {"none", "sent", "answered"}, left' \in [Chances -> Nat]
    PROVE  ClientInv'
<1>1. Behind(att, client.received) => Behind(att', client.received)
  OBVIOUS
<1>2. PollInv' /\ poll' \in PollType
  BY PollKept
<1> QED BY <1>1, <1>2, Resting, SteppedKeeps

\* The prompt goes out: the session is shown as starting.
LEMMA SendPromptKeeps == ClientInv /\ SendPrompt => ClientInv'
<1> SUFFICES ASSUME ClientInv, SendPrompt PROVE ClientInv'
  OBVIOUS
<1> DEFINE st == "starting"
           sent == "sent"
           k == "prompt"
<1>1. /\ UNCHANGED <<server, att, poll, load, abort, lapse>>
      /\ client' = [client EXCEPT !.status = st] /\ turn' = [turn EXCEPT ![k].st = sent]
  BY DEF SendPrompt
<1>2. /\ st \in Statuses /\ k \in Chats
      /\ sent \in {"none", "sent", "answered", "failed", "active", "idle"}
  BY DEF Statuses, Chats
<1>3. left' \in [Chances -> Nat]
  BY Resting, SpendType DEF SendPrompt, Chances
<1> HIDE DEF st, k, sent
<1>4. /\ client' \in ClientType /\ SameHeld(client', client)
      /\ client'.accepted = client.accepted /\ client'.finished = client.finished
  BY <1>1, <1>2, Resting, StatusFacts
<1>5. turn' \in [Chats -> TurnType]
  BY <1>1, <1>2, Resting, TurnFacts
<1> QED BY <1>1, <1>3, <1>4, <1>5, Resting, AskedKeeps

\* A steer leaves no trace in the session until it is answered.
LEMMA SendSteerKeeps == ClientInv /\ SendSteer => ClientInv'
<1> SUFFICES ASSUME ClientInv, SendSteer PROVE ClientInv'
  OBVIOUS
<1> DEFINE sent == "sent"
           k == "steer"
<1>1. UNCHANGED <<server, client, att, poll, load, abort, lapse>> /\ turn' = [turn EXCEPT ![k].st = sent]
  BY DEF SendSteer
<1>2. k \in Chats /\ sent \in {"none", "sent", "answered", "failed", "active", "idle"}
  BY DEF Chats
<1>3. left' \in [Chances -> Nat]
  BY Resting, SpendType DEF SendSteer, Chances
<1> HIDE DEF k, sent
<1>4. turn' \in [Chats -> TurnType]
  BY <1>1, <1>2, Resting, TurnFacts
<1> QED BY <1>1, <1>3, <1>4, Resting, LogKept

\* The server takes a message, whether or not its answer arrives.
LEMMA TakeTurnKeeps ==
    ASSUME ClientInv, NEW k \in Chats, TakeTurn(k) PROVE ClientInv'
<1>1. UNCHANGED <<client, att, poll, load, abort, lapse>> /\ left' \in [Chances -> Nat]
  BY Resting, SpendType DEF TakeTurn, Chances
<1>2. server' \in {server, Started(server)}
  BY DEF TakeTurn
<1>3. server' \in ServerType /\ server'.life = server.life /\ server'.log = server.log
  BY <1>2, Resting, StartedFacts
<1>4. turn' \in [Chats -> TurnType]
  <2>1. \E st \in {"none", "sent", "answered", "failed", "active", "idle"} :
           turn' = [turn EXCEPT ![k] = Answer(st)]
    BY DEF TakeTurn
  <2>2. /\ \A r \in TurnType : [turn EXCEPT ![k] = r] \in [Chats -> TurnType]
        /\ \A st \in {"none", "sent", "answered", "failed", "active", "idle"} :
              Answer(st) \in TurnType
    BY Resting, TurnFacts
  <2> QED BY <2>1, <2>2
<1> QED BY <1>1, <1>3, <1>4, Resting, LogKept

\* The failed prompt asks what became of it.
LEMMA ProbeFailedPromptKeeps == ClientInv /\ ProbeFailedPrompt => ClientInv'
<1> SUFFICES ASSUME ClientInv, ProbeFailedPrompt PROVE ClientInv'
  OBVIOUS
<1> DEFINE k == "prompt"
<1>1. UNCHANGED <<server, client, att, poll, load, abort, lapse>> /\ left' \in [Chances -> Nat]
  BY Resting, SpendType DEF ProbeFailedPrompt, Chances
<1>2. \E st \in {"none", "sent", "answered", "failed", "active", "idle"} :
         turn' = [turn EXCEPT ![k] = Answer(st)] \/ turn' = [turn EXCEPT ![k].st = st]
  <2>1. (IF server.active THEN "active" ELSE "idle")
            \in {"none", "sent", "answered", "failed", "active", "idle"}
    OBVIOUS
  <2> QED BY <2>1 DEF ProbeFailedPrompt
<1>3. k \in Chats
  BY DEF Chats
<1> HIDE DEF k
<1>4. turn' \in [Chats -> TurnType]
  <2>1. /\ \A r \in TurnType : [turn EXCEPT ![k] = r] \in [Chats -> TurnType]
        /\ \A st \in {"none", "sent", "answered", "failed", "active", "idle"} :
              /\ [turn EXCEPT ![k].st = st] \in [Chats -> TurnType]
              /\ Answer(st) \in TurnType
    BY <1>3, Resting, TurnFacts
  <2> QED BY <1>2, <2>1
<1> QED BY <1>1, <1>4, Resting, LogKept

\* The failed steer leaves.
LEMMA DropFailedSteerKeeps == ClientInv /\ DropFailedSteer => ClientInv'
<1> SUFFICES ASSUME ClientInv, DropFailedSteer PROVE ClientInv'
  OBVIOUS
<1> DEFINE k == "steer"
<1>1. /\ UNCHANGED <<server, client, att, poll, load, abort, left, lapse>>
      /\ turn' = [turn EXCEPT ![k] = NoTurn] /\ k \in Chats
  BY DEF DropFailedSteer, Chats
<1> HIDE DEF k
<1>2. turn' \in [Chats -> TurnType]
  BY <1>1, Resting, TurnFacts
<1> QED BY <1>1, <1>2, Resting, LogKept

\* The session is shown as stopping.
LEMMA AbortKeeps == ClientInv /\ Abort => ClientInv'
<1> SUFFICES ASSUME ClientInv, Abort PROVE ClientInv'
  OBVIOUS
<1> DEFINE st == "stopping"
<1>1. /\ UNCHANGED <<server, att, poll, turn, load, lapse>> /\ abort' = "sent"
      /\ client' = [client EXCEPT !.status = st] /\ st \in Statuses
  BY DEF Abort, Statuses
<1>2. left' \in [Chances -> Nat]
  BY Resting, SpendType DEF Abort, Chances
<1> HIDE DEF st
<1>3. /\ client' \in ClientType /\ SameHeld(client', client)
      /\ client'.accepted = client.accepted /\ client'.finished = client.finished
  BY <1>1, Resting, StatusFacts
<1> QED BY <1>1, <1>2, <1>3, Resting, AskedKeeps

\* The run is stopped, or the request lost.
LEMMA TakeAbortKeeps == ClientInv /\ TakeAbort => ClientInv'
<1> SUFFICES ASSUME ClientInv, TakeAbort PROVE ClientInv'
  OBVIOUS
<1> DEFINE b == FALSE
<1>1. /\ UNCHANGED <<client, att, poll, turn, load, lapse>> /\ abort' = "answered"
      /\ server' \in {server, [server EXCEPT !.active = b]} /\ b \in BOOLEAN
  BY DEF TakeAbort
<1>2. left' \in [Chances -> Nat]
  BY Resting, SpendType DEF TakeAbort, Chances
<1> HIDE DEF b
<1>3. server' \in ServerType /\ server'.life = server.life /\ server'.log = server.log
  BY <1>1, Resting, StartedFacts
<1> QED BY <1>1, <1>2, <1>3, Resting, LogKept

\* An answered abort flushes what is held and settles the turn.
LEMMA AnswerAbortKeeps == ClientInv /\ AnswerAbort => ClientInv'
<1> SUFFICES ASSUME ClientInv, AnswerAbort PROVE ClientInv'
  OBVIOUS
<1> DEFINE f == Flush(client)
<1>1. /\ UNCHANGED <<server, att, poll, turn, load, left, lapse>> /\ abort' = "none"
      /\ client' = SettleTurn(f)
  BY DEF AnswerAbort
<1>2. f \in ClientType /\ SameRest(f, client)
  BY Resting, FlushFacts
<1>3. f = Flush(client)
  OBVIOUS
<1> HIDE DEF f
<1>4. /\ client' \in ClientType /\ SameHeld(client', f)
      /\ client'.accepted = f.accepted /\ client'.finished = f.finished
  BY <1>1, <1>2, SettleFacts
<1>5. SameHeld(client', Flush(client))
  BY <1>3, <1>4
<1>6. client'.accepted = client.accepted /\ client'.finished = client.finished
  BY <1>2, <1>4 DEF SameRest
<1> QED BY <1>1, <1>4, <1>5, <1>6, Resting, AskedKeeps

\* A replay begins with its two reads to do.
LEMMA StartLoadKeeps == ClientInv /\ StartLoad => ClientInv'
<1> SUFFICES ASSUME ClientInv, StartLoad PROVE ClientInv'
  OBVIOUS
<1> DEFINE st == "loading"
<1>1. /\ UNCHANGED <<server, att, poll, turn, abort, lapse>>
      /\ load' = [NoLoad EXCEPT !.st = "reading", !.need = {"canon", "status"}]
      /\ client' = [client EXCEPT !.status = st] /\ st \in Statuses
  BY DEF StartLoad, Statuses
<1>2. left' \in [Chances -> Nat]
  BY Resting, SpendType DEF StartLoad, Chances
<1>3. load' \in LoadType
  <2>1. NoLoad \in LoadType
    BY BoundsFacts DEF NoLoad, LoadType
  <2> QED BY <1>1, <2>1 DEF LoadType
<1> HIDE DEF st
<1>4. /\ client' \in ClientType /\ SameHeld(client', client)
      /\ client'.accepted = client.accepted /\ client'.finished = client.finished
  BY <1>1, Resting, StatusFacts
<1> QED BY <1>1, <1>2, <1>3, <1>4, Resting, AskedKeeps

\* The two reads of a replay
LEMMA ReadsKeep == ClientInv /\ (ReadCanon \/ ReadStatus) => ClientInv'
<1> SUFFICES ASSUME ClientInv, ReadCanon \/ ReadStatus PROVE ClientInv'
  OBVIOUS
<1>1. UNCHANGED <<server, client, att, poll, turn, abort, lapse>> /\ left' \in [Chances -> Nat]
  BY Resting, SpendType DEF ReadCanon, ReadStatus, Chances
<1>2. load' \in LoadType
  <2>1. Last \in 0..MaxSeq /\ server.active \in BOOLEAN
    BY Resting, BoundsFacts DEF ServerType
  <2>2. load \in LoadType
    BY Resting
  <2>3. ReadCanon => load' \in LoadType
    BY <2>1, <2>2 DEF ReadCanon, LoadType
  <2>4. ReadStatus => load' \in LoadType
    BY <2>1, <2>2 DEF ReadStatus, LoadType
  <2> QED BY <2>3, <2>4
<1> QED BY <1>1, <1>2, Resting, LogKept

---------------------------------------------------------------------------
(* The steps that move the gate                                            *)

\* A rewind the history does not blame left nothing of this life shown or skipped.
LEMMA RewoundFacts ==
    ASSUME ClientInv, NEW d \in ClientType, d.shown = client.shown, NEW skipped,
           Rewound(skipped) \subseteq {"restart"}
    PROVE  /\ ~skipped
           /\ Once(Adopt(d, 0), server.life) /\ Whole(Adopt(d, 0), server.life)
<1> DEFINE life == server.life
<1>1. /\ lapse \subseteq {"restart"} /\ ~skipped
      /\ \A e \in Events : e[1] = life => client.shown[e] = 0
  BY DEF Rewound
<1>2. Once(client, life) /\ life \in Lives
  BY <1>1, Resting DEF ClientInv, ViewInv, ServerType
<1>3. ASSUME NEW e \in Events
      PROVE d.shown[e] <= 1 /\ (d.shown[e] > 0 => e[1] <= life /\ (e[1] = life => e[2] <= 0))
  <2>1. client.shown[e] \in 0..2
    BY Resting DEF ClientType
  <2>2. Weight(client, e) <= 1 /\ (Weight(client, e) > 0 => e[1] <= life)
    BY <1>2 DEF Once
  <2>3. d.shown[e] <= 1 /\ (d.shown[e] > 0 => e[1] <= life)
    BY <2>1, <2>2 DEF Weight
  <2> QED BY <1>1, <2>3
<1>4. \A q \in Seqs : q <= 0 => d.shown[<<life, q>>] = 1
  BY DEF Seqs
<1>5. 0 \in 0..MaxSeq
  BY BoundsFacts
<1> QED BY <1>1, <1>2, <1>3, <1>4, <1>5, AdoptView

\* The gate goes back to the start.
LEMMA RewindKeeps ==
    ASSUME ClientInv, Typed', PollInv', UNCHANGED server,
           NEW d \in ClientType, SameHeld(client', Adopt(d, 0)),
           att'.after <= att'.pos, att'.end <= MaxSeq,
           att'.link = "ended" /\ att'.pos < att'.end => att'.end <= Last,
           lapse' \subseteq {"restart"} =>
               Once(Adopt(d, 0), server.life) /\ Whole(Adopt(d, 0), server.life),
           lapse' = {} => Behind(att', 0)
    PROVE  ClientInv'
<1> DEFINE a == Adopt(d, 0)
<1>0. 0 \in 0..MaxSeq
  BY BoundsFacts
<1>1. a \in ClientType /\ Cursors(a) /\ a.pending = {} /\ a.received = 0
  BY <1>0, AdoptFacts
<1> HIDE DEF a
<1>2. server.life \in Lives /\ client' \in ClientType
  BY Resting DEF ServerType, Typed
<1>3. SameHeld(client', a)
  BY DEF a
<1>4. /\ Cursors(client')
      /\ Once(a, server.life) => Once(client', server.life)
      /\ Whole(a, server.life) => Whole(client', server.life)
  BY <1>1, <1>2, <1>3, SameHeldView
<1>5. HeldInv' /\ client'.received = 0
  BY <1>1, <1>3, <1>4 DEF HeldInv, SameHeld
<1>6. ViewInv'
  BY <1>4 DEF ViewInv, a
<1>7. StreamInv'
  BY <1>5, Resting DEF StreamInv, StreamShape
<1> QED BY <1>5, <1>6, <1>7 DEF ClientInv

\* A list that moves the session to another key sets the gate back with it.
LEMMA PromoteKeeps ==
    ClientInv /\ PollApply /\ poll.active /\ poll.mayPromote /\ poll.key # client.key => ClientInv'
<1> SUFFICES ASSUME ClientInv, PollApply, poll.active, poll.mayPromote, poll.key # client.key
             PROVE  ClientInv'
  OBVIOUS
<1> DEFINE a == Adopt(client, 0)
           moved == [a EXCEPT !.key = poll.key]
           piTrue == [moved EXCEPT !.pi = TRUE]
<1>0. 0 \in 0..MaxSeq /\ client \in ClientType /\ poll.key \in Lives
  BY BoundsFacts, Resting DEF PollApply, ClientInv, PollInv
<1>1. /\ a \in ClientType /\ a.received = 0 /\ SameRest(a, client)
  BY <1>0, AdoptFacts
<1>2. SameHeld(a, Adopt(client, 0))
  BY DEF SameHeld
<1>3. /\ UNCHANGED <<server, turn, load, abort, left>> /\ poll' = NoPoll
      /\ \/ UNCHANGED <<client, att, lapse>>
         \/ /\ client' = Busy(moved) /\ lapse' = Rewound(FALSE)
            /\ att' = IF att.on THEN Opened(piTrue) ELSE att
  BY DEF PollApply, Promote
<1>4. poll' \in PollType /\ PollInv'
  BY <1>3, Resting, FreshFacts DEF PollInv
<1>5. CASE UNCHANGED <<client, att, lapse>>
  BY <1>3, <1>4, <1>5, Resting, PolledKeeps
<1>6. CASE /\ client' = Busy(moved) /\ lapse' = Rewound(FALSE)
           /\ att' = IF att.on THEN Opened(piTrue) ELSE att
  <2> HIDE DEF a
  <2>1. moved \in ClientType /\ SameHeld(moved, a) /\ moved.received = 0
    BY <1>0, <1>1 DEF ClientType, SameHeld
  <2> HIDE DEF moved
  <2>2. piTrue \in ClientType /\ piTrue.received = 0
    BY <2>1 DEF ClientType
  <2> HIDE DEF piTrue
  <2>3. Busy(moved) \in ClientType /\ SameHeld(Busy(moved), moved)
    BY <2>1, BusyFacts
  <2>4. client' \in ClientType /\ SameHeld(client', Adopt(client, 0))
    BY <1>2, <1>6, <2>1, <2>3 DEF SameHeld
  <2>5. /\ Opened(piTrue) \in AttType /\ Opened(piTrue).on /\ Opened(piTrue).link = "open"
        /\ Opened(piTrue).after = 0 /\ Opened(piTrue).pos = 0 /\ Opened(piTrue).end = 0
        /\ Behind(Opened(piTrue), 0)
    BY <2>2, OpenedFacts
  <2>6. /\ att' \in AttType /\ att'.after <= att'.pos /\ att'.end <= MaxSeq
        /\ att'.link = "ended" /\ att'.pos < att'.end => att'.end <= Last
        /\ Behind(att', 0)
    BY <1>0, <1>6, <2>5, Resting, BoundsFacts DEF Behind
  <2>7. lapse' \subseteq {"overtaken", "reload", "reads", "restart", "rewind"}
    BY <1>6 DEF Rewound, ClientInv, Typed
  <2>8. Typed'
    BY <1>3, <1>4, <2>4, <2>6, <2>7, Resting DEF Typed
  <2>9. lapse' \subseteq {"restart"} =>
            Once(Adopt(client, 0), server.life) /\ Whole(Adopt(client, 0), server.life)
    BY <1>0, <1>6, RewoundFacts
  <2> QED BY <1>0, <1>3, <1>4, <2>4, <2>6, <2>8, <2>9, RewindKeeps
<1> QED BY <1>3, <1>5, <1>6

\* An accepted turn, however it was accepted
LEMMA AcceptKeeps ==
    ASSUME ClientInv, NEW k \in Chats, Accept(k), UNCHANGED <<server, att, load, abort, left>>
    PROVE  ClientInv'
<1> DEFINE d == [client EXCEPT !.status = "running", !.pi = TRUE]
           a == Adopt(d, 0)
           n == turn[k].seq
<1>0. 0 \in 0..MaxSeq /\ client \in ClientType
  BY BoundsFacts, Resting
<1>1. d \in ClientType /\ SameHeld(d, client) /\ d.shown = client.shown /\ d.received = client.received
  BY <1>0 DEF ClientType, SameHeld, Statuses
<1>2. /\ client' = NoteTurnAccepted(d, n)
      /\ poll' = IF poll.st = "none" THEN poll
                 ELSE [poll EXCEPT !.mayIdle = FALSE, !.mayPromote = TRUE]
      /\ lapse' = IF n < client.received THEN Rewound(Stranded(0)) ELSE lapse
      /\ turn' = [turn EXCEPT ![k] = NoTurn]
  BY DEF Accept
<1> HIDE DEF d, n
<1>3. a \in ClientType
  BY <1>0, <1>1, AdoptFacts
<1>4. a = Adopt(d, 0)
  OBVIOUS
<1> HIDE DEF a
<1> DEFINE base == IF n < d.received THEN a ELSE d
<1>5. base \in ClientType /\ client' = [base EXCEPT !.accepted = TRUE, !.finished = FALSE]
  BY <1>1, <1>2, <1>3, <1>4 DEF NoteTurnAccepted
<1> HIDE DEF base
<1>6. client' \in ClientType /\ SameHeld(client', base) /\ client'.finished = FALSE
  BY <1>5 DEF ClientType, SameHeld
<1>7. poll' \in PollType /\ PollInv'
  <2>1. poll' \in PollType /\ poll'.st = poll.st /\ poll'.key = poll.key /\ ~poll'.mayIdle
    BY <1>2, Resting DEF PollType, ClientInv, PollInv
  <2> QED BY <1>6, <2>1 DEF ClientInv, PollInv
<1>8. turn' \in [Chats -> TurnType]
  BY <1>2, Resting, TurnFacts
<1>9. CASE ~ (n < client.received)
  <2>1. SameHeld(client', client) /\ lapse' = lapse
    BY <1>1, <1>2, <1>6, <1>9 DEF base, SameHeld
  <2>2. Behind(att, client.received) => Behind(att', client.received)
    OBVIOUS
  <2> QED BY <1>6, <1>7, <1>8, <2>1, <2>2, Resting, SteppedKeeps
<1>10. CASE n < client.received
  <2>1. SameHeld(client', Adopt(d, 0)) /\ lapse' = Rewound(Stranded(0))
    BY <1>1, <1>2, <1>4, <1>6, <1>10 DEF base
  <2>2. lapse' \subseteq {"overtaken", "reload", "reads", "restart", "rewind"}
    BY <2>1 DEF Rewound, ClientInv, Typed
  <2>3. Typed'
    BY <1>6, <1>7, <1>8, <2>2, Resting DEF Typed
  <2>4. ASSUME lapse' \subseteq {"restart"}
        PROVE  /\ Once(Adopt(d, 0), server.life) /\ Whole(Adopt(d, 0), server.life)
               /\ Behind(att', 0)
    <3>1. /\ ~Stranded(0)
          /\ Once(Adopt(d, 0), server.life) /\ Whole(Adopt(d, 0), server.life)
      BY <1>1, <2>1, <2>4, RewoundFacts
    <3>2. Behind(att, 0)
      BY <3>1, Resting DEF Stranded, Behind
    <3> QED BY <3>1, <3>2
  <2>5. /\ att'.after <= att'.pos /\ att'.end <= MaxSeq
        /\ att'.link = "ended" /\ att'.pos < att'.end => att'.end <= Last
    BY Resting
  <2> QED BY <1>1, <1>7, <2>1, <2>3, <2>4, <2>5, RewindKeeps
<1> QED BY <1>9, <1>10

\* The answer of a turn is an acceptance.
LEMMA AnswerTurnKeeps == ASSUME ClientInv, NEW k \in Chats, AnswerTurn(k) PROVE ClientInv'
BY AcceptKeeps DEF AnswerTurn

\* A failed prompt was accepted after all, or is settled.
LEMMA SettleFailedPromptKeeps == ClientInv /\ SettleFailedPrompt => ClientInv'
<1> SUFFICES ASSUME ClientInv, SettleFailedPrompt PROVE ClientInv'
  OBVIOUS
<1> DEFINE k == "prompt"
<1>1. k \in Chats
  BY DEF Chats
<1>2. UNCHANGED <<server, att, load, abort, left>>
  BY DEF SettleFailedPrompt
<1>3. \/ Accept(k)
      \/ /\ client' = SettleTurn(client) /\ turn' = [turn EXCEPT ![k] = NoTurn]
         /\ UNCHANGED <<poll, lapse>>
  BY DEF SettleFailedPrompt
<1> HIDE DEF k
<1>4. CASE Accept(k)
  BY <1>1, <1>2, <1>4, AcceptKeeps
<1>5. CASE /\ client' = SettleTurn(client) /\ turn' = [turn EXCEPT ![k] = NoTurn]
           /\ UNCHANGED <<poll, lapse>>
  <2>1. /\ client' \in ClientType /\ SameHeld(client', client)
        /\ client'.accepted = client.accepted /\ client'.finished = client.finished
    BY <1>5, Resting, SettleFacts
  <2>2. turn' \in [Chats -> TurnType]
    BY <1>1, <1>5, Resting, TurnFacts
  <2> QED BY <1>2, <1>5, <2>1, <2>2, Resting, AskedKeeps
<1> QED BY <1>3, <1>4, <1>5

\* A transcript read from the log holds its first n events and nothing else.
LEMMA TranscriptFacts ==
    ASSUME ClientInv, NEW n \in 0..MaxSeq
    PROVE  /\ Transcript(n) \in [Events -> 0..2]
           /\ \A e \in Events :
                 /\ Transcript(n)[e] <= 1
                 /\ Transcript(n)[e] > 0 => e[1] = server.life /\ e[2] <= n
           /\ \A q \in Seqs : q <= n => Transcript(n)[<<server.life, q>>] = 1
<1>0. server.life \in Lives /\ n \in Nat
  BY Resting DEF ServerType
<1>1. \A e \in Events : Transcript(n)[e] = IF e \in Log(n) THEN 1 ELSE 0
  BY DEF Transcript
<1>2. Transcript(n) \in [Events -> 0..2]
  BY DEF Transcript
<1>3. \A e \in Events : e \in Log(n) => e[1] = server.life /\ e[2] <= n
  BY <1>0 DEF Log
<1>4. \A q \in Seqs : q <= n => <<server.life, q>> \in Log(n) /\ <<server.life, q>> \in Events
  BY <1>0 DEF Log, Seqs, Events
<1> QED BY <1>1, <1>2, <1>3, <1>4

\* A replay is a transcript cut where the two reads of the log agree.
LEMMA ReplayKeeps ==
    ASSUME ClientInv, Replay, load' = NoLoad, UNCHANGED <<server, att, poll, turn, abort, left>>
    PROVE  ClientInv'
<1> DEFINE n == load.seq
           content == IF load.active THEN load.seq ELSE load.canon
           shown == Transcript(content)
           st == IF load.active THEN "running" ELSE "idle"
           d == [client EXCEPT !.shown = shown, !.pi = TRUE, !.status = st]
           a == Adopt(d, n)
           life == server.life
<1>0. /\ n \in 0..MaxSeq /\ content \in 0..MaxSeq /\ life \in Lives /\ client \in ClientType
      /\ st \in Statuses
  BY Resting DEF LoadType, ServerType, Statuses
<1>1. /\ client' = a
      /\ lapse' = (IF content = n THEN {} ELSE {"reads"})
                  \cup (IF Stranded(n) THEN {"rewind"} ELSE {})
  BY DEF Replay
<1>2. load' \in LoadType
  BY BoundsFacts DEF NoLoad, LoadType
<1> HIDE DEF content, st
<1>3. /\ shown \in [Events -> 0..2]
      /\ \A e \in Events : shown[e] <= 1 /\ (shown[e] > 0 => e[1] = life /\ e[2] <= content)
      /\ \A q \in Seqs : q <= content => shown[<<life, q>>] = 1
  BY <1>0, TranscriptFacts
<1> HIDE DEF shown
<1>4. /\ d \in ClientType /\ d.shown = shown /\ d.accepted = client.accepted
      /\ d.finished = client.finished
  BY <1>0, <1>3 DEF ClientType
<1> HIDE DEF d, n
<1>5. /\ a \in ClientType /\ Cursors(a) /\ SameRest(a, d) /\ a.pending = {} /\ a.received = n
  BY <1>0, <1>4, AdoptFacts
<1>6. content = n => Once(a, life) /\ Whole(a, life)
  <2> SUFFICES ASSUME content = n PROVE Once(a, life) /\ Whole(a, life)
    OBVIOUS
  <2>0. life <= life
    BY <1>0 DEF Lives
  <2> HIDE DEF life
  <2>1. \A e \in Events : d.shown[e] > 0 => e[1] <= life /\ (e[1] = life => e[2] <= n)
    BY <1>3, <1>4, <2>0
  <2>2. \A e \in Events : d.shown[e] <= 1
    BY <1>3, <1>4
  <2>3. \A q \in Seqs : q <= n => d.shown[<<life, q>>] = 1
    BY <1>3, <1>4
  <2> QED BY <1>0, <1>4, <2>1, <2>2, <2>3, AdoptView
<1> HIDE DEF a
<1>7. poll' \in PollType /\ PollInv'
  BY <1>1, <1>4, <1>5, PollKept DEF SameRest
<1>8. Typed'
  <2>1. lapse' \subseteq {"overtaken", "reload", "reads", "restart", "rewind"}
    BY <1>1
  <2> QED BY <1>1, <1>2, <1>5, <1>7, <2>1, Resting DEF Typed
<1>9. HeldInv'
  BY <1>1, <1>5 DEF HeldInv
<1>10. lapse' \subseteq {"restart"} => content = n /\ ~Stranded(n)
  BY <1>1
<1>11. ViewInv'
  BY <1>1, <1>6, <1>10 DEF ViewInv
<1>12. StreamInv'
  <2>1. ~Stranded(n) => Behind(att, n)
    BY <1>0, Resting DEF Stranded, Behind
  <2>2. StreamShape'
    BY Resting DEF StreamShape
  <2> QED BY <1>1, <1>5, <1>10, <2>1, <2>2 DEF StreamInv
<1> QED BY <1>7, <1>8, <1>9, <1>11, <1>12 DEF ClientInv

\* Without the canonical log the gate goes back to the start, or stays.
LEMMA ReplayFailedKeeps ==
    ASSUME ClientInv, ReplayFailed, load' = NoLoad,
           UNCHANGED <<server, att, poll, turn, abort, left>>
    PROVE  ClientInv'
<1>1. load' \in LoadType
  BY BoundsFacts DEF NoLoad, LoadType
<1>2. CASE ~load.active
  <2> DEFINE st == "idle"
  <2>1. client' = [client EXCEPT !.status = st] /\ lapse' = lapse /\ st \in Statuses
    BY <1>2 DEF ReplayFailed, Statuses
  <2> HIDE DEF st
  <2>2. /\ client' \in ClientType /\ SameHeld(client', client)
        /\ client'.accepted = client.accepted /\ client'.finished = client.finished
    BY <2>1, Resting, StatusFacts
  <2> QED BY <1>1, <2>1, <2>2, Resting, AskedKeeps
<1>3. CASE load.active
  <2> DEFINE st == "running"
             d == [client EXCEPT !.status = st]
             life == server.life
  <2>1. /\ client' = Adopt(d, 0) /\ st \in Statuses
        /\ lapse' = lapse \cup (IF client.received > 0 THEN {"reads"} ELSE {})
    BY <1>3 DEF ReplayFailed, Statuses
  <2>2. /\ d \in ClientType /\ SameHeld(d, client)
        /\ d.accepted = client.accepted /\ d.finished = client.finished
    <3> HIDE DEF st
    <3> QED BY <2>1, Resting, StatusFacts
  <2> HIDE DEF d
  <2>3. /\ 0 \in 0..MaxSeq /\ life \in Lives
    BY Resting, BoundsFacts DEF ServerType
  <2>4. Adopt(d, 0) \in ClientType /\ SameRest(Adopt(d, 0), d)
    BY <2>2, <2>3, AdoptFacts
  <2>5. SameHeld(client', Adopt(d, 0)) /\ client'.accepted = client.accepted
        /\ client'.finished = client.finished
    BY <2>1, <2>2, <2>4 DEF SameHeld, SameRest
  <2>6. poll' \in PollType /\ PollInv'
    BY <2>5, PollKept
  <2>7. Typed'
    <3>1. lapse' \subseteq {"overtaken", "reload", "reads", "restart", "rewind"}
      BY <2>1 DEF ClientInv, Typed
    <3> QED BY <1>1, <2>1, <2>4, <2>6, <3>1, Resting DEF Typed
  <2>8. ASSUME lapse' \subseteq {"restart"}
        PROVE  Once(Adopt(d, 0), life) /\ Whole(Adopt(d, 0), life)
    <3>1. client.received = 0 /\ lapse' = lapse
      BY <2>1, <2>8, Resting
    <3>2. Once(client, life)
      BY <2>8, <3>1 DEF ClientInv, ViewInv
    <3>3. ASSUME NEW e \in Events
          PROVE  d.shown[e] <= 1 /\ (d.shown[e] > 0 => e[1] <= life /\ (e[1] = life => e[2] <= 0))
      <4>1. client.shown[e] \in 0..2 /\ d.shown = client.shown
        BY <2>2, Resting DEF ClientType, SameHeld
      <4>2. Weight(client, e) <= 1
            /\ (Weight(client, e) > 0 => e[1] <= life /\ (e[1] = life => e[2] <= 0))
        BY <3>1, <3>2 DEF Once
      <4> QED BY <4>1, <4>2 DEF Weight
    <3>4. \A q \in Seqs : q <= 0 => d.shown[<<life, q>>] = 1
      BY DEF Seqs
    <3> QED BY <2>2, <2>3, <3>3, <3>4, AdoptView
  <2>9. lapse' = {} => Behind(att', 0)
    <3> SUFFICES ASSUME lapse' = {} PROVE Behind(att', 0)
      OBVIOUS
    <3>1. \A x \in lapse : x \in lapse'
      BY <2>1
    <3>2. lapse = {}
      BY <3>1
    <3>3. ~ (client.received > 0)
      BY <2>1
    <3>4. client.received = 0
      BY <3>3, Resting
    <3> QED BY <3>2, <3>4 DEF ClientInv, StreamInv
  <2> QED BY <2>2, <2>5, <2>6, <2>7, <2>8, <2>9, Resting, RewindKeeps
<1> QED BY <1>2, <1>3

\* A replay ends one of the two ways.
LEMMA FinishLoadKeeps == ClientInv /\ FinishLoad => ClientInv'
BY ReplayKeeps, ReplayFailedKeeps DEF FinishLoad

\* A page that has just mounted shows nothing and holds nothing.
LEMMA MountedFacts ==
    ASSUME NEW p \in BOOLEAN, NEW n \in 0..MaxSeq
    PROVE  /\ Mounted(p, n) \in ClientType /\ Cursors(Mounted(p, n))
           /\ Mounted(p, n).pending = {} /\ Mounted(p, n).received = 0
           /\ ~Mounted(p, n).accepted /\ ~Mounted(p, n).finished
           /\ \A e \in Events : Weight(Mounted(p, n), e) = 0
           /\ Mounted(p, n).lastSeq = n /\ Mounted(p, n).committed = 0
<1> DEFINE shown == [e \in Events |-> 0]
           seen == [status |-> "idle", pi |-> p]
<1>1. shown \in [Events -> 0..2] /\ \A e \in Events : shown[e] = 0
  OBVIOUS
<1>2. seen \in [status : Statuses, pi : BOOLEAN] /\ "idle" \in Statuses
  BY DEF Statuses
<1>3. Mounted(p, n) = [status |-> "idle", pi |-> p, lastSeq |-> n, shown |-> shown,
                       received |-> 0, committed |-> 0, pending |-> {}, newest |-> 0,
                       kind |-> "none", accepted |-> FALSE, finished |-> FALSE, key |-> 1,
                       seen |-> seen]
  BY DEF Mounted
<1> HIDE DEF shown, seen
<1>4. 0 \in 0..MaxSeq /\ 1 \in Lives /\ {} \in SUBSET Events
  BY BoundsFacts
<1>5. Mounted(p, n) \in ClientType
  BY <1>1, <1>2, <1>3, <1>4 DEF ClientType
<1>6. /\ Mounted(p, n).pending = {} /\ Mounted(p, n).received = 0
      /\ ~Mounted(p, n).accepted /\ ~Mounted(p, n).finished
      /\ Mounted(p, n).lastSeq = n /\ Mounted(p, n).committed = 0
      /\ Mounted(p, n).newest = 0 /\ Mounted(p, n).shown = shown
  BY <1>3
<1>7. \A e \in Events : Weight(Mounted(p, n), e) = 0
  BY <1>1, <1>6 DEF Weight
<1>8. Cursors(Mounted(p, n))
  BY <1>6 DEF Cursors
<1> QED BY <1>5, <1>6, <1>7, <1>8

\* A reload excuses the transcript until the next replay.
LEMMA ReloadKeeps == ClientInv /\ Reload => ClientInv'
<1> SUFFICES ASSUME ClientInv, Reload PROVE ClientInv'
  OBVIOUS
<1> DEFINE n == Flush(client).lastSeq
           p == client.pi
           m == Mounted(p, n)
           z == Mounted(p, 0)
<1>1. /\ client' = m /\ att' = NoAttachment /\ poll' = Fresh(z)
      /\ turn' = [k \in Chats |-> NoTurn] /\ load' = NoLoad /\ abort' = "none"
      /\ lapse' = {"reload"} \cup (lapse \cap {"restart"}) /\ UNCHANGED server
  BY DEF Reload, Chats
<1>2. left' \in [Chances -> Nat]
  BY Resting, SpendType DEF Reload, Chances
<1>3. n \in 0..MaxSeq /\ p \in BOOLEAN /\ 0 \in 0..MaxSeq
  BY Resting, FlushFacts, BoundsFacts DEF ClientType
<1> HIDE DEF n, p
<1>4. /\ m \in ClientType /\ Cursors(m) /\ m.pending = {} /\ ~m.accepted /\ ~m.finished
      /\ z \in ClientType /\ ~z.accepted
  BY <1>3, MountedFacts
<1> HIDE DEF m, z
<1>5. poll' \in PollType /\ PollInv'
  BY <1>1, <1>4, FreshFacts DEF PollInv
<1>6. turn' \in [Chats -> TurnType] /\ load' \in LoadType
  <2>1. NoTurn \in TurnType
    BY BoundsFacts DEF NoTurn, TurnType
  <2> QED BY <1>1, <2>1, BoundsFacts DEF NoLoad, LoadType
<1>7. Typed'
  BY <1>1, <1>2, <1>4, <1>5, <1>6, NoAttachmentFacts, Resting DEF Typed
<1>8. HeldInv'
  BY <1>1, <1>4 DEF HeldInv
<1>9. ~ (lapse' \subseteq {"restart"}) /\ lapse' # {}
  BY <1>1
<1>10. StreamInv' /\ ViewInv'
  BY <1>1, <1>9, NoAttachmentFacts, Resting DEF StreamInv, StreamShape, ViewInv
<1> QED BY <1>5, <1>7, <1>8, <1>10 DEF ClientInv

\* A render opens, keeps or closes the attachment; closing one flushes what it holds, and
\* opening one may move the gate up to the persisted cursor.
LEMMA EffectsKeeps == ClientInv /\ Effects => ClientInv'
<1> SUFFICES ASSUME ClientInv, Effects PROVE ClientInv'
  OBVIOUS
<1> DEFINE wanted == client.status \in {"running", "stopping"}
           same == att.on /\ att.key = client.key /\ att.pi = client.pi
           closed == IF att.on /\ ~(wanted /\ same) THEN Flush(client) ELSE client
           n == client.lastSeq
           ahead == wanted /\ ~same /\ n > closed.received
           seeded == IF ahead THEN [closed EXCEPT !.received = n, !.committed = n] ELSE closed
           seen == [status |-> client.status, pi |-> client.pi]
<1>1. /\ UNCHANGED <<server, turn, load, abort, left, lapse>>
      /\ client' = [seeded EXCEPT !.seen = seen]
      /\ att' = IF ~wanted THEN NoAttachment ELSE IF same THEN att ELSE Opened(seeded)
      /\ poll' = Fresh(client)
  BY DEF Effects
<1>2. /\ client \in ClientType /\ Cursors(client) /\ n \in 0..MaxSeq
      /\ seen \in [status : Statuses, pi : BOOLEAN]
      /\ client.pending # {} => att.on
  BY Resting DEF ClientType, ClientInv, HeldInv
<1>3. /\ closed \in ClientType /\ Cursors(closed) /\ SameRest(closed, client)
      /\ closed.received = client.received
      /\ closed = client \/ closed = Flush(client)
      /\ ~(wanted /\ same) => closed.pending = {}
  BY <1>2, FlushFacts DEF SameRest
<1>4. wanted /\ same => closed = client /\ att.on
  OBVIOUS
<1>a. ahead => ~(wanted /\ same) /\ n > closed.received
  OBVIOUS
<1> HIDE DEF closed, n, seen, ahead
<1>5. /\ seeded \in ClientType /\ Cursors(seeded) /\ SameRest(seeded, client)
      /\ seeded.pending = closed.pending /\ (~ahead => seeded = closed)
  <2>1. CASE ahead
    <3>1. /\ seeded = [closed EXCEPT !.received = n, !.committed = n] /\ closed.pending = {}
          /\ n > closed.received
      BY <1>3, <1>a, <2>1
    <3>2. /\ seeded \in ClientType /\ SameRest(seeded, closed) /\ seeded.received = n
          /\ seeded.committed = n /\ seeded.pending = closed.pending
          /\ seeded.newest = closed.newest
      BY <1>2, <1>3, <3>1 DEF ClientType, SameRest
    <3>3. closed.newest \in Nat /\ closed.received \in Nat /\ n \in Nat
      BY <1>2, <1>3 DEF ClientType
    <3>4. Cursors(seeded)
      BY <1>3, <3>1, <3>2, <3>3 DEF Cursors
    <3>5. SameRest(seeded, client)
      BY <1>3, <3>2 DEF SameRest
    <3> HIDE DEF seeded
    <3> QED BY <2>1, <3>2, <3>4, <3>5
  <2>2. CASE ~ahead
    BY <1>3, <2>2
  <2> QED BY <2>1, <2>2
<1> HIDE DEF seeded
<1>6. /\ client' \in ClientType /\ SameHeld(client', seeded)
      /\ client'.accepted = client.accepted /\ client'.finished = client.finished
  BY <1>1, <1>2, <1>5 DEF ClientType, SameHeld, SameRest
<1>7. poll' \in PollType /\ PollInv'
  BY <1>1, <1>2, <1>6, FreshFacts DEF PollInv
<1>8. /\ att' \in AttType /\ att'.after <= att'.pos /\ att'.end <= MaxSeq
      /\ att'.link = "ended" /\ att'.pos < att'.end => att'.end <= Last
      /\ att'.on \/ ~(wanted /\ same)
  <2>1. /\ Opened(seeded) \in AttType /\ Opened(seeded).on /\ Opened(seeded).link = "open"
        /\ Opened(seeded).after = seeded.received /\ Opened(seeded).pos = seeded.received
        /\ Opened(seeded).end = 0
    BY <1>5, OpenedFacts
  <2>2. seeded.received \in Nat
    BY <1>5 DEF ClientType
  <2>3. CASE att' = NoAttachment /\ ~wanted
    BY <2>3, NoAttachmentFacts
  <2>4. CASE att' = att /\ same
    BY <2>4, Resting
  <2>5. CASE att' = Opened(seeded) /\ ~same
    BY <2>1, <2>2, <2>5, BoundsFacts
  <2> QED BY <1>1, <2>3, <2>4, <2>5
<1>9. Typed' /\ StreamShape'
  <2>1. Typed'
    BY <1>1, <1>6, <1>7, <1>8 DEF Typed, ClientInv
  <2>2. StreamShape'
    BY <1>1, <1>8, Resting DEF StreamShape
  <2> QED BY <2>1, <2>2
<1>10. client'.pending # {} => att'.on
  BY <1>3, <1>5, <1>6, <1>8 DEF SameHeld
<1>11. CASE ~ahead
  <2>1. seeded = closed /\ client'.received = client.received
    BY <1>3, <1>5, <1>6, <1>11 DEF SameHeld
  <2>2. SameHeld(client', client) \/ SameHeld(client', Flush(client))
    BY <1>3, <1>6, <2>1
  <2>3. Behind(att, client.received) => Behind(att', client.received)
    BY <1>1, <1>3, <1>5, <2>1, OpenedFacts, NoAttachmentFacts, Resting
  <2> HIDE DEF wanted, same
  <2> QED BY <1>1, <1>7, <1>9, <1>10, <2>2, <2>3, Carried
<1>12. CASE ahead
  <2>1. ~ (lapse \subseteq {"restart"})
    <3>1. SUFFICES ASSUME lapse \subseteq {"restart"} PROVE FALSE
      OBVIOUS
    <3>2. client.lastSeq <= client.committed
      BY <3>1 DEF ClientInv, ViewInv, Once
    <3>3. client.lastSeq > client.received
      BY <1>3, <1>a, <1>12 DEF n
    <3>4. client.lastSeq \in Nat /\ client.committed \in Nat /\ client.received \in Nat
      BY <1>2 DEF ClientType
    <3> QED BY <1>2, <3>2, <3>3, <3>4 DEF Cursors
  <2>2. lapse # {}
    BY <2>1
  <2>3. Cursors(client')
    BY <1>5, <1>6, Resting DEF SameHeld, Cursors
  <2>4. ViewInv' /\ StreamInv'
    BY <1>1, <1>9, <2>1, <2>2 DEF ViewInv, StreamInv
  <2> QED BY <1>7, <1>9, <1>10, <2>3, <2>4 DEF ClientInv, HeldInv
<1> QED BY <1>11, <1>12

---------------------------------------------------------------------------
(* The invariant                                                           *)

\* A page on which nothing has happened
LEMMA InitHolds == Init => ClientInv
<1> SUFFICES ASSUME Init PROVE ClientInv
  OBVIOUS
<1> DEFINE n == 0
           p == FALSE
<1>1. n \in 0..MaxSeq /\ p \in BOOLEAN /\ n = 0
  BY BoundsFacts
<1>2. client = Mounted(p, n)
  BY DEF Init
<1> HIDE DEF n, p
<1>3. /\ client \in ClientType /\ Cursors(client) /\ client.pending = {} /\ client.received = 0
      /\ ~client.accepted /\ ~client.finished /\ client.lastSeq = 0 /\ client.committed = 0
      /\ \A e \in Events : Weight(client, e) = 0
  BY <1>1, <1>2, MountedFacts
<1>4. server \in ServerType /\ Last = 0
  <2>1. <<>> \in Seq(Kinds \cup {"settled"}) /\ Len(<<>>) = 0
    OBVIOUS
  <2> QED BY <2>1, BoundsFacts DEF Init, ServerType
<1>5. poll \in PollType /\ PollInv
  BY <1>3, FreshFacts DEF Init, PollInv
<1>6. turn \in [Chats -> TurnType] /\ load \in LoadType
  <2>1. NoTurn \in TurnType /\ NoLoad \in LoadType
    BY BoundsFacts DEF NoTurn, TurnType, NoLoad, LoadType
  <2> QED BY <2>1 DEF Init, Chats
<1>7. Typed
  BY <1>3, <1>4, <1>5, <1>6, NoAttachmentFacts, BudgetsAssumption DEF Init, Typed
<1>8. HeldInv /\ StreamInv
  <2>1. att = NoAttachment
    BY DEF Init
  <2>2. StreamShape
    BY <1>4, <2>1, NoAttachmentFacts, BoundsFacts DEF StreamShape
  <2>3. Behind(att, client.received)
    BY <2>1, NoAttachmentFacts DEF Behind
  <2> QED BY <1>3, <2>2, <2>3 DEF HeldInv, StreamInv
<1>9. ViewInv
  <2>1. Whole(client, server.life)
    BY <1>3 DEF Whole, Seqs
  <2>2. Once(client, server.life)
    BY <1>3 DEF Once
  <2> QED BY <2>1, <2>2 DEF ViewInv
<1> QED BY <1>5, <1>7, <1>8, <1>9 DEF ClientInv

\* Every step of the server, the stream, the binding and the requests
LEMMA NextKeeps == ClientInv /\ [Next]_vars => ClientInv'
<1> SUFFICES ASSUME ClientInv, [Next]_vars PROVE ClientInv'
  OBVIOUS
<1>1. CASE Server
  BY <1>1, ServerKeeps, RestartKeeps
<1>2. CASE Stream
  BY <1>2, ReceiveEventKeeps, ReceiveBeatKeeps, EndStreamKeeps, ReceiveTerminalKeeps,
     StreamBreaksKeeps, NativeRetryKeeps, WatchdogKeeps, ProbeReadKeeps, ProbeApplyKeeps,
     ReconnectTimerKeeps, FrameKeeps DEF Stream
<1>3. CASE Binding
  BY <1>3, EffectsKeeps, PollStartKeeps, PollReadKeeps, PollApplyKeeps, PromoteKeeps,
     GraceEndsKeeps DEF Binding
<1>4. CASE Requests
  <2>1. ASSUME NEW k \in Chats, TakeTurn(k) \/ AnswerTurn(k) PROVE ClientInv'
    BY <2>1, TakeTurnKeeps, AnswerTurnKeeps
  <2> QED BY <1>4, <2>1, SendPromptKeeps, SendSteerKeeps, ProbeFailedPromptKeeps,
             SettleFailedPromptKeeps, DropFailedSteerKeeps, AbortKeeps, TakeAbortKeeps,
             AnswerAbortKeeps, StartLoadKeeps, ReadsKeep, FinishLoadKeeps, ReloadKeeps
          DEF Requests, Chats
<1>5. CASE UNCHANGED vars
  <2>1. Last' = Last
    BY <1>5 DEF vars
  <2> QED BY <1>5, Resting, LogKept DEF vars
<1> QED BY <1>1, <1>2, <1>3, <1>4, <1>5 DEF Next

\* Whatever the server, the network and the user do, in whatever order.
THEOREM ClientHolds == Spec => []ClientInv
BY InitHolds, NextKeeps, PTL DEF Spec

\* The types of all variables, without the bounds a checker needs.
THEOREM TypeHolds == Spec => []TypeOK
<1>1. ClientInv => TypeOK
  BY DEF ClientInv, Typed, TypeOK, ServerType, ClientType, AttType, PollType, TurnType,
         LoadType, Chats
<1> QED BY <1>1, ClientHolds, PTL

\* No flush moves a cursor back and no closed attachment leaves a delta behind
\* (effect-coalescer.ts, close of session-runtime-controller.ts).
THEOREM HeldHolds == Spec => []HeldIsUncommitted
<1>1. ClientInv => HeldIsUncommitted
  BY DEF ClientInv, HeldInv, Cursors, HeldIsUncommitted
<1> QED BY <1>1, ClientHolds, PTL

\* Until something the code does not promise to survive has happened, no event is applied
\* twice (applyPiPayload, noteTurnAccepted).
THEOREM OnceHolds == Spec => []NothingTwice
<1>1. ClientInv => NothingTwice
  BY DEF ClientInv, ViewInv, Once, Weight, NothingTwice
<1> QED BY <1>1, ClientHolds, PTL

\* Nor is one lost between the gate and the transcript (flushNow, discard, adoptCursor).
THEOREM WholeHolds == Spec => []NothingMissing
<1>1. ClientInv => NothingMissing
  <2> SUFFICES ASSUME ClientInv, lapse = {}, NEW q \in 1..client.received,
                      <<server.life, q>> \notin client.pending
               PROVE  client.shown[<<server.life, q>>] > 0
    BY DEF NothingMissing
  <2>1. client.received \in 0..MaxSeq
    BY Resting DEF ClientType
  <2>2. q \in Seqs /\ q <= client.received
    BY <2>1, BoundsFacts DEF Seqs
  <2>3. Weight(client, <<server.life, q>>) = 1
    BY <2>2 DEF ClientInv, ViewInv, Whole
  <2>4. client.shown[<<server.life, q>>] = 1
    <3>1. <<server.life, q>> \in Events
      BY <2>2, Resting DEF Events, ServerType
    <3>2. client.shown[<<server.life, q>>] \in 0..2
      BY <3>1, Resting DEF ClientType
    <3> QED BY <2>3, <3>2 DEF Weight
  <2> QED BY <2>4
<1> QED BY <1>1, ClientHolds, PTL

\* The cursor that is persisted lands with the content it counts (stampSeq).
THEOREM PersistedHolds == Spec => []PersistedIsShown
<1>1. ClientInv => PersistedIsShown
  <2> SUFFICES ASSUME ClientInv, lapse = {}, NEW q \in 1..client.lastSeq
               PROVE  client.shown[<<server.life, q>>] > 0
    BY DEF PersistedIsShown
  <2>1. client.lastSeq \in 0..MaxSeq /\ client.committed \in 0..MaxSeq
        /\ client.received \in 0..MaxSeq
    BY Resting DEF ClientType
  <2>2. client.lastSeq <= client.committed /\ client.committed <= client.received
    BY DEF ClientInv, ViewInv, Once, HeldInv, Cursors
  <2>3. q \in Seqs /\ q <= client.received /\ q <= client.committed
    BY <2>1, <2>2, BoundsFacts DEF Seqs
  <2>4. <<server.life, q>> \notin client.pending
    BY <2>1, <2>3 DEF ClientInv, HeldInv, Cursors, Seqs
  <2>5. Weight(client, <<server.life, q>>) = 1
    BY <2>3 DEF ClientInv, ViewInv, Whole
  <2>6. client.shown[<<server.life, q>>] = 1
    <3>1. <<server.life, q>> \in Events
      BY <2>3, Resting DEF Events, ServerType
    <3>2. client.shown[<<server.life, q>>] \in 0..2
      BY <3>1, Resting DEF ClientType
    <3> QED BY <2>4, <2>5, <3>2 DEF Weight
  <2> QED BY <2>6
<1> QED BY <1>1, ClientHolds, PTL

\* A list fetched before a turn was accepted or settled never undoes it
\* (idleFromRuntimeList, withinFinishGrace): the grace it must respect came before it.
THEOREM StaleListHolds == Spec => NoStaleList
<1>1. ClientInv /\ [Next]_vars =>
        [PollApply => /\ client.accepted /\ client.status = "running" => client'.status = "running"
                      /\ client.finished /\ client.status = "idle" => client'.status = "idle"]_vars
  <2> SUFFICES ASSUME ClientInv, PollApply
               PROVE  /\ client.accepted /\ client.status = "running" => client'.status = "running"
                      /\ client.finished /\ client.status = "idle" => client'.status = "idle"
    OBVIOUS
  <2>1. client \in ClientType /\ (client.accepted => ~poll.mayIdle)
        /\ (client.finished => ~poll.mayPromote)
    BY Resting DEF ClientInv, PollInv
  <2>2. ASSUME client.accepted, client.status = "running" PROVE client'.status = "running"
    <3>1. CASE client' = client
      BY <2>2, <3>1
    <3>2. CASE client' = Busy(client)
      BY <2>1, <2>2, <3>2 DEF Busy, ClientType
    <3>3. CASE client' = Busy([Adopt(client, 0) EXCEPT !.key = poll.key])
      BY <2>1, <2>2, <3>3 DEF Busy, Adopt, Discard, ClientType
    <3> QED BY <2>1, <2>2, <3>1, <3>2, <3>3 DEF PollApply, Promote
  <2>3. ASSUME client.finished, client.status = "idle" PROVE client'.status = "idle"
    BY <2>1, <2>3 DEF PollApply, IdleFromList
  <2> QED BY <2>2, <2>3
<1> QED BY <1>1, ClientHolds, PTL DEF Spec, NoStaleList
=============================================================================
