----------------------- MODULE TranscriptReplyProofs ------------------------
(***************************************************************************)
(* What is proved of Transcript about replies and the markers of steers:   *)
(* a message is shown once, and a reply stands below what it answers.      *)
(***************************************************************************)
EXTENDS TranscriptProofs

\* ---- Whom a reply on the stream answers ----

EchoAt(w, k) == w[k].k \in {"start", "end"}
\* What comes at k of a stream answers t, by the last echo before it; or there is no echo.
Follows(w, k, t) == \E m \in 1..(k - 1) : /\ EchoAt(w, m) /\ w[m].t = t
                                          /\ \A n \in (m + 1)..(k - 1) : ~EchoAt(w, n)
Quiet(w, k) == \A m \in 1..(k - 1) : ~EchoAt(w, m)
\* The two events of an echo come together.
Adjacent(w) == \A k \in DOMAIN w :
    /\ w[k].k = "start" => k + 1 \in DOMAIN w /\ w[k + 1].k = "end" /\ w[k + 1].t = w[k].t
    /\ w[k].k = "end" /\ k > 1 => w[k - 1].k = "start"
\* What pi tells while it speaks to a, and then to b
Talks(s, a, b) ==
    /\ \A k \in DOMAIN s : s[k].k = "reply" => Quiet(s, k) /\ s[k].t = a
    /\ (Quiet(s, Len(s) + 1) /\ b = a) \/ Follows(s, Len(s) + 1, b)

LEMMA TailFollows ==
    ASSUME NEW S, NEW w \in Seq(S), w # <<>>, NEW k \in 1..Len(w), NEW t
    PROVE  /\ Follows(w, k + 1, t) => \/ Follows(Tail(w), k, t)
                                      \/ EchoAt(w, 1) /\ w[1].t = t /\ Quiet(Tail(w), k)
           /\ Quiet(w, k + 1) => ~EchoAt(w, 1) /\ Quiet(Tail(w), k)
<1>1. /\ Len(w) \in Nat \ {0} /\ k \in Nat \ {0} /\ (k + 1) - 1 = k
      /\ \A m \in 1..(k - 1) : Tail(w)[m] = w[m + 1] /\ m + 1 \in 1..k
  OBVIOUS
<1>2. ASSUME Quiet(w, k + 1) PROVE ~EchoAt(w, 1) /\ Quiet(Tail(w), k)
  BY <1>1, <1>2 DEF Quiet, EchoAt
<1>3. ASSUME Follows(w, k + 1, t)
      PROVE  \/ Follows(Tail(w), k, t)
             \/ EchoAt(w, 1) /\ w[1].t = t /\ Quiet(Tail(w), k)
  <2>1. PICK m \in 1..k : /\ EchoAt(w, m) /\ w[m].t = t
                          /\ \A n \in (m + 1)..k : ~EchoAt(w, n)
    BY <1>1, <1>3 DEF Follows
  <2>2. CASE m = 1
    <3>1. \A n \in 1..(k - 1) : n + 1 \in (m + 1)..k
      BY <1>1, <2>2
    <3>2. Quiet(Tail(w), k)
      BY <1>1, <2>1, <3>1 DEF Quiet, EchoAt
    <3> QED BY <2>1, <2>2, <3>2
  <2>3. CASE m # 1
    <3>1. m - 1 \in 1..(k - 1) /\ (m - 1) + 1 = m
      BY <1>1, <2>3
    <3>2. Tail(w)[m - 1] = w[m]
      BY <1>1, <3>1
    <3>3. \A n \in ((m - 1) + 1)..(k - 1) : n \in 1..(k - 1) /\ n + 1 \in (m + 1)..k
      BY <1>1, <3>1
    <3>4. EchoAt(Tail(w), m - 1) /\ Tail(w)[m - 1].t = t
          /\ \A n \in ((m - 1) + 1)..(k - 1) : ~EchoAt(Tail(w), n)
      BY <1>1, <2>1, <3>2, <3>3 DEF EchoAt
    <3> QED BY <3>1, <3>4 DEF Follows
  <2> QED BY <2>2, <2>3
<1> QED BY <1>2, <1>3

LEMMA MoreFollows ==
    ASSUME NEW S, NEW v \in Seq(S), NEW s \in Seq(S), NEW t
    PROVE  /\ \A k \in 1..(Len(v) + 1) : /\ Follows(v, k, t) => Follows(v \o s, k, t)
                                         /\ Quiet(v, k) => Quiet(v \o s, k)
           /\ \A k \in 1..(Len(s) + 1) :
                 /\ Follows(s, k, t) => Follows(v \o s, Len(v) + k, t)
                 /\ Quiet(s, k) /\ Follows(v, Len(v) + 1, t) => Follows(v \o s, Len(v) + k, t)
                 /\ Quiet(s, k) /\ Quiet(v, Len(v) + 1) => Quiet(v \o s, Len(v) + k)
<1> DEFINE w == v \o s
           l == Len(v)
<1>1. /\ l \in Nat /\ Len(s) \in Nat /\ DOMAIN v = 1..l /\ DOMAIN s = 1..Len(s)
      /\ \A i \in 1..l : w[i] = v[i]
      /\ \A i \in 1..Len(s) : w[l + i] = s[i]
  BY ConcatParts
<1> HIDE DEF w, l
<1>2. ASSUME NEW k \in 1..(l + 1)
      PROVE  /\ Follows(v, k, t) => Follows(w, k, t)
             /\ Quiet(v, k) => Quiet(w, k)
  <2>1. \A m \in 1..(k - 1) : m \in 1..l
    BY <1>1
  <2>2. \A m \in 1..(k - 1) : \A n \in (m + 1)..(k - 1) : n \in 1..l
    BY <1>1
  <2> QED BY <1>1, <2>1, <2>2 DEF Follows, Quiet, EchoAt
<1>3. ASSUME NEW k \in 1..(Len(s) + 1)
      PROVE  /\ Follows(s, k, t) => Follows(w, l + k, t)
             /\ Quiet(s, k) /\ Follows(v, l + 1, t) => Follows(w, l + k, t)
             /\ Quiet(s, k) /\ Quiet(v, l + 1) => Quiet(w, l + k)
  <2>1. \A n \in 1..((l + k) - 1) :
            \/ n \in 1..l /\ w[n] = v[n]
            \/ n - l \in 1..(k - 1) /\ n > l /\ w[n] = s[n - l]
    <3> SUFFICES ASSUME NEW n \in 1..((l + k) - 1), n \notin 1..l
                 PROVE  n - l \in 1..(k - 1) /\ n > l /\ w[n] = s[n - l]
      BY <1>1
    <3>1. n - l \in 1..(k - 1) /\ n > l /\ n - l \in 1..Len(s) /\ l + (n - l) = n
      BY <1>1
    <3> QED BY <1>1, <3>1
  <2>2. ASSUME Follows(s, k, t) PROVE Follows(w, l + k, t)
    <3>1. PICK m \in 1..(k - 1) : /\ EchoAt(s, m) /\ s[m].t = t
                                  /\ \A n \in (m + 1)..(k - 1) : ~EchoAt(s, n)
      BY <2>2 DEF Follows
    <3>2. l + m \in 1..((l + k) - 1) /\ w[l + m] = s[m]
      BY <1>1
    <3>3. ASSUME NEW n \in ((l + m) + 1)..((l + k) - 1) PROVE ~EchoAt(w, n)
      <4>1. n \in 1..((l + k) - 1) /\ n \notin 1..l /\ n - l \in (m + 1)..(k - 1)
        BY <1>1
      <4>2. w[n] = s[n - l]
        BY <2>1, <4>1
      <4> QED BY <3>1, <4>1, <4>2 DEF EchoAt
    <3> QED BY <3>1, <3>2, <3>3 DEF Follows, EchoAt
  <2>3. ASSUME Quiet(s, k), Follows(v, l + 1, t) PROVE Follows(w, l + k, t)
    <3>1. PICK m \in 1..l : /\ EchoAt(v, m) /\ v[m].t = t
                            /\ \A n \in (m + 1)..l : ~EchoAt(v, n)
      BY <1>1, <2>3 DEF Follows
    <3>2. m \in 1..((l + k) - 1) /\ w[m] = v[m]
      BY <1>1
    <3>3. ASSUME NEW n \in (m + 1)..((l + k) - 1) PROVE ~EchoAt(w, n)
      <4>1. n \in 1..((l + k) - 1)
        BY <1>1
      <4>2. CASE n \in 1..l
        <5>1. n \in (m + 1)..l
          BY <1>1, <4>2
        <5> QED BY <1>1, <3>1, <4>2, <5>1 DEF EchoAt
      <4>3. CASE n \notin 1..l
        BY <2>1, <2>3, <4>1, <4>3 DEF Quiet, EchoAt
      <4> QED BY <4>2, <4>3
    <3> QED BY <3>1, <3>2, <3>3 DEF Follows, EchoAt
  <2>4. ASSUME Quiet(s, k), Quiet(v, l + 1) PROVE Quiet(w, l + k)
    <3>1. \A m \in 1..l : ~EchoAt(v, m)
      BY <1>1, <2>4 DEF Quiet
    <3> QED BY <2>1, <2>4, <3>1 DEF Quiet, EchoAt
  <2> QED BY <2>2, <2>3, <2>4
<1> QED BY <1>2, <1>3 DEF w, l

LEMMA AdjacentRest ==
    ASSUME NEW S, NEW w \in Seq(S), w # <<>>, Adjacent(w)
    PROVE  /\ Adjacent(Tail(w))
           /\ Tail(w) # <<>> /\ Tail(w)[1].k = "end" => w[1].k = "start" /\ w[1].t = Tail(w)[1].t
           /\ w[1].k = "start" => Tail(w) # <<>> /\ Tail(w)[1].k = "end"
<1>1. /\ Len(w) \in Nat \ {0} /\ DOMAIN w = 1..Len(w) /\ DOMAIN Tail(w) = 1..(Len(w) - 1)
      /\ \A m \in 1..(Len(w) - 1) : Tail(w)[m] = w[m + 1]
      /\ Tail(w) # <<>> <=> Len(w) > 1
  <2>1. /\ Len(w) \in Nat \ {0} /\ DOMAIN w = 1..Len(w) /\ DOMAIN Tail(w) = 1..(Len(w) - 1)
        /\ \A m \in 1..(Len(w) - 1) : Tail(w)[m] = w[m + 1]
        /\ Tail(w) \in Seq(S) /\ Len(Tail(w)) = Len(w) - 1
    OBVIOUS
  <2>2. Tail(w) = <<>> <=> Len(Tail(w)) = 0
    BY <2>1, EmptySeq
  <2> QED BY <2>1, <2>2
<1>2. ASSUME NEW k \in DOMAIN Tail(w)
      PROVE  /\ Tail(w)[k].k = "start" => /\ k + 1 \in DOMAIN Tail(w) /\ Tail(w)[k + 1].k = "end"
                                          /\ Tail(w)[k + 1].t = Tail(w)[k].t
             /\ Tail(w)[k].k = "end" /\ k > 1 => Tail(w)[k - 1].k = "start"
  <2>1. k + 1 \in DOMAIN w /\ Tail(w)[k] = w[k + 1]
    BY <1>1
  <2>2. ASSUME Tail(w)[k].k = "start"
        PROVE  /\ k + 1 \in DOMAIN Tail(w) /\ Tail(w)[k + 1].k = "end"
               /\ Tail(w)[k + 1].t = Tail(w)[k].t
    <3>1. (k + 1) + 1 \in DOMAIN w /\ w[(k + 1) + 1].k = "end" /\ w[(k + 1) + 1].t = w[k + 1].t
      BY <2>1, <2>2 DEF Adjacent
    <3>2. k + 1 \in 1..(Len(w) - 1)
      BY <1>1, <3>1
    <3> QED BY <1>1, <2>1, <3>1, <3>2
  <2>3. ASSUME Tail(w)[k].k = "end", k > 1 PROVE Tail(w)[k - 1].k = "start"
    <3>1. w[(k + 1) - 1].k = "start"
      BY <1>1, <2>1, <2>3 DEF Adjacent
    <3>2. k - 1 \in 1..(Len(w) - 1) /\ (k - 1) + 1 = (k + 1) - 1
      BY <1>1, <2>3
    <3>3. Tail(w)[k - 1] = w[(k + 1) - 1]
      BY <1>1, <3>2
    <3> QED BY <3>1, <3>3
  <2> QED BY <2>2, <2>3
<1>3. Adjacent(Tail(w))
  BY <1>2 DEF Adjacent
<1>4. ASSUME Tail(w) # <<>>, Tail(w)[1].k = "end"
      PROVE  w[1].k = "start" /\ w[1].t = Tail(w)[1].t
  <2>1. 2 \in DOMAIN w /\ 1 \in DOMAIN w /\ Tail(w)[1] = w[2]
    BY <1>1, <1>4
  <2>2. w[2 - 1].k = "start"
    BY <1>4, <2>1 DEF Adjacent
  <2>3. w[1].k = "start"
    BY <2>2
  <2>4. w[1 + 1].t = w[1].t
    BY <2>1, <2>3 DEF Adjacent
  <2> QED BY <2>1, <2>3, <2>4
<1>5. ASSUME w[1].k = "start" PROVE Tail(w) # <<>> /\ Tail(w)[1].k = "end"
  <2>1. 1 + 1 \in DOMAIN w /\ w[1 + 1].k = "end"
    BY <1>1, <1>5 DEF Adjacent
  <2> QED BY <1>1, <2>1
<1> QED BY <1>3, <1>4, <1>5

LEMMA AdjacentMore ==
    ASSUME NEW S, NEW v \in Seq(S), NEW s \in Seq(S), Adjacent(v), Adjacent(s),
           s # <<>> => s[1].k # "end"
    PROVE  Adjacent(v \o s)
<1> DEFINE w == v \o s
           l == Len(v)
<1>1. /\ l \in Nat /\ Len(s) \in Nat /\ DOMAIN v = 1..l /\ DOMAIN s = 1..Len(s)
      /\ DOMAIN w = 1..(l + Len(s))
      /\ \A i \in 1..l : w[i] = v[i]
      /\ \A i \in 1..Len(s) : w[l + i] = s[i]
      /\ Len(s) > 0 => s # <<>>
  BY ConcatParts
<1> HIDE DEF w, l
<1>2. ASSUME NEW k \in DOMAIN w
      PROVE  /\ w[k].k = "start" => /\ k + 1 \in DOMAIN w /\ w[k + 1].k = "end"
                                    /\ w[k + 1].t = w[k].t
             /\ w[k].k = "end" /\ k > 1 => w[k - 1].k = "start"
  <2>1. CASE k \in 1..l
    <3>1. ASSUME w[k].k = "start"
          PROVE  k + 1 \in DOMAIN w /\ w[k + 1].k = "end" /\ w[k + 1].t = w[k].t
      <4>1. k + 1 \in 1..l /\ v[k + 1].k = "end" /\ v[k + 1].t = v[k].t
        BY <1>1, <2>1, <3>1 DEF Adjacent
      <4> QED BY <1>1, <2>1, <4>1
    <3>2. ASSUME w[k].k = "end", k > 1 PROVE w[k - 1].k = "start"
      <4>1. v[k - 1].k = "start" /\ k - 1 \in 1..l
        BY <1>1, <2>1, <3>2 DEF Adjacent
      <4> QED BY <1>1, <4>1
    <3> QED BY <3>1, <3>2
  <2>2. CASE k \notin 1..l
    <3> DEFINE i == k - l
    <3>1. i \in 1..Len(s) /\ k = l + i
      BY <1>1, <2>2
    <3> HIDE DEF i
    <3>2. w[k] = s[i]
      BY <1>1, <3>1
    <3>3. ASSUME w[k].k = "start"
          PROVE  k + 1 \in DOMAIN w /\ w[k + 1].k = "end" /\ w[k + 1].t = w[k].t
      <4>1. i + 1 \in 1..Len(s) /\ s[i + 1].k = "end" /\ s[i + 1].t = s[i].t
        <5>1. i \in DOMAIN s /\ s[i].k = "start"
          BY <1>1, <3>1, <3>2, <3>3
        <5> QED BY <1>1, <5>1 DEF Adjacent
      <4>2. k + 1 = l + (i + 1)
        BY <1>1, <3>1
      <4>3. w[k + 1] = s[i + 1] /\ k + 1 \in DOMAIN w
        BY <1>1, <4>1, <4>2
      <4> QED BY <3>2, <4>1, <4>3
    <3>4. ASSUME w[k].k = "end", k > 1 PROVE w[k - 1].k = "start"
      <4>1. i # 1
        BY <1>1, <3>1, <3>2, <3>4
      <4>2. s[i - 1].k = "start" /\ i - 1 \in 1..Len(s) /\ k - 1 = l + (i - 1)
        <5>1. i \in DOMAIN s /\ s[i].k = "end" /\ i > 1
          BY <1>1, <3>1, <3>2, <3>4, <4>1
        <5>2. s[i - 1].k = "start"
          BY <5>1 DEF Adjacent
        <5> QED BY <1>1, <3>1, <5>1, <5>2
      <4>3. w[k - 1] = s[i - 1]
        BY <1>1, <4>2
      <4> QED BY <4>2, <4>3
    <3> QED BY <3>3, <3>4
  <2> QED BY <2>1, <2>2
<1> QED BY <1>2 DEF Adjacent, w

\* What pi tells in one step
LEMMA EventTalks ==
    ASSUME NEW e, e.k \notin {"start", "end"}, NEW a, e.k = "reply" => e.t = a
    PROVE  Adjacent(<<e>>) /\ <<e>>[1].k # "end" /\ Talks(<<e>>, a, a)
<1>1. DOMAIN <<e>> = {1} /\ Len(<<e>>) = 1 /\ <<e>>[1] = e
  OBVIOUS
<1>2. Quiet(<<e>>, 1) /\ Quiet(<<e>>, Len(<<e>>) + 1)
  BY <1>1 DEF Quiet, EchoAt
<1> QED BY <1>1, <1>2 DEF Adjacent, Talks

LEMMA NothingTalks ==
    ASSUME NEW a
    PROVE  Adjacent(<<>>) /\ Talks(<<>>, a, a)
  BY DEF Adjacent, Talks, Quiet

LEMMA EchoTalks ==
    ASSUME NEW a, NEW t
    PROVE  /\ Adjacent(Echo(t)) /\ Talks(Echo(t), a, t)
           /\ Echo(t)[1].k = "start" /\ \A k \in DOMAIN Echo(t) : Echo(t)[k].k \in {"start", "end"}
<1>1. /\ DOMAIN Echo(t) = {1, 2} /\ Len(Echo(t)) = 2 /\ 2 \in 1..((2 + 1) - 1)
      /\ Echo(t)[1].k = "start" /\ Echo(t)[1].t = t /\ Echo(t)[2].k = "end" /\ Echo(t)[2].t = t
  BY DEF Echo, Event
<1>2. Adjacent(Echo(t))
  BY <1>1 DEF Adjacent
<1>3. Follows(Echo(t), Len(Echo(t)) + 1, t)
  <2>1. \A n \in (2 + 1)..((2 + 1) - 1) : FALSE
    OBVIOUS
  <2> QED BY <1>1, <2>1 DEF Follows, EchoAt
<1> QED BY <1>1, <1>2, <1>3 DEF Talks

LEMMA ThenTalks ==
    ASSUME NEW S, NEW v \in Seq(S), NEW s \in Seq(S), NEW a, NEW b,
           Talks(v, a, a), Quiet(v, Len(v) + 1), Talks(s, a, b)
    PROVE  Talks(v \o s, a, b)
<1>1. /\ Len(v) \in Nat /\ Len(s) \in Nat /\ DOMAIN v = 1..Len(v) /\ DOMAIN s = 1..Len(s)
      /\ DOMAIN (v \o s) = 1..(Len(v) + Len(s)) /\ Len(v \o s) = Len(v) + Len(s)
      /\ \A i \in DOMAIN v : (v \o s)[i] = v[i]
      /\ \A i \in DOMAIN s : (v \o s)[Len(v) + i] = s[i]
  BY ConcatParts
<1>2. ASSUME NEW k \in DOMAIN (v \o s), (v \o s)[k].k = "reply"
      PROVE  Quiet(v \o s, k) /\ (v \o s)[k].t = a
  <2>1. CASE k \in DOMAIN v
    <3>1. Quiet(v, k) /\ v[k].t = a /\ k \in 1..(Len(v) + 1)
      BY <1>1, <1>2, <2>1 DEF Talks
    <3> QED BY <1>1, <2>1, <3>1, MoreFollows
  <2>2. CASE k \notin DOMAIN v
    <3>1. k - Len(v) \in DOMAIN s /\ k = Len(v) + (k - Len(v))
      BY <1>1, <2>2
    <3>2. (v \o s)[k] = s[k - Len(v)]
      BY <1>1, <3>1
    <3>3. Quiet(s, k - Len(v)) /\ s[k - Len(v)].t = a
      BY <1>2, <3>1, <3>2 DEF Talks
    <3>4. k - Len(v) \in 1..(Len(s) + 1)
      BY <1>1, <3>1
    <3>5. Quiet(v \o s, Len(v) + (k - Len(v)))
      BY <3>3, <3>4, MoreFollows
    <3> QED BY <3>1, <3>2, <3>3, <3>5
  <2> QED BY <2>1, <2>2
<1>3. Len(s) + 1 \in 1..(Len(s) + 1) /\ Len(v \o s) + 1 = Len(v) + (Len(s) + 1)
  BY <1>1
<1>4. \/ Quiet(v \o s, Len(v \o s) + 1) /\ b = a
      \/ Follows(v \o s, Len(v \o s) + 1, b)
  BY <1>3, MoreFollows DEF Talks
<1> QED BY <1>2, <1>4 DEF Talks

-----------------------------------------------------------------------------
\* ---- The bubble a reply is written into ----

\* The messages that wait for no echo, and the one a reply is to: the last of them
Plain(c) == {j \in Users(c.msgs) : ~c.msgs[j].awaiting}
Faces(c, t) == \E j \in Plain(c) : c.msgs[j].text = t /\ \A i \in Plain(c) : i <= j
Top(c, b) == b \in Bubbles(c.msgs) /\ \A i \in Bubbles(c.msgs) : i <= b

\* The last bubble is below the messages the model has read and has only replies to the last.
Opened(c) == \E b : /\ Top(c, b) /\ \A j \in Plain(c) : j < b
                    /\ \A t \in c.msgs[b].got : Faces(c, t)

\* The live bubble and the live target are the last bubble, when they are there.
Live(c) == /\ c.pin < c.next /\ c.active < c.next
           /\ c.pin \in DOMAIN c.msgs => Top(c, c.pin)
           /\ c.active \in DOMAIN c.msgs => Top(c, c.active)

\* Every bubble has replies to one message the model was shown, which is above it.
Answered(c, echoed) == \A i \in DOMAIN c.msgs : \A t \in c.msgs[i].got :
    /\ c.msgs[i].got = {t} /\ t \in echoed
    /\ \E j \in Plain(c) : j < i /\ c.msgs[j].text = t

\* A bubble is opened as b.
Opens(c, d, b) ==
    /\ d.active = b /\ d.pin = b /\ d.next = b + 1
    /\ Bubbles(d.msgs) = Bubbles(c.msgs) \cup {b} /\ d.msgs[b].got = {}

\* The message w is brightened, and a bubble opened.
Turns(c, d, w) ==
    /\ Opens(c, d, c.next) /\ DOMAIN d.msgs = DOMAIN c.msgs \cup {c.next}
    /\ ~d.msgs[w].awaiting /\ ~d.msgs[w].pending
    /\ \A i \in DOMAIN c.msgs : /\ d.msgs[i].got = c.msgs[i].got
                                /\ i # w => d.msgs[i] = c.msgs[i]

\* The message t is shown, and a bubble opened.
AddsUser(c, d, t) ==
    /\ Opens(c, d, c.next + 1)
    /\ DOMAIN d.msgs = DOMAIN c.msgs \cup {c.next, c.next + 1}
    /\ d.msgs[c.next] = User(t, FALSE)
    /\ \A i \in DOMAIN c.msgs : d.msgs[i] = c.msgs[i]

LEMMA EchoOpens ==
    ASSUME NEW c, Whole(c), NEW t \in Texts, NEW d, d = EchoUser(c, t)
    PROVE  /\ Awaited(c.msgs, t) # {} =>
                 \E w \in Awaited(c.msgs, t) :
                     (\A i \in Awaited(c.msgs, t) : i <= w) /\ Turns(c, d, w)
           /\ Awaited(c.msgs, t) = {} /\ MatchesLast(c.msgs, t) =>
                 /\ d.msgs = c.msgs
                 /\ d.active = c.active /\ d.pin = c.pin /\ d.next = c.next
           /\ Unmatched(c, t) => AddsUser(c, d, t)
<1> DEFINE q == [c EXCEPT !.queue = Delivered(@, t)]
           waiting == Awaited(c.msgs, t)
<1>1. Is(q, c.status, c.msgs, c.active, c.pin, Delivered(c.queue, t), c.next) /\ Grows(c, q)
  BY DequeuedIs
<1>2. /\ Whole(q) /\ q.msgs = c.msgs /\ q.next = c.next
      /\ q.active = c.active /\ q.pin = c.pin
  BY <1>1 DEF Grows, Is
<1>3. /\ waiting # {} => d = PinActive(OpenBubble(Brighten(q, Latest(waiting))))
      /\ waiting = {} /\ MatchesLast(c.msgs, t) => d = q
      /\ waiting = {} /\ ~MatchesLast(c.msgs, t) => d = PinActive(OpenBubble(Say(q, t, FALSE)))
  BY DEF EchoUser
<1> HIDE DEF q
<1>4. /\ DOMAIN c.msgs \subseteq Nat \ {0} /\ c.next \in Nat
      /\ \A i \in DOMAIN c.msgs : c.msgs[i] \in Messages /\ i < c.next
      /\ Users(c.msgs) \subseteq DOMAIN c.msgs
  BY WholeParts
<1>5. CASE waiting # {}
  <2> DEFINE w == Latest(waiting)
  <2>1. waiting \in SUBSET Nat /\ \A i \in waiting : i < c.next /\ i \in DOMAIN c.msgs
    BY <1>4 DEF Awaited
  <2>2. w \in waiting /\ \A i \in waiting : i <= w
    BY <1>4, <1>5, <2>1, LatestIs
  <2>3. w \in DOMAIN q.msgs
    BY <1>2, <2>1, <2>2
  <2> DEFINE b == Brighten(q, w)
  <2>4. d = PinActive(OpenBubble(b)) /\ b = Brighten(q, w)
    BY <1>3, <1>5
  <2> HIDE DEF w, b
  <2>5. /\ Is(b, q.status, b.msgs, q.active, q.pin, q.queue, q.next)
        /\ Grows(q, b) /\ DOMAIN b.msgs = DOMAIN q.msgs
        /\ ~b.msgs[w].awaiting /\ ~b.msgs[w].pending
        /\ \A i \in DOMAIN q.msgs : /\ b.msgs[i].got = q.msgs[i].got
                                    /\ i # w => b.msgs[i] = q.msgs[i]
        /\ Bubbles(b.msgs) = Bubbles(q.msgs)
    <3>1. Whole(q) /\ w \in DOMAIN q.msgs /\ b = Brighten(q, w)
      BY <1>2, <2>3, <2>4
    <3> QED BY <3>1, BrightenIs
  <2>6. Whole(b) /\ b.next = c.next
    BY <1>2, <2>5 DEF Grows, Is
  <2>7. /\ d.active = b.next /\ d.pin = b.next /\ d.next = b.next + 1
        /\ DOMAIN d.msgs = DOMAIN b.msgs \cup {b.next} /\ d.msgs[b.next] = Bubble
        /\ \A i \in DOMAIN b.msgs : d.msgs[i] = b.msgs[i]
        /\ Bubbles(d.msgs) = Bubbles(b.msgs) \cup {b.next}
    BY <2>4, <2>6, OpenedIs
  <2>8. Opens(c, d, c.next)
    BY <1>2, <2>5, <2>6, <2>7 DEF Opens, Bubble
  <2>9. /\ DOMAIN d.msgs = DOMAIN c.msgs \cup {c.next}
        /\ ~d.msgs[w].awaiting /\ ~d.msgs[w].pending
        /\ \A i \in DOMAIN c.msgs : /\ d.msgs[i].got = c.msgs[i].got
                                    /\ i # w => d.msgs[i] = c.msgs[i]
    BY <1>2, <2>3, <2>5, <2>6, <2>7
  <2>10. ~Unmatched(c, t)
    BY <1>5 DEF Unmatched
  <2>11. Turns(c, d, w)
    BY <2>8, <2>9 DEF Turns
  <2> QED BY <1>5, <2>2, <2>10, <2>11
<1>6. CASE waiting = {} /\ MatchesLast(c.msgs, t)
  BY <1>2, <1>3, <1>6 DEF Unmatched
<1>7. CASE waiting = {} /\ ~MatchesLast(c.msgs, t)
  <2> DEFINE no == FALSE
             s == Say(q, t, no)
             m == User(t, no)
  <2>1. s = Say(q, t, no) /\ m = User(t, no) /\ no \in BOOLEAN /\ m = User(t, FALSE)
    OBVIOUS
  <2>2. d = PinActive(OpenBubble(s))
    BY <1>3, <1>7
  <2> HIDE DEF s, m, no
  <2>3. /\ Is(s, q.status, Add(q.msgs, q.next, m), q.active, q.pin, q.queue, q.next + 1)
        /\ Grows(q, s)
        /\ DOMAIN s.msgs = DOMAIN q.msgs \cup {q.next} /\ s.msgs[q.next] = m
        /\ \A i \in DOMAIN q.msgs : s.msgs[i] = q.msgs[i]
        /\ Users(s.msgs) = Users(q.msgs) \cup {q.next}
        /\ Bubbles(s.msgs) = Bubbles(q.msgs)
    <3>1. Whole(q) /\ s = Say(q, t, no) /\ m = User(t, no) /\ no \in BOOLEAN
      BY <1>2, <2>1
    <3> QED BY <3>1, SayIs
  <2>4. Whole(s) /\ s.next = c.next + 1
    BY <1>2, <2>3 DEF Grows, Is
  <2>5. /\ d.active = s.next /\ d.pin = s.next /\ d.next = s.next + 1
        /\ DOMAIN d.msgs = DOMAIN s.msgs \cup {s.next} /\ d.msgs[s.next] = Bubble
        /\ \A i \in DOMAIN s.msgs : d.msgs[i] = s.msgs[i]
        /\ Users(d.msgs) = Users(s.msgs)
        /\ Bubbles(d.msgs) = Bubbles(s.msgs) \cup {s.next}
    BY <2>2, <2>4, OpenedIs
  <2>6. Opens(c, d, c.next + 1)
    BY <1>2, <2>3, <2>4, <2>5 DEF Opens, Bubble
  <2>7. /\ DOMAIN d.msgs = DOMAIN c.msgs \cup {c.next, c.next + 1}
        /\ d.msgs[c.next] = User(t, FALSE)
        /\ \A i \in DOMAIN c.msgs : d.msgs[i] = c.msgs[i]
    BY <1>2, <2>1, <2>3, <2>4, <2>5
  <2>8. AddsUser(c, d, t)
    BY <2>6, <2>7 DEF AddsUser
  <2> QED BY <1>7, <2>8
<1> QED BY <1>5, <1>6, <1>7

\* Replies stay answered when the messages they answer stay and bubbles are opened.
LEMMA AnsweredStays ==
    ASSUME NEW c, NEW d, NEW e, NEW f, Answered(c, e), e \subseteq f,
           \A i \in DOMAIN d.msgs : d.msgs[i].got # {} =>
               i \in DOMAIN c.msgs /\ d.msgs[i].got = c.msgs[i].got,
           \A j \in Plain(c) : c.msgs[j].text \in e =>
               j \in Plain(d) /\ d.msgs[j].text = c.msgs[j].text
    PROVE  Answered(d, f)
<1> SUFFICES ASSUME NEW i \in DOMAIN d.msgs, NEW t \in d.msgs[i].got
             PROVE  /\ d.msgs[i].got = {t} /\ t \in f
                    /\ \E j \in Plain(d) : j < i /\ d.msgs[j].text = t
  BY DEF Answered
<1>1. i \in DOMAIN c.msgs /\ d.msgs[i].got = c.msgs[i].got /\ t \in c.msgs[i].got
  OBVIOUS
<1>2. /\ c.msgs[i].got = {t} /\ t \in e
      /\ \E j \in Plain(c) : j < i /\ c.msgs[j].text = t
  BY <1>1 DEF Answered
<1>3. PICK j \in Plain(c) : j < i /\ c.msgs[j].text = t
  BY <1>2
<1> QED BY <1>1, <1>2, <1>3

LEMMA OpensIs ==
    ASSUME NEW c, Whole(c), NEW d, Whole(d), NEW b, Opens(c, d, b), c.next <= b, b \in Nat
    PROVE  Live(d) /\ Opened(d) /\ Top(d, b) /\ \A j \in Users(d.msgs) : j < b
<1>1. /\ c.next \in Nat /\ \A i \in Bubbles(c.msgs) : i \in Nat /\ i < c.next
  BY WholeParts DEF Bubbles
<1>2. /\ d.active = b /\ d.pin = b /\ d.next = b + 1 /\ d.msgs[b].got = {}
      /\ Bubbles(d.msgs) = Bubbles(c.msgs) \cup {b}
  BY DEF Opens
<1>3. Top(d, b)
  BY <1>1, <1>2 DEF Top
<1>4. ASSUME NEW j \in Users(d.msgs) PROVE j < b
  <2>1. j \in Nat /\ j < b + 1
    BY <1>2, WholeParts DEF Users
  <2>2. j # b
    BY <1>2 DEF Users, Bubbles
  <2> QED BY <2>1, <2>2
<1>5. Opened(d)
  BY <1>2, <1>3, <1>4 DEF Opened, Plain
<1>6. Live(d)
  BY <1>2, <1>3 DEF Live
<1> QED BY <1>3, <1>4, <1>5, <1>6

LEMMA EchoAnswers ==
    ASSUME NEW c, Whole(c), NEW t \in Texts, NEW d, d = EchoUser(c, t), Live(c), Opened(c),
           NEW e, NEW f, Answered(c, e), e \subseteq f,
           Awaited(c.msgs, t) = {} /\ MatchesLast(c.msgs, t) =>
               c.msgs[Latest(Users(c.msgs))].text = t
    PROVE  /\ Live(d) /\ Opened(d) /\ Answered(d, f)
           /\ (\A i \in Awaited(c.msgs, t) : \A j \in Plain(c) : j <= i) => Faces(d, t)
           /\ (\A i, j \in Awaited(c.msgs, t) : i = j) => Awaited(d.msgs, t) = {}
<1>1. /\ DOMAIN c.msgs \subseteq Nat \ {0} /\ c.next \in Nat
      /\ \A i \in DOMAIN c.msgs : i < c.next /\ c.msgs[i] \in Messages
  BY WholeParts
<1>2. /\ Grows(c, d) /\ Whole(d)
      /\ ~Unmatched(c, t) => Users(d.msgs) = Users(c.msgs)
      /\ Unmatched(c, t) => Users(d.msgs) = Users(c.msgs) \cup {c.next}
  <2>1. /\ Grows(c, d)
        /\ ~Unmatched(c, t) => Users(d.msgs) = Users(c.msgs)
        /\ Unmatched(c, t) => Users(d.msgs) = Users(c.msgs) \cup {c.next}
    BY EchoIs
  <2> QED BY <2>1 DEF Grows
<1>3. \A j \in Plain(c) : j \in DOMAIN c.msgs /\ j \in Users(c.msgs) /\ ~c.msgs[j].awaiting
  BY DEF Plain, Users
<1>4. ASSUME NEW j \in Plain(c) PROVE j \in Plain(d) /\ d.msgs[j].text = c.msgs[j].text
  <2>1. j \in Users(d.msgs)
    BY <1>2, <1>3
  <2>2. d.msgs[j].text = c.msgs[j].text /\ ~d.msgs[j].awaiting
    BY <1>2, <1>3 DEF Grows
  <2> QED BY <2>1, <2>2 DEF Plain
<1>5. CASE Awaited(c.msgs, t) # {}
  <2>0. PICK w \in Awaited(c.msgs, t) :
               (\A i \in Awaited(c.msgs, t) : i <= w) /\ Turns(c, d, w)
    BY <1>5, EchoOpens
  <2>1. /\ Opens(c, d, c.next) /\ DOMAIN d.msgs = DOMAIN c.msgs \cup {c.next}
        /\ ~d.msgs[w].awaiting /\ ~d.msgs[w].pending
        /\ \A i \in DOMAIN c.msgs : /\ d.msgs[i].got = c.msgs[i].got
                                    /\ i # w => d.msgs[i] = c.msgs[i]
    BY <2>0 DEF Turns
  <2>2. w \in Users(c.msgs) /\ w \in DOMAIN c.msgs /\ c.msgs[w].text = t
    BY DEF Awaited, Users
  <2>3. Users(d.msgs) = Users(c.msgs)
    BY <1>2, <1>5 DEF Unmatched
  <2>4. Live(d) /\ Opened(d)
    BY <1>1, <1>2, <2>1, OpensIs
  <2>5. Answered(d, f)
    BY <1>4, <2>1, AnsweredStays DEF Opens
  <2>6. d.msgs[w].text = t
    BY <1>2, <2>2 DEF Grows
  <2>7. ASSUME NEW i \in Users(d.msgs), i # w
        PROVE  i \in DOMAIN c.msgs /\ i \in Users(c.msgs) /\ d.msgs[i] = c.msgs[i]
    BY <2>1, <2>3, <2>7 DEF Users
  <2>8. ASSUME \A i \in Awaited(c.msgs, t) : \A j \in Plain(c) : j <= i PROVE Faces(d, t)
    <3>1. w \in Plain(d)
      BY <2>1, <2>2, <2>3 DEF Plain
    <3>2. ASSUME NEW j \in Plain(d) PROVE j <= w
      <4>1. j = w \/ j \in Plain(c)
        BY <2>7 DEF Plain
      <4> QED BY <1>1, <2>2, <2>8, <4>1
    <3> QED BY <2>6, <3>1, <3>2 DEF Faces
  <2>9. ASSUME \A i, j \in Awaited(c.msgs, t) : i = j PROVE Awaited(d.msgs, t) = {}
    <3> SUFFICES ASSUME NEW i \in Awaited(d.msgs, t) PROVE FALSE
      OBVIOUS
    <3>1. i \in Users(d.msgs) /\ (d.msgs[i].awaiting \/ d.msgs[i].pending) /\ d.msgs[i].text = t
      BY DEF Awaited
    <3>2. i # w
      BY <2>1, <3>1
    <3>3. i \in Awaited(c.msgs, t)
      BY <2>7, <3>1, <3>2 DEF Awaited
    <3> QED BY <2>9, <3>2, <3>3
  <2> QED BY <2>4, <2>5, <2>8, <2>9
<1>6. CASE Awaited(c.msgs, t) = {} /\ MatchesLast(c.msgs, t)
  <2>1. d.msgs = c.msgs /\ d.active = c.active /\ d.pin = c.pin /\ d.next = c.next
    BY <1>6, EchoOpens
  <2>2. Plain(d) = Plain(c) /\ \A b : Top(d, b) <=> Top(c, b)
    BY <2>1 DEF Plain, Top
  <2>3. Live(d) /\ Opened(d) /\ Answered(d, e)
    BY <2>1, <2>2 DEF Live, Opened, Answered, Faces
  <2>4. Answered(d, f)
    BY <2>3 DEF Answered
  <2> DEFINE l == Latest(Users(c.msgs))
  <2>5. l \in Users(c.msgs) /\ \A i \in Users(c.msgs) : i <= l
    <3>1. Users(c.msgs) # {} /\ Users(c.msgs) \in SUBSET Nat
          /\ \A i \in Users(c.msgs) : i < c.next
      BY <1>1, <1>6 DEF MatchesLast, Users
    <3> QED BY <1>1, <3>1, LatestIs
  <2>6. c.msgs[l].text = t
    BY <1>6
  <2> HIDE DEF l
  <2>7. l \in Plain(c)
    BY <1>6, <2>5, <2>6 DEF Awaited, Plain
  <2>8. Faces(d, t)
    BY <2>1, <2>2, <2>5, <2>6, <2>7 DEF Faces, Plain
  <2> QED BY <1>6, <2>1, <2>3, <2>4, <2>8
<1>7. CASE Unmatched(c, t)
  <2>1. /\ Opens(c, d, c.next + 1)
        /\ DOMAIN d.msgs = DOMAIN c.msgs \cup {c.next, c.next + 1}
        /\ d.msgs[c.next] = User(t, FALSE)
        /\ \A i \in DOMAIN c.msgs : d.msgs[i] = c.msgs[i]
    <3>1. AddsUser(c, d, t)
      BY <1>7, EchoOpens
    <3> QED BY <3>1 DEF AddsUser
  <2>2. /\ d.msgs[c.next].text = t /\ ~d.msgs[c.next].awaiting /\ ~d.msgs[c.next].pending
        /\ d.msgs[c.next].got = {}
    BY <2>1 DEF User
  <2>3. Users(d.msgs) = Users(c.msgs) \cup {c.next} /\ Awaited(c.msgs, t) = {}
    BY <1>2, <1>7 DEF Unmatched
  <2>4. Live(d) /\ Opened(d)
    BY <1>1, <1>2, <2>1, OpensIs
  <2>5. Answered(d, f)
    <3>1. d.msgs[c.next + 1].got = {}
      BY <2>1 DEF Opens
    <3>2. \A i \in DOMAIN d.msgs : d.msgs[i].got # {} =>
             i \in DOMAIN c.msgs /\ d.msgs[i].got = c.msgs[i].got
      BY <2>1, <2>2, <3>1
    <3> QED BY <1>4, <3>2, AnsweredStays
  <2>6. Faces(d, t)
    <3>1. c.next \in Plain(d)
      BY <2>2, <2>3 DEF Plain
    <3>2. \A j \in Plain(d) : j <= c.next
      BY <1>1, <2>3 DEF Plain, Users
    <3> QED BY <2>2, <3>1, <3>2 DEF Faces
  <2>7. Awaited(d.msgs, t) = {}
    <3> SUFFICES ASSUME NEW i \in Awaited(d.msgs, t) PROVE FALSE
      OBVIOUS
    <3>1. i \in Users(d.msgs) /\ (d.msgs[i].awaiting \/ d.msgs[i].pending) /\ d.msgs[i].text = t
      BY DEF Awaited
    <3>2. i \in Users(c.msgs) /\ i \in DOMAIN c.msgs
      BY <2>2, <2>3, <3>1 DEF Users
    <3> QED BY <2>1, <2>3, <3>1, <3>2 DEF Awaited
  <2> QED BY <2>4, <2>5, <2>6, <2>7
<1> QED BY <1>5, <1>6, <1>7 DEF Unmatched

\* Messages that keep their places, texts and marks
LEMMA FacesSame ==
    ASSUME NEW c, NEW d, DOMAIN d.msgs = DOMAIN c.msgs,
           \A i \in DOMAIN c.msgs : /\ d.msgs[i].role = c.msgs[i].role
                                    /\ d.msgs[i].text = c.msgs[i].text
                                    /\ d.msgs[i].awaiting = c.msgs[i].awaiting
    PROVE  /\ Plain(d) = Plain(c) /\ Bubbles(d.msgs) = Bubbles(c.msgs)
           /\ \A j \in Plain(c) : d.msgs[j].text = c.msgs[j].text
           /\ \A b : Top(d, b) <=> Top(c, b)
           /\ \A t : Faces(d, t) <=> Faces(c, t)
<1>1. Users(d.msgs) = Users(c.msgs) /\ Bubbles(d.msgs) = Bubbles(c.msgs)
  BY DEF Users, Bubbles
<1>2. Plain(d) = Plain(c) /\ \A j \in Plain(c) : d.msgs[j].text = c.msgs[j].text
  BY <1>1 DEF Plain, Users
<1> QED BY <1>1, <1>2 DEF Top, Faces

LEMMA ResolveTop ==
    ASSUME NEW c, Whole(c), Live(c), Bubbles(c.msgs) # {}, NEW d, d = Resolve(c)
    PROVE  /\ Whole(d) /\ d.msgs = c.msgs /\ d.next = c.next /\ d.pin \in {0, c.pin}
           /\ Top(c, d.active)
<1>1. /\ c \in Tabs /\ c.active \in Nat /\ c.pin \in Nat /\ c.next \in Nat \ {0}
      /\ c.status \in Statuses /\ c.msgs \in Lists(Messages) /\ c.queue \in Lists(Texts)
      /\ \A i \in Bubbles(c.msgs) : i \in Nat /\ i < c.next
  BY WholeParts DEF Whole, Bubbles
<1> DEFINE p == IF c.pin \in DOMAIN c.msgs THEN c.pin ELSE 0
           checked == [c EXCEPT !.pin = p]
           last == Latest(Bubbles(c.msgs))
<1>2. checked = [c EXCEPT !.pin = IF @ \in DOMAIN c.msgs THEN @ ELSE 0]
  BY <1>1 DEF Tabs
<1>3. d = IF c.pin \in DOMAIN c.msgs THEN [c EXCEPT !.active = c.pin]
          ELSE IF c.active \in DOMAIN c.msgs THEN checked
          ELSE [checked EXCEPT !.active = last]
  BY <1>2 DEF Resolve
<1>4. p \in Nat /\ p \in {0, c.pin}
  BY <1>1
<1>5. Is(checked, c.status, c.msgs, c.active, p, c.queue, c.next)
  <2>1. \A n \in Nat : Is([c EXCEPT !.pin = n], c.status, c.msgs, c.active, n, c.queue, c.next)
    BY <1>1, TabUpdates
  <2> QED BY <1>4, <2>1
<1> HIDE DEF p, checked
<1>6. /\ checked \in Tabs /\ checked.status = c.status /\ checked.msgs = c.msgs
      /\ checked.active = c.active /\ checked.pin = p /\ checked.queue = c.queue
      /\ checked.next = c.next
  BY <1>5 DEF Is
<1>7. ASSUME NEW a \in Nat
      PROVE  /\ Is([c EXCEPT !.active = a], c.status, c.msgs, a, c.pin, c.queue, c.next)
             /\ Is([checked EXCEPT !.active = a], c.status, c.msgs, a, p, c.queue, c.next)
  BY <1>1, <1>4, <1>6, TabUpdates
<1>8. last \in Nat /\ Top(c, last)
  <2>1. Bubbles(c.msgs) \in SUBSET Nat /\ \A i \in Bubbles(c.msgs) : i < c.next
    BY <1>1
  <2>2. last \in Bubbles(c.msgs) /\ \A i \in Bubbles(c.msgs) : i <= last
    BY <1>1, <2>1, LatestIs
  <2> QED BY <1>1, <2>2 DEF Top
<1> HIDE DEF last
<1>9. Whole(d)
  BY ResolveIs DEF Grows
<1>10. CASE c.pin \in DOMAIN c.msgs
  <2>1. Is(d, c.status, c.msgs, c.pin, c.pin, c.queue, c.next)
    BY <1>1, <1>3, <1>7, <1>10
  <2> QED BY <1>9, <1>10, <2>1 DEF Is, Live
<1>11. CASE c.pin \notin DOMAIN c.msgs /\ c.active \in DOMAIN c.msgs
  BY <1>3, <1>4, <1>6, <1>9, <1>11 DEF Live
<1>12. CASE c.pin \notin DOMAIN c.msgs /\ c.active \notin DOMAIN c.msgs
  <2>1. Is(d, c.status, c.msgs, last, p, c.queue, c.next)
    BY <1>3, <1>7, <1>8, <1>12
  <2> QED BY <1>4, <1>8, <1>9, <2>1 DEF Is
<1> QED BY <1>10, <1>11, <1>12

LEMMA LiveStays ==
    ASSUME NEW c, Whole(c), NEW d, Live(c), d.next = c.next, d.pin \in {0, c.pin},
           DOMAIN d.msgs = DOMAIN c.msgs, \A b : Top(c, b) => Top(d, b),
           d.active = c.active \/ Top(c, d.active) \/ d.active = 0
    PROVE  Live(d)
<1>1. /\ c.next \in Nat \ {0} /\ 0 \notin DOMAIN c.msgs
      /\ \A b : Top(c, b) => b < c.next
  BY WholeParts DEF Top, Bubbles
<1>2. d.pin < d.next /\ d.active < d.next
  BY <1>1 DEF Live
<1>3. d.pin \in DOMAIN d.msgs => Top(d, d.pin)
  BY <1>1 DEF Live
<1>4. d.active \in DOMAIN d.msgs => Top(d, d.active)
  BY <1>1 DEF Live
<1> QED BY <1>2, <1>3, <1>4 DEF Live

\* A part of a reply is written into the last bubble.
LEMMA WriteAnswers ==
    ASSUME NEW c, Whole(c), Live(c), Opened(c), NEW e, Answered(c, e), NEW t \in Words,
           Faces(c, t), t \in e, NEW d, d = Write(c, t)
    PROVE  Live(d) /\ Opened(d) /\ Answered(d, e) /\ \A u : Faces(d, u) <=> Faces(c, u)
<1> DEFINE r == Resolve(c)
           b == r.active
<1>1. PICK a : /\ Top(c, a) /\ \A j \in Plain(c) : j < a
               /\ \A u \in c.msgs[a].got : Faces(c, u)
  BY DEF Opened
<1>2. Bubbles(c.msgs) # {}
  BY <1>1 DEF Top
<1>3. /\ Whole(r) /\ r.msgs = c.msgs /\ r.next = c.next /\ r.pin \in {0, c.pin} /\ Top(c, r.active)
  BY <1>2, ResolveTop
<1>4. r \in Tabs
  BY <1>3 DEF Whole
<1>5. d = [r EXCEPT !.msgs[r.active].got = @ \cup {t}]
  BY DEF Write
<1> HIDE DEF r
<1>6. /\ a = b /\ b \in DOMAIN c.msgs /\ Top(c, b)
      /\ \A i \in DOMAIN c.msgs : c.msgs[i] \in Messages /\ i \in Nat
  <2>1. a \in Bubbles(c.msgs) /\ b \in Bubbles(c.msgs) /\ a <= b /\ b <= a
    BY <1>1, <1>3 DEF Top
  <2>2. \A i \in DOMAIN c.msgs : c.msgs[i] \in Messages /\ i \in Nat
    BY WholeParts
  <2> QED BY <1>3, <2>1, <2>2 DEF Bubbles
<1>7. /\ d.next = c.next /\ d.pin = r.pin /\ d.active = b
      /\ DOMAIN d.msgs = DOMAIN c.msgs
      /\ d.msgs[b] = [c.msgs[b] EXCEPT !.got = @ \cup {t}]
      /\ \A i \in DOMAIN c.msgs : i # b => d.msgs[i] = c.msgs[i]
  <2>1. d.msgs = [c.msgs EXCEPT ![b].got = @ \cup {t}]
    BY <1>3, <1>4, <1>5 DEF Tabs
  <2>2. d.next = r.next /\ d.pin = r.pin /\ d.active = r.active
    BY <1>4, <1>5 DEF Tabs
  <2>3. \E S : c.msgs \in [DOMAIN c.msgs -> S]
    BY WholeParts, ListsAreFunctions DEF Whole
  <2> QED BY <1>3, <1>6, <2>1, <2>2, <2>3
<1> HIDE DEF b
<1>8. /\ d.msgs[b].role = c.msgs[b].role /\ d.msgs[b].text = c.msgs[b].text
      /\ d.msgs[b].awaiting = c.msgs[b].awaiting /\ d.msgs[b].got = c.msgs[b].got \cup {t}
  BY <1>6, <1>7 DEF Messages
<1>9. /\ Plain(d) = Plain(c) /\ \A j \in Plain(c) : d.msgs[j].text = c.msgs[j].text
      /\ \A i : Top(d, i) <=> Top(c, i)
      /\ \A u : Faces(d, u) <=> Faces(c, u)
  <2>1. /\ DOMAIN d.msgs = DOMAIN c.msgs
        /\ \A i \in DOMAIN c.msgs : /\ d.msgs[i].role = c.msgs[i].role
                                    /\ d.msgs[i].text = c.msgs[i].text
                                    /\ d.msgs[i].awaiting = c.msgs[i].awaiting
    BY <1>7, <1>8
  <2> QED BY <2>1, FacesSame
<1>10. Live(d)
  <2>1. /\ d.next = c.next /\ d.pin \in {0, c.pin} /\ DOMAIN d.msgs = DOMAIN c.msgs
        /\ \A i : Top(c, i) => Top(d, i)
        /\ d.active = c.active \/ Top(c, d.active) \/ d.active = 0
    BY <1>3, <1>6, <1>7, <1>9
  <2> QED BY <2>1, LiveStays
<1>11. Opened(d)
  BY <1>1, <1>6, <1>8, <1>9 DEF Opened
<1>12. ASSUME NEW u \in c.msgs[b].got \cup {t} PROVE u = t
  <2>1. Faces(c, u) /\ Faces(c, t)
    BY <1>1, <1>6
  <2>2. PICK j \in Plain(c) : c.msgs[j].text = u /\ \A i \in Plain(c) : i <= j
    BY <2>1 DEF Faces
  <2>3. PICK k \in Plain(c) : c.msgs[k].text = t /\ \A i \in Plain(c) : i <= k
    BY <2>1 DEF Faces
  <2>4. j \in DOMAIN c.msgs /\ k \in DOMAIN c.msgs /\ j <= k /\ k <= j
    BY <2>2, <2>3 DEF Plain, Users
  <2>5. j = k
    BY <1>6, <2>4
  <2> QED BY <2>2, <2>3, <2>5
<1>13. Answered(d, e)
  <2> SUFFICES ASSUME NEW i \in DOMAIN d.msgs, NEW u \in d.msgs[i].got
               PROVE  /\ d.msgs[i].got = {u} /\ u \in e
                      /\ \E j \in Plain(d) : j < i /\ d.msgs[j].text = u
    BY DEF Answered
  <2>1. CASE i = b
    <3>1. u = t /\ d.msgs[b].got = {t}
      BY <1>8, <1>12, <2>1
    <3>2. PICK j \in Plain(c) : c.msgs[j].text = t
      BY DEF Faces
    <3>3. j < b
      BY <1>1, <1>6
    <3> QED BY <1>9, <2>1, <3>1, <3>2, <3>3
  <2>2. CASE i # b
    <3>1. i \in DOMAIN c.msgs /\ u \in c.msgs[i].got /\ d.msgs[i].got = c.msgs[i].got
      BY <1>7, <2>2
    <3>2. /\ c.msgs[i].got = {u} /\ u \in e
          /\ \E j \in Plain(c) : j < i /\ c.msgs[j].text = u
      BY <3>1 DEF Answered
    <3> QED BY <1>9, <3>1, <3>2
  <2> QED BY <2>1, <2>2
<1> QED BY <1>9, <1>10, <1>11, <1>13

-----------------------------------------------------------------------------
\* ---- The invariant of the replies ----

\* What comes at k of a stream answers t, by the stream or by what the page shows.
Speaks(c, w, e, k, t) == Follows(w, k, t) \/ (Quiet(w, k) /\ Faces(c, t) /\ t \in e)
\* Each reply on the stream is to a message the page will then show last.
Telling(c, w, e) == \A k \in DOMAIN w : w[k].k = "reply" => Speaks(c, w, e, k, w[k].t)
\* A run that has settled has nothing more to say.
Closes(w, run) == \A k \in DOMAIN w : w[k].k = "settled" => k = Len(w) /\ ~run
\* When half of an echo has arrived, the messages that wait for it are last.
Halfway(c, w) == w # <<>> /\ w[1].k = "end" =>
    \A i \in Awaited(c.msgs, w[1].t) : \A j \in Plain(c) : j <= i

Busy == pi.run \/ wire # <<>> \/ \E s \in Senders : prompts[s].st = "sent"
PageAnswers == /\ Live(tab) /\ Answered(tab, told.echoed)
               /\ Busy => Opened(tab)
               /\ Halfway(tab, wire)
StreamAnswers == /\ Adjacent(wire) /\ Closes(wire, pi.run) /\ Telling(tab, wire, told.echoed)
                 /\ pi.run => Speaks(tab, wire, told.echoed, Len(wire) + 1, pi.on)
\* A prompt on its way meets a runtime at rest, and its bubble is the last.
PromptsAnswer == \A s \in Senders :
    /\ \A r \in Senders \ {s} : prompts[s].st # "none" /\ prompts[r].st # "none" =>
           prompts[s].bubble # prompts[r].bubble
    /\ prompts[s].st = "sent" =>
           /\ wire = <<>> /\ ~pi.run /\ Top(tab, prompts[s].bubble)
           /\ \A r \in Senders \ {s} : prompts[r].st # "sent"
AnswerParts == PageAnswers /\ StreamAnswers /\ PromptsAnswer
AnswerInv == ~Excused({"late", "tail", "pinned", "lost", "overlap", "rollback"}) => AnswerParts
\* One message of a text waits for its echo, and none that waits as a follow-up, but for a
\* promotion of it.
DimInv == \A t : \A i, j \in Awaited(tab.msgs, t) : i = j /\ (i # promote => ~Waits(t))

\* The page shows other things last, and the stream is the same.
LEMMA SpeaksStays ==
    ASSUME NEW c, NEW d, NEW e, NEW f, NEW w, e \subseteq f,
           w = <<>> \/ \A t \in e : Faces(c, t) => Faces(d, t)
    PROVE  /\ w # <<>> => \A k, t : Speaks(c, w, e, k, t) => Speaks(d, w, f, k, t)
           /\ Telling(c, w, e) => Telling(d, w, f)
<1>1. CASE w = <<>>
  BY <1>1 DEF Telling
<1>2. CASE \A t \in e : Faces(c, t) => Faces(d, t)
  <2>1. \A k, t : Speaks(c, w, e, k, t) => Speaks(d, w, f, k, t)
    BY <1>2 DEF Speaks
  <2> QED BY <2>1 DEF Telling
<1> QED BY <1>1, <1>2

\* Pi tells more.
LEMMA SpeaksMore ==
    ASSUME NEW c, NEW e, NEW v \in Seq(Events), NEW s \in Seq(Events), NEW a, NEW b,
           Telling(c, v, e), Speaks(c, v, e, Len(v) + 1, a), Talks(s, a, b)
    PROVE  Telling(c, v \o s, e) /\ Speaks(c, v \o s, e, Len(v \o s) + 1, b)
<1> DEFINE w == v \o s
           l == Len(v)
<1>1. /\ l \in Nat /\ Len(s) \in Nat /\ DOMAIN v = 1..l /\ DOMAIN s = 1..Len(s)
      /\ DOMAIN w = 1..(l + Len(s)) /\ w \in Seq(Events)
      /\ \A i \in 1..l : w[i] = v[i]
      /\ \A i \in 1..Len(s) : w[l + i] = s[i]
  BY ConcatParts
<1>2. Len(w) = l + Len(s)
  BY <1>1
<1>3. \A t : /\ \A k \in 1..(l + 1) : /\ Follows(v, k, t) => Follows(w, k, t)
                                      /\ Quiet(v, k) => Quiet(w, k)
             /\ \A k \in 1..(Len(s) + 1) :
                   /\ Follows(s, k, t) => Follows(w, l + k, t)
                   /\ Quiet(s, k) /\ Follows(v, l + 1, t) => Follows(w, l + k, t)
                   /\ Quiet(s, k) /\ Quiet(v, l + 1) => Quiet(w, l + k)
  BY MoreFollows
<1>4. Speaks(c, v, e, l + 1, a)
  OBVIOUS
<1> HIDE DEF w, l
<1>5. \A k \in 1..(Len(s) + 1) : Quiet(s, k) => Speaks(c, w, e, l + k, a)
  BY <1>3, <1>4 DEF Speaks
<1>6. Speaks(c, w, e, Len(w) + 1, b)
  <2>1. Len(s) + 1 \in 1..(Len(s) + 1) /\ l + (Len(s) + 1) = Len(w) + 1
    BY <1>1, <1>2
  <2>2. CASE Quiet(s, Len(s) + 1) /\ b = a
    BY <1>5, <2>1, <2>2
  <2>3. CASE Follows(s, Len(s) + 1, b)
    <3>1. Follows(w, l + (Len(s) + 1), b)
      BY <1>3, <2>1, <2>3
    <3> QED BY <2>1, <3>1 DEF Speaks
  <2> QED BY <2>2, <2>3 DEF Talks
<1>7. ASSUME NEW k \in DOMAIN w, w[k].k = "reply" PROVE Speaks(c, w, e, k, w[k].t)
  <2>1. CASE k \in 1..l
    <3>1. Speaks(c, v, e, k, v[k].t) /\ w[k] = v[k] /\ k \in 1..(l + 1)
      BY <1>1, <1>7, <2>1 DEF Telling
    <3> QED BY <1>3, <3>1 DEF Speaks
  <2>2. CASE k \notin 1..l
    <3>1. k - l \in 1..Len(s) /\ l + (k - l) = k /\ k - l \in 1..(Len(s) + 1)
      BY <1>1, <2>2
    <3>2. w[k] = s[k - l]
      BY <1>1, <3>1
    <3>3. Quiet(s, k - l) /\ s[k - l].t = a
      BY <1>1, <1>7, <3>1, <3>2 DEF Talks
    <3>4. Speaks(c, w, e, l + (k - l), a)
      BY <1>5, <3>1, <3>3
    <3> QED BY <3>1, <3>2, <3>3, <3>4
  <2> QED BY <2>1, <2>2
<1> QED BY <1>6, <1>7 DEF Telling, w

\* The next event of the stream has come.
LEMMA SpeaksNext ==
    ASSUME NEW w \in Seq(Events), w # <<>>, Adjacent(w), NEW c, NEW d, NEW e, NEW f, e \subseteq f,
           ~EchoAt(w, 1) => \A t \in e : Faces(c, t) => Faces(d, t),
           w[1].k = "end" => Faces(d, w[1].t) /\ w[1].t \in f
    PROVE  /\ \A t : Speaks(c, w, e, Len(w) + 1, t) => Speaks(d, Tail(w), f, Len(Tail(w)) + 1, t)
           /\ Telling(c, w, e) => Telling(d, Tail(w), f)
<1> DEFINE r == Tail(w)
<1>1. /\ Len(w) \in Nat \ {0} /\ Len(r) = Len(w) - 1 /\ DOMAIN w = 1..Len(w)
      /\ DOMAIN r = 1..Len(r) /\ \A k \in DOMAIN r : r[k] = w[k + 1] /\ k + 1 \in DOMAIN w
  OBVIOUS
<1>2. w[1].k = "start" => r # <<>> /\ r[1].k = "end"
  BY AdjacentRest
<1>3. \A t : \A k \in 1..Len(w) :
          /\ Follows(w, k + 1, t) => \/ Follows(r, k, t)
                                     \/ EchoAt(w, 1) /\ w[1].t = t /\ Quiet(r, k)
          /\ Quiet(w, k + 1) => ~EchoAt(w, 1) /\ Quiet(r, k)
  BY TailFollows
<1> HIDE DEF r
<1>4. ASSUME NEW k \in 1..Len(w), NEW t, Speaks(c, w, e, k + 1, t),
             k \in DOMAIN r => r[k].k # "end"
      PROVE  Speaks(d, r, f, k, t)
  <2>1. CASE Follows(r, k, t)
    BY <2>1 DEF Speaks
  <2>2. CASE EchoAt(w, 1) /\ w[1].t = t /\ Quiet(r, k)
    <3>1. w[1].k # "start"
      <4> SUFFICES ASSUME w[1].k = "start" PROVE FALSE
        OBVIOUS
      <4>1. r # <<>> /\ r[1].k = "end"
        BY <1>2
      <4>2. Len(r) \in Nat /\ Len(r) # 0
        <5>1. r \in Seq(Events)
          BY DEF r
        <5> QED BY <4>1, <5>1
      <4>3. CASE k = 1
        BY <1>1, <1>4, <4>1, <4>2, <4>3
      <4>4. CASE k # 1
        <5>1. 1 \in 1..(k - 1)
          BY <1>1, <4>4
        <5> QED BY <2>2, <4>1, <5>1 DEF Quiet, EchoAt
      <4> QED BY <4>3, <4>4
    <3>2. w[1].k = "end"
      BY <2>2, <3>1 DEF EchoAt
    <3> QED BY <2>2, <3>2 DEF Speaks
  <2>3. CASE Quiet(w, k + 1) /\ Faces(c, t) /\ t \in e
    <3>1. ~EchoAt(w, 1) /\ Quiet(r, k)
      BY <1>3, <2>3
    <3> QED BY <2>3, <3>1 DEF Speaks
  <2> QED BY <1>3, <1>4, <2>1, <2>2, <2>3 DEF Speaks
<1>5. ASSUME NEW t, Speaks(c, w, e, Len(w) + 1, t) PROVE Speaks(d, r, f, Len(r) + 1, t)
  <2>1. Len(w) \in 1..Len(w) /\ Len(w) \notin DOMAIN r /\ Len(r) + 1 = Len(w)
    BY <1>1
  <2> QED BY <1>4, <1>5, <2>1
<1>6. ASSUME Telling(c, w, e) PROVE Telling(d, r, f)
  <2> SUFFICES ASSUME NEW k \in DOMAIN r, r[k].k = "reply" PROVE Speaks(d, r, f, k, r[k].t)
    BY DEF Telling
  <2>1. k \in 1..Len(w) /\ k + 1 \in DOMAIN w /\ w[k + 1] = r[k]
    BY <1>1
  <2>2. Speaks(c, w, e, k + 1, r[k].t)
    BY <1>6, <2>1 DEF Telling
  <2> QED BY <1>4, <2>1, <2>2
<1> QED BY <1>5, <1>6 DEF r

-----------------------------------------------------------------------------
\* ---- The messages that wait for an echo ----

LEMMA AwaitedLess ==
    ASSUME NEW c, NEW d, Grows(c, d),
           \A i \in Users(d.msgs) :
               i \in DOMAIN c.msgs \/ (~d.msgs[i].awaiting /\ ~d.msgs[i].pending)
    PROVE  \A t : Awaited(d.msgs, t) \subseteq Awaited(c.msgs, t)
<1> SUFFICES ASSUME NEW t, NEW i \in Awaited(d.msgs, t) PROVE i \in Awaited(c.msgs, t)
  OBVIOUS
<1>1. /\ i \in Users(d.msgs) /\ i \in DOMAIN c.msgs /\ d.msgs[i].text = t
      /\ d.msgs[i].awaiting \/ d.msgs[i].pending
  BY DEF Awaited
<1>2. /\ c.msgs[i].role = "user" /\ c.msgs[i].text = t
      /\ c.msgs[i].awaiting \/ c.msgs[i].pending
  BY <1>1 DEF Grows, Users
<1> QED BY <1>1, <1>2 DEF Awaited, Users

\* No message comes to wait, and the promotion is the same or over.
LEMMA DimStays ==
    ASSUME DimInv, UsedInv, WaitsLess,
           \A t : Awaited(tab'.msgs, t) \subseteq Awaited(tab.msgs, t),
           promote' = promote \/ promote \notin DOMAIN tab'.msgs
    PROVE  DimInv'
<1> SUFFICES ASSUME NEW t, NEW i \in Awaited(tab'.msgs, t), NEW j \in Awaited(tab'.msgs, t)
             PROVE  i = j /\ (i # promote' => ~Waits(t)')
  BY DEF DimInv
<1>1. i \in Awaited(tab.msgs, t) /\ j \in Awaited(tab.msgs, t) /\ i \in DOMAIN tab'.msgs
  BY DEF Awaited, Users
<1>2. i = j /\ (i # promote => ~Waits(t))
  BY <1>1 DEF DimInv
<1>3. t \in told.used
  BY <1>1 DEF Awaited, UsedInv
<1>4. i # promote' => i # promote
  BY <1>1
<1> QED BY <1>2, <1>3, <1>4 DEF WaitsLess

\* A message of a text that is not waited for is added.
LEMMA DimAdds ==
    ASSUME DimInv, UsedInv, WaitsLess, Whole(tab), promote < tab.next, promote \in Nat,
           NEW u, AddsMessage(u), Awaited(tab.msgs, u) = {},
           \/ promote' = promote /\ ~Waits(u)
           \/ promote = 0 /\ promote' = tab.next
    PROVE  DimInv'
<1>1. /\ tab.next \in Nat \ {0} /\ tab.next \notin DOMAIN tab.msgs /\ 0 \notin DOMAIN tab.msgs
      /\ \A i \in DOMAIN tab.msgs : i < tab.next /\ i \in Nat
  BY WholeParts
<1>2. \A i \in Users(tab'.msgs) : i \in Users(tab.msgs) \/ i = tab.next
  BY DEF AddsMessage
<1>3. \A i \in Users(tab.msgs) : /\ i \in DOMAIN tab.msgs
                                 /\ tab'.msgs[i].text = tab.msgs[i].text
                                 /\ tab'.msgs[i].awaiting => tab.msgs[i].awaiting
                                 /\ tab'.msgs[i].pending => tab.msgs[i].pending
  BY DEF AddsMessage, Grows, Users
<1>4. \A t : \A i \in Awaited(tab'.msgs, t) : i \in Awaited(tab.msgs, t) \/ (i = tab.next /\ t = u)
  BY <1>2, <1>3 DEF Awaited, AddsMessage
<1> SUFFICES ASSUME NEW t, NEW i \in Awaited(tab'.msgs, t), NEW j \in Awaited(tab'.msgs, t)
             PROVE  i = j /\ (i # promote' => ~Waits(t)')
  BY DEF DimInv
<1>5. CASE t = u
  <2>1. i = tab.next /\ j = tab.next
    BY <1>4, <1>5
  <2>2. ASSUME promote' = promote, ~Waits(u) PROVE ~Waits(t)'
    <3>1. tab.next \in Own(tab', promote', u)
      BY <1>1, <2>2 DEF AddsMessage, Own
    <3> QED BY <1>5, <2>2, <3>1 DEF WaitsLess
  <2> QED BY <2>1, <2>2
<1>6. CASE t # u
  <2>1. i \in Awaited(tab.msgs, t) /\ j \in Awaited(tab.msgs, t)
    BY <1>4, <1>6
  <2>2. i = j /\ (i # promote => ~Waits(t)) /\ i \in DOMAIN tab.msgs
    BY <2>1 DEF DimInv, Awaited, Users
  <2>3. t \in told.used
    BY <2>1 DEF Awaited, UsedInv
  <2>4. i # promote' => i # promote
    BY <1>1, <2>2
  <2> QED BY <2>2, <2>3, <2>4 DEF WaitsLess
<1> QED BY <1>5, <1>6

LEMMA DimKept ==
    ASSUME DimInv, TypeInv, RefsInv, UsedInv, WaitsInv, OnceInv, MarkedInv,
           [Next]_vars
    PROVE  DimInv'
<1>1. /\ Whole(tab) /\ told \in History /\ PiInv /\ abort \in Aborts
      /\ prompts \in [Senders -> Prompts] /\ promote \in Nat /\ promote < tab.next
      /\ tab.next \in Nat \ {0}
  <2>1. tab.next \in Nat \ {0}
    BY WholeParts DEF TypeInv
  <2> QED BY <2>1 DEF TypeInv, RefsInv, Refers
<1>2. WaitsLess
  BY OnceKept
<1>3. ASSUME promote' = promote \/ promote \notin DOMAIN tab'.msgs,
             \/ tab'.msgs = tab.msgs
             \/ /\ DOMAIN tab'.msgs \subseteq DOMAIN tab.msgs
                /\ \A i \in DOMAIN tab'.msgs : tab'.msgs[i] = tab.msgs[i]
             \/ /\ Grows(tab, tab')
                /\ \A i \in Users(tab'.msgs) :
                      \/ i \in DOMAIN tab.msgs
                      \/ ~tab'.msgs[i].awaiting /\ ~tab'.msgs[i].pending
      PROVE  DimInv'
  <2>1. ASSUME DOMAIN tab'.msgs \subseteq DOMAIN tab.msgs,
               \A i \in DOMAIN tab'.msgs : tab'.msgs[i] = tab.msgs[i]
        PROVE  \A t : Awaited(tab'.msgs, t) \subseteq Awaited(tab.msgs, t)
    BY <2>1 DEF Awaited, Users
  <2>2. \A t : Awaited(tab'.msgs, t) \subseteq Awaited(tab.msgs, t)
    BY <1>3, <2>1, AwaitedLess
  <2> QED BY <1>2, <1>3, <2>2, DimStays
<1>4. CASE UNCHANGED vars
  BY <1>3, <1>4 DEF vars
<1>5. CASE \/ Runtime \/ TakeAbort
           \/ \E s \in Senders : TakePrompt(s) \/ TakeControl(s) \/ ProbeFailedPrompt(s)
  BY <1>3, <1>5, TypesOfPi
<1>6. CASE Receive
  <2> DEFINE e == Head(wire)
  <2>1. /\ Grows(tab, tab') /\ e \in Events
        /\ \/ Users(tab'.msgs) = Users(tab.msgs)
           \/ /\ e.k \in {"start", "end"} /\ Unmatched(tab, e.t)
              /\ Users(tab'.msgs) = Users(tab.msgs) \cup {tab.next}
    BY <1>1, <1>6, ReceiveIs
  <2>2. promote' = promote /\ tab' = Reduce(tab, e)
    BY <1>6 DEF Receive
  <2>3. e.k \in {"start", "end"} => e.t \in Texts
    BY <1>1, <1>6, TailSound DEF PiInv, Receive
  <2> HIDE DEF e
  <2>4. CASE Users(tab'.msgs) = Users(tab.msgs)
    <3>1. \A i \in Users(tab'.msgs) : i \in DOMAIN tab.msgs
      BY <2>4 DEF Users
    <3> QED BY <1>3, <2>1, <2>2, <3>1
  <2>5. CASE /\ e.k \in {"start", "end"} /\ Unmatched(tab, e.t)
             /\ Users(tab'.msgs) = Users(tab.msgs) \cup {tab.next}
    <3>1. e.t \in Texts /\ tab' = EchoUser(tab, e.t)
      BY <2>2, <2>3, <2>5 DEF Reduce
    <3>2. tab'.msgs[tab.next] = User(e.t, FALSE)
      BY <1>1, <2>5, <3>1, EchoOpens DEF AddsUser
    <3>3. \A i \in Users(tab'.msgs) : \/ i \in DOMAIN tab.msgs
                                      \/ ~tab'.msgs[i].awaiting /\ ~tab'.msgs[i].pending
      BY <2>5, <3>2 DEF Users, User
    <3> QED BY <1>3, <2>1, <2>2, <3>3
  <2> QED BY <2>1, <2>4, <2>5
<1>7. CASE SendPrompt \/ SendControl
  <2>1. PICK u \in Fresh : \/ AddsMessage(u)
                           \/ Grows(tab, tab') /\ Users(tab'.msgs) = Users(tab.msgs)
    BY <1>7, SendPromptIs, SendControlIs
  <2>2. promote' = promote
    BY <1>7 DEF SendPrompt, SendControl
  <2>3. CASE AddsMessage(u)
    <3>1. Own(tab, promote, u) = {} /\ ~Waits(u)
      BY FreshIsNowhere
    <3>2. Awaited(tab.msgs, u) = {}
      BY DEF Awaited, UsedInv, Fresh
    <3> QED BY <1>1, <1>2, <2>2, <2>3, <3>1, <3>2, DimAdds
  <2>4. CASE Grows(tab, tab') /\ Users(tab'.msgs) = Users(tab.msgs)
    <3>1. \A i \in Users(tab'.msgs) : i \in DOMAIN tab.msgs
      BY <2>4 DEF Users
    <3> QED BY <1>3, <2>2, <2>4, <3>1
  <2> QED BY <2>1, <2>3, <2>4
<1>8. CASE AnswerAbort
  <2>1. promote' = promote
    BY <1>8 DEF AnswerAbort
  <2>2. CASE DOMAIN abort.held = {}
    <3>1. tab' = SettleTurn(tab)
      BY <1>8, <2>2 DEF AnswerAbort
    <3>2. tab'.msgs = tab.msgs
      BY <1>1, <3>1, SettledIs DEF Is
    <3> QED BY <1>3, <2>1, <3>2
  <2>3. CASE DOMAIN abort.held # {}
    <3> DEFINE i == Earliest(DOMAIN abort.held)
               t == abort.held[i]
               c == [SettleTurn(tab) EXCEPT !.queue = Nothing]
               s == "resume"
    <3>1. Submit(s, c, t) /\ s \in Senders
      BY <1>8, <2>3 DEF AnswerAbort, Senders
    <3>2. t \in Texts
      BY <1>1, <2>3, FirstHeld
    <3>3. Is(c, "idle", tab.msgs, 0, tab.pin, Nothing, tab.next) /\ Grows(tab, c)
      BY <1>1, AbortedIs
    <3>4. Whole(c) /\ c.msgs = tab.msgs /\ c.next = tab.next
      BY <3>3 DEF Is, Grows
    <3> HIDE DEF c, t, s
    <3>5. /\ Grows(c, tab') /\ Users(tab'.msgs) = Users(c.msgs) \cup {c.next}
          /\ ShowsPrompt(c, tab', t)
      BY <1>1, <3>1, <3>2, <3>4, SubmitIs
    <3>6. Grows(tab, tab')
      BY <1>1, <3>3, <3>5, GrowsThrough
    <3>7. \A k \in Users(tab'.msgs) : \/ k \in DOMAIN tab.msgs
                                      \/ ~tab'.msgs[k].awaiting /\ ~tab'.msgs[k].pending
      BY <3>4, <3>5 DEF ShowsPrompt, Users, User
    <3> QED BY <1>3, <2>1, <3>6, <3>7
  <2> QED BY <2>2, <2>3
<1>9. CASE \/ Poll \/ Abort
           \/ \E s \in Senders : AcceptPrompt(s) \/ AcceptControl(s)
  <2>1. tab'.msgs = tab.msgs
    BY <1>9, SteadyTab
  <2>2. promote' = promote
    BY <1>9 DEF Poll, Abort, AcceptPrompt, AcceptControl
  <2> QED BY <1>3, <2>1, <2>2
<1>10. CASE Promote
  <2>1. /\ \E i \in DOMAIN tab.queue : AddsMessage(tab.queue[i])
        /\ promote = 0 /\ promote' = tab.next
    BY <1>10, PromoteIs
  <2>2. PICK i \in DOMAIN tab.queue : AddsMessage(tab.queue[i])
    BY <2>1
  <2>3. PICK u : u = tab.queue[i]
    OBVIOUS
  <2>4. AddsMessage(u) /\ Waits(u)
    BY <2>2, <2>3 DEF Waits, Range
  <2>5. Awaited(tab.msgs, u) = {}
    <3>1. 0 \notin DOMAIN tab.msgs
      BY <1>1, WholeParts
    <3>2. \A k \in Awaited(tab.msgs, u) : k # 0
      BY <3>1 DEF Awaited, Users
    <3> QED BY <2>1, <2>4, <3>2 DEF DimInv
  <2> QED BY <1>1, <1>2, <2>1, <2>4, <2>5, DimAdds
<1>11. CASE PromoteRefused
  <2>1. tab' = [tab EXCEPT !.msgs = Without(@, promote)]
    BY <1>11 DEF PromoteRefused
  <2>2. /\ DOMAIN tab'.msgs = DOMAIN tab.msgs \ {promote}
        /\ \A k \in DOMAIN tab'.msgs : tab'.msgs[k] = tab.msgs[k]
    BY <1>1, <2>1, TakenTab
  <2> QED BY <1>3, <2>2
<1>12. ASSUME \E s \in Senders : RollBackControl(s) \/ SettleFailedPrompt(s)
       PROVE  DimInv'
  <2>1. \/ tab' = tab
        \/ \E i, j : \/ tab' = [tab EXCEPT !.msgs = Without(@, i), !.queue = Without(@, j)]
                     \/ tab' = [SettleTurn(tab) EXCEPT !.msgs = Without(@, i)]
    BY <1>12 DEF RollBackControl, SettleFailedPrompt
  <2>2. promote' = promote
    BY <1>12 DEF RollBackControl, SettleFailedPrompt
  <2>3. ASSUME NEW i, NEW j,
               \/ tab' = [tab EXCEPT !.msgs = Without(@, i), !.queue = Without(@, j)]
               \/ tab' = [SettleTurn(tab) EXCEPT !.msgs = Without(@, i)]
        PROVE  /\ DOMAIN tab'.msgs \subseteq DOMAIN tab.msgs
               /\ \A k \in DOMAIN tab'.msgs : tab'.msgs[k] = tab.msgs[k]
    <3>1. /\ DOMAIN tab'.msgs = DOMAIN tab.msgs \ {i}
          /\ \A k \in DOMAIN tab'.msgs : tab'.msgs[k] = tab.msgs[k]
      BY <1>1, <2>3, TakenTab
    <3> QED BY <3>1
  <2> QED BY <1>3, <2>1, <2>2, <2>3
<1>13. CASE Resume
  <2>1. promote' = promote
    BY <1>13, ResumeIs
  <2>2. tab' = tab \/ (Grows(tab, tab') /\ Users(tab'.msgs) = Users(tab.msgs))
    BY <1>13, ResumeIs
  <2>3. tab'.msgs = tab.msgs \/ (Grows(tab, tab') /\ \A i \in Users(tab'.msgs) : i \in DOMAIN tab.msgs)
    BY <2>2 DEF Users
  <2> QED BY <1>3, <2>1, <2>3
<1> QED BY <1>4, <1>5, <1>6, <1>7, <1>8, <1>9, <1>10, <1>11, <1>12, <1>13
        DEF Next, Requests

-----------------------------------------------------------------------------
\* ---- What pi tells, and the replies ----

\* A piece of the stream that a step of pi adds
Tells(s) == /\ s \in Seq(Events) /\ Adjacent(s) /\ (s # <<>> => s[1].k # "end")
            /\ Closes(s, pi'.run) /\ Talks(s, pi.on, pi'.on)

LEMMA EventTells ==
    ASSUME NEW e \in Events, e.k \notin {"start", "end", "settled"},
           e.k = "reply" => e.t = pi.on, pi'.on = pi.on
    PROVE  Tells(<<e>>)
<1>1. <<e>> \in Seq(Events) /\ <<e>>[1] = e /\ DOMAIN <<e>> = {1}
  OBVIOUS
<1>2. Closes(<<e>>, pi'.run)
  BY <1>1 DEF Closes
<1>3. Adjacent(<<e>>) /\ <<e>>[1].k # "end" /\ Talks(<<e>>, pi.on, pi.on)
  BY EventTalks
<1> QED BY <1>1, <1>2, <1>3 DEF Tells

LEMMA NothingTells == ASSUME pi'.on = pi.on PROVE Tells(<<>>)
<1>1. <<>> \in Seq(Events) /\ Closes(<<>>, pi'.run)
  BY DEF Closes
<1> QED BY <1>1, NothingTalks DEF Tells

LEMMA EchoTells == ASSUME NEW t \in Texts, pi'.on = t PROVE Tells(Echo(t))
<1>1. Echo(t) \in Seq(Events)
  BY EchoIsSound DEF Sound
<1>2. /\ Adjacent(Echo(t)) /\ Talks(Echo(t), pi.on, t) /\ Echo(t)[1].k = "start"
      /\ \A k \in DOMAIN Echo(t) : Echo(t)[k].k \in {"start", "end"}
  BY EchoTalks
<1>3. Closes(Echo(t), pi'.run)
  BY <1>2 DEF Closes
<1> QED BY <1>1, <1>2, <1>3 DEF Tells

LEMMA EndTells == ASSUME pi'.on = pi.on, ~pi'.run PROVE Tells(RunEnds)
<1>1. /\ RunEnds \in Seq(Events) /\ DOMAIN RunEnds = {1, 2} /\ Len(RunEnds) = 2
      /\ RunEnds[1].k = "agent_end" /\ RunEnds[2].k = "settled"
  <2>1. RunEnds \in Seq(Events)
    BY RunEndsIsSound DEF Sound
  <2> QED BY <2>1 DEF RunEnds, Event
<1>2. Adjacent(RunEnds)
  BY <1>1 DEF Adjacent
<1>3. Talks(RunEnds, pi.on, pi.on)
  <2>1. Quiet(RunEnds, Len(RunEnds) + 1)
    BY <1>1 DEF Quiet, EchoAt
  <2> QED BY <1>1, <2>1 DEF Talks
<1>4. Closes(RunEnds, pi'.run)
  BY <1>1 DEF Closes
<1> QED BY <1>1, <1>2, <1>3, <1>4 DEF Tells

\* A list of follow-ups, and then more
LEMMA QueuedTells ==
    ASSUME NEW q \in Seq(Texts), NEW s, Tells(s)
    PROVE  Tells(<<Queued(q)>> \o s)
<1> DEFINE v == <<Queued(q)>>
           w == v \o s
<1>1. /\ v \in Seq(Events) /\ Len(v) = 1 /\ v[1] = Queued(q) /\ DOMAIN v = {1} /\ v # <<>>
      /\ v[1].k = "queue"
  BY EventsAre
<1>2. Adjacent(v) /\ Talks(v, pi.on, pi.on) /\ Quiet(v, Len(v) + 1)
  <2>1. Quiet(v, Len(v) + 1)
    BY <1>1 DEF Quiet, EchoAt
  <2>2. Queued(q).k = "queue"
    BY EventsAre
  <2> QED BY <2>1, <2>2, EventTalks
<1> HIDE DEF v
<1>3. /\ s \in Seq(Events) /\ Adjacent(s) /\ (s # <<>> => s[1].k # "end")
      /\ Closes(s, pi'.run) /\ Talks(s, pi.on, pi'.on)
  BY DEF Tells
<1>4. /\ w \in Seq(Events) /\ DOMAIN w = 1..(1 + Len(s)) /\ Len(s) \in Nat /\ w[1] = v[1]
      /\ DOMAIN s = 1..Len(s) /\ \A i \in DOMAIN s : w[1 + i] = s[i]
  <2>1. /\ v \o s \in Seq(Events) /\ DOMAIN v = 1..Len(v) /\ DOMAIN s = 1..Len(s)
        /\ Len(s) \in Nat /\ DOMAIN (v \o s) = 1..(Len(v) + Len(s))
        /\ \A i \in DOMAIN v : (v \o s)[i] = v[i]
        /\ \A i \in DOMAIN s : (v \o s)[Len(v) + i] = s[i]
    BY <1>1, <1>3, ConcatParts
  <2> QED BY <1>1, <2>1
<1>5. Adjacent(w)
  BY <1>1, <1>2, <1>3, AdjacentMore
<1>6. Talks(w, pi.on, pi'.on)
  BY <1>1, <1>2, <1>3, ThenTalks
<1>7. Len(w) = 1 + Len(s)
  BY <1>4
<1> HIDE DEF w
<1>8. Closes(w, pi'.run)
  <2> SUFFICES ASSUME NEW k \in DOMAIN w, w[k].k = "settled" PROVE k = Len(w) /\ ~pi'.run
    BY DEF Closes
  <2>1. k # 1
    BY <1>1, <1>4
  <2>2. k - 1 \in DOMAIN s /\ 1 + (k - 1) = k
    BY <1>4, <2>1
  <2>3. s[k - 1].k = "settled"
    BY <1>4, <2>2
  <2>4. k - 1 = Len(s) /\ ~pi'.run
    BY <1>3, <2>2, <2>3 DEF Closes
  <2> QED BY <1>4, <1>7, <2>4
<1>9. w[1].k # "end"
  BY <1>1, <1>4
<1>10. Tells(w)
  BY <1>4, <1>5, <1>6, <1>8, <1>9 DEF Tells
<1> QED BY <1>10 DEF w, v

\* What a run tells, and what it tells when it is steered, gets a follow-up or is stopped
LEMMA PiTells ==
    ASSUME PiInv, pi.run,
           Runtime \/ TakeAbort \/ \E mode, t : t \in Texts /\ Holds(mode, t)
    PROVE  \E s : Tells(s) /\ wire' = wire \o s
<1>1. /\ pi \in Pis /\ wire \in Seq(Events) /\ pi.on \in Texts
      /\ pi.steering \in Seq(Texts) /\ pi.followUp \in Seq(Texts)
  BY DEF PiInv, Pis, Sound
<1>2. /\ \A e : Append(wire, e) = wire \o <<e>>
      /\ \A q \in Seq(Texts), s \in Seq(Events) :
            Append(wire, Queued(q)) \o s = wire \o (<<Queued(q)>> \o s)
      /\ wire = wire \o <<>>
  <2>1. \A e : Append(wire, e) = wire \o <<e>>
    BY <1>1, AppendIsConcat
  <2>2. ASSUME NEW q \in Seq(Texts), NEW s \in Seq(Events)
        PROVE  Append(wire, Queued(q)) \o s = wire \o (<<Queued(q)>> \o s)
    <3>1. <<Queued(q)>> \in Seq(Events)
      BY EventsAre
    <3>2. (wire \o <<Queued(q)>>) \o s = wire \o (<<Queued(q)>> \o s)
      BY <1>1, <3>1, ConcatAssociative
    <3> QED BY <2>1, <3>2
  <2> QED BY <1>1, <2>1, <2>2
<1>3. ASSUME NEW e \in Events, e.k \notin {"start", "end", "settled"},
             e.k = "reply" => e.t = pi.on, pi'.on = pi.on, wire' = Append(wire, e)
      PROVE  \E s : Tells(s) /\ wire' = wire \o s
  BY <1>2, <1>3, EventTells
<1>4. CASE PiDelivers
  <2>1. CASE /\ pi.steering # <<>>
             /\ pi' = [pi EXCEPT !.on = Head(pi.steering), !.steering = Tail(@)]
             /\ wire' = wire \o Echo(Head(pi.steering))
    <3>1. Head(pi.steering) \in Texts /\ pi'.on = Head(pi.steering)
      BY <1>1, <2>1 DEF Pis
    <3> QED BY <2>1, <3>1, EchoTells
  <2>2. CASE /\ pi.followUp # <<>>
             /\ pi' = [pi EXCEPT !.on = Head(pi.followUp), !.followUp = Tail(@)]
             /\ wire' = Append(wire, Queued(Tail(pi.followUp))) \o Echo(Head(pi.followUp))
    <3>1. /\ Head(pi.followUp) \in Texts /\ pi'.on = Head(pi.followUp)
          /\ Tail(pi.followUp) \in Seq(Texts)
      BY <1>1, <2>2 DEF Pis
    <3>2. Tells(Echo(Head(pi.followUp)))
      BY <3>1, EchoTells
    <3>3. Echo(Head(pi.followUp)) \in Seq(Events)
      BY <3>2 DEF Tells
    <3> QED BY <1>2, <2>2, <3>1, <3>2, <3>3, QueuedTells
  <2> QED BY <1>4, <2>1, <2>2 DEF PiDelivers, Works
<1>5. CASE PiReplies
  <2>1. /\ Event("reply", pi.on, <<>>) \in Events
        /\ Event("reply", pi.on, <<>>).k = "reply" /\ Event("reply", pi.on, <<>>).t = pi.on
    <3>1. Event("reply", pi.on, <<>>).t = pi.on
      BY DEF Event
    <3>2. pi.on \in Words
      BY <1>1 DEF Words
    <3> QED BY <3>1, <3>2, EventsOfPi
  <2> QED BY <1>3, <1>5, <2>1 DEF PiReplies, Works
<1>6. CASE PiRetries
  BY <1>3, <1>6, EventsOfPi DEF PiRetries, Works
<1>7. CASE PiSettles
  <2>1. pi'.on = pi.on /\ ~pi'.run /\ wire' = wire \o RunEnds
    BY <1>1, <1>7 DEF PiSettles, Works, Pis
  <2> QED BY <2>1, EndTells
<1>8. ASSUME NEW mode, NEW t \in Texts, Holds(mode, t)
      PROVE  \E s : Tells(s) /\ wire' = wire \o s
  <2>1. pi'.on = pi.on
    BY <1>1, <1>8 DEF Holds, Pis
  <2>2. CASE wire' = wire
    BY <1>2, <2>1, <2>2, NothingTells
  <2>3. CASE wire' = Append(wire, Queued(Append(pi.followUp, t)))
    <3>1. /\ Queued(Append(pi.followUp, t)) \in Events
          /\ Queued(Append(pi.followUp, t)).k = "queue"
      <4>1. Append(pi.followUp, t) \in Seq(Texts)
        BY <1>1
      <4> QED BY <4>1, EventsAre
    <3> QED BY <1>3, <2>1, <2>3, <3>1
  <2> QED BY <1>8, <2>2, <2>3 DEF Holds
<1>9. CASE TakeAbort
  <2>1. CASE pi' = [pi EXCEPT !.run = FALSE] /\ wire' = wire \o RunEnds
    <3>1. pi'.on = pi.on /\ ~pi'.run
      BY <1>1, <2>1 DEF Pis
    <3> QED BY <2>1, <3>1, EndTells
  <2>2. CASE /\ pi' = [pi EXCEPT !.run = FALSE, !.steering = <<>>, !.followUp = <<>>]
             /\ wire' = Append(wire, Queued(<<>>)) \o RunEnds
    <3>1. pi'.on = pi.on /\ ~pi'.run
      BY <1>1, <2>2 DEF Pis
    <3>2. Tells(RunEnds) /\ <<>> \in Seq(Texts)
      BY <3>1, EndTells
    <3>3. RunEnds \in Seq(Events)
      BY <3>2 DEF Tells
    <3> QED BY <1>2, <2>2, <3>2, <3>3, QueuedTells
  <2>3. CASE UNCHANGED <<pi, wire>>
    BY <1>2, <2>3, NothingTells
  <2> QED BY <1>9, <2>1, <2>2, <2>3 DEF TakeAbort
<1> QED BY <1>4, <1>5, <1>6, <1>7, <1>8, <1>9 DEF Runtime

\* What pi's steps leave of the requests
Proceeds == \A s \in Senders : /\ prompts'[s].bubble = prompts[s].bubble
                               /\ prompts'[s].st = "none" <=> prompts[s].st = "none"
                               /\ prompts'[s].st = "sent" => prompts[s].st = "sent"

\* Pi rests.
LEMMA AnswersAtRest ==
    ASSUME AnswerParts, UNCHANGED <<pi, wire, tab, told>>, Proceeds
    PROVE  AnswerParts'
<1>1. Busy' => Busy
  BY DEF Busy, Proceeds
<1>2. PageAnswers'
  BY <1>1 DEF AnswerParts, PageAnswers
<1>3. StreamAnswers'
  BY DEF AnswerParts, StreamAnswers
<1>4. PromptsAnswer'
  BY DEF AnswerParts, PromptsAnswer, Proceeds
<1> QED BY <1>2, <1>3, <1>4 DEF AnswerParts

\* A run tells something.
LEMMA AnswersToldMore ==
    ASSUME AnswerParts, PiInv, pi.run, NEW s, Tells(s), wire' = wire \o s,
           UNCHANGED <<tab, told>>, Proceeds
    PROVE  AnswerParts'
<1>1. /\ wire \in Seq(Events) /\ s \in Seq(Events)
      /\ Adjacent(s) /\ (s # <<>> => s[1].k # "end")
      /\ Closes(s, pi'.run) /\ Talks(s, pi.on, pi'.on)
  BY DEF PiInv, Sound, Tells
<1>2. \A r \in Senders : prompts[r].st # "sent" /\ prompts'[r].st # "sent"
  BY DEF AnswerParts, PromptsAnswer, Proceeds
<1>3. /\ DOMAIN wire = 1..Len(wire) /\ DOMAIN s = 1..Len(s) /\ Len(wire) \in Nat /\ Len(s) \in Nat
      /\ DOMAIN (wire \o s) = 1..(Len(wire) + Len(s))
      /\ \A i \in DOMAIN wire : (wire \o s)[i] = wire[i]
      /\ \A i \in DOMAIN s : (wire \o s)[Len(wire) + i] = s[i]
      /\ wire \o s \in Seq(Events)
  BY <1>1, ConcatParts
<1>4. PromptsAnswer'
  BY <1>2 DEF AnswerParts, PromptsAnswer, Proceeds
<1>5. Busy
  BY DEF Busy
<1>6. Halfway(tab, wire \o s)
  <2>1. CASE wire # <<>>
    <3>1. (wire \o s)[1] = wire[1]
      BY <1>1, <1>3, <2>1
    <3> QED BY <2>1, <3>1 DEF AnswerParts, PageAnswers, Halfway
  <2>2. CASE wire = <<>>
    <3>1. wire \o s = s
      BY <1>1, <2>2
    <3> QED BY <1>1, <3>1 DEF Halfway
  <2> QED BY <2>1, <2>2
<1>7. PageAnswers'
  BY <1>5, <1>6 DEF AnswerParts, PageAnswers
<1>8. Adjacent(wire \o s)
  BY <1>1, AdjacentMore DEF AnswerParts, StreamAnswers
<1>9. Closes(wire \o s, pi'.run)
  <2> SUFFICES ASSUME NEW k \in DOMAIN (wire \o s), (wire \o s)[k].k = "settled"
               PROVE  k = Len(wire \o s) /\ ~pi'.run
    BY DEF Closes
  <2>1. k \notin DOMAIN wire
    BY <1>3 DEF AnswerParts, StreamAnswers, Closes
  <2>2. k - Len(wire) \in DOMAIN s /\ Len(wire) + (k - Len(wire)) = k
    <3>1. k \in 1..(Len(wire) + Len(s)) /\ k \notin 1..Len(wire)
      BY <1>3, <2>1
    <3>2. Len(wire) \in Nat /\ Len(s) \in Nat
      BY <1>3
    <3>3. k - Len(wire) \in 1..Len(s) /\ Len(wire) + (k - Len(wire)) = k
      BY <3>1, <3>2
    <3> QED BY <1>3, <3>3
  <2>3. s[k - Len(wire)].k = "settled"
    BY <1>3, <2>2
  <2>4. k - Len(wire) = Len(s) /\ ~pi'.run
    BY <1>1, <2>2, <2>3 DEF Closes
  <2>5. Len(wire \o s) = Len(wire) + Len(s)
    BY <1>3
  <2> QED BY <1>3, <2>2, <2>4, <2>5
<1>10. /\ Telling(tab, wire \o s, told.echoed)
       /\ Speaks(tab, wire \o s, told.echoed, Len(wire \o s) + 1, pi'.on)
  <2>1. Telling(tab, wire, told.echoed) /\ Speaks(tab, wire, told.echoed, Len(wire) + 1, pi.on)
    BY DEF AnswerParts, StreamAnswers
  <2> QED BY <1>1, <2>1, SpeaksMore
<1>11. StreamAnswers'
  BY <1>8, <1>9, <1>10 DEF StreamAnswers
<1> QED BY <1>4, <1>7, <1>11 DEF AnswerParts

\* A prompt starts a run.
LEMMA AnswersStarted ==
    ASSUME AnswerParts, PiInv, NEW s \in Senders, prompts[s].st = "sent", prompts'[s].st # "sent",
           NEW t \in Texts, Starts(t), UNCHANGED <<tab, told>>, Proceeds
    PROVE  AnswerParts'
<1>1. wire = <<>> /\ ~pi.run /\ \A r \in Senders \ {s} : prompts[r].st # "sent"
  BY DEF AnswerParts, PromptsAnswer
<1>2. \A r \in Senders : prompts'[r].st # "sent"
  BY <1>1 DEF Proceeds
<1>3. /\ Echo(t) \in Seq(Events) /\ Adjacent(Echo(t))
      /\ Echo(t)[1].k = "start" /\ \A k \in DOMAIN Echo(t) : Echo(t)[k].k \in {"start", "end"}
  BY EchoIsSound, EchoTalks DEF Sound
<1>4. wire' = Echo(t) /\ pi'.on = t
  BY <1>1, <1>3 DEF Starts, PiInv, Pis
<1>5. PromptsAnswer'
  BY <1>2 DEF AnswerParts, PromptsAnswer, Proceeds
<1>6. Busy
  BY DEF Busy
<1>7. Halfway(tab, Echo(t))
  BY <1>3 DEF Halfway
<1>8. PageAnswers'
  BY <1>4, <1>6, <1>7 DEF AnswerParts, PageAnswers
<1>9. Follows(Echo(t), Len(Echo(t)) + 1, t)
  <2>1. PICK a : a # t
    BY TextsAssumption
  <2>2. Talks(Echo(t), a, t)
    BY EchoTalks
  <2> QED BY <2>1, <2>2 DEF Talks
<1>10. StreamAnswers'
  <2>1. Adjacent(wire')
    BY <1>3, <1>4
  <2>2. Closes(wire', pi'.run)
    BY <1>3, <1>4 DEF Closes
  <2>3. Telling(tab', wire', told'.echoed)
    BY <1>3, <1>4 DEF Telling
  <2>4. Speaks(tab', wire', told'.echoed, Len(wire') + 1, pi'.on)
    BY <1>4, <1>9 DEF Speaks
  <2> QED BY <2>1, <2>2, <2>3, <2>4 DEF StreamAnswers
<1> QED BY <1>5, <1>8, <1>10 DEF AnswerParts

LEMMA AnswersOfPi ==
    ASSUME AnswerParts, TypeInv, RefsInv,
           Runtime \/ TakeAbort \/ (\E s \in Senders : \/ TakePrompt(s) \/ TakeControl(s)
                                                       \/ ProbeFailedPrompt(s))
    PROVE  AnswerParts'
<1>1. PiInv /\ prompts \in [Senders -> Prompts] /\ controls \in [Senders -> Controls]
  BY DEF TypeInv
<1>2. UNCHANGED <<tab, told>>
  BY TypesOfPi
<1>3. CASE Runtime
  <2>1. pi.run /\ Proceeds
    BY <1>3 DEF Runtime, PiDelivers, PiReplies, PiRetries, PiSettles, Works, Proceeds
  <2> QED BY <1>1, <1>2, <1>3, <2>1, PiTells, AnswersToldMore
<1>4. CASE TakeAbort
  <2>1. Proceeds
    BY <1>4 DEF TakeAbort, Proceeds
  <2>2. CASE pi.run
    BY <1>1, <1>2, <1>4, <2>1, <2>2, PiTells, AnswersToldMore
  <2>3. CASE ~pi.run
    <3>1. UNCHANGED <<pi, wire>>
      BY <1>4, <2>3 DEF TakeAbort
    <3> QED BY <1>2, <2>1, <3>1, AnswersAtRest
  <2> QED BY <2>2, <2>3
<1>5. ASSUME NEW s \in Senders, TakePrompt(s) PROVE AnswerParts'
  <2>1. /\ prompts[s].st = "sent" /\ prompts[s].text \in Texts
        /\ Prompted(s, "taken") \/ Prompted(s, "failed")
    BY <1>5 DEF TakePrompt, RefsInv
  <2>2. Proceeds /\ prompts'[s].st # "sent"
    BY <1>1, <2>1, PromptedIs DEF Proceeds
  <2>3. ~pi.run
    BY <2>1 DEF AnswerParts, PromptsAnswer
  <2>4. Starts(prompts[s].text) \/ UNCHANGED <<pi, wire>>
    BY <1>5, <2>3 DEF TakePrompt, Holds
  <2> QED BY <1>1, <1>2, <2>1, <2>2, <2>4, AnswersStarted, AnswersAtRest
<1>6. ASSUME NEW s \in Senders, TakeControl(s) PROVE AnswerParts'
  <2>1. Proceeds
    BY <1>6 DEF TakeControl, Proceeds
  <2>2. UNCHANGED <<pi, wire>> \/ (pi.run /\ Holds(controls[s].mode, controls[s].text))
    BY <1>6 DEF TakeControl, Holds
  <2>3. controls[s].text \in Texts
    BY <1>6 DEF TakeControl, RefsInv
  <2> QED BY <1>1, <1>2, <2>1, <2>2, <2>3, PiTells, AnswersToldMore, AnswersAtRest
<1>7. ASSUME NEW s \in Senders, ProbeFailedPrompt(s) PROVE AnswerParts'
  <2>1. /\ UNCHANGED <<pi, wire>> /\ prompts[s].st = "failed"
        /\ Prompted(s, "active") \/ Prompted(s, "idle")
    BY <1>7 DEF ProbeFailedPrompt
  <2>2. Proceeds
    BY <1>1, <2>1, PromptedIs DEF Proceeds
  <2> QED BY <1>2, <2>1, <2>2, AnswersAtRest
<1> QED BY <1>3, <1>4, <1>5, <1>6, <1>7

-----------------------------------------------------------------------------
\* ---- What the page does, and the replies ----

\* The messages stay as they are.
LEMMA AnswersSteady ==
    ASSUME AnswerParts, UNCHANGED <<pi, wire>>, told'.echoed = told.echoed,
           tab'.msgs = tab.msgs, Live(tab'),
           \A s \in Senders : prompts'[s] = prompts[s] \/ prompts'[s].st = "none"
    PROVE  AnswerParts'
<1>1. /\ \A t : Faces(tab', t) <=> Faces(tab, t)
      /\ Answered(tab', told'.echoed) <=> Answered(tab, told.echoed)
      /\ \A b : Top(tab', b) <=> Top(tab, b)
      /\ Halfway(tab', wire') <=> Halfway(tab, wire)
      /\ Plain(tab') = Plain(tab)
  BY DEF Faces, Plain, Answered, Top, Halfway
<1>2. Opened(tab') <=> Opened(tab)
  BY <1>1 DEF Opened
<1>3. Busy' => Busy
  BY DEF Busy
<1>4. PageAnswers'
  BY <1>1, <1>2, <1>3 DEF AnswerParts, PageAnswers
<1>5. StreamAnswers'
  BY <1>1 DEF AnswerParts, StreamAnswers, Telling, Speaks
<1>6. PromptsAnswer'
  BY <1>1 DEF AnswerParts, PromptsAnswer
<1> QED BY <1>4, <1>5, <1>6 DEF AnswerParts

\* The live bubble, the live target, or both are dropped or set to the last bubble.
LEMMA LiveSet ==
    ASSUME NEW c, Whole(c), Live(c), NEW d, d.msgs = c.msgs, c.next <= d.next, d.next \in Nat,
           d.pin \in {0, c.pin} \/ (d.pin < c.next /\ d.pin \in Nat
                                    /\ (d.pin \in DOMAIN c.msgs => Top(c, d.pin))),
           d.active \in {0, c.active} \/ (d.active < c.next /\ d.active \in Nat
                                          /\ (d.active \in DOMAIN c.msgs => Top(c, d.active)))
    PROVE  Live(d)
<1>1. /\ c.next \in Nat \ {0} /\ c.pin \in Nat /\ c.active \in Nat /\ 0 \notin DOMAIN c.msgs
  BY WholeParts
<1>2. \A b : Top(d, b) <=> Top(c, b)
  BY DEF Top
<1>3. d.pin < d.next /\ (d.pin \in DOMAIN d.msgs => Top(d, d.pin))
  BY <1>1, <1>2 DEF Live
<1>4. d.active < d.next /\ (d.active \in DOMAIN d.msgs => Top(d, d.active))
  BY <1>1, <1>2 DEF Live
<1> QED BY <1>3, <1>4 DEF Live

\* A message is taken back that the model was not shown, or that waits for its echo.
LEMMA AnswersTaken ==
    ASSUME AnswerParts, Whole(tab), UNCHANGED <<pi, wire, prompts>>,
           told'.echoed = told.echoed, NEW i,
           tab'.active = tab.active, tab'.pin = tab.pin, tab'.next = tab.next,
           DOMAIN tab'.msgs = DOMAIN tab.msgs \ {i},
           \A k \in DOMAIN tab'.msgs : tab'.msgs[k] = tab.msgs[k],
           i \notin Bubbles(tab.msgs), i \in Plain(tab) => tab.msgs[i].text \notin told.echoed
    PROVE  AnswerParts'
<1>1. /\ Bubbles(tab'.msgs) = Bubbles(tab.msgs)
      /\ Plain(tab') = Plain(tab) \ {i}
      /\ \A j \in Plain(tab') : j \in Plain(tab) /\ tab'.msgs[j].text = tab.msgs[j].text
      /\ \A b : Top(tab', b) <=> Top(tab, b)
      /\ \A t : Awaited(tab'.msgs, t) \subseteq Awaited(tab.msgs, t)
  BY DEF Bubbles, Plain, Users, Top, Awaited
<1>2. ASSUME NEW t \in told.echoed, Faces(tab, t) PROVE Faces(tab', t)
  <2>1. PICK j \in Plain(tab) : tab.msgs[j].text = t /\ \A k \in Plain(tab) : k <= j
    BY <1>2 DEF Faces
  <2>2. j # i
    BY <2>1
  <2> QED BY <1>1, <2>1, <2>2 DEF Faces
<1>3. Answered(tab, told.echoed)
  BY DEF AnswerParts, PageAnswers
<1>4. Answered(tab', told.echoed)
  <2>1. \A j \in Plain(tab) : tab.msgs[j].text \in told.echoed =>
            j \in Plain(tab') /\ tab'.msgs[j].text = tab.msgs[j].text
    BY <1>1
  <2>2. \A k \in DOMAIN tab'.msgs : tab'.msgs[k].got # {} =>
            k \in DOMAIN tab.msgs /\ tab'.msgs[k].got = tab.msgs[k].got
    OBVIOUS
  <2> QED BY <1>3, <2>1, <2>2, AnsweredStays
<1>5. Live(tab')
  BY <1>1 DEF AnswerParts, PageAnswers, Live
<1>6. Opened(tab) => Opened(tab')
  <2> SUFFICES ASSUME Opened(tab) PROVE Opened(tab')
    OBVIOUS
  <2>1. PICK b : /\ Top(tab, b) /\ \A j \in Plain(tab) : j < b
                 /\ \A t \in tab.msgs[b].got : Faces(tab, t)
    BY DEF Opened
  <2>2. b \in DOMAIN tab'.msgs /\ b \in DOMAIN tab.msgs /\ tab'.msgs[b] = tab.msgs[b]
    BY <1>1, <2>1 DEF Top, Bubbles
  <2>3. \A t \in tab'.msgs[b].got : Faces(tab', t)
    BY <1>2, <1>3, <2>1, <2>2 DEF Answered
  <2> QED BY <1>1, <2>1, <2>3 DEF Opened
<1>7. Halfway(tab', wire')
  BY <1>1 DEF AnswerParts, PageAnswers, Halfway
<1>8. Busy' => Busy
  BY DEF Busy
<1>9. PageAnswers'
  BY <1>4, <1>5, <1>6, <1>7, <1>8 DEF AnswerParts, PageAnswers
<1>10. StreamAnswers'
  BY <1>2 DEF AnswerParts, StreamAnswers, Telling, Speaks
<1>11. PromptsAnswer'
  BY <1>1 DEF AnswerParts, PromptsAnswer
<1> QED BY <1>9, <1>10, <1>11 DEF AnswerParts

\* A message is shown dimmed.
Dims(c, d) ==
    /\ d.active = c.active /\ d.pin = c.pin /\ d.next = c.next + 1
    /\ DOMAIN d.msgs = DOMAIN c.msgs \cup {c.next}
    /\ d.msgs[c.next].awaiting /\ d.msgs[c.next].got = {}
    /\ \A i \in DOMAIN c.msgs : d.msgs[i] = c.msgs[i]
    /\ Users(d.msgs) = Users(c.msgs) \cup {c.next}
    /\ Bubbles(d.msgs) = Bubbles(c.msgs)

LEMMA SayDims == \A c, t : Whole(c) /\ t \in Texts => Dims(c, Say(c, t, TRUE))
<1> SUFFICES ASSUME NEW c, Whole(c), NEW t \in Texts PROVE Dims(c, Say(c, t, TRUE))
  OBVIOUS
<1> DEFINE yes == TRUE
           m == User(t, yes)
           d == Say(c, t, yes)
<1>1. m.awaiting /\ m.got = {}
  BY DEF User
<1>2. d = Say(c, t, yes) /\ m = User(t, yes) /\ yes \in BOOLEAN
  OBVIOUS
<1> HIDE DEF yes, m, d
<1>3. /\ Is(d, c.status, Add(c.msgs, c.next, m), c.active, c.pin, c.queue, c.next + 1)
      /\ DOMAIN d.msgs = DOMAIN c.msgs \cup {c.next} /\ d.msgs[c.next] = m
      /\ \A i \in DOMAIN c.msgs : d.msgs[i] = c.msgs[i]
      /\ Users(d.msgs) = Users(c.msgs) \cup {c.next}
      /\ Bubbles(d.msgs) = Bubbles(c.msgs)
  BY <1>2, SayIs
<1>4. Dims(c, d)
  BY <1>1, <1>3 DEF Dims, Is
<1> QED BY <1>4 DEF d, yes

LEMMA AnswersSaid ==
    ASSUME AnswerParts, Whole(tab), UNCHANGED <<pi, wire, prompts>>,
           told'.echoed = told.echoed, Dims(tab, tab')
    PROVE  AnswerParts'
<1>1. /\ DOMAIN tab'.msgs = DOMAIN tab.msgs \cup {tab.next}
      /\ tab'.msgs[tab.next].awaiting /\ tab'.msgs[tab.next].got = {}
      /\ \A i \in DOMAIN tab.msgs : tab'.msgs[i] = tab.msgs[i]
      /\ Users(tab'.msgs) = Users(tab.msgs) \cup {tab.next}
      /\ Bubbles(tab'.msgs) = Bubbles(tab.msgs)
  BY DEF Dims
<1>2. /\ tab'.active = tab.active /\ tab'.pin = tab.pin /\ tab'.next = tab.next + 1
      /\ tab.next \in Nat \ {0} /\ tab.next \notin DOMAIN tab.msgs
      /\ tab.active \in Nat /\ tab.pin \in Nat
      /\ \A i \in DOMAIN tab.msgs : i < tab.next /\ i \in Nat
  BY WholeParts DEF Dims
<1>3. /\ Plain(tab') = Plain(tab)
      /\ \A j \in Plain(tab) : tab'.msgs[j] = tab.msgs[j] /\ j < tab.next /\ j \in Nat
      /\ \A b : Top(tab', b) <=> Top(tab, b)
  BY <1>1, <1>2 DEF Plain, Users, Top
<1>4. \A t : Faces(tab', t) <=> Faces(tab, t)
  BY <1>3 DEF Faces
<1>5. Answered(tab', told.echoed)
  <2>1. \A k \in DOMAIN tab'.msgs : tab'.msgs[k].got # {} =>
            k \in DOMAIN tab.msgs /\ tab'.msgs[k].got = tab.msgs[k].got
    BY <1>1
  <2>2. Answered(tab, told.echoed)
    BY DEF AnswerParts, PageAnswers
  <2>3. \A j \in Plain(tab) : tab.msgs[j].text \in told.echoed =>
            j \in Plain(tab') /\ tab'.msgs[j].text = tab.msgs[j].text
    BY <1>3
  <2> QED BY <2>1, <2>2, <2>3, AnsweredStays
<1>6. Live(tab')
  <2>1. Live(tab)
    BY DEF AnswerParts, PageAnswers
  <2>2. tab.pin < tab.next /\ tab.active < tab.next
    BY <2>1 DEF Live
  <2>3. tab'.pin < tab'.next /\ tab'.active < tab'.next
    BY <1>2, <2>2
  <2> QED BY <1>1, <1>2, <1>3, <2>1, <2>2, <2>3 DEF Live
<1>7. Opened(tab) => Opened(tab')
  <2> SUFFICES ASSUME Opened(tab) PROVE Opened(tab')
    OBVIOUS
  <2>1. PICK b : /\ Top(tab, b) /\ \A j \in Plain(tab) : j < b
                 /\ \A t \in tab.msgs[b].got : Faces(tab, t)
    BY DEF Opened
  <2>2. tab'.msgs[b] = tab.msgs[b]
    BY <1>1, <2>1 DEF Top, Bubbles
  <2> QED BY <1>3, <1>4, <2>1, <2>2 DEF Opened
<1>8. Halfway(tab', wire')
  <2>1. \A t : Awaited(tab'.msgs, t) \subseteq Awaited(tab.msgs, t) \cup {tab.next}
    BY <1>1 DEF Awaited, Users
  <2>2. \A j \in Plain(tab') : j <= tab.next
    BY <1>2, <1>3
  <2> QED BY <1>3, <2>1, <2>2 DEF AnswerParts, PageAnswers, Halfway
<1>9. Busy' => Busy
  BY DEF Busy
<1>10. PageAnswers'
  BY <1>5, <1>6, <1>7, <1>8, <1>9 DEF AnswerParts, PageAnswers
<1>11. StreamAnswers'
  BY <1>4 DEF AnswerParts, StreamAnswers, Telling, Speaks
<1>12. PromptsAnswer'
  BY <1>3 DEF AnswerParts, PromptsAnswer
<1> QED BY <1>10, <1>11, <1>12 DEF AnswerParts

\* Nothing runs, and nothing is on the stream.
LEMMA QuietStream ==
    ASSUME wire' = <<>>, ~pi'.run
    PROVE  StreamAnswers' /\ Halfway(tab', wire')
<1>1. DOMAIN wire' = {}
  OBVIOUS
<1> QED BY <1>1 DEF StreamAnswers, Halfway, Adjacent, Closes, Telling

\* A prompt is shown while nothing runs, and its bubble is the last.
LEMMA AnswersSubmitted ==
    ASSUME AnswerParts, TypeInv, RefsInv, wire = <<>>, ~pi.run,
           \A r \in Senders : prompts[r].st # "sent", tab.pin \notin DOMAIN tab.msgs,
           UNCHANGED <<pi, wire>>, told'.echoed = told.echoed,
           NEW c, c.msgs = tab.msgs, c.next = tab.next, c.pin = tab.pin,
           NEW t, ShowsPrompt(c, tab', t), NEW s \in Senders,
           prompts'[s].st = "sent", prompts'[s].bubble = tab.next + 1,
           \A r \in Senders \ {s} : prompts'[r] = prompts[r]
    PROVE  AnswerParts'
<1> DEFINE n == tab.next
<1>1. /\ n \in Nat \ {0} /\ n \notin DOMAIN tab.msgs /\ tab.pin \in Nat
      /\ \A i \in DOMAIN tab.msgs : i < n /\ i \in Nat
      /\ Bubbles(tab.msgs) \subseteq DOMAIN tab.msgs
  BY WholeParts DEF TypeInv
<1>2. /\ tab'.pin = tab.pin /\ tab'.active = n + 1 /\ tab'.next = n + 2
      /\ DOMAIN tab'.msgs = DOMAIN tab.msgs \cup {n, n + 1}
      /\ tab'.msgs[n] = User(t, FALSE) /\ tab'.msgs[n + 1] = Bubble
      /\ \A i \in DOMAIN tab.msgs : tab'.msgs[i] = tab.msgs[i]
      /\ Bubbles(tab'.msgs) = Bubbles(tab.msgs) \cup {n + 1}
  BY DEF ShowsPrompt
<1> HIDE DEF n
<1>3. /\ tab'.msgs[n].role = "user" /\ tab'.msgs[n].got = {}
      /\ tab'.msgs[n + 1].role = "assistant" /\ tab'.msgs[n + 1].got = {}
  BY <1>2 DEF User, Bubble
<1>4. Top(tab', n + 1)
  BY <1>1, <1>2 DEF Top
<1>5. \A j \in Users(tab'.msgs) : j \in Nat /\ j < n + 1
  BY <1>1, <1>2, <1>3 DEF Users
<1>6. Live(tab')
  <2>1. tab.pin < n
    BY DEF AnswerParts, PageAnswers, Live, n
  <2>2. tab'.pin < tab'.next /\ tab'.active < tab'.next /\ tab'.pin \notin DOMAIN tab'.msgs
    BY <1>1, <1>2, <2>1
  <2> QED BY <1>2, <1>4, <2>2 DEF Live
<1>7. Opened(tab')
  <2>1. \A j \in Plain(tab') : j < n + 1
    BY <1>5 DEF Plain
  <2> QED BY <1>3, <1>4, <2>1 DEF Opened
<1>8. Answered(tab', told'.echoed)
  <2>1. Answered(tab, told.echoed) /\ told'.echoed = told.echoed
    BY DEF AnswerParts, PageAnswers
  <2>2. \A i \in DOMAIN tab'.msgs : tab'.msgs[i].got # {} =>
            i \in DOMAIN tab.msgs /\ tab'.msgs[i].got = tab.msgs[i].got
    BY <1>2, <1>3
  <2>3. \A j \in Plain(tab) : tab.msgs[j].text \in told.echoed =>
            j \in Plain(tab') /\ tab'.msgs[j].text = tab.msgs[j].text
    BY <1>2 DEF Plain, Users
  <2> QED BY <2>1, <2>2, <2>3, AnsweredStays
<1>9. StreamAnswers' /\ Halfway(tab', wire')
  BY QuietStream
<1>10. PageAnswers'
  BY <1>6, <1>7, <1>8, <1>9 DEF PageAnswers
<1>11. \A r \in Senders \ {s} : prompts[r].st # "none" =>
           prompts[r].bubble < n /\ prompts[r].bubble \in Nat
  BY DEF RefsInv, Refers, TypeInv, Prompts, n
<1>12. PromptsAnswer'
  <2> SUFFICES ASSUME NEW q \in Senders
               PROVE  /\ \A r \in Senders \ {q} :
                             prompts'[q].st # "none" /\ prompts'[r].st # "none" =>
                                 prompts'[q].bubble # prompts'[r].bubble
                      /\ prompts'[q].st = "sent" =>
                             /\ wire' = <<>> /\ ~pi'.run /\ Top(tab', prompts'[q].bubble)
                             /\ \A r \in Senders \ {q} : prompts'[r].st # "sent"
    BY DEF PromptsAnswer
  <2>1. prompts'[s].bubble = n + 1
    BY DEF n
  <2>2. CASE q = s
    <3>1. \A r \in Senders \ {s} : prompts[r].st # "none" => prompts[r].bubble # n + 1
      BY <1>1, <1>11
    <3> QED BY <1>4, <2>1, <2>2, <3>1
  <2>3. CASE q # s
    <3>1. prompts'[q] = prompts[q] /\ (prompts[q].st # "none" => prompts[q].bubble # n + 1)
      BY <1>1, <1>11, <2>3
    <3>2. \A r \in Senders \ {q} : r # s => prompts'[r] = prompts[r]
      OBVIOUS
    <3> QED BY <2>1, <3>1, <3>2 DEF AnswerParts, PromptsAnswer
  <2> QED BY <2>2, <2>3
<1> QED BY <1>9, <1>10, <1>12 DEF AnswerParts

\* A prompt that failed is taken back with its bubble, unless a newer turn owns the session.
LEMMA AnswersFailed ==
    ASSUME AnswerParts, TypeInv, RefsInv, NEW s \in Senders, SettleFailedPrompt(s),
           told'.lapse \cap {"tail", "lost"} = {}
    PROVE  AnswerParts'
<1> DEFINE b == prompts[s].bubble
<1>1. /\ Whole(tab) /\ told \in History /\ prompts \in [Senders -> Prompts] /\ b \in Nat
      /\ b \in DOMAIN tab.msgs => tab.msgs[b].role = "assistant"
  BY DEF TypeInv, RefsInv, Refers, SettleFailedPrompt, Prompts
<1>2. UNCHANGED <<pi, wire>>
  BY DEF SettleFailedPrompt
<1>3. /\ prompts'[s].st = "none" /\ \A r \in Senders \ {s} : prompts'[r] = prompts[r]
  BY <1>1, PromptedIs, NoRequests DEF SettleFailedPrompt
<1>4. CASE UNCHANGED <<tab, told>>
  <2>1. Live(tab)
    BY DEF AnswerParts, PageAnswers
  <2> QED BY <1>2, <1>3, <1>4, <2>1, AnswersSteady
<1>5. CASE /\ tab' = [SettleTurn(tab) EXCEPT !.msgs = Without(@, b)]
           /\ told' = Lapse(Tailed \cup Lost({}))
  <2>1. told'.echoed = told.echoed /\ told'.lapse = told.lapse \cup (Tailed \cup Lost({}))
    BY <1>1, <1>5, Excuses, LapseIs
  <2>2. wire = <<>> /\ ~pi.run
    BY <2>1 DEF Tailed, Lost
  <2>3. /\ tab'.next = tab.next /\ DOMAIN tab'.msgs = DOMAIN tab.msgs \ {b}
        /\ \A k \in DOMAIN tab'.msgs : tab'.msgs[k] = tab.msgs[k]
    BY <1>1, <1>5, TakenTab
  <2>4. tab'.active = 0 /\ tab'.pin = tab.pin
    <3>1. Is(SettleTurn(tab), "idle", tab.msgs, 0, tab.pin, tab.queue, tab.next)
      BY <1>1, SettledIs
    <3> QED BY <1>5, <3>1 DEF Is, Tabs
  <2>5. /\ tab.next \in Nat \ {0} /\ 0 \notin DOMAIN tab.msgs
        /\ \A i \in DOMAIN tab.msgs : i \in Nat
    BY <1>1, WholeParts
  <2> HIDE DEF b
  <2>6. /\ Plain(tab') = Plain(tab) /\ \A j \in Plain(tab) : tab'.msgs[j] = tab.msgs[j]
        /\ Bubbles(tab'.msgs) = Bubbles(tab.msgs) \ {b}
        /\ \A a : Top(tab, a) /\ a # b => Top(tab', a)
    <3>1. Users(tab'.msgs) = Users(tab.msgs) /\ Bubbles(tab'.msgs) = Bubbles(tab.msgs) \ {b}
      BY <1>1, <2>3 DEF Users, Bubbles, b
    <3>2. \A j \in Users(tab.msgs) : tab'.msgs[j] = tab.msgs[j]
      BY <2>3, <3>1 DEF Users
    <3> QED BY <3>1, <3>2 DEF Plain, Top
  <2>7. \A t : Faces(tab', t) <=> Faces(tab, t)
    BY <2>6 DEF Faces
  <2>8. Live(tab')
    BY <2>3, <2>4, <2>5, <2>6 DEF AnswerParts, PageAnswers, Live
  <2>9. Answered(tab', told'.echoed)
    <3>1. Answered(tab, told.echoed)
      BY DEF AnswerParts, PageAnswers
    <3>2. \A k \in DOMAIN tab'.msgs : tab'.msgs[k].got # {} =>
              k \in DOMAIN tab.msgs /\ tab'.msgs[k].got = tab.msgs[k].got
      BY <2>3
    <3>3. \A j \in Plain(tab) : tab.msgs[j].text \in told.echoed =>
              j \in Plain(tab') /\ tab'.msgs[j].text = tab.msgs[j].text
      BY <2>6
    <3> QED BY <2>1, <3>1, <3>2, <3>3, AnsweredStays
  <2>10. Busy' => Opened(tab')
    <3> SUFFICES ASSUME Busy' PROVE Opened(tab')
      OBVIOUS
    <3>1. PICK r \in Senders : prompts'[r].st = "sent"
      BY <1>2, <2>2 DEF Busy
    <3>2. r # s /\ prompts[r].st = "sent"
      BY <1>3, <3>1
    <3>3. Top(tab, prompts[r].bubble) /\ prompts[r].bubble # b
      <4>1. prompts[s].st = "idle"
        BY DEF SettleFailedPrompt
      <4> QED BY <3>2, <4>1 DEF AnswerParts, PromptsAnswer, b
    <3>4. Opened(tab)
      BY <3>2 DEF AnswerParts, PageAnswers, Busy
    <3>5. PICK a : /\ Top(tab, a) /\ \A j \in Plain(tab) : j < a
                   /\ \A t \in tab.msgs[a].got : Faces(tab, t)
      BY <3>4 DEF Opened
    <3>6. a = prompts[r].bubble
      <4>1. a \in Nat /\ prompts[r].bubble \in Nat
        BY <2>5, <3>3, <3>5 DEF Top, Bubbles
      <4>2. a <= prompts[r].bubble /\ prompts[r].bubble <= a
        BY <3>3, <3>5 DEF Top
      <4> QED BY <4>1, <4>2
    <3>7. Top(tab', a) /\ tab'.msgs[a] = tab.msgs[a]
      BY <2>3, <2>6, <3>3, <3>5, <3>6 DEF Top, Bubbles
    <3> QED BY <2>6, <2>7, <3>5, <3>7 DEF Opened
  <2>11. StreamAnswers' /\ Halfway(tab', wire')
    BY <1>2, <2>2, QuietStream
  <2>12. PageAnswers'
    BY <2>8, <2>9, <2>10, <2>11 DEF PageAnswers
  <2>13. PromptsAnswer'
    <3> SUFFICES ASSUME NEW q \in Senders, prompts'[q].st # "none"
                 PROVE  /\ \A r \in Senders \ {q} :
                               prompts'[r].st # "none" => prompts'[q].bubble # prompts'[r].bubble
                        /\ prompts'[q].st = "sent" =>
                               /\ wire' = <<>> /\ ~pi'.run /\ Top(tab', prompts'[q].bubble)
                               /\ \A r \in Senders \ {q} : prompts'[r].st # "sent"
      BY DEF PromptsAnswer
    <3>1. q # s /\ prompts'[q] = prompts[q]
      BY <1>3
    <3>2. \A r \in Senders : prompts'[r].st # "none" => prompts'[r] = prompts[r]
      BY <1>3
    <3>3. prompts[s].st = "idle" /\ prompts[q].bubble # b
      BY <3>1 DEF AnswerParts, PromptsAnswer, SettleFailedPrompt, b
    <3> QED BY <1>2, <2>2, <2>6, <3>1, <3>2, <3>3 DEF AnswerParts, PromptsAnswer
  <2> QED BY <2>11, <2>12, <2>13 DEF AnswerParts
<1> QED BY <1>4, <1>5 DEF SettleFailedPrompt

-----------------------------------------------------------------------------
\* ---- What the stream brings, and the replies ----

\* Messages that keep their places, texts, marks and replies
LEMMA AnswersSame ==
    ASSUME NEW c, NEW d, DOMAIN d.msgs = DOMAIN c.msgs,
           \A i \in DOMAIN c.msgs : /\ d.msgs[i].role = c.msgs[i].role
                                    /\ d.msgs[i].text = c.msgs[i].text
                                    /\ d.msgs[i].awaiting = c.msgs[i].awaiting
                                    /\ d.msgs[i].got = c.msgs[i].got
    PROVE  /\ Opened(c) => Opened(d)
           /\ \A e : Answered(c, e) => Answered(d, e)
           /\ \A t : Faces(c, t) => Faces(d, t)
           /\ \A b : Top(c, b) => Top(d, b)
<1>1. /\ Plain(d) = Plain(c) /\ \A j \in Plain(c) : d.msgs[j].text = c.msgs[j].text
      /\ \A b : Top(d, b) <=> Top(c, b)
      /\ \A t : Faces(d, t) <=> Faces(c, t)
  BY FacesSame
<1>2. ASSUME Opened(c) PROVE Opened(d)
  <2>1. PICK b : /\ Top(c, b) /\ \A j \in Plain(c) : j < b
                 /\ \A t \in c.msgs[b].got : Faces(c, t)
    BY <1>2 DEF Opened
  <2>2. d.msgs[b].got = c.msgs[b].got
    BY <2>1 DEF Top, Bubbles
  <2> QED BY <1>1, <2>1, <2>2 DEF Opened
<1>3. ASSUME NEW e, Answered(c, e) PROVE Answered(d, e)
  <2>1. \A i \in DOMAIN d.msgs : d.msgs[i].got # {} =>
            i \in DOMAIN c.msgs /\ d.msgs[i].got = c.msgs[i].got
    OBVIOUS
  <2>2. \A j \in Plain(c) : c.msgs[j].text \in e =>
            j \in Plain(d) /\ d.msgs[j].text = c.msgs[j].text
    BY <1>1
  <2> QED BY <1>3, <2>1, <2>2, AnsweredStays
<1> QED BY <1>1, <1>2, <1>3

\* An event that is neither an echo nor the end of the turn
LEMMA EventAnswers ==
    ASSUME NEW c, Whole(c), Live(c), Opened(c), NEW e, Answered(c, e), NEW v \in Events,
           v.k \notin {"start", "end", "settled"},
           v.k = "reply" => Faces(c, v.t) /\ v.t \in e,
           NEW d, d = Reduce(c, v)
    PROVE  Live(d) /\ Opened(d) /\ Answered(d, e) /\ \A t : Faces(c, t) => Faces(d, t)
<1>1. v.k \in Kinds /\ v.t \in Words /\ v.q \in Seq(Texts)
  BY DEF Events
<1>2. CASE v.k = "reply"
  <2>1. d = Write(c, v.t)
    BY <1>2 DEF Reduce
  <2> QED BY <1>1, <1>2, <2>1, WriteAnswers
<1>3. CASE v.k = "queue"
  <2>1. d = Reconcile(c, v.q)
    BY <1>3 DEF Reduce
  <2>2. PICK stay \in SUBSET DOMAIN c.queue, new \in SUBSET DOMAIN v.q :
            d = Enqueue(c, stay, v.q, new)
    BY <2>1 DEF Reconcile
  <2>3. Is(d, c.status, c.msgs, c.active, c.pin, d.queue, c.next + Len(v.q))
    BY <1>1, <2>2, EnqueueIs
  <2>4. /\ d.msgs = c.msgs /\ d.active = c.active /\ d.pin = c.pin
        /\ c.next <= d.next /\ d.next \in Nat
    <3>1. Len(v.q) \in Nat /\ c.next \in Nat
      BY <1>1, WholeParts
    <3> QED BY <2>3, <3>1 DEF Is
  <2>5. Live(d)
    BY <2>4, LiveSet
  <2> QED BY <2>4, <2>5, AnswersSame
<1>4. CASE v.k = "agent_end"
  <2> DEFINE r == Resolve(c)
  <2>1. d = ClearPending(r)
    BY <1>4 DEF Reduce
  <2>2. Bubbles(c.msgs) # {}
    BY DEF Opened, Top
  <2>3. /\ Whole(r) /\ r.msgs = c.msgs /\ r.next = c.next /\ r.pin \in {0, c.pin}
        /\ Top(c, r.active)
    BY <2>2, ResolveTop
  <2> HIDE DEF r
  <2>4. d.active = r.active /\ d.pin = r.pin /\ d.next = r.next
    BY <2>1, <2>3, ClearedIs DEF Is
  <2>5. /\ DOMAIN d.msgs = DOMAIN c.msgs
        /\ \A i \in DOMAIN c.msgs : /\ d.msgs[i].role = c.msgs[i].role
                                    /\ d.msgs[i].text = c.msgs[i].text
                                    /\ d.msgs[i].awaiting = c.msgs[i].awaiting
                                    /\ d.msgs[i].got = c.msgs[i].got
    <3>1. d.msgs = [i \in DOMAIN c.msgs |-> [c.msgs[i] EXCEPT !.pending = FALSE]]
      BY <2>1, <2>3 DEF ClearPending, Whole, Tabs
    <3>2. \A i \in DOMAIN c.msgs : c.msgs[i] \in Messages
      BY WholeParts
    <3> QED BY <3>1, <3>2 DEF Messages
  <2>6. /\ Opened(d) /\ Answered(d, e) /\ \A t : Faces(c, t) => Faces(d, t)
        /\ \A b : Top(c, b) => Top(d, b)
    BY <2>5, AnswersSame
  <2>7. Live(d)
    BY <2>3, <2>4, <2>5, <2>6, LiveStays
  <2> QED BY <2>6, <2>7
<1> QED BY <1>1, <1>2, <1>3, <1>4 DEF Kinds

\* The end of the turn
LEMMA SettledAnswers ==
    ASSUME NEW c, Whole(c), NEW e, Answered(c, e),
           NEW d, d = DropPin(ClearAwaiting(SettleTurn(c)))
    PROVE  Live(d) /\ Answered(d, e)
<1> DEFINE a == SettleTurn(c)
           b == ClearAwaiting(a)
<1>1. Is(a, "idle", c.msgs, 0, c.pin, c.queue, c.next) /\ Whole(a)
  BY SettledIs DEF Grows
<1>2. a.msgs = c.msgs /\ a.next = c.next /\ a.active = 0
  BY <1>1 DEF Is
<1>3. b = ClearAwaiting(a)
  OBVIOUS
<1> HIDE DEF a
<1>4. Is(b, a.status, b.msgs, a.active, a.pin, a.queue, a.next) /\ Whole(b)
  BY <1>1, <1>3, ClearedIs DEF Grows
<1>5. b.msgs = [i \in DOMAIN c.msgs |-> [c.msgs[i] EXCEPT !.awaiting = FALSE]]
  BY <1>1, <1>2, <1>3 DEF ClearAwaiting, Whole, Tabs
<1>6. d = DropPin(b)
  BY DEF a
<1> HIDE DEF b
<1>7. d.msgs = b.msgs /\ d.active = 0 /\ d.pin = 0 /\ d.next = c.next
  BY <1>2, <1>4, <1>6, SettledIs DEF Is
<1>8. /\ \A i \in DOMAIN c.msgs : c.msgs[i] \in Messages
      /\ 0 \notin DOMAIN c.msgs /\ c.next \in Nat \ {0}
  BY WholeParts
<1>9. /\ DOMAIN d.msgs = DOMAIN c.msgs
      /\ \A i \in DOMAIN c.msgs : /\ d.msgs[i].role = c.msgs[i].role
                                  /\ d.msgs[i].text = c.msgs[i].text
                                  /\ ~d.msgs[i].awaiting
                                  /\ d.msgs[i].got = c.msgs[i].got
  BY <1>5, <1>7, <1>8 DEF Messages
<1>10. Live(d)
  BY <1>7, <1>8, <1>9 DEF Live
<1>11. Answered(d, e)
  <2>1. \A i \in DOMAIN d.msgs : d.msgs[i].got # {} =>
            i \in DOMAIN c.msgs /\ d.msgs[i].got = c.msgs[i].got
    BY <1>9
  <2>2. \A j \in Plain(c) : c.msgs[j].text \in e =>
            j \in Plain(d) /\ d.msgs[j].text = c.msgs[j].text
    BY <1>9 DEF Plain, Users
  <2> QED BY <2>1, <2>2, AnsweredStays
<1> QED BY <1>10, <1>11

\* The stream without the event that has come
LEMMA StreamShortens ==
    ASSUME StreamAnswers, wire \in Seq(Events), wire # <<>>, wire' = Tail(wire), pi' = pi,
           told.echoed \subseteq told'.echoed,
           ~EchoAt(wire, 1) => \A t \in told.echoed : Faces(tab, t) => Faces(tab', t),
           wire[1].k = "end" => Faces(tab', wire[1].t) /\ wire[1].t \in told'.echoed
    PROVE  StreamAnswers'
<1>1. /\ Adjacent(wire) /\ Closes(wire, pi.run) /\ Telling(tab, wire, told.echoed)
      /\ pi.run => Speaks(tab, wire, told.echoed, Len(wire) + 1, pi.on)
  BY DEF StreamAnswers
<1>2. /\ \A t : Speaks(tab, wire, told.echoed, Len(wire) + 1, t) =>
                    Speaks(tab', wire', told'.echoed, Len(wire') + 1, t)
      /\ Telling(tab', wire', told'.echoed)
  BY <1>1, SpeaksNext
<1>3. Adjacent(wire')
  BY <1>1, AdjacentRest
<1>4. Closes(wire', pi'.run)
  <2> SUFFICES ASSUME NEW k \in DOMAIN wire', wire'[k].k = "settled"
               PROVE  k = Len(wire') /\ ~pi'.run
    BY DEF Closes
  <2>1. k + 1 \in DOMAIN wire /\ wire'[k] = wire[k + 1] /\ k \in Nat
        /\ Len(wire') = Len(wire) - 1 /\ Len(wire) \in Nat
    OBVIOUS
  <2>2. k + 1 = Len(wire) /\ ~pi.run
    BY <1>1, <2>1 DEF Closes
  <2> QED BY <2>1, <2>2
<1> QED BY <1>1, <1>2, <1>3, <1>4 DEF StreamAnswers

LEMMA AnswersReceived ==
    ASSUME AnswerParts, DimInv, TypeInv, Receive, "overlap" \notin told'.lapse
    PROVE  AnswerParts'
<1> DEFINE e == Head(wire)
<1>1. /\ Whole(tab) /\ told \in History /\ wire \in Seq(Events) /\ wire # <<>> /\ PiInv
  BY DEF TypeInv, PiInv, Sound, Receive
<1>2. /\ e = wire[1] /\ e \in Events /\ e.k \in Kinds /\ (e.k \in {"start", "end"} => e.t \in Texts)
      /\ 1 \in DOMAIN wire
  BY <1>1, TailSound DEF PiInv, Events
<1>3. /\ wire' = Tail(wire) /\ tab' = Reduce(tab, e) /\ UNCHANGED <<pi, prompts>>
  BY DEF Receive
<1>4. /\ told'.echoed = IF e.k = "end" THEN told.echoed \cup {e.t} ELSE told.echoed
      /\ told'.lapse = told.lapse \cup Mistaken(e)
  BY <1>1 DEF Receive, History
<1>5. told.echoed \subseteq told'.echoed /\ (e.k = "end" => e.t \in told'.echoed)
  BY <1>4
<1> HIDE DEF e
<1>6. /\ Live(tab) /\ Answered(tab, told.echoed) /\ Halfway(tab, wire) /\ StreamAnswers
      /\ Opened(tab)
  BY <1>1 DEF AnswerParts, PageAnswers, Busy
<1>7. \A s \in Senders : prompts[s].st # "sent"
  BY <1>1 DEF AnswerParts, PromptsAnswer
<1>8. PromptsAnswer'
  BY <1>3, <1>7 DEF AnswerParts, PromptsAnswer
<1>9. /\ Tail(wire) # <<>> /\ Tail(wire)[1].k = "end" => e.k = "start" /\ e.t = Tail(wire)[1].t
  BY <1>1, <1>2, <1>6, AdjacentRest DEF StreamAnswers
<1>10. EchoAt(wire, 1) <=> e.k \in {"start", "end"}
  BY <1>2 DEF EchoAt
<1>11. CASE e.k \in {"start", "end"}
  <2>1. tab' = EchoUser(tab, e.t) /\ e.t \in Texts
    BY <1>2, <1>3, <1>11 DEF Reduce
  <2>2. Awaited(tab.msgs, e.t) = {} /\ MatchesLast(tab.msgs, e.t) =>
            tab.msgs[Latest(Users(tab.msgs))].text = e.t
    BY <1>4, <1>11 DEF Mistaken, Overlapped
  <2>3. /\ Live(tab') /\ Opened(tab') /\ Answered(tab', told'.echoed)
        /\ (\A i \in Awaited(tab.msgs, e.t) : \A j \in Plain(tab) : j <= i) => Faces(tab', e.t)
        /\ (\A i, j \in Awaited(tab.msgs, e.t) : i = j) => Awaited(tab'.msgs, e.t) = {}
    <3> DEFINE old == told.echoed
               new == told'.echoed
               t == e.t
    <3>1. /\ Whole(tab) /\ Live(tab) /\ Opened(tab) /\ Answered(tab, old) /\ old \subseteq new
          /\ t \in Texts /\ tab' = EchoUser(tab, t)
          /\ Awaited(tab.msgs, t) = {} /\ MatchesLast(tab.msgs, t) =>
                 tab.msgs[Latest(Users(tab.msgs))].text = t
      BY <1>1, <1>5, <1>6, <2>1, <2>2
    <3> HIDE DEF old, new, t
    <3>2. /\ Live(tab') /\ Opened(tab') /\ Answered(tab', new)
          /\ (\A i \in Awaited(tab.msgs, t) : \A j \in Plain(tab) : j <= i) => Faces(tab', t)
          /\ (\A i, j \in Awaited(tab.msgs, t) : i = j) => Awaited(tab'.msgs, t) = {}
      BY <3>1, EchoAnswers
    <3> QED BY <3>2 DEF new, t
  <2>4. e.k = "end" => Faces(tab', e.t)
    BY <1>1, <1>2, <1>6, <2>3 DEF Halfway
  <2>5. StreamAnswers'
    BY <1>1, <1>2, <1>3, <1>5, <1>6, <1>10, <1>11, <2>4, StreamShortens
  <2>6. Awaited(tab'.msgs, e.t) = {}
    BY <2>3 DEF DimInv
  <2>7. Halfway(tab', wire')
    BY <1>3, <1>9, <2>6 DEF Halfway
  <2>8. PageAnswers'
    BY <2>3, <2>7 DEF PageAnswers
  <2> QED BY <1>8, <2>5, <2>8 DEF AnswerParts
<1>12. CASE e.k \notin {"start", "end", "settled"}
  <2>1. e.k = "reply" => Faces(tab, e.t) /\ e.t \in told.echoed
    <3> SUFFICES ASSUME e.k = "reply" PROVE Faces(tab, e.t) /\ e.t \in told.echoed
      OBVIOUS
    <3>1. Speaks(tab, wire, told.echoed, 1, e.t)
      BY <1>2, <1>6 DEF StreamAnswers, Telling
    <3>2. 1..(1 - 1) = {}
      OBVIOUS
    <3> QED BY <3>1, <3>2 DEF Speaks, Follows
  <2>2. /\ Live(tab') /\ Opened(tab') /\ Answered(tab', told.echoed)
        /\ \A t : Faces(tab, t) => Faces(tab', t)
    BY <1>1, <1>2, <1>3, <1>6, <1>12, <2>1, EventAnswers
  <2>3. StreamAnswers'
    BY <1>1, <1>2, <1>3, <1>5, <1>6, <1>12, <2>2, StreamShortens
  <2>4. Halfway(tab', wire')
    BY <1>3, <1>9, <1>12 DEF Halfway
  <2>5. told'.echoed = told.echoed
    BY <1>4, <1>12
  <2>6. PageAnswers'
    BY <2>2, <2>4, <2>5 DEF PageAnswers
  <2> QED BY <1>8, <2>3, <2>6 DEF AnswerParts
<1>13. CASE e.k = "settled"
  <2>1. Len(wire) = 1 /\ ~pi.run
    BY <1>2, <1>6, <1>13 DEF StreamAnswers, Closes
  <2>2. wire' = <<>> /\ ~pi'.run
    BY <1>1, <1>3, <2>1
  <2>3. tab' = DropPin(ClearAwaiting(SettleTurn(tab)))
    BY <1>3, <1>13 DEF Reduce
  <2>4. told'.echoed = told.echoed
    BY <1>4, <1>13
  <2>5. Live(tab') /\ Answered(tab', told'.echoed)
    BY <1>1, <1>6, <2>3, <2>4, SettledAnswers
  <2>6. StreamAnswers' /\ Halfway(tab', wire')
    BY <2>2, QuietStream
  <2>7. ~Busy'
    BY <1>3, <1>7, <2>2 DEF Busy
  <2>8. PageAnswers'
    BY <2>5, <2>6, <2>7 DEF PageAnswers
  <2> QED BY <1>8, <2>6, <2>8 DEF AnswerParts
<1> QED BY <1>11, <1>12, <1>13

-----------------------------------------------------------------------------
\* ---- The replies, at every step ----

\* The status changes, the turn is settled or a live target set or dropped.
LEMMA AnswersQuiet ==
    ASSUME AnswerParts, TypeInv, RefsInv, "late" \notin told'.lapse,
           Poll \/ Abort \/ \E s \in Senders : AcceptPrompt(s) \/ AcceptControl(s)
    PROVE  AnswerParts'
<1>1. Whole(tab) /\ told \in History /\ prompts \in [Senders -> Prompts]
  BY DEF TypeInv
<1>2. /\ tab'.msgs = tab.msgs /\ tab'.next = tab.next /\ tab.next \in Nat
  BY <1>1, SteadyTab, WholeParts
<1>3. UNCHANGED <<pi, wire>> /\ told'.echoed = told.echoed
  <2>1. \A why : Lapse(why).echoed = told.echoed
    BY <1>1 DEF Lapse, History
  <2> QED BY <2>1 DEF Poll, Abort, AcceptPrompt, AcceptControl
<1>4. Live(tab)
  BY DEF AnswerParts, PageAnswers
<1>5. CASE Poll \/ Abort \/ \E s \in Senders : AcceptControl(s)
  <2>1. tab'.pin \in {0, tab.pin} /\ tab'.active \in {0, tab.active}
    BY <1>1, <1>5 DEF Poll, Abort, AcceptControl, DropPin, SettleTurn, Whole, Tabs
  <2>2. Live(tab')
    BY <1>1, <1>2, <1>4, <2>1, LiveSet
  <2>3. prompts' = prompts
    BY <1>5 DEF Poll, Abort, AcceptControl
  <2> QED BY <1>2, <1>3, <2>2, <2>3, AnswersSteady
<1>6. ASSUME NEW s \in Senders, AcceptPrompt(s) PROVE AnswerParts'
  <2> DEFINE b == prompts[s].bubble
  <2>1. /\ tab' = [tab EXCEPT !.status = "running", !.active = IF @ = 0 THEN b ELSE @, !.pin = b]
        /\ told' = Lapse(IF \E i \in Bubbles(tab.msgs) : i > b THEN {"late"} ELSE {})
    BY <1>6 DEF AcceptPrompt
  <2>2. /\ b \in Nat /\ b < tab.next /\ (b \in DOMAIN tab.msgs => tab.msgs[b].role = "assistant")
    BY <1>1, <1>6 DEF AcceptPrompt, RefsInv, Refers, Prompts
  <2>3. prompts'[s].st = "none" /\ \A r \in Senders \ {s} : prompts'[r] = prompts[r]
    BY <1>1, <1>6, PromptedIs, NoRequests DEF AcceptPrompt
  <2> HIDE DEF b
  <2>4. ~\E i \in Bubbles(tab.msgs) : i > b
    BY <1>1, <2>1 DEF Lapse, History
  <2>5. b \in DOMAIN tab.msgs => Top(tab, b)
    <3>1. \A i \in Bubbles(tab.msgs) : i \in Nat
      BY <1>1, WholeParts
    <3> QED BY <2>2, <2>4, <3>1 DEF Top, Bubbles
  <2>6. tab'.pin = b /\ tab'.active \in {tab.active, b}
    BY <1>1, <2>1 DEF Whole, Tabs
  <2>7. Live(tab')
    BY <1>1, <1>2, <1>4, <2>2, <2>5, <2>6, LiveSet
  <2> QED BY <1>2, <1>3, <2>3, <2>7, AnswersSteady
<1> QED BY <1>5, <1>6

\* A follow-up is queued.
LEMMA AnswersQueued ==
    ASSUME AnswerParts, Whole(tab), NEW t \in Texts, NEW s, Control(s, "follow_up", t),
           UNCHANGED <<pi, wire, prompts>>, told'.echoed = told.echoed
    PROVE  AnswerParts'
<1>1. tab' = [tab EXCEPT !.queue = Add(@, tab.next, t), !.next = @ + 1]
  BY DEF Control
<1>2. Is(tab', tab.status, tab.msgs, tab.active, tab.pin, Add(tab.queue, tab.next, t), tab.next + 1)
  BY <1>1, QueueOneIs
<1>3. /\ tab'.msgs = tab.msgs /\ tab'.pin = tab.pin /\ tab'.active = tab.active
      /\ tab.next <= tab'.next /\ tab'.next \in Nat
  <2>1. tab.next \in Nat
    BY WholeParts
  <2> QED BY <1>2, <2>1 DEF Is
<1>4. Live(tab')
  <2>1. Live(tab)
    BY DEF AnswerParts, PageAnswers
  <2> QED BY <1>3, <2>1, LiveSet
<1> QED BY <1>3, <1>4, AnswersSteady

\* A prompt is shown that neither a run, nor another prompt, nor a live target meets.
LEMMA AnswersPrompted ==
    ASSUME AnswerParts, TypeInv, RefsInv, NEW c, Whole(c),
           c.msgs = tab.msgs, c.next = tab.next, c.pin = tab.pin,
           NEW t \in Texts, NEW s \in Senders, Submit(s, c, t),
           UNCHANGED <<pi, wire>>, told'.echoed = told.echoed,
           Pinned = {}, Tailed = {}, Lost(Senders) = {}
    PROVE  AnswerParts'
<1>1. prompts \in [Senders -> Prompts]
  BY DEF TypeInv
<1>2. /\ wire = <<>> /\ ~pi.run /\ tab.pin \notin DOMAIN tab.msgs
      /\ \A r \in Senders : prompts[r].st # "sent"
  BY DEF Pinned, Tailed, Lost
<1>3. /\ ShowsPrompt(c, tab', t) /\ prompts'[s].st = "sent" /\ prompts'[s].bubble = c.next + 1
      /\ \A r \in Senders \ {s} : prompts'[r] = prompts[r]
  BY <1>1, SubmitIs
<1>4. prompts'[s].bubble = tab.next + 1
  BY <1>3
<1> QED BY <1>2, <1>3, <1>4, AnswersSubmitted

LEMMA AnswersSent ==
    ASSUME AnswerParts, TypeInv, RefsInv, told'.lapse \cap {"tail", "pinned", "lost"} = {},
           SendPrompt \/ SendControl \/ AnswerAbort \/ Resume \/ Promote
    PROVE  AnswerParts'
<1>1. Whole(tab) /\ told \in History /\ abort \in Aborts
  BY DEF TypeInv
<1>2. UNCHANGED <<pi, wire>>
  BY DEF SendPrompt, SendControl, AnswerAbort, Resume, Promote
<1>3. "composer" \in Senders /\ "resume" \in Senders
  BY DEF Senders
<1>4. CASE SendPrompt
  <2>1. PICK t \in Fresh :
          /\ Submit("composer", tab, t)
          /\ told' = [told EXCEPT !.used = @ \cup {t},
                                  !.lapse = @ \cup Pinned \cup Tailed \cup Lost(Senders)]
    BY <1>4 DEF SendPrompt
  <2>2. told'.echoed = told.echoed /\ told'.lapse = told.lapse \cup Pinned \cup Tailed \cup Lost(Senders)
    BY <1>1, <2>1 DEF History
  <2>3. Pinned = {} /\ Tailed = {} /\ Lost(Senders) = {}
    BY <2>2 DEF Pinned, Tailed, Lost
  <2>4. t \in Texts
    BY DEF Fresh
  <2> QED BY <1>1, <1>2, <1>3, <2>1, <2>2, <2>3, <2>4, AnswersPrompted
<1>5. CASE SendControl
  <2>1. PICK mode \in {"steer", "follow_up"}, t \in Fresh :
          /\ Control("composer", mode, t)
          /\ told' = [told EXCEPT !.used = @ \cup {t},
                                  !.steers = IF mode = "steer" THEN @ \cup {t} ELSE @]
    BY <1>5 DEF SendControl
  <2>2. told'.echoed = told.echoed /\ prompts' = prompts /\ t \in Texts
    BY <1>1, <1>5, <2>1 DEF History, SendControl, Fresh
  <2>3. CASE mode = "follow_up"
    BY <1>1, <1>2, <2>1, <2>2, <2>3, AnswersQueued
  <2>4. CASE mode = "steer"
    <3>1. tab' = Say(tab, t, TRUE)
      BY <2>1, <2>4 DEF Control
    <3>2. Dims(tab, tab')
      BY <1>1, <2>2, <3>1, SayDims
    <3> QED BY <1>1, <1>2, <2>2, <3>2, AnswersSaid
  <2> QED BY <2>3, <2>4
<1>6. CASE AnswerAbort
  <2> DEFINE i == Earliest(DOMAIN abort.held)
             t == abort.held[i]
             c == [SettleTurn(tab) EXCEPT !.queue = Nothing]
  <2>1. CASE DOMAIN abort.held = {}
    <3>1. tab' = SettleTurn(tab) /\ told' = Lapse(Tailed) /\ prompts' = prompts
      BY <1>6, <2>1 DEF AnswerAbort
    <3>2. told'.echoed = told.echoed
      BY <1>1, <3>1 DEF Lapse, History
    <3>3. /\ tab'.msgs = tab.msgs /\ tab'.pin = tab.pin /\ tab'.active = 0
          /\ tab'.next = tab.next /\ tab.next \in Nat
      BY <1>1, <3>1, SettledIs, WholeParts DEF Is
    <3>4. Live(tab')
      <4>1. Live(tab)
        BY DEF AnswerParts, PageAnswers
      <4> QED BY <1>1, <3>3, <4>1, LiveSet
    <3> QED BY <1>2, <3>1, <3>2, <3>3, <3>4, AnswersSteady
  <2>2. CASE DOMAIN abort.held # {}
    <3>1. /\ Submit("resume", c, t)
          /\ told' = Lapse(Tailed \cup Pinned \cup Lost(Senders) \cup SentAgain \cup Cleared)
      BY <1>6, <2>2 DEF AnswerAbort
    <3>2. t \in Texts
      BY <1>1, <2>2, FirstHeld
    <3>3. Is(c, "idle", tab.msgs, 0, tab.pin, Nothing, tab.next) /\ Grows(tab, c)
      BY <1>1, AbortedIs
    <3> HIDE DEF c, t
    <3>4. Whole(c) /\ c.msgs = tab.msgs /\ c.next = tab.next /\ c.pin = tab.pin
      BY <3>3 DEF Is, Grows
    <3>5. /\ told'.echoed = told.echoed
          /\ Tailed \subseteq told'.lapse /\ Pinned \subseteq told'.lapse
          /\ Lost(Senders) \subseteq told'.lapse
      BY <1>1, <3>1 DEF Lapse, History
    <3>6. Pinned = {} /\ Tailed = {} /\ Lost(Senders) = {}
      BY <3>5 DEF Pinned, Tailed, Lost
    <3> QED BY <1>2, <1>3, <3>1, <3>2, <3>4, <3>5, <3>6, AnswersPrompted
  <2> QED BY <2>1, <2>2
<1>7. CASE Resume
  <2>1. UNCHANGED <<prompts, told>>
    BY <1>7 DEF Resume
  <2>2. CASE tab' = tab
    <3>1. Live(tab)
      BY DEF AnswerParts, PageAnswers
    <3> QED BY <1>2, <2>1, <2>2, <3>1, AnswersSteady
  <2>3. CASE /\ DOMAIN abort.held # {}
             /\ Control("resume", "follow_up", abort.held[Earliest(DOMAIN abort.held)])
    <3>1. abort.held[Earliest(DOMAIN abort.held)] \in Texts
      BY <1>1, <2>3, FirstHeld
    <3> QED BY <1>1, <1>2, <2>1, <2>3, <3>1, AnswersQueued
  <2> QED BY <1>7, <2>2, <2>3 DEF Resume
<1>8. CASE Promote
  <2>1. PICK i \in DOMAIN tab.queue : tab' = Say(tab, tab.queue[i], TRUE)
    BY <1>8 DEF Promote
  <2>2. tab.queue[i] \in Texts
    BY <1>1, WholeParts
  <2>3. Dims(tab, tab')
    BY <1>1, <2>1, <2>2, SayDims
  <2>4. UNCHANGED <<prompts, told>>
    BY <1>8 DEF Promote
  <2> QED BY <1>1, <1>2, <2>3, <2>4, AnswersSaid
<1> QED BY <1>4, <1>5, <1>6, <1>7, <1>8

LEMMA AnswersTakenBack ==
    ASSUME AnswerParts, TypeInv, RefsInv, "rollback" \notin told'.lapse,
           PromoteRefused \/ \E s \in Senders : RollBackControl(s)
    PROVE  AnswerParts'
<1>1. Whole(tab) /\ told \in History
  BY DEF TypeInv
<1>2. ASSUME NEW i, NEW j,
             \/ tab' = [tab EXCEPT !.msgs = Without(@, i)]
             \/ tab' = [tab EXCEPT !.msgs = Without(@, i), !.queue = Without(@, j)],
             UNCHANGED <<pi, wire, prompts>>, told'.echoed = told.echoed,
             i \notin Bubbles(tab.msgs), i \in Plain(tab) => tab.msgs[i].text \notin told.echoed
      PROVE  AnswerParts'
  <2>1. /\ tab'.next = tab.next /\ DOMAIN tab'.msgs = DOMAIN tab.msgs \ {i}
        /\ \A k \in DOMAIN tab'.msgs : tab'.msgs[k] = tab.msgs[k]
    BY <1>1, <1>2, TakenTab
  <2>2. tab'.active = tab.active /\ tab'.pin = tab.pin
    BY <1>1, <1>2 DEF Whole, Tabs
  <2> QED BY <1>1, <1>2, <2>1, <2>2, AnswersTaken
<1>3. CASE PromoteRefused
  <2>1. /\ tab' = [tab EXCEPT !.msgs = Without(@, promote)]
        /\ told' = Lapse(IF promote \in DOMAIN tab.msgs /\ ~tab.msgs[promote].awaiting
                         THEN TakenBack(tab.msgs[promote].text) ELSE {})
        /\ UNCHANGED <<pi, wire, prompts>>
    BY <1>3 DEF PromoteRefused
  <2>2. promote \notin Bubbles(tab.msgs)
    BY DEF RefsInv, Refers, Bubbles
  <2>3. told'.echoed = told.echoed
    BY <1>1, <2>1 DEF Lapse, History
  <2>4. promote \in Plain(tab) => tab.msgs[promote].text \notin told.echoed
    BY <1>1, <2>1 DEF Plain, Users, Lapse, History, TakenBack
  <2> QED BY <1>2, <2>1, <2>2, <2>3, <2>4
<1>4. ASSUME NEW s \in Senders, RollBackControl(s) PROVE AnswerParts'
  <2> DEFINE i == controls[s].id
  <2>1. /\ tab' = [tab EXCEPT !.msgs = Without(@, i), !.queue = Without(@, i)]
        /\ told' = Lapse(TakenBack(controls[s].text))
        /\ UNCHANGED <<pi, wire, prompts>> /\ controls[s].st # "none"
    BY <1>4 DEF RollBackControl
  <2>2. Refers(tab, i, "user") /\ Names(tab, i, controls[s].text)
    BY <2>1 DEF RefsInv
  <2>3. told'.echoed = told.echoed /\ controls[s].text \notin told.echoed
    BY <1>1, <2>1 DEF Lapse, History, TakenBack
  <2> HIDE DEF i
  <2>4. i \notin Bubbles(tab.msgs) /\ (i \in Plain(tab) => tab.msgs[i].text \notin told.echoed)
    BY <2>2, <2>3 DEF Refers, Names, Bubbles, Plain, Users
  <2> QED BY <1>2, <2>1, <2>3, <2>4
<1> QED BY <1>3, <1>4

LEMMA AnswersKept ==
    ASSUME AnswerInv, DimInv, TypeInv, RefsInv, [Next]_vars
    PROVE  AnswerInv'
<1> DEFINE why == {"late", "tail", "pinned", "lost", "overlap", "rollback"}
<1>1. told.lapse \subseteq told'.lapse
  BY LapseGrows
<1> SUFFICES ASSUME told'.lapse \cap why = {} PROVE AnswerParts'
  BY DEF AnswerInv, Excused
<1>2. AnswerParts
  BY <1>1 DEF AnswerInv, Excused
<1>3. CASE UNCHANGED vars
  <2>1. /\ UNCHANGED <<pi, wire, tab, prompts, told>>
    BY <1>3 DEF vars
  <2>2. Live(tab)
    BY <1>2 DEF AnswerParts, PageAnswers
  <2> QED BY <1>2, <2>1, <2>2, AnswersSteady
<1>4. CASE \/ Runtime \/ TakeAbort
           \/ \E s \in Senders : TakePrompt(s) \/ TakeControl(s) \/ ProbeFailedPrompt(s)
  BY <1>2, <1>4, AnswersOfPi
<1>5. CASE Receive
  BY <1>2, <1>5, AnswersReceived
<1>6. CASE Poll \/ Abort \/ \E s \in Senders : AcceptPrompt(s) \/ AcceptControl(s)
  BY <1>2, <1>6, AnswersQuiet
<1>7. CASE SendPrompt \/ SendControl \/ AnswerAbort \/ Resume \/ Promote
  BY <1>2, <1>7, AnswersSent
<1>8. CASE PromoteRefused \/ \E s \in Senders : RollBackControl(s)
  BY <1>2, <1>8, AnswersTakenBack
<1>9. CASE \E s \in Senders : SettleFailedPrompt(s)
  BY <1>2, <1>9, AnswersFailed
<1> QED BY <1>3, <1>4, <1>5, <1>6, <1>7, <1>8, <1>9 DEF Next, Requests

LEMMA AnswersAtFirst == ASSUME Init PROVE DimInv /\ AnswerInv
<1>1. /\ tab.msgs = Nothing /\ tab.active = 0 /\ tab.pin = 0 /\ tab.next = 1
      /\ wire = <<>> /\ ~pi.run /\ \A s \in Senders : prompts[s].st = "none"
  BY NoRequests DEF Init
<1>2. DOMAIN tab.msgs = {} /\ Users(tab.msgs) = {} /\ Bubbles(tab.msgs) = {} /\ DOMAIN wire = {}
  BY <1>1, NothingIsList DEF Users, Bubbles
<1>3. DimInv
  BY <1>2 DEF DimInv, Awaited
<1>4. Live(tab) /\ Answered(tab, told.echoed)
  BY <1>1, <1>2 DEF Live, Answered
<1>5. ~Busy
  BY <1>1 DEF Busy
<1>6. PageAnswers
  BY <1>1, <1>4, <1>5 DEF PageAnswers, Halfway
<1>7. StreamAnswers
  BY <1>1, <1>2 DEF StreamAnswers, Adjacent, Closes, Telling
<1>8. PromptsAnswer
  BY <1>1 DEF PromptsAnswer
<1> QED BY <1>3, <1>6, <1>7, <1>8 DEF AnswerInv, AnswerParts

-----------------------------------------------------------------------------
\* ---- Steers and their markers ----

\* Steers are no follow-ups and no prompts.
SteerInv ==
    /\ told.steers \subseteq told.used
    /\ \A t \in told.steers : /\ ~Waits(t)
                              /\ \A s \in Senders : prompts[s].st # "none" => prompts[s].text # t

\* The bubble a reply is written into leaves the other messages alone.
LEMMA ResolveMarks ==
    ASSUME NEW c, Whole(c), NEW d, d = Resolve(c)
    PROVE  \A i \in DOMAIN c.msgs : d.msgs[i] = c.msgs[i]
<1>1. /\ c \in Tabs /\ c.active \in Nat /\ c.pin \in Nat /\ c.next \in Nat \ {0}
      /\ c.status \in Statuses /\ c.msgs \in Lists(Messages) /\ c.queue \in Lists(Texts)
      /\ 0 \in Nat
  BY WholeParts DEF Whole
<1> DEFINE p == IF c.pin \in DOMAIN c.msgs THEN c.pin ELSE 0
           checked == [c EXCEPT !.pin = p]
           last == Latest(Bubbles(c.msgs))
<1>2. checked = [c EXCEPT !.pin = IF @ \in DOMAIN c.msgs THEN @ ELSE 0]
  BY <1>1 DEF Tabs
<1>3. d = IF c.pin \in DOMAIN c.msgs THEN [c EXCEPT !.active = c.pin]
          ELSE IF c.active \in DOMAIN c.msgs THEN checked
          ELSE IF Bubbles(c.msgs) # {} THEN [checked EXCEPT !.active = last]
          ELSE OpenBubble(checked)
  BY <1>2 DEF Resolve
<1>4. Is(checked, c.status, c.msgs, c.active, p, c.queue, c.next)
  <2>1. p \in Nat
    BY <1>1
  <2>2. \A n \in Nat : Is([c EXCEPT !.pin = n], c.status, c.msgs, c.active, n, c.queue, c.next)
    BY <1>1, TabUpdates
  <2> QED BY <2>1, <2>2
<1> HIDE DEF p, checked, last
<1>5. checked \in Tabs /\ checked.msgs = c.msgs /\ checked.queue = c.queue
      /\ checked.next = c.next
  BY <1>4 DEF Is
<1>6. Whole(checked)
  BY <1>5, SameLists DEF Grows
<1>7. CASE d = [c EXCEPT !.active = c.pin]
  BY <1>1, <1>7 DEF Tabs
<1>8. CASE d = checked
  BY <1>5, <1>8
<1>9. CASE d = [checked EXCEPT !.active = last]
  BY <1>5, <1>9 DEF Tabs
<1>10. CASE d = OpenBubble(checked)
  <2>1. \A i \in DOMAIN checked.msgs : d.msgs[i] = checked.msgs[i]
    BY <1>6, <1>10, OpenBubbleIs
  <2> QED BY <1>5, <2>1
<1> QED BY <1>3, <1>7, <1>8, <1>9, <1>10

\* A marker is taken by the echo of its message, and at the end of the turn, and not else.
LEMMA MarksStay ==
    ASSUME NEW c, Whole(c), NEW e \in Events, e.k \in {"start", "end"} => e.t \in Texts,
           e.k # "settled", NEW d, d = Reduce(c, e), NEW i \in Users(c.msgs),
           c.msgs[i].awaiting, e.k \in {"start", "end"} => c.msgs[i].text # e.t
    PROVE  d.msgs[i].awaiting
<1>1. e.k \in Kinds /\ e.t \in Words /\ e.q \in Seq(Texts) /\ i \in DOMAIN c.msgs
  BY DEF Events, Users
<1>2. CASE e.k \in {"start", "end"}
  <2>1. d = EchoUser(c, e.t) /\ e.t \in Texts
    BY <1>2 DEF Reduce
  <2>2. i \notin Awaited(c.msgs, e.t)
    BY <1>2 DEF Awaited
  <2>3. CASE Awaited(c.msgs, e.t) # {}
    <3>1. PICK w \in Awaited(c.msgs, e.t) : Turns(c, d, w)
      BY <2>1, <2>3, EchoOpens
    <3> QED BY <1>1, <2>2, <3>1 DEF Turns
  <2>4. CASE Awaited(c.msgs, e.t) = {} /\ MatchesLast(c.msgs, e.t)
    BY <2>1, <2>4, EchoOpens
  <2>5. CASE Unmatched(c, e.t)
    <3>1. AddsUser(c, d, e.t)
      BY <2>1, <2>5, EchoOpens
    <3>2. d.msgs[i] = c.msgs[i]
      BY <1>1, <3>1 DEF AddsUser
    <3> QED BY <3>2
  <2> QED BY <2>3, <2>4, <2>5 DEF Unmatched
<1> DEFINE r == Resolve(c)
<1>3. /\ Whole(r) /\ i \in DOMAIN r.msgs /\ r.msgs[i] = c.msgs[i]
  <2>1. Grows(c, r) /\ \A j \in DOMAIN c.msgs : r.msgs[j] = c.msgs[j]
    BY ResolveIs, ResolveMarks
  <2> QED BY <1>1, <2>1 DEF Grows
<1> HIDE DEF r
<1>4. /\ r \in Tabs /\ DOMAIN r.msgs \subseteq Nat \ {0} /\ r.msgs[i] \in Messages
      /\ r.msgs \in [DOMAIN r.msgs -> Messages]
  BY <1>3, WholeParts, ListsAreFunctions DEF Whole
<1>5. CASE e.k = "reply"
  <2>1. d = [r EXCEPT !.msgs[r.active].got = @ \cup {e.t}]
    BY <1>5 DEF Reduce, Write, r
  <2>2. d.msgs = [r.msgs EXCEPT ![r.active].got = @ \cup {e.t}]
    BY <1>4, <2>1 DEF Tabs
  <2> QED BY <1>3, <1>4, <2>2 DEF Messages
<1>6. CASE e.k = "queue"
  <2>1. PICK stay \in SUBSET DOMAIN c.queue, new \in SUBSET DOMAIN e.q :
            d = Enqueue(c, stay, e.q, new)
    BY <1>6 DEF Reduce, Reconcile
  <2>2. Is(d, c.status, c.msgs, c.active, c.pin, d.queue, c.next + Len(e.q))
    BY <1>1, <2>1, EnqueueIs
  <2> QED BY <2>2 DEF Is
<1>7. CASE e.k = "agent_end"
  <2>1. d = ClearPending(r)
    BY <1>7 DEF Reduce, r
  <2>2. d.msgs = [j \in DOMAIN r.msgs |-> [r.msgs[j] EXCEPT !.pending = FALSE]]
    BY <1>4, <2>1 DEF ClearPending, Tabs
  <2> QED BY <1>3, <1>4, <2>2 DEF Messages
<1> QED BY <1>1, <1>2, <1>5, <1>6, <1>7 DEF Kinds

\* The marker and the state of pi are as they were, except for steers that are new.
LEMMA MarksStand ==
    ASSUME MarkedInv, told.lapse \subseteq told'.lapse, told.echoed \subseteq told'.echoed,
           NEW new, told'.steers \subseteq told.steers \cup new,
           \A t \in told.steers \ told'.echoed :
              /\ Owed(t)' => Owed(t)
              /\ Halved(t) => Halved(t)'
              /\ \A i \in Own(tab', promote', t) :
                    i \in Own(tab, promote, t) /\ (tab.msgs[i].awaiting => tab'.msgs[i].awaiting),
           \A t \in new : \A i \in Own(tab', promote', t) : tab'.msgs[i].awaiting
    PROVE  MarkedInv'
<1> SUFFICES ASSUME ~Excused({"outlived"})', NEW t \in told'.steers \ told'.echoed,
                    NEW i \in Own(tab', promote', t)
             PROVE  tab'.msgs[i].awaiting \/ Halved(t)' \/ ~Owed(t)'
  BY DEF MarkedInv
<1>1. CASE t \in new
  BY <1>1
<1>2. CASE t \notin new
  <2>1. t \in told.steers \ told.echoed /\ t \in told.steers \ told'.echoed
    BY <1>2
  <2>2. ~Excused({"outlived"})
    BY DEF Excused
  <2>3. tab.msgs[i].awaiting \/ Halved(t) \/ ~Owed(t)
    BY <2>1, <2>2 DEF MarkedInv
  <2> QED BY <2>1, <2>3
<1> QED BY <1>1, <1>2

LEMMA ToldGrows ==
    ASSUME TypeInv, [Next]_vars
    PROVE  /\ told.used \subseteq told'.used /\ told.echoed \subseteq told'.echoed
           /\ ~SendControl => told'.steers = told.steers
<1> DEFINE more == /\ told.used \subseteq told'.used /\ told.echoed \subseteq told'.echoed
                   /\ told'.steers = told.steers
<1>1. told \in History
  BY DEF TypeInv
<1>2. ASSUME told' = told \/ \E why : told' = Lapse(why) PROVE more
  BY <1>1, <1>2 DEF Lapse, History
<1>3. CASE Receive
  BY <1>1, <1>3 DEF Receive, History
<1>4. CASE SendPrompt
  BY <1>1, <1>4 DEF SendPrompt, History
<1>5. CASE \/ UNCHANGED vars \/ Runtime \/ Promote \/ Abort \/ TakeAbort \/ Resume
           \/ \E s \in Senders : \/ TakePrompt(s) \/ ProbeFailedPrompt(s)
                               \/ TakeControl(s) \/ AcceptControl(s)
  <2>1. told' = told
    BY <1>5 DEF vars, Runtime, PiDelivers, PiReplies, PiRetries, PiSettles, Works, Promote, Abort,
                TakeAbort, Resume, TakePrompt, ProbeFailedPrompt, TakeControl, AcceptControl
  <2> QED BY <1>2, <2>1
<1>6. CASE Poll \/ PromoteRefused \/ AnswerAbort
  <2>1. told' = told \/ \E why : told' = Lapse(why)
    BY <1>6 DEF Poll, PromoteRefused, AnswerAbort
  <2> QED BY <1>2, <2>1
<1>7. ASSUME NEW s \in Senders, AcceptPrompt(s) \/ SettleFailedPrompt(s) \/ RollBackControl(s)
      PROVE  more
  <2>1. told' = told \/ \E why : told' = Lapse(why)
    BY <1>7 DEF AcceptPrompt, SettleFailedPrompt, RollBackControl
  <2> QED BY <1>2, <2>1
<1>8. CASE SendControl
  BY <1>8, SendControlIs DEF Remembers
<1> QED BY <1>3, <1>4, <1>5, <1>6, <1>7, <1>8 DEF Next, Requests

\* A prompt says a text that is new or a follow-up.
LEMMA PromptsSay ==
    ASSUME TypeInv, [Next]_vars, NEW s \in Senders, prompts'[s].st # "none"
    PROVE  \/ prompts[s].st # "none" /\ prompts'[s].text = prompts[s].text
           \/ SendPrompt /\ prompts'[s].text \in Fresh
           \/ prompts'[s].text \in Range(abort.held)
<1>1. prompts \in [Senders -> Prompts] /\ NoPrompt.st = "none"
  BY NoRequests DEF TypeInv
<1>2. CASE UNCHANGED prompts
  BY <1>2
<1>3. CASE SendPrompt
  <2>1. PICK t \in Fresh : prompts'["composer"].text = t
                          /\ \A r \in Senders \ {"composer"} : prompts'[r] = prompts[r]
    <3>1. PICK t \in Fresh : Submit("composer", tab, t)
      BY <1>3 DEF SendPrompt
    <3> QED BY <1>1, <3>1 DEF Submit, Senders
  <2> QED BY <1>3, <2>1
<1>4. CASE AnswerAbort
  <2>1. CASE UNCHANGED prompts
    BY <1>2, <2>1
  <2>2. CASE ~UNCHANGED prompts
    <3>1. PICK i \in DOMAIN abort.held : \A r \in Senders :
              prompts'[r] = prompts[r] \/ prompts'[r].text = abort.held[i]
      BY <1>4, <2>2, AnswerAbortIs
    <3> QED BY <3>1 DEF Range
  <2> QED BY <2>1, <2>2
<1>5. ASSUME NEW r \in Senders, TakePrompt(r) \/ ProbeFailedPrompt(r)
      PROVE  prompts[s].st # "none" /\ prompts'[s].text = prompts[s].text
  <2>1. \E st \in {"none", "sent", "taken", "failed", "active", "idle"} :
            prompts[r].st # "none" /\ Prompted(r, st)
    BY <1>5 DEF TakePrompt, ProbeFailedPrompt
  <2> QED BY <1>1, <2>1 DEF Prompted
<1>6. ASSUME NEW r \in Senders, AcceptPrompt(r) \/ SettleFailedPrompt(r)
      PROVE  prompts[s].st # "none" /\ prompts'[s].text = prompts[s].text
  <2>1. prompts' = [prompts EXCEPT ![r] = NoPrompt]
    BY <1>6 DEF AcceptPrompt, SettleFailedPrompt
  <2> QED BY <1>1, <2>1
<1>7. ASSUME NEW r \in Senders, TakeControl(r) \/ AcceptControl(r) \/ RollBackControl(r)
      PROVE  UNCHANGED prompts
  BY <1>7 DEF TakeControl, AcceptControl, RollBackControl
<1>8. CASE \/ UNCHANGED vars \/ Runtime \/ Receive \/ Poll \/ SendControl \/ Promote \/ PromoteRefused
           \/ Abort \/ TakeAbort \/ Resume
  <2>1. UNCHANGED prompts
    BY <1>8 DEF vars, Runtime, PiDelivers, PiReplies, PiRetries, PiSettles, Works, Receive, Poll,
                SendControl, Promote, PromoteRefused, Abort, TakeAbort, Resume
  <2> QED BY <1>2, <2>1
<1> QED BY <1>2, <1>3, <1>4, <1>5, <1>6, <1>7, <1>8 DEF Next, Requests

LEMMA SteersKept ==
    ASSUME SteerInv, TypeInv, RefsInv, UsedInv, WaitsLess, [Next]_vars
    PROVE  SteerInv'
<1>1. Whole(tab) /\ told \in History /\ controls \in [Senders -> Controls]
  BY DEF TypeInv
<1>2. ASSUME NEW t \in told.steers
      PROVE  ~Waits(t)' /\ \A s \in Senders : prompts'[s].st # "none" => prompts'[s].text # t
  <2>1. t \in told.used /\ ~Waits(t)
    BY DEF SteerInv
  <2>2. t \notin Fresh /\ t \notin Range(abort.held)
    BY <2>1 DEF Fresh, Waits
  <2>3. \A s \in Senders : prompts'[s].st # "none" => prompts'[s].text # t
    BY <2>2, PromptsSay DEF SteerInv
  <2> QED BY <2>1, <2>3 DEF WaitsLess
<1>3. told.used \subseteq told'.used
  BY ToldGrows
<1>4. CASE ~SendControl
  <2>1. told'.steers = told.steers
    BY <1>4, ToldGrows
  <2> QED BY <1>2, <1>3, <2>1 DEF SteerInv
<1>5. CASE SendControl
  <2>1. PICK mode \in {"steer", "follow_up"}, t \in Fresh :
           /\ Control("composer", mode, t)
           /\ told' = [told EXCEPT !.used = @ \cup {t},
                                   !.steers = IF mode = "steer" THEN @ \cup {t} ELSE @]
    BY <1>5 DEF SendControl
  <2>2. t \in Texts /\ told'.used = told.used \cup {t} /\ "composer" \in Senders
        /\ told'.steers = IF mode = "steer" THEN told.steers \cup {t} ELSE told.steers
    BY <1>1, <2>1 DEF Fresh, History, Senders
  <2>3. UNCHANGED <<pi, wire, prompts, promote, abort>>
    BY <1>5 DEF SendControl
  <2>4. ASSUME mode = "steer"
        PROVE  ~Waits(t)' /\ \A s \in Senders : prompts'[s].st # "none" => prompts'[s].text # t
    <3>1. ~Waits(t) /\ t \notin told.used
      BY FreshIsNowhere DEF Fresh
    <3>2. tab'.queue = tab.queue /\ controls'["composer"].mode = mode
          /\ \A s \in Senders \ {"composer"} : controls'[s] = controls[s]
      BY <1>1, <2>1, <2>2, <2>4, ControlIs
    <3>3. ~Waits(t)'
      BY <2>3, <2>4, <3>1, <3>2 DEF Waits
    <3>4. \A s \in Senders : prompts'[s].st # "none" => prompts'[s].text # t
      BY <2>3, <3>1 DEF UsedInv
    <3> QED BY <3>3, <3>4
  <2> QED BY <1>2, <1>3, <2>2, <2>4 DEF SteerInv
<1> QED BY <1>4, <1>5

\* ---- What pi owes ----

\* A step of pi that is told new steers or prompts
Says(new) ==
    /\ Range(pi'.steering) \subseteq Range(pi.steering) \cup new
    /\ \A e \in Range(wire') : e.k = "start" =>
          e \in Range(wire) \/ e.t \in Range(pi.steering) \cup Range(pi.followUp) \cup new

LEMMA SaysOnly ==
    ASSUME PiInv, NEW new, Range(pi'.steering) \subseteq Range(pi.steering) \cup new,
           NEW s \in Seq(Events), wire' = wire \o s,
           \A e \in Range(s) : e.k = "start" =>
              e.t \in Range(pi.steering) \cup Range(pi.followUp) \cup new
    PROVE  Says(new)
<1>1. Range(wire') = Range(wire) \cup Range(s)
  BY ConcatParts DEF PiInv, Sound
<1> QED BY <1>1 DEF Says

LEMMA SaysOfPi ==
    ASSUME TypeInv, RefsInv,
           Runtime \/ TakeAbort \/ (\E s \in Senders : \/ TakePrompt(s) \/ TakeControl(s)
                                                       \/ ProbeFailedPrompt(s))
    PROVE  \E new : /\ Says(new)
                    /\ \A u \in new : \E s \in Senders :
                          \/ prompts[s].st = "sent" /\ prompts[s].text = u
                          \/ controls[s].st = "sent" /\ controls[s].mode = "steer"
                             /\ controls[s].text = u
<1> DEFINE sent(u) == \E s \in Senders :
                          \/ prompts[s].st = "sent" /\ prompts[s].text = u
                          \/ controls[s].st = "sent" /\ controls[s].mode = "steer"
                             /\ controls[s].text = u
           goal == \E new : Says(new) /\ \A u \in new : sent(u)
<1>1. /\ PiInv /\ pi \in Pis /\ wire \in Seq(Events)
      /\ pi.steering \in Seq(Texts) /\ pi.followUp \in Seq(Texts) /\ pi.on \in Words
  BY DEF TypeInv, PiInv, Pis, Sound
<1>2. \A e \in Events : Append(wire, e) = wire \o <<e>> /\ <<e>> \in Seq(Events) /\ Range(<<e>>) = {e}
  <2>1. \A e \in Events : Append(wire, e) = wire \o <<e>> /\ <<e>> \in Seq(Events)
    BY <1>1, AppendIsConcat
  <2> QED BY <2>1 DEF Range
<1>3. /\ RunEnds \in Seq(Events) /\ \A e \in Range(RunEnds) : e.k # "start"
      /\ \A t \in Texts : Echo(t) \in Seq(Events) /\ \A e \in Range(Echo(t)) : e.t = t
  <2>1. RunEnds \in Seq(Events) /\ \A t \in Texts : Echo(t) \in Seq(Events)
    BY RunEndsIsSound, EchoIsSound DEF Sound
  <2>2. \A e \in Range(RunEnds) : e.k # "start"
    BY DEF RunEnds, Range, Event
  <2> QED BY <2>1, <2>2, EchoIsSound
<1>4. ASSUME UNCHANGED <<pi, wire>> PROVE goal
  <2>1. Says({})
    BY <1>4 DEF Says
  <2> QED BY <2>1
<1>5. ASSUME pi'.steering = pi.steering, NEW e \in Events, e.k # "start", wire' = Append(wire, e)
      PROVE  goal
  <2>1. Says({})
    BY <1>1, <1>2, <1>5, SaysOnly
  <2> QED BY <2>1
<1>6. ASSUME Range(pi'.steering) \subseteq Range(pi.steering), wire' = wire \o RunEnds PROVE goal
  <2>1. Says({})
    BY <1>1, <1>3, <1>6, SaysOnly
  <2> QED BY <2>1
<1>7. ASSUME NEW t \in Texts, sent(t), Starts(t) PROVE goal
  <2>1. pi'.steering = pi.steering /\ wire' = wire \o Echo(t)
    BY <1>1, <1>7 DEF Starts, Pis
  <2>2. Says({t})
    BY <1>1, <1>3, <2>1, SaysOnly
  <2> QED BY <1>7, <2>2
<1>8. ASSUME NEW t \in Texts, NEW mode, Holds(mode, t), mode = "steer" => sent(t) PROVE goal
  <2>1. CASE mode = "steer"
    <3>1. pi'.steering = Append(pi.steering, t) /\ wire' = wire
      BY <1>1, <1>8, <2>1 DEF Holds, Pis
    <3>2. Range(pi'.steering) = Range(pi.steering) \cup {t}
      BY <1>1, <3>1, RangeParts
    <3>3. Says({t})
      BY <3>1, <3>2 DEF Says
    <3> QED BY <1>8, <2>1, <3>3
  <2>2. CASE mode # "steer"
    <3>1. pi'.steering = pi.steering /\ wire' = Append(wire, Queued(Append(pi.followUp, t)))
      BY <1>1, <1>8, <2>2 DEF Holds, Pis
    <3>2. /\ Queued(Append(pi.followUp, t)) \in Events
          /\ Queued(Append(pi.followUp, t)).k = "queue"
      <4>1. Append(pi.followUp, t) \in Seq(Texts)
        BY <1>1
      <4> QED BY <4>1, EventsAre
    <3> QED BY <1>5, <3>1, <3>2
  <2> QED BY <2>1, <2>2
<1>9. CASE PiDelivers
  <2>1. CASE /\ pi.steering # <<>>
             /\ pi' = [pi EXCEPT !.on = Head(pi.steering), !.steering = Tail(@)]
             /\ wire' = wire \o Echo(Head(pi.steering))
    <3> DEFINE t == Head(pi.steering)
    <3>1. /\ t \in Texts /\ t \in Range(pi.steering) /\ wire' = wire \o Echo(t)
          /\ Range(Tail(pi.steering)) \subseteq Range(pi.steering)
      BY <1>1, <2>1, RangeParts
    <3>2. pi'.steering = Tail(pi.steering)
      BY <1>1, <2>1 DEF Pis
    <3> HIDE DEF t
    <3>3. Range(pi'.steering) \subseteq Range(pi.steering) /\ Echo(t) \in Seq(Events)
          /\ \A e \in Range(Echo(t)) : e.t \in Range(pi.steering)
      BY <1>3, <3>1, <3>2
    <3>4. Says({})
      BY <1>1, <3>1, <3>3, SaysOnly
    <3> QED BY <3>4
  <2>2. CASE /\ pi.followUp # <<>>
             /\ pi' = [pi EXCEPT !.on = Head(pi.followUp), !.followUp = Tail(@)]
             /\ wire' = Append(wire, Queued(Tail(pi.followUp))) \o Echo(Head(pi.followUp))
    <3> DEFINE t == Head(pi.followUp)
               e == Queued(Tail(pi.followUp))
    <3>1. t \in Texts /\ t \in Range(pi.followUp) /\ Tail(pi.followUp) \in Seq(Texts)
      BY <1>1, <2>2, RangeParts
    <3>2. pi'.steering = pi.steering
      BY <1>1, <2>2 DEF Pis
    <3>3. e \in Events /\ e.k = "queue" /\ wire' = Append(wire, e) \o Echo(t)
      BY <2>2, <3>1, EventsAre
    <3> HIDE DEF t, e
    <3> DEFINE v == Append(wire, e)
               s == Echo(t)
    <3>4. v \in Seq(Events) /\ Range(v) = Range(wire) \cup {e} /\ wire' = v \o s
      BY <1>1, <3>3, RangeParts
    <3>5. Range(wire') = Range(wire) \cup {e} \cup Range(Echo(t))
      <4>1. s \in Seq(Events)
        BY <1>3, <3>1
      <4> HIDE DEF v, s
      <4>2. Range(v \o s) = Range(v) \cup Range(s)
        BY <3>4, <4>1, ConcatParts
      <4>3. Range(wire') = Range(wire) \cup {e} \cup Range(s)
        BY <3>4, <4>2
      <4> QED BY <4>3 DEF s
    <3>6. Says({})
      BY <1>3, <3>1, <3>2, <3>3, <3>5 DEF Says
    <3> QED BY <3>6
  <2> QED BY <1>9, <2>1, <2>2 DEF PiDelivers, Works
<1>10. CASE PiReplies \/ PiRetries
  <2>1. pi' = pi
    BY <1>10 DEF PiReplies, PiRetries, Works
  <2>2. /\ Event("reply", pi.on, <<>>) \in Events /\ Event("reply", pi.on, <<>>).k = "reply"
        /\ Event("agent_end", None, <<>>) \in Events
        /\ Event("agent_end", None, <<>>).k = "agent_end"
    BY <1>1, EventsOfPi
  <2> QED BY <1>5, <1>10, <2>1, <2>2 DEF PiReplies, PiRetries
<1>11. CASE PiSettles
  <2>1. pi'.steering = pi.steering /\ wire' = wire \o RunEnds
    BY <1>1, <1>11 DEF PiSettles, Works, Pis
  <2> QED BY <1>6, <2>1
<1>12. CASE TakeAbort
  <2>1. CASE pi' = [pi EXCEPT !.run = FALSE] /\ wire' = wire \o RunEnds
    <3>1. pi'.steering = pi.steering
      BY <1>1, <2>1 DEF Pis
    <3> QED BY <1>6, <2>1, <3>1
  <2>2. CASE /\ pi' = [pi EXCEPT !.run = FALSE, !.steering = <<>>, !.followUp = <<>>]
             /\ wire' = Append(wire, Queued(<<>>)) \o RunEnds
    <3> DEFINE e == Queued(<<>>)
    <3>1. pi'.steering = <<>> /\ Range(<<>>) = {} /\ <<>> \in Seq(Texts)
      BY <1>1, <2>2 DEF Pis, Range
    <3>2. e \in Events /\ e.k = "queue" /\ wire' = Append(wire, e) \o RunEnds
      BY <2>2, <3>1, EventsAre
    <3> HIDE DEF e
    <3> DEFINE v == Append(wire, e)
               s == RunEnds
    <3>3. v \in Seq(Events) /\ Range(v) = Range(wire) \cup {e} /\ wire' = v \o s
      BY <1>1, <3>2, RangeParts
    <3>4. Range(wire') = Range(wire) \cup {e} \cup Range(RunEnds)
      <4>1. s \in Seq(Events)
        BY <1>3
      <4> HIDE DEF v, s
      <4>2. Range(v \o s) = Range(v) \cup Range(s)
        BY <3>3, <4>1, ConcatParts
      <4>3. Range(wire') = Range(wire) \cup {e} \cup Range(s)
        BY <3>3, <4>2
      <4> QED BY <4>3 DEF s
    <3>5. Says({})
      BY <1>3, <3>1, <3>2, <3>4 DEF Says
    <3> QED BY <3>5
  <2> QED BY <1>4, <1>12, <2>1, <2>2 DEF TakeAbort
<1>13. ASSUME NEW s \in Senders, TakePrompt(s) PROVE goal
  <2>1. prompts[s].st = "sent" /\ prompts[s].text \in Texts
    BY <1>13 DEF TakePrompt, RefsInv
  <2>2. sent(prompts[s].text)
    BY <2>1
  <2>3. \/ Starts(prompts[s].text) \/ Holds("steer", prompts[s].text) \/ UNCHANGED <<pi, wire>>
    BY <1>13 DEF TakePrompt
  <2> HIDE DEF goal, sent
  <2> QED BY <1>4, <1>7, <1>8, <2>1, <2>2, <2>3
<1>14. ASSUME NEW s \in Senders, TakeControl(s) PROVE goal
  <2>1. controls[s].st = "sent" /\ controls[s].text \in Texts
    BY <1>14 DEF TakeControl, RefsInv
  <2>2. controls[s].mode = "steer" => sent(controls[s].text)
    BY <2>1
  <2>3. Holds(controls[s].mode, controls[s].text) \/ UNCHANGED <<pi, wire>>
    BY <1>14 DEF TakeControl
  <2> HIDE DEF goal, sent
  <2> QED BY <1>4, <1>8, <2>1, <2>2, <2>3
<1>15. ASSUME NEW s \in Senders, ProbeFailedPrompt(s) PROVE goal
  BY <1>4, <1>15 DEF ProbeFailedPrompt
<1> QED BY <1>9, <1>10, <1>11, <1>12, <1>13, <1>14, <1>15 DEF Runtime

\* Pi comes to owe no steer that was sent before.
LEMMA OwedOfPi ==
    ASSUME TypeInv, RefsInv, UsedInv, SteerInv,
           Runtime \/ TakeAbort \/ (\E s \in Senders : \/ TakePrompt(s) \/ TakeControl(s)
                                                       \/ ProbeFailedPrompt(s)),
           NEW t \in told.steers, Owed(t)'
    PROVE  Owed(t)
<1>1. PICK new : /\ Says(new)
                 /\ \A u \in new : \E s \in Senders :
                       \/ prompts[s].st = "sent" /\ prompts[s].text = u
                       \/ controls[s].st = "sent" /\ controls[s].mode = "steer"
                          /\ controls[s].text = u
  BY SaysOfPi
<1>2. \A s \in Senders : /\ controls'[s].text = controls[s].text
                         /\ controls'[s].mode = controls[s].mode
                         /\ controls'[s].st = "sent" => controls[s].st = "sent"
  BY TakesOf
<1>3. t \notin Range(pi.followUp) /\ \A s \in Senders : prompts[s].st = "sent" => prompts[s].text # t
  BY DEF SteerInv, Waits
<1>4. ASSUME t \in Range(pi.steering) \cup Range(pi.followUp) \cup new PROVE Owed(t)
  BY <1>1, <1>3, <1>4 DEF Owed
<1>5. CASE \E s \in Senders : /\ controls'[s].st = "sent" /\ controls'[s].mode = "steer"
                              /\ controls'[s].text = t
  BY <1>2, <1>5 DEF Owed
<1>6. CASE t \in Range(pi'.steering)
  BY <1>1, <1>4, <1>6 DEF Says
<1>7. CASE \E e \in Range(wire') : e.k = "start" /\ e.t = t
  <2>1. PICK e \in Range(wire') : e.k = "start" /\ e.t = t
    BY <1>7
  <2>2. e \in Range(wire) \/ t \in Range(pi.steering) \cup Range(pi.followUp) \cup new
    BY <1>1, <2>1 DEF Says
  <2> QED BY <1>4, <2>1, <2>2 DEF Owed
<1> QED BY <1>5, <1>6, <1>7 DEF Owed

\* ---- The markers of the steers ----

\* The two events of an echo stay together.
LEMMA AdjacentKept ==
    ASSUME Adjacent(wire), TypeInv, RefsInv, [Next]_vars
    PROVE  Adjacent(wire')
<1>1. PiInv /\ wire \in Seq(Events)
  BY DEF TypeInv, PiInv, Sound
<1>2. CASE wire' = wire
  BY <1>2
<1>3. ASSUME NEW s, Tells(s), wire' = wire \o s PROVE Adjacent(wire')
  <2>1. s \in Seq(Events) /\ Adjacent(s) /\ (s # <<>> => s[1].k # "end")
    BY <1>3 DEF Tells
  <2>2. Adjacent(wire \o s)
    BY <1>1, <2>1, AdjacentMore
  <2> QED BY <1>3, <2>2
<1>4. ASSUME NEW t \in Texts, Starts(t) PROVE Adjacent(wire')
  <2>1. Echo(t) \in Seq(Events) /\ Adjacent(Echo(t)) /\ Echo(t)[1].k = "start"
    BY EchoIsSound, EchoTalks DEF Sound
  <2> DEFINE s == Echo(t)
  <2>2. s \in Seq(Events) /\ Adjacent(s) /\ s[1].k # "end" /\ wire' = wire \o s
    BY <1>4, <2>1 DEF Starts
  <2> HIDE DEF s
  <2>3. Adjacent(wire \o s)
    BY <1>1, <2>2, AdjacentMore
  <2> QED BY <2>2, <2>3
<1>5. ASSUME NEW mode, NEW t \in Texts, Holds(mode, t) PROVE Adjacent(wire')
  <2>1. pi.run
    BY <1>5 DEF Holds
  <2> QED BY <1>1, <1>3, <1>5, <2>1, PiTells
<1>6. CASE Runtime
  <2>1. pi.run
    BY <1>6 DEF Runtime, PiDelivers, PiReplies, PiRetries, PiSettles
  <2> QED BY <1>1, <1>3, <1>6, <2>1, PiTells
<1>7. CASE TakeAbort
  <2>1. CASE pi.run
    BY <1>1, <1>3, <1>7, <2>1, PiTells
  <2>2. CASE ~pi.run
    BY <1>2, <1>7, <2>2 DEF TakeAbort
  <2> QED BY <2>1, <2>2
<1>8. ASSUME NEW s \in Senders, TakePrompt(s) PROVE Adjacent(wire')
  <2>1. prompts[s].text \in Texts
    BY <1>8 DEF TakePrompt, RefsInv
  <2>2. \/ Starts(prompts[s].text) \/ Holds("steer", prompts[s].text) \/ wire' = wire
    BY <1>8 DEF TakePrompt
  <2> QED BY <1>2, <1>4, <1>5, <2>1, <2>2
<1>9. ASSUME NEW s \in Senders, TakeControl(s) PROVE Adjacent(wire')
  <2>1. controls[s].text \in Texts
    BY <1>9 DEF TakeControl, RefsInv
  <2>2. Holds(controls[s].mode, controls[s].text) \/ wire' = wire
    BY <1>9 DEF TakeControl
  <2> QED BY <1>2, <1>5, <2>1, <2>2
<1>10. CASE Receive
  <2>1. wire # <<>> /\ wire' = Tail(wire)
    BY <1>10 DEF Receive
  <2> QED BY <1>1, <2>1, AdjacentRest
<1>11. CASE \/ UNCHANGED vars \/ Poll \/ SendPrompt \/ SendControl \/ Promote \/ PromoteRefused
            \/ Abort \/ AnswerAbort \/ Resume
            \/ \E s \in Senders : \/ AcceptPrompt(s) \/ ProbeFailedPrompt(s)
                                  \/ SettleFailedPrompt(s) \/ AcceptControl(s)
                                  \/ RollBackControl(s)
  <2>1. wire' = wire
    BY <1>11 DEF vars, Poll, SendPrompt, SendControl, Promote, PromoteRefused, Abort, AnswerAbort,
                 Resume, AcceptPrompt, ProbeFailedPrompt, SettleFailedPrompt, AcceptControl,
                 RollBackControl
  <2> QED BY <1>2, <2>1
<1> QED BY <1>6, <1>7, <1>8, <1>9, <1>10, <1>11 DEF Next, Requests

\* The messages are as they were, but for some that are gone and one of these texts.
Stays(new) == \A i \in Users(tab'.msgs) :
    (i \in DOMAIN tab.msgs /\ tab'.msgs[i] = tab.msgs[i]) \/ tab'.msgs[i].text \in new

LEMMA MarkedSteady ==
    ASSUME MarkedInv, told.lapse \subseteq told'.lapse, told'.echoed = told.echoed,
           told'.steers = told.steers, UNCHANGED <<pi, wire>>,
           NEW new, Stays(new), new \cap told.steers = {},
           promote' = promote \/ promote \notin DOMAIN tab'.msgs,
           \A s \in Senders : \/ controls'[s] = controls[s] \/ controls'[s].st = "none"
                              \/ controls'[s].mode = "follow_up"
    PROVE  MarkedInv'
<1>1. \A t : Owed(t)' => Owed(t)
  BY DEF Owed
<1>2. \A t : Halved(t) => Halved(t)'
  BY DEF Halved
<1>3. ASSUME NEW t \in told.steers, NEW i \in Own(tab', promote', t)
      PROVE  i \in Own(tab, promote, t) /\ (tab.msgs[i].awaiting => tab'.msgs[i].awaiting)
  <2>1. i \in Users(tab'.msgs) /\ i \in DOMAIN tab'.msgs /\ tab'.msgs[i].text = t /\ i # promote'
    BY <1>3 DEF Own, Users
  <2>2. i \in DOMAIN tab.msgs /\ tab'.msgs[i] = tab.msgs[i] /\ i # promote
    BY <2>1 DEF Stays
  <2> QED BY <2>1, <2>2 DEF Own, Users
<1> QED BY <1>1, <1>2, <1>3, MarksStand

LEMMA MarkedOfPi ==
    ASSUME MarkedInv, SteerInv, TypeInv, RefsInv, UsedInv,
           Runtime \/ TakeAbort \/ (\E s \in Senders : \/ TakePrompt(s) \/ TakeControl(s)
                                                       \/ ProbeFailedPrompt(s))
    PROVE  MarkedInv'
<1>1. UNCHANGED <<tab, promote, told>> /\ \E new, queued : PiMoves(new, queued)
  <2>1. PICK new \in SUBSET told.used : \E queued \in SUBSET new :
              PiMoves(new, queued) /\ UNCHANGED <<tab, promote, told>>
    BY TakesOf
  <2> QED BY <2>1
<1>2. \A t \in told.steers : Owed(t)' => Owed(t)
  BY OwedOfPi
<1>3. PICK s : s \in Seq(Events) /\ wire' = wire \o s
  BY <1>1 DEF PiMoves, Sound
<1>4. ASSUME NEW t, Halved(t) PROVE Halved(t)'
  <2>1. wire # <<>> /\ wire \in Seq(Events)
    BY <1>4 DEF Halved, TypeInv, PiInv, Sound
  <2>2. wire' # <<>> /\ wire'[1] = wire[1]
    BY <1>3, <2>1
  <2> QED BY <1>4, <2>2 DEF Halved
<1>5. \A t : \A i \in Own(tab', promote', t) :
         i \in Own(tab, promote, t) /\ (tab.msgs[i].awaiting => tab'.msgs[i].awaiting)
  BY <1>1
<1>6. told.lapse \subseteq told'.lapse /\ told.echoed \subseteq told'.echoed
      /\ told'.steers \subseteq told.steers \cup {}
  BY <1>1
<1>7. ASSUME NEW t \in told.steers \ told'.echoed
      PROVE  /\ Owed(t)' => Owed(t)
             /\ Halved(t) => Halved(t)'
             /\ \A i \in Own(tab', promote', t) :
                   i \in Own(tab, promote, t) /\ (tab.msgs[i].awaiting => tab'.msgs[i].awaiting)
  BY <1>2, <1>4, <1>5, <1>7
<1> DEFINE new == {}
<1>8. told'.steers \subseteq told.steers \cup new
      /\ \A t \in new : \A i \in Own(tab', promote', t) : tab'.msgs[i].awaiting
  BY <1>6
<1> HIDE DEF new
<1> QED BY <1>6, <1>7, <1>8, MarksStand

\* A steer is shown with its marker.
LEMMA MarkedSaid ==
    ASSUME MarkedInv, SteerInv, TypeInv, UsedInv, SendControl
    PROVE  MarkedInv'
<1>1. Whole(tab) /\ controls \in [Senders -> Controls] /\ told \in History
  BY DEF TypeInv
<1>2. PICK mode \in {"steer", "follow_up"}, t \in Fresh :
         /\ Control("composer", mode, t)
         /\ told' = [told EXCEPT !.used = @ \cup {t},
                                 !.steers = IF mode = "steer" THEN @ \cup {t} ELSE @]
  BY DEF SendControl
<1>3. t \in Texts /\ t \notin told.used /\ "composer" \in Senders
  BY DEF Fresh, Senders
<1>4. /\ told'.lapse = told.lapse /\ told'.echoed = told.echoed
      /\ told'.steers = IF mode = "steer" THEN told.steers \cup {t} ELSE told.steers
      /\ UNCHANGED <<pi, wire, promote>>
  BY <1>1, <1>2 DEF History, SendControl
<1>5. /\ controls'["composer"].mode = mode /\ controls'["composer"].text = t
      /\ \A r \in Senders \ {"composer"} : controls'[r] = controls[r]
  BY <1>1, <1>2, <1>3, ControlIs
<1>6. CASE mode = "follow_up"
  <2> DEFINE new == {}
  <2>1. tab' = [tab EXCEPT !.queue = Add(@, tab.next, t), !.next = @ + 1]
    BY <1>2, <1>6 DEF Control
  <2>2. tab'.msgs = tab.msgs
    BY <1>1, <1>3, <2>1, QueueOneIs DEF Is
  <2>3. Stays(new) /\ new \cap told.steers = {}
    BY <2>2 DEF Stays, Users
  <2>4. \A s \in Senders : \/ controls'[s] = controls[s] \/ controls'[s].st = "none"
                           \/ controls'[s].mode = "follow_up"
    BY <1>5, <1>6
  <2>5. told'.steers = told.steers /\ told.lapse \subseteq told'.lapse
    BY <1>4, <1>6
  <2> HIDE DEF new
  <2> QED BY <1>4, <2>3, <2>4, <2>5, MarkedSteady
<1>7. CASE mode = "steer"
  <2> DEFINE new == {t}
  <2>1. tab' = Say(tab, t, TRUE)
    BY <1>2, <1>7 DEF Control
  <2>2. Dims(tab, tab')
    BY <1>1, <1>3, <2>1, SayDims
  <2>3. Users(tab'.msgs) = Users(tab.msgs) \cup {tab.next} /\ tab'.msgs[tab.next].text = t
    BY <1>1, <1>2, <1>3, <1>7, ControlIs
  <2>4. \A i \in Users(tab.msgs) : /\ tab'.msgs[i] = tab.msgs[i]
                                   /\ tab.msgs[i].text # t
    BY <1>3, <2>2 DEF Dims, UsedInv, Users
  <2>5. ASSUME NEW u \in told.steers \ told'.echoed
        PROVE  /\ Owed(u)' => Owed(u)
               /\ Halved(u) => Halved(u)'
               /\ \A i \in Own(tab', promote', u) :
                     i \in Own(tab, promote, u) /\ (tab.msgs[i].awaiting => tab'.msgs[i].awaiting)
    <3>1. u # t
      BY <1>3 DEF SteerInv
    <3>2. Owed(u)' => Owed(u)
      BY <1>4, <1>5, <3>1 DEF Owed
    <3>3. Halved(u) => Halved(u)'
      BY <1>4 DEF Halved
    <3>4. \A i \in Own(tab', promote', u) :
             i \in Own(tab, promote, u) /\ (tab.msgs[i].awaiting => tab'.msgs[i].awaiting)
      BY <1>4, <2>3, <2>4, <3>1 DEF Own
    <3> QED BY <3>2, <3>3, <3>4
  <2>6. \A i \in Own(tab', promote', t) : tab'.msgs[i].awaiting
    BY <2>2, <2>3, <2>4 DEF Own, Dims
  <2>7. /\ \A u \in new : \A i \in Own(tab', promote', u) : tab'.msgs[i].awaiting
        /\ told'.steers \subseteq told.steers \cup new
        /\ told.lapse \subseteq told'.lapse /\ told.echoed \subseteq told'.echoed
    BY <1>4, <1>7, <2>6
  <2> HIDE DEF new
  <2> QED BY <2>5, <2>7, MarksStand
<1> QED BY <1>6, <1>7

\* A prompt is shown that is no steer, and pi keeps what it has.
LEMMA PromptStays ==
    ASSUME TypeInv, NEW c, Whole(c), c.msgs = tab.msgs, c.next = tab.next,
           NEW t \in Texts, NEW s \in Senders, Submit(s, c, t)
    PROVE  Stays({t})
<1>1. prompts \in [Senders -> Prompts]
  BY DEF TypeInv
<1>2. ShowsPrompt(c, tab', t) /\ tab'.msgs[c.next].text = t
  BY <1>1, SubmitIs
<1>3. \A i \in DOMAIN tab'.msgs : i \in DOMAIN tab.msgs \/ i = tab.next \/ i = tab.next + 1
  BY <1>2 DEF ShowsPrompt
<1>4. tab'.msgs[tab.next + 1].role # "user"
  BY <1>2 DEF ShowsPrompt, Bubble
<1>5. \A i \in DOMAIN tab.msgs : tab'.msgs[i] = tab.msgs[i]
  BY <1>2 DEF ShowsPrompt
<1> QED BY <1>2, <1>3, <1>4, <1>5 DEF Stays, Users

\* The page's other steps show nothing that is a steer.
LEMMA MarkedOfPage ==
    ASSUME MarkedInv, SteerInv, TypeInv, RefsInv,
           \/ Poll \/ Abort \/ SendPrompt \/ AnswerAbort \/ Resume \/ Promote \/ PromoteRefused
           \/ \E s \in Senders : \/ AcceptPrompt(s) \/ AcceptControl(s) \/ SettleFailedPrompt(s)
                                 \/ RollBackControl(s)
    PROVE  MarkedInv'
<1>1. /\ Whole(tab) /\ told \in History /\ controls \in [Senders -> Controls]
      /\ "composer" \in Senders /\ "resume" \in Senders
  BY DEF TypeInv, Senders
<1>2. UNCHANGED <<pi, wire>>
  BY DEF Poll, Abort, SendPrompt, AnswerAbort, Resume, Promote, PromoteRefused, AcceptPrompt,
         AcceptControl, SettleFailedPrompt, RollBackControl
<1>3. \A why : /\ Lapse(why).steers = told.steers /\ Lapse(why).echoed = told.echoed
               /\ told.lapse \subseteq Lapse(why).lapse
  BY <1>1 DEF Lapse, History
<1>4. told'.steers = told.steers /\ told'.echoed = told.echoed /\ told.lapse \subseteq told'.lapse
  <2>1. CASE SendPrompt
    BY <1>1, <2>1 DEF SendPrompt, History
  <2>2. CASE Poll \/ Abort \/ AnswerAbort \/ Resume \/ Promote \/ PromoteRefused
    BY <1>3, <2>2 DEF Poll, Abort, AnswerAbort, Resume, Promote, PromoteRefused
  <2>3. CASE \E s \in Senders : \/ AcceptPrompt(s) \/ AcceptControl(s) \/ SettleFailedPrompt(s)
                                \/ RollBackControl(s)
    BY <1>3, <2>3 DEF AcceptPrompt, AcceptControl, SettleFailedPrompt, RollBackControl
  <2> QED BY <2>1, <2>2, <2>3
<1> DEFINE calls == \A s \in Senders : \/ controls'[s] = controls[s] \/ controls'[s].st = "none"
                                       \/ controls'[s].mode = "follow_up"
           promotes == promote' = promote \/ promote \notin DOMAIN tab'.msgs
<1>5. ASSUME NEW new, Stays(new), new \cap told.steers = {}, calls, promotes PROVE MarkedInv'
  BY <1>2, <1>4, <1>5, MarkedSteady
<1>6. ASSUME NEW t, Stays({t}), Waits(t), calls, promotes PROVE MarkedInv'
  <2> DEFINE new == {t}
  <2>1. new \cap told.steers = {} /\ Stays(new)
    BY <1>6 DEF SteerInv
  <2> HIDE DEF new, calls, promotes
  <2> QED BY <1>5, <1>6, <2>1
<1>7. ASSUME \A i \in DOMAIN tab'.msgs : i \in DOMAIN tab.msgs /\ tab'.msgs[i] = tab.msgs[i],
             calls, promotes
      PROVE  MarkedInv'
  <2> DEFINE new == {}
  <2>1. Stays(new) /\ new \cap told.steers = {}
    BY <1>7 DEF Stays, Users
  <2> HIDE DEF new, calls, promotes
  <2> QED BY <1>5, <1>7, <2>1
<1>8. CASE Poll \/ Abort \/ \E s \in Senders : AcceptPrompt(s) \/ AcceptControl(s)
  <2>1. tab'.msgs = tab.msgs
    BY <1>8, SteadyTab
  <2>2. calls
    BY <1>1, <1>8, NoRequests DEF Poll, Abort, AcceptPrompt, AcceptControl
  <2>3. promotes
    BY <1>8 DEF Poll, Abort, AcceptPrompt, AcceptControl
  <2> QED BY <1>7, <2>1, <2>2, <2>3
<1>9. CASE SendPrompt
  <2>1. PICK t \in Fresh : Submit("composer", tab, t)
    BY <1>9 DEF SendPrompt
  <2> DEFINE new == {t}
  <2>2. Stays(new) /\ new \cap told.steers = {}
    BY <1>1, <2>1, PromptStays DEF Fresh, SteerInv
  <2>3. calls /\ promotes
    BY <1>9 DEF SendPrompt
  <2> HIDE DEF new, calls, promotes
  <2> QED BY <1>5, <2>2, <2>3
<1>10. CASE AnswerAbort
  <2> DEFINE i == Earliest(DOMAIN abort.held)
             t == abort.held[i]
             c == [SettleTurn(tab) EXCEPT !.queue = Nothing]
  <2>0. calls /\ promotes
    BY <1>10 DEF AnswerAbort
  <2>1. CASE DOMAIN abort.held = {}
    <3>1. tab' = SettleTurn(tab)
      BY <1>10, <2>1 DEF AnswerAbort
    <3>2. tab'.msgs = tab.msgs
      BY <1>1, <3>1, SettledIs DEF Is
    <3> QED BY <1>7, <2>0, <3>2
  <2>2. CASE DOMAIN abort.held # {}
    <3>1. Submit("resume", c, t)
      BY <1>10, <2>2 DEF AnswerAbort
    <3>2. i \in DOMAIN abort.held /\ t \in Texts
      BY <2>2, FirstHeld DEF TypeInv
    <3>3. Waits(t)
      BY <3>2 DEF Waits, Range
    <3>4. Is(c, "idle", tab.msgs, 0, tab.pin, Nothing, tab.next) /\ Grows(tab, c)
      BY <1>1, AbortedIs
    <3> HIDE DEF c, t, calls, promotes
    <3>5. Whole(c) /\ c.msgs = tab.msgs /\ c.next = tab.next
      BY <3>4 DEF Is, Grows
    <3>6. Stays({t})
      BY <1>1, <3>1, <3>2, <3>5, PromptStays
    <3> QED BY <1>6, <2>0, <3>3, <3>6
  <2> QED BY <2>1, <2>2
<1>11. CASE Resume
  <2>0. promotes
    BY <1>11 DEF Resume
  <2>1. CASE UNCHANGED <<tab, controls>>
    BY <1>7, <2>0, <2>1
  <2>2. CASE /\ DOMAIN abort.held # {}
             /\ Control("resume", "follow_up", abort.held[Earliest(DOMAIN abort.held)])
    <3> DEFINE t == abort.held[Earliest(DOMAIN abort.held)]
               mode == "follow_up"
    <3>1. t \in Texts /\ mode \in {"steer", "follow_up"} /\ Control("resume", mode, t)
      BY <2>2, FirstHeld DEF TypeInv
    <3>2. tab' = [tab EXCEPT !.queue = Add(@, tab.next, t), !.next = @ + 1]
      BY <2>2 DEF Control
    <3> HIDE DEF t
    <3>3. tab'.msgs = tab.msgs
      BY <1>1, <3>1, <3>2, QueueOneIs DEF Is
    <3>4. controls'["resume"].mode = mode
          /\ \A r \in Senders \ {"resume"} : controls'[r] = controls[r]
      BY <1>1, <3>1, ControlIs
    <3> QED BY <1>7, <2>0, <3>3, <3>4
  <2> QED BY <1>11, <2>1, <2>2 DEF Resume
<1>12. CASE Promote
  <2>1. PICK i \in DOMAIN tab.queue : tab' = Say(tab, tab.queue[i], TRUE)
    BY <1>12 DEF Promote
  <2>2. PICK t \in Texts : t = tab.queue[i]
    BY <1>1, WholeParts
  <2>3. Dims(tab, tab')
    BY <1>1, <2>1, <2>2, SayDims
  <2>4. PICK j \in DOMAIN tab.queue : AddsMessage(tab.queue[j])
    BY <1>12, PromoteIs
  <2>5. Stays({tab.queue[j]}) /\ Waits(tab.queue[j])
    BY <2>3, <2>4 DEF Stays, Dims, AddsMessage, Users, Waits, Range
  <2>6. promotes
    <3>1. promote = 0 /\ 0 \notin DOMAIN tab'.msgs
      <4>1. Whole(tab')
        BY <2>4 DEF AddsMessage, Grows
      <4> QED BY <1>12, <4>1, WholeParts DEF Promote
    <3> QED BY <3>1
  <2>7. calls
    BY <1>12 DEF Promote
  <2> HIDE DEF calls, promotes
  <2> QED BY <1>6, <2>5, <2>6, <2>7
<1>13. CASE PromoteRefused
  <2>1. /\ tab' = [tab EXCEPT !.msgs = Without(@, promote)] /\ calls
    BY <1>13 DEF PromoteRefused
  <2>2. /\ DOMAIN tab'.msgs = DOMAIN tab.msgs \ {promote}
        /\ \A k \in DOMAIN tab'.msgs : tab'.msgs[k] = tab.msgs[k]
    BY <1>1, <2>1, TakenTab
  <2> QED BY <1>7, <2>1, <2>2
<1>14. ASSUME NEW s \in Senders, SettleFailedPrompt(s) \/ RollBackControl(s)
       PROVE  MarkedInv'
  <2>1. \/ tab' = tab
        \/ \E i, j : \/ tab' = [tab EXCEPT !.msgs = Without(@, i), !.queue = Without(@, j)]
                     \/ tab' = [SettleTurn(tab) EXCEPT !.msgs = Without(@, i)]
    BY <1>14 DEF RollBackControl, SettleFailedPrompt
  <2>2. ASSUME NEW i, NEW j,
               \/ tab' = [tab EXCEPT !.msgs = Without(@, i), !.queue = Without(@, j)]
               \/ tab' = [SettleTurn(tab) EXCEPT !.msgs = Without(@, i)]
        PROVE  /\ DOMAIN tab'.msgs = DOMAIN tab.msgs \ {i}
               /\ \A k \in DOMAIN tab'.msgs : tab'.msgs[k] = tab.msgs[k]
    BY <1>1, <2>2, TakenTab
  <2>3. \A i \in DOMAIN tab'.msgs : i \in DOMAIN tab.msgs /\ tab'.msgs[i] = tab.msgs[i]
    BY <2>1, <2>2
  <2>4. calls /\ promotes
    BY <1>1, <1>14, NoRequests DEF SettleFailedPrompt, RollBackControl
  <2> QED BY <1>7, <2>3, <2>4
<1> QED BY <1>8, <1>9, <1>10, <1>11, <1>12, <1>13, <1>14

\* The stream takes a marker at the echo of its message, and at the end of the turn.
LEMMA MarkedReceived ==
    ASSUME MarkedInv, Adjacent(wire), TypeInv, Receive
    PROVE  MarkedInv'
<1> DEFINE e == Head(wire)
<1>1. /\ Whole(tab) /\ told \in History /\ wire \in Seq(Events) /\ wire # <<>> /\ PiInv
  BY DEF TypeInv, PiInv, Sound, Receive
<1>2. /\ e = wire[1] /\ e \in Events /\ (e.k \in {"start", "end"} => e.t \in Texts)
  BY <1>1, TailSound DEF PiInv
<1>3. /\ wire' = Tail(wire) /\ tab' = Reduce(tab, e) /\ UNCHANGED <<pi, promote, controls>>
      /\ told'.steers = told.steers
  BY <1>1 DEF Receive, History
<1>4. /\ Range(wire) = {e} \cup Range(wire') /\ Grows(tab, tab')
      /\ \/ Users(tab'.msgs) = Users(tab.msgs)
         \/ /\ e.k \in {"start", "end"} /\ Unmatched(tab, e.t)
            /\ Users(tab'.msgs) = Users(tab.msgs) \cup {tab.next}
            /\ tab'.msgs[tab.next].text = e.t
      /\ told'.echoed = IF e.k = "end" THEN told.echoed \cup {e.t} ELSE told.echoed
      /\ told'.lapse = told.lapse \cup Mistaken(e)
  BY <1>1, ReceiveIs
<1> HIDE DEF e
<1> SUFFICES ASSUME ~Excused({"outlived"})', NEW t \in told'.steers \ told'.echoed,
                    NEW i \in Own(tab', promote', t), Owed(t)', ~Halved(t)'
             PROVE  tab'.msgs[i].awaiting
  BY DEF MarkedInv
<1>5. Owed(t) /\ t \in told.steers \ told.echoed
  BY <1>3, <1>4 DEF Owed
<1>6. e.k \in {"start", "end"} => e.t # t
  <2>1. e.k = "end" => e.t # t
    BY <1>4
  <2>2. ASSUME e.k = "start", e.t = t PROVE FALSE
    <3>1. /\ Tail(wire) # <<>> /\ Tail(wire)[1].k = "end"
          /\ wire[1].t = Tail(wire)[1].t
      BY <1>1, <1>2, <2>2, AdjacentRest
    <3> QED BY <1>2, <1>3, <2>2, <3>1 DEF Halved
  <2> QED BY <2>1, <2>2
<1>7. ~Halved(t)
  BY <1>2, <1>6 DEF Halved
<1>8. i \in Own(tab, promote, t)
  <2>1. CASE Users(tab'.msgs) = Users(tab.msgs)
    BY <1>1, <1>3, <1>4, <2>1, OwnSame
  <2>2. CASE /\ e.k \in {"start", "end"} /\ Users(tab'.msgs) = Users(tab.msgs) \cup {tab.next}
             /\ tab'.msgs[tab.next].text = e.t
    <3>1. PICK u : u = e.t
      OBVIOUS
    <3>2. AddsMessage(u)
      BY <1>4, <2>2, <3>1 DEF AddsMessage
    <3> DEFINE p == promote
    <3>3. /\ \A v : v # u => Own(tab', p, v) = Own(tab, p, v)
          /\ Own(tab', p, u) \subseteq Own(tab, p, u) \cup {tab.next}
          /\ \A v : Own(tab', tab.next, v) = Own(tab, tab.next, v)
      BY <1>1, <3>2, OwnMore
    <3> QED BY <1>3, <1>6, <2>2, <3>1, <3>3
  <2> QED BY <1>4, <2>1, <2>2
<1>9. i \in Users(tab.msgs) /\ tab.msgs[i].text = t
  BY <1>8 DEF Own
<1>10. tab.msgs[i].awaiting
  <2>1. ~Excused({"outlived"})
    BY <1>4 DEF Excused
  <2> QED BY <1>5, <1>7, <1>8, <2>1 DEF MarkedInv
<1>11. e.k # "settled"
  <2>1. "outlived" \notin Outlived(e)
    BY <1>4 DEF Excused, Mistaken
  <2>2. Shown(t) # {}
    BY <1>9 DEF Shown
  <2> QED BY <1>5, <2>1, <2>2 DEF Outlived
<1>12. e.k \in {"start", "end"} => tab.msgs[i].text # e.t
  BY <1>6, <1>9
<1> QED BY <1>1, <1>2, <1>3, <1>9, <1>10, <1>11, <1>12, MarksStay

LEMMA MarkedKept ==
    ASSUME MarkedInv, SteerInv, Adjacent(wire), TypeInv, RefsInv, UsedInv, [Next]_vars
    PROVE  MarkedInv'
<1>1. CASE UNCHANGED vars
  BY <1>1 DEF vars, MarkedInv, Excused, Halved, Owed
<1>2. CASE \/ Runtime \/ TakeAbort
           \/ \E s \in Senders : TakePrompt(s) \/ TakeControl(s) \/ ProbeFailedPrompt(s)
  BY <1>2, MarkedOfPi
<1>3. CASE Receive
  BY <1>3, MarkedReceived
<1>4. CASE SendControl
  BY <1>4, MarkedSaid
<1>5. CASE \/ Poll \/ Abort \/ SendPrompt \/ AnswerAbort \/ Resume \/ Promote \/ PromoteRefused
           \/ \E s \in Senders : \/ AcceptPrompt(s) \/ AcceptControl(s) \/ SettleFailedPrompt(s)
                                 \/ RollBackControl(s)
  BY <1>5, MarkedOfPage
<1> QED BY <1>1, <1>2, <1>3, <1>4, <1>5 DEF Next, Requests

\* What is known of the steers and their echoes, and of what is shown once
SteersInv == SteerInv /\ MarkedInv /\ Adjacent(wire)
SaidInv == UsedInv /\ WaitsInv /\ OnceInv /\ SteersInv

LEMMA SaidAtFirst == ASSUME Init PROVE SaidInv
<1>1. Users(tab.msgs) = {} /\ DOMAIN wire = {} /\ told.steers = {}
  BY NothingIsList DEF Init, Users
<1>2. UsedInv
  BY UsedAtFirst
<1>3. WaitsInv /\ OnceInv
  BY <1>1 DEF WaitsInv, OnceInv, Own
<1>4. SteersInv
  BY <1>1 DEF SteersInv, SteerInv, MarkedInv, Adjacent
<1> QED BY <1>2, <1>3, <1>4 DEF SaidInv

LEMMA SaidKept ==
    ASSUME SaidInv, TypeInv, RefsInv, [Next]_vars
    PROVE  SaidInv' /\ WaitsLess
<1>1. UsedInv /\ WaitsInv /\ OnceInv /\ SteerInv /\ MarkedInv /\ Adjacent(wire)
  BY DEF SaidInv, SteersInv
<1>2. UsedInv'
  BY <1>1, UsedKept
<1>3. WaitsInv' /\ OnceInv' /\ WaitsLess
  BY <1>1, OnceKept
<1>4. SteerInv'
  BY <1>1, <1>3, SteersKept
<1>5. MarkedInv'
  BY <1>1, MarkedKept
<1>6. Adjacent(wire)'
  BY <1>1, AdjacentKept
<1> QED BY <1>2, <1>3, <1>4, <1>5, <1>6 DEF SaidInv, SteersInv

\* For any texts, any texts that are alike, and any budgets: a message is in the transcript
\* once, whatever was shown, sent again, retried, accepted or settled between a steer and its
\* echo, unless the turn settled before pi had shown the steer, another message was shown
\* between a message and an echo of it that is not a steer's first, or a follow-up was sent twice.
THEOREM ShownOnceHolds == Spec => []ShownOnce
<1> DEFINE I == TypeInv /\ RefsInv /\ SaidInv
<1>1. Init => I
  BY Inits, SaidAtFirst
<1>2. I /\ [Next]_vars => I'
  BY TypesKept, SaidKept
<1>3. I => ShownOnce
  <2> SUFFICES ASSUME I, ~Excused({"crossed", "outlived", "resent"}), promote = 0,
                      NEW t \in Texts, NEW i \in Shown(t), NEW j \in Shown(t)
               PROVE  i = j
    BY DEF ShownOnce
  <2>1. i \in Users(tab.msgs) /\ j \in Users(tab.msgs) /\ i # 0 /\ j # 0
    BY WholeParts DEF Shown, TypeInv
  <2>2. i \in Own(tab, promote, t) /\ j \in Own(tab, promote, t)
    BY <2>1 DEF Shown, Own
  <2> QED BY <2>2 DEF SaidInv, OnceInv
<1> QED BY <1>1, <1>2, <1>3, PTL DEF Spec

\* For any texts and budgets: what the model writes is below the message it answers, and in a
\* bubble of its own, however prompts, steers and follow-ups are accepted, echoed and settled.
THEOREM RepliesHolds == Spec => []RepliesAnswer
<1> DEFINE I == TypeInv /\ RefsInv /\ SaidInv /\ DimInv /\ AnswerInv
<1>1. Init => I
  BY Inits, SaidAtFirst, AnswersAtFirst
<1>2. I /\ [Next]_vars => I'
  <2>1. ASSUME I, [Next]_vars PROVE TypeInv' /\ RefsInv' /\ SaidInv' /\ DimInv' /\ AnswerInv'
    <3>1. MarkedInv /\ UsedInv /\ WaitsInv /\ OnceInv
      BY <2>1 DEF SaidInv, SteersInv
    <3>2. TypeInv' /\ RefsInv' /\ SaidInv' /\ WaitsLess
      BY <2>1, TypesKept, SaidKept
    <3>3. DimInv' /\ AnswerInv'
      BY <2>1, <3>1, <3>2, DimKept, AnswersKept
    <3> QED BY <3>2, <3>3
  <2> QED BY <2>1
<1>3. I => RepliesAnswer
  <2> SUFFICES ASSUME I, ~Excused({"late", "tail", "pinned", "lost", "overlap", "rollback"}),
                      NEW i \in DOMAIN tab.msgs
               PROVE  /\ \A t, u \in tab.msgs[i].got : t = u
                      /\ \A t \in tab.msgs[i].got : \E j \in Shown(t) : j < i
    BY DEF RepliesAnswer
  <2>1. Answered(tab, told.echoed)
    BY DEF AnswerInv, AnswerParts, PageAnswers
  <2>2. \A t \in tab.msgs[i].got :
            /\ tab.msgs[i].got = {t}
            /\ \E j \in Plain(tab) : j < i /\ tab.msgs[j].text = t
    BY <2>1 DEF Answered
  <2>3. \A t : \A j \in Plain(tab) : tab.msgs[j].text = t => j \in Shown(t)
    BY DEF Plain, Shown
  <2> QED BY <2>2, <2>3
<1> QED BY <1>1, <1>2, <1>3, PTL DEF Spec
=============================================================================
