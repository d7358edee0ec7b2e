-------------------------- MODULE TranscriptProofs --------------------------
(***************************************************************************)
(* What is proved of Transcript for any texts, any budgets and any texts   *)
(* that are alike.                                                         *)
(***************************************************************************)
EXTENDS Transcript, TLAPS, FiniteSetTheorems, SequenceTheorems, WellFoundedInduction

\* ---- What every state is made of ----

Words == Texts \cup {None}
Lists(S) == UNION {[ids -> S] : ids \in SUBSET (Nat \ {0})}
Kinds == {"start", "end", "reply", "queue", "agent_end", "settled"}
Events == [k : Kinds, t : Words, q : Seq(Texts)]
Messages == [role : {"user", "assistant"}, text : Words, pending : BOOLEAN,
             awaiting : BOOLEAN, got : SUBSET Words]
Tabs == [status : Statuses, msgs : Lists(Messages), active : Nat, pin : Nat,
         queue : Lists(Texts), next : Nat \ {0}]

\* Ids are issued in order, and what the user says has a text.
Whole(c) ==
    /\ c \in Tabs
    /\ \A i \in DOMAIN c.msgs \cup DOMAIN c.queue : i < c.next
    /\ \A i \in Users(c.msgs) : c.msgs[i].text \in Texts

\* A step of the page that takes no message back, and adds messages at the end
Grows(c, d) ==
    /\ Whole(d)
    /\ c.next <= d.next
    /\ DOMAIN c.msgs \subseteq DOMAIN d.msgs
    /\ \A i \in DOMAIN c.msgs :
          /\ d.msgs[i].role = c.msgs[i].role /\ d.msgs[i].text = c.msgs[i].text
          /\ d.msgs[i].awaiting => c.msgs[i].awaiting
          /\ d.msgs[i].pending => c.msgs[i].pending
    /\ \A i \in DOMAIN d.msgs \ DOMAIN c.msgs : c.next <= i

-----------------------------------------------------------------------------
\* ---- Lists ----

\* A list is a function from positive ids.
LEMMA ListsAreFunctions ==
    ASSUME NEW S
    PROVE  /\ \A l \in Lists(S) : /\ DOMAIN l \subseteq Nat \ {0} /\ l \in [DOMAIN l -> S]
                                  /\ \A i \in DOMAIN l : l[i] \in S
           /\ \A ids \in SUBSET (Nat \ {0}) : [ids -> S] \subseteq Lists(S)
  BY DEF Lists

\* What Add and Without make of a list
LEMMA AddIs ==
    ASSUME NEW l, NEW id, NEW item
    PROVE  /\ DOMAIN Add(l, id, item) = DOMAIN l \cup {id}
           /\ Add(l, id, item)[id] = item
           /\ \A i \in DOMAIN l \ {id} : Add(l, id, item)[i] = l[i]
  BY DEF Add

LEMMA AddToList ==
    ASSUME NEW S, NEW l \in Lists(S), NEW id \in Nat \ {0}, NEW item \in S
    PROVE  Add(l, id, item) \in Lists(S)
<1>1. DOMAIN l \cup {id} \in SUBSET (Nat \ {0}) /\ \A i \in DOMAIN l : l[i] \in S
  BY ListsAreFunctions
<1>2. Add(l, id, item) \in [DOMAIN l \cup {id} -> S]
  BY <1>1 DEF Add
<1> QED BY <1>1, <1>2, ListsAreFunctions

LEMMA WithoutIs ==
    ASSUME NEW l, NEW id
    PROVE  /\ DOMAIN Without(l, id) = DOMAIN l \ {id}
           /\ \A i \in DOMAIN l \ {id} : Without(l, id)[i] = l[i]
  BY DEF Without

LEMMA TakeFromList ==
    ASSUME NEW S, NEW l \in Lists(S), NEW id
    PROVE  Without(l, id) \in Lists(S)
<1>1. DOMAIN l \ {id} \in SUBSET (Nat \ {0}) /\ \A i \in DOMAIN l : l[i] \in S
  BY ListsAreFunctions
<1>2. Without(l, id) \in [DOMAIN l \ {id} -> S]
  BY <1>1 DEF Without
<1> QED BY <1>1, <1>2, ListsAreFunctions

LEMMA NothingIsList == \A S : Nothing \in Lists(S) /\ DOMAIN Nothing = {}
<1> SUFFICES ASSUME NEW S PROVE Nothing \in Lists(S) /\ DOMAIN Nothing = {}
  OBVIOUS
<1>1. Nothing \in [{} -> S] /\ {} \in SUBSET (Nat \ {0})
  BY DEF Nothing
<1> QED BY <1>1, ListsAreFunctions DEF Nothing

\* Ids have a first one, and below a bound a last one.
LEMMA EarliestIs ==
    ASSUME NEW ids \in SUBSET Nat, ids # {}
    PROVE  Earliest(ids) \in ids /\ \A j \in ids : Earliest(ids) <= j
<1>1. IsWellFoundedOn({ss \in Nat \X Nat : ss[1] < ss[2]}, Nat)
  BY NatLessThanWellFounded DEF OpToRel
<1>2. PICK i \in ids : \A j \in ids : ~(<<j, i>> \in {ss \in Nat \X Nat : ss[1] < ss[2]})
  BY <1>1, WFMin
<1>3. ASSUME NEW j \in ids PROVE i <= j
  <2>1. <<j, i>> \in Nat \X Nat /\ <<j, i>>[1] = j /\ <<j, i>>[2] = i
    OBVIOUS
  <2>2. ~(j < i)
    BY <1>2, <2>1
  <2> QED BY <2>2
<1> DEFINE first(k) == \A j \in ids : k <= j
<1>4. \E k \in ids : first(k)
  BY <1>3
<1>5. (CHOOSE k \in ids : first(k)) \in ids /\ first(CHOOSE k \in ids : first(k))
  <2> HIDE DEF first
  <2> QED BY <1>4
<1> QED BY <1>5 DEF Earliest

LEMMA LatestIs ==
    ASSUME NEW ids \in SUBSET Nat, ids # {}, NEW n \in Nat, \A i \in ids : i < n
    PROVE  Latest(ids) \in ids /\ \A j \in ids : j <= Latest(ids)
<1> DEFINE depths == {n - i : i \in ids}
<1>1. \A i \in ids : n - i \in Nat
  OBVIOUS
<1>2. depths \in SUBSET Nat /\ depths # {}
  BY <1>1
<1>3. Earliest(depths) \in depths /\ \A d \in depths : Earliest(depths) <= d
  BY <1>2, EarliestIs
<1>4. PICK i \in ids : Earliest(depths) = n - i
  BY <1>3
<1> DEFINE last(k) == \A j \in ids : j <= k
<1>5. last(i)
  <2> SUFFICES ASSUME NEW j \in ids PROVE j <= i
    OBVIOUS
  <2>1. n - i <= n - j
    BY <1>3, <1>4
  <2> QED BY <2>1
<1>6. (CHOOSE k \in ids : last(k)) \in ids /\ last(CHOOSE k \in ids : last(k))
  <2> HIDE DEF last
  <2> QED BY <1>5
<1> QED BY <1>6 DEF Latest

-----------------------------------------------------------------------------
\* ---- The page's own steps ----

\* What there is to know of the parts of a tab
LEMMA WholeParts ==
    ASSUME NEW c, Whole(c)
    PROVE  /\ c.status \in Statuses /\ c.active \in Nat /\ c.pin \in Nat /\ c.next \in Nat \ {0}
           /\ c.msgs \in Lists(Messages) /\ c.queue \in Lists(Texts)
           /\ DOMAIN c.msgs \subseteq Nat \ {0} /\ DOMAIN c.queue \subseteq Nat \ {0}
           /\ \A i \in DOMAIN c.msgs : c.msgs[i] \in Messages /\ i < c.next
           /\ \A i \in DOMAIN c.queue : c.queue[i] \in Texts /\ i < c.next
           /\ \A i \in Users(c.msgs) : c.msgs[i].text \in Texts
           /\ Users(c.msgs) \subseteq DOMAIN c.msgs /\ Bubbles(c.msgs) \subseteq DOMAIN c.msgs
           /\ c.next \notin DOMAIN c.msgs /\ c.next \notin DOMAIN c.queue
<1>1. c \in Tabs
  BY DEF Whole
<1>2. /\ c.status \in Statuses /\ c.active \in Nat /\ c.pin \in Nat /\ c.next \in Nat \ {0}
      /\ c.msgs \in Lists(Messages) /\ c.queue \in Lists(Texts)
  BY <1>1 DEF Tabs
<1>3. /\ DOMAIN c.msgs \subseteq Nat \ {0} /\ DOMAIN c.queue \subseteq Nat \ {0}
      /\ \A i \in DOMAIN c.msgs : c.msgs[i] \in Messages
      /\ \A i \in DOMAIN c.queue : c.queue[i] \in Texts
  BY <1>2, ListsAreFunctions
<1>4. \A i \in DOMAIN c.msgs \cup DOMAIN c.queue : i < c.next
  BY DEF Whole
<1>5. Users(c.msgs) \subseteq DOMAIN c.msgs /\ Bubbles(c.msgs) \subseteq DOMAIN c.msgs
  BY DEF Users, Bubbles
<1>6. ~(c.next < c.next)
  BY <1>2
<1> QED BY <1>2, <1>3, <1>4, <1>5, <1>6 DEF Whole

\* What each part of a tab is
Is(d, status, msgs, active, pin, queue, next) ==
    /\ d \in Tabs
    /\ d.status = status /\ d.msgs = msgs /\ d.active = active
    /\ d.pin = pin /\ d.queue = queue /\ d.next = next

\* The updates of a tab that the model makes
LEMMA TabUpdates ==
    ASSUME NEW c \in Tabs, NEW s \in Statuses, NEW m \in Lists(Messages), NEW a \in Nat,
           NEW p \in Nat, NEW q \in Lists(Texts), NEW n \in Nat \ {0}
    PROVE  /\ Is([c EXCEPT !.msgs = m], c.status, m, c.active, c.pin, c.queue, c.next)
           /\ Is([c EXCEPT !.msgs = m, !.next = n], c.status, m, c.active, c.pin, c.queue, n)
           /\ Is([c EXCEPT !.msgs = m, !.active = a, !.next = n],
                 c.status, m, a, c.pin, c.queue, n)
           /\ Is([c EXCEPT !.msgs = m, !.queue = q], c.status, m, c.active, c.pin, q, c.next)
           /\ Is([c EXCEPT !.queue = q], c.status, c.msgs, c.active, c.pin, q, c.next)
           /\ Is([c EXCEPT !.queue = q, !.next = n], c.status, c.msgs, c.active, c.pin, q, n)
           /\ Is([c EXCEPT !.pin = p], c.status, c.msgs, c.active, p, c.queue, c.next)
           /\ Is([c EXCEPT !.active = a], c.status, c.msgs, a, c.pin, c.queue, c.next)
           /\ Is([c EXCEPT !.status = s], s, c.msgs, c.active, c.pin, c.queue, c.next)
           /\ Is([c EXCEPT !.status = s, !.active = a], s, c.msgs, a, c.pin, c.queue, c.next)
           /\ Is([c EXCEPT !.status = s, !.active = a, !.pin = p],
                 s, c.msgs, a, p, c.queue, c.next)
<1>1. /\ c \in Tabs /\ c.status \in Statuses /\ c.msgs \in Lists(Messages) /\ c.active \in Nat
      /\ c.pin \in Nat /\ c.queue \in Lists(Texts) /\ c.next \in Nat \ {0}
  BY DEF Tabs
<1>2. Is([c EXCEPT !.msgs = m], c.status, m, c.active, c.pin, c.queue, c.next)
  BY <1>1 DEF Is, Tabs
<1>3. Is([c EXCEPT !.msgs = m, !.next = n], c.status, m, c.active, c.pin, c.queue, n)
  BY <1>1 DEF Is, Tabs
<1>4. Is([c EXCEPT !.msgs = m, !.active = a, !.next = n], c.status, m, a, c.pin, c.queue, n)
  BY <1>1 DEF Is, Tabs
<1>5. Is([c EXCEPT !.msgs = m, !.queue = q], c.status, m, c.active, c.pin, q, c.next)
  BY <1>1 DEF Is, Tabs
<1>6. Is([c EXCEPT !.queue = q], c.status, c.msgs, c.active, c.pin, q, c.next)
  BY <1>1 DEF Is, Tabs
<1>7. Is([c EXCEPT !.queue = q, !.next = n], c.status, c.msgs, c.active, c.pin, q, n)
  BY <1>1 DEF Is, Tabs
<1>8. Is([c EXCEPT !.pin = p], c.status, c.msgs, c.active, p, c.queue, c.next)
  BY <1>1 DEF Is, Tabs
<1>9. Is([c EXCEPT !.active = a], c.status, c.msgs, a, c.pin, c.queue, c.next)
  BY <1>1 DEF Is, Tabs
<1>10. Is([c EXCEPT !.status = s], s, c.msgs, c.active, c.pin, c.queue, c.next)
  BY <1>1 DEF Is, Tabs
<1>11. Is([c EXCEPT !.status = s, !.active = a], s, c.msgs, a, c.pin, c.queue, c.next)
  BY <1>1 DEF Is, Tabs
<1>12. Is([c EXCEPT !.status = s, !.active = a, !.pin = p], s, c.msgs, a, p, c.queue, c.next)
  BY <1>1 DEF Is, Tabs
<1> QED BY <1>2, <1>3, <1>4, <1>5, <1>6, <1>7, <1>8, <1>9, <1>10, <1>11, <1>12

\* A tab that is the same but for status, live bubble and pin
LEMMA SameLists ==
    ASSUME NEW c, Whole(c), NEW d \in Tabs,
           d.msgs = c.msgs, d.queue = c.queue, d.next = c.next
    PROVE  Whole(d) /\ Grows(c, d) /\ Users(d.msgs) = Users(c.msgs)
  BY WholeParts DEF Whole, Grows

\* Every item a list had that is not taken out of it
LEMMA LessOfLists ==
    ASSUME NEW c, Whole(c), NEW d \in Tabs, d.next = c.next,
           DOMAIN d.msgs \subseteq DOMAIN c.msgs,
           \A i \in DOMAIN d.msgs : d.msgs[i] = c.msgs[i],
           DOMAIN d.queue \subseteq DOMAIN c.queue
    PROVE  Whole(d)
  BY WholeParts DEF Whole, Users

\* A message at the end
LEMMA OneMore ==
    ASSUME NEW c, Whole(c), NEW m \in Messages, m.role = "user" => m.text \in Texts,
           NEW d \in Tabs, d.msgs = Add(c.msgs, c.next, m), d.queue = c.queue,
           d.next = c.next + 1
    PROVE  /\ Grows(c, d)
           /\ DOMAIN d.msgs = DOMAIN c.msgs \cup {c.next} /\ d.msgs[c.next] = m
           /\ \A i \in DOMAIN c.msgs : d.msgs[i] = c.msgs[i]
           /\ m.role = "user" => /\ Users(d.msgs) = Users(c.msgs) \cup {c.next}
                                  /\ Bubbles(d.msgs) = Bubbles(c.msgs)
           /\ m.role = "assistant" => /\ Users(d.msgs) = Users(c.msgs)
                                       /\ Bubbles(d.msgs) = Bubbles(c.msgs) \cup {c.next}
<1>1. /\ c.msgs \in Lists(Messages) /\ c.next \in Nat \ {0} /\ c.next \notin DOMAIN c.msgs
      /\ \A i \in DOMAIN c.msgs : c.msgs[i] \in Messages /\ i < c.next /\ i \in Nat
      /\ \A i \in DOMAIN c.queue : i < c.next /\ i \in Nat
      /\ \A i \in Users(c.msgs) : c.msgs[i].text \in Texts
  BY WholeParts
<1>2. /\ DOMAIN d.msgs = DOMAIN c.msgs \cup {c.next} /\ d.msgs[c.next] = m
      /\ \A i \in DOMAIN c.msgs : d.msgs[i] = c.msgs[i]
  <2>1. /\ DOMAIN Add(c.msgs, c.next, m) = DOMAIN c.msgs \cup {c.next}
        /\ Add(c.msgs, c.next, m)[c.next] = m
        /\ \A i \in DOMAIN c.msgs \ {c.next} : Add(c.msgs, c.next, m)[i] = c.msgs[i]
    BY DEF Add
  <2> QED BY <1>1, <2>1
<1>3. /\ m.role = "user" => Users(d.msgs) = Users(c.msgs) \cup {c.next}
      /\ m.role = "assistant" => Users(d.msgs) = Users(c.msgs)
  BY <1>1, <1>2 DEF Users
<1>4. /\ m.role = "user" => Bubbles(d.msgs) = Bubbles(c.msgs)
      /\ m.role = "assistant" => Bubbles(d.msgs) = Bubbles(c.msgs) \cup {c.next}
  BY <1>1, <1>2 DEF Bubbles
<1>6. m.role \in {"user", "assistant"}
  BY DEF Messages
<1>5. Whole(d)
  <2>1. \A i \in DOMAIN d.msgs \cup DOMAIN d.queue : i < d.next
    BY <1>1, <1>2
  <2>2. \A i \in Users(d.msgs) : d.msgs[i].text \in Texts
    <3>1. CASE m.role = "user"
      BY <1>1, <1>2, <1>3, <3>1 DEF Users
    <3>2. CASE m.role = "assistant"
      BY <1>1, <1>2, <1>3, <3>2 DEF Users
    <3> QED BY <1>6, <3>1, <3>2
  <2> QED BY <2>1, <2>2 DEF Whole
<1>7. Grows(c, d)
  BY <1>1, <1>2, <1>5 DEF Grows
<1> QED BY <1>2, <1>3, <1>4, <1>7

LEMMA SayIs ==
    ASSUME NEW c, Whole(c), NEW t \in Texts, NEW dimmed \in BOOLEAN, NEW d,
           d = Say(c, t, dimmed), NEW m, m = User(t, dimmed)
    PROVE  /\ Is(d, c.status, Add(c.msgs, c.next, m), c.active, c.pin, c.queue, c.next + 1)
           /\ Grows(c, d)
           /\ DOMAIN d.msgs = DOMAIN c.msgs \cup {c.next} /\ d.msgs[c.next] = m
           /\ \A i \in DOMAIN c.msgs : d.msgs[i] = c.msgs[i]
           /\ Users(d.msgs) = Users(c.msgs) \cup {c.next}
           /\ Bubbles(d.msgs) = Bubbles(c.msgs)
<1>1. c \in Tabs /\ c.next \in Nat \ {0} /\ c.next + 1 \in Nat \ {0} /\ c.msgs \in Lists(Messages)
      /\ c.status \in Statuses /\ c.active \in Nat /\ c.pin \in Nat /\ c.queue \in Lists(Texts)
  BY WholeParts DEF Whole
<1>2. m \in Messages /\ m.role = "user" /\ m.text \in Texts
  BY DEF User, Messages, Words
<1>3. Add(c.msgs, c.next, m) \in Lists(Messages)
  BY <1>1, <1>2, AddToList
<1>4. d = [c EXCEPT !.msgs = Add(c.msgs, c.next, m), !.next = c.next + 1]
  BY <1>1 DEF Say, Tabs
<1>5. Is(d, c.status, Add(c.msgs, c.next, m), c.active, c.pin, c.queue, c.next + 1)
  <2>1. \A l \in Lists(Messages), n \in Nat \ {0} :
            Is([c EXCEPT !.msgs = l, !.next = n], c.status, l, c.active, c.pin, c.queue, n)
    BY <1>1, TabUpdates
  <2> QED BY <1>1, <1>3, <1>4, <2>1
<1>6. d \in Tabs /\ d.msgs = Add(c.msgs, c.next, m) /\ d.queue = c.queue /\ d.next = c.next + 1
  BY <1>5 DEF Is
<1>7. Whole(c) /\ m \in Messages /\ (m.role = "user" => m.text \in Texts) /\ d \in Tabs
      /\ d.msgs = Add(c.msgs, c.next, m) /\ d.queue = c.queue /\ d.next = c.next + 1
  BY <1>2, <1>6
<1>8. /\ Grows(c, d)
      /\ DOMAIN d.msgs = DOMAIN c.msgs \cup {c.next} /\ d.msgs[c.next] = m
      /\ \A i \in DOMAIN c.msgs : d.msgs[i] = c.msgs[i]
  BY <1>7, OneMore
<1>9. m.role = "user" => /\ Users(d.msgs) = Users(c.msgs) \cup {c.next}
                         /\ Bubbles(d.msgs) = Bubbles(c.msgs)
  BY <1>7, OneMore
<1> QED BY <1>2, <1>5, <1>8, <1>9

LEMMA OpenBubbleIs ==
    ASSUME NEW c, Whole(c), NEW d, d = OpenBubble(c)
    PROVE  /\ Is(d, c.status, Add(c.msgs, c.next, Bubble), c.next, c.pin, c.queue, c.next + 1)
           /\ Grows(c, d)
           /\ DOMAIN d.msgs = DOMAIN c.msgs \cup {c.next} /\ d.msgs[c.next] = Bubble
           /\ \A i \in DOMAIN c.msgs : d.msgs[i] = c.msgs[i]
           /\ Users(d.msgs) = Users(c.msgs)
           /\ Bubbles(d.msgs) = Bubbles(c.msgs) \cup {c.next}
<1>1. c \in Tabs /\ c.next \in Nat \ {0} /\ c.next + 1 \in Nat \ {0} /\ c.msgs \in Lists(Messages)
      /\ c.status \in Statuses /\ c.active \in Nat /\ c.pin \in Nat /\ c.queue \in Lists(Texts)
  BY WholeParts DEF Whole
<1>2. Bubble \in Messages /\ Bubble.role = "assistant"
  BY DEF Bubble, Messages, Words
<1>3. Add(c.msgs, c.next, Bubble) \in Lists(Messages)
  BY <1>1, <1>2, AddToList
<1>4. d = [c EXCEPT !.msgs = Add(c.msgs, c.next, Bubble), !.active = c.next,
                    !.next = c.next + 1]
  BY <1>1 DEF OpenBubble, Tabs
<1>5. Is(d, c.status, Add(c.msgs, c.next, Bubble), c.next, c.pin, c.queue, c.next + 1)
  <2>1. \A m \in Lists(Messages), a \in Nat, n \in Nat \ {0} :
            Is([c EXCEPT !.msgs = m, !.active = a, !.next = n], c.status, m, a, c.pin, c.queue, n)
    BY <1>1, TabUpdates
  <2> QED BY <1>1, <1>3, <1>4, <2>1
<1>6. /\ Grows(c, d)
      /\ DOMAIN d.msgs = DOMAIN c.msgs \cup {c.next} /\ d.msgs[c.next] = Bubble
      /\ \A i \in DOMAIN c.msgs : d.msgs[i] = c.msgs[i]
      /\ Users(d.msgs) = Users(c.msgs)
      /\ Bubbles(d.msgs) = Bubbles(c.msgs) \cup {c.next}
  <2>1. d \in Tabs /\ d.msgs = Add(c.msgs, c.next, Bubble) /\ d.queue = c.queue
        /\ d.next = c.next + 1
    BY <1>5 DEF Is
  <2>2. Bubble.role = "user" => Bubble.text \in Texts
    BY <1>2
  <2> QED BY <1>2, <2>1, <2>2, OneMore
<1> QED BY <1>5, <1>6

\* Messages that are written anew, each in its place
LEMMA Rewritten ==
    ASSUME NEW c, Whole(c), NEW m \in Lists(Messages), DOMAIN m = DOMAIN c.msgs,
           \A i \in DOMAIN m : /\ m[i].role = c.msgs[i].role /\ m[i].text = c.msgs[i].text
                               /\ m[i].awaiting => c.msgs[i].awaiting
                               /\ m[i].pending => c.msgs[i].pending,
           NEW d \in Tabs, d.msgs = m, DOMAIN d.queue \subseteq DOMAIN c.queue, d.next = c.next
    PROVE  Grows(c, d) /\ Users(d.msgs) = Users(c.msgs) /\ Bubbles(d.msgs) = Bubbles(c.msgs)
<1>1. c.next \in Nat /\ \A i \in Users(c.msgs) : c.msgs[i].text \in Texts
  BY WholeParts
<1>2. Users(m) = Users(c.msgs)
  BY DEF Users
<1>3. Bubbles(m) = Bubbles(c.msgs)
  BY DEF Bubbles
<1>4. Whole(d)
  <2>1. \A i \in DOMAIN d.msgs \cup DOMAIN d.queue : i < d.next
    BY DEF Whole
  <2>2. \A i \in Users(d.msgs) : d.msgs[i].text \in Texts
    BY <1>1, <1>2 DEF Users
  <2> QED BY <2>1, <2>2 DEF Whole
<1> QED BY <1>1, <1>2, <1>3, <1>4 DEF Grows

LEMMA DeliveredIs ==
    ASSUME NEW q \in Lists(Texts), NEW t
    PROVE  /\ Delivered(q, t) \in Lists(Texts)
           /\ DOMAIN Delivered(q, t) \subseteq DOMAIN q
           /\ \A i \in DOMAIN Delivered(q, t) : Delivered(q, t)[i] = q[i]
           /\ (\A i \in DOMAIN q : q[i] # t) => Delivered(q, t) = q
<1> DEFINE those == {i \in DOMAIN q : q[i] = t}
<1>1. CASE those = {}
  BY <1>1 DEF Delivered
<1>2. CASE those # {}
  <2>1. Delivered(q, t) = Without(q, Earliest(those))
    BY <1>2 DEF Delivered
  <2>2. Without(q, Earliest(those)) \in Lists(Texts)
    BY TakeFromList
  <2>3. /\ DOMAIN Without(q, Earliest(those)) = DOMAIN q \ {Earliest(those)}
        /\ \A i \in DOMAIN q \ {Earliest(those)} : Without(q, Earliest(those))[i] = q[i]
    BY DEF Without
  <2> QED BY <1>2, <2>1, <2>2, <2>3
<1> QED BY <1>1, <1>2

LEMMA BrightenIs ==
    ASSUME NEW c, Whole(c), NEW w \in DOMAIN c.msgs, NEW d, d = Brighten(c, w)
    PROVE  /\ Is(d, c.status, d.msgs, c.active, c.pin, c.queue, c.next)
           /\ Grows(c, d)
           /\ DOMAIN d.msgs = DOMAIN c.msgs
           /\ d.msgs[w].awaiting = FALSE /\ d.msgs[w].pending = FALSE
           /\ \A i \in DOMAIN c.msgs : /\ d.msgs[i].got = c.msgs[i].got
                                       /\ i # w => d.msgs[i] = c.msgs[i]
           /\ Users(d.msgs) = Users(c.msgs) /\ Bubbles(d.msgs) = Bubbles(c.msgs)
<1>1. c \in Tabs /\ c.next \in Nat \ {0} /\ c.msgs \in Lists(Messages)
      /\ c.status \in Statuses /\ c.active \in Nat /\ c.pin \in Nat /\ c.queue \in Lists(Texts)
      /\ DOMAIN c.msgs \in SUBSET (Nat \ {0}) /\ c.msgs \in [DOMAIN c.msgs -> Messages]
  BY WholeParts, ListsAreFunctions DEF Whole
<1> DEFINE b == [c.msgs[w] EXCEPT !.pending = FALSE, !.awaiting = FALSE]
           m == [c.msgs EXCEPT ![w] = b]
<1>2. c.msgs[w] \in Messages
  BY <1>1
<1>3. /\ b \in Messages /\ b.awaiting = FALSE /\ b.pending = FALSE
      /\ b.role = c.msgs[w].role
      /\ b.text = c.msgs[w].text /\ b.got = c.msgs[w].got
  BY <1>2 DEF Messages
<1>4. d = [c EXCEPT !.msgs = m]
  BY <1>1 DEF Brighten, Tabs
<1> HIDE DEF b
<1>5. m \in [DOMAIN c.msgs -> Messages] /\ DOMAIN m = DOMAIN c.msgs
  BY <1>1, <1>3
<1>6. m \in Lists(Messages)
  BY <1>1, <1>5, ListsAreFunctions
<1>7. m[w] = b /\ \A i \in DOMAIN c.msgs : i # w => m[i] = c.msgs[i]
  BY <1>1
<1>8. \A i \in DOMAIN m : /\ m[i].role = c.msgs[i].role /\ m[i].text = c.msgs[i].text
                          /\ m[i].awaiting => c.msgs[i].awaiting
                          /\ m[i].pending => c.msgs[i].pending
                          /\ m[i].got = c.msgs[i].got
  BY <1>3, <1>5, <1>7
<1> HIDE DEF m
<1>9. Is(d, c.status, m, c.active, c.pin, c.queue, c.next)
  <2>1. \A l \in Lists(Messages) :
            Is([c EXCEPT !.msgs = l], c.status, l, c.active, c.pin, c.queue, c.next)
    BY <1>1, TabUpdates
  <2> QED BY <1>4, <1>6, <2>1
<1>10. d \in Tabs /\ d.msgs = m /\ d.queue = c.queue /\ d.next = c.next
  BY <1>9 DEF Is
<1>11. Grows(c, d) /\ Users(d.msgs) = Users(c.msgs) /\ Bubbles(d.msgs) = Bubbles(c.msgs)
  BY <1>5, <1>6, <1>8, <1>10, Rewritten
<1> QED BY <1>3, <1>5, <1>7, <1>8, <1>9, <1>10, <1>11

LEMMA PinActiveIs ==
    ASSUME NEW c, Whole(c), NEW d, d = PinActive(c)
    PROVE  Is(d, c.status, c.msgs, c.active, c.active, c.queue, c.next) /\ Grows(c, d)
<1>1. c \in Tabs /\ c.next \in Nat \ {0} /\ c.msgs \in Lists(Messages)
      /\ c.status \in Statuses /\ c.active \in Nat /\ c.pin \in Nat /\ c.queue \in Lists(Texts)
  BY WholeParts DEF Whole
<1>2. Is(d, c.status, c.msgs, c.active, c.active, c.queue, c.next)
  <2>1. \A p \in Nat :
            Is([c EXCEPT !.pin = p], c.status, c.msgs, c.active, p, c.queue, c.next)
    BY <1>1, TabUpdates
  <2> QED BY <1>1, <2>1 DEF PinActive
<1>3. d \in Tabs /\ d.msgs = c.msgs /\ d.queue = c.queue /\ d.next = c.next
  BY <1>2 DEF Is
<1> QED BY <1>2, <1>3, SameLists

LEMMA GrowsThrough ==
    ASSUME NEW c, NEW d, NEW e, Whole(c), Grows(c, d), Grows(d, e)
    PROVE  Grows(c, e)
<1>1. c.next \in Nat /\ d.next \in Nat /\ e.next \in Nat
  BY WholeParts DEF Grows
<1>2. \A i \in DOMAIN e.msgs : i \in Nat
  BY WholeParts DEF Grows
<1> QED BY <1>1, <1>2 DEF Grows

-----------------------------------------------------------------------------
\* ---- Echoes ----

\* Nothing is queued by the step that was not queued before it.
Queues(c, d) == /\ DOMAIN d.queue \subseteq DOMAIN c.queue
                /\ \A i \in DOMAIN d.queue : d.queue[i] = c.queue[i]

\* The echoed message is shown and does not wait for its echo any more.
Settled(d, t) == \E i \in Users(d.msgs) : d.msgs[i].text = t /\ ~d.msgs[i].awaiting

\* An echo that finds no message of its own
Unmatched(c, t) == Awaited(c.msgs, t) = {} /\ ~MatchesLast(c.msgs, t)

LEMMA DequeuedIs ==
    ASSUME NEW c, Whole(c), NEW t, NEW d, d = [c EXCEPT !.queue = Delivered(@, t)]
    PROVE  /\ Is(d, c.status, c.msgs, c.active, c.pin, Delivered(c.queue, t), c.next)
           /\ Grows(c, d) /\ Queues(c, d)
<1>1. c \in Tabs /\ c.queue \in Lists(Texts)
  BY WholeParts DEF Whole
<1> DEFINE q == Delivered(c.queue, t)
<1>2. /\ q \in Lists(Texts) /\ DOMAIN q \subseteq DOMAIN c.queue
      /\ \A i \in DOMAIN q : q[i] = c.queue[i]
  BY <1>1, DeliveredIs
<1>3. d = [c EXCEPT !.queue = q]
  BY <1>1 DEF Tabs
<1> HIDE DEF q
<1>4. Is(d, c.status, c.msgs, c.active, c.pin, q, c.next)
  <2>1. c.status \in Statuses /\ c.msgs \in Lists(Messages) /\ c.active \in Nat /\ c.pin \in Nat
        /\ c.next \in Nat \ {0}
    BY WholeParts
  <2>2. \A l \in Lists(Texts) : Is([c EXCEPT !.queue = l], c.status, c.msgs, c.active, c.pin, l,
                                   c.next)
    BY <1>1, <2>1, TabUpdates
  <2> QED BY <1>2, <1>3, <2>2
<1>5. d \in Tabs /\ d.msgs = c.msgs /\ d.queue = q /\ d.next = c.next
  BY <1>4 DEF Is
<1>6. Whole(d)
  BY <1>2, <1>5 DEF Whole
<1>7. Grows(c, d)
  BY <1>5, <1>6, WholeParts DEF Grows
<1> QED BY <1>2, <1>4, <1>5, <1>7 DEF q, Queues

\* A bubble for the reply, with the pin on it
LEMMA OpenedIs ==
    ASSUME NEW c, Whole(c), NEW d, d = PinActive(OpenBubble(c))
    PROVE  /\ Grows(c, d) /\ d.queue = c.queue
           /\ d.active = c.next /\ d.pin = c.next /\ d.next = c.next + 1
           /\ DOMAIN d.msgs = DOMAIN c.msgs \cup {c.next} /\ d.msgs[c.next] = Bubble
           /\ \A i \in DOMAIN c.msgs : d.msgs[i] = c.msgs[i]
           /\ Users(d.msgs) = Users(c.msgs)
           /\ Bubbles(d.msgs) = Bubbles(c.msgs) \cup {c.next}
<1> DEFINE o == OpenBubble(c)
<1>1. /\ Is(o, c.status, Add(c.msgs, c.next, Bubble), c.next, c.pin, c.queue, c.next + 1)
      /\ Grows(c, o)
      /\ DOMAIN o.msgs = DOMAIN c.msgs \cup {c.next} /\ o.msgs[c.next] = Bubble
      /\ \A i \in DOMAIN c.msgs : o.msgs[i] = c.msgs[i]
      /\ Users(o.msgs) = Users(c.msgs)
      /\ Bubbles(o.msgs) = Bubbles(c.msgs) \cup {c.next}
  BY OpenBubbleIs
<1> HIDE DEF o
<1>2. d = PinActive(o)
  BY DEF o
<1>3. Whole(o)
  BY <1>1 DEF Grows
<1>4. Is(d, o.status, o.msgs, o.active, o.active, o.queue, o.next) /\ Grows(o, d)
  BY <1>2, <1>3, PinActiveIs
<1>5. Grows(c, d)
  BY <1>1, <1>4, GrowsThrough
<1> QED BY <1>1, <1>4, <1>5 DEF Is

LEMMA EchoIs ==
    ASSUME NEW c, Whole(c), NEW t \in Texts, NEW d, d = EchoUser(c, t)
    PROVE  /\ Grows(c, d) /\ Queues(c, d) /\ d.queue = Delivered(c.queue, t)
           /\ ~Unmatched(c, t) => Users(d.msgs) = Users(c.msgs)
           /\ Unmatched(c, t) => /\ Users(d.msgs) = Users(c.msgs) \cup {c.next}
                                 /\ d.msgs[c.next].text = t
           /\ \/ Settled(d, t)
              \/ /\ Awaited(c.msgs, t) = {} /\ MatchesLast(c.msgs, t)
                 /\ c.msgs[Latest(Users(c.msgs))].text # t
<1> DEFINE q == [c EXCEPT !.queue = Delivered(@, t)]
           waiting == Awaited(c.msgs, t)
<1>1. /\ Is(q, c.status, c.msgs, c.active, c.pin, Delivered(c.queue, t), c.next)
      /\ Grows(c, q) /\ Queues(c, q)
  BY DequeuedIs
<1>2. Whole(q) /\ q.msgs = c.msgs /\ q.next = c.next /\ q.queue = Delivered(c.queue, t)
  BY <1>1 DEF Grows, Is
<1>3. /\ waiting # {} => d = PinActive(OpenBubble(Brighten(q, Latest(waiting))))
      /\ waiting = {} /\ MatchesLast(c.msgs, t) => d = q
      /\ waiting = {} /\ ~MatchesLast(c.msgs, t) => d = PinActive(OpenBubble(Say(q, t, FALSE)))
  BY DEF EchoUser
<1> HIDE DEF q
<1>4. /\ DOMAIN c.msgs \subseteq Nat \ {0} /\ c.next \in Nat
      /\ \A i \in DOMAIN c.msgs : c.msgs[i] \in Messages /\ i < c.next
      /\ Users(c.msgs) \subseteq DOMAIN c.msgs
  BY WholeParts
<1>5. CASE waiting # {}
  <2> DEFINE w == Latest(waiting)
  <2>1. waiting \in SUBSET Nat /\ \A i \in waiting : i < c.next /\ i \in DOMAIN c.msgs
    BY <1>4 DEF Awaited
  <2>2. w \in waiting
    BY <1>4, <1>5, <2>1, LatestIs
  <2>3. w \in DOMAIN c.msgs /\ w \in Users(c.msgs) /\ c.msgs[w].text = t
    BY <2>2 DEF Awaited, Users
  <2> DEFINE b == Brighten(q, w)
  <2> HIDE DEF w
  <2>4. /\ Is(b, q.status, b.msgs, q.active, q.pin, q.queue, q.next)
        /\ Grows(q, b)
        /\ b.msgs[w].awaiting = FALSE
        /\ Users(b.msgs) = Users(q.msgs)
    <3>1. Whole(q) /\ w \in DOMAIN q.msgs /\ b = Brighten(q, w)
      BY <1>2, <2>3
    <3> HIDE DEF b
    <3> QED BY <3>1, BrightenIs
  <2>5. d = PinActive(OpenBubble(b))
    BY <1>3, <1>5 DEF w
  <2> HIDE DEF b
  <2>6. Whole(b)
    BY <2>4 DEF Grows
  <2>7. /\ Grows(b, d) /\ d.queue = b.queue /\ Users(d.msgs) = Users(b.msgs)
        /\ \A i \in DOMAIN b.msgs : d.msgs[i] = b.msgs[i]
    BY <2>5, <2>6, OpenedIs
  <2>8. b.queue = q.queue
    BY <2>4 DEF Is
  <2>9. Grows(c, d)
    <3>1. Grows(c, b)
      BY <1>1, <2>4, GrowsThrough
    <3> QED BY <3>1, <2>7, GrowsThrough
  <2>10. w \in DOMAIN b.msgs /\ b.msgs[w].text = t
    BY <1>2, <2>3, <2>4 DEF Grows
  <2>11. Settled(d, t)
    BY <1>2, <2>3, <2>4, <2>7, <2>10 DEF Settled
  <2>12. Queues(c, d) /\ d.queue = Delivered(c.queue, t)
    BY <1>1, <1>2, <2>7, <2>8 DEF Queues
  <2>13. Users(d.msgs) = Users(c.msgs) /\ ~Unmatched(c, t)
    BY <1>2, <1>5, <2>4, <2>7 DEF Unmatched
  <2> QED BY <2>9, <2>11, <2>12, <2>13
<1>6. CASE waiting = {} /\ MatchesLast(c.msgs, t)
  <2>1. d = q /\ ~Unmatched(c, t)
    BY <1>3, <1>6 DEF Unmatched
  <2> DEFINE last == Latest(Users(c.msgs))
  <2>2. last \in Users(c.msgs)
    <3>1. Users(c.msgs) # {} /\ Users(c.msgs) \in SUBSET Nat
          /\ \A i \in Users(c.msgs) : i < c.next
      BY <1>4, <1>6 DEF MatchesLast
    <3> QED BY <1>4, <3>1, LatestIs
  <2> HIDE DEF last
  <2>3. CASE c.msgs[last].text = t
    <3>1. last \notin waiting /\ c.msgs[last] \in Messages
      BY <1>4, <1>6, <2>2
    <3>2. ~c.msgs[last].awaiting
      BY <2>2, <2>3, <3>1 DEF Awaited
    <3>3. Settled(d, t)
      BY <1>2, <2>1, <2>2, <2>3, <3>2 DEF Settled
    <3> QED BY <1>1, <1>2, <2>1, <3>3
  <2>4. CASE c.msgs[last].text # t
    BY <1>1, <1>2, <1>6, <2>1, <2>4 DEF last
  <2> QED BY <2>3, <2>4
<1>7. CASE waiting = {} /\ ~MatchesLast(c.msgs, t)
  <2> DEFINE no == FALSE
             s == Say(q, t, no)
             m == User(t, no)
  <2>1. s = Say(q, t, no) /\ m = User(t, no) /\ no \in BOOLEAN
    OBVIOUS
  <2>4. m.text = t /\ m.awaiting = FALSE
    BY DEF User
  <2>3. d = PinActive(OpenBubble(s))
    BY <1>3, <1>7
  <2> HIDE DEF s, m, no
  <2>2. /\ Is(s, q.status, Add(q.msgs, q.next, m), q.active, q.pin, q.queue, q.next + 1)
        /\ Grows(q, s)
        /\ s.msgs[q.next] = m
        /\ Users(s.msgs) = Users(q.msgs) \cup {q.next}
    BY <1>2, <2>1, SayIs
  <2>5. Whole(s)
    BY <2>2 DEF Grows
  <2>6. /\ Grows(s, d) /\ d.queue = s.queue /\ Users(d.msgs) = Users(s.msgs)
        /\ \A i \in DOMAIN s.msgs : d.msgs[i] = s.msgs[i]
    BY <2>3, <2>5, OpenedIs
  <2>7. s.queue = q.queue
    BY <2>2 DEF Is
  <2>8. Grows(c, d)
    <3>1. Grows(c, s)
      BY <1>1, <2>2, GrowsThrough
    <3> QED BY <3>1, <2>6, GrowsThrough
  <2>9. c.next \in Users(s.msgs) /\ c.next \in DOMAIN s.msgs
    BY <1>2, <2>2 DEF Users
  <2>10. d.msgs[c.next] = m /\ Users(d.msgs) = Users(c.msgs) \cup {c.next}
    BY <1>2, <2>2, <2>6, <2>9
  <2>11. Settled(d, t)
    BY <2>4, <2>10 DEF Settled
  <2>12. Queues(c, d) /\ d.queue = Delivered(c.queue, t)
    BY <1>1, <1>2, <2>6, <2>7 DEF Queues
  <2>13. Unmatched(c, t)
    BY <1>7 DEF Unmatched
  <2> QED BY <2>4, <2>8, <2>10, <2>11, <2>12, <2>13
<1> QED BY <1>5, <1>6, <1>7

-----------------------------------------------------------------------------
\* ---- Replies, the end of a run, and the queue ----

LEMMA ResolveIs ==
    ASSUME NEW c, Whole(c), NEW d, d = Resolve(c)
    PROVE  /\ Grows(c, d) /\ d.queue = c.queue /\ Users(d.msgs) = Users(c.msgs)
           /\ d.active \in DOMAIN d.msgs
<1>1. /\ c \in Tabs /\ c.active \in Nat /\ c.pin \in Nat /\ c.next \in Nat \ {0}
      /\ c.status \in Statuses /\ c.msgs \in Lists(Messages) /\ c.queue \in Lists(Texts)
      /\ DOMAIN c.msgs \subseteq Nat \ {0} /\ Bubbles(c.msgs) \subseteq DOMAIN c.msgs
      /\ \A i \in DOMAIN c.msgs : i < c.next
  BY WholeParts DEF Whole
<1> DEFINE p == IF c.pin \in DOMAIN c.msgs THEN c.pin ELSE 0
           checked == [c EXCEPT !.pin = p]
           last == Latest(Bubbles(c.msgs))
<1>2. checked = [c EXCEPT !.pin = IF @ \in DOMAIN c.msgs THEN @ ELSE 0]
  BY <1>1 DEF Tabs
<1>3. d = IF c.pin \in DOMAIN c.msgs THEN [c EXCEPT !.active = c.pin]
          ELSE IF c.active \in DOMAIN c.msgs THEN checked
          ELSE IF Bubbles(c.msgs) # {} THEN [checked EXCEPT !.active = last]
          ELSE OpenBubble(checked)
  BY <1>2 DEF Resolve
<1>4. Is(checked, c.status, c.msgs, c.active, p, c.queue, c.next)
  <2>1. p \in Nat
    BY <1>1
  <2>2. \A n \in Nat : Is([c EXCEPT !.pin = n], c.status, c.msgs, c.active, n, c.queue, c.next)
    BY <1>1, TabUpdates
  <2> QED BY <2>1, <2>2
<1> HIDE DEF p, checked
<1>5. checked \in Tabs /\ checked.msgs = c.msgs /\ checked.queue = c.queue
      /\ checked.next = c.next /\ checked.active = c.active
  BY <1>4 DEF Is
<1>6. Whole(checked) /\ Grows(c, checked)
  BY <1>5, SameLists
<1>7. \A a \in Nat : /\ Is([c EXCEPT !.active = a], c.status, c.msgs, a, c.pin, c.queue, c.next)
                     /\ Is([checked EXCEPT !.active = a], checked.status, checked.msgs, a,
                           checked.pin, checked.queue, checked.next)
  <2>1. /\ checked.status \in Statuses /\ checked.msgs \in Lists(Messages)
        /\ checked.pin \in Nat /\ checked.queue \in Lists(Texts) /\ checked.next \in Nat \ {0}
        /\ checked.active \in Nat
    BY <1>6, WholeParts
  <2>2. \A a \in Nat : Is([c EXCEPT !.active = a], c.status, c.msgs, a, c.pin, c.queue, c.next)
    BY <1>1, TabUpdates
  <2>3. \A a \in Nat : Is([checked EXCEPT !.active = a], checked.status, checked.msgs, a,
                          checked.pin, checked.queue, checked.next)
    BY <1>5, <2>1, TabUpdates
  <2> QED BY <2>2, <2>3
<1>8. CASE c.pin \in DOMAIN c.msgs
  <2>1. Is(d, c.status, c.msgs, c.pin, c.pin, c.queue, c.next)
    BY <1>1, <1>3, <1>7, <1>8
  <2>2. d \in Tabs /\ d.msgs = c.msgs /\ d.queue = c.queue /\ d.next = c.next /\ d.active = c.pin
    BY <2>1 DEF Is
  <2> QED BY <1>8, <2>2, SameLists
<1>9. CASE c.pin \notin DOMAIN c.msgs /\ c.active \in DOMAIN c.msgs
  BY <1>3, <1>5, <1>6, <1>9
<1>10. CASE /\ c.pin \notin DOMAIN c.msgs /\ c.active \notin DOMAIN c.msgs
            /\ Bubbles(c.msgs) # {}
  <2>1. Bubbles(c.msgs) \in SUBSET Nat /\ \A i \in Bubbles(c.msgs) : i < c.next
    BY <1>1
  <2>2. last \in Bubbles(c.msgs)
    BY <1>1, <1>10, <2>1, LatestIs
  <2>3. last \in DOMAIN c.msgs /\ last \in Nat
    BY <1>1, <2>2
  <2> HIDE DEF last
  <2>4. Is(d, checked.status, checked.msgs, last, checked.pin, checked.queue, checked.next)
    BY <1>3, <1>7, <1>10, <2>3
  <2>5. d \in Tabs /\ d.msgs = c.msgs /\ d.queue = c.queue /\ d.next = c.next /\ d.active = last
    BY <1>5, <2>4 DEF Is
  <2> QED BY <2>3, <2>5, SameLists
<1>11. CASE /\ c.pin \notin DOMAIN c.msgs /\ c.active \notin DOMAIN c.msgs
            /\ Bubbles(c.msgs) = {}
  <2>1. d = OpenBubble(checked)
    BY <1>3, <1>11
  <2>2. /\ Is(d, checked.status, Add(checked.msgs, checked.next, Bubble), checked.next,
              checked.pin, checked.queue, checked.next + 1)
        /\ Grows(checked, d)
        /\ DOMAIN d.msgs = DOMAIN checked.msgs \cup {checked.next}
        /\ Users(d.msgs) = Users(checked.msgs)
    BY <1>6, <2>1, OpenBubbleIs
  <2>3. Grows(c, d)
    BY <1>6, <2>2, GrowsThrough
  <2>4. d.queue = checked.queue /\ d.active = checked.next
    BY <2>2 DEF Is
  <2> QED BY <1>5, <2>2, <2>3, <2>4
<1> QED BY <1>8, <1>9, <1>10, <1>11

LEMMA WriteIs ==
    ASSUME NEW c, Whole(c), NEW t \in Words, NEW d, d = Write(c, t)
    PROVE  Grows(c, d) /\ d.queue = c.queue /\ Users(d.msgs) = Users(c.msgs)
<1> DEFINE r == Resolve(c)
<1>1. /\ Grows(c, r) /\ r.queue = c.queue /\ Users(r.msgs) = Users(c.msgs)
      /\ r.active \in DOMAIN r.msgs
  BY ResolveIs
<1>2. d = [r EXCEPT !.msgs[r.active].got = @ \cup {t}]
  BY DEF Write
<1> HIDE DEF r
<1>3. Whole(r)
  BY <1>1 DEF Grows
<1>4. /\ r \in Tabs /\ r.msgs \in Lists(Messages) /\ DOMAIN r.msgs \in SUBSET (Nat \ {0})
      /\ r.msgs \in [DOMAIN r.msgs -> Messages] /\ r.msgs[r.active] \in Messages
      /\ r.status \in Statuses /\ r.active \in Nat /\ r.pin \in Nat /\ r.queue \in Lists(Texts)
      /\ r.next \in Nat \ {0}
  BY <1>1, <1>3, WholeParts, ListsAreFunctions DEF Whole
<1> DEFINE b == [r.msgs[r.active] EXCEPT !.got = @ \cup {t}]
           m == [r.msgs EXCEPT ![r.active] = b]
<1>5. /\ b \in Messages /\ b.role = r.msgs[r.active].role /\ b.text = r.msgs[r.active].text
      /\ b.awaiting = r.msgs[r.active].awaiting /\ b.pending = r.msgs[r.active].pending
      /\ b.got = r.msgs[r.active].got \cup {t}
  BY <1>4 DEF Messages
<1>6. d = [r EXCEPT !.msgs = m]
  BY <1>2, <1>4 DEF Tabs
<1> HIDE DEF b
<1>7. m \in [DOMAIN r.msgs -> Messages] /\ DOMAIN m = DOMAIN r.msgs
  BY <1>4, <1>5
<1>8. m \in Lists(Messages)
  BY <1>4, <1>7, ListsAreFunctions
<1>9. \A i \in DOMAIN m : /\ m[i].role = r.msgs[i].role /\ m[i].text = r.msgs[i].text
                          /\ m[i].awaiting => r.msgs[i].awaiting
                          /\ m[i].pending => r.msgs[i].pending
  BY <1>4, <1>5
<1> HIDE DEF m
<1>10. Is(d, r.status, m, r.active, r.pin, r.queue, r.next)
  <2>1. \A l \in Lists(Messages) :
            Is([r EXCEPT !.msgs = l], r.status, l, r.active, r.pin, r.queue, r.next)
    BY <1>4, TabUpdates
  <2> QED BY <1>6, <1>8, <2>1
<1>11. d \in Tabs /\ d.msgs = m /\ d.queue = r.queue /\ d.next = r.next
  BY <1>10 DEF Is
<1>12. Grows(r, d) /\ Users(d.msgs) = Users(r.msgs)
  BY <1>3, <1>7, <1>8, <1>9, <1>11, Rewritten
<1>13. Grows(c, d)
  BY <1>1, <1>12, GrowsThrough
<1> QED BY <1>1, <1>11, <1>12, <1>13

\* What the end of a run takes from the messages
LEMMA ClearedIs ==
    ASSUME NEW c, Whole(c), NEW d, d = ClearPending(c) \/ d = ClearAwaiting(c)
    PROVE  /\ Is(d, c.status, d.msgs, c.active, c.pin, c.queue, c.next)
           /\ Grows(c, d) /\ Users(d.msgs) = Users(c.msgs) /\ Bubbles(d.msgs) = Bubbles(c.msgs)
<1>1. /\ c \in Tabs /\ c.msgs \in Lists(Messages) /\ DOMAIN c.msgs \in SUBSET (Nat \ {0})
      /\ \A i \in DOMAIN c.msgs : c.msgs[i] \in Messages
      /\ c.status \in Statuses /\ c.active \in Nat /\ c.pin \in Nat /\ c.queue \in Lists(Texts)
      /\ c.next \in Nat \ {0}
  BY WholeParts DEF Whole
<1> DEFINE same(m) == \A i \in DOMAIN c.msgs : /\ m[i].role = c.msgs[i].role
                                               /\ m[i].text = c.msgs[i].text
                                               /\ m[i].awaiting => c.msgs[i].awaiting
                                               /\ m[i].pending => c.msgs[i].pending
<1>2. PICK m \in [DOMAIN c.msgs -> Messages] : d = [c EXCEPT !.msgs = m] /\ same(m)
  <2>1. CASE d = ClearPending(c)
    <3> DEFINE m == [i \in DOMAIN c.msgs |-> [c.msgs[i] EXCEPT !.pending = FALSE]]
    <3>1. \A i \in DOMAIN c.msgs : /\ [c.msgs[i] EXCEPT !.pending = FALSE] \in Messages
                                   /\ m[i].role = c.msgs[i].role
                                   /\ m[i].text = c.msgs[i].text
                                   /\ m[i].awaiting => c.msgs[i].awaiting
                                   /\ m[i].pending => c.msgs[i].pending
      BY <1>1 DEF Messages
    <3>2. d = [c EXCEPT !.msgs = m]
      BY <1>1, <2>1 DEF ClearPending, Tabs
    <3>3. m \in [DOMAIN c.msgs -> Messages]
      BY <3>1
    <3> QED BY <3>1, <3>2, <3>3
  <2>2. CASE d = ClearAwaiting(c)
    <3> DEFINE m == [i \in DOMAIN c.msgs |-> [c.msgs[i] EXCEPT !.awaiting = FALSE]]
    <3>1. \A i \in DOMAIN c.msgs : /\ [c.msgs[i] EXCEPT !.awaiting = FALSE] \in Messages
                                   /\ m[i].role = c.msgs[i].role
                                   /\ m[i].text = c.msgs[i].text
                                   /\ m[i].awaiting => c.msgs[i].awaiting
                                   /\ m[i].pending => c.msgs[i].pending
      BY <1>1 DEF Messages
    <3>2. d = [c EXCEPT !.msgs = m]
      BY <1>1, <2>2 DEF ClearAwaiting, Tabs
    <3>3. m \in [DOMAIN c.msgs -> Messages]
      BY <3>1
    <3> QED BY <3>1, <3>2, <3>3
  <2> QED BY <2>1, <2>2
<1>3. m \in Lists(Messages) /\ DOMAIN m = DOMAIN c.msgs
  BY <1>1, ListsAreFunctions
<1>4. Is(d, c.status, m, c.active, c.pin, c.queue, c.next)
  <2>1. \A l \in Lists(Messages) :
            Is([c EXCEPT !.msgs = l], c.status, l, c.active, c.pin, c.queue, c.next)
    BY <1>1, TabUpdates
  <2> QED BY <1>2, <1>3, <2>1
<1>5. d \in Tabs /\ d.msgs = m /\ d.queue = c.queue /\ d.next = c.next
  BY <1>4 DEF Is
<1>6. Grows(c, d) /\ Users(d.msgs) = Users(c.msgs) /\ Bubbles(d.msgs) = Bubbles(c.msgs)
  BY <1>2, <1>3, <1>5, Rewritten
<1> QED BY <1>4, <1>5, <1>6

\* The status and the live bubble, and the pin
LEMMA SettledIs ==
    ASSUME NEW c, Whole(c)
    PROVE  /\ Is(SettleTurn(c), "idle", c.msgs, 0, c.pin, c.queue, c.next)
           /\ Is(DropPin(c), c.status, c.msgs, c.active, 0, c.queue, c.next)
           /\ Grows(c, SettleTurn(c)) /\ Grows(c, DropPin(c))
<1>1. /\ c \in Tabs /\ c.status \in Statuses /\ c.msgs \in Lists(Messages) /\ c.active \in Nat
      /\ c.pin \in Nat /\ c.queue \in Lists(Texts) /\ c.next \in Nat \ {0}
  BY WholeParts DEF Whole
<1>2. Is(SettleTurn(c), "idle", c.msgs, 0, c.pin, c.queue, c.next)
  <2>1. \A s \in Statuses, a \in Nat :
            Is([c EXCEPT !.status = s, !.active = a], s, c.msgs, a, c.pin, c.queue, c.next)
    BY <1>1, TabUpdates
  <2>2. "idle" \in Statuses
    BY DEF Statuses
  <2> QED BY <2>1, <2>2 DEF SettleTurn
<1>3. Is(DropPin(c), c.status, c.msgs, c.active, 0, c.queue, c.next)
  <2>1. \A p \in Nat : Is([c EXCEPT !.pin = p], c.status, c.msgs, c.active, p, c.queue, c.next)
    BY <1>1, TabUpdates
  <2> QED BY <2>1 DEF DropPin
<1>4. Grows(c, SettleTurn(c))
  BY <1>2, SameLists DEF Is
<1>5. Grows(c, DropPin(c))
  BY <1>3, SameLists DEF Is
<1> QED BY <1>2, <1>3, <1>4, <1>5

\* Each queued text was queued before or is one of pi's.
Merges(c, stay, held, new, d) ==
    /\ \A i \in DOMAIN d.queue : i \in stay \/ \E n \in new : i = c.next + n - 1
    /\ \A i \in stay : i \in DOMAIN d.queue /\ d.queue[i] = c.queue[i]
    /\ \A n \in new : /\ c.next + n - 1 \in DOMAIN d.queue
                       /\ d.queue[c.next + n - 1] = held[n]

LEMMA EnqueueIs ==
    ASSUME NEW c, Whole(c), NEW stay \in SUBSET DOMAIN c.queue, NEW held \in Seq(Texts),
           NEW new \in SUBSET DOMAIN held, NEW d, d = Enqueue(c, stay, held, new)
    PROVE  /\ Is(d, c.status, c.msgs, c.active, c.pin, d.queue, c.next + Len(held))
           /\ Grows(c, d) /\ Merges(c, stay, held, new, d)
<1>1. /\ c \in Tabs /\ c.status \in Statuses /\ c.msgs \in Lists(Messages) /\ c.active \in Nat
      /\ c.pin \in Nat /\ c.queue \in Lists(Texts) /\ c.next \in Nat \ {0}
      /\ DOMAIN c.queue \subseteq Nat \ {0}
      /\ \A i \in DOMAIN c.queue : c.queue[i] \in Texts /\ i < c.next
  BY WholeParts DEF Whole
<1>2. /\ Len(held) \in Nat /\ c.next + Len(held) \in Nat \ {0}
      /\ \A n \in new : n \in Nat /\ 1 <= n /\ n <= Len(held) /\ held[n] \in Texts
  BY <1>1
<1> DEFINE ids == stay \cup {c.next + n - 1 : n \in new}
           item(i) == IF i \in stay THEN c.queue[i] ELSE held[i - c.next + 1]
           q == [i \in ids |-> item(i)]
<1>3. \A n \in new : /\ c.next + n - 1 \in Nat \ {0} /\ c.next + n - 1 \notin stay
                     /\ c.next + n - 1 < c.next + Len(held)
                     /\ (c.next + n - 1) - c.next + 1 = n
  BY <1>1, <1>2
<1>4. ids \in SUBSET (Nat \ {0}) /\ \A i \in ids : i < c.next + Len(held) /\ item(i) \in Texts
  BY <1>1, <1>2, <1>3
<1>5. d = [c EXCEPT !.queue = q, !.next = c.next + Len(held)]
  BY <1>1 DEF Enqueue, Tabs
<1>6. /\ DOMAIN q = ids /\ \A i \in stay : q[i] = c.queue[i]
      /\ \A n \in new : q[c.next + n - 1] = held[n]
  <2>1. \A n \in new : item(c.next + n - 1) = held[n]
    <3> SUFFICES ASSUME NEW n \in new PROVE item(c.next + n - 1) = held[n]
      OBVIOUS
    <3>1. c.next + n - 1 \notin stay /\ (c.next + n - 1) - c.next + 1 = n
      BY <1>3
    <3> DEFINE k == c.next + n - 1
    <3>2. k \notin stay /\ k - c.next + 1 = n
      BY <3>1
    <3> HIDE DEF k
    <3>3. item(k) = held[n]
      BY <3>2
    <3> QED BY <3>3 DEF k
  <2>2. \A i \in ids : q[i] = item(i)
    OBVIOUS
  <2>3. \A n \in new : c.next + n - 1 \in ids
    OBVIOUS
  <2> QED BY <2>1, <2>2, <2>3
<1>7. q \in Lists(Texts)
  <2>1. q \in [ids -> Texts]
    BY <1>4
  <2> QED BY <1>4, <2>1, ListsAreFunctions
<1> HIDE DEF q
<1>8. Is(d, c.status, c.msgs, c.active, c.pin, q, c.next + Len(held))
  <2>1. \A l \in Lists(Texts), n \in Nat \ {0} :
            Is([c EXCEPT !.queue = l, !.next = n], c.status, c.msgs, c.active, c.pin, l, n)
    BY <1>1, TabUpdates
  <2> QED BY <1>2, <1>5, <1>7, <2>1
<1>9. d \in Tabs /\ d.msgs = c.msgs /\ d.queue = q /\ d.next = c.next + Len(held)
  BY <1>8 DEF Is
<1>10. Whole(d)
  <2>1. \A i \in DOMAIN c.msgs : i < c.next + Len(held)
    BY <1>1, <1>2, WholeParts
  <2> QED BY <1>4, <1>6, <1>9, <2>1 DEF Whole
<1>11. Grows(c, d)
  BY <1>1, <1>2, <1>9, <1>10 DEF Grows
<1>12. Merges(c, stay, held, new, d)
  BY <1>6, <1>9 DEF Merges
<1> QED BY <1>8, <1>9, <1>11, <1>12

LEMMA QueuesRange ==
    ASSUME NEW c, NEW d, Queues(c, d)
    PROVE  Range(d.queue) \subseteq Range(c.queue)
  BY DEF Queues, Range

\* What one event of the stream does to the page
LEMMA ReduceIs ==
    ASSUME NEW c, Whole(c), NEW e \in Events, e.k \in {"start", "end"} => e.t \in Texts,
           NEW d, d = Reduce(c, e)
    PROVE  /\ Grows(c, d) /\ Range(d.queue) \subseteq Range(c.queue) \cup Range(e.q)
           /\ \/ Users(d.msgs) = Users(c.msgs)
              \/ /\ e.k \in {"start", "end"} /\ Unmatched(c, e.t)
                 /\ Users(d.msgs) = Users(c.msgs) \cup {c.next} /\ d.msgs[c.next].text = e.t
           /\ e.k \in {"start", "end"} =>
                 \/ Settled(d, e.t)
                 \/ /\ Awaited(c.msgs, e.t) = {} /\ MatchesLast(c.msgs, e.t)
                    /\ c.msgs[Latest(Users(c.msgs))].text # e.t
           /\ e.k \in {"start", "end"} => d.queue = Delivered(c.queue, e.t)
           /\ e.k \notin {"start", "end", "queue"} => d.queue = c.queue
<1>1. e.k \in Kinds /\ e.t \in Words /\ e.q \in Seq(Texts)
  BY DEF Events
<1>2. CASE e.k \in {"start", "end"}
  <2>1. d = EchoUser(c, e.t) /\ e.t \in Texts
    BY <1>2 DEF Reduce
  <2>2. /\ Grows(c, d) /\ Queues(c, d) /\ d.queue = Delivered(c.queue, e.t)
        /\ ~Unmatched(c, e.t) => Users(d.msgs) = Users(c.msgs)
        /\ Unmatched(c, e.t) => /\ Users(d.msgs) = Users(c.msgs) \cup {c.next}
                                /\ d.msgs[c.next].text = e.t
        /\ \/ Settled(d, e.t)
           \/ /\ Awaited(c.msgs, e.t) = {} /\ MatchesLast(c.msgs, e.t)
              /\ c.msgs[Latest(Users(c.msgs))].text # e.t
    BY <2>1, EchoIs
  <2> QED BY <1>2, <2>2, QueuesRange
<1>3. CASE e.k = "reply"
  <2>1. d = Write(c, e.t)
    BY <1>3 DEF Reduce
  <2>2. Grows(c, d) /\ d.queue = c.queue /\ Users(d.msgs) = Users(c.msgs)
    BY <1>1, <2>1, WriteIs
  <2> QED BY <1>3, <2>2
<1>4. CASE e.k = "queue"
  <2> DEFINE nth(list, i) == Cardinality({j \in DOMAIN list : j <= i /\ list[j] = list[i]})
             count(list, t) == Cardinality({j \in DOMAIN list : list[j] = t})
             stay == {i \in DOMAIN c.queue : nth(c.queue, i) <= count(e.q, c.queue[i])}
             new == {n \in DOMAIN e.q : nth(e.q, n) > count(c.queue, e.q[n])}
  <2>1. d = Enqueue(c, stay, e.q, new)
    BY <1>4 DEF Reduce, Reconcile
  <2>2. stay \in SUBSET DOMAIN c.queue /\ new \in SUBSET DOMAIN e.q
    OBVIOUS
  <2> DEFINE q == e.q
  <2>5. Whole(c) /\ q \in Seq(Texts) /\ d = Enqueue(c, stay, q, new)
        /\ stay \in SUBSET DOMAIN c.queue /\ new \in SUBSET DOMAIN q
    BY <1>1, <2>1, <2>2
  <2> HIDE DEF stay, new, q
  <2>3. /\ Is(d, c.status, c.msgs, c.active, c.pin, d.queue, c.next + Len(q))
        /\ Grows(c, d) /\ Merges(c, stay, q, new, d)
    BY <2>5, EnqueueIs
  <2>4. Range(d.queue) \subseteq Range(c.queue) \cup Range(e.q)
    <3>1. \A i \in stay : d.queue[i] \in Range(c.queue)
      BY <2>2, <2>3 DEF Range, Merges
    <3>2. \A n \in new : d.queue[c.next + n - 1] \in Range(e.q)
      BY <2>2, <2>3 DEF Range, Merges, q
    <3>3. \A i \in DOMAIN d.queue : d.queue[i] \in Range(c.queue) \cup Range(e.q)
      BY <2>3, <3>1, <3>2 DEF Merges
    <3> QED BY <3>3 DEF Range
  <2> QED BY <1>4, <2>3, <2>4 DEF Is
<1>5. CASE e.k = "agent_end"
  <2> DEFINE r == Resolve(c)
  <2>1. d = ClearPending(r)
    BY <1>5 DEF Reduce
  <2>2. Grows(c, r) /\ r.queue = c.queue /\ Users(r.msgs) = Users(c.msgs)
    BY ResolveIs
  <2> HIDE DEF r
  <2>3. Whole(r)
    BY <2>2 DEF Grows
  <2>4. /\ Is(d, r.status, d.msgs, r.active, r.pin, r.queue, r.next)
        /\ Grows(r, d) /\ Users(d.msgs) = Users(r.msgs)
    BY <2>1, <2>3, ClearedIs
  <2>5. Grows(c, d)
    BY <2>2, <2>4, GrowsThrough
  <2> QED BY <1>5, <2>2, <2>4, <2>5 DEF Is
<1>6. CASE e.k = "settled"
  <2> DEFINE s == SettleTurn(c)
             a == ClearAwaiting(s)
  <2>1. d = DropPin(a)
    BY <1>6 DEF Reduce
  <2>2. Is(s, "idle", c.msgs, 0, c.pin, c.queue, c.next) /\ Grows(c, s)
    BY SettledIs
  <2>3. a = ClearAwaiting(s)
    OBVIOUS
  <2> HIDE DEF s, a
  <2>4. Whole(s)
    BY <2>2 DEF Grows
  <2>5. /\ Is(a, s.status, a.msgs, s.active, s.pin, s.queue, s.next)
        /\ Grows(s, a) /\ Users(a.msgs) = Users(s.msgs)
    BY <2>3, <2>4, ClearedIs
  <2>6. Whole(a)
    BY <2>5 DEF Grows
  <2>7. Is(d, a.status, a.msgs, a.active, 0, a.queue, a.next) /\ Grows(a, d)
    BY <2>1, <2>6, SettledIs
  <2>8. Grows(c, d)
    <3>1. Grows(c, a)
      BY <2>2, <2>5, GrowsThrough
    <3> QED BY <3>1, <2>7, GrowsThrough
  <2> QED BY <1>6, <2>2, <2>5, <2>7, <2>8 DEF Is
<1> QED BY <1>1, <1>2, <1>3, <1>4, <1>5, <1>6 DEF Kinds

-----------------------------------------------------------------------------
\* ---- What the user sends ----

\* A prompt is shown, with a bubble for the reply.
ShowsPrompt(c, d, t) ==
    /\ d.pin = c.pin /\ d.active = c.next + 1 /\ d.next = c.next + 2
    /\ DOMAIN d.msgs = DOMAIN c.msgs \cup {c.next, c.next + 1}
    /\ d.msgs[c.next] = User(t, FALSE) /\ d.msgs[c.next + 1] = Bubble
    /\ \A i \in DOMAIN c.msgs : d.msgs[i] = c.msgs[i]
    /\ Bubbles(d.msgs) = Bubbles(c.msgs) \cup {c.next + 1}

LEMMA OptimisticIs ==
    ASSUME NEW c, Whole(c), NEW t \in Texts, NEW d, d = Optimistic(c, t)
    PROVE  /\ Grows(c, d) /\ d.queue = c.queue /\ d.next = c.next + 2 /\ d.active = c.next + 1
           /\ Users(d.msgs) = Users(c.msgs) \cup {c.next} /\ d.msgs[c.next].text = t
           /\ DOMAIN d.msgs = DOMAIN c.msgs \cup {c.next, c.next + 1}
           /\ d.msgs[c.next + 1] = Bubble
           /\ ShowsPrompt(c, d, t)
<1> DEFINE no == FALSE
           s == Say(c, t, no)
           m == User(t, no)
           o == OpenBubble(s)
<1>1. s = Say(c, t, no) /\ m = User(t, no) /\ no \in BOOLEAN /\ o = OpenBubble(s)
      /\ m = User(t, FALSE)
  OBVIOUS
<1>2. m.text = t
  BY DEF User
<1>3. d = [o EXCEPT !.status = "starting"]
  BY DEF Optimistic
<1> HIDE DEF no, s, m, o
<1>4. /\ Is(s, c.status, Add(c.msgs, c.next, m), c.active, c.pin, c.queue, c.next + 1)
      /\ Grows(c, s)
      /\ DOMAIN s.msgs = DOMAIN c.msgs \cup {c.next} /\ s.msgs[c.next] = m
      /\ \A i \in DOMAIN c.msgs : s.msgs[i] = c.msgs[i]
      /\ Users(s.msgs) = Users(c.msgs) \cup {c.next} /\ Bubbles(s.msgs) = Bubbles(c.msgs)
  <2>1. s = Say(c, t, no) /\ m = User(t, no) /\ no \in BOOLEAN
    BY <1>1
  <2> QED BY <2>1, SayIs
<1>5. Whole(s) /\ s.next = c.next + 1 /\ s.queue = c.queue
  BY <1>4 DEF Grows, Is
<1>6. /\ Is(o, s.status, Add(s.msgs, s.next, Bubble), s.next, s.pin, s.queue, s.next + 1)
      /\ Grows(s, o)
      /\ DOMAIN o.msgs = DOMAIN s.msgs \cup {s.next} /\ o.msgs[s.next] = Bubble
      /\ \A i \in DOMAIN s.msgs : o.msgs[i] = s.msgs[i]
      /\ Users(o.msgs) = Users(s.msgs) /\ Bubbles(o.msgs) = Bubbles(s.msgs) \cup {s.next}
  BY <1>1, <1>5, OpenBubbleIs
<1>7. Whole(o) /\ o.queue = s.queue /\ o.active = s.next /\ o.next = s.next + 1
  BY <1>6 DEF Grows, Is
<1>8. Is(d, "starting", o.msgs, o.active, o.pin, o.queue, o.next)
  <2>1. /\ o \in Tabs /\ o.status \in Statuses /\ o.msgs \in Lists(Messages) /\ o.active \in Nat
        /\ o.pin \in Nat /\ o.queue \in Lists(Texts) /\ o.next \in Nat \ {0}
    BY <1>7, WholeParts DEF Whole
  <2>2. \A st \in Statuses : Is([o EXCEPT !.status = st], st, o.msgs, o.active, o.pin, o.queue,
                                o.next)
    BY <2>1, TabUpdates
  <2> QED BY <1>3, <2>2 DEF Statuses
<1>9. d \in Tabs /\ d.msgs = o.msgs /\ d.queue = o.queue /\ d.next = o.next /\ d.active = o.active
  BY <1>8 DEF Is
<1>10. Grows(o, d) /\ Users(d.msgs) = Users(o.msgs)
  BY <1>7, <1>9, SameLists
<1>11. Grows(c, d)
  <2>1. Grows(c, o)
    BY <1>4, <1>6, GrowsThrough
  <2> QED BY <2>1, <1>10, GrowsThrough
<1>12. c.next \in Nat /\ c.next + 1 + 1 = c.next + 2
  BY WholeParts
<1>13. ShowsPrompt(c, d, t)
  <2>1. d.pin = c.pin
    BY <1>4, <1>6, <1>8 DEF Is
  <2>2. c.next \in DOMAIN s.msgs /\ c.next # c.next + 1
    BY <1>4, <1>12
  <2>3. /\ DOMAIN d.msgs = DOMAIN c.msgs \cup {c.next, c.next + 1}
        /\ d.active = c.next + 1 /\ d.next = c.next + 2
    BY <1>4, <1>5, <1>6, <1>7, <1>9, <1>12
  <2>4. d.msgs[c.next] = User(t, FALSE) /\ d.msgs[c.next + 1] = Bubble
    BY <1>1, <1>4, <1>5, <1>6, <1>9, <2>2
  <2>5. \A i \in DOMAIN c.msgs : d.msgs[i] = c.msgs[i]
    BY <1>4, <1>6, <1>9
  <2>6. Bubbles(d.msgs) = Bubbles(c.msgs) \cup {c.next + 1}
    BY <1>4, <1>5, <1>6, <1>9
  <2> QED BY <2>1, <2>3, <2>4, <2>5, <2>6 DEF ShowsPrompt
<1> QED BY <1>2, <1>4, <1>5, <1>6, <1>7, <1>9, <1>10, <1>11, <1>12, <1>13

\* A follow-up is queued.
LEMMA QueueOneIs ==
    ASSUME NEW c, Whole(c), NEW t \in Texts, NEW d,
           d = [c EXCEPT !.queue = Add(@, c.next, t), !.next = @ + 1]
    PROVE  /\ Is(d, c.status, c.msgs, c.active, c.pin, Add(c.queue, c.next, t), c.next + 1)
           /\ Grows(c, d)
<1>1. /\ c \in Tabs /\ c.status \in Statuses /\ c.msgs \in Lists(Messages) /\ c.active \in Nat
      /\ c.pin \in Nat /\ c.queue \in Lists(Texts) /\ c.next \in Nat \ {0}
      /\ \A i \in DOMAIN c.msgs : i < c.next /\ i \in Nat
      /\ \A i \in DOMAIN c.queue : i < c.next /\ i \in Nat
  BY WholeParts DEF Whole
<1> DEFINE q == Add(c.queue, c.next, t)
<1>2. q \in Lists(Texts) /\ c.next + 1 \in Nat \ {0}
  BY <1>1, AddToList
<1>3. DOMAIN q = DOMAIN c.queue \cup {c.next}
  BY DEF Add
<1>4. d = [c EXCEPT !.queue = q, !.next = c.next + 1]
  BY <1>1 DEF Tabs
<1> HIDE DEF q
<1>5. Is(d, c.status, c.msgs, c.active, c.pin, q, c.next + 1)
  <2>1. \A l \in Lists(Texts), n \in Nat \ {0} :
            Is([c EXCEPT !.queue = l, !.next = n], c.status, c.msgs, c.active, c.pin, l, n)
    BY <1>1, TabUpdates
  <2> QED BY <1>2, <1>4, <2>1
<1>6. d \in Tabs /\ d.msgs = c.msgs /\ d.queue = q /\ d.next = c.next + 1
  BY <1>5 DEF Is
<1>7. Whole(d)
  BY <1>1, <1>3, <1>6 DEF Whole
<1>8. Grows(c, d)
  BY <1>1, <1>6, <1>7 DEF Grows
<1> QED BY <1>5, <1>8 DEF q

-----------------------------------------------------------------------------
\* ---- The stream ----

\* Each of the two events of an echo is on its way: the second follows the first.
Paired(w) == \A i \in DOMAIN w : w[i].k = "start" =>
    \E j \in DOMAIN w : i < j /\ w[j].k = "end" /\ w[j].t = w[i].t

\* Events that tell of a message have its text.
Sound(w) == /\ w \in Seq(Events) /\ Paired(w)
            /\ \A e \in Range(w) : e.k \in {"start", "end"} => e.t \in Texts

LEMMA RangeParts ==
    ASSUME NEW S, NEW s \in Seq(S)
    PROVE  /\ Range(s) \subseteq S
           /\ \A e : Range(Append(s, e)) = Range(s) \cup {e}
           /\ s # <<>> => /\ Head(s) \in S /\ Tail(s) \in Seq(S)
                          /\ Head(s) \in Range(s)
                          /\ Range(s) = {Head(s)} \cup Range(Tail(s))
<1>1. Range(s) \subseteq S
  BY DEF Range
<1>2. \A e : Range(Append(s, e)) = Range(s) \cup {e}
  <2> SUFFICES ASSUME NEW e PROVE Range(Append(s, e)) = Range(s) \cup {e}
    OBVIOUS
  <2>1. /\ DOMAIN Append(s, e) = DOMAIN s \cup {Len(s) + 1}
        /\ \A i \in DOMAIN s : Append(s, e)[i] = s[i]
        /\ Append(s, e)[Len(s) + 1] = e
    OBVIOUS
  <2> QED BY <2>1 DEF Range
<1>3. ASSUME s # <<>>
      PROVE  /\ Head(s) \in S /\ Tail(s) \in Seq(S) /\ Head(s) \in Range(s)
             /\ Range(s) = {Head(s)} \cup Range(Tail(s))
  <2>1. /\ Head(s) \in S /\ Tail(s) \in Seq(S) /\ Len(s) \in Nat \ {0} /\ Head(s) = s[1]
        /\ DOMAIN s = 1..Len(s) /\ DOMAIN Tail(s) = 1..(Len(s) - 1)
        /\ \A i \in 1..(Len(s) - 1) : Tail(s)[i] = s[i + 1]
    BY <1>3
  <2>2. Head(s) \in Range(s)
    BY <2>1 DEF Range
  <2>3. ASSUME NEW i \in DOMAIN s PROVE s[i] = Head(s) \/ s[i] \in Range(Tail(s))
    <3>1. CASE i = 1
      BY <2>1, <3>1
    <3>2. CASE i # 1
      <4>1. i - 1 \in DOMAIN Tail(s) /\ (i - 1) + 1 = i /\ i - 1 \in 1..(Len(s) - 1)
        BY <2>1, <3>2
      <4>2. Tail(s)[i - 1] = s[i]
        BY <2>1, <4>1
      <4> QED BY <4>1, <4>2 DEF Range
    <3> QED BY <3>1, <3>2
  <2>4. ASSUME NEW i \in DOMAIN Tail(s) PROVE Tail(s)[i] \in Range(s)
    <3>1. i + 1 \in DOMAIN s /\ Tail(s)[i] = s[i + 1]
      BY <2>1
    <3> QED BY <3>1 DEF Range
  <2> QED BY <2>1, <2>2, <2>3, <2>4 DEF Range
<1> QED BY <1>1, <1>2, <1>3

LEMMA ConcatParts ==
    ASSUME NEW S, NEW s \in Seq(S), NEW r \in Seq(S)
    PROVE  /\ s \o r \in Seq(S)
           /\ DOMAIN s = 1..Len(s) /\ DOMAIN r = 1..Len(r) /\ Len(s) \in Nat /\ Len(r) \in Nat
           /\ DOMAIN (s \o r) = 1..(Len(s) + Len(r))
           /\ \A i \in DOMAIN s : (s \o r)[i] = s[i]
           /\ \A i \in DOMAIN r : (s \o r)[Len(s) + i] = r[i]
           /\ Range(s \o r) = Range(s) \cup Range(r)
<1>1. /\ s \o r \in Seq(S)
      /\ DOMAIN s = 1..Len(s) /\ DOMAIN r = 1..Len(r) /\ Len(s) \in Nat /\ Len(r) \in Nat
      /\ DOMAIN (s \o r) = 1..(Len(s) + Len(r))
      /\ \A i \in DOMAIN s : (s \o r)[i] = s[i]
      /\ \A i \in DOMAIN r : (s \o r)[Len(s) + i] = r[i]
  OBVIOUS
<1>2. Range(s \o r) \subseteq Range(s) \cup Range(r)
  <2> SUFFICES ASSUME NEW i \in DOMAIN (s \o r) PROVE (s \o r)[i] \in Range(s) \cup Range(r)
    BY DEF Range
  <2>1. CASE i \in DOMAIN s
    BY <1>1, <2>1 DEF Range
  <2>2. CASE i \notin DOMAIN s
    <3>1. i - Len(s) \in DOMAIN r /\ Len(s) + (i - Len(s)) = i
      BY <1>1, <2>2
    <3>2. (s \o r)[i] = r[i - Len(s)]
      BY <1>1, <3>1
    <3> QED BY <3>1, <3>2 DEF Range
  <2> QED BY <2>1, <2>2
<1>3. Range(s) \subseteq Range(s \o r)
  <2> SUFFICES ASSUME NEW i \in DOMAIN s PROVE s[i] \in Range(s \o r)
    BY DEF Range
  <2>1. i \in DOMAIN (s \o r) /\ (s \o r)[i] = s[i]
    BY <1>1
  <2> QED BY <2>1 DEF Range
<1>4. Range(r) \subseteq Range(s \o r)
  <2> SUFFICES ASSUME NEW i \in DOMAIN r PROVE r[i] \in Range(s \o r)
    BY DEF Range
  <2>1. Len(s) + i \in DOMAIN (s \o r) /\ (s \o r)[Len(s) + i] = r[i]
    BY <1>1
  <2> QED BY <2>1 DEF Range
<1> QED BY <1>1, <1>2, <1>3, <1>4

LEMMA ConcatSound ==
    ASSUME NEW s, NEW r, Sound(s), Sound(r)
    PROVE  Sound(s \o r)
<1>1. s \in Seq(Events) /\ r \in Seq(Events)
  BY DEF Sound
<1>2. /\ s \o r \in Seq(Events)
      /\ DOMAIN s = 1..Len(s) /\ DOMAIN r = 1..Len(r) /\ Len(s) \in Nat /\ Len(r) \in Nat
      /\ DOMAIN (s \o r) = 1..(Len(s) + Len(r))
      /\ \A i \in DOMAIN s : (s \o r)[i] = s[i]
      /\ \A i \in DOMAIN r : (s \o r)[Len(s) + i] = r[i]
      /\ Range(s \o r) = Range(s) \cup Range(r)
  BY <1>1, ConcatParts
<1>3. ASSUME NEW i \in DOMAIN (s \o r), (s \o r)[i].k = "start"
      PROVE  \E j \in DOMAIN (s \o r) :
                 i < j /\ (s \o r)[j].k = "end" /\ (s \o r)[j].t = (s \o r)[i].t
  <2>1. CASE i \in DOMAIN s
    <3>1. PICK j \in DOMAIN s : i < j /\ s[j].k = "end" /\ s[j].t = s[i].t
      BY <1>2, <1>3, <2>1 DEF Sound, Paired
    <3>2. j \in DOMAIN (s \o r)
      BY <1>2
    <3> QED BY <1>2, <2>1, <3>1, <3>2
  <2>2. CASE i \notin DOMAIN s
    <3>1. i - Len(s) \in DOMAIN r /\ Len(s) + (i - Len(s)) = i
      BY <1>2, <2>2
    <3>2. (s \o r)[i] = r[i - Len(s)]
      BY <1>2, <3>1
    <3>3. PICK j \in DOMAIN r : i - Len(s) < j /\ r[j].k = "end" /\ r[j].t = r[i - Len(s)].t
      BY <1>3, <3>1, <3>2 DEF Sound, Paired
    <3>4. Len(s) + j \in DOMAIN (s \o r) /\ i < Len(s) + j /\ (s \o r)[Len(s) + j] = r[j]
      BY <1>2, <3>3
    <3> QED BY <3>2, <3>3, <3>4
  <2> QED BY <2>1, <2>2
<1> QED BY <1>2, <1>3 DEF Sound, Paired

LEMMA TailSound ==
    ASSUME NEW s, Sound(s), s # <<>>
    PROVE  /\ Sound(Tail(s)) /\ Head(s) \in Events /\ Range(s) = {Head(s)} \cup Range(Tail(s))
           /\ Head(s).k \in {"start", "end"} => Head(s).t \in Texts
           /\ Head(s).k = "start" => \E e \in Range(Tail(s)) : e.k = "end" /\ e.t = Head(s).t
<1>1. s \in Seq(Events)
  BY DEF Sound
<1>2. /\ Head(s) \in Events /\ Tail(s) \in Seq(Events) /\ Head(s) \in Range(s)
      /\ Range(s) = {Head(s)} \cup Range(Tail(s))
  BY <1>1, RangeParts
<1>3. /\ Len(s) \in Nat \ {0} /\ Head(s) = s[1]
      /\ DOMAIN s = 1..Len(s) /\ DOMAIN Tail(s) = 1..(Len(s) - 1)
      /\ \A i \in 1..(Len(s) - 1) : Tail(s)[i] = s[i + 1]
  BY <1>1
<1>4. \A j \in DOMAIN s : 1 < j => j - 1 \in DOMAIN Tail(s) /\ Tail(s)[j - 1] = s[j]
  <2> SUFFICES ASSUME NEW j \in DOMAIN s, 1 < j
               PROVE  j - 1 \in DOMAIN Tail(s) /\ Tail(s)[j - 1] = s[j]
    OBVIOUS
  <2>1. j - 1 \in 1..(Len(s) - 1) /\ (j - 1) + 1 = j
    BY <1>3
  <2> QED BY <1>3, <2>1
<1>5. ASSUME NEW i \in DOMAIN Tail(s), Tail(s)[i].k = "start"
      PROVE  \E j \in DOMAIN Tail(s) :
                 i < j /\ Tail(s)[j].k = "end" /\ Tail(s)[j].t = Tail(s)[i].t
  <2>1. i + 1 \in DOMAIN s /\ Tail(s)[i] = s[i + 1]
    BY <1>3
  <2>2. PICK j \in DOMAIN s : i + 1 < j /\ s[j].k = "end" /\ s[j].t = s[i + 1].t
    BY <1>5, <2>1 DEF Sound, Paired
  <2>3. j - 1 \in DOMAIN Tail(s) /\ Tail(s)[j - 1] = s[j] /\ i < j - 1
    BY <1>3, <1>4, <2>2
  <2> QED BY <2>1, <2>2, <2>3
<1>6. ASSUME Head(s).k = "start"
      PROVE  \E e \in Range(Tail(s)) : e.k = "end" /\ e.t = Head(s).t
  <2>1. PICK j \in DOMAIN s : 1 < j /\ s[j].k = "end" /\ s[j].t = s[1].t
    BY <1>3, <1>6 DEF Sound, Paired
  <2>2. j - 1 \in DOMAIN Tail(s) /\ Tail(s)[j - 1] = s[j]
    BY <1>4, <2>1
  <2> QED BY <1>3, <2>1, <2>2 DEF Range
<1> QED BY <1>2, <1>5, <1>6 DEF Sound, Paired

\* What the runtime puts on the stream
LEMMA EventsAre ==
    /\ \A k \in Kinds, t \in Words, q \in Seq(Texts) :
          Event(k, t, q) \in Events /\ Event(k, t, q).k = k /\ Event(k, t, q).t = t
          /\ Event(k, t, q).q = q
    /\ \A q \in Seq(Texts) : Queued(q) \in Events /\ Queued(q).k = "queue" /\ Queued(q).t = None
                             /\ Queued(q).q = q
  BY DEF Event, Queued, Events, Kinds, Words

LEMMA OneIsSound ==
    ASSUME NEW e \in Events, e.k \notin {"start", "end"}
    PROVE  Sound(<<e>>) /\ Range(<<e>>) = {e}
<1>1. /\ <<e>> \in Seq(Events) /\ DOMAIN <<e>> = {1} /\ <<e>>[1] = e
  OBVIOUS
<1> QED BY <1>1 DEF Sound, Paired, Range

LEMMA EchoIsSound ==
    ASSUME NEW t \in Texts
    PROVE  /\ Sound(Echo(t))
           /\ \A e \in Range(Echo(t)) : e.t = t /\ e.q = <<>>
<1> DEFINE b == Event("start", t, <<>>)
           e == Event("end", t, <<>>)
<1>1. /\ b \in Events /\ e \in Events /\ b.k = "start" /\ e.k = "end" /\ b.t = t /\ e.t = t
      /\ b.q = <<>> /\ e.q = <<>>
  <2>1. "start" \in Kinds /\ "end" \in Kinds /\ t \in Words /\ <<>> \in Seq(Texts)
    BY DEF Kinds, Words
  <2> QED BY <2>1 DEF Event, Events
<1> HIDE DEF b, e
<1>2. Echo(t) = <<b, e>>
  BY DEF Echo, b, e
<1>3. /\ <<b, e>> \in Seq(Events) /\ DOMAIN <<b, e>> = {1, 2} /\ <<b, e>>[1] = b
      /\ <<b, e>>[2] = e /\ 1 < 2
  BY <1>1
<1>4. Range(<<b, e>>) = {b, e}
  BY <1>3 DEF Range
<1>5. Paired(<<b, e>>)
  BY <1>1, <1>3 DEF Paired
<1> QED BY <1>1, <1>2, <1>3, <1>4, <1>5 DEF Sound

LEMMA RunEndsIsSound ==
    Sound(RunEnds) /\ \A e \in Range(RunEnds) : e.t = None /\ e.q = <<>>
<1> DEFINE a == Event("agent_end", None, <<>>)
           b == Event("settled", None, <<>>)
<1>1. /\ a \in Events /\ b \in Events /\ a.k = "agent_end" /\ b.k = "settled"
      /\ a.t = None /\ b.t = None /\ a.q = <<>> /\ b.q = <<>>
  <2>1. "agent_end" \in Kinds /\ "settled" \in Kinds /\ None \in Words /\ <<>> \in Seq(Texts)
    BY DEF Kinds, Words
  <2> QED BY <2>1 DEF Event, Events
<1> HIDE DEF a, b
<1>2. RunEnds = <<a, b>>
  BY DEF RunEnds, a, b
<1>3. /\ <<a, b>> \in Seq(Events) /\ DOMAIN <<a, b>> = {1, 2} /\ <<a, b>>[1] = a
      /\ <<a, b>>[2] = b
  BY <1>1
<1>4. Range(<<a, b>>) = {a, b}
  BY <1>3 DEF Range
<1> QED BY <1>1, <1>2, <1>3, <1>4 DEF Sound, Paired

-----------------------------------------------------------------------------
\* ---- The invariant ----

Lapses == {"crossed", "outlived", "overlap", "rollback", "resent", "tail", "late", "pinned",
           "lost", "cleared"}
Pis == [run : BOOLEAN, on : Words, steering : Seq(Texts), followUp : Seq(Texts)]
Prompts == [st : {"none", "sent", "taken", "failed", "active", "idle"}, bubble : Nat,
            text : Words]
Controls == [st : {"none", "sent", "taken", "failed"}, mode : {"steer", "follow_up"},
             id : Nat, text : Words]
Aborts == [st : {"none", "sent", "answered", "resuming"}, held : Lists(Texts)]
History == [used : SUBSET Texts, steers : SUBSET Texts, echoed : SUBSET Texts,
            lapse : SUBSET Lapses]

\* What the runtime has and what it has told
PiInv == pi \in Pis /\ (pi.run => pi.on \in Texts) /\ Sound(wire)

TypeInv ==
    /\ PiInv
    /\ Whole(tab)
    /\ prompts \in [Senders -> Prompts] /\ controls \in [Senders -> Controls]
    /\ promote \in Nat
    /\ abort \in Aborts
    /\ told \in History

\* A request names a message by an id that was issued, and that no other message got.
Refers(c, i, role) == i < c.next /\ (i \in DOMAIN c.msgs => c.msgs[i].role = role)
Names(c, i, t) == i \in DOMAIN c.msgs => c.msgs[i].text = t

RefsInv ==
    /\ Refers(tab, promote, "user")
    /\ \A s \in Senders : prompts[s].st # "none" =>
          prompts[s].text \in Texts /\ Refers(tab, prompts[s].bubble, "assistant")
    /\ \A s \in Senders : controls[s].st # "none" =>
          /\ controls[s].text \in Texts /\ Refers(tab, controls[s].id, "user")
          /\ Names(tab, controls[s].id, controls[s].text)

\* Whatever is shown, held or under way was said by the user.
PiHolds == {pi.on} \cup Range(pi.steering) \cup Range(pi.followUp)
UsedInv ==
    /\ \A i \in Users(tab.msgs) : tab.msgs[i].text \in told.used
    /\ Range(tab.queue) \subseteq told.used /\ Range(abort.held) \subseteq told.used
    /\ PiHolds \subseteq told.used \cup {None} /\ Range(pi.followUp) \subseteq told.used
    /\ \A e \in Range(wire) : e.t \in told.used \cup {None} /\ Range(e.q) \subseteq told.used
    /\ \A s \in Senders : /\ controls[s].st # "none" => controls[s].text \in told.used
                          /\ prompts[s].st # "none" => prompts[s].text \in told.used

-----------------------------------------------------------------------------
\* ---- The runtime ----

\* A step of the runtime that is told new texts, some of them as follow-ups
PiMoves(new, queued) ==
    /\ pi' \in Pis /\ (pi'.run => pi'.on \in Texts)
    /\ PiHolds' \subseteq PiHolds \cup new
    /\ Range(pi'.followUp) \subseteq Range(pi.followUp) \cup queued
    /\ \E s : /\ Sound(s) /\ wire' = wire \o s
              /\ \A e \in Range(s) : /\ e.t \in PiHolds \cup new \cup {None}
                                     /\ Range(e.q) \subseteq Range(pi.followUp) \cup queued

LEMMA PiRests ==
    ASSUME PiInv, UNCHANGED <<pi, wire>>
    PROVE  PiMoves({}, {})
<1>1. Sound(<<>>) /\ wire \o <<>> = wire /\ Range(<<>>) = {}
  BY DEF Sound, Paired, Range, PiInv
<1> QED BY <1>1 DEF PiMoves, PiInv, PiHolds

LEMMA PiStarts ==
    ASSUME PiInv, NEW t \in Texts, Starts(t)
    PROVE  PiMoves({t}, {})
<1>1. pi' = [pi EXCEPT !.run = TRUE, !.on = t] /\ wire' = wire \o Echo(t)
  BY DEF Starts
<1>2. /\ pi' \in Pis /\ pi'.on = t /\ pi'.steering = pi.steering /\ pi'.followUp = pi.followUp
  BY <1>1 DEF PiInv, Pis, Words
<1>3. PiHolds' \subseteq PiHolds \cup {t}
  BY <1>2 DEF PiHolds
<1>4. Sound(Echo(t)) /\ \A e \in Range(Echo(t)) : e.t = t /\ e.q = <<>>
  BY EchoIsSound
<1>5. Range(<<>>) = {}
  BY DEF Range
<1> QED BY <1>1, <1>2, <1>3, <1>4, <1>5 DEF PiMoves

\* An event that is not an echo
LEMMA OneEvent ==
    ASSUME PiInv, NEW e \in Events, e.k \notin {"start", "end"}
    PROVE  Append(wire, e) = wire \o <<e>> /\ Sound(<<e>>) /\ Range(<<e>>) = {e}
<1>1. wire \in Seq(Events)
  BY DEF PiInv, Sound
<1> QED BY <1>1, OneIsSound, AppendIsConcat

LEMMA PiHoldsMore ==
    ASSUME PiInv, NEW t \in Texts, NEW mode \in {"steer", "follow_up"}, Holds(mode, t)
    PROVE  PiMoves({t}, IF mode = "follow_up" THEN {t} ELSE {})
<1>0. /\ pi.steering \in Seq(Texts) /\ pi.followUp \in Seq(Texts) /\ pi.on \in Words
      /\ pi.run /\ pi.on \in Texts /\ pi.run \in BOOLEAN
  BY DEF PiInv, Pis, Holds
<1>1. CASE mode = "steer"
  <2>1. pi' = [pi EXCEPT !.steering = Append(pi.steering, t)] /\ wire' = wire
    BY <1>1 DEF Holds, PiInv, Pis
  <2>2. Append(pi.steering, t) \in Seq(Texts)
        /\ Range(Append(pi.steering, t)) = Range(pi.steering) \cup {t}
    BY <1>0, RangeParts
  <2>3. /\ pi' \in Pis /\ pi'.on = pi.on /\ pi'.steering = Append(pi.steering, t)
        /\ pi'.followUp = pi.followUp
    BY <1>0, <2>1, <2>2 DEF PiInv, Pis
  <2>4. PiHolds' \subseteq PiHolds \cup {t}
    BY <2>2, <2>3 DEF PiHolds
  <2>5. Sound(<<>>) /\ wire \o <<>> = wire /\ Range(<<>>) = {}
    BY DEF Sound, Paired, Range, PiInv
  <2>6. PiMoves({t}, {})
    BY <1>0, <2>1, <2>3, <2>4, <2>5 DEF PiMoves
  <2> QED BY <1>1, <2>6
<1>2. CASE mode = "follow_up"
  <2> DEFINE more == Append(pi.followUp, t)
             e == Queued(more)
  <2>1. more \in Seq(Texts) /\ Range(more) = Range(pi.followUp) \cup {t}
    BY <1>0, RangeParts
  <2>2. e \in Events /\ e.k = "queue" /\ e.t = None /\ e.q = more
    <3> HIDE DEF more
    <3> QED BY <2>1 DEF Queued, Event, Events, Kinds, Words
  <2>3. pi' = [pi EXCEPT !.followUp = more] /\ wire' = Append(wire, e)
    BY <1>2 DEF Holds, PiInv, Pis
  <2> HIDE DEF e, more
  <2>4. /\ pi' \in Pis /\ pi'.on = pi.on /\ pi'.steering = pi.steering
        /\ pi'.followUp = more
    BY <1>0, <2>1, <2>3 DEF PiInv, Pis
  <2>5. PiHolds' \subseteq PiHolds \cup {t}
    BY <2>1, <2>4 DEF PiHolds
  <2>6. wire' = wire \o <<e>> /\ Sound(<<e>>) /\ Range(<<e>>) = {e}
    BY <2>2, <2>3, OneEvent
  <2>7. PiMoves({t}, {t})
    BY <1>0, <2>1, <2>2, <2>4, <2>5, <2>6 DEF PiMoves
  <2> QED BY <1>2, <2>7
<1> QED BY <1>1, <1>2

LEMMA PiRuns ==
    ASSUME PiInv, Runtime
    PROVE  PiMoves({}, {})
<1>0. /\ pi.steering \in Seq(Texts) /\ pi.followUp \in Seq(Texts) /\ pi.on \in Words
      /\ pi.run \in BOOLEAN /\ wire \in Seq(Events)
  BY DEF PiInv, Pis, Sound
<1>1. CASE PiDelivers
  <2>1. CASE /\ pi.steering # <<>>
             /\ pi' = [pi EXCEPT !.on = Head(pi.steering), !.steering = Tail(@)]
             /\ wire' = wire \o Echo(Head(pi.steering))
    <3> DEFINE t == Head(pi.steering)
               rest == Tail(pi.steering)
    <3>1. t \in Texts /\ rest \in Seq(Texts) /\ Range(pi.steering) = {t} \cup Range(rest)
      BY <1>0, <2>1, RangeParts
    <3>2. pi' = [pi EXCEPT !.on = t, !.steering = rest] /\ wire' = wire \o Echo(t)
      BY <2>1 DEF PiInv, Pis
    <3> HIDE DEF t, rest
    <3>3. /\ pi' \in Pis /\ pi'.on = t /\ pi'.steering = rest /\ pi'.followUp = pi.followUp
      BY <1>0, <3>1, <3>2 DEF PiInv, Pis, Words
    <3>4. PiHolds' \subseteq PiHolds /\ t \in PiHolds
      BY <3>1, <3>3 DEF PiHolds
    <3>5. Sound(Echo(t)) /\ \A e \in Range(Echo(t)) : e.t = t /\ e.q = <<>>
      BY <3>1, EchoIsSound
    <3>6. Range(<<>>) = {}
      BY DEF Range
    <3> QED BY <3>1, <3>2, <3>3, <3>4, <3>5, <3>6 DEF PiMoves
  <2>2. CASE /\ pi.followUp # <<>>
             /\ pi' = [pi EXCEPT !.on = Head(pi.followUp), !.followUp = Tail(@)]
             /\ wire' = Append(wire, Queued(Tail(pi.followUp))) \o Echo(Head(pi.followUp))
    <3> DEFINE t == Head(pi.followUp)
               rest == Tail(pi.followUp)
               e == Queued(rest)
    <3>1. t \in Texts /\ rest \in Seq(Texts) /\ Range(pi.followUp) = {t} \cup Range(rest)
      BY <1>0, <2>2, RangeParts
    <3>2. pi' = [pi EXCEPT !.on = t, !.followUp = rest]
          /\ wire' = Append(wire, e) \o Echo(t)
      BY <2>2 DEF PiInv, Pis
    <3>3. e \in Events /\ e.k = "queue" /\ e.t = None /\ e.q = rest
      <4> HIDE DEF rest
      <4> QED BY <3>1 DEF Queued, Event, Events, Kinds, Words
    <3> HIDE DEF t, rest, e
    <3>4. /\ pi' \in Pis /\ pi'.on = t /\ pi'.steering = pi.steering /\ pi'.followUp = rest
      BY <1>0, <3>1, <3>2 DEF PiInv, Pis, Words
    <3>5. PiHolds' \subseteq PiHolds /\ t \in PiHolds
      BY <3>1, <3>4 DEF PiHolds
    <3>6. Sound(Echo(t)) /\ \A x \in Range(Echo(t)) : x.t = t /\ x.q = <<>>
      BY <3>1, EchoIsSound
    <3>7. Append(wire, e) = wire \o <<e>> /\ Sound(<<e>>) /\ Range(<<e>>) = {e}
      BY <3>3, OneEvent
    <3> DEFINE s == <<e>> \o Echo(t)
    <3>8. <<e>> \in Seq(Events) /\ Echo(t) \in Seq(Events)
      BY <3>6, <3>7 DEF Sound
    <3>9. Sound(s) /\ Range(s) = {e} \cup Range(Echo(t))
      <4>1. Sound(s)
        BY <3>6, <3>7, ConcatSound
      <4>2. Range(s) = Range(<<e>>) \cup Range(Echo(t))
        BY <3>8, ConcatParts
      <4> QED BY <3>7, <4>1, <4>2
    <3>10. wire' = wire \o s
      <4>1. (wire \o <<e>>) \o Echo(t) = wire \o (<<e>> \o Echo(t))
        BY <1>0, <3>8, ConcatAssociative
      <4> QED BY <3>2, <3>7, <4>1
    <3>11. Range(<<>>) = {}
      BY DEF Range
    <3> HIDE DEF s
    <3>12. \A x \in Range(s) : /\ x.t \in PiHolds \cup {None}
                               /\ Range(x.q) \subseteq Range(pi.followUp)
      BY <3>1, <3>3, <3>5, <3>6, <3>9, <3>11
    <3> QED BY <3>1, <3>4, <3>5, <3>9, <3>10, <3>12 DEF PiMoves
  <2> QED BY <1>1, <2>1, <2>2 DEF PiDelivers, Works
<1>2. CASE PiReplies \/ PiRetries
  <2>1. pi' = pi
    BY <1>2 DEF PiReplies, PiRetries, Works
  <2>2. PICK e \in Events : /\ wire' = Append(wire, e) /\ e.k \notin {"start", "end"}
                            /\ e.t \in {pi.on, None} /\ e.q = <<>>
    <3>1. \A t \in Words : /\ Event("reply", t, <<>>) \in Events
                           /\ Event("agent_end", t, <<>>) \in Events
      BY DEF Event, Events, Kinds
    <3>2. \A t : /\ Event("reply", t, <<>>).k = "reply"
                 /\ Event("agent_end", t, <<>>).k = "agent_end"
                 /\ Event("reply", t, <<>>).t = t /\ Event("agent_end", t, <<>>).t = t
                 /\ Event("reply", t, <<>>).q = <<>> /\ Event("agent_end", t, <<>>).q = <<>>
      BY DEF Event
    <3>3. None \in Words
      BY DEF Words
    <3>4. CASE wire' = Append(wire, Event("reply", pi.on, <<>>))
      BY <1>0, <3>1, <3>2, <3>4
    <3>5. CASE wire' = Append(wire, Event("agent_end", None, <<>>))
      BY <3>1, <3>2, <3>3, <3>5
    <3> QED BY <1>2, <3>4, <3>5 DEF PiReplies, PiRetries
  <2>3. wire' = wire \o <<e>> /\ Sound(<<e>>) /\ Range(<<e>>) = {e}
    BY <2>2, OneEvent
  <2>4. PiHolds' = PiHolds /\ pi.on \in PiHolds /\ Range(<<>>) = {}
    BY <2>1 DEF PiHolds, Range
  <2> QED BY <2>1, <2>2, <2>3, <2>4 DEF PiMoves, PiInv
<1>3. CASE PiSettles
  <2>1. pi' = [pi EXCEPT !.run = FALSE] /\ wire' = wire \o RunEnds
    BY <1>3 DEF PiSettles, Works
  <2>2. /\ pi' \in Pis /\ pi'.on = pi.on /\ pi'.steering = pi.steering
        /\ pi'.followUp = pi.followUp /\ ~pi'.run
    BY <1>0, <2>1 DEF PiInv, Pis
  <2>3. PiHolds' = PiHolds /\ Range(<<>>) = {}
    BY <2>2 DEF PiHolds, Range
  <2> QED BY <2>1, <2>2, <2>3, RunEndsIsSound DEF PiMoves
<1> QED BY <1>1, <1>2, <1>3 DEF Runtime

LEMMA PiStops ==
    ASSUME PiInv, TakeAbort
    PROVE  PiMoves({}, {})
<1>0. /\ pi.steering \in Seq(Texts) /\ pi.followUp \in Seq(Texts) /\ pi.on \in Words
      /\ wire \in Seq(Events) /\ Range(<<>>) = {} /\ <<>> \in Seq(Texts)
  BY DEF PiInv, Pis, Sound, Range
<1>1. CASE UNCHANGED <<pi, wire>>
  BY <1>1, PiRests
<1>2. CASE pi' = [pi EXCEPT !.run = FALSE] /\ wire' = wire \o RunEnds
  <2>1. /\ pi' \in Pis /\ pi'.on = pi.on /\ pi'.steering = pi.steering
        /\ pi'.followUp = pi.followUp /\ ~pi'.run
    BY <1>0, <1>2 DEF PiInv, Pis
  <2>2. PiHolds' = PiHolds
    BY <2>1 DEF PiHolds
  <2> QED BY <1>0, <1>2, <2>1, <2>2, RunEndsIsSound DEF PiMoves
<1>3. CASE /\ pi' = [pi EXCEPT !.run = FALSE, !.steering = <<>>, !.followUp = <<>>]
           /\ wire' = Append(wire, Queued(<<>>)) \o RunEnds
  <2>1. /\ pi' \in Pis /\ pi'.on = pi.on /\ pi'.steering = <<>> /\ pi'.followUp = <<>> /\ ~pi'.run
    BY <1>0, <1>3 DEF PiInv, Pis
  <2>2. PiHolds' \subseteq PiHolds
    BY <1>0, <2>1 DEF PiHolds
  <2> DEFINE e == Queued(<<>>)
  <2>3. e \in Events /\ e.k = "queue" /\ e.t = None /\ e.q = <<>>
    BY <1>0 DEF Queued, Event, Events, Kinds, Words
  <2> HIDE DEF e
  <2>4. Append(wire, e) = wire \o <<e>> /\ Sound(<<e>>) /\ Range(<<e>>) = {e}
    BY <2>3, OneEvent
  <2> DEFINE s == <<e>> \o RunEnds
  <2>5. <<e>> \in Seq(Events) /\ RunEnds \in Seq(Events)
    BY <2>4, RunEndsIsSound DEF Sound
  <2>6. Sound(s) /\ Range(s) = {e} \cup Range(RunEnds)
    <3>1. Sound(s)
      BY <2>4, RunEndsIsSound, ConcatSound
    <3>2. Range(s) = Range(<<e>>) \cup Range(RunEnds)
      BY <2>5, ConcatParts
    <3> QED BY <2>4, <3>1, <3>2
  <2>7. wire' = wire \o s
    <3>1. (wire \o <<e>>) \o RunEnds = wire \o (<<e>> \o RunEnds)
      BY <1>0, <2>5, ConcatAssociative
    <3> QED BY <1>3, <2>4, <3>1 DEF e
  <2> HIDE DEF s
  <2>8. \A x \in Range(s) : x.t = None /\ x.q = <<>>
    BY <2>3, <2>6, RunEndsIsSound
  <2> QED BY <1>0, <2>1, <2>2, <2>6, <2>7, <2>8 DEF PiMoves
<1> QED BY <1>1, <1>2, <1>3 DEF TakeAbort

-----------------------------------------------------------------------------
\* ---- Types and references ----

LEMMA PiMovesWhole ==
    ASSUME PiInv, NEW new, NEW queued, PiMoves(new, queued)
    PROVE  /\ PiInv'
           /\ Range(wire) \subseteq Range(wire')
           /\ \A e \in Range(wire') \ Range(wire) :
                 /\ e.t \in PiHolds \cup new \cup {None}
                 /\ Range(e.q) \subseteq Range(pi.followUp) \cup queued
<1>1. PICK s : /\ Sound(s) /\ wire' = wire \o s
               /\ \A e \in Range(s) : /\ e.t \in PiHolds \cup new \cup {None}
                                      /\ Range(e.q) \subseteq Range(pi.followUp) \cup queued
  BY DEF PiMoves
<1>2. Sound(wire) /\ wire \in Seq(Events) /\ s \in Seq(Events)
  BY <1>1 DEF PiInv, Sound
<1>3. Sound(wire')
  BY <1>1, <1>2, ConcatSound
<1>4. Range(wire') = Range(wire) \cup Range(s)
  BY <1>1, <1>2, ConcatParts
<1>5. PiInv'
  BY <1>3 DEF PiMoves, PiInv
<1> QED BY <1>1, <1>4, <1>5

\* What is known of a message by its id stays known: ids are not issued twice.
Keeps(c, d) ==
    /\ Whole(d) /\ c.next <= d.next
    /\ \A i \in DOMAIN d.msgs : IF i \in DOMAIN c.msgs
          THEN d.msgs[i].role = c.msgs[i].role /\ d.msgs[i].text = c.msgs[i].text
          ELSE c.next <= i

LEMMA GrowsKeeps ==
    ASSUME NEW c, Whole(c), NEW d, Grows(c, d)
    PROVE  Keeps(c, d)
  BY DEF Grows, Keeps

LEMMA LessKeeps ==
    ASSUME NEW c, Whole(c), NEW d \in Tabs, d.next = c.next,
           DOMAIN d.msgs \subseteq DOMAIN c.msgs,
           \A i \in DOMAIN d.msgs : d.msgs[i] = c.msgs[i],
           DOMAIN d.queue \subseteq DOMAIN c.queue
    PROVE  Keeps(c, d)
  BY LessOfLists, WholeParts DEF Keeps

LEMMA KeptRefs ==
    ASSUME NEW c, Whole(c), NEW d, Keeps(c, d), NEW i \in Nat
    PROVE  /\ \A role : Refers(c, i, role) => Refers(d, i, role)
           /\ \A role, t : Refers(c, i, role) /\ Names(c, i, t) => Names(d, i, t)
<1>1. c.next \in Nat /\ d.next \in Nat
  BY WholeParts DEF Keeps
<1> QED BY <1>1 DEF Keeps, Refers, Names

\* What the requests have to say of the page
PromptRefs(c, p) == p.st # "none" => p.text \in Texts /\ Refers(c, p.bubble, "assistant")
ControlRefs(c, p) == p.st # "none" => /\ p.text \in Texts /\ Refers(c, p.id, "user")
                                      /\ Names(c, p.id, p.text)

LEMMA RefsAre ==
    RefsInv <=> /\ Refers(tab, promote, "user")
                /\ \A s \in Senders : /\ PromptRefs(tab, prompts[s])
                                      /\ ControlRefs(tab, controls[s])
  BY DEF RefsInv, PromptRefs, ControlRefs

LEMMA RefsStay ==
    ASSUME TypeInv, RefsInv, Keeps(tab, tab')
    PROVE  /\ Refers(tab', promote, "user")
           /\ \A s \in Senders : /\ PromptRefs(tab', prompts[s])
                                 /\ ControlRefs(tab', controls[s])
<1>1. Whole(tab) /\ promote \in Nat
      /\ \A s \in Senders : prompts[s].bubble \in Nat /\ controls[s].id \in Nat
  BY DEF TypeInv, Prompts, Controls
<1>2. Refers(tab', promote, "user")
  BY <1>1, KeptRefs DEF RefsInv
<1>3. ASSUME NEW s \in Senders PROVE PromptRefs(tab', prompts[s])
  <2>1. Refers(tab, prompts[s].bubble, "assistant") => Refers(tab', prompts[s].bubble, "assistant")
    BY <1>1, KeptRefs
  <2> QED BY <2>1, RefsAre DEF PromptRefs
<1>4. ASSUME NEW s \in Senders PROVE ControlRefs(tab', controls[s])
  <2>1. Refers(tab, controls[s].id, "user") => Refers(tab', controls[s].id, "user")
    BY <1>1, KeptRefs
  <2>2. Refers(tab, controls[s].id, "user") /\ Names(tab, controls[s].id, controls[s].text)
          => Names(tab', controls[s].id, controls[s].text)
    BY <1>1, KeptRefs
  <2> QED BY <2>1, <2>2, RefsAre DEF ControlRefs
<1> QED BY <1>2, <1>3, <1>4

\* A request that gets another status, and one that is over
LEMMA PromptedIs ==
    ASSUME prompts \in [Senders -> Prompts], NEW s \in Senders
    PROVE  /\ \A st \in {"none", "sent", "taken", "failed", "active", "idle"} :
                 Prompted(s, st) =>
                    /\ prompts' \in [Senders -> Prompts] /\ prompts'[s].st = st
                    /\ \A r \in Senders : /\ prompts'[r].text = prompts[r].text
                                          /\ prompts'[r].bubble = prompts[r].bubble
                                          /\ r # s => prompts'[r] = prompts[r]
           /\ \A p \in Prompts : prompts' = [prompts EXCEPT ![s] = p] =>
                    /\ prompts' \in [Senders -> Prompts] /\ prompts'[s] = p
                    /\ \A r \in Senders \ {s} : prompts'[r] = prompts[r]
  BY DEF Prompted, Prompts

LEMMA ControlledIs ==
    ASSUME controls \in [Senders -> Controls], NEW s \in Senders
    PROVE  /\ \A st \in {"none", "sent", "taken", "failed"} :
                 Controlled(s, st) =>
                    /\ controls' \in [Senders -> Controls] /\ controls'[s].st = st
                    /\ \A r \in Senders : /\ controls'[r].text = controls[r].text
                                          /\ controls'[r].id = controls[r].id
                                          /\ controls'[r].mode = controls[r].mode
                                          /\ r # s => controls'[r] = controls[r]
           /\ \A p \in Controls : controls' = [controls EXCEPT ![s] = p] =>
                    /\ controls' \in [Senders -> Controls] /\ controls'[s] = p
                    /\ \A r \in Senders \ {s} : controls'[r] = controls[r]
  BY DEF Controlled, Controls

LEMMA NoRequests ==
    /\ NoPrompt \in Prompts /\ NoPrompt.st = "none"
    /\ NoControl \in Controls /\ NoControl.st = "none"
    /\ NoAbort \in Aborts /\ NoAbort.held = Nothing
  BY NothingIsList DEF NoPrompt, Prompts, Words, NoControl, Controls, NoAbort, Aborts

\* ---- What each step does to the page ----

LEMMA SteadyTab ==
    ASSUME TypeInv,
           Poll \/ (\E s \in Senders : AcceptPrompt(s) \/ AcceptControl(s)) \/ Abort
    PROVE  /\ tab' \in Tabs /\ tab'.msgs = tab.msgs /\ tab'.queue = tab.queue
           /\ tab'.next = tab.next /\ Grows(tab, tab')
<1>1. /\ tab \in Tabs /\ tab.status \in Statuses /\ tab.msgs \in Lists(Messages)
      /\ tab.active \in Nat /\ tab.pin \in Nat /\ tab.queue \in Lists(Texts)
      /\ tab.next \in Nat \ {0} /\ Whole(tab)
  BY WholeParts DEF TypeInv, Whole
<1>2. "running" \in Statuses /\ "stopping" \in Statuses
  BY DEF Statuses
<1>3. tab' \in Tabs /\ tab'.msgs = tab.msgs /\ tab'.queue = tab.queue /\ tab'.next = tab.next
  <2>1. CASE Poll
    <3>1. CASE tab' = [tab EXCEPT !.status = "running"]
      BY <1>1, <1>2, <3>1 DEF Tabs
    <3>2. CASE tab' = DropPin(SettleTurn(tab))
      <4> DEFINE s == SettleTurn(tab)
      <4>1. Is(s, "idle", tab.msgs, 0, tab.pin, tab.queue, tab.next) /\ Grows(tab, s)
        BY <1>1, SettledIs
      <4>2. Whole(s) /\ tab' = DropPin(s)
        BY <3>2, <4>1 DEF Grows
      <4> HIDE DEF s
      <4>3. Is(tab', s.status, s.msgs, s.active, 0, s.queue, s.next)
        BY <4>2, SettledIs
      <4> QED BY <4>1, <4>3 DEF Is
    <3> QED BY <2>1, <3>1, <3>2 DEF Poll
  <2>2. ASSUME NEW s \in Senders, AcceptPrompt(s)
        PROVE  /\ tab' \in Tabs /\ tab'.msgs = tab.msgs /\ tab'.queue = tab.queue
               /\ tab'.next = tab.next
    <3> DEFINE b == prompts[s].bubble
               a == IF tab.active = 0 THEN b ELSE tab.active
    <3>1. b \in Nat /\ a \in Nat
      BY <1>1 DEF TypeInv, Prompts
    <3>2. tab' = [tab EXCEPT !.status = "running", !.active = a, !.pin = b]
      BY <1>1, <2>2 DEF AcceptPrompt, Tabs
    <3> HIDE DEF a, b
    <3> QED BY <1>1, <1>2, <3>1, <3>2 DEF Tabs
  <2>3. ASSUME NEW s \in Senders, AcceptControl(s)
        PROVE  /\ tab' \in Tabs /\ tab'.msgs = tab.msgs /\ tab'.queue = tab.queue
               /\ tab'.next = tab.next
    <3> DEFINE r == [tab EXCEPT !.status = "running"]
    <3>1. Is(r, "running", tab.msgs, tab.active, tab.pin, tab.queue, tab.next)
      <4>1. \A st \in Statuses : Is([tab EXCEPT !.status = st], st, tab.msgs, tab.active,
                                    tab.pin, tab.queue, tab.next)
        BY <1>1, TabUpdates
      <4> QED BY <1>2, <4>1
    <3>2. tab' = DropPin(r)
      BY <2>3 DEF AcceptControl
    <3> HIDE DEF r
    <3>3. Whole(r)
      BY <1>1, <3>1, SameLists DEF Is
    <3>4. Is(tab', r.status, r.msgs, r.active, 0, r.queue, r.next)
      BY <3>2, <3>3, SettledIs
    <3> QED BY <3>1, <3>4 DEF Is
  <2>4. CASE Abort
    <3>1. tab' = [tab EXCEPT !.status = "stopping"]
      BY <2>4 DEF Abort
    <3> QED BY <1>1, <1>2, <3>1 DEF Tabs
  <2> QED BY <2>1, <2>2, <2>3, <2>4
<1> QED BY <1>1, <1>3, SameLists

\* A message, or a queued text, is taken back.
LEMMA TakenTab ==
    ASSUME Whole(tab), NEW i, NEW j,
           \/ tab' = [tab EXCEPT !.msgs = Without(@, i)]
           \/ tab' = [tab EXCEPT !.msgs = Without(@, i), !.queue = Without(@, j)]
           \/ tab' = [SettleTurn(tab) EXCEPT !.msgs = Without(@, i)]
    PROVE  /\ Keeps(tab, tab') /\ tab'.next = tab.next
           /\ DOMAIN tab'.msgs = DOMAIN tab.msgs \ {i}
           /\ \A k \in DOMAIN tab'.msgs : tab'.msgs[k] = tab.msgs[k]
           /\ Queues(tab, tab')
<1>1. /\ tab \in Tabs /\ tab.status \in Statuses /\ tab.msgs \in Lists(Messages)
      /\ tab.active \in Nat /\ tab.pin \in Nat /\ tab.queue \in Lists(Texts)
      /\ tab.next \in Nat \ {0}
  BY WholeParts DEF Whole
<1> DEFINE m == Without(tab.msgs, i)
           q == Without(tab.queue, j)
<1>2. m \in Lists(Messages) /\ q \in Lists(Texts)
  BY <1>1, TakeFromList
<1>3. /\ DOMAIN m = DOMAIN tab.msgs \ {i} /\ \A k \in DOMAIN m : m[k] = tab.msgs[k]
      /\ DOMAIN q \subseteq DOMAIN tab.queue /\ \A k \in DOMAIN q : q[k] = tab.queue[k]
  BY DEF Without
<1>4. \/ tab' = [tab EXCEPT !.msgs = m] \/ tab' = [tab EXCEPT !.msgs = m, !.queue = q]
      \/ tab' = [tab EXCEPT !.status = "idle", !.active = 0, !.msgs = m]
  BY <1>1 DEF Tabs, SettleTurn
<1> HIDE DEF m, q
<1>5. /\ tab' \in Tabs /\ tab'.next = tab.next /\ tab'.msgs = m
      /\ tab'.queue = tab.queue \/ tab'.queue = q
  <2>1. CASE tab' = [tab EXCEPT !.msgs = m]
    BY <1>1, <1>2, <2>1 DEF Tabs
  <2>2. CASE tab' = [tab EXCEPT !.msgs = m, !.queue = q]
    BY <1>1, <1>2, <2>2 DEF Tabs
  <2>3. CASE tab' = [tab EXCEPT !.status = "idle", !.active = 0, !.msgs = m]
    <3>1. "idle" \in Statuses /\ 0 \in Nat
      BY DEF Statuses
    <3> QED BY <1>1, <1>2, <2>3, <3>1 DEF Tabs
  <2> QED BY <1>4, <2>1, <2>2, <2>3
<1>6. Keeps(tab, tab')
  BY <1>3, <1>5, LessKeeps
<1> QED BY <1>3, <1>5, <1>6 DEF Queues

LEMMA LapseIs ==
    ASSUME told \in History, NEW why \in SUBSET Lapses
    PROVE  /\ Lapse(why) \in History /\ Lapse(why).used = told.used
           /\ Lapse(why).echoed = told.echoed /\ Lapse(why).lapse = told.lapse \cup why
  BY DEF Lapse, History

\* A prompt that is shown and sent
LEMMA SubmitIs ==
    ASSUME NEW c, Whole(c), NEW t \in Texts, NEW s \in Senders, Submit(s, c, t),
           prompts \in [Senders -> Prompts]
    PROVE  /\ Grows(c, tab') /\ tab'.queue = c.queue
           /\ Users(tab'.msgs) = Users(c.msgs) \cup {c.next} /\ tab'.msgs[c.next].text = t
           /\ prompts' \in [Senders -> Prompts] /\ prompts'[s].st = "sent"
           /\ prompts'[s].text = t
           /\ \A r \in Senders \ {s} : prompts'[r] = prompts[r]
           /\ PromptRefs(tab', prompts'[s])
           /\ ShowsPrompt(c, tab', t) /\ prompts'[s].bubble = c.next + 1
<1> DEFINE o == Optimistic(c, t)
           p == [st |-> "sent", bubble |-> o.active, text |-> t]
<1>1. tab' = o /\ prompts' = [prompts EXCEPT ![s] = p]
  BY DEF Submit
<1>2. /\ Grows(c, o) /\ o.queue = c.queue /\ o.next = c.next + 2 /\ o.active = c.next + 1
      /\ Users(o.msgs) = Users(c.msgs) \cup {c.next} /\ o.msgs[c.next].text = t
      /\ DOMAIN o.msgs = DOMAIN c.msgs \cup {c.next, c.next + 1}
      /\ o.msgs[c.next + 1] = Bubble
      /\ ShowsPrompt(c, o, t)
  BY OptimisticIs
<1> HIDE DEF o
<1>3. c.next \in Nat
  BY WholeParts
<1>4. p \in Prompts /\ p.st = "sent" /\ p.text = t /\ p.bubble = c.next + 1
  BY <1>2, <1>3 DEF Prompts, Words
<1> HIDE DEF p
<1>5. prompts' \in [Senders -> Prompts] /\ prompts'[s] = p
      /\ \A r \in Senders \ {s} : prompts'[r] = prompts[r]
  BY <1>1, <1>4
<1>6. Refers(o, c.next + 1, "assistant")
  BY <1>2, <1>3 DEF Refers, Bubble
<1> QED BY <1>1, <1>2, <1>4, <1>5, <1>6 DEF PromptRefs

\* A steer that is shown, or a follow-up that is queued, and sent
LEMMA ControlIs ==
    ASSUME Whole(tab), NEW t \in Texts, NEW mode \in {"steer", "follow_up"}, NEW s \in Senders,
           Control(s, mode, t), controls \in [Senders -> Controls]
    PROVE  /\ Grows(tab, tab')
           /\ mode = "steer" => /\ tab'.queue = tab.queue
                                /\ Users(tab'.msgs) = Users(tab.msgs) \cup {tab.next}
                                /\ tab'.msgs[tab.next].text = t
           /\ mode = "follow_up" => /\ Users(tab'.msgs) = Users(tab.msgs)
                                    /\ Range(tab'.queue) \subseteq Range(tab.queue) \cup {t}
           /\ controls' \in [Senders -> Controls] /\ controls'[s].st = "sent"
           /\ controls'[s].mode = mode /\ controls'[s].text = t
           /\ \A r \in Senders \ {s} : controls'[r] = controls[r]
           /\ ControlRefs(tab', controls'[s])
<1> DEFINE p == [st |-> "sent", mode |-> mode, id |-> tab.next, text |-> t]
<1>1. controls' = [controls EXCEPT ![s] = p]
  BY DEF Control
<1>2. /\ tab.next \in Nat /\ tab.next \notin DOMAIN tab.msgs
  BY WholeParts
<1>3. p \in Controls /\ p.st = "sent" /\ p.mode = mode /\ p.text = t /\ p.id = tab.next
  BY <1>2 DEF Controls, Words
<1> HIDE DEF p
<1>4. controls' \in [Senders -> Controls] /\ controls'[s] = p
      /\ \A r \in Senders \ {s} : controls'[r] = controls[r]
  BY <1>1, <1>3
<1>5. CASE mode = "steer"
  <2> DEFINE yes == TRUE
             m == User(t, yes)
  <2>1. tab' = Say(tab, t, yes) /\ m = User(t, yes) /\ yes \in BOOLEAN
    BY <1>5 DEF Control
  <2>2. m.text = t /\ m.role = "user"
    BY DEF User
  <2> HIDE DEF yes, m
  <2>3. /\ Is(tab', tab.status, Add(tab.msgs, tab.next, m), tab.active, tab.pin, tab.queue,
              tab.next + 1)
        /\ Grows(tab, tab')
        /\ DOMAIN tab'.msgs = DOMAIN tab.msgs \cup {tab.next} /\ tab'.msgs[tab.next] = m
        /\ Users(tab'.msgs) = Users(tab.msgs) \cup {tab.next}
    BY <2>1, SayIs
  <2>4. tab'.queue = tab.queue /\ tab'.next = tab.next + 1
    BY <2>3 DEF Is
  <2>5. Refers(tab', tab.next, "user") /\ Names(tab', tab.next, t)
    BY <1>2, <2>2, <2>3, <2>4 DEF Refers, Names
  <2> QED BY <1>3, <1>4, <1>5, <2>2, <2>3, <2>4, <2>5 DEF ControlRefs
<1>6. CASE mode = "follow_up"
  <2>1. tab' = [tab EXCEPT !.queue = Add(@, tab.next, t), !.next = @ + 1]
    BY <1>6 DEF Control
  <2>2. /\ Is(tab', tab.status, tab.msgs, tab.active, tab.pin, Add(tab.queue, tab.next, t),
              tab.next + 1)
        /\ Grows(tab, tab')
    BY <2>1, QueueOneIs
  <2>3. tab'.msgs = tab.msgs /\ tab'.queue = Add(tab.queue, tab.next, t)
        /\ tab'.next = tab.next + 1
    BY <2>2 DEF Is
  <2>4. Range(tab'.queue) \subseteq Range(tab.queue) \cup {t}
    BY <2>3 DEF Range, Add
  <2>5. Refers(tab', tab.next, "user") /\ Names(tab', tab.next, t)
    BY <1>2, <2>3 DEF Refers, Names
  <2> QED BY <1>3, <1>4, <1>6, <2>2, <2>3, <2>4, <2>5 DEF ControlRefs
<1> QED BY <1>5, <1>6

\* ---- Types and references are kept by every step ----

\* The steps that leave the page alone
LEMMA TypesOfPi ==
    ASSUME TypeInv, RefsInv,
           Runtime \/ TakeAbort \/ (\E s \in Senders : \/ TakePrompt(s) \/ TakeControl(s)
                                                       \/ ProbeFailedPrompt(s))
    PROVE  TypeInv' /\ RefsInv' /\ UNCHANGED <<tab, promote, told>>
<1>1. PiInv /\ Whole(tab) /\ prompts \in [Senders -> Prompts]
      /\ controls \in [Senders -> Controls]
  BY DEF TypeInv
<1>2. CASE Runtime
  <2>1. PiInv'
    BY <1>1, <1>2, PiRuns, PiMovesWhole
  <2>2. UNCHANGED <<tab, prompts, controls, promote, abort, told>>
    BY <1>2 DEF Runtime, PiDelivers, PiReplies, PiRetries, PiSettles, Works
  <2> QED BY <2>1, <2>2 DEF TypeInv, RefsInv
<1>3. CASE TakeAbort
  <2>1. PiInv'
    BY <1>1, <1>3, PiStops, PiMovesWhole
  <2>2. UNCHANGED <<tab, prompts, controls, promote, told>>
        /\ abort' = [abort EXCEPT !.st = "answered"]
    BY <1>3 DEF TakeAbort
  <2>3. abort' \in Aborts
    BY <2>2 DEF TypeInv, Aborts
  <2> QED BY <2>1, <2>2, <2>3 DEF TypeInv, RefsInv
<1>4. ASSUME NEW s \in Senders, TakePrompt(s)
      PROVE  TypeInv' /\ RefsInv' /\ UNCHANGED <<tab, promote, told>>
  <2>1. /\ prompts[s].st = "sent" /\ prompts[s].text \in Texts
        /\ Prompted(s, "taken") \/ Prompted(s, "failed")
        /\ UNCHANGED <<tab, controls, promote, abort, told>>
    BY <1>4 DEF TakePrompt, RefsInv
  <2>2. PiInv'
    <3> DEFINE t == prompts[s].text
    <3>1. t \in Texts
      BY <2>1
    <3>2. Starts(t) \/ Holds("steer", t) \/ UNCHANGED <<pi, wire>>
      BY <1>4 DEF TakePrompt
    <3> HIDE DEF t
    <3>3. CASE Starts(t)
      BY <1>1, <3>1, <3>3, PiStarts, PiMovesWhole
    <3>4. CASE Holds("steer", t)
      BY <1>1, <3>1, <3>4, PiHoldsMore, PiMovesWhole
    <3>5. CASE UNCHANGED <<pi, wire>>
      BY <1>1, <3>5, PiRests, PiMovesWhole
    <3> QED BY <3>2, <3>3, <3>4, <3>5
  <2>3. /\ prompts' \in [Senders -> Prompts]
        /\ \A r \in Senders : /\ prompts'[r].text = prompts[r].text
                              /\ prompts'[r].bubble = prompts[r].bubble
                              /\ r # s => prompts'[r] = prompts[r]
    BY <1>1, <2>1, PromptedIs
  <2> QED BY <2>1, <2>2, <2>3 DEF TypeInv, RefsInv
<1>5. ASSUME NEW s \in Senders, TakeControl(s)
      PROVE  TypeInv' /\ RefsInv' /\ UNCHANGED <<tab, promote, told>>
  <2>1. /\ controls[s].st = "sent" /\ controls[s].text \in Texts
        /\ Controlled(s, "taken") \/ Controlled(s, "failed")
        /\ UNCHANGED <<tab, prompts, promote, abort, told>>
    BY <1>5 DEF TakeControl, RefsInv
  <2>2. PiInv'
    <3> DEFINE t == controls[s].text
               mode == controls[s].mode
    <3>1. t \in Texts /\ mode \in {"steer", "follow_up"}
      BY <1>1, <2>1 DEF Controls
    <3>2. Holds(mode, t) \/ UNCHANGED <<pi, wire>>
      BY <1>5 DEF TakeControl
    <3> HIDE DEF t, mode
    <3>3. CASE Holds(mode, t)
      BY <1>1, <3>1, <3>3, PiHoldsMore, PiMovesWhole
    <3>4. CASE UNCHANGED <<pi, wire>>
      BY <1>1, <3>4, PiRests, PiMovesWhole
    <3> QED BY <3>2, <3>3, <3>4
  <2>3. /\ controls' \in [Senders -> Controls]
        /\ \A r \in Senders : /\ controls'[r].text = controls[r].text
                              /\ controls'[r].id = controls[r].id
                              /\ r # s => controls'[r] = controls[r]
    BY <1>1, <2>1, ControlledIs
  <2> QED BY <2>1, <2>2, <2>3 DEF TypeInv, RefsInv
<1>6. ASSUME NEW s \in Senders, ProbeFailedPrompt(s)
      PROVE  TypeInv' /\ RefsInv' /\ UNCHANGED <<tab, promote, told>>
  <2>1. /\ prompts[s].st # "none"
        /\ Prompted(s, "active") \/ Prompted(s, "idle")
        /\ UNCHANGED <<pi, wire, tab, controls, promote, abort, told>>
    BY <1>6 DEF ProbeFailedPrompt
  <2>2. /\ prompts' \in [Senders -> Prompts]
        /\ \A r \in Senders : /\ prompts'[r].text = prompts[r].text
                              /\ prompts'[r].bubble = prompts[r].bubble
                              /\ r # s => prompts'[r] = prompts[r]
    BY <1>1, <2>1, PromptedIs
  <2> QED BY <1>1, <2>1, <2>2 DEF TypeInv, RefsInv, PiInv
<1> QED BY <1>2, <1>3, <1>4, <1>5, <1>6

\* The page's steps keep what the requests refer to.
LEMMA TypesOfPage ==
    ASSUME TypeInv, RefsInv, Keeps(tab, tab'), PiInv',
           prompts' \in [Senders -> Prompts], controls' \in [Senders -> Controls],
           abort' \in Aborts, told' \in History,
           promote' = promote \/ (promote' \in Nat /\ Refers(tab', promote', "user")),
           \A s \in Senders : prompts'[s] = prompts[s] \/ PromptRefs(tab', prompts'[s]),
           \A s \in Senders : controls'[s] = controls[s] \/ ControlRefs(tab', controls'[s])
    PROVE  TypeInv' /\ RefsInv'
<1>1. /\ Refers(tab', promote, "user")
      /\ \A s \in Senders : PromptRefs(tab', prompts[s]) /\ ControlRefs(tab', controls[s])
  BY RefsStay
<1>2. /\ Refers(tab', promote', "user") /\ promote' \in Nat
      /\ \A s \in Senders : PromptRefs(tab', prompts'[s]) /\ ControlRefs(tab', controls'[s])
  BY <1>1 DEF TypeInv
<1>3. RefsInv'
  BY <1>2 DEF RefsInv, PromptRefs, ControlRefs
<1> QED BY <1>2, <1>3 DEF TypeInv, Keeps

\* What the delivery of an event does
LEMMA ReceiveIs ==
    ASSUME PiInv, Whole(tab), told \in History, Receive, NEW e, e = Head(wire)
    PROVE  /\ e \in Events /\ PiInv' /\ Range(wire) = {e} \cup Range(wire')
           /\ e.k = "start" => \E f \in Range(wire') : f.k = "end" /\ f.t = e.t
           /\ Grows(tab, tab') /\ Range(tab'.queue) \subseteq Range(tab.queue) \cup Range(e.q)
           /\ \/ Users(tab'.msgs) = Users(tab.msgs)
              \/ /\ e.k \in {"start", "end"} /\ Unmatched(tab, e.t)
                 /\ Users(tab'.msgs) = Users(tab.msgs) \cup {tab.next}
                 /\ tab'.msgs[tab.next].text = e.t
           /\ e.k \in {"start", "end"} =>
                 \/ Settled(tab', e.t)
                 \/ /\ Awaited(tab.msgs, e.t) = {} /\ MatchesLast(tab.msgs, e.t)
                    /\ tab.msgs[Latest(Users(tab.msgs))].text # e.t
           /\ e.k \in {"start", "end"} => tab'.queue = Delivered(tab.queue, e.t)
           /\ e.k \notin {"start", "end", "queue"} => tab'.queue = tab.queue
           /\ told' \in History /\ told'.used = told.used
           /\ told'.echoed = IF e.k = "end" THEN told.echoed \cup {e.t} ELSE told.echoed
           /\ told'.lapse = told.lapse \cup Mistaken(e)
<1>1. /\ wire # <<>> /\ wire' = Tail(wire) /\ pi' = pi /\ tab' = Reduce(tab, e)
      /\ told' = [told EXCEPT !.echoed = IF e.k = "end" THEN @ \cup {e.t} ELSE @,
                              !.lapse = @ \cup Mistaken(e)]
  BY DEF Receive
<1>2. /\ Sound(wire') /\ e \in Events /\ Range(wire) = {e} \cup Range(wire')
      /\ e.k \in {"start", "end"} => e.t \in Texts
      /\ e.k = "start" => \E f \in Range(wire') : f.k = "end" /\ f.t = e.t
  <2>1. Sound(wire) /\ wire # <<>>
    BY <1>1 DEF PiInv
  <2>2. /\ Sound(Tail(wire)) /\ Head(wire) \in Events
        /\ Range(wire) = {Head(wire)} \cup Range(Tail(wire))
        /\ Head(wire).k \in {"start", "end"} => Head(wire).t \in Texts
        /\ Head(wire).k = "start" => \E f \in Range(Tail(wire)) : f.k = "end"
                                                                  /\ f.t = Head(wire).t
    BY <2>1, TailSound
  <2> QED BY <1>1, <2>2
<1>3. PiInv'
  BY <1>1, <1>2 DEF PiInv
<1>4. /\ Grows(tab, tab') /\ Range(tab'.queue) \subseteq Range(tab.queue) \cup Range(e.q)
      /\ \/ Users(tab'.msgs) = Users(tab.msgs)
         \/ /\ e.k \in {"start", "end"} /\ Unmatched(tab, e.t)
            /\ Users(tab'.msgs) = Users(tab.msgs) \cup {tab.next}
            /\ tab'.msgs[tab.next].text = e.t
      /\ e.k \in {"start", "end"} =>
            \/ Settled(tab', e.t)
            \/ /\ Awaited(tab.msgs, e.t) = {} /\ MatchesLast(tab.msgs, e.t)
               /\ tab.msgs[Latest(Users(tab.msgs))].text # e.t
      /\ e.k \in {"start", "end"} => tab'.queue = Delivered(tab.queue, e.t)
      /\ e.k \notin {"start", "end", "queue"} => tab'.queue = tab.queue
  <2>1. Whole(tab) /\ e \in Events /\ (e.k \in {"start", "end"} => e.t \in Texts)
        /\ tab' = Reduce(tab, e)
    BY <1>1, <1>2
  <2> QED BY <2>1, ReduceIs
<1>5. Mistaken(e) \in SUBSET Lapses
  BY DEF Mistaken, Crossed, Outlived, Overlapped, Lapses
<1>6. told' \in History /\ told'.used = told.used /\ told'.lapse = told.lapse \cup Mistaken(e)
      /\ told'.echoed = IF e.k = "end" THEN told.echoed \cup {e.t} ELSE told.echoed
  BY <1>1, <1>2, <1>5 DEF History
<1> QED BY <1>2, <1>3, <1>4, <1>6

LEMMA Excuses ==
    /\ Tailed \in SUBSET Lapses /\ Pinned \in SUBSET Lapses /\ SentAgain \in SUBSET Lapses
    /\ Cleared \in SUBSET Lapses /\ \A t : TakenBack(t) \in SUBSET Lapses
    /\ \A senders : Lost(senders) \in SUBSET Lapses
  BY DEF Tailed, Pinned, Lost, SentAgain, Cleared, TakenBack, Lapses

\* The first of the follow-ups that are held for an abort
LEMMA FirstHeld ==
    ASSUME abort \in Aborts, DOMAIN abort.held # {}, NEW i, i = Earliest(DOMAIN abort.held)
    PROVE  /\ i \in DOMAIN abort.held /\ abort.held[i] \in Texts
           /\ Without(abort.held, i) \in Lists(Texts)
           /\ Range(Without(abort.held, i)) \subseteq Range(abort.held)
<1>1. abort.held \in Lists(Texts)
  BY DEF Aborts
<1>2. DOMAIN abort.held \in SUBSET Nat /\ \A j \in DOMAIN abort.held : abort.held[j] \in Texts
  BY <1>1, ListsAreFunctions
<1>3. i \in DOMAIN abort.held
  BY <1>2, EarliestIs
<1>4. Range(Without(abort.held, i)) \subseteq Range(abort.held)
  BY DEF Range, Without
<1> QED BY <1>1, <1>2, <1>3, <1>4, TakeFromList

\* The session of which an abort was answered
LEMMA AbortedIs ==
    ASSUME Whole(tab), NEW c, c = [SettleTurn(tab) EXCEPT !.queue = Nothing]
    PROVE  /\ Is(c, "idle", tab.msgs, 0, tab.pin, Nothing, tab.next)
           /\ Grows(tab, c)
<1> DEFINE s == SettleTurn(tab)
<1>1. Is(s, "idle", tab.msgs, 0, tab.pin, tab.queue, tab.next) /\ Grows(tab, s)
  BY SettledIs
<1>2. c = [s EXCEPT !.queue = Nothing]
  OBVIOUS
<1> HIDE DEF s
<1>3. /\ s \in Tabs /\ s.status \in Statuses /\ s.msgs \in Lists(Messages) /\ s.active \in Nat
      /\ s.pin \in Nat /\ s.queue \in Lists(Texts) /\ s.next \in Nat \ {0}
  <2>1. Whole(s)
    BY <1>1 DEF Grows
  <2> QED BY <2>1, WholeParts DEF Whole
<1>4. Is(c, s.status, s.msgs, s.active, s.pin, Nothing, s.next)
  <2>1. \A l \in Lists(Texts) : Is([s EXCEPT !.queue = l], s.status, s.msgs, s.active, s.pin, l,
                                   s.next)
    BY <1>3, TabUpdates
  <2>2. Nothing \in Lists(Texts)
    BY NothingIsList
  <2> QED BY <1>2, <2>1, <2>2
<1>5. Is(c, "idle", tab.msgs, 0, tab.pin, Nothing, tab.next)
  BY <1>1, <1>4 DEF Is
<1>6. c \in Tabs /\ c.msgs = tab.msgs /\ c.queue = Nothing /\ c.next = tab.next
  BY <1>5 DEF Is
<1>7. Whole(c)
  BY <1>6, NothingIsList DEF Whole
<1>8. Grows(tab, c)
  BY <1>6, <1>7, WholeParts DEF Grows
<1> QED BY <1>5, <1>8

LEMMA Inits == ASSUME Init PROVE TypeInv /\ RefsInv
<1>1. tab \in Tabs /\ tab.msgs = Nothing /\ tab.queue = Nothing /\ tab.next = 1
  BY NothingIsList DEF Init, Tabs, Statuses
<1>2. Whole(tab) /\ Users(tab.msgs) = {}
  BY <1>1, NothingIsList DEF Whole, Users
<1>3. pi \in Pis /\ ~pi.run /\ Sound(wire) /\ Range(wire) = {}
  BY DEF Init, Pis, Words, Sound, Paired, Range
<1>4. prompts \in [Senders -> Prompts] /\ controls \in [Senders -> Controls]
      /\ \A s \in Senders : prompts[s].st = "none" /\ controls[s].st = "none"
  BY NoRequests DEF Init
<1>5. promote = 0 /\ abort \in Aborts /\ told \in History
  BY NoRequests DEF Init, History
<1> QED BY <1>1, <1>2, <1>3, <1>4, <1>5, NothingIsList DEF TypeInv, RefsInv, Refers, PiInv

\* ---- The steps that show or queue something ----

\* What only grows in the history
Remembers == /\ told' \in History /\ told.used \subseteq told'.used
             /\ told'.echoed = told.echoed /\ told.lapse \subseteq told'.lapse

LEMMA LapseRemembers ==
    ASSUME told \in History, NEW why \in SUBSET Lapses, told' = Lapse(why)
    PROVE  Remembers /\ told'.used = told.used /\ told'.lapse = told.lapse \cup why
  BY LapseIs DEF Remembers

\* A message is added at the end, and nothing is queued.
AddsMessage(t) ==
    /\ Grows(tab, tab')
    /\ Users(tab'.msgs) = Users(tab.msgs) \cup {tab.next}
    /\ tab'.msgs[tab.next].text = t

LEMMA SendPromptIs ==
    ASSUME TypeInv, SendPrompt
    PROVE  /\ \E t \in Fresh :
                 /\ AddsMessage(t) /\ tab'.queue = tab.queue
                 /\ prompts' \in [Senders -> Prompts]
                 /\ \A s \in Senders : \/ prompts'[s] = prompts[s]
                                       \/ PromptRefs(tab', prompts'[s]) /\ prompts'[s].text = t
                 /\ Remembers /\ told'.used = told.used \cup {t}
           /\ UNCHANGED <<pi, wire, controls, promote, abort>>
<1>1. Whole(tab) /\ prompts \in [Senders -> Prompts] /\ told \in History
  BY DEF TypeInv
<1>2. PICK t \in Fresh :
         /\ Submit("composer", tab, t)
         /\ told' = [told EXCEPT !.used = @ \cup {t},
                                 !.lapse = @ \cup Pinned \cup Tailed \cup Lost(Senders)]
  BY DEF SendPrompt
<1>3. t \in Texts /\ "composer" \in Senders
  BY DEF Fresh, Senders
<1>4. /\ Grows(tab, tab') /\ tab'.queue = tab.queue
      /\ Users(tab'.msgs) = Users(tab.msgs) \cup {tab.next} /\ tab'.msgs[tab.next].text = t
      /\ prompts' \in [Senders -> Prompts]
      /\ prompts'["composer"].text = t
      /\ \A r \in Senders \ {"composer"} : prompts'[r] = prompts[r]
      /\ PromptRefs(tab', prompts'["composer"])
  BY <1>1, <1>2, <1>3, SubmitIs
<1>5. Remembers /\ told'.used = told.used \cup {t}
  BY <1>1, <1>2, <1>3, Excuses DEF History, Remembers
<1>6. \A s \in Senders : \/ prompts'[s] = prompts[s]
                         \/ PromptRefs(tab', prompts'[s]) /\ prompts'[s].text = t
  BY <1>4
<1> QED BY <1>4, <1>5, <1>6 DEF SendPrompt, AddsMessage

LEMMA SendControlIs ==
    ASSUME TypeInv, SendControl
    PROVE  /\ \E mode \in {"steer", "follow_up"}, t \in Fresh :
                 /\ Grows(tab, tab')
                 /\ mode = "steer" => AddsMessage(t) /\ tab'.queue = tab.queue
                 /\ mode = "follow_up" => /\ Users(tab'.msgs) = Users(tab.msgs)
                                          /\ Range(tab'.queue) \subseteq Range(tab.queue) \cup {t}
                 /\ controls' \in [Senders -> Controls]
                 /\ \A s \in Senders : \/ controls'[s] = controls[s]
                                       \/ /\ ControlRefs(tab', controls'[s])
                                          /\ controls'[s].text = t /\ controls'[s].mode = mode
                 /\ Remembers /\ told'.used = told.used \cup {t} /\ told'.lapse = told.lapse
           /\ UNCHANGED <<pi, wire, prompts, promote, abort>>
<1>1. Whole(tab) /\ controls \in [Senders -> Controls] /\ told \in History
  BY DEF TypeInv
<1>2. PICK mode \in {"steer", "follow_up"}, t \in Fresh :
         /\ Control("composer", mode, t)
         /\ told' = [told EXCEPT !.used = @ \cup {t},
                                 !.steers = IF mode = "steer" THEN @ \cup {t} ELSE @]
  BY DEF SendControl
<1>3. t \in Texts /\ "composer" \in Senders
  BY DEF Fresh, Senders
<1>4. /\ Grows(tab, tab')
      /\ mode = "steer" => /\ tab'.queue = tab.queue
                           /\ Users(tab'.msgs) = Users(tab.msgs) \cup {tab.next}
                           /\ tab'.msgs[tab.next].text = t
      /\ mode = "follow_up" => /\ Users(tab'.msgs) = Users(tab.msgs)
                               /\ Range(tab'.queue) \subseteq Range(tab.queue) \cup {t}
      /\ controls' \in [Senders -> Controls]
      /\ controls'["composer"].mode = mode /\ controls'["composer"].text = t
      /\ \A r \in Senders \ {"composer"} : controls'[r] = controls[r]
      /\ ControlRefs(tab', controls'["composer"])
  BY <1>1, <1>2, <1>3, ControlIs
<1>5. Remembers /\ told'.used = told.used \cup {t} /\ told'.lapse = told.lapse
  BY <1>1, <1>2, <1>3 DEF History, Remembers
<1>6. \A s \in Senders : \/ controls'[s] = controls[s]
                         \/ /\ ControlRefs(tab', controls'[s])
                            /\ controls'[s].text = t /\ controls'[s].mode = mode
  BY <1>4
<1>7. UNCHANGED <<pi, wire, prompts, promote, abort>>
  BY DEF SendControl
<1>8. mode = "steer" => AddsMessage(t) /\ tab'.queue = tab.queue
  BY <1>4 DEF AddsMessage
<1> QED BY <1>4, <1>5, <1>6, <1>7, <1>8

LEMMA PromoteIs ==
    ASSUME TypeInv, Promote
    PROVE  /\ \E i \in DOMAIN tab.queue : AddsMessage(tab.queue[i])
           /\ tab'.queue = tab.queue /\ Refers(tab', tab.next, "user")
           /\ promote = 0 /\ promote' = tab.next
           /\ UNCHANGED <<pi, wire, prompts, controls, abort, told>>
<1>1. PICK i \in DOMAIN tab.queue : tab' = Say(tab, tab.queue[i], TRUE)
  BY DEF Promote
<1> DEFINE yes == TRUE
           t == tab.queue[i]
           m == User(t, yes)
<1>2. t \in Texts /\ tab.next \in Nat /\ Whole(tab)
  BY WholeParts DEF TypeInv
<1>3. tab' = Say(tab, t, yes) /\ m = User(t, yes) /\ yes \in BOOLEAN /\ m.role = "user"
      /\ m.text = t
  BY <1>1 DEF User
<1> HIDE DEF yes, m, t
<1>4. /\ Is(tab', tab.status, Add(tab.msgs, tab.next, m), tab.active, tab.pin, tab.queue,
            tab.next + 1)
      /\ Grows(tab, tab')
      /\ DOMAIN tab'.msgs = DOMAIN tab.msgs \cup {tab.next} /\ tab'.msgs[tab.next] = m
      /\ Users(tab'.msgs) = Users(tab.msgs) \cup {tab.next}
  BY <1>2, <1>3, SayIs
<1>5. Refers(tab', tab.next, "user") /\ tab'.queue = tab.queue
  BY <1>2, <1>3, <1>4 DEF Refers, Is
<1>6. AddsMessage(tab.queue[i])
  BY <1>3, <1>4 DEF AddsMessage, t
<1> QED BY <1>5, <1>6 DEF Promote

\* The queue of an aborted turn that was empty, and one that is sent again
LEMMA AnswerAbortIs ==
    ASSUME TypeInv, AnswerAbort
    PROVE  /\ \/ /\ Grows(tab, tab') /\ tab'.msgs = tab.msgs /\ tab'.queue = tab.queue
                 /\ abort' = NoAbort /\ UNCHANGED prompts
              \/ \E i \in DOMAIN abort.held :
                 /\ AddsMessage(abort.held[i]) /\ tab'.queue = Nothing
                 /\ prompts' \in [Senders -> Prompts]
                 /\ \A s \in Senders : \/ prompts'[s] = prompts[s]
                                       \/ /\ PromptRefs(tab', prompts'[s])
                                          /\ prompts'[s].text = abort.held[i]
                 /\ abort' \in Aborts /\ abort'.held = Without(abort.held, i)
                 /\ SentAgain \subseteq told'.lapse
           /\ Remembers /\ told'.used = told.used
           /\ UNCHANGED <<pi, wire, controls, promote>>
<1>1. /\ Whole(tab) /\ prompts \in [Senders -> Prompts] /\ abort \in Aborts /\ told \in History
  BY DEF TypeInv
<1>2. UNCHANGED <<pi, wire, controls, promote>>
  BY DEF AnswerAbort
<1>3. CASE DOMAIN abort.held = {}
  <2>1. tab' = SettleTurn(tab) /\ abort' = NoAbort /\ told' = Lapse(Tailed) /\ prompts' = prompts
    BY <1>3 DEF AnswerAbort
  <2>2. Is(SettleTurn(tab), "idle", tab.msgs, 0, tab.pin, tab.queue, tab.next)
        /\ Grows(tab, SettleTurn(tab))
    BY <1>1, SettledIs
  <2>3. Remembers /\ told'.used = told.used
    BY <1>1, <2>1, LapseRemembers, Excuses
  <2> QED BY <1>2, <2>1, <2>2, <2>3 DEF Is
<1>4. CASE DOMAIN abort.held # {}
  <2> DEFINE i == Earliest(DOMAIN abort.held)
             t == abort.held[i]
             c == [SettleTurn(tab) EXCEPT !.queue = Nothing]
             why == Tailed \cup Pinned \cup Lost(Senders) \cup SentAgain \cup Cleared
  <2>1. /\ Submit("resume", c, t)
        /\ abort' = [st |-> "resuming", held |-> Without(abort.held, i)]
        /\ told' = Lapse(why)
    BY <1>4 DEF AnswerAbort
  <2>2. i \in DOMAIN abort.held /\ t \in Texts /\ Without(abort.held, i) \in Lists(Texts)
    BY <1>1, <1>4, FirstHeld
  <2>3. Is(c, "idle", tab.msgs, 0, tab.pin, Nothing, tab.next) /\ Grows(tab, c)
    BY <1>1, AbortedIs
  <2>4. why \in SUBSET Lapses /\ SentAgain \subseteq why
    BY Excuses
  <2>5. t = abort.held[i]
    OBVIOUS
  <2> HIDE DEF i, t, c, why
  <2>6. Whole(c) /\ "resume" \in Senders /\ c.msgs = tab.msgs /\ c.queue = Nothing
        /\ c.next = tab.next
    BY <2>3 DEF Grows, Senders, Is
  <2>7. /\ Grows(c, tab') /\ tab'.queue = c.queue
        /\ Users(tab'.msgs) = Users(c.msgs) \cup {c.next} /\ tab'.msgs[c.next].text = t
        /\ prompts' \in [Senders -> Prompts]
        /\ prompts'["resume"].text = t
        /\ \A r \in Senders \ {"resume"} : prompts'[r] = prompts[r]
        /\ PromptRefs(tab', prompts'["resume"])
    BY <1>1, <2>1, <2>2, <2>6, SubmitIs
  <2>8. Grows(tab, tab')
    BY <1>1, <2>3, <2>7, GrowsThrough
  <2>9. AddsMessage(t) /\ tab'.queue = Nothing
    BY <2>6, <2>7, <2>8 DEF AddsMessage
  <2>10. Remembers /\ told'.used = told.used /\ SentAgain \subseteq told'.lapse
    BY <1>1, <2>1, <2>4, LapseRemembers
  <2>11. abort' \in Aborts /\ abort'.held = Without(abort.held, i)
    BY <2>1, <2>2 DEF Aborts
  <2>12. \A s \in Senders : \/ prompts'[s] = prompts[s]
                            \/ PromptRefs(tab', prompts'[s]) /\ prompts'[s].text = t
    BY <2>7
  <2> QED BY <1>2, <2>2, <2>5, <2>7, <2>9, <2>10, <2>11, <2>12
<1> QED BY <1>3, <1>4

LEMMA ResumeIs ==
    ASSUME TypeInv, Resume
    PROVE  /\ \/ abort' = NoAbort /\ UNCHANGED <<tab, controls>>
              \/ \E i \in DOMAIN abort.held :
                 /\ Grows(tab, tab') /\ Users(tab'.msgs) = Users(tab.msgs)
                 /\ Range(tab'.queue) \subseteq Range(tab.queue) \cup {abort.held[i]}
                 /\ controls' \in [Senders -> Controls]
                 /\ \A s \in Senders : \/ controls'[s] = controls[s]
                                       \/ /\ ControlRefs(tab', controls'[s])
                                          /\ controls'[s].text = abort.held[i]
                 /\ abort' \in Aborts /\ Range(abort'.held) \subseteq Range(abort.held)
           /\ UNCHANGED <<pi, wire, prompts, promote, told>>
<1>1. /\ Whole(tab) /\ controls \in [Senders -> Controls] /\ abort \in Aborts
  BY DEF TypeInv
<1>2. UNCHANGED <<pi, wire, prompts, promote, told>>
  BY DEF Resume
<1>3. CASE DOMAIN abort.held = {}
  BY <1>2, <1>3 DEF Resume
<1>4. CASE DOMAIN abort.held # {}
  <2> DEFINE i == Earliest(DOMAIN abort.held)
             t == abort.held[i]
             rest == Without(abort.held, i)
  <2>1. /\ Control("resume", "follow_up", t)
        /\ abort' = [abort EXCEPT !.held = Without(@, i)]
    BY <1>4 DEF Resume
  <2>2. /\ i \in DOMAIN abort.held /\ t \in Texts /\ rest \in Lists(Texts)
        /\ Range(rest) \subseteq Range(abort.held)
    BY <1>1, <1>4, FirstHeld
  <2>3. abort' = [abort EXCEPT !.held = rest] /\ t = abort.held[i]
    BY <1>1, <2>1 DEF Aborts
  <2> DEFINE mode == "follow_up"
  <2>4. "resume" \in Senders /\ mode \in {"steer", "follow_up"} /\ Control("resume", mode, t)
    BY <2>1 DEF Senders
  <2> HIDE DEF i, t, rest
  <2>5. /\ Grows(tab, tab')
        /\ Users(tab'.msgs) = Users(tab.msgs)
        /\ Range(tab'.queue) \subseteq Range(tab.queue) \cup {t}
        /\ controls' \in [Senders -> Controls]
        /\ controls'["resume"].text = t
        /\ \A r \in Senders \ {"resume"} : controls'[r] = controls[r]
        /\ ControlRefs(tab', controls'["resume"])
    BY <1>1, <2>2, <2>4, ControlIs
  <2>6. abort' \in Aborts /\ Range(abort'.held) \subseteq Range(abort.held)
    BY <1>1, <2>2, <2>3 DEF Aborts
  <2>7. ASSUME NEW s \in Senders
        PROVE  \/ controls'[s] = controls[s]
               \/ ControlRefs(tab', controls'[s]) /\ controls'[s].text = t
    <3>1. CASE s = "resume"
      BY <2>5, <3>1
    <3>2. CASE s # "resume"
      BY <2>5, <3>2
    <3> QED BY <3>1, <3>2
  <2> QED BY <1>2, <2>2, <2>3, <2>5, <2>6, <2>7
<1> QED BY <1>3, <1>4

LEMMA TypesKept ==
    ASSUME TypeInv, RefsInv, [Next]_vars
    PROVE  TypeInv' /\ RefsInv'
<1>1. /\ PiInv /\ Whole(tab) /\ prompts \in [Senders -> Prompts]
      /\ controls \in [Senders -> Controls] /\ promote \in Nat
      /\ abort \in Aborts /\ told \in History
  BY DEF TypeInv
<1>2. ASSUME UNCHANGED <<pi, wire>> PROVE PiInv'
  BY <1>1, <1>2 DEF PiInv
<1>3. CASE UNCHANGED vars
  BY <1>3 DEF vars, TypeInv, RefsInv, PiInv
<1>4. CASE Runtime
  BY <1>4, TypesOfPi
<1>5. CASE Receive
  <2> DEFINE e == Head(wire)
  <2>1. PiInv' /\ Grows(tab, tab') /\ told' \in History
    BY <1>1, <1>5, ReceiveIs
  <2>2. UNCHANGED <<prompts, controls, promote, abort>>
    BY <1>5 DEF Receive
  <2>3. Keeps(tab, tab')
    BY <1>1, <2>1, GrowsKeeps
  <2> QED BY <1>1, <2>1, <2>2, <2>3, TypesOfPage
<1>6. CASE Poll
  <2>1. Grows(tab, tab')
    BY <1>6, SteadyTab
  <2>2. UNCHANGED <<pi, wire, prompts, controls, promote, abort>>
        /\ (told' = told \/ told' = Lapse(Tailed))
    BY <1>6 DEF Poll
  <2>3. told' \in History
    BY <1>1, <2>2, LapseIs, Excuses
  <2>4. Keeps(tab, tab')
    BY <1>1, <2>1, GrowsKeeps
  <2> QED BY <1>1, <1>2, <2>2, <2>3, <2>4, TypesOfPage
<1>7. CASE SendPrompt
  <2>1. /\ Grows(tab, tab') /\ told' \in History /\ prompts' \in [Senders -> Prompts]
        /\ \A s \in Senders : prompts'[s] = prompts[s] \/ PromptRefs(tab', prompts'[s])
        /\ UNCHANGED <<pi, wire, controls, promote, abort>>
    BY <1>7, SendPromptIs DEF AddsMessage, Remembers
  <2>2. Keeps(tab, tab')
    BY <1>1, <2>1, GrowsKeeps
  <2> QED BY <1>1, <1>2, <2>1, <2>2, TypesOfPage
<1>8. CASE SendControl
  <2>1. /\ Grows(tab, tab') /\ told' \in History /\ controls' \in [Senders -> Controls]
        /\ \A s \in Senders : controls'[s] = controls[s] \/ ControlRefs(tab', controls'[s])
        /\ UNCHANGED <<pi, wire, prompts, promote, abort>>
    BY <1>8, SendControlIs DEF Remembers
  <2>2. Keeps(tab, tab')
    BY <1>1, <2>1, GrowsKeeps
  <2> QED BY <1>1, <1>2, <2>1, <2>2, TypesOfPage
<1>9. CASE Promote
  <2>1. /\ Grows(tab, tab') /\ Refers(tab', promote', "user") /\ promote' = tab.next
        /\ UNCHANGED <<pi, wire, prompts, controls, abort, told>>
    BY <1>9, PromoteIs DEF AddsMessage
  <2>2. promote' \in Nat
    BY <1>1, <2>1, WholeParts
  <2>3. Keeps(tab, tab')
    BY <1>1, <2>1, GrowsKeeps
  <2> QED BY <1>1, <1>2, <2>1, <2>2, <2>3, TypesOfPage
<1>10. CASE PromoteRefused
  <2>1. /\ tab' = [tab EXCEPT !.msgs = Without(@, promote)] /\ promote' = 0
        /\ UNCHANGED <<pi, wire, prompts, controls, abort>>
        /\ \E why \in SUBSET Lapses : told' = Lapse(why)
    <3>1. TakenBack(tab.msgs[promote].text) \in SUBSET Lapses
      BY Excuses
    <3> QED BY <1>10, <3>1 DEF PromoteRefused
  <2>2. Keeps(tab, tab') /\ DOMAIN tab'.msgs \subseteq DOMAIN tab.msgs /\ tab'.next = tab.next
    BY <1>1, <2>1, TakenTab
  <2>3. promote' \in Nat /\ Refers(tab', promote', "user")
    BY <1>1, <2>1, <2>2, WholeParts DEF Refers
  <2>4. told' \in History
    BY <1>1, <2>1, LapseIs
  <2> QED BY <1>1, <1>2, <2>1, <2>2, <2>3, <2>4, TypesOfPage
<1>11. ASSUME NEW s \in Senders, TakePrompt(s) \/ TakeControl(s) \/ ProbeFailedPrompt(s)
       PROVE  TypeInv' /\ RefsInv'
  BY <1>11, TypesOfPi
<1>12. ASSUME NEW s \in Senders, AcceptPrompt(s) PROVE TypeInv' /\ RefsInv'
  <2>1. Grows(tab, tab')
    BY <1>12, SteadyTab
  <2>2. /\ prompts' = [prompts EXCEPT ![s] = NoPrompt]
        /\ UNCHANGED <<pi, wire, controls, promote, abort>>
        /\ \E why \in SUBSET Lapses : told' = Lapse(why)
    BY <1>12 DEF AcceptPrompt, Lapses
  <2>3. told' \in History
    BY <1>1, <2>2, LapseIs
  <2>4. /\ prompts' \in [Senders -> Prompts] /\ prompts'[s] = NoPrompt
        /\ \A r \in Senders \ {s} : prompts'[r] = prompts[r]
    BY <1>1, <2>2, PromptedIs, NoRequests
  <2>5. PromptRefs(tab', prompts'[s])
    BY <2>4, NoRequests DEF PromptRefs
  <2>6. Keeps(tab, tab')
    BY <1>1, <2>1, GrowsKeeps
  <2> QED BY <1>1, <1>2, <2>2, <2>3, <2>4, <2>5, <2>6, TypesOfPage
<1>13. ASSUME NEW s \in Senders, SettleFailedPrompt(s) PROVE TypeInv' /\ RefsInv'
  <2>1. /\ prompts' = [prompts EXCEPT ![s] = NoPrompt]
        /\ UNCHANGED <<pi, wire, controls, promote, abort>>
        /\ \/ /\ tab' = [SettleTurn(tab) EXCEPT !.msgs = Without(@, prompts[s].bubble)]
              /\ told' = Lapse(Tailed \cup Lost({}))
           \/ tab' = tab /\ told' = told
    BY <1>13 DEF SettleFailedPrompt
  <2>2. told' \in History
    BY <1>1, <2>1, LapseIs, Excuses
  <2>3. /\ prompts' \in [Senders -> Prompts] /\ prompts'[s] = NoPrompt
        /\ \A r \in Senders \ {s} : prompts'[r] = prompts[r]
    BY <1>1, <2>1, PromptedIs, NoRequests
  <2>4. PromptRefs(tab', prompts'[s])
    BY <2>3, NoRequests DEF PromptRefs
  <2>5. Keeps(tab, tab')
    <3>1. CASE tab' = tab
      BY <1>1, <3>1, WholeParts DEF Keeps
    <3>2. CASE tab' = [SettleTurn(tab) EXCEPT !.msgs = Without(@, prompts[s].bubble)]
      BY <1>1, <3>2, TakenTab
    <3> QED BY <2>1, <3>1, <3>2
  <2> QED BY <1>1, <1>2, <2>1, <2>2, <2>3, <2>4, <2>5, TypesOfPage
<1>14. ASSUME NEW s \in Senders, AcceptControl(s) PROVE TypeInv' /\ RefsInv'
  <2>1. Grows(tab, tab')
    BY <1>14, SteadyTab
  <2>2. /\ controls' = [controls EXCEPT ![s] = NoControl]
        /\ UNCHANGED <<pi, wire, prompts, promote, abort, told>>
    BY <1>14 DEF AcceptControl
  <2>3. /\ controls' \in [Senders -> Controls] /\ controls'[s] = NoControl
        /\ \A r \in Senders \ {s} : controls'[r] = controls[r]
    BY <1>1, <2>2, ControlledIs, NoRequests
  <2>4. ControlRefs(tab', controls'[s])
    BY <2>3, NoRequests DEF ControlRefs
  <2>5. Keeps(tab, tab')
    BY <1>1, <2>1, GrowsKeeps
  <2> QED BY <1>1, <1>2, <2>2, <2>3, <2>4, <2>5, TypesOfPage
<1>15. ASSUME NEW s \in Senders, RollBackControl(s) PROVE TypeInv' /\ RefsInv'
  <2>1. /\ tab' = [tab EXCEPT !.msgs = Without(@, controls[s].id),
                              !.queue = Without(@, controls[s].id)]
        /\ told' = Lapse(TakenBack(controls[s].text))
        /\ controls' = [controls EXCEPT ![s] = NoControl]
        /\ UNCHANGED <<pi, wire, prompts, promote, abort>>
    BY <1>15 DEF RollBackControl
  <2>2. told' \in History
    BY <1>1, <2>1, LapseIs, Excuses
  <2>3. /\ controls' \in [Senders -> Controls] /\ controls'[s] = NoControl
        /\ \A r \in Senders \ {s} : controls'[r] = controls[r]
    BY <1>1, <2>1, ControlledIs, NoRequests
  <2>4. ControlRefs(tab', controls'[s])
    BY <2>3, NoRequests DEF ControlRefs
  <2>5. Keeps(tab, tab')
    BY <1>1, <2>1, TakenTab
  <2> QED BY <1>1, <1>2, <2>1, <2>2, <2>3, <2>4, <2>5, TypesOfPage
<1>16. CASE Abort
  <2>1. Grows(tab, tab')
    BY <1>16, SteadyTab
  <2>2. /\ abort' = [st |-> "sent", held |-> tab.queue]
        /\ UNCHANGED <<pi, wire, prompts, controls, promote, told>>
    BY <1>16 DEF Abort
  <2>3. abort' \in Aborts
    BY <1>1, <2>2, WholeParts DEF Aborts
  <2>4. Keeps(tab, tab')
    BY <1>1, <2>1, GrowsKeeps
  <2> QED BY <1>1, <1>2, <2>2, <2>3, <2>4, TypesOfPage
<1>17. CASE TakeAbort
  BY <1>17, TypesOfPi
<1>18. CASE AnswerAbort
  <2>1. /\ Grows(tab, tab') /\ told' \in History /\ prompts' \in [Senders -> Prompts]
        /\ \A s \in Senders : prompts'[s] = prompts[s] \/ PromptRefs(tab', prompts'[s])
        /\ abort' \in Aborts
        /\ UNCHANGED <<pi, wire, controls, promote>>
    BY <1>1, <1>18, AnswerAbortIs, NoRequests DEF AddsMessage, Remembers
  <2>2. Keeps(tab, tab')
    BY <1>1, <2>1, GrowsKeeps
  <2> QED BY <1>1, <1>2, <2>1, <2>2, TypesOfPage
<1>19. CASE Resume
  <2>1. UNCHANGED <<pi, wire, prompts, promote, told>>
    BY <1>19, ResumeIs
  <2>2. CASE abort' = NoAbort /\ UNCHANGED <<tab, controls>>
    <3>1. Keeps(tab, tab')
      BY <1>1, <2>2, WholeParts DEF Keeps
    <3> QED BY <1>1, <1>2, <2>1, <2>2, <3>1, NoRequests, TypesOfPage
  <2>3. CASE ~(abort' = NoAbort /\ UNCHANGED <<tab, controls>>)
    <3>1. /\ Grows(tab, tab') /\ controls' \in [Senders -> Controls]
          /\ \A s \in Senders : controls'[s] = controls[s] \/ ControlRefs(tab', controls'[s])
          /\ abort' \in Aborts
      BY <1>19, <2>3, ResumeIs
    <3>2. Keeps(tab, tab')
      BY <1>1, <3>1, GrowsKeeps
    <3> QED BY <1>1, <1>2, <2>1, <3>1, <3>2, TypesOfPage
  <2> QED BY <2>2, <2>3
<1> QED BY <1>3, <1>4, <1>5, <1>6, <1>7, <1>8, <1>9, <1>10, <1>11, <1>12, <1>13, <1>14,
           <1>15, <1>16, <1>17, <1>18, <1>19 DEF Next, Requests

THEOREM TranscriptHolds == Spec => [](TypeInv /\ RefsInv)
<1>1. Init => TypeInv /\ RefsInv
  BY Inits
<1>2. (TypeInv /\ RefsInv) /\ [Next]_vars => (TypeInv /\ RefsInv)'
  BY TypesKept
<1> QED BY <1>1, <1>2, PTL DEF Spec

-----------------------------------------------------------------------------
\* ---- What the model was shown ----

\* The text is in a message that the refusal of a promotion, p, does not take back.
Kept(c, p, t) == \E i \in Users(c.msgs) : /\ c.msgs[i].text = t
                                          /\ i # p \/ ~c.msgs[i].awaiting

EchoedInv == ~Excused({"overlap", "rollback"}) =>
    \A t \in told.echoed : Kept(tab, promote, t)

LEMMA KeptGrows ==
    ASSUME NEW c, Whole(c), NEW d, Grows(c, d), NEW p, NEW t, Kept(c, p, t)
    PROVE  Kept(d, p, t)
<1>1. PICK i \in Users(c.msgs) : c.msgs[i].text = t /\ (i # p \/ ~c.msgs[i].awaiting)
  BY DEF Kept
<1>2. i \in DOMAIN c.msgs /\ c.msgs[i].role = "user"
  BY DEF Users
<1>3. /\ i \in DOMAIN d.msgs /\ d.msgs[i].role = "user" /\ d.msgs[i].text = t
      /\ d.msgs[i].awaiting => c.msgs[i].awaiting
  BY <1>1, <1>2 DEF Grows
<1>4. c.msgs[i].awaiting \in BOOLEAN /\ d.msgs[i].awaiting \in BOOLEAN
  BY <1>2, <1>3, WholeParts DEF Grows, Messages
<1> QED BY <1>1, <1>3, <1>4 DEF Kept, Users

LEMMA EchoedGrows ==
    ASSUME EchoedInv, Whole(tab), Grows(tab, tab'), Remembers, promote' = promote
    PROVE  EchoedInv'
<1> SUFFICES ASSUME ~(told'.lapse \cap {"overlap", "rollback"} # {}), NEW t \in told'.echoed
             PROVE  Kept(tab', promote', t)
  BY DEF EchoedInv, Excused
<1>1. ~Excused({"overlap", "rollback"}) /\ t \in told.echoed
  BY DEF Remembers, Excused
<1>2. Kept(tab, promote, t)
  BY <1>1 DEF EchoedInv
<1> QED BY <1>2, KeptGrows

\* A message is taken back only with the excuse of its text.
LEMMA EchoedTaken ==
    ASSUME EchoedInv, TypeInv, RefsInv,
           (\E s \in Senders : RollBackControl(s) \/ SettleFailedPrompt(s)) \/ PromoteRefused
    PROVE  EchoedInv'
<1>1. Whole(tab) /\ told \in History
  BY DEF TypeInv
<1>2. \A i \in Users(tab.msgs) : i \in DOMAIN tab.msgs /\ tab.msgs[i].role = "user"
                                 /\ i \in Nat \ {0}
  BY <1>1, WholeParts DEF Users
<1>3. ASSUME NEW why \in SUBSET Lapses, told' = Lapse(why),
             ~(told'.lapse \cap {"overlap", "rollback"} # {}), NEW t \in told'.echoed
      PROVE  Kept(tab, promote, t) /\ "rollback" \notin why /\ t \in told.echoed
  <2>1. told'.echoed = told.echoed /\ told'.lapse = told.lapse \cup why
    BY <1>1, <1>3, LapseIs
  <2> QED BY <1>3, <2>1 DEF EchoedInv, Excused
<1>4. ASSUME NEW s \in Senders, RollBackControl(s) PROVE EchoedInv'
  <2> DEFINE id == controls[s].id
  <2>1. /\ tab' = [tab EXCEPT !.msgs = Without(@, id), !.queue = Without(@, id)]
        /\ told' = Lapse(TakenBack(controls[s].text)) /\ promote' = promote
        /\ controls[s].st # "none"
    BY <1>4 DEF RollBackControl
  <2>2. /\ DOMAIN tab'.msgs = DOMAIN tab.msgs \ {id}
        /\ \A k \in DOMAIN tab'.msgs : tab'.msgs[k] = tab.msgs[k]
    BY <1>1, <2>1, TakenTab
  <2> SUFFICES ASSUME ~(told'.lapse \cap {"overlap", "rollback"} # {}), NEW t \in told'.echoed
               PROVE  Kept(tab', promote', t)
    BY DEF EchoedInv, Excused
  <2>3. Kept(tab, promote, t) /\ "rollback" \notin TakenBack(controls[s].text) /\ t \in told.echoed
    BY <1>3, <2>1, Excuses
  <2>4. PICK i \in Users(tab.msgs) : /\ tab.msgs[i].text = t
                                     /\ i # promote \/ ~tab.msgs[i].awaiting
    BY <2>3 DEF Kept
  <2>5. t # controls[s].text
    BY <2>3 DEF TakenBack
  <2>6. i # id
    BY <1>2, <2>1, <2>4, <2>5 DEF RefsInv, Names
  <2> QED BY <1>2, <2>1, <2>2, <2>4, <2>6 DEF Kept, Users
<1>5. ASSUME NEW s \in Senders, SettleFailedPrompt(s) PROVE EchoedInv'
  <2> DEFINE b == prompts[s].bubble
  <2>1. promote' = promote /\ prompts[s].st # "none"
    BY <1>5 DEF SettleFailedPrompt
  <2>2. CASE UNCHANGED <<tab, told>>
    BY <2>1, <2>2 DEF EchoedInv, Excused
  <2>3. CASE /\ tab' = [SettleTurn(tab) EXCEPT !.msgs = Without(@, b)]
             /\ told' = Lapse(Tailed \cup Lost({}))
    <3>1. /\ DOMAIN tab'.msgs = DOMAIN tab.msgs \ {b}
          /\ \A k \in DOMAIN tab'.msgs : tab'.msgs[k] = tab.msgs[k]
      BY <1>1, <2>3, TakenTab
    <3> SUFFICES ASSUME ~(told'.lapse \cap {"overlap", "rollback"} # {}), NEW t \in told'.echoed
                 PROVE  Kept(tab', promote', t)
      BY DEF EchoedInv, Excused
    <3>2. Kept(tab, promote, t)
      BY <1>3, <2>3, Excuses
    <3>3. PICK i \in Users(tab.msgs) : /\ tab.msgs[i].text = t
                                       /\ i # promote \/ ~tab.msgs[i].awaiting
      BY <3>2 DEF Kept
    <3>4. i # b
      BY <1>2, <2>1, <3>3 DEF RefsInv, Refers
    <3> QED BY <1>2, <2>1, <3>1, <3>3, <3>4 DEF Kept, Users
  <2> QED BY <1>5, <2>2, <2>3 DEF SettleFailedPrompt
<1>6. CASE PromoteRefused
  <2> DEFINE why == IF promote \in DOMAIN tab.msgs /\ ~tab.msgs[promote].awaiting
                    THEN TakenBack(tab.msgs[promote].text) ELSE {}
  <2>1. /\ tab' = [tab EXCEPT !.msgs = Without(@, promote)] /\ promote' = 0
        /\ told' = Lapse(why)
    BY <1>6 DEF PromoteRefused
  <2>2. /\ DOMAIN tab'.msgs = DOMAIN tab.msgs \ {promote}
        /\ \A k \in DOMAIN tab'.msgs : tab'.msgs[k] = tab.msgs[k]
    BY <1>1, <2>1, TakenTab
  <2> SUFFICES ASSUME ~(told'.lapse \cap {"overlap", "rollback"} # {}), NEW t \in told'.echoed
               PROVE  Kept(tab', promote', t)
    BY DEF EchoedInv, Excused
  <2>3. why \in SUBSET Lapses
    BY Excuses
  <2>4. Kept(tab, promote, t) /\ "rollback" \notin why /\ t \in told.echoed
    <3> HIDE DEF why
    <3> QED BY <1>3, <2>1, <2>3
  <2>5. PICK i \in Users(tab.msgs) : /\ tab.msgs[i].text = t
                                     /\ i # promote \/ ~tab.msgs[i].awaiting
    BY <2>4 DEF Kept
  <2>6. i # promote
    BY <1>2, <2>4, <2>5 DEF TakenBack
  <2> QED BY <1>2, <2>1, <2>2, <2>5, <2>6 DEF Kept, Users
<1> QED BY <1>4, <1>5, <1>6

LEMMA EchoedKept ==
    ASSUME EchoedInv, TypeInv, RefsInv, [Next]_vars
    PROVE  EchoedInv'
<1>1. PiInv /\ Whole(tab) /\ told \in History
  BY DEF TypeInv
<1>2. ASSUME UNCHANGED <<tab, promote, told>> PROVE EchoedInv'
  BY <1>2 DEF EchoedInv, Excused
<1>3. ASSUME Grows(tab, tab'), promote' = promote,
             told' = told \/ \E why \in SUBSET Lapses : told' = Lapse(why)
      PROVE  EchoedInv'
  <2>1. Remembers
    BY <1>1, <1>3, LapseRemembers DEF Remembers
  <2> QED BY <1>1, <1>3, <2>1, EchoedGrows
<1>4. CASE UNCHANGED vars
  BY <1>2, <1>4 DEF vars
<1>5. CASE \/ Runtime \/ TakeAbort
           \/ \E s \in Senders : TakePrompt(s) \/ TakeControl(s) \/ ProbeFailedPrompt(s)
  BY <1>2, <1>5, TypesOfPi
<1>6. CASE Receive
  <2> DEFINE e == Head(wire)
  <2>1. /\ e \in Events /\ Grows(tab, tab')
        /\ e.k \in {"start", "end"} =>
              \/ Settled(tab', e.t)
              \/ /\ Awaited(tab.msgs, e.t) = {} /\ MatchesLast(tab.msgs, e.t)
                 /\ tab.msgs[Latest(Users(tab.msgs))].text # e.t
        /\ told'.echoed = IF e.k = "end" THEN told.echoed \cup {e.t} ELSE told.echoed
        /\ told'.lapse = told.lapse \cup Mistaken(e)
    BY <1>1, <1>6, ReceiveIs
  <2>2. promote' = promote
    BY <1>6 DEF Receive
  <2> HIDE DEF e
  <2> SUFFICES ASSUME ~(told'.lapse \cap {"overlap", "rollback"} # {}), NEW t \in told'.echoed
               PROVE  Kept(tab', promote', t)
    BY DEF EchoedInv, Excused
  <2>3. CASE t \in told.echoed
    <3>1. Kept(tab, promote, t)
      BY <2>1, <2>3 DEF EchoedInv, Excused
    <3> QED BY <1>1, <2>1, <2>2, <3>1, KeptGrows
  <2>4. CASE e.k = "end" /\ t = e.t
    <3>1. Settled(tab', e.t)
      BY <2>1, <2>4 DEF Mistaken, Overlapped
    <3> QED BY <2>4, <3>1 DEF Settled, Kept
  <2> QED BY <2>1, <2>3, <2>4
<1>7. CASE Poll
  <2>1. Grows(tab, tab')
    BY <1>7, SteadyTab
  <2> QED BY <1>3, <1>7, <2>1, Excuses DEF Poll
<1>8. CASE SendPrompt
  BY <1>1, <1>8, SendPromptIs, EchoedGrows DEF AddsMessage
<1>9. CASE SendControl
  <2>1. Grows(tab, tab') /\ Remembers /\ promote' = promote
    BY <1>9, SendControlIs
  <2> QED BY <1>1, <2>1, EchoedGrows
<1>10. CASE Promote
  <2>1. Grows(tab, tab') /\ promote' = tab.next /\ promote = 0 /\ told' = told
    BY <1>10, PromoteIs DEF AddsMessage
  <2> SUFFICES ASSUME ~(told'.lapse \cap {"overlap", "rollback"} # {}), NEW t \in told'.echoed
               PROVE  Kept(tab', promote', t)
    BY DEF EchoedInv, Excused
  <2>2. Kept(tab, promote, t)
    BY <2>1 DEF EchoedInv, Excused
  <2>3. Kept(tab, tab.next, t)
    BY <1>1, <2>2, WholeParts DEF Kept
  <2> QED BY <1>1, <2>1, <2>3, KeptGrows
<1>11. CASE PromoteRefused \/ \E s \in Senders : RollBackControl(s) \/ SettleFailedPrompt(s)
  BY <1>11, EchoedTaken
<1>12. ASSUME NEW s \in Senders, AcceptPrompt(s) PROVE EchoedInv'
  <2>1. Grows(tab, tab')
    BY <1>12, SteadyTab
  <2>2. promote' = promote /\ \E why \in SUBSET Lapses : told' = Lapse(why)
    BY <1>12 DEF AcceptPrompt, Lapses
  <2> QED BY <1>3, <2>1, <2>2
<1>13. ASSUME NEW s \in Senders, AcceptControl(s) PROVE EchoedInv'
  <2>1. Grows(tab, tab')
    BY <1>13, SteadyTab
  <2> QED BY <1>3, <1>13, <2>1 DEF AcceptControl
<1>14. CASE Abort
  <2>1. Grows(tab, tab')
    BY <1>14, SteadyTab
  <2> QED BY <1>3, <1>14, <2>1 DEF Abort
<1>15. CASE AnswerAbort
  <2>1. Grows(tab, tab') /\ Remembers /\ promote' = promote
    BY <1>15, AnswerAbortIs DEF AddsMessage
  <2> QED BY <1>1, <2>1, EchoedGrows
<1>16. CASE Resume
  <2>1. (Grows(tab, tab') \/ tab' = tab) /\ promote' = promote /\ told' = told
    BY <1>16, ResumeIs
  <2>2. CASE tab' = tab
    BY <1>2, <2>1, <2>2
  <2>3. CASE Grows(tab, tab')
    BY <1>3, <2>1, <2>3
  <2> QED BY <2>1, <2>2, <2>3
<1> QED BY <1>4, <1>5, <1>6, <1>7, <1>8, <1>9, <1>10, <1>11, <1>12, <1>13, <1>14, <1>15,
           <1>16 DEF Next, Requests

\* A message the model was shown is in the transcript.
THEOREM DeliveredHolds == Spec => []DeliveredIsShown
<1> DEFINE I == TypeInv /\ RefsInv /\ EchoedInv
<1>1. Init => I
  <2> SUFFICES ASSUME Init PROVE I
    OBVIOUS
  <2>1. told.echoed = {}
    BY DEF Init
  <2> QED BY <2>1, Inits DEF EchoedInv
<1>2. I /\ [Next]_vars => I'
  <2>1. ASSUME I, [Next]_vars PROVE TypeInv' /\ RefsInv' /\ EchoedInv'
    BY <2>1, TypesKept, EchoedKept
  <2> QED BY <2>1
<1>3. I => DeliveredIsShown
  BY DEF EchoedInv, DeliveredIsShown, Kept, Shown
<1> QED BY <1>1, <1>2, <1>3, PTL DEF Spec

-----------------------------------------------------------------------------
\* ---- What the user said ----

LEMMA UsedOfPi ==
    ASSUME UsedInv, TypeInv, NEW new \in SUBSET told.used, NEW queued \in SUBSET new,
           PiMoves(new, queued), UNCHANGED <<tab, told>>, abort'.held = abort.held,
           \A s \in Senders : /\ prompts'[s].text = prompts[s].text
                              /\ prompts'[s].st = "none" <=> prompts[s].st = "none"
                              /\ controls'[s].text = controls[s].text
                              /\ controls'[s].st = "none" <=> controls[s].st = "none"
    PROVE  UsedInv'
<1>1. /\ Range(wire) \subseteq Range(wire')
      /\ \A e \in Range(wire') \ Range(wire) :
            /\ e.t \in PiHolds \cup new \cup {None}
            /\ Range(e.q) \subseteq Range(pi.followUp) \cup queued
  BY PiMovesWhole DEF TypeInv
<1>2. PiHolds' \subseteq PiHolds \cup new
      /\ Range(pi'.followUp) \subseteq Range(pi.followUp) \cup queued
  BY DEF PiMoves
<1>3. PiHolds' \subseteq told.used \cup {None} /\ Range(pi'.followUp) \subseteq told.used
  BY <1>2 DEF UsedInv
<1>4. ASSUME NEW e \in Range(wire')
      PROVE  e.t \in told.used \cup {None} /\ Range(e.q) \subseteq told.used
  <2>1. CASE e \in Range(wire)
    BY <2>1 DEF UsedInv
  <2>2. CASE e \notin Range(wire)
    BY <1>1, <2>2 DEF UsedInv
  <2> QED BY <2>1, <2>2
<1> QED BY <1>3, <1>4 DEF UsedInv

LEMMA UsedOfPage ==
    ASSUME UsedInv, Keeps(tab, tab'), told.used \subseteq told'.used,
           pi' = pi, Range(wire') \subseteq Range(wire),
           \A i \in Users(tab'.msgs) : i \in DOMAIN tab.msgs \/ tab'.msgs[i].text \in told'.used,
           Range(tab'.queue) \subseteq told'.used, Range(abort'.held) \subseteq told'.used,
           \A s \in Senders : \/ prompts'[s] = prompts[s] \/ prompts'[s].st = "none"
                              \/ prompts'[s].text \in told'.used,
           \A s \in Senders : \/ controls'[s] = controls[s] \/ controls'[s].st = "none"
                              \/ controls'[s].text \in told'.used
    PROVE  UsedInv'
<1>1. ASSUME NEW i \in Users(tab'.msgs) PROVE tab'.msgs[i].text \in told'.used
  <2>1. CASE i \in DOMAIN tab.msgs
    <3>1. tab'.msgs[i].text = tab.msgs[i].text /\ i \in Users(tab.msgs)
      BY <2>1 DEF Keeps, Users
    <3> QED BY <3>1 DEF UsedInv
  <2>2. CASE i \notin DOMAIN tab.msgs
    BY <2>2
  <2> QED BY <2>1, <2>2
<1>2. PiHolds' = PiHolds
  BY DEF PiHolds
<1> QED BY <1>1, <1>2 DEF UsedInv

\* Where the messages go that are shown by a step
LEMMA ShownWhere ==
    ASSUME Whole(tab), NEW t, AddsMessage(t)
    PROVE  \A i \in Users(tab'.msgs) : i \in DOMAIN tab.msgs \/ tab'.msgs[i].text = t
  BY DEF AddsMessage, Users

LEMMA TakesOf ==
    ASSUME TypeInv, RefsInv, UsedInv,
           Runtime \/ TakeAbort \/ (\E s \in Senders : \/ TakePrompt(s) \/ TakeControl(s)
                                                       \/ ProbeFailedPrompt(s))
    PROVE  \E new \in SUBSET told.used : \E queued \in SUBSET new :
              /\ PiMoves(new, queued)
              /\ UNCHANGED <<tab, promote, told>> /\ abort'.held = abort.held
              /\ \A t \in queued : \E s \in Senders :
                    /\ controls[s].st = "sent" /\ controls[s].mode = "follow_up"
                    /\ controls[s].text = t
              /\ \A s \in Senders : /\ prompts'[s].text = prompts[s].text
                                    /\ prompts'[s].st = "none" <=> prompts[s].st = "none"
                                    /\ controls'[s].text = controls[s].text
                                    /\ controls'[s].mode = controls[s].mode
                                    /\ controls'[s].st = "none" <=> controls[s].st = "none"
                                    /\ controls'[s].st = "sent" => controls[s].st = "sent"
<1>1. PiInv /\ prompts \in [Senders -> Prompts] /\ controls \in [Senders -> Controls]
      /\ abort \in Aborts
  BY DEF TypeInv
<1>2. {} \in SUBSET told.used /\ {} \in SUBSET {}
  OBVIOUS
<1>3. UNCHANGED <<tab, promote, told>>
  BY TypesOfPi
<1>4. CASE Runtime
  <2>1. PiMoves({}, {})
    BY <1>1, <1>4, PiRuns
  <2>2. UNCHANGED <<prompts, controls, abort>>
    BY <1>4 DEF Runtime, PiDelivers, PiReplies, PiRetries, PiSettles, Works
  <2> QED BY <1>2, <1>3, <2>1, <2>2
<1>5. CASE TakeAbort
  <2>1. PiMoves({}, {})
    BY <1>1, <1>5, PiStops
  <2>2. UNCHANGED <<prompts, controls>> /\ abort'.held = abort.held
    BY <1>1, <1>5 DEF TakeAbort, Aborts
  <2> QED BY <1>2, <1>3, <2>1, <2>2
<1>6. ASSUME NEW s \in Senders, TakePrompt(s)
      PROVE  \E new \in SUBSET told.used : PiMoves(new, {})
  <2> DEFINE t == prompts[s].text
  <2>1. t \in Texts /\ t \in told.used /\ {t} \in SUBSET told.used
    BY <1>6 DEF TakePrompt, RefsInv, UsedInv
  <2>2. Starts(t) \/ Holds("steer", t) \/ UNCHANGED <<pi, wire>>
    BY <1>6 DEF TakePrompt
  <2> HIDE DEF t
  <2>3. CASE Starts(t)
    BY <1>1, <2>1, <2>3, PiStarts
  <2>4. CASE Holds("steer", t)
    <3> DEFINE mode == "steer"
    <3>1. Holds(mode, t) /\ mode \in {"steer", "follow_up"} /\ mode # "follow_up"
      BY <2>4
    <3> HIDE DEF mode
    <3>2. PiMoves({t}, IF mode = "follow_up" THEN {t} ELSE {})
      BY <1>1, <2>1, <3>1, PiHoldsMore
    <3> QED BY <2>1, <3>1, <3>2
  <2>5. CASE UNCHANGED <<pi, wire>>
    BY <1>1, <1>2, <2>5, PiRests
  <2> QED BY <2>2, <2>3, <2>4, <2>5
<1>7. ASSUME NEW s \in Senders, TakePrompt(s)
      PROVE  /\ UNCHANGED <<controls, abort>>
             /\ \A r \in Senders : /\ prompts'[r].text = prompts[r].text
                                   /\ prompts'[r].st = "none" <=> prompts[r].st = "none"
  <2>1. /\ prompts[s].st = "sent" /\ UNCHANGED <<controls, abort>>
        /\ Prompted(s, "taken") \/ Prompted(s, "failed")
    BY <1>7 DEF TakePrompt
  <2>2. /\ prompts'[s].st \in {"taken", "failed"}
        /\ \A r \in Senders : /\ prompts'[r].text = prompts[r].text
                              /\ r # s => prompts'[r] = prompts[r]
    BY <1>1, <2>1, PromptedIs
  <2> QED BY <2>1, <2>2
<1>8. ASSUME NEW s \in Senders, TakeControl(s)
      PROVE  \E new \in SUBSET told.used : \E queued \in SUBSET new :
                /\ PiMoves(new, queued)
                /\ \A t \in queued : /\ controls[s].st = "sent" /\ controls[s].mode = "follow_up"
                                     /\ controls[s].text = t
  <2> DEFINE t == controls[s].text
             mode == controls[s].mode
  <2>1. /\ t \in Texts /\ t \in told.used /\ {t} \in SUBSET told.used /\ controls[s].st = "sent"
        /\ mode \in {"steer", "follow_up"}
    BY <1>1, <1>8 DEF TakeControl, RefsInv, UsedInv, Controls
  <2>2. Holds(mode, t) \/ UNCHANGED <<pi, wire>>
    BY <1>8 DEF TakeControl
  <2>3. CASE Holds(mode, t)
    <3>1. PiMoves({t}, IF mode = "follow_up" THEN {t} ELSE {})
      <4> HIDE DEF t, mode
      <4> QED BY <1>1, <2>1, <2>3, PiHoldsMore
    <3> QED BY <2>1, <3>1
  <2>4. CASE UNCHANGED <<pi, wire>>
    BY <1>1, <1>2, <2>4, PiRests
  <2> QED BY <2>2, <2>3, <2>4
<1>9. ASSUME NEW s \in Senders, TakeControl(s)
      PROVE  /\ UNCHANGED <<prompts, abort>>
             /\ \A r \in Senders : /\ controls'[r].text = controls[r].text
                                   /\ controls'[r].mode = controls[r].mode
                                   /\ controls'[r].st = "none" <=> controls[r].st = "none"
                                   /\ controls'[r].st = "sent" => controls[r].st = "sent"
  <2>1. /\ controls[s].st = "sent" /\ UNCHANGED <<prompts, abort>>
        /\ Controlled(s, "taken") \/ Controlled(s, "failed")
    BY <1>9 DEF TakeControl
  <2>2. /\ controls'[s].st \in {"taken", "failed"}
        /\ \A r \in Senders : /\ controls'[r].text = controls[r].text
                              /\ controls'[r].mode = controls[r].mode
                              /\ r # s => controls'[r] = controls[r]
    BY <1>1, <2>1, ControlledIs
  <2> QED BY <2>1, <2>2
<1>10. ASSUME NEW s \in Senders, ProbeFailedPrompt(s)
       PROVE  /\ PiMoves({}, {}) /\ UNCHANGED <<controls, abort>>
              /\ \A r \in Senders : /\ prompts'[r].text = prompts[r].text
                                    /\ prompts'[r].st = "none" <=> prompts[r].st = "none"
  <2>1. /\ prompts[s].st = "failed" /\ UNCHANGED <<pi, wire, controls, abort>>
        /\ Prompted(s, "active") \/ Prompted(s, "idle")
    BY <1>10 DEF ProbeFailedPrompt
  <2>2. /\ prompts'[s].st \in {"active", "idle"}
        /\ \A r \in Senders : /\ prompts'[r].text = prompts[r].text
                              /\ r # s => prompts'[r] = prompts[r]
    BY <1>1, <2>1, PromptedIs
  <2>3. PiMoves({}, {})
    BY <1>1, <2>1, PiRests
  <2> QED BY <2>1, <2>2, <2>3
<1>11. CASE \E s \in Senders : TakePrompt(s)
  BY <1>2, <1>3, <1>6, <1>7, <1>11
<1>12. CASE \E s \in Senders : TakeControl(s)
  BY <1>3, <1>8, <1>9, <1>12
<1>13. CASE \E s \in Senders : ProbeFailedPrompt(s)
  BY <1>2, <1>3, <1>10, <1>13
<1> QED BY <1>4, <1>5, <1>11, <1>12, <1>13

LEMMA UsedKept ==
    ASSUME UsedInv, TypeInv, RefsInv, [Next]_vars
    PROVE  UsedInv'
<1>1. PiInv /\ Whole(tab) /\ told \in History /\ abort \in Aborts
      /\ prompts \in [Senders -> Prompts] /\ controls \in [Senders -> Controls]
  BY DEF TypeInv
<1>2. /\ Range(tab.queue) \subseteq told.used /\ Range(abort.held) \subseteq told.used
      /\ \A i \in DOMAIN abort.held : abort.held[i] \in told.used
      /\ \A i \in DOMAIN tab.queue : tab.queue[i] \in told.used
  BY DEF UsedInv, Range
<1>3. ASSUME Grows(tab, tab'), Users(tab'.msgs) = Users(tab.msgs)
      PROVE  /\ Keeps(tab, tab')
             /\ \A i \in Users(tab'.msgs) : i \in DOMAIN tab.msgs
  BY <1>1, <1>3, GrowsKeeps DEF Users
<1>4. ASSUME NEW t, AddsMessage(t)
      PROVE  /\ Keeps(tab, tab')
             /\ \A i \in Users(tab'.msgs) : i \in DOMAIN tab.msgs \/ tab'.msgs[i].text = t
  BY <1>1, <1>4, GrowsKeeps, ShownWhere DEF AddsMessage
<1>5. ASSUME NEW i, NEW j,
             \/ tab' = [tab EXCEPT !.msgs = Without(@, i)]
             \/ tab' = [tab EXCEPT !.msgs = Without(@, i), !.queue = Without(@, j)]
             \/ tab' = [SettleTurn(tab) EXCEPT !.msgs = Without(@, i)]
      PROVE  /\ Keeps(tab, tab') /\ Range(tab'.queue) \subseteq Range(tab.queue)
             /\ \A k \in Users(tab'.msgs) : k \in DOMAIN tab.msgs
  <2>1. /\ Keeps(tab, tab') /\ DOMAIN tab'.msgs = DOMAIN tab.msgs \ {i} /\ Queues(tab, tab')
    BY <1>1, <1>5, TakenTab
  <2> QED BY <2>1, QueuesRange DEF Users
<1>6. ASSUME told' = told \/ \E why \in SUBSET Lapses : told' = Lapse(why)
      PROVE  told'.used = told.used
  BY <1>1, <1>6, LapseIs
<1>7. CASE UNCHANGED vars
  BY <1>7 DEF vars, UsedInv, PiHolds
<1>8. CASE \/ Runtime \/ TakeAbort
           \/ \E s \in Senders : TakePrompt(s) \/ TakeControl(s) \/ ProbeFailedPrompt(s)
  BY <1>8, TakesOf, UsedOfPi
<1>9. CASE Receive
  <2> DEFINE e == Head(wire)
  <2>1. /\ Range(wire) = {e} \cup Range(wire')
        /\ Grows(tab, tab') /\ Range(tab'.queue) \subseteq Range(tab.queue) \cup Range(e.q)
        /\ \/ Users(tab'.msgs) = Users(tab.msgs)
           \/ /\ e.k \in {"start", "end"}
              /\ Users(tab'.msgs) = Users(tab.msgs) \cup {tab.next}
              /\ tab'.msgs[tab.next].text = e.t
        /\ told'.used = told.used /\ PiInv
        /\ e.k \in {"start", "end"} => e.t \in Texts
    BY <1>1, <1>9, ReceiveIs DEF PiInv, Sound
  <2>2. UNCHANGED <<pi, prompts, controls, promote, abort>>
    BY <1>9 DEF Receive
  <2>3. e.t \in told.used \cup {None} /\ Range(e.q) \subseteq told.used
    BY <2>1 DEF UsedInv
  <2>4. /\ Keeps(tab, tab')
        /\ \A i \in Users(tab'.msgs) : i \in DOMAIN tab.msgs \/ tab'.msgs[i].text \in told'.used
    <3>1. CASE Users(tab'.msgs) = Users(tab.msgs)
      BY <1>3, <2>1, <3>1
    <3>2. CASE /\ e.k \in {"start", "end"}
               /\ Users(tab'.msgs) = Users(tab.msgs) \cup {tab.next}
               /\ tab'.msgs[tab.next].text = e.t
      <4>1. e.t \in told.used
        BY <2>1, <2>3, <3>2, TextsAssumption
      <4>2. AddsMessage(e.t)
        BY <2>1, <3>2 DEF AddsMessage
      <4> HIDE DEF e
      <4> QED BY <1>4, <2>1, <4>1, <4>2
    <3> QED BY <2>1, <3>1, <3>2
  <2>5. Range(tab'.queue) \subseteq told'.used
    BY <1>2, <2>1, <2>3
  <2> HIDE DEF e
  <2> QED BY <1>2, <2>1, <2>2, <2>4, <2>5, UsedOfPage
<1>10. ASSUME \/ Poll \/ Abort
              \/ \E s \in Senders : AcceptPrompt(s) \/ AcceptControl(s)
       PROVE  UsedInv'
  <2>1. tab'.queue = tab.queue /\ Keeps(tab, tab')
        /\ \A i \in Users(tab'.msgs) : i \in DOMAIN tab.msgs
    <3>1. /\ tab'.msgs = tab.msgs /\ tab'.queue = tab.queue /\ Grows(tab, tab')
      BY <1>10, SteadyTab
    <3> QED BY <1>3, <3>1
  <2>2. pi' = pi /\ wire' = wire
    BY <1>10 DEF Poll, Abort, AcceptPrompt, AcceptControl
  <2>3. told' = told \/ \E why \in SUBSET Lapses : told' = Lapse(why)
    BY <1>10, Excuses DEF Poll, Abort, AcceptPrompt, AcceptControl, Lapses
  <2>4. abort'.held = abort.held \/ abort'.held = tab.queue
    <3>1. CASE Abort
      BY <3>1 DEF Abort
    <3>2. CASE Poll \/ \E s \in Senders : AcceptPrompt(s) \/ AcceptControl(s)
      BY <3>2 DEF Poll, AcceptPrompt, AcceptControl
    <3> QED BY <1>10, <3>1, <3>2
  <2>5. \A s \in Senders : prompts'[s] = prompts[s] \/ prompts'[s].st = "none"
    BY <1>1, <1>10, NoRequests DEF Poll, Abort, AcceptPrompt, AcceptControl
  <2>6. \A s \in Senders : controls'[s] = controls[s] \/ controls'[s].st = "none"
    BY <1>1, <1>10, NoRequests DEF Poll, Abort, AcceptPrompt, AcceptControl
  <2> QED BY <1>2, <1>6, <2>1, <2>2, <2>3, <2>4, <2>5, <2>6, UsedOfPage
<1>11. CASE SendPrompt
  <2>1. PICK t \in Fresh :
           /\ AddsMessage(t) /\ tab'.queue = tab.queue
           /\ \A s \in Senders : prompts'[s] = prompts[s] \/ prompts'[s].text = t
           /\ told'.used = told.used \cup {t}
           /\ UNCHANGED <<pi, wire, controls, promote, abort>>
    BY <1>11, SendPromptIs
  <2> QED BY <1>2, <1>4, <2>1, UsedOfPage
<1>12. CASE SendControl
  <2>1. PICK mode \in {"steer", "follow_up"}, t \in Fresh :
           /\ Grows(tab, tab')
           /\ mode = "steer" => AddsMessage(t) /\ tab'.queue = tab.queue
           /\ mode = "follow_up" => /\ Users(tab'.msgs) = Users(tab.msgs)
                                    /\ Range(tab'.queue) \subseteq Range(tab.queue) \cup {t}
           /\ \A s \in Senders : controls'[s] = controls[s] \/ controls'[s].text = t
           /\ told'.used = told.used \cup {t}
           /\ UNCHANGED <<pi, wire, prompts, promote, abort>>
    BY <1>12, SendControlIs
  <2>2. CASE mode = "steer"
    BY <1>2, <1>4, <2>1, <2>2, UsedOfPage
  <2>3. CASE mode = "follow_up"
    BY <1>2, <1>3, <2>1, <2>3, UsedOfPage
  <2> QED BY <2>2, <2>3
<1>13. CASE Promote
  <2>1. PICK i \in DOMAIN tab.queue : AddsMessage(tab.queue[i])
    BY <1>13, PromoteIs
  <2>2. tab'.queue = tab.queue /\ UNCHANGED <<pi, wire, prompts, controls, abort, told>>
    BY <1>13, PromoteIs
  <2> DEFINE t == tab.queue[i]
  <2>3. AddsMessage(t) /\ t \in told.used
    <3>1. t \in told.used
      <4>1. i \in DOMAIN tab.queue
        BY <2>1
      <4>2. tab.queue[i] \in Range(tab.queue)
        BY <4>1 DEF Range
      <4> QED BY <1>2, <4>2
    <3>2. AddsMessage(t)
      BY <2>1, Zenon
    <3> QED BY <3>1, <3>2
  <2> HIDE DEF t
  <2>4. Keeps(tab, tab')
        /\ \A k \in Users(tab'.msgs) : k \in DOMAIN tab.msgs \/ tab'.msgs[k].text = t
    BY <1>4, <2>3
  <2> QED BY <1>2, <2>2, <2>3, <2>4, UsedOfPage
<1>14. ASSUME \/ PromoteRefused
              \/ \E s \in Senders : RollBackControl(s) \/ SettleFailedPrompt(s)
       PROVE  UsedInv'
  <2>1. \/ tab' = tab
        \/ \E i, j : \/ tab' = [tab EXCEPT !.msgs = Without(@, i)]
                     \/ tab' = [tab EXCEPT !.msgs = Without(@, i), !.queue = Without(@, j)]
                     \/ tab' = [SettleTurn(tab) EXCEPT !.msgs = Without(@, i)]
    BY <1>14 DEF PromoteRefused, RollBackControl, SettleFailedPrompt
  <2>2. /\ Keeps(tab, tab') /\ Range(tab'.queue) \subseteq Range(tab.queue)
        /\ \A k \in Users(tab'.msgs) : k \in DOMAIN tab.msgs
    <3>1. CASE tab' = tab
      BY <1>1, <3>1, WholeParts DEF Keeps, Users
    <3> QED BY <1>5, <2>1, <3>1
  <2>3. UNCHANGED <<pi, wire, abort>>
    BY <1>14 DEF PromoteRefused, RollBackControl, SettleFailedPrompt
  <2>4. told' = told \/ \E why \in SUBSET Lapses : told' = Lapse(why)
    BY <1>14, Excuses DEF PromoteRefused, RollBackControl, SettleFailedPrompt
  <2>5. \A s \in Senders : prompts'[s] = prompts[s] \/ prompts'[s].st = "none"
    BY <1>1, <1>14, NoRequests DEF PromoteRefused, RollBackControl, SettleFailedPrompt
  <2>6. \A s \in Senders : controls'[s] = controls[s] \/ controls'[s].st = "none"
    BY <1>1, <1>14, NoRequests DEF PromoteRefused, RollBackControl, SettleFailedPrompt
  <2> QED BY <1>2, <1>6, <2>2, <2>3, <2>4, <2>5, <2>6, UsedOfPage
<1>15. CASE AnswerAbort
  <2>1. told'.used = told.used /\ UNCHANGED <<pi, wire, controls, promote>>
    BY <1>15, AnswerAbortIs
  <2>2. CASE /\ Grows(tab, tab') /\ tab'.msgs = tab.msgs /\ tab'.queue = tab.queue
             /\ abort' = NoAbort /\ UNCHANGED prompts
    <3>1. Range(abort'.held) = {}
      BY <2>2, NoRequests, NothingIsList DEF Range
    <3> QED BY <1>2, <1>3, <2>1, <2>2, <3>1, UsedOfPage
  <2>3. CASE \E i \in DOMAIN abort.held :
                /\ AddsMessage(abort.held[i]) /\ tab'.queue = Nothing
                /\ \A s \in Senders : prompts'[s] = prompts[s]
                                      \/ prompts'[s].text = abort.held[i]
                /\ abort'.held = Without(abort.held, i)
    <3>1. PICK i \in DOMAIN abort.held :
                /\ AddsMessage(abort.held[i]) /\ tab'.queue = Nothing
                /\ \A s \in Senders : prompts'[s] = prompts[s]
                                      \/ prompts'[s].text = abort.held[i]
                /\ abort'.held = Without(abort.held, i)
      BY <2>3
    <3>2. Range(abort'.held) \subseteq Range(abort.held) /\ Range(tab'.queue) = {}
      BY <3>1, NothingIsList DEF Range, Without
    <3> QED BY <1>2, <1>4, <2>1, <3>1, <3>2, UsedOfPage
  <2> QED BY <1>15, <2>2, <2>3, AnswerAbortIs
<1>16. CASE Resume
  <2>1. UNCHANGED <<pi, wire, prompts, promote, told>>
    BY <1>16, ResumeIs
  <2>2. CASE abort' = NoAbort /\ UNCHANGED <<tab, controls>>
    <3>1. Range(abort'.held) = {}
      BY <2>2, NoRequests, NothingIsList DEF Range
    <3>2. Keeps(tab, tab') /\ \A k \in Users(tab'.msgs) : k \in DOMAIN tab.msgs
      BY <1>1, <2>2, WholeParts DEF Keeps, Users
    <3> QED BY <1>2, <2>1, <2>2, <3>1, <3>2, UsedOfPage
  <2>3. CASE \E i \in DOMAIN abort.held :
                /\ Grows(tab, tab') /\ Users(tab'.msgs) = Users(tab.msgs)
                /\ Range(tab'.queue) \subseteq Range(tab.queue) \cup {abort.held[i]}
                /\ \A s \in Senders : controls'[s] = controls[s]
                                      \/ controls'[s].text = abort.held[i]
                /\ Range(abort'.held) \subseteq Range(abort.held)
    BY <1>2, <1>3, <2>1, <2>3, UsedOfPage
  <2> QED BY <1>16, <2>2, <2>3, ResumeIs
<1> QED BY <1>7, <1>8, <1>9, <1>10, <1>11, <1>12, <1>13, <1>14, <1>15, <1>16
        DEF Next, Requests

-----------------------------------------------------------------------------
\* ---- What is shown once ----

\* The messages of a text that are not shown by a promotion, p
Own(c, p, t) == {i \in Users(c.msgs) : c.msgs[i].text = t /\ i # p}

\* The model was shown the text, or the stream still says so.
Heard(t) == t \in told.echoed \/ \E e \in Range(wire) : e.k = "end" /\ e.t = t

\* The text is a follow-up that is shown as such, held, or on its way.
Waits(t) == \/ t \in Range(tab.queue) \/ t \in Range(abort.held) \/ t \in Range(pi.followUp)
            \/ \E e \in Range(wire) : t \in Range(e.q)
            \/ \E s \in Senders : /\ controls[s].st = "sent" /\ controls[s].mode = "follow_up"
                                  /\ controls[s].text = t

\* A follow-up is not shown as a message before the model was shown it.
WaitsInv == ~Excused({"resent"}) =>
    \A t : Own(tab, promote, t) # {} /\ Waits(t) => Heard(t)

OnceInv == ~Excused({"crossed", "outlived", "resent"}) =>
    \A t : \A i, j \in Own(tab, promote, t) : i = j

\* A steer that pi has yet to show waits with its marker for the echo, or the echo is half done.
Halved(t) == wire # <<>> /\ wire[1].k = "end" /\ wire[1].t = t
MarkedInv == ~Excused({"outlived"}) =>
    \A t \in told.steers \ told.echoed : \A i \in Own(tab, promote, t) :
        tab.msgs[i].awaiting \/ Halved(t) \/ ~Owed(t)

\* No text that was said, or is shown, comes to wait.
WaitsLess == \A t : t \in told.used \/ Own(tab', promote', t) # {} => (Waits(t)' => Waits(t))

LEMMA OnceMore ==
    ASSUME WaitsInv, OnceInv, told.lapse \subseteq told'.lapse, NEW u,
           \A t : Heard(t) => Heard(t)',
           \A t : t # u => /\ Own(tab', promote', t) \subseteq Own(tab, promote, t)
                           /\ Waits(t)' => Waits(t),
           told'.lapse \cap {"resent"} = {} =>
               (Own(tab', promote', u) # {} /\ Waits(u)' => Heard(u)'),
           told'.lapse \cap {"crossed", "outlived", "resent"} = {} =>
               \A i, j \in Own(tab', promote', u) : i = j
    PROVE  WaitsInv' /\ OnceInv'
<1>1. ASSUME told'.lapse \cap {"resent"} = {}, NEW t, Own(tab', promote', t) # {}, Waits(t)'
      PROVE  Heard(t)'
  <2>1. CASE t = u
    BY <1>1, <2>1
  <2>2. CASE t # u
    <3>1. Own(tab, promote, t) # {} /\ Waits(t)
      BY <1>1, <2>2
    <3>2. ~Excused({"resent"})
      BY <1>1 DEF Excused
    <3> QED BY <3>1, <3>2 DEF WaitsInv
  <2> QED BY <2>1, <2>2
<1>2. ASSUME told'.lapse \cap {"crossed", "outlived", "resent"} = {}, NEW t,
             NEW i \in Own(tab', promote', t), NEW j \in Own(tab', promote', t)
      PROVE  i = j
  <2>1. CASE t = u
    BY <1>2, <2>1
  <2>2. CASE t # u
    <3>1. i \in Own(tab, promote, t) /\ j \in Own(tab, promote, t)
      BY <1>2, <2>2
    <3>2. ~Excused({"crossed", "outlived", "resent"})
      BY <1>2 DEF Excused
    <3> QED BY <3>1, <3>2 DEF OnceInv
  <2> QED BY <2>1, <2>2
<1>3. WaitsInv'
  BY <1>1 DEF WaitsInv, Excused
<1>4. OnceInv'
  BY <1>2 DEF OnceInv, Excused
<1> QED BY <1>3, <1>4

LEMMA OnceStays ==
    ASSUME WaitsInv, OnceInv, told.lapse \subseteq told'.lapse,
           \A t : Heard(t) => Heard(t)',
           \A t : Own(tab', promote', t) \subseteq Own(tab, promote, t),
           \A t : Waits(t)' => Waits(t)
    PROVE  WaitsInv' /\ OnceInv' /\ WaitsLess
<1>1. ASSUME told'.lapse \cap {"resent"} = {}, NEW t, Own(tab', promote', t) # {}, Waits(t)'
      PROVE  Heard(t)'
  <2>1. ~Excused({"resent"})
    BY <1>1 DEF Excused
  <2> QED BY <1>1, <2>1 DEF WaitsInv
<1>2. ASSUME told'.lapse \cap {"crossed", "outlived", "resent"} = {}, NEW t,
             NEW i \in Own(tab', promote', t), NEW j \in Own(tab', promote', t)
      PROVE  i = j
  <2>1. ~Excused({"crossed", "outlived", "resent"})
    BY <1>2 DEF Excused
  <2> QED BY <1>2, <2>1 DEF OnceInv
<1>3. WaitsInv'
  BY <1>1 DEF WaitsInv, Excused
<1>4. OnceInv'
  BY <1>2 DEF OnceInv, Excused
<1>5. WaitsLess
  BY DEF WaitsLess
<1> QED BY <1>3, <1>4, <1>5

\* No message is shown that was not, a message is shown, and messages are taken back.
LEMMA OwnSame ==
    ASSUME NEW c, Whole(c), NEW d, Grows(c, d), Users(d.msgs) = Users(c.msgs), NEW p
    PROVE  \A t : Own(d, p, t) = Own(c, p, t)
  BY DEF Grows, Own, Users

LEMMA OwnMore ==
    ASSUME Whole(tab), NEW u, AddsMessage(u), NEW p
    PROVE  /\ \A t : t # u => Own(tab', p, t) = Own(tab, p, t)
           /\ Own(tab', p, u) \subseteq Own(tab, p, u) \cup {tab.next}
           /\ \A t : Own(tab', tab.next, t) = Own(tab, tab.next, t)
<1>1. \A i \in Users(tab.msgs) : tab'.msgs[i].text = tab.msgs[i].text /\ i # tab.next
  BY WholeParts DEF AddsMessage, Grows, Users
<1> QED BY <1>1 DEF Own, AddsMessage

LEMMA OwnLess ==
    ASSUME NEW c, NEW d, Keeps(c, d), DOMAIN d.msgs \subseteq DOMAIN c.msgs, NEW p
    PROVE  \A t : Own(d, p, t) \subseteq Own(c, p, t)
  BY DEF Keeps, Own, Users

\* Texts nobody has said are nowhere.
LEMMA FreshIsNowhere ==
    ASSUME UsedInv, NEW t \in Fresh
    PROVE  Own(tab, promote, t) = {} /\ ~Waits(t)
<1>1. t \notin told.used
  BY DEF Fresh
<1>2. Own(tab, promote, t) = {}
  BY <1>1 DEF Own, UsedInv
<1>3. ~Waits(t)
  BY <1>1 DEF Waits, UsedInv
<1> QED BY <1>2, <1>3

\* A follow-up that is sent again as a prompt was neither shown nor is it waiting elsewhere.
LEMMA SentAgainIs ==
    ASSUME PiInv, NEW i \in DOMAIN abort.held, SentAgain = {}, NEW t, t = abort.held[i]
    PROVE  /\ ~Heard(t)
           /\ t \notin Range(Without(abort.held, i)) /\ t \notin Range(pi.followUp)
           /\ \A e \in Range(wire) : t \notin Range(e.q)
           /\ \A s \in Senders : ~(controls[s].st = "sent" /\ controls[s].text = t)
<1>1. /\ TakenBack(t) = {}
      /\ \A s \in Senders : ~(controls[s].st = "sent" /\ controls[s].text = t)
      /\ \A j \in DOMAIN abort.held \ {i} : abort.held[j] # t
  BY DEF SentAgain
<1>2. t \notin told.echoed /\ ~InFlight(t)
  BY <1>1 DEF TakenBack
<1>3. /\ t \notin Range(pi.followUp)
      /\ \A e \in Range(wire) : e.t # t /\ t \notin Range(e.q)
  BY <1>2 DEF InFlight
<1>4. t \notin Range(Without(abort.held, i))
  BY <1>1 DEF Range, Without
<1> QED BY <1>1, <1>2, <1>3, <1>4 DEF Heard

LEMMA OnceReceived ==
    ASSUME WaitsInv, OnceInv, MarkedInv, TypeInv, RefsInv, Receive
    PROVE  WaitsInv' /\ OnceInv' /\ WaitsLess
<1>1. PiInv /\ Whole(tab) /\ told \in History
  BY DEF TypeInv
<1> DEFINE e == Head(wire)
<1>2. /\ Range(wire) = {e} \cup Range(wire')
      /\ e.k = "start" => \E f \in Range(wire') : f.k = "end" /\ f.t = e.t
      /\ Grows(tab, tab') /\ Range(tab'.queue) \subseteq Range(tab.queue) \cup Range(e.q)
      /\ \/ Users(tab'.msgs) = Users(tab.msgs)
         \/ /\ e.k \in {"start", "end"} /\ Unmatched(tab, e.t)
            /\ Users(tab'.msgs) = Users(tab.msgs) \cup {tab.next}
            /\ tab'.msgs[tab.next].text = e.t
      /\ told'.echoed = IF e.k = "end" THEN told.echoed \cup {e.t} ELSE told.echoed
      /\ told'.lapse = told.lapse \cup Mistaken(e)
  BY <1>1, ReceiveIs
<1>3. UNCHANGED <<pi, prompts, controls, promote, abort>>
  BY DEF Receive
<1> HIDE DEF e
<1>4. told.lapse \subseteq told'.lapse
  BY <1>2
<1>5. ASSUME NEW t, Heard(t) PROVE Heard(t)'
  BY <1>2, <1>5 DEF Heard
<1>6. ASSUME NEW t, Waits(t)' PROVE Waits(t)
  <2>1. CASE t \in Range(tab'.queue)
    BY <1>2, <2>1 DEF Waits
  <2>2. CASE t \in Range(abort'.held) \/ t \in Range(pi'.followUp)
    BY <1>3, <2>2 DEF Waits
  <2>3. CASE \E f \in Range(wire') : t \in Range(f.q)
    BY <1>2, <2>3 DEF Waits
  <2>4. CASE \E s \in Senders : /\ controls'[s].st = "sent" /\ controls'[s].mode = "follow_up"
                                /\ controls'[s].text = t
    BY <1>3, <2>4 DEF Waits
  <2> QED BY <1>6, <2>1, <2>2, <2>3, <2>4 DEF Waits
<1>7. CASE Users(tab'.msgs) = Users(tab.msgs)
  <2>1. \A t : Own(tab', promote', t) = Own(tab, promote, t)
    BY <1>1, <1>2, <1>3, <1>7, OwnSame
  <2> QED BY <1>4, <1>5, <1>6, <2>1, OnceStays
<1>8. CASE /\ e.k \in {"start", "end"} /\ Unmatched(tab, e.t)
           /\ Users(tab'.msgs) = Users(tab.msgs) \cup {tab.next}
           /\ tab'.msgs[tab.next].text = e.t
  <2>0. PICK u : u = e.t
    OBVIOUS
  <2>1. AddsMessage(u)
    BY <1>2, <1>8, <2>0 DEF AddsMessage
  <2>2. Heard(u)'
    BY <1>2, <1>8, <2>0 DEF Heard
  <2>3. \/ told'.lapse \cap {"crossed", "outlived"} # {}
        \/ Own(tab, promote, u) = {}
    <3> SUFFICES ASSUME told'.lapse \cap {"crossed", "outlived"} = {},
                        NEW i \in Own(tab, promote, u)
                 PROVE  FALSE
      OBVIOUS
    <3>1. /\ i \in Users(tab.msgs) /\ tab.msgs[i].text = u /\ i \in Shown(u)
          /\ Users(tab.msgs) # {} /\ Awaited(tab.msgs, u) = {} /\ ~MatchesLast(tab.msgs, u)
      BY <1>8, <2>0 DEF Own, Shown, Unmatched
    <3>2. tab.msgs[Latest(Users(tab.msgs))].text # u
      BY <3>1 DEF MatchesLast, Alike
    <3>3. "crossed" \notin Crossed(e)
      BY <1>2 DEF Mistaken
    <3>4. e.k = "start" /\ u \in told.steers \ told.echoed
      BY <1>8, <2>0, <3>1, <3>2, <3>3 DEF Crossed
    <3>5. Owed(u)
      BY <1>2, <2>0, <3>4 DEF Owed
    <3>6. ~Halved(u)
      BY <3>4 DEF Halved, e
    <3>7. ~Excused({"outlived"})
      BY <1>2 DEF Excused
    <3>8. tab.msgs[i].awaiting
      BY <3>4, <3>5, <3>6, <3>7 DEF MarkedInv
    <3> QED BY <3>1, <3>8 DEF Awaited
  <2>4. /\ \A t : t # u => Own(tab', promote', t) = Own(tab, promote, t)
        /\ Own(tab', promote', u) \subseteq Own(tab, promote, u) \cup {tab.next}
    BY <1>1, <1>3, <2>1, OwnMore
  <2>5. told'.lapse \cap {"crossed", "outlived", "resent"} = {} =>
            \A i, j \in Own(tab', promote', u) : i = j
    BY <2>3, <2>4
  <2>6. told'.lapse \cap {"resent"} = {} =>
            (Own(tab', promote', u) # {} /\ Waits(u)' => Heard(u)')
    BY <2>2
  <2>7. \A t : t # u => /\ Own(tab', promote', t) \subseteq Own(tab, promote, t)
                        /\ Waits(t)' => Waits(t)
    BY <1>6, <2>4
  <2>8. WaitsLess
    BY <1>6 DEF WaitsLess
  <2> QED BY <1>4, <1>5, <2>5, <2>6, <2>7, <2>8, OnceMore
<1> QED BY <1>2, <1>7, <1>8

\* The messages stay as they are and no more follow-ups wait.
LEMMA OnceSteady ==
    ASSUME WaitsInv, OnceInv, TypeInv, told.lapse \subseteq told'.lapse,
           told'.echoed = told.echoed, pi' = pi, wire' = wire,
           \A t : Own(tab', promote', t) \subseteq Own(tab, promote, t),
           Range(tab'.queue) \subseteq Range(tab.queue) \cup Range(abort.held),
           Range(abort'.held) \subseteq Range(tab.queue) \cup Range(abort.held),
           \A s \in Senders : \/ controls'[s] = controls[s] \/ controls'[s].st = "none"
                              \/ controls'[s].text \in Range(abort.held)
    PROVE  WaitsInv' /\ OnceInv' /\ WaitsLess
<1>1. ASSUME NEW t, Heard(t) PROVE Heard(t)'
  BY <1>1 DEF Heard
<1>2. ASSUME NEW t, Waits(t)' PROVE Waits(t)
  BY <1>2 DEF Waits
<1> QED BY <1>1, <1>2, OnceStays

LEMMA OnceOfPi ==
    ASSUME WaitsInv, OnceInv, TypeInv, RefsInv, UsedInv,
           Runtime \/ TakeAbort \/ (\E s \in Senders : \/ TakePrompt(s) \/ TakeControl(s)
                                                       \/ ProbeFailedPrompt(s))
    PROVE  WaitsInv' /\ OnceInv' /\ WaitsLess
<1>1. PICK new \in SUBSET told.used : \E queued \in SUBSET new :
              /\ PiMoves(new, queued)
              /\ UNCHANGED <<tab, promote, told>> /\ abort'.held = abort.held
              /\ \A t \in queued : \E s \in Senders :
                    /\ controls[s].st = "sent" /\ controls[s].mode = "follow_up"
                    /\ controls[s].text = t
              /\ \A s \in Senders : /\ controls'[s].text = controls[s].text
                                    /\ controls'[s].mode = controls[s].mode
                                    /\ controls'[s].st = "sent" => controls[s].st = "sent"
  BY TakesOf
<1>2. PICK queued \in SUBSET new :
              /\ PiMoves(new, queued)
              /\ UNCHANGED <<tab, promote, told>> /\ abort'.held = abort.held
              /\ \A t \in queued : \E s \in Senders :
                    /\ controls[s].st = "sent" /\ controls[s].mode = "follow_up"
                    /\ controls[s].text = t
              /\ \A s \in Senders : /\ controls'[s].text = controls[s].text
                                    /\ controls'[s].mode = controls[s].mode
                                    /\ controls'[s].st = "sent" => controls[s].st = "sent"
  BY <1>1
<1>3. /\ Range(wire) \subseteq Range(wire')
      /\ \A e \in Range(wire') \ Range(wire) : Range(e.q) \subseteq Range(pi.followUp) \cup queued
      /\ Range(pi'.followUp) \subseteq Range(pi.followUp) \cup queued
  BY <1>2, PiMovesWhole DEF TypeInv, PiMoves
<1>4. ASSUME NEW t, Heard(t) PROVE Heard(t)'
  BY <1>2, <1>3, <1>4 DEF Heard
<1>5. ASSUME NEW t, Waits(t)' PROVE Waits(t)
  <2>1. \A x \in queued : Waits(x)
    BY <1>2 DEF Waits
  <2>2. CASE t \in Range(tab'.queue) \/ t \in Range(abort'.held)
    BY <1>2, <2>2 DEF Waits
  <2>3. CASE t \in Range(pi'.followUp)
    BY <1>3, <2>1, <2>3 DEF Waits
  <2>4. CASE \E e \in Range(wire') : t \in Range(e.q)
    <3>1. PICK e \in Range(wire') : t \in Range(e.q)
      BY <2>4
    <3>2. CASE e \in Range(wire)
      BY <3>1, <3>2 DEF Waits
    <3>3. CASE e \notin Range(wire)
      <4>1. t \in Range(pi.followUp) \/ t \in queued
        BY <1>3, <3>1, <3>3
      <4> QED BY <2>1, <4>1 DEF Waits
    <3> QED BY <3>2, <3>3
  <2>5. CASE \E s \in Senders : /\ controls'[s].st = "sent" /\ controls'[s].mode = "follow_up"
                                /\ controls'[s].text = t
    BY <1>2, <2>5 DEF Waits
  <2> QED BY <1>5, <2>2, <2>3, <2>4, <2>5 DEF Waits
<1>6. told.lapse \subseteq told'.lapse /\ \A t : Own(tab', promote', t) = Own(tab, promote, t)
  BY <1>2
<1> QED BY <1>4, <1>5, <1>6, OnceStays

LEMMA OnceAborted ==
    ASSUME WaitsInv, OnceInv, TypeInv, RefsInv, AnswerAbort
    PROVE  WaitsInv' /\ OnceInv' /\ WaitsLess
<1>1. Whole(tab) /\ PiInv /\ abort \in Aborts
  BY DEF TypeInv
<1>2. /\ told.lapse \subseteq told'.lapse /\ told'.echoed = told.echoed
      /\ UNCHANGED <<pi, wire, controls, promote>>
  BY AnswerAbortIs DEF Remembers
<1>3. CASE /\ Grows(tab, tab') /\ tab'.msgs = tab.msgs /\ tab'.queue = tab.queue
           /\ abort' = NoAbort
  <2>1. \A t : Own(tab', promote', t) = Own(tab, promote, t)
    BY <1>2, <1>3 DEF Own
  <2>2. Range(abort'.held) = {}
    BY <1>3, NoRequests, NothingIsList DEF Range
  <2> QED BY <1>2, <1>3, <2>1, <2>2, OnceSteady
<1>4. CASE \E i \in DOMAIN abort.held :
              /\ AddsMessage(abort.held[i]) /\ tab'.queue = Nothing
              /\ abort'.held = Without(abort.held, i) /\ SentAgain \subseteq told'.lapse
  <2>1. PICK i \in DOMAIN abort.held :
              /\ AddsMessage(abort.held[i]) /\ tab'.queue = Nothing
              /\ abort'.held = Without(abort.held, i) /\ SentAgain \subseteq told'.lapse
    BY <1>4
  <2>0. PICK u : u = abort.held[i]
    OBVIOUS
  <2>2. AddsMessage(u) /\ u = abort.held[i]
    BY <2>0, <2>1
  <2>3. /\ \A t : t # u => Own(tab', promote', t) = Own(tab, promote, t)
        /\ Own(tab', promote', u) \subseteq Own(tab, promote, u) \cup {tab.next}
    BY <1>1, <1>2, <2>2, OwnMore
  <2>4. Waits(u)
    BY <2>1, <2>2 DEF Waits, Range
  <2>5. ASSUME told'.lapse \cap {"resent"} = {}
        PROVE  /\ ~Heard(u)
               /\ u \notin Range(Without(abort.held, i)) /\ u \notin Range(pi.followUp)
               /\ \A e \in Range(wire) : u \notin Range(e.q)
               /\ \A s \in Senders : ~(controls[s].st = "sent" /\ controls[s].text = u)
    <3>1. SentAgain = {}
      BY <2>1, <2>5 DEF SentAgain
    <3> QED BY <1>1, <2>1, <2>2, <3>1, SentAgainIs
  <2>6. Range(tab'.queue) = {} /\ Range(abort'.held) \subseteq Range(abort.held)
    BY <2>1, NothingIsList DEF Range, Without
  <2>7. ASSUME told'.lapse \cap {"resent"} = {} PROVE ~Waits(u)'
    BY <1>2, <2>1, <2>5, <2>6, <2>7 DEF Waits
  <2>8. ASSUME told'.lapse \cap {"resent"} = {} PROVE Own(tab, promote, u) = {}
    <3>1. ~Excused({"resent"})
      BY <1>2, <2>8 DEF Excused
    <3> QED BY <2>4, <2>5, <2>8, <3>1 DEF WaitsInv
  <2>9. \A t : Heard(t) => Heard(t)'
    BY <1>2 DEF Heard
  <2>10. ASSUME NEW t, Waits(t)' PROVE Waits(t)
    BY <1>2, <2>6, <2>10 DEF Waits
  <2>11. told'.lapse \cap {"crossed", "outlived", "resent"} = {} =>
            \A k, j \in Own(tab', promote', u) : k = j
    BY <2>3, <2>8
  <2>12. told'.lapse \cap {"resent"} = {} =>
            (Own(tab', promote', u) # {} /\ Waits(u)' => Heard(u)')
    BY <2>7
  <2>13. \A t : t # u => /\ Own(tab', promote', t) \subseteq Own(tab, promote, t)
                         /\ Waits(t)' => Waits(t)
    BY <2>3, <2>10
  <2>14. WaitsLess
    BY <2>10 DEF WaitsLess
  <2> QED BY <1>2, <2>9, <2>11, <2>12, <2>13, <2>14, OnceMore
<1> QED BY <1>3, <1>4, AnswerAbortIs

LEMMA OnceSent ==
    ASSUME WaitsInv, OnceInv, TypeInv, UsedInv, SendPrompt \/ SendControl
    PROVE  WaitsInv' /\ OnceInv' /\ WaitsLess
<1>1. Whole(tab)
  BY DEF TypeInv
<1>2. PICK u \in Fresh :
         /\ Remembers /\ UNCHANGED <<pi, wire, promote, abort>>
         /\ \/ AddsMessage(u) /\ tab'.queue = tab.queue
            \/ Grows(tab, tab') /\ Users(tab'.msgs) = Users(tab.msgs)
         /\ Range(tab'.queue) \subseteq Range(tab.queue) \cup {u}
         /\ \A s \in Senders : \/ controls'[s] = controls[s]
                               \/ controls'[s].text = u
         /\ AddsMessage(u) => \A s \in Senders : controls'[s] = controls[s]
                                            \/ controls'[s].mode = "steer"
  <2>1. CASE SendPrompt
    BY <2>1, SendPromptIs
  <2>2. CASE SendControl
    <3>1. PICK mode \in {"steer", "follow_up"}, t \in Fresh :
             /\ Grows(tab, tab')
             /\ mode = "steer" => AddsMessage(t) /\ tab'.queue = tab.queue
             /\ mode = "follow_up" => /\ Users(tab'.msgs) = Users(tab.msgs)
                                      /\ Range(tab'.queue) \subseteq Range(tab.queue) \cup {t}
             /\ \A s \in Senders : \/ controls'[s] = controls[s]
                                   \/ controls'[s].text = t /\ controls'[s].mode = mode
             /\ Remembers
      BY <2>2, SendControlIs
    <3>2. UNCHANGED <<pi, wire, promote, abort>>
      BY <2>2, SendControlIs
    <3>3. CASE mode = "steer"
      BY <3>1, <3>2, <3>3
    <3>4. CASE mode = "follow_up"
      <4>1. ~AddsMessage(t)
        <5>1. tab.next \notin Users(tab'.msgs)
          BY <1>1, <3>1, <3>4, WholeParts
        <5> QED BY <5>1 DEF AddsMessage
      <4> QED BY <3>1, <3>2, <3>4, <4>1
    <3> QED BY <3>3, <3>4
  <2> QED BY <2>1, <2>2
<1>3. Own(tab, promote, u) = {} /\ ~Waits(u)
  BY FreshIsNowhere
<1>4. told.lapse \subseteq told'.lapse /\ told'.echoed = told.echoed
  BY <1>2 DEF Remembers
<1>5. ASSUME NEW t, Heard(t) PROVE Heard(t)'
  BY <1>2, <1>4, <1>5 DEF Heard
<1>6. ASSUME NEW t, t # u, Waits(t)' PROVE Waits(t)
  BY <1>2, <1>6 DEF Waits
<1>7. CASE AddsMessage(u) /\ tab'.queue = tab.queue
  <2>1. /\ \A t : t # u => Own(tab', promote', t) = Own(tab, promote, t)
        /\ Own(tab', promote', u) \subseteq Own(tab, promote, u) \cup {tab.next}
    BY <1>1, <1>2, <1>7, OwnMore
  <2>2. ASSUME Waits(u)' PROVE FALSE
    <3>1. Waits(u)
      BY <1>2, <1>7, <2>2 DEF Waits
    <3> QED BY <1>3, <3>1
  <2>3. \A i, j \in Own(tab', promote', u) : i = j
    BY <1>3, <2>1
  <2>4. \A t : t # u => /\ Own(tab', promote', t) \subseteq Own(tab, promote, t)
                        /\ Waits(t)' => Waits(t)
    BY <1>6, <2>1
  <2>5. WaitsLess
    BY <1>6, <2>2 DEF WaitsLess
  <2> QED BY <1>4, <1>5, <2>2, <2>3, <2>4, <2>5, OnceMore
<1>8. CASE Grows(tab, tab') /\ Users(tab'.msgs) = Users(tab.msgs)
  <2>1. \A t : Own(tab', promote', t) = Own(tab, promote, t)
    BY <1>1, <1>2, <1>8, OwnSame
  <2>2. Own(tab', promote', u) = {}
    BY <1>3, <2>1
  <2>4. \A t : t # u => /\ Own(tab', promote', t) \subseteq Own(tab, promote, t)
                        /\ Waits(t)' => Waits(t)
    BY <1>6, <2>1
  <2>5. WaitsLess
    BY <1>2, <1>6, <2>2 DEF WaitsLess, Fresh
  <2> QED BY <1>4, <1>5, <2>2, <2>4, <2>5, OnceMore
<1> QED BY <1>2, <1>7, <1>8

LEMMA OnceKept ==
    ASSUME WaitsInv, OnceInv, MarkedInv, TypeInv, RefsInv, UsedInv, [Next]_vars
    PROVE  WaitsInv' /\ OnceInv' /\ WaitsLess
<1>1. Whole(tab) /\ told \in History /\ prompts \in [Senders -> Prompts]
      /\ controls \in [Senders -> Controls]
  BY DEF TypeInv
<1>2. ASSUME told' = told \/ \E why \in SUBSET Lapses : told' = Lapse(why)
      PROVE  told.lapse \subseteq told'.lapse /\ told'.echoed = told.echoed
  BY <1>1, <1>2, LapseIs
<1>3. CASE UNCHANGED vars
  BY <1>3 DEF vars, WaitsInv, OnceInv, WaitsLess, Excused, Waits, Heard
<1>4. CASE \/ Runtime \/ TakeAbort
           \/ \E s \in Senders : TakePrompt(s) \/ TakeControl(s) \/ ProbeFailedPrompt(s)
  BY <1>4, OnceOfPi
<1>5. CASE Receive
  BY <1>5, OnceReceived
<1>6. CASE SendPrompt \/ SendControl
  BY <1>6, OnceSent
<1>7. CASE AnswerAbort
  BY <1>7, OnceAborted
<1>8. ASSUME \/ Poll \/ Abort
             \/ \E s \in Senders : AcceptPrompt(s) \/ AcceptControl(s)
      PROVE  WaitsInv' /\ OnceInv' /\ WaitsLess
  <2>1. tab'.msgs = tab.msgs /\ tab'.queue = tab.queue
    BY <1>8, SteadyTab
  <2>2. UNCHANGED <<pi, wire, promote>>
    BY <1>8 DEF Poll, Abort, AcceptPrompt, AcceptControl
  <2>3. told' = told \/ \E why \in SUBSET Lapses : told' = Lapse(why)
    BY <1>8, Excuses DEF Poll, Abort, AcceptPrompt, AcceptControl, Lapses
  <2>4. abort'.held = abort.held \/ abort'.held = tab.queue
    <3>1. CASE Abort
      BY <3>1 DEF Abort
    <3>2. CASE Poll \/ \E s \in Senders : AcceptPrompt(s) \/ AcceptControl(s)
      BY <3>2 DEF Poll, AcceptPrompt, AcceptControl
    <3> QED BY <1>8, <3>1, <3>2
  <2>5. \A s \in Senders : controls'[s] = controls[s] \/ controls'[s].st = "none"
    BY <1>1, <1>8, NoRequests DEF Poll, Abort, AcceptPrompt, AcceptControl
  <2>6. \A t : Own(tab', promote', t) = Own(tab, promote, t)
    BY <2>1, <2>2 DEF Own
  <2> QED BY <1>2, <2>1, <2>2, <2>3, <2>4, <2>5, <2>6, OnceSteady
<1>9. CASE Promote
  <2>1. PICK u : AddsMessage(u)
    BY <1>9, PromoteIs
  <2>2. /\ promote = 0 /\ promote' = tab.next
        /\ tab'.queue = tab.queue /\ UNCHANGED <<pi, wire, prompts, controls, abort, told>>
    BY <1>9, PromoteIs
  <2>3. \A t : Own(tab', promote', t) = Own(tab, tab.next, t)
    BY <1>1, <2>1, <2>2, OwnMore
  <2>4. \A i \in Users(tab.msgs) : i # 0 /\ i # tab.next
    BY <1>1, WholeParts DEF Users
  <2>5. \A t : Own(tab', promote', t) = Own(tab, promote, t)
    BY <2>2, <2>3, <2>4 DEF Own
  <2> QED BY <1>2, <2>2, <2>5, OnceSteady
<1>10. CASE PromoteRefused
  <2>1. /\ tab' = [tab EXCEPT !.msgs = Without(@, promote)] /\ promote' = 0
        /\ UNCHANGED <<pi, wire, prompts, controls, abort>>
        /\ \E why \in SUBSET Lapses : told' = Lapse(why)
    <3>1. TakenBack(tab.msgs[promote].text) \in SUBSET Lapses
      BY Excuses
    <3> QED BY <1>10, <3>1 DEF PromoteRefused
  <2>2. /\ DOMAIN tab'.msgs = DOMAIN tab.msgs \ {promote}
        /\ \A k \in DOMAIN tab'.msgs : tab'.msgs[k] = tab.msgs[k]
        /\ Queues(tab, tab')
    BY <1>1, <2>1, TakenTab
  <2>3. \A t : Own(tab', promote', t) \subseteq Own(tab, promote, t)
    BY <2>2 DEF Own, Users
  <2> QED BY <1>2, <2>1, <2>2, <2>3, QueuesRange, OnceSteady
<1>11. ASSUME \E s \in Senders : RollBackControl(s) \/ SettleFailedPrompt(s)
       PROVE  WaitsInv' /\ OnceInv' /\ WaitsLess
  <2>1. \/ tab' = tab
        \/ \E i, j : \/ tab' = [tab EXCEPT !.msgs = Without(@, i), !.queue = Without(@, j)]
                     \/ tab' = [SettleTurn(tab) EXCEPT !.msgs = Without(@, i)]
    BY <1>11 DEF RollBackControl, SettleFailedPrompt
  <2>2. (tab' = tab \/ (Keeps(tab, tab') /\ DOMAIN tab'.msgs \subseteq DOMAIN tab.msgs))
        /\ Range(tab'.queue) \subseteq Range(tab.queue)
    <3>1. CASE tab' = tab
      BY <3>1
    <3>2. ASSUME NEW i, NEW j,
                 \/ tab' = [tab EXCEPT !.msgs = Without(@, i), !.queue = Without(@, j)]
                 \/ tab' = [SettleTurn(tab) EXCEPT !.msgs = Without(@, i)]
          PROVE  /\ Keeps(tab, tab') /\ DOMAIN tab'.msgs \subseteq DOMAIN tab.msgs
                 /\ Range(tab'.queue) \subseteq Range(tab.queue)
      <4>1. /\ Keeps(tab, tab') /\ DOMAIN tab'.msgs = DOMAIN tab.msgs \ {i}
            /\ Queues(tab, tab')
        BY <1>1, <3>2, TakenTab
      <4> QED BY <4>1, QueuesRange
    <3> QED BY <2>1, <3>1, <3>2
  <2>3. UNCHANGED <<pi, wire, abort, promote>>
    BY <1>11 DEF RollBackControl, SettleFailedPrompt
  <2>4. told' = told \/ \E why \in SUBSET Lapses : told' = Lapse(why)
    BY <1>11, Excuses DEF RollBackControl, SettleFailedPrompt
  <2>5. \A s \in Senders : controls'[s] = controls[s] \/ controls'[s].st = "none"
    BY <1>1, <1>11, NoRequests DEF RollBackControl, SettleFailedPrompt
  <2>6. \A t : Own(tab', promote', t) \subseteq Own(tab, promote, t)
    BY <2>2, <2>3, OwnLess
  <2> QED BY <1>2, <2>2, <2>3, <2>4, <2>5, <2>6, OnceSteady
<1>12. CASE Resume
  <2>1. UNCHANGED <<pi, wire, prompts, promote, told>>
    BY <1>12, ResumeIs
  <2>2. CASE abort' = NoAbort /\ UNCHANGED <<tab, controls>>
    <3>1. Range(abort'.held) = {}
      BY <2>2, NoRequests, NothingIsList DEF Range
    <3>2. \A t : Own(tab', promote', t) = Own(tab, promote, t)
      BY <2>1, <2>2
    <3> QED BY <1>2, <2>1, <2>2, <3>1, <3>2, OnceSteady
  <2>3. CASE \E i \in DOMAIN abort.held :
                /\ Grows(tab, tab') /\ Users(tab'.msgs) = Users(tab.msgs)
                /\ Range(tab'.queue) \subseteq Range(tab.queue) \cup {abort.held[i]}
                /\ \A s \in Senders : controls'[s] = controls[s]
                                      \/ controls'[s].text = abort.held[i]
                /\ Range(abort'.held) \subseteq Range(abort.held)
    <3>1. \A i \in DOMAIN abort.held : abort.held[i] \in Range(abort.held)
      BY DEF Range
    <3>2. \A t : Own(tab', promote', t) = Own(tab, promote, t)
      BY <1>1, <2>1, <2>3, OwnSame
    <3> QED BY <1>2, <2>1, <2>3, <3>1, <3>2, OnceSteady
  <2> QED BY <1>12, <2>2, <2>3, ResumeIs
<1> QED BY <1>3, <1>4, <1>5, <1>6, <1>7, <1>8, <1>9, <1>10, <1>11, <1>12
        DEF Next, Requests

\* Nothing is said at first.
LEMMA UsedAtFirst == ASSUME Init PROVE UsedInv
<1>1. /\ Users(tab.msgs) = {} /\ Range(tab.queue) = {} /\ Range(abort.held) = {}
      /\ Range(wire) = {} /\ PiHolds = {None} /\ Range(pi.followUp) = {}
      /\ \A s \in Senders : prompts[s].st = "none" /\ controls[s].st = "none"
  BY NoRequests, NothingIsList DEF Init, Users, Range, PiHolds
<1> QED BY <1>1 DEF UsedInv

-----------------------------------------------------------------------------
\* ---- The queue that is shown and the queue that pi holds ----

\* No text twice
Single(l) == \A i, j \in DOMAIN l : l[i] = l[j] => i = j

\* What the two lists share comes first in the second, and in the same order in both.
Fits(l, q) ==
    \A i \in DOMAIN l, m \in DOMAIN q : l[i] = q[m] =>
        \A n \in DOMAIN q : n < m => \E j \in DOMAIN l : j < i /\ l[j] = q[n]

\* The list l is f with more behind it.
Full(l, f) ==
    /\ Range(f) \subseteq Range(l) /\ Fits(l, f)
    /\ \A i, j \in DOMAIN l : l[i] \in Range(f) /\ l[j] \notin Range(f) => i < j

\* One change of pi's list: a text is added at the end, or texts are taken from the front.
Leads(f, g) == Fits(f, g) /\ \A m, n \in DOMAIN g : n < m => g[n] \in Range(f)

QueuesOf(w) == {i \in DOMAIN w : w[i].k = "queue"}

\* The stream w leads from the list l, which is shown, to pi's list f: each queue event fits
\* what is shown when it arrives, and no echo takes away what stays queued.
Ordered(w, l, f) ==
    /\ \A i \in QueuesOf(w) : (\E h \in QueuesOf(w) : h < i) \/ Fits(l, w[i].q)
    /\ \A i, j \in QueuesOf(w) : i < j =>
           (\E h \in QueuesOf(w) : i < h /\ h < j) \/ Leads(w[i].q, w[j].q)
    /\ \A i \in QueuesOf(w) : (\E j \in QueuesOf(w) : i < j) \/ w[i].q = f
    /\ QueuesOf(w) = {} => Full(l, f)
    /\ \A i \in DOMAIN w : w[i].k \in {"start", "end"} =>
           /\ w[i].t \notin Range(f)
           /\ \A j \in DOMAIN w : i < j => w[i].t \notin Range(w[j].q)

LEMMA FullLeads ==
    ASSUME NEW l \in Lists(Texts), NEW f \in Seq(Texts), NEW g \in Seq(Texts),
           Full(l, f), Leads(f, g)
    PROVE  Fits(l, g)
<1> SUFFICES ASSUME NEW i \in DOMAIN l, NEW m \in DOMAIN g, l[i] = g[m],
                    NEW n \in DOMAIN g, n < m
             PROVE  \E j \in DOMAIN l : j < i /\ l[j] = g[n]
  BY DEF Fits
<1>1. PICK k \in DOMAIN f : f[k] = g[n]
  BY DEF Leads, Range
<1>2. CASE g[m] \in Range(f)
  <2>1. PICK h \in DOMAIN f : f[h] = g[m]
    BY <1>2 DEF Range
  <2>2. PICK j \in DOMAIN f : j < h /\ f[j] = g[n]
    BY <2>1 DEF Leads, Fits
  <2> QED BY <2>1, <2>2 DEF Full, Fits
<1>3. CASE g[m] \notin Range(f)
  <2>1. g[n] \in Range(f)
    BY <1>1 DEF Range
  <2>2. PICK j \in DOMAIN l : l[j] = g[n]
    BY <2>1 DEF Full, Range
  <2> QED BY <1>3, <2>1, <2>2 DEF Full
<1> QED BY <1>2, <1>3

LEMMA LeadsSome ==
    ASSUME NEW f \in Seq(Texts), Single(f)
    PROVE  /\ Leads(f, <<>>) /\ Single(<<>>)
           /\ f # <<>> => Leads(f, Tail(f)) /\ Single(Tail(f)) /\ Head(f) \notin Range(Tail(f))
           /\ \A t \in Texts : t \notin Range(f) => Leads(f, Append(f, t)) /\ Single(Append(f, t))
<1>1. Leads(f, <<>>) /\ Single(<<>>)
  BY DEF Leads, Fits, Single
<1>2. DOMAIN f = 1..Len(f) /\ Len(f) \in Nat
  OBVIOUS
<1>3. ASSUME f # <<>>
      PROVE  Leads(f, Tail(f)) /\ Single(Tail(f)) /\ Head(f) \notin Range(Tail(f))
  <2>1. /\ DOMAIN Tail(f) = 1..(Len(f) - 1)
        /\ \A m \in DOMAIN Tail(f) : m + 1 \in DOMAIN f /\ Tail(f)[m] = f[m + 1]
    BY <1>2, <1>3
  <2> DEFINE g == Tail(f)
  <2> HIDE DEF g
  <2>2. /\ DOMAIN g = 1..(Len(f) - 1)
        /\ \A m \in DOMAIN g : m + 1 \in DOMAIN f /\ g[m] = f[m + 1]
    BY <2>1 DEF g
  <2>3. Single(g)
    BY <1>2, <2>2 DEF Single
  <2>4. \A m \in DOMAIN g : g[m] \in Range(f)
    BY <2>2 DEF Range
  <2>5. Fits(f, g)
    <3> SUFFICES ASSUME NEW i \in DOMAIN f, NEW m \in DOMAIN g, f[i] = g[m],
                        NEW n \in DOMAIN g, n < m
                 PROVE  \E j \in DOMAIN f : j < i /\ f[j] = g[n]
      BY DEF Fits
    <3>1. i = m + 1
      BY <2>2 DEF Single
    <3>2. n + 1 < i /\ n + 1 \in DOMAIN f /\ f[n + 1] = g[n]
      BY <1>2, <2>2, <3>1
    <3> QED BY <3>2
  <2>6. Head(f) \notin Range(g)
    <3> SUFFICES ASSUME NEW m \in DOMAIN g, g[m] = Head(f) PROVE FALSE
      BY DEF Range
    <3>1. Head(f) = f[1] /\ 1 \in DOMAIN f
      BY <1>2, <1>3
    <3>2. m + 1 = 1
      BY <2>2, <3>1 DEF Single
    <3> QED BY <2>2, <3>2
  <2> QED BY <2>3, <2>4, <2>5, <2>6 DEF Leads, g
<1>4. ASSUME NEW t \in Texts, t \notin Range(f)
      PROVE  Leads(f, Append(f, t)) /\ Single(Append(f, t))
  <2>1. /\ DOMAIN Append(f, t) = 1..(Len(f) + 1)
        /\ \A m \in DOMAIN f : Append(f, t)[m] = f[m]
        /\ Append(f, t)[Len(f) + 1] = t
    BY <1>2
  <2> DEFINE g == Append(f, t)
  <2> HIDE DEF g
  <2>2. /\ DOMAIN g = 1..(Len(f) + 1) /\ g[Len(f) + 1] = t
        /\ \A m \in DOMAIN f : g[m] = f[m] /\ g[m] # t /\ m \in DOMAIN g
        /\ \A m \in DOMAIN g : m # Len(f) + 1 => m \in DOMAIN f
    BY <1>2, <1>4, <2>1 DEF g, Range
  <2>3. Single(g)
    BY <1>2, <2>2 DEF Single
  <2>4. \A m, n \in DOMAIN g : n < m => g[n] \in Range(f)
    BY <1>2, <2>2 DEF Range
  <2>5. Fits(f, g)
    <3> SUFFICES ASSUME NEW i \in DOMAIN f, NEW m \in DOMAIN g, f[i] = g[m],
                        NEW n \in DOMAIN g, n < m
                 PROVE  \E j \in DOMAIN f : j < i /\ f[j] = g[n]
      BY DEF Fits
    <3>1. m \in DOMAIN f /\ f[m] = f[i]
      BY <2>2
    <3>2. i = m
      BY <3>1 DEF Single
    <3>3. n \in DOMAIN f /\ f[n] = g[n]
      BY <1>2, <2>2, <3>1
    <3> QED BY <3>2, <3>3
  <2> QED BY <2>3, <2>4, <2>5 DEF Leads, g
<1> QED BY <1>1, <1>3, <1>4

LEMMA OrderedMore ==
    ASSUME NEW w \in Seq(Events), NEW l, NEW f, Ordered(w, l, f), NEW e \in Events,
           e.k # "queue", e.q = <<>>, e.k \in {"start", "end"} => e.t \notin Range(f)
    PROVE  Ordered(Append(w, e), l, f)
<1> DEFINE v == Append(w, e)
<1>1. /\ DOMAIN w = 1..Len(w) /\ Len(w) \in Nat /\ DOMAIN v = DOMAIN w \cup {Len(w) + 1}
      /\ v[Len(w) + 1] = e /\ \A i \in DOMAIN w : v[i] = w[i] /\ i < Len(w) + 1
  OBVIOUS
<1> HIDE DEF v
<1>2. QueuesOf(v) = QueuesOf(w) /\ \A i \in QueuesOf(w) : i \in DOMAIN w /\ v[i] = w[i]
  BY <1>1 DEF QueuesOf
<1>3. Range(<<>>) = {}
  BY DEF Range
<1>4. ASSUME NEW i \in DOMAIN v, v[i].k \in {"start", "end"}
      PROVE  /\ v[i].t \notin Range(f)
             /\ \A j \in DOMAIN v : i < j => v[i].t \notin Range(v[j].q)
  <2>1. CASE i = Len(w) + 1
    BY <1>1, <1>4, <2>1
  <2>2. CASE i \in DOMAIN w
    <3>1. v[i] = w[i]
      BY <1>1, <2>2
    <3>2. \A j \in DOMAIN v : (j \in DOMAIN w /\ v[j] = w[j]) \/ v[j].q = <<>>
      BY <1>1
    <3> QED BY <1>3, <1>4, <2>2, <3>1, <3>2 DEF Ordered
  <2> QED BY <1>1, <2>1, <2>2
<1> QED BY <1>2, <1>4 DEF Ordered, v

LEMMA OrderedQueue ==
    ASSUME NEW w \in Seq(Events), NEW l \in Lists(Texts), NEW f \in Seq(Texts),
           Ordered(w, l, f), NEW g \in Seq(Texts), Leads(f, g),
           \A e \in Range(w) : e.k \in {"start", "end"} => e.t \notin Range(g)
    PROVE  Ordered(Append(w, Queued(g)), l, g)
<1> DEFINE v == Append(w, Queued(g))
           n == Len(w) + 1
<1>1. /\ DOMAIN w = 1..Len(w) /\ Len(w) \in Nat /\ DOMAIN v = DOMAIN w \cup {n}
      /\ v[n] = Queued(g) /\ \A i \in DOMAIN w : v[i] = w[i] /\ i < n /\ i # n
      /\ DOMAIN w \subseteq Nat /\ n \in Nat
  OBVIOUS
<1>2. v[n].k = "queue" /\ v[n].q = g
  BY <1>1, EventsAre
<1> HIDE DEF v, n
<1>3. /\ QueuesOf(v) = QueuesOf(w) \cup {n}
      /\ \A i \in QueuesOf(w) : i \in DOMAIN w /\ v[i] = w[i] /\ i < n /\ i \in Nat
  BY <1>1, <1>2 DEF QueuesOf
<1>4. ASSUME NEW i \in QueuesOf(v)
      PROVE  (\E h \in QueuesOf(v) : h < i) \/ Fits(l, v[i].q)
  <2>1. CASE i \in QueuesOf(w)
    BY <1>3, <2>1 DEF Ordered
  <2>2. CASE i = n /\ QueuesOf(w) = {}
    <3>1. Full(l, f)
      BY <2>2 DEF Ordered
    <3> QED BY <1>2, <2>2, <3>1, FullLeads
  <2>3. CASE i = n /\ QueuesOf(w) # {}
    BY <1>3, <2>3
  <2> QED BY <1>3, <2>1, <2>2, <2>3
<1>5. ASSUME NEW i \in QueuesOf(v), NEW j \in QueuesOf(v), i < j
      PROVE  (\E h \in QueuesOf(v) : i < h /\ h < j) \/ Leads(v[i].q, v[j].q)
  <2>1. CASE i \in QueuesOf(w) /\ j \in QueuesOf(w)
    BY <1>3, <1>5, <2>1 DEF Ordered
  <2>2. CASE i \in QueuesOf(w) /\ j = n
    <3>1. CASE \E h \in QueuesOf(w) : i < h
      BY <1>3, <2>2, <3>1
    <3>2. CASE w[i].q = f
      BY <1>2, <1>3, <2>2, <3>2
    <3> QED BY <2>2, <3>1, <3>2 DEF Ordered
  <2>3. CASE i = n
    BY <1>1, <1>3, <1>5, <2>3
  <2> QED BY <1>3, <2>1, <2>2, <2>3
<1>6. ASSUME NEW i \in QueuesOf(v) PROVE (\E j \in QueuesOf(v) : i < j) \/ v[i].q = g
  BY <1>2, <1>3
<1>7. ASSUME NEW i \in DOMAIN v, v[i].k \in {"start", "end"}
      PROVE  /\ v[i].t \notin Range(g)
             /\ \A j \in DOMAIN v : i < j => v[i].t \notin Range(v[j].q)
  <2>1. i \in DOMAIN w /\ v[i] = w[i] /\ w[i] \in Range(w)
    BY <1>1, <1>2, <1>7 DEF Range
  <2>2. v[i].t \notin Range(g)
    BY <1>7, <2>1
  <2>3. \A j \in DOMAIN v : (j \in DOMAIN w /\ v[j] = w[j]) \/ v[j].q = g
    BY <1>1, <1>2
  <2> QED BY <1>7, <2>1, <2>2, <2>3 DEF Ordered
<1> QED BY <1>3, <1>4, <1>5, <1>6, <1>7 DEF Ordered, v

\* What the next event leaves of the stream
LEMMA TailParts ==
    ASSUME NEW w \in Seq(Events), w # <<>>
    PROVE  /\ DOMAIN w = 1..Len(w) /\ Len(w) \in Nat /\ 1 \in DOMAIN w /\ w[1] = Head(w)
           /\ DOMAIN Tail(w) = 1..(Len(w) - 1)
           /\ \A i \in DOMAIN Tail(w) : /\ i + 1 \in DOMAIN w /\ Tail(w)[i] = w[i + 1]
                                        /\ i \in Nat /\ 1 <= i
           /\ \A i \in DOMAIN w \ {1} : /\ i - 1 \in DOMAIN Tail(w) /\ i \in Nat /\ 1 < i
                                        /\ Tail(w)[i - 1] = w[i]
<1>1. /\ DOMAIN w = 1..Len(w) /\ Len(w) \in Nat /\ 1 \in DOMAIN w /\ w[1] = Head(w)
      /\ DOMAIN Tail(w) = 1..(Len(w) - 1)
      /\ \A i \in DOMAIN Tail(w) : /\ i + 1 \in DOMAIN w /\ Tail(w)[i] = w[i + 1]
                                   /\ i \in Nat /\ 1 <= i
  OBVIOUS
<1>2. ASSUME NEW i \in DOMAIN w \ {1}
      PROVE  i - 1 \in DOMAIN Tail(w) /\ i \in Nat /\ 1 < i /\ Tail(w)[i - 1] = w[i]
  <2>1. i - 1 \in DOMAIN Tail(w) /\ i \in Nat /\ 1 < i /\ (i - 1) + 1 = i
    BY <1>1
  <2> QED BY <1>1, <2>1
<1> QED BY <1>1, <1>2

LEMMA OrderedAfter ==
    ASSUME NEW w \in Seq(Events), w # <<>>, NEW l, NEW f, Ordered(w, l, f)
    PROVE  /\ \A i, j \in QueuesOf(Tail(w)) : i < j =>
                 \/ \E h \in QueuesOf(Tail(w)) : i < h /\ h < j
                 \/ Leads(Tail(w)[i].q, Tail(w)[j].q)
           /\ \A i \in QueuesOf(Tail(w)) :
                 (\E j \in QueuesOf(Tail(w)) : i < j) \/ Tail(w)[i].q = f
           /\ \A i \in DOMAIN Tail(w) : Tail(w)[i].k \in {"start", "end"} =>
                 /\ Tail(w)[i].t \notin Range(f)
                 /\ \A j \in DOMAIN Tail(w) : i < j => Tail(w)[i].t \notin Range(Tail(w)[j].q)
<1> DEFINE v == Tail(w)
<1>1. /\ DOMAIN w = 1..Len(w) /\ Len(w) \in Nat
      /\ \A i \in DOMAIN v : i + 1 \in DOMAIN w /\ v[i] = w[i + 1] /\ i \in Nat /\ 1 <= i
      /\ \A i \in DOMAIN w \ {1} : i - 1 \in DOMAIN v /\ i \in Nat /\ 1 < i /\ v[i - 1] = w[i]
  BY TailParts
<1> HIDE DEF v
<1>2. /\ \A i \in QueuesOf(v) : /\ i \in DOMAIN v /\ i + 1 \in QueuesOf(w) /\ v[i] = w[i + 1]
                                /\ i \in Nat /\ 1 <= i
      /\ \A i \in QueuesOf(w) : i # 1 => i - 1 \in QueuesOf(v) /\ i \in Nat /\ 1 < i
  BY <1>1 DEF QueuesOf
<1>3. ASSUME NEW i \in QueuesOf(v), NEW j \in QueuesOf(v), i < j
      PROVE  (\E h \in QueuesOf(v) : i < h /\ h < j) \/ Leads(v[i].q, v[j].q)
  <2>1. i + 1 \in QueuesOf(w) /\ j + 1 \in QueuesOf(w) /\ i + 1 < j + 1
    BY <1>2, <1>3
  <2>2. CASE \E h \in QueuesOf(w) : i + 1 < h /\ h < j + 1
    <3>1. PICK h \in QueuesOf(w) : i + 1 < h /\ h < j + 1
      BY <2>2
    <3>2. h # 1 /\ i \in Nat /\ 1 <= i /\ j \in Nat
      BY <1>2, <3>1
    <3>3. h - 1 \in QueuesOf(v) /\ h \in Nat
      BY <1>2, <3>2
    <3>4. i < h - 1 /\ h - 1 < j
      BY <3>1, <3>2, <3>3
    <3> QED BY <3>3, <3>4
  <2>3. CASE Leads(w[i + 1].q, w[j + 1].q)
    BY <1>2, <2>3
  <2> QED BY <2>1, <2>2, <2>3 DEF Ordered
<1>4. ASSUME NEW i \in QueuesOf(v) PROVE (\E j \in QueuesOf(v) : i < j) \/ v[i].q = f
  <2>1. CASE \E j \in QueuesOf(w) : i + 1 < j
    <3>1. PICK j \in QueuesOf(w) : i + 1 < j
      BY <2>1
    <3>2. i \in Nat /\ 1 <= i /\ j # 1
      BY <1>2, <3>1
    <3>3. j - 1 \in QueuesOf(v) /\ j \in Nat
      BY <1>2, <3>2
    <3>4. i < j - 1
      BY <3>1, <3>2, <3>3
    <3> QED BY <3>3, <3>4
  <2>2. CASE w[i + 1].q = f
    BY <1>2, <2>2
  <2> QED BY <1>2, <2>1, <2>2 DEF Ordered
<1>5. ASSUME NEW i \in DOMAIN v, v[i].k \in {"start", "end"}
      PROVE  /\ v[i].t \notin Range(f)
             /\ \A j \in DOMAIN v : i < j => v[i].t \notin Range(v[j].q)
  <2>1. \A j \in DOMAIN v : j + 1 \in DOMAIN w /\ v[j] = w[j + 1] /\ (i < j => i + 1 < j + 1)
    BY <1>1
  <2> QED BY <1>5, <2>1 DEF Ordered
<1> QED BY <1>3, <1>4, <1>5 DEF v

\* A queue event arrives, and what is shown is then what it lists.
LEMMA OrderedShown ==
    ASSUME NEW w \in Seq(Events), w # <<>>, NEW l, NEW f \in Seq(Texts), Ordered(w, l, f),
           Head(w).k = "queue", NEW d \in Lists(Texts), Full(d, Head(w).q)
    PROVE  Ordered(Tail(w), d, f) /\ (QueuesOf(Tail(w)) = {} => Head(w).q = f)
<1> DEFINE v == Tail(w)
           q == Head(w).q
<1>1. /\ 1 \in DOMAIN w /\ w[1] = Head(w)
      /\ \A i \in DOMAIN v : i + 1 \in DOMAIN w /\ v[i] = w[i + 1] /\ i \in Nat /\ 1 <= i
      /\ \A i \in DOMAIN w \ {1} : i - 1 \in DOMAIN v /\ i \in Nat /\ 1 < i /\ v[i - 1] = w[i]
      /\ \A i \in DOMAIN w : w[i] \in Events
  BY TailParts
<1>2. q \in Seq(Texts) /\ \A i \in DOMAIN w : w[i].q \in Seq(Texts)
  BY <1>1 DEF Events
<1>3. w[1].q = q /\ 1 \in QueuesOf(w)
  BY <1>1 DEF QueuesOf
<1> HIDE DEF v, q
<1>4. /\ \A i \in QueuesOf(v) : /\ i \in DOMAIN v /\ i + 1 \in QueuesOf(w) /\ v[i] = w[i + 1]
                                /\ i \in Nat /\ 1 < i + 1
      /\ \A i \in QueuesOf(w) : i # 1 => i - 1 \in QueuesOf(v) /\ i \in Nat /\ 1 < i
  BY <1>1 DEF QueuesOf
<1>5. ASSUME NEW i \in QueuesOf(v) PROVE (\E h \in QueuesOf(v) : h < i) \/ Fits(d, v[i].q)
  <2>1. CASE \E h \in QueuesOf(w) : 1 < h /\ h < i + 1
    <3>1. PICK h \in QueuesOf(w) : 1 < h /\ h < i + 1
      BY <2>1
    <3>2. h # 1 /\ i \in Nat
      BY <1>4, <3>1
    <3>3. h - 1 \in QueuesOf(v) /\ h \in Nat
      BY <1>4, <3>2
    <3>4. h - 1 < i
      BY <3>1, <3>2, <3>3
    <3> QED BY <3>3, <3>4
  <2>2. CASE Leads(w[1].q, w[i + 1].q)
    <3>1. v[i].q \in Seq(Texts) /\ Leads(q, v[i].q)
      BY <1>1, <1>2, <1>3, <1>4, <2>2
    <3>2. Full(d, q)
      BY DEF q
    <3> QED BY <1>2, <3>1, <3>2, FullLeads
  <2>3. i + 1 \in QueuesOf(w) /\ 1 < i + 1
    BY <1>4
  <2> QED BY <1>3, <2>1, <2>2, <2>3 DEF Ordered
<1>6. QueuesOf(v) = {} => q = f
  <2>1. QueuesOf(v) = {} => \A j \in QueuesOf(w) : ~(1 < j)
    BY <1>4
  <2> QED BY <1>3, <2>1 DEF Ordered
<1>7. Full(d, q)
  BY DEF q
<1> QED BY <1>5, <1>6, <1>7, OrderedAfter DEF Ordered, v, q

\* What is shown changes by what neither the stream nor pi's list mentions, and what is added
\* stands behind the rest.
Apart(w, f, t) == t \notin Range(f) /\ \A i \in DOMAIN w : t \notin Range(w[i].q)

\* A list that keeps what it shares with q, and where, still fits q.
LEMMA FitsStays ==
    ASSUME NEW l, NEW d, NEW q,
           \A i \in DOMAIN l : l[i] \in Range(q) => i \in DOMAIN d /\ d[i] = l[i],
           \A i \in DOMAIN d : d[i] \in Range(q) => i \in DOMAIN l /\ l[i] = d[i],
           Fits(l, q)
    PROVE  Fits(d, q) /\ (Range(q) \subseteq Range(l) => Range(q) \subseteq Range(d))
<1>1. Fits(d, q)
  <2> SUFFICES ASSUME NEW i \in DOMAIN d, NEW m \in DOMAIN q, d[i] = q[m],
                      NEW n \in DOMAIN q, n < m
               PROVE  \E j \in DOMAIN d : j < i /\ d[j] = q[n]
    BY DEF Fits
  <2>1. d[i] \in Range(q) /\ q[n] \in Range(q)
    BY DEF Range
  <2>2. i \in DOMAIN l /\ l[i] = q[m]
    BY <2>1
  <2>3. PICK j \in DOMAIN l : j < i /\ l[j] = q[n]
    BY <2>2 DEF Fits
  <2> QED BY <2>1, <2>3
<1>2. ASSUME Range(q) \subseteq Range(l), NEW t \in Range(q) PROVE t \in Range(d)
  <2>1. PICK i \in DOMAIN l : l[i] = t
    BY <1>2 DEF Range
  <2> QED BY <1>2, <2>1 DEF Range
<1> QED BY <1>1, <1>2

\* The shown list loses, or gets at its end, texts that the stream and pi do not have.
LEMMA OrderedApart ==
    ASSUME NEW w, NEW l, NEW f, Ordered(w, l, f), NEW d,
           \A i \in DOMAIN l : (i \in DOMAIN d /\ d[i] = l[i]) \/ Apart(w, f, l[i]),
           \A i \in DOMAIN d : \/ i \in DOMAIN l /\ l[i] = d[i]
                               \/ Apart(w, f, d[i]) /\ \A j \in DOMAIN l : j < i
    PROVE  Ordered(w, d, f)
<1>1. ASSUME NEW i \in QueuesOf(w), Fits(l, w[i].q) PROVE Fits(d, w[i].q)
  <2>1. \A t : Apart(w, f, t) => t \notin Range(w[i].q)
    BY DEF Apart, QueuesOf
  <2> HIDE DEF Apart
  <2> QED BY <1>1, <2>1, FitsStays
<1>2. ASSUME Full(l, f) PROVE Full(d, f)
  <2>1. \A t : Apart(w, f, t) => t \notin Range(f)
    BY DEF Apart
  <2>2. Fits(d, f) /\ Range(f) \subseteq Range(d)
    BY <1>2, <2>1, FitsStays DEF Full
  <2>3. ASSUME NEW i \in DOMAIN d, NEW j \in DOMAIN d, d[i] \in Range(f), d[j] \notin Range(f)
        PROVE  i < j
    <3>1. i \in DOMAIN l /\ l[i] = d[i]
      BY <2>1, <2>3
    <3>2. CASE j \in DOMAIN l /\ l[j] = d[j]
      BY <1>2, <2>3, <3>1, <3>2 DEF Full
    <3>3. CASE \A k \in DOMAIN l : k < j
      BY <3>1, <3>3
    <3> QED BY <3>2, <3>3
  <2> QED BY <2>2, <2>3 DEF Full
<1> QED BY <1>1, <1>2 DEF Ordered

\* An event that is not a queue event arrives.
LEMMA OrderedRest ==
    ASSUME NEW w \in Seq(Events), w # <<>>, NEW l, NEW f, Ordered(w, l, f),
           Head(w).k # "queue"
    PROVE  Ordered(Tail(w), l, f) /\ (QueuesOf(Tail(w)) = {} <=> QueuesOf(w) = {})
<1> DEFINE v == Tail(w)
<1>1. /\ 1 \in DOMAIN w /\ w[1] = Head(w)
      /\ \A i \in DOMAIN v : i + 1 \in DOMAIN w /\ v[i] = w[i + 1] /\ i \in Nat /\ 1 <= i
      /\ \A i \in DOMAIN w \ {1} : i - 1 \in DOMAIN v /\ i \in Nat /\ 1 < i /\ v[i - 1] = w[i]
  BY TailParts
<1> HIDE DEF v
<1>2. /\ \A i \in QueuesOf(v) : /\ i + 1 \in QueuesOf(w) /\ v[i] = w[i + 1]
                                /\ i \in Nat
      /\ \A i \in QueuesOf(w) : i - 1 \in QueuesOf(v) /\ i \in Nat
  BY <1>1 DEF QueuesOf
<1>3. ASSUME NEW i \in QueuesOf(v) PROVE (\E h \in QueuesOf(v) : h < i) \/ Fits(l, v[i].q)
  <2>1. CASE \E h \in QueuesOf(w) : h < i + 1
    <3>1. PICK h \in QueuesOf(w) : h < i + 1
      BY <2>1
    <3>2. h - 1 \in QueuesOf(v) /\ h - 1 < i
      BY <1>2, <3>1
    <3> QED BY <3>2
  <2> QED BY <1>2, <2>1 DEF Ordered
<1>4. QueuesOf(v) = {} <=> QueuesOf(w) = {}
  BY <1>2
<1> QED BY <1>3, <1>4, OrderedAfter DEF Ordered, v

\* When pi holds nothing, or a list is still to come, nothing need be shown.
LEMMA NothingQueued ==
    ASSUME NEW w, NEW l, NEW f \in Seq(Texts), Ordered(w, l, f), QueuesOf(w) = {} => f = <<>>
    PROVE  Ordered(w, Nothing, f)
<1>1. DOMAIN Nothing = {}
  BY NothingIsList
<1>2. \A q : Fits(Nothing, q)
  BY <1>1 DEF Fits
<1>3. Full(Nothing, <<>>)
  BY <1>1, <1>2 DEF Full, Range
<1> QED BY <1>2, <1>3 DEF Ordered


\* What is delivered leaves the queue, and nothing else does.
LEMMA DeliveredLeaves ==
    ASSUME NEW q \in Lists(Texts), NEW t
    PROVE  \A i \in DOMAIN q : q[i] # t =>
               i \in DOMAIN Delivered(q, t) /\ Delivered(q, t)[i] = q[i]
<1> DEFINE those == {i \in DOMAIN q : q[i] = t}
<1>1. CASE those = {}
  BY <1>1 DEF Delivered
<1>2. CASE those # {}
  <2> DEFINE e == Earliest(those)
  <2>1. Delivered(q, t) = Without(q, e)
    BY <1>2 DEF Delivered
  <2>2. DOMAIN q \subseteq Nat
    BY ListsAreFunctions
  <2>3. e \in those
    BY <1>2, <2>2, EarliestIs
  <2>4. e \in DOMAIN q /\ q[e] = t
    BY <2>3
  <2> HIDE DEF e
  <2>5. \A i \in DOMAIN q \ {e} : i \in DOMAIN Without(q, e) /\ Without(q, e)[i] = q[i]
    BY DEF Without
  <2> QED BY <2>1, <2>4, <2>5
<1> QED BY <1>1, <1>2

\* Where no text is twice, the n-th of a kind is the first, and there is one or none.
LEMMA SingleCounts ==
    ASSUME NEW l, Single(l)
    PROVE  /\ \A i \in DOMAIN l : i <= i =>
                 Cardinality({j \in DOMAIN l : j <= i /\ l[j] = l[i]}) = 1
           /\ \A t : Cardinality({j \in DOMAIN l : l[j] = t}) = IF t \in Range(l) THEN 1 ELSE 0
<1>1. ASSUME NEW i \in DOMAIN l, i <= i
      PROVE  Cardinality({j \in DOMAIN l : j <= i /\ l[j] = l[i]}) = 1
  <2>1. {j \in DOMAIN l : j <= i /\ l[j] = l[i]} = {i}
    BY <1>1 DEF Single
  <2> QED BY <2>1, FS_Singleton
<1>2. ASSUME NEW t
      PROVE  Cardinality({j \in DOMAIN l : l[j] = t}) = IF t \in Range(l) THEN 1 ELSE 0
  <2>1. CASE t \in Range(l)
    <3>1. PICK i \in DOMAIN l : l[i] = t
      BY <2>1 DEF Range
    <3>2. {j \in DOMAIN l : l[j] = t} = {i}
      BY <3>1 DEF Single
    <3>3. Cardinality({j \in DOMAIN l : l[j] = t}) = 1
      BY <3>2, FS_Singleton
    <3> QED BY <2>1, <3>3
  <2>2. CASE t \notin Range(l)
    <3>1. {j \in DOMAIN l : l[j] = t} = {}
      BY <2>2 DEF Range
    <3>2. Cardinality({j \in DOMAIN l : l[j] = t}) = 0
      BY <3>1, FS_EmptySet
    <3> QED BY <2>2, <3>2
  <2> QED BY <2>1, <2>2
<1> QED BY <1>1, <1>2

\* A list of pi's that fits what is shown is what is shown afterwards.
LEMMA ReconcileIs ==
    ASSUME NEW c, Whole(c), NEW held \in Seq(Texts), NEW d, d = Reconcile(c, held),
           Single(c.queue), Single(held), Fits(c.queue, held)
    PROVE  /\ Single(d.queue) /\ Range(d.queue) = Range(held) /\ Full(d.queue, held)
           /\ \A i \in DOMAIN d.queue :
                 i < c.next => i \in DOMAIN c.queue /\ d.queue[i] = c.queue[i]
<1> DEFINE stay == {i \in DOMAIN c.queue : c.queue[i] \in Range(held)}
           new == {n \in DOMAIN held : held[n] \notin Range(c.queue)}
           nth(list, i) == Cardinality({j \in DOMAIN list : j <= i /\ list[j] = list[i]})
           count(list, t) == Cardinality({j \in DOMAIN list : list[j] = t})
<1>1. /\ c.next \in Nat \ {0} /\ DOMAIN c.queue \subseteq Nat \ {0}
      /\ \A i \in DOMAIN c.queue : i < c.next
      /\ DOMAIN held = 1..Len(held) /\ Len(held) \in Nat
  BY WholeParts
<1>2. {i \in DOMAIN c.queue : nth(c.queue, i) <= count(held, c.queue[i])} = stay
  <2>1. ASSUME NEW i \in DOMAIN c.queue
        PROVE  nth(c.queue, i) <= count(held, c.queue[i]) <=> c.queue[i] \in Range(held)
    <3>1. nth(c.queue, i) = 1
      <4>1. i <= i
        BY <1>1
      <4> QED BY <4>1, SingleCounts, Zenon
    <3>2. count(held, c.queue[i]) = IF c.queue[i] \in Range(held) THEN 1 ELSE 0
      BY SingleCounts
    <3> HIDE DEF nth, count
    <3> QED BY <3>1, <3>2
  <2> HIDE DEF nth, count
  <2> QED BY <2>1
<1>3. {n \in DOMAIN held : nth(held, n) > count(c.queue, held[n])} = new
  <2>1. ASSUME NEW n \in DOMAIN held
        PROVE  nth(held, n) > count(c.queue, held[n]) <=> held[n] \notin Range(c.queue)
    <3>1. nth(held, n) = 1
      <4>1. n <= n
        BY <1>1
      <4> QED BY <4>1, SingleCounts, Zenon
    <3>2. count(c.queue, held[n]) = IF held[n] \in Range(c.queue) THEN 1 ELSE 0
      BY SingleCounts
    <3> HIDE DEF nth, count
    <3> QED BY <3>1, <3>2
  <2> HIDE DEF nth, count
  <2> QED BY <2>1
<1>4. d = Enqueue(c, stay, held, new)
  BY <1>2, <1>3 DEF Reconcile
<1>5. /\ stay \in SUBSET DOMAIN c.queue /\ \A i \in stay : c.queue[i] \in Range(held)
      /\ \A i \in DOMAIN c.queue : c.queue[i] \in Range(held) => i \in stay
      /\ new \in SUBSET DOMAIN held /\ \A n \in new : held[n] \notin Range(c.queue)
      /\ \A n \in DOMAIN held : held[n] \notin Range(c.queue) => n \in new
  OBVIOUS
<1> HIDE DEF stay, new
<1>6. Merges(c, stay, held, new, d)
  BY <1>4, <1>5, EnqueueIs
<1>7. /\ \A i \in DOMAIN d.queue : i \in stay \/ \E n \in new : i = c.next + n - 1
      /\ \A i \in stay : i \in DOMAIN d.queue /\ d.queue[i] = c.queue[i] /\ i \in DOMAIN c.queue
                         /\ i < c.next /\ i \in Nat
      /\ \A n \in new : /\ c.next + n - 1 \in DOMAIN d.queue /\ n \in DOMAIN held
                        /\ d.queue[c.next + n - 1] = held[n] /\ c.next <= c.next + n - 1
  BY <1>1, <1>5, <1>6 DEF Merges
<1>8. Single(d.queue)
  <2> SUFFICES ASSUME NEW i \in DOMAIN d.queue, NEW j \in DOMAIN d.queue,
                      d.queue[i] = d.queue[j]
               PROVE  i = j
    BY DEF Single
  <2>1. CASE i \in stay /\ j \in stay
    BY <1>7, <2>1 DEF Single
  <2>2. \A k, h \in DOMAIN d.queue : k \in stay => ~(\E n \in new : /\ h = c.next + n - 1
                                                                   /\ d.queue[k] = d.queue[h])
    BY <1>5, <1>7 DEF Range
  <2>3. CASE \E m, n \in new : i = c.next + m - 1 /\ j = c.next + n - 1
    BY <1>7, <2>3 DEF Single
  <2> QED BY <1>7, <2>1, <2>2, <2>3
<1>9. Range(d.queue) = Range(held)
  <2>1. ASSUME NEW i \in DOMAIN d.queue PROVE d.queue[i] \in Range(held)
    BY <1>5, <1>7 DEF Range
  <2>2. ASSUME NEW n \in DOMAIN held PROVE \E i \in DOMAIN d.queue : d.queue[i] = held[n]
    <3>1. CASE held[n] \in Range(c.queue)
      <4>1. PICK i \in DOMAIN c.queue : c.queue[i] = held[n]
        BY <3>1 DEF Range
      <4>2. c.queue[i] \in Range(held)
        BY <4>1 DEF Range
      <4> QED BY <1>5, <1>7, <4>1, <4>2
    <3>2. CASE held[n] \notin Range(c.queue)
      BY <1>5, <1>7, <3>2
    <3> QED BY <3>1, <3>2
  <2> QED BY <2>1, <2>2 DEF Range
<1>10. Fits(d.queue, held)
  <2> SUFFICES ASSUME NEW i \in DOMAIN d.queue, NEW m \in DOMAIN held, d.queue[i] = held[m],
                      NEW n \in DOMAIN held, n < m
               PROVE  \E j \in DOMAIN d.queue : j < i /\ d.queue[j] = held[n]
    BY DEF Fits
  <2>1. CASE i \in stay
    <3>1. PICK j \in DOMAIN c.queue : j < i /\ c.queue[j] = held[n]
      BY <1>7, <2>1 DEF Fits
    <3>2. c.queue[j] \in Range(held)
      BY <3>1 DEF Range
    <3> QED BY <1>5, <1>7, <3>1, <3>2
  <2>2. CASE i \notin stay
    <3>1. PICK h \in new : i = c.next + h - 1
      BY <1>7, <2>2
    <3>2. h = m
      BY <1>7, <3>1 DEF Single
    <3>3. CASE held[n] \in Range(c.queue)
      <4>1. PICK j \in DOMAIN c.queue : c.queue[j] = held[n]
        BY <3>3 DEF Range
      <4>2. c.queue[j] \in Range(held)
        BY <4>1 DEF Range
      <4>3. j \in stay
        BY <1>5, <4>2
      <4>4. j < i
        BY <1>1, <1>7, <3>1, <4>3
      <4> QED BY <1>7, <4>1, <4>3, <4>4
    <3>4. CASE held[n] \notin Range(c.queue)
      <4>1. n \in new
        BY <1>5, <3>4
      <4>2. c.next + n - 1 < i
        BY <1>1, <3>1, <3>2
      <4> QED BY <1>7, <4>1, <4>2
    <3> QED BY <3>3, <3>4
  <2> QED BY <2>1, <2>2
<1>11. Full(d.queue, held)
  <2>1. \A j \in DOMAIN d.queue : d.queue[j] \in Range(held)
    BY <1>9 DEF Range
  <2> QED BY <1>9, <1>10, <2>1 DEF Full
<1>12. \A i \in DOMAIN d.queue : i < c.next => i \in DOMAIN c.queue /\ d.queue[i] = c.queue[i]
  <2>1. \A n \in new : ~(c.next + n - 1 < c.next)
    BY <1>1, <1>5
  <2> QED BY <1>7, <2>1
<1> QED BY <1>8, <1>9, <1>11, <1>12

\* Where a text may be on its way: asked of pi as a follow-up, listed on the stream, held by an
\* abort to be sent again, said as a prompt or a steer, echoed on the stream
Asks(s) == controls[s].st = "sent" /\ controls[s].mode = "follow_up"
Asked(t) == \E s \in Senders : Asks(s) /\ controls[s].text = t
Listed(t) == \E e \in Range(wire) : t \in Range(e.q)
Again(t) == abort.st = "resuming" /\ t \in Range(abort.held)
Spoken(t) == \/ t \in Range(pi.steering)
             \/ \E s \in Senders : prompts[s].st = "sent" /\ prompts[s].text = t
             \/ \E s \in Senders : /\ controls[s].st = "sent" /\ controls[s].mode = "steer"
                                   /\ controls[s].text = t
Echoes(t) == \E e \in Range(wire) : e.k \in {"start", "end"} /\ e.t = t

\* A follow-up is in one of these places.
StagesInv ==
    /\ \A t : Asked(t) => ~Listed(t) /\ t \notin Range(pi.followUp)
    /\ \A t : Again(t) => /\ ~Listed(t) /\ ~Asked(t)
                          /\ t \notin Range(pi.followUp) /\ t \notin Range(tab.queue)
    /\ \A t : Spoken(t) => /\ ~Listed(t) /\ ~Asked(t) /\ t \notin Range(pi.followUp)
                           /\ t \notin Range(tab.queue) /\ t \notin Range(abort.held)
    /\ \A t : Echoes(t) => ~Asked(t) /\ ~Again(t)

SinglesInv ==
    /\ Single(tab.queue) /\ Single(pi.followUp) /\ \A e \in Range(wire) : Single(e.q)
    /\ abort.st = "resuming" => Single(abort.held)
    /\ \A s, r \in Senders : Asks(s) /\ Asks(r) /\ controls[s].text = controls[r].text => s = r

\* What is shown and not held by pi, when the stream says nothing else, is still being sent.
PendingInv ==
    /\ \A s \in Senders : controls[s].st # "none" /\ controls[s].id \in DOMAIN tab.queue =>
           tab.queue[controls[s].id] = controls[s].text
    /\ QueuesOf(wire) = {} => \A i \in DOMAIN tab.queue :
           \/ tab.queue[i] \in Range(pi.followUp)
           \/ \E s \in Senders : controls[s].st \in {"sent", "failed"} /\ controls[s].id = i

QueueParts == /\ StagesInv /\ SinglesInv /\ PendingInv
              /\ Ordered(wire, tab.queue, pi.followUp)

QueueInv == ~Excused({"rollback", "resent", "cleared"}) => QueueParts

\* A text nobody has written yet is in none of these places.
LEMMA FreshIsNew ==
    ASSUME UsedInv, NEW t \in Fresh
    PROVE  /\ ~Asked(t) /\ ~Listed(t) /\ ~Spoken(t) /\ ~Echoes(t)
           /\ t \notin Range(pi.followUp) /\ t \notin Range(tab.queue)
           /\ t \notin Range(abort.held)
<1>1. t \notin told.used /\ t # None
  BY TextsAssumption DEF Fresh
<1> QED BY <1>1 DEF UsedInv, Asked, Asks, Listed, Spoken, Echoes, PiHolds

\* ---- What pi does with the queue ----

\* What pi's steps add to the stream
LEMMA StreamMore ==
    ASSUME NEW w \in Seq(Events), NEW l, NEW f, Ordered(w, l, f)
    PROVE  /\ \A e \in Events : e.k \notin {"queue", "start", "end"} /\ e.q = <<>> =>
                 /\ Append(w, e) \in Seq(Events) /\ Ordered(Append(w, e), l, f)
                 /\ QueuesOf(Append(w, e)) = {} => QueuesOf(w) = {}
                 /\ \A x \in Range(Append(w, e)) : x \in Range(w) \/ x = e
           /\ \A t \in Texts : t \notin Range(f) =>
                 /\ w \o Echo(t) \in Seq(Events) /\ Ordered(w \o Echo(t), l, f)
                 /\ QueuesOf(w \o Echo(t)) = {} => QueuesOf(w) = {}
                 /\ \A x \in Range(w \o Echo(t)) : \/ x \in Range(w)
                                                   \/ (x.t = t /\ x.q = <<>>)
           /\ /\ w \o RunEnds \in Seq(Events) /\ Ordered(w \o RunEnds, l, f)
              /\ QueuesOf(w \o RunEnds) = {} => QueuesOf(w) = {}
              /\ \A x \in Range(w \o RunEnds) : \/ x \in Range(w)
                                                \/ x.k \notin {"start", "end"} /\ x.q = <<>>
<1>1. ASSUME NEW v \in Seq(Events), NEW e \in Events
      PROVE  /\ Append(v, e) \in Seq(Events) /\ QueuesOf(v) \subseteq QueuesOf(Append(v, e))
             /\ \A x \in Range(Append(v, e)) : x \in Range(v) \/ x = e
  <2>1. Append(v, e) \in Seq(Events) /\ \A i \in DOMAIN v : /\ i \in DOMAIN Append(v, e)
                                                            /\ Append(v, e)[i] = v[i]
    OBVIOUS
  <2> QED BY <2>1, RangeParts DEF QueuesOf
<1>2. ASSUME NEW a \in Events, NEW b \in Events, NEW t,
             a.k # "queue", a.q = <<>>, a.k \in {"start", "end"} => a.t \notin Range(f),
             b.k # "queue", b.q = <<>>, b.k \in {"start", "end"} => b.t \notin Range(f)
      PROVE  /\ w \o <<a, b>> \in Seq(Events) /\ Ordered(w \o <<a, b>>, l, f)
             /\ QueuesOf(w \o <<a, b>>) = {} => QueuesOf(w) = {}
             /\ \A x \in Range(w \o <<a, b>>) : x \in Range(w) \/ x = a \/ x = b
  <2> DEFINE v == Append(w, a)
  <2>1. w \o <<a, b>> = Append(v, b)
    OBVIOUS
  <2>2. /\ v \in Seq(Events) /\ QueuesOf(w) \subseteq QueuesOf(v)
        /\ \A x \in Range(v) : x \in Range(w) \/ x = a
    BY <1>1
  <2>3. Ordered(v, l, f)
    BY <1>2, OrderedMore
  <2> HIDE DEF v
  <2>4. /\ Append(v, b) \in Seq(Events) /\ QueuesOf(v) \subseteq QueuesOf(Append(v, b))
        /\ \A x \in Range(Append(v, b)) : x \in Range(v) \/ x = b
    BY <1>1, <2>2
  <2>5. Ordered(Append(v, b), l, f)
    BY <1>2, <2>2, <2>3, OrderedMore
  <2> QED BY <2>1, <2>2, <2>4, <2>5
<1>3. ASSUME NEW e \in Events, e.k \notin {"queue", "start", "end"}, e.q = <<>>
      PROVE  /\ Append(w, e) \in Seq(Events) /\ Ordered(Append(w, e), l, f)
             /\ QueuesOf(Append(w, e)) = {} => QueuesOf(w) = {}
             /\ \A x \in Range(Append(w, e)) : x \in Range(w) \/ x = e
  BY <1>1, <1>3, OrderedMore
<1>4. ASSUME NEW t \in Texts, t \notin Range(f)
      PROVE  /\ w \o Echo(t) \in Seq(Events) /\ Ordered(w \o Echo(t), l, f)
             /\ QueuesOf(w \o Echo(t)) = {} => QueuesOf(w) = {}
             /\ \A x \in Range(w \o Echo(t)) : x \in Range(w) \/ (x.t = t /\ x.q = <<>>)
  <2>1. PICK a \in Events, b \in Events : /\ Echo(t) = <<a, b>>
                                          /\ a.k = "start" /\ b.k = "end" /\ a.t = t /\ b.t = t
                                          /\ a.q = <<>> /\ b.q = <<>>
    <3> DEFINE a == Event("start", t, <<>>)
               b == Event("end", t, <<>>)
    <3>1. <<>> \in Seq(Texts) /\ t \in Words
      BY DEF Words
    <3>2. a \in Events /\ b \in Events /\ a.k = "start" /\ b.k = "end" /\ a.t = t /\ b.t = t
          /\ a.q = <<>> /\ b.q = <<>>
      BY <3>1 DEF Event, Events, Kinds
    <3>3. Echo(t) = <<a, b>>
      BY DEF Echo
    <3> QED BY <3>2, <3>3
  <2>2. /\ w \o <<a, b>> \in Seq(Events) /\ Ordered(w \o <<a, b>>, l, f)
        /\ QueuesOf(w \o <<a, b>>) = {} => QueuesOf(w) = {}
        /\ \A x \in Range(w \o <<a, b>>) : x \in Range(w) \/ x = a \/ x = b
    <3>1. /\ a.k # "queue" /\ b.k # "queue" /\ a.t \notin Range(f) /\ b.t \notin Range(f)
      BY <1>4, <2>1
    <3> QED BY <1>2, <2>1, <3>1
  <2> QED BY <2>1, <2>2
<1>5. /\ w \o RunEnds \in Seq(Events) /\ Ordered(w \o RunEnds, l, f)
      /\ QueuesOf(w \o RunEnds) = {} => QueuesOf(w) = {}
      /\ \A x \in Range(w \o RunEnds) : \/ x \in Range(w)
                                        \/ x.k \notin {"start", "end"} /\ x.q = <<>>
  <2>1. PICK a \in Events, b \in Events : /\ RunEnds = <<a, b>>
                                          /\ a.k = "agent_end" /\ b.k = "settled"
                                          /\ a.q = <<>> /\ b.q = <<>>
    <3> DEFINE a == Event("agent_end", None, <<>>)
               b == Event("settled", None, <<>>)
    <3>1. <<>> \in Seq(Texts) /\ None \in Words
      BY DEF Words
    <3>2. a \in Events /\ b \in Events /\ a.k = "agent_end" /\ b.k = "settled"
          /\ a.q = <<>> /\ b.q = <<>>
      BY <3>1 DEF Event, Events, Kinds
    <3>3. RunEnds = <<a, b>>
      BY DEF RunEnds
    <3> QED BY <3>2, <3>3
  <2> QED BY <1>2, <2>1
<1> QED BY <1>3, <1>4, <1>5

\* The same for one event, for an echo and for the end of a run
LEMMA StreamEvent ==
    ASSUME NEW w \in Seq(Events), NEW l, NEW f, Ordered(w, l, f),
           NEW e \in Events, e.k \notin {"queue", "start", "end"}, e.q = <<>>
    PROVE  /\ Ordered(Append(w, e), l, f)
           /\ QueuesOf(Append(w, e)) = {} => QueuesOf(w) = {}
           /\ \A x \in Range(Append(w, e)) : x \in Range(w) \/ x = e
  BY StreamMore

LEMMA StreamEcho ==
    ASSUME NEW w \in Seq(Events), NEW l, NEW f, Ordered(w, l, f),
           NEW t \in Texts, t \notin Range(f)
    PROVE  /\ Ordered(w \o Echo(t), l, f)
           /\ QueuesOf(w \o Echo(t)) = {} => QueuesOf(w) = {}
           /\ \A x \in Range(w \o Echo(t)) : x \in Range(w) \/ (x.t = t /\ x.q = <<>>)
  BY StreamMore

LEMMA StreamEnds ==
    ASSUME NEW w \in Seq(Events), NEW l, NEW f, Ordered(w, l, f)
    PROVE  /\ Ordered(w \o RunEnds, l, f)
           /\ QueuesOf(w \o RunEnds) = {} => QueuesOf(w) = {}
           /\ \A x \in Range(w \o RunEnds) : \/ x \in Range(w)
                                             \/ x.k \notin {"start", "end"} /\ x.q = <<>>
  BY StreamMore

\* The stream gets pi's new list.
LEMMA StreamQueue ==
    ASSUME NEW w \in Seq(Events), NEW l \in Lists(Texts), NEW f \in Seq(Texts),
           Ordered(w, l, f), NEW g \in Seq(Texts), Leads(f, g),
           \A e \in Range(w) : e.k \in {"start", "end"} => e.t \notin Range(g)
    PROVE  /\ Append(w, Queued(g)) \in Seq(Events) /\ Ordered(Append(w, Queued(g)), l, g)
           /\ QueuesOf(Append(w, Queued(g))) # {}
           /\ \A x \in Range(Append(w, Queued(g))) :
                 x \in Range(w) \/ (x.k \notin {"start", "end"} /\ x.q = g)
<1>1. Queued(g) \in Events /\ Queued(g).k = "queue" /\ Queued(g).q = g
  BY EventsAre
<1>2. /\ Append(w, Queued(g)) \in Seq(Events)
      /\ Len(w) + 1 \in DOMAIN Append(w, Queued(g))
      /\ Append(w, Queued(g))[Len(w) + 1] = Queued(g)
  BY <1>1
<1>3. QueuesOf(Append(w, Queued(g))) # {}
  BY <1>1, <1>2 DEF QueuesOf
<1>4. \A x \in Range(Append(w, Queued(g))) : x \in Range(w) \/ x = Queued(g)
  BY RangeParts
<1>5. Ordered(Append(w, Queued(g)), l, g)
  BY OrderedQueue
<1>6. \A x \in Range(Append(w, Queued(g))) :
         x \in Range(w) \/ (x.k \notin {"start", "end"} /\ x.q = g)
  BY <1>1, <1>4
<1> QED BY <1>2, <1>3, <1>5, <1>6

\* A step of pi, as the queue sees it, that takes new texts for follow-ups
Streams(new) ==
    /\ Ordered(wire', tab.queue, pi'.followUp) /\ Single(pi'.followUp)
    /\ QueuesOf(wire') = {} => QueuesOf(wire) = {} /\ pi'.followUp = pi.followUp
    /\ \A e \in Range(wire') \ Range(wire) :
          /\ e.q = <<>> \/ e.q = pi'.followUp
          /\ e.k \in {"start", "end"} => Spoken(e.t) \/ e.t \in Range(pi.followUp)
    /\ Range(pi'.followUp) \subseteq Range(pi.followUp) \cup new
    /\ \A t \in Range(pi'.steering) : Spoken(t)

\* What the invariants say of the stream and of pi's lists
LEMMA StreamParts ==
    ASSUME QueueParts, TypeInv
    PROVE  /\ wire \in Seq(Events) /\ tab.queue \in Lists(Texts) /\ pi.followUp \in Seq(Texts)
           /\ pi.steering \in Seq(Texts) /\ pi \in Pis
           /\ Ordered(wire, tab.queue, pi.followUp) /\ Single(pi.followUp)
           /\ \A t \in Range(pi.steering) : Spoken(t) /\ t \in Texts
           /\ \A t : Spoken(t) => t \notin Range(pi.followUp)
           /\ \A e \in Range(wire) : e.k \in {"start", "end"} => e.t \notin Range(pi.followUp)
<1>1. /\ wire \in Seq(Events) /\ tab.queue \in Lists(Texts) /\ pi.followUp \in Seq(Texts)
      /\ pi.steering \in Seq(Texts) /\ pi \in Pis
  BY WholeParts DEF TypeInv, PiInv, Pis, Sound
<1>2. /\ Ordered(wire, tab.queue, pi.followUp) /\ Single(pi.followUp)
      /\ \A t : Spoken(t) => t \notin Range(pi.followUp)
  BY DEF QueueParts, SinglesInv, StagesInv
<1>3. \A t \in Range(pi.steering) : Spoken(t) /\ t \in Texts
  BY <1>1, RangeParts DEF Spoken
<1>4. \A e \in Range(wire) : e.k \in {"start", "end"} => e.t \notin Range(pi.followUp)
  BY <1>2 DEF Ordered, Range
<1> QED BY <1>1, <1>2, <1>3, <1>4

\* The stream gets nothing that names a queue.
LEMMA StreamsOn ==
    ASSUME QueueParts, TypeInv, pi'.followUp = pi.followUp,
           \A t \in Range(pi'.steering) : Spoken(t),
           \/ wire' = wire
           \/ \E e \in Events : /\ e.k \notin {"queue", "start", "end"} /\ e.q = <<>>
                                /\ wire' = Append(wire, e)
           \/ \E t \in Texts : Spoken(t) /\ wire' = wire \o Echo(t)
           \/ wire' = wire \o RunEnds
    PROVE  Streams({})
<1>1. /\ wire \in Seq(Events) /\ Ordered(wire, tab.queue, pi.followUp) /\ Single(pi.followUp)
      /\ \A t : Spoken(t) => t \notin Range(pi.followUp)
  BY StreamParts
<1>2. /\ Ordered(wire', tab.queue, pi.followUp)
      /\ QueuesOf(wire') = {} => QueuesOf(wire) = {}
      /\ \A e \in Range(wire') \ Range(wire) :
            e.q = <<>> /\ (e.k \in {"start", "end"} => Spoken(e.t))
  <2>1. CASE wire' = wire
    BY <1>1, <2>1
  <2>2. CASE \E e \in Events : /\ e.k \notin {"queue", "start", "end"} /\ e.q = <<>>
                               /\ wire' = Append(wire, e)
    BY <1>1, <2>2, StreamEvent
  <2>3. CASE \E t \in Texts : Spoken(t) /\ wire' = wire \o Echo(t)
    <3>1. PICK t \in Texts : Spoken(t) /\ wire' = wire \o Echo(t)
      BY <2>3
    <3>2. /\ Ordered(wire', tab.queue, pi.followUp)
          /\ QueuesOf(wire') = {} => QueuesOf(wire) = {}
          /\ \A x \in Range(wire') : x \in Range(wire) \/ (x.t = t /\ x.q = <<>>)
      BY <1>1, <3>1, StreamEcho
    <3> QED BY <3>1, <3>2
  <2>4. CASE wire' = wire \o RunEnds
    BY <1>1, <2>4, StreamEnds
  <2> QED BY <2>1, <2>2, <2>3, <2>4
<1> QED BY <1>1, <1>2 DEF Streams

\* What follows pi's new list, g, on the stream: nothing, the end of the run, or the echo of
\* what was taken from the list
Then(v, g, S, w) ==
    \/ w = v
    \/ w = v \o RunEnds
    \/ \E t \in Texts : t \in S /\ t \notin Range(g) /\ w = v \o Echo(t)

LEMMA StreamThen ==
    ASSUME NEW v \in Seq(Events), NEW l, NEW g, Ordered(v, l, g), QueuesOf(v) # {},
           NEW S, NEW w, Then(v, g, S, w)
    PROVE  /\ Ordered(w, l, g) /\ QueuesOf(w) # {}
           /\ \A x \in Range(w) : \/ x \in Range(v)
                                  \/ x.q = <<>> /\ (x.k \in {"start", "end"} => x.t \in S)
<1>1. CASE w = v
  BY <1>1
<1>2. CASE w = v \o RunEnds
  BY <1>2, StreamEnds
<1>3. CASE \E t \in Texts : t \in S /\ t \notin Range(g) /\ w = v \o Echo(t)
  <2>1. PICK t \in Texts : t \in S /\ t \notin Range(g) /\ w = v \o Echo(t)
    BY <1>3
  <2>2. PICK u : u = v \o Echo(t)
    OBVIOUS
  <2>3. /\ Ordered(u, l, g) /\ (QueuesOf(u) = {} => QueuesOf(v) = {})
        /\ \A x \in Range(u) : x \in Range(v) \/ (x.t = t /\ x.q = <<>>)
    BY <2>1, <2>2, StreamEcho
  <2> QED BY <2>1, <2>2, <2>3
<1> QED BY <1>1, <1>2, <1>3 DEF Then

\* Pi's list changes, the stream says how, and the run ends or the model is shown a message.
LEMMA StreamsList ==
    ASSUME QueueParts, TypeInv, NEW g, pi'.followUp = g, g \in Seq(Texts),
           Leads(pi.followUp, g), Single(g),
           \A t \in Range(pi'.steering) : Spoken(t),
           \A e \in Range(wire) : e.k \in {"start", "end"} => e.t \notin Range(g),
           \/ wire' = Append(wire, Queued(g))
           \/ wire' = Append(wire, Queued(g)) \o RunEnds
           \/ \E t \in Texts : /\ t \in Range(pi.followUp) /\ t \notin Range(g)
                               /\ wire' = Append(wire, Queued(g)) \o Echo(t)
    PROVE  Streams(Range(g))
<1> DEFINE v == Append(wire, Queued(g))
<1>1. /\ wire \in Seq(Events) /\ tab.queue \in Lists(Texts) /\ pi.followUp \in Seq(Texts)
      /\ Ordered(wire, tab.queue, pi.followUp)
  BY StreamParts
<1>2. /\ v \in Seq(Events) /\ Ordered(v, tab.queue, g) /\ QueuesOf(v) # {}
      /\ \A x \in Range(v) : x \in Range(wire) \/ (x.k \notin {"start", "end"} /\ x.q = g)
  BY <1>1, StreamQueue
<1>3. \/ wire' = v
      \/ wire' = v \o RunEnds
      \/ \E t \in Texts : /\ t \in Range(pi.followUp) /\ t \notin Range(g)
                          /\ wire' = v \o Echo(t)
  OBVIOUS
<1> HIDE DEF v
<1>4. /\ Ordered(wire', tab.queue, g) /\ QueuesOf(wire') # {}
      /\ \A x \in Range(wire') : \/ x \in Range(v)
                                 \/ /\ x.q = <<>>
                                    /\ x.k \in {"start", "end"} => x.t \in Range(pi.followUp)
  <2>1. PICK l : l = tab.queue
    OBVIOUS
  <2>2. PICK w : w = wire'
    OBVIOUS
  <2>3. PICK S : S = Range(pi.followUp)
    OBVIOUS
  <2>4. /\ v \in Seq(Events) /\ Ordered(v, l, g) /\ QueuesOf(v) # {}
        /\ Then(v, g, S, w)
    BY <1>2, <1>3, <2>1, <2>2, <2>3 DEF Then
  <2>5. /\ Ordered(w, l, g) /\ QueuesOf(w) # {}
        /\ \A x \in Range(w) : \/ x \in Range(v)
                               \/ x.q = <<>> /\ (x.k \in {"start", "end"} => x.t \in S)
    BY <2>4, StreamThen
  <2> QED BY <2>1, <2>2, <2>3, <2>5
<1> QED BY <1>2, <1>4 DEF Streams

\* A step of pi that takes what was asked of it keeps the queue in order.
LEMMA QueueOfPi ==
    ASSUME QueueParts, NEW new, Streams(new), UNCHANGED tab, abort'.held = abort.held,
           abort'.st = "resuming" => abort.st = "resuming",
           \A t \in new : t \in Range(pi.followUp) \/ (Asked(t) /\ ~Asked(t)'),
           \A s \in Senders :
              /\ prompts'[s].text = prompts[s].text
              /\ prompts'[s].st = "sent" => prompts[s].st = "sent"
              /\ controls'[s].text = controls[s].text /\ controls'[s].mode = controls[s].mode
              /\ controls'[s].id = controls[s].id
              /\ controls'[s].st = "sent" => controls[s].st = "sent"
              /\ controls'[s].st # "none" => controls[s].st # "none"
              /\ \/ controls[s].st \in {"sent", "failed"} => controls'[s].st \in {"sent", "failed"}
                 \/ controls[s].id \notin DOMAIN tab.queue
                 \/ QueuesOf(wire') # {}
    PROVE  QueueParts'
<1>0. StagesInv /\ SinglesInv /\ PendingInv
  BY DEF QueueParts
<1>1. /\ \A t : Asked(t)' => Asked(t)
      /\ \A t : Again(t)' => Again(t)
      /\ \A t : Spoken(t)' => Spoken(t)
      /\ \A s \in Senders : Asks(s)' => Asks(s)
  BY DEF Asked, Asks, Again, Spoken, Streams
<1>2. \A t \in Range(pi'.followUp) : t \in Range(pi.followUp) \/ (Asked(t) /\ ~Asked(t)')
  BY DEF Streams
<1>3. ASSUME NEW t, Listed(t)' PROVE Listed(t) \/ t \in Range(pi'.followUp)
  <2>1. PICK e \in Range(wire') : t \in Range(e.q)
    BY <1>3 DEF Listed
  <2>2. Range(<<>>) = {}
    BY DEF Range
  <2> QED BY <2>1, <2>2 DEF Streams, Listed
<1>4. ASSUME NEW t, Echoes(t)' PROVE Echoes(t) \/ Spoken(t) \/ t \in Range(pi.followUp)
  BY <1>4 DEF Streams, Echoes
<1>5. StagesInv'
  <2>1. \A t : Asked(t)' => ~Listed(t)' /\ t \notin Range(pi'.followUp)
    BY <1>0, <1>1, <1>2, <1>3 DEF StagesInv
  <2>2. \A t : Again(t)' => /\ ~Listed(t)' /\ ~Asked(t)'
                            /\ t \notin Range(pi'.followUp) /\ t \notin Range(tab'.queue)
    BY <1>0, <1>1, <1>2, <1>3 DEF StagesInv
  <2>3. \A t : Spoken(t)' => /\ ~Listed(t)' /\ ~Asked(t)' /\ t \notin Range(pi'.followUp)
                             /\ t \notin Range(tab'.queue) /\ t \notin Range(abort'.held)
    BY <1>0, <1>1, <1>2, <1>3 DEF StagesInv
  <2>4. \A t : Echoes(t)' => ~Asked(t)' /\ ~Again(t)'
    <3>1. \A t : Again(t) => t \in Range(abort.held)
      BY DEF Again
    <3> QED BY <1>0, <1>1, <1>4, <3>1 DEF StagesInv
  <2> QED BY <2>1, <2>2, <2>3, <2>4 DEF StagesInv
<1>6. SinglesInv'
  <2>1. \A e \in Range(wire') : Single(e.q)
    <3>1. Single(<<>>) /\ Single(pi'.followUp)
      BY DEF Single, Streams
    <3> QED BY <1>0, <3>1 DEF Streams, SinglesInv
  <2> QED BY <1>0, <1>1, <2>1 DEF SinglesInv, Streams
<1>7. PendingInv'
  BY <1>0 DEF PendingInv, Streams
<1> QED BY <1>5, <1>6, <1>7 DEF QueueParts, Streams

\* Events that name no queue and echo nothing
LEMMA EventsOfPi ==
    /\ \A t \in Words : /\ Event("reply", t, <<>>) \in Events
                        /\ Event("reply", t, <<>>).k = "reply"
                        /\ Event("reply", t, <<>>).q = <<>>
    /\ /\ Event("agent_end", None, <<>>) \in Events
       /\ Event("agent_end", None, <<>>).k = "agent_end"
       /\ Event("agent_end", None, <<>>).q = <<>>
<1>1. <<>> \in Seq(Texts) /\ None \in Words
  BY DEF Words
<1> QED BY <1>1 DEF Event, Events, Kinds

\* A run shows the model a message, replies, retries or settles.
LEMMA StreamsOfRun ==
    ASSUME QueueParts, TypeInv, Runtime
    PROVE  /\ \E new : Streams(new) /\ \A t \in new : t \in Range(pi.followUp)
           /\ UNCHANGED <<tab, prompts, controls, abort>>
<1>1. /\ wire \in Seq(Events) /\ pi.followUp \in Seq(Texts) /\ pi.steering \in Seq(Texts)
      /\ pi \in Pis /\ Single(pi.followUp) /\ pi.on \in Words
      /\ \A t \in Range(pi.steering) : Spoken(t) /\ t \in Texts
      /\ \A e \in Range(wire) : e.k \in {"start", "end"} => e.t \notin Range(pi.followUp)
  BY StreamParts DEF Pis
<1>2. UNCHANGED <<tab, prompts, controls, abort>>
  BY DEF Runtime, PiDelivers, PiReplies, PiRetries, PiSettles, Works
<1> DEFINE Good == \E new : Streams(new) /\ \A t \in new : t \in Range(pi.followUp)
<1> SUFFICES Good
  BY <1>2
<1>3. Streams({}) => Good
  OBVIOUS
<1> HIDE DEF Good
<1>4. CASE pi.steering # <<>> /\ pi' = [pi EXCEPT !.on = Head(pi.steering), !.steering = Tail(@)]
           /\ wire' = wire \o Echo(Head(pi.steering))
  <2>1. Head(pi.steering) \in Range(pi.steering)
        /\ Range(Tail(pi.steering)) \subseteq Range(pi.steering)
    BY <1>1, <1>4, RangeParts
  <2>2. pi'.followUp = pi.followUp /\ pi'.steering = Tail(pi.steering)
    BY <1>1, <1>4 DEF Pis
  <2>3. PICK t \in Texts : Spoken(t) /\ wire' = wire \o Echo(t)
    BY <1>1, <1>4, <2>1
  <2>4. \A u \in Range(pi'.steering) : Spoken(u)
    BY <1>1, <2>1, <2>2
  <2> QED BY <1>3, <2>2, <2>3, <2>4, StreamsOn
<1>5. CASE pi.followUp # <<>> /\ pi' = [pi EXCEPT !.on = Head(pi.followUp), !.followUp = Tail(@)]
           /\ wire' = Append(wire, Queued(Tail(pi.followUp))) \o Echo(Head(pi.followUp))
  <2>1. PICK g : g = Tail(pi.followUp)
    OBVIOUS
  <2>2. PICK t : t = Head(pi.followUp)
    OBVIOUS
  <2>3. /\ t \in Range(pi.followUp) /\ t \in Texts /\ g \in Seq(Texts)
        /\ Range(g) \subseteq Range(pi.followUp)
    BY <1>1, <1>5, <2>1, <2>2, RangeParts
  <2>4. Leads(pi.followUp, g) /\ Single(g) /\ t \notin Range(g)
    BY <1>1, <1>5, <2>1, <2>2, LeadsSome
  <2>5. pi'.followUp = g /\ pi'.steering = pi.steering
    BY <1>1, <1>5, <2>1 DEF Pis
  <2>6. wire' = Append(wire, Queued(g)) \o Echo(t)
    BY <1>5, <2>1, <2>2
  <2>7. \A e \in Range(wire) : e.k \in {"start", "end"} => e.t \notin Range(g)
    BY <1>1, <2>3
  <2>8. \A u \in Range(pi'.steering) : Spoken(u)
    BY <1>1, <2>5
  <2>9. Streams(Range(g))
    BY <2>3, <2>4, <2>5, <2>6, <2>7, <2>8, StreamsList
  <2> QED BY <2>3, <2>9 DEF Good
<1>6. CASE \/ PiReplies \/ PiRetries \/ PiSettles
  <2>1. pi'.followUp = pi.followUp /\ pi'.steering = pi.steering
    BY <1>1, <1>6 DEF PiReplies, PiRetries, PiSettles, Works, Pis
  <2>2. \/ \E e \in Events : /\ e.k \notin {"queue", "start", "end"} /\ e.q = <<>>
                             /\ wire' = Append(wire, e)
        \/ wire' = wire \o RunEnds
    <3>1. CASE PiReplies
      BY <1>1, <3>1, EventsOfPi DEF PiReplies
    <3>2. CASE PiRetries
      BY <3>2, EventsOfPi DEF PiRetries
    <3>3. CASE PiSettles
      BY <3>3 DEF PiSettles
    <3> QED BY <1>6, <3>1, <3>2, <3>3
  <2> QED BY <1>1, <1>3, <2>1, <2>2, StreamsOn
<1> QED BY <1>4, <1>5, <1>6 DEF Runtime, PiDelivers, Works

\* A prompt starts a run.
LEMMA StreamsOfStart ==
    ASSUME QueueParts, TypeInv, NEW t \in Texts, Spoken(t),
           Starts(t) \/ UNCHANGED <<pi, wire>>
    PROVE  Streams({})
<1>1. pi \in Pis /\ \A u \in Range(pi.steering) : Spoken(u)
  BY StreamParts
<1>2. pi'.followUp = pi.followUp /\ pi'.steering = pi.steering
      /\ (wire' = wire \/ wire' = wire \o Echo(t))
  BY <1>1 DEF Starts, Pis
<1> QED BY <1>1, <1>2, StreamsOn

\* Pi is not reached, or refuses.
LEMMA StreamsOfNothing ==
    ASSUME QueueParts, TypeInv, UNCHANGED <<pi, wire>>
    PROVE  Streams({})
  BY StreamParts, StreamsOn

\* A run takes a steer.
LEMMA StreamsOfSteer ==
    ASSUME QueueParts, TypeInv, NEW t \in Texts, Spoken(t), Holds("steer", t)
    PROVE  Streams({})
<1>1. pi \in Pis /\ pi.steering \in Seq(Texts) /\ \A u \in Range(pi.steering) : Spoken(u)
  BY StreamParts
<1>2. pi' = [pi EXCEPT !.steering = Append(@, t)] /\ wire' = wire
  BY DEF Holds
<1>3. pi'.followUp = pi.followUp /\ pi'.steering = Append(pi.steering, t)
  BY <1>1, <1>2 DEF Pis
<1>4. \A u \in Range(pi'.steering) : Spoken(u)
  BY <1>1, <1>3, RangeParts
<1> QED BY <1>2, <1>3, <1>4, StreamsOn

\* A run takes a follow-up.
LEMMA StreamsOfFollowUp ==
    ASSUME QueueParts, TypeInv, NEW t \in Texts, Asked(t), Holds("follow_up", t)
    PROVE  Streams(Range(pi.followUp) \cup {t}) /\ QueuesOf(wire') # {}
<1>1. /\ pi \in Pis /\ pi.followUp \in Seq(Texts) /\ Single(pi.followUp) /\ wire \in Seq(Events)
      /\ \A u \in Range(pi.steering) : Spoken(u)
      /\ \A e \in Range(wire) : e.k \in {"start", "end"} => e.t \notin Range(pi.followUp)
  BY StreamParts
<1>2. t \notin Range(pi.followUp) /\ \A e \in Range(wire) : e.k \in {"start", "end"} => e.t # t
  BY DEF QueueParts, StagesInv, Echoes
<1>3. PICK g : g = Append(pi.followUp, t)
  OBVIOUS
<1>4. pi' = [pi EXCEPT !.followUp = Append(@, t)] /\ wire' = Append(wire, Queued(g))
  BY <1>3 DEF Holds
<1>5. pi'.followUp = g /\ pi'.steering = pi.steering
  BY <1>1, <1>3, <1>4 DEF Pis
<1>6. g \in Seq(Texts) /\ Leads(pi.followUp, g) /\ Single(g)
      /\ Range(g) = Range(pi.followUp) \cup {t}
  BY <1>1, <1>2, <1>3, LeadsSome, RangeParts
<1>7. \A e \in Range(wire) : e.k \in {"start", "end"} => e.t \notin Range(g)
  BY <1>1, <1>2, <1>6
<1>8. \A u \in Range(pi'.steering) : Spoken(u)
  BY <1>1, <1>5
<1>9. Streams(Range(g))
  BY <1>4, <1>5, <1>6, <1>7, <1>8, StreamsList
<1>10. QueuesOf(wire') # {}
  <2>1. Queued(g).k = "queue" /\ Queued(g) \in Events
    BY <1>6, EventsAre
  <2>2. Len(wire) + 1 \in DOMAIN wire' /\ wire'[Len(wire) + 1] = Queued(g)
    BY <1>1, <1>4, <2>1
  <2> QED BY <2>1, <2>2 DEF QueuesOf
<1> QED BY <1>6, <1>9, <1>10

\* Pi answers an abort.
LEMMA StreamsOfAbort ==
    ASSUME QueueParts, TypeInv, TakeAbort
    PROVE  /\ \E new : Streams(new) /\ \A t \in new : t \in Range(pi.followUp)
           /\ abort'.held = abort.held /\ abort'.st # "resuming"
           /\ UNCHANGED <<tab, prompts, controls>>
<1>1. /\ pi \in Pis /\ pi.followUp \in Seq(Texts) /\ Single(pi.followUp) /\ wire \in Seq(Events)
      /\ \A u \in Range(pi.steering) : Spoken(u)
  BY StreamParts
<1>2. abort'.held = abort.held /\ abort'.st # "resuming" /\ UNCHANGED <<tab, prompts, controls>>
  BY DEF TakeAbort, TypeInv, Aborts
<1>3. CASE UNCHANGED <<pi, wire>>
  BY <1>2, <1>3, StreamsOfNothing
<1>4. CASE pi' = [pi EXCEPT !.run = FALSE] /\ wire' = wire \o RunEnds
  <2>1. pi'.followUp = pi.followUp /\ pi'.steering = pi.steering
    BY <1>1, <1>4 DEF Pis
  <2>2. Streams({})
    BY <1>1, <1>4, <2>1, StreamsOn
  <2> QED BY <1>2, <2>2
<1>5. CASE /\ pi' = [pi EXCEPT !.run = FALSE, !.steering = <<>>, !.followUp = <<>>]
           /\ wire' = Append(wire, Queued(<<>>)) \o RunEnds
  <2>1. pi'.followUp = <<>> /\ pi'.steering = <<>> /\ Range(<<>>) = {}
    BY <1>1, <1>5 DEF Pis, Range
  <2>2. PICK g : g = <<>>
    OBVIOUS
  <2>3. g \in Seq(Texts) /\ Leads(pi.followUp, g) /\ Single(g) /\ Range(g) = {}
    BY <1>1, <2>1, <2>2, LeadsSome
  <2>4. wire' = Append(wire, Queued(g)) \o RunEnds /\ pi'.followUp = g
        /\ \A u \in Range(pi'.steering) : Spoken(u)
    BY <1>5, <2>1, <2>2
  <2>5. Streams(Range(g))
    BY <2>3, <2>4, StreamsList
  <2> QED BY <1>2, <2>3, <2>5
<1> QED BY <1>2, <1>3, <1>4, <1>5 DEF TakeAbort

\* The requests' steps at pi
LEMMA QueueOfPrompt ==
    ASSUME QueueParts, TypeInv, RefsInv, NEW s \in Senders,
           TakePrompt(s) \/ ProbeFailedPrompt(s)
    PROVE  QueueParts'
<1>1. prompts \in [Senders -> Prompts]
  BY DEF TypeInv
<1>2. UNCHANGED <<tab, controls, abort>> /\ \E st \in {"taken", "failed", "active", "idle"} :
         Prompted(s, st)
  BY DEF TakePrompt, ProbeFailedPrompt
<1>3. \A r \in Senders : /\ prompts'[r].text = prompts[r].text
                         /\ prompts'[r].st = "sent" => prompts[r].st = "sent"
  BY <1>1, <1>2, PromptedIs
<1>4. Streams({})
  <2>1. CASE UNCHANGED <<pi, wire>>
    BY <2>1, StreamsOfNothing
  <2>2. CASE TakePrompt(s) /\ ~UNCHANGED <<pi, wire>>
    <3>1. PICK t : t = prompts[s].text
      OBVIOUS
    <3>2. t \in Texts /\ Spoken(t)
      BY <2>2, <3>1 DEF TakePrompt, RefsInv, Spoken
    <3>3. Starts(t) \/ Holds("steer", t)
      BY <2>2, <3>1 DEF TakePrompt
    <3> QED BY <3>2, <3>3, StreamsOfStart, StreamsOfSteer
  <2> QED BY <2>1, <2>2 DEF ProbeFailedPrompt
<1> QED BY <1>2, <1>3, <1>4, QueueOfPi

LEMMA QueueOfControl ==
    ASSUME QueueParts, TypeInv, RefsInv, NEW s \in Senders, TakeControl(s)
    PROVE  QueueParts'
<1>1. controls \in [Senders -> Controls] /\ controls[s].mode \in {"steer", "follow_up"}
      /\ controls[s].st = "sent"
  BY DEF TypeInv, Controls, TakeControl
<1>2. UNCHANGED <<tab, prompts, abort>> /\ \E st \in {"taken", "failed"} : Controlled(s, st)
  BY DEF TakeControl
<1>3. /\ controls'[s].st \in {"taken", "failed"}
      /\ \A r \in Senders : /\ controls'[r].text = controls[r].text
                            /\ controls'[r].mode = controls[r].mode
                            /\ controls'[r].id = controls[r].id
                            /\ r # s => controls'[r] = controls[r]
  BY <1>1, <1>2, ControlledIs
<1>4. PICK t : t = controls[s].text
  OBVIOUS
<1>5. t \in Texts
  BY <1>1, <1>4 DEF RefsInv
<1>6. \A r \in Senders : /\ controls'[r].st = "sent" => controls[r].st = "sent"
                         /\ controls'[r].st # "none" => controls[r].st # "none"
                         /\ r # s => controls'[r].st = controls[r].st
  BY <1>1, <1>3
<1> DEFINE Premises(r) ==
              /\ prompts'[r].text = prompts[r].text
              /\ prompts'[r].st = "sent" => prompts[r].st = "sent"
              /\ controls'[r].text = controls[r].text /\ controls'[r].mode = controls[r].mode
              /\ controls'[r].id = controls[r].id
              /\ controls'[r].st = "sent" => controls[r].st = "sent"
              /\ controls'[r].st # "none" => controls[r].st # "none"
              /\ \/ controls[r].st \in {"sent", "failed"} => controls'[r].st \in {"sent", "failed"}
                 \/ controls[r].id \notin DOMAIN tab.queue
                 \/ QueuesOf(wire') # {}
<1>7. CASE UNCHANGED <<pi, wire>> /\ controls'[s].st = "failed"
  <2>1. Streams({})
    BY <1>7, StreamsOfNothing
  <2>2. \A r \in Senders : Premises(r)
    BY <1>1, <1>2, <1>3, <1>6, <1>7
  <2> QED BY <1>2, <2>1, <2>2, QueueOfPi
<1>8. CASE controls[s].mode = "steer" /\ Holds("steer", t)
  <2>1. Spoken(t)
    BY <1>1, <1>4, <1>8 DEF Spoken
  <2>2. Streams({})
    BY <1>5, <1>8, <2>1, StreamsOfSteer
  <2>3. controls[s].id \notin DOMAIN tab.queue
    BY <1>1, <1>4, <2>1 DEF QueueParts, StagesInv, PendingInv, Range
  <2>4. \A r \in Senders : Premises(r)
    BY <1>2, <1>3, <1>6, <2>3
  <2> QED BY <1>2, <2>2, <2>4, QueueOfPi
<1>9. CASE controls[s].mode = "follow_up" /\ Holds("follow_up", t)
  <2>1. Asked(t) /\ Asks(s)
    BY <1>1, <1>4, <1>9 DEF Asked, Asks
  <2>2. Streams(Range(pi.followUp) \cup {t}) /\ QueuesOf(wire') # {}
    BY <1>5, <1>9, <2>1, StreamsOfFollowUp
  <2>3. ~Asked(t)'
    <3>1. SUFFICES ASSUME NEW r \in Senders, controls'[r].st = "sent",
                          controls'[r].mode = "follow_up", controls'[r].text = t
                   PROVE  FALSE
      BY DEF Asked, Asks
    <3>2. r # s /\ Asks(r) /\ controls[r].text = t
      BY <1>3, <1>6, <3>1 DEF Asks
    <3> QED BY <1>4, <2>1, <3>2 DEF QueueParts, SinglesInv
  <2>4. \A r \in Senders : Premises(r)
    BY <1>2, <1>3, <1>6, <2>2
  <2>5. \A u \in Range(pi.followUp) \cup {t} : u \in Range(pi.followUp) \/ (Asked(u) /\ ~Asked(u)')
    BY <2>1, <2>3
  <2> QED BY <1>2, <2>2, <2>4, <2>5, QueueOfPi
<1>10. \/ Holds(controls[s].mode, t) \/ (UNCHANGED <<pi, wire>> /\ Controlled(s, "failed"))
  BY <1>4 DEF TakeControl
<1>11. Controlled(s, "failed") => controls'[s].st = "failed"
  BY <1>1, ControlledIs
<1> QED BY <1>1, <1>7, <1>8, <1>9, <1>10, <1>11

LEMMA QueueOfRuntime ==
    ASSUME QueueParts, TypeInv, RefsInv,
           Runtime \/ TakeAbort \/ (\E s \in Senders : \/ TakePrompt(s) \/ TakeControl(s)
                                                       \/ ProbeFailedPrompt(s))
    PROVE  QueueParts'
<1>1. CASE Runtime
  BY <1>1, StreamsOfRun, QueueOfPi
<1>2. CASE TakeAbort
  BY <1>2, StreamsOfAbort, QueueOfPi DEF TakeAbort
<1> QED BY <1>1, <1>2, QueueOfPrompt, QueueOfControl

\* ---- What the page does with the queue ----

\* Nothing that pi holds, the stream lists or a request carries changes; the queue that is
\* shown gets no text that is held or said elsewhere.
LEMMA StagesOfPage ==
    ASSUME StagesInv, UNCHANGED <<pi, prompts, controls, abort>>,
           Range(wire') \subseteq Range(wire),
           \A t \in Range(tab'.queue) : t \in Range(tab.queue) \/ (~Again(t) /\ ~Spoken(t))
    PROVE  StagesInv'
<1>1. \A t : /\ Asked(t)' <=> Asked(t)
             /\ Again(t)' <=> Again(t)
             /\ Spoken(t)' <=> Spoken(t)
             /\ Listed(t)' => Listed(t)
             /\ Echoes(t)' => Echoes(t)
  BY DEF Asked, Asks, Again, Spoken, Listed, Echoes
<1> QED BY <1>1 DEF StagesInv

\* The stream says what pi's list is.
LEMMA QueueShown ==
    ASSUME QueueParts, TypeInv, RefsInv, Receive, NEW e, e = Head(wire), e.k = "queue"
    PROVE  QueueParts'
<1>1. /\ Whole(tab) /\ wire \in Seq(Events) /\ wire # <<>> /\ wire' = Tail(wire)
      /\ UNCHANGED <<pi, prompts, controls, abort>> /\ tab' = Reconcile(tab, e.q)
      /\ pi.followUp \in Seq(Texts)
  BY StreamParts DEF Receive, Reduce, TypeInv
<1>2. e \in Events /\ e.q \in Seq(Texts) /\ e \in Range(wire) /\ Range(wire') \subseteq Range(wire)
  <2>1. /\ Head(wire) \in Events /\ Head(wire) \in Range(wire)
        /\ Range(Tail(wire)) \subseteq Range(wire)
    BY <1>1, RangeParts
  <2>2. \A x \in Events : x.q \in Seq(Texts)
    BY DEF Events
  <2> QED BY <1>1, <2>1, <2>2
<1>3. /\ StagesInv /\ SinglesInv /\ PendingInv
      /\ Ordered(wire, tab.queue, pi.followUp)
  BY DEF QueueParts
<1>4. Fits(tab.queue, e.q)
  <2>1. 1 \in QueuesOf(wire) /\ wire[1] = e /\ \A h \in QueuesOf(wire) : ~(h < 1)
    BY <1>1, TailParts DEF QueuesOf
  <2> QED BY <1>3, <2>1 DEF Ordered
<1>5. Single(tab.queue) /\ Single(e.q)
  BY <1>2, <1>3 DEF SinglesInv
<1>6. /\ Single(tab'.queue) /\ Range(tab'.queue) = Range(e.q) /\ Full(tab'.queue, e.q)
      /\ \A i \in DOMAIN tab'.queue : i < tab.next =>
             i \in DOMAIN tab.queue /\ tab'.queue[i] = tab.queue[i]
  BY <1>1, <1>2, <1>4, <1>5, ReconcileIs
<1>7. tab'.queue \in Lists(Texts)
  BY TypesKept, WholeParts DEF Next, TypeInv
<1>8. Ordered(wire', tab'.queue, pi.followUp) /\ (QueuesOf(wire') = {} => e.q = pi.followUp)
  BY <1>1, <1>3, <1>6, <1>7, OrderedShown
<1>9. StagesInv'
  <2>1. \A t \in Range(tab'.queue) : Listed(t)
    BY <1>2, <1>6 DEF Listed
  <2>2. \A t \in Range(tab'.queue) : ~Again(t) /\ ~Spoken(t)
    BY <1>3, <2>1 DEF StagesInv
  <2> QED BY <1>1, <1>2, <1>3, <2>2, StagesOfPage
<1>10. SinglesInv'
  BY <1>1, <1>2, <1>3, <1>6 DEF SinglesInv, Asks
<1>11. PendingInv'
  <2>1. \A i \in DOMAIN tab'.queue : tab'.queue[i] \in Range(e.q)
    BY <1>6 DEF Range
  <2>2. ASSUME NEW s \in Senders, controls[s].st # "none", controls[s].id \in DOMAIN tab'.queue
        PROVE  tab'.queue[controls[s].id] = controls[s].text
    <3>1. controls[s].id < tab.next
      BY <2>2 DEF RefsInv, Refers
    <3> QED BY <1>3, <1>6, <2>2, <3>1 DEF PendingInv
  <2> QED BY <1>1, <1>8, <2>1, <2>2 DEF PendingInv
<1> QED BY <1>1, <1>8, <1>9, <1>10, <1>11 DEF QueueParts

\* The stream says something else: an echo may take what it echoes from the queue.
LEMMA QueueEchoed ==
    ASSUME QueueParts, TypeInv, RefsInv, Receive, NEW e, e = Head(wire), e.k # "queue"
    PROVE  QueueParts'
<1>1. /\ Whole(tab) /\ wire \in Seq(Events) /\ wire # <<>> /\ wire' = Tail(wire)
      /\ UNCHANGED <<pi, prompts, controls, abort>> /\ PiInv /\ told \in History
      /\ tab.queue \in Lists(Texts)
  BY StreamParts DEF Receive, TypeInv
<1>2. Range(wire') \subseteq Range(wire)
  BY <1>1, RangeParts
<1>3. /\ StagesInv /\ SinglesInv /\ PendingInv
      /\ Ordered(wire, tab.queue, pi.followUp)
  BY DEF QueueParts
<1>4. /\ e.k \in {"start", "end"} => tab'.queue = Delivered(tab.queue, e.t)
      /\ e.k \notin {"start", "end"} => tab'.queue = tab.queue
  BY <1>1, ReceiveIs
<1>5. Ordered(wire', tab.queue, pi.followUp) /\ (QueuesOf(wire') = {} <=> QueuesOf(wire) = {})
  BY <1>1, <1>3, OrderedRest
<1>6. /\ DOMAIN tab'.queue \subseteq DOMAIN tab.queue
      /\ \A i \in DOMAIN tab'.queue : tab'.queue[i] = tab.queue[i]
  BY <1>1, <1>4, DeliveredIs
<1>7. ASSUME NEW i \in DOMAIN tab.queue, i \notin DOMAIN tab'.queue
      PROVE  Apart(wire', pi.followUp, tab.queue[i])
  <2>1. e.k \in {"start", "end"} /\ tab.queue[i] = e.t
    BY <1>1, <1>4, <1>7, DeliveredLeaves
  <2>2. /\ 1 \in DOMAIN wire /\ wire[1] = e
        /\ \A j \in DOMAIN wire' : j + 1 \in DOMAIN wire /\ wire'[j] = wire[j + 1] /\ 1 < j + 1
    BY <1>1, TailParts
  <2> QED BY <1>3, <2>1, <2>2 DEF Apart, Ordered
<1>8. Ordered(wire', tab'.queue, pi.followUp)
  <2>1. \A i \in DOMAIN tab.queue : \/ i \in DOMAIN tab'.queue /\ tab'.queue[i] = tab.queue[i]
                                    \/ Apart(wire', pi.followUp, tab.queue[i])
    BY <1>6, <1>7
  <2>2. \A i \in DOMAIN tab'.queue :
           \/ i \in DOMAIN tab.queue /\ tab.queue[i] = tab'.queue[i]
           \/ Apart(wire', pi.followUp, tab'.queue[i]) /\ \A j \in DOMAIN tab.queue : j < i
    BY <1>6
  <2> QED BY <1>5, <2>1, <2>2, OrderedApart
<1>9. StagesInv'
  <2>1. Range(tab'.queue) \subseteq Range(tab.queue)
    BY <1>6 DEF Range
  <2> QED BY <1>1, <1>2, <1>3, <2>1, StagesOfPage
<1>10. SinglesInv'
  <2>1. Single(tab'.queue)
    BY <1>3, <1>6 DEF SinglesInv, Single
  <2> QED BY <1>1, <1>2, <1>3, <2>1 DEF SinglesInv, Asks
<1>11. PendingInv'
  BY <1>1, <1>3, <1>5, <1>6 DEF PendingInv
<1> QED BY <1>1, <1>8, <1>9, <1>10, <1>11 DEF QueueParts

\* The queue stays as it is, and no request is made.
LEMMA QueueSteady ==
    ASSUME QueueParts, UNCHANGED <<pi, wire>>, tab'.queue = tab.queue,
           \/ abort' = abort
           \/ abort'.st # "resuming" /\ Range(abort'.held) \subseteq Range(tab.queue),
           \A s \in Senders : prompts'[s] = prompts[s] \/ prompts'[s].st = "none",
           \A s \in Senders : \/ controls'[s] = controls[s]
                              \/ controls'[s].st = "none" /\ controls[s].st = "taken"
    PROVE  QueueParts'
<1>1. \A t : /\ Asked(t)' => Asked(t)
             /\ Again(t)' => Again(t) /\ Range(abort'.held) = Range(abort.held)
             /\ Spoken(t)' => Spoken(t)
             /\ Listed(t)' => Listed(t)
             /\ Echoes(t)' => Echoes(t)
  BY DEF Asked, Asks, Again, Spoken, Listed, Echoes
<1>2. StagesInv'
  <2>1. \A t : Spoken(t) => t \notin Range(abort'.held)
    BY DEF QueueParts, StagesInv
  <2> QED BY <1>1, <2>1 DEF QueueParts, StagesInv
<1>3. SinglesInv'
  BY DEF QueueParts, SinglesInv, Asks
<1>4. PendingInv'
  BY DEF QueueParts, PendingInv
<1> QED BY <1>2, <1>3, <1>4 DEF QueueParts

\* A text that is nowhere yet
Nowhere(t) == /\ ~Asked(t) /\ ~Listed(t) /\ ~Spoken(t) /\ ~Echoes(t)
              /\ t \notin Range(pi.followUp) /\ t \notin Range(tab.queue)

\* It is said as a prompt or a steer.
LEMMA QueueSaid ==
    ASSUME QueueParts, TypeInv, RefsInv, NEW t, Nowhere(t), t \notin Range(abort.held),
           UNCHANGED <<pi, wire, abort>>, tab'.queue = tab.queue,
           \A s \in Senders : prompts'[s] = prompts[s] \/ prompts'[s].text = t,
           \A s \in Senders : \/ controls'[s] = controls[s]
                              \/ /\ controls[s].st = "none" /\ controls'[s].st = "sent"
                                 /\ controls'[s].mode = "steer" /\ controls'[s].text = t
                                 /\ controls'[s].id = tab.next
    PROVE  QueueParts'
<1>1. tab.next \notin DOMAIN tab.queue
  BY WholeParts DEF TypeInv
<1>2. \A u : /\ Asked(u)' => Asked(u)
             /\ Again(u)' => Again(u)
             /\ Spoken(u)' => Spoken(u) \/ u = t
             /\ Listed(u)' => Listed(u)
             /\ Echoes(u)' => Echoes(u)
  BY DEF Asked, Asks, Again, Spoken, Listed, Echoes
<1>3. StagesInv'
  BY <1>2 DEF QueueParts, StagesInv, Nowhere
<1>4. SinglesInv'
  BY DEF QueueParts, SinglesInv, Asks
<1>5. PendingInv'
  BY <1>1 DEF QueueParts, PendingInv
<1> QED BY <1>3, <1>4, <1>5 DEF QueueParts

\* It is queued and asked for as a follow-up.
LEMMA QueueAsked ==
    ASSUME QueueParts, TypeInv, RefsInv, NEW t, Nowhere(t), t \notin Range(abort'.held),
           UNCHANGED <<pi, wire, prompts>>, tab'.queue = Add(tab.queue, tab.next, t),
           NEW s \in Senders, controls[s].st = "none",
           /\ controls'[s].st = "sent" /\ controls'[s].mode = "follow_up"
           /\ controls'[s].text = t /\ controls'[s].id = tab.next,
           \A r \in Senders \ {s} : controls'[r] = controls[r],
           abort'.st = abort.st, Range(abort'.held) \subseteq Range(abort.held),
           Single(abort.held) => Single(abort'.held)
    PROVE  QueueParts'
<1>1. /\ \A i \in DOMAIN tab.queue : i < tab.next
      /\ tab.next \notin DOMAIN tab.queue
  BY WholeParts DEF TypeInv
<1>2. /\ DOMAIN tab'.queue = DOMAIN tab.queue \cup {tab.next} /\ tab'.queue[tab.next] = t
      /\ \A i \in DOMAIN tab.queue : tab'.queue[i] = tab.queue[i]
  <2>1. tab'.queue = [i \in DOMAIN tab.queue \cup {tab.next} |->
                         IF i = tab.next THEN t ELSE tab.queue[i]]
    BY DEF Add
  <2> QED BY <1>1, <2>1
<1>3. Range(tab'.queue) = Range(tab.queue) \cup {t}
  BY <1>2 DEF Range
<1>4. \A u : /\ Asked(u)' => Asked(u) \/ u = t
             /\ Again(u)' => Again(u) /\ u # t
             /\ Spoken(u)' => Spoken(u)
             /\ Listed(u)' => Listed(u)
             /\ Echoes(u)' => Echoes(u)
  BY DEF Asked, Asks, Again, Spoken, Listed, Echoes
<1>5. StagesInv'
  BY <1>3, <1>4 DEF QueueParts, StagesInv, Nowhere
<1>6. SinglesInv'
  <2>1. Single(tab'.queue)
    BY <1>2 DEF QueueParts, SinglesInv, Single, Nowhere, Range
  <2>2. ASSUME NEW r \in Senders, Asks(r)', r # s PROVE Asks(r) /\ controls'[r].text # t
    BY <2>2 DEF Asks, Asked, Nowhere
  <2>3. \A q, r \in Senders : Asks(q)' /\ Asks(r)' /\ controls'[q].text = controls'[r].text
                              => q = r
    BY <2>2 DEF QueueParts, SinglesInv
  <2> QED BY <2>1, <2>3 DEF QueueParts, SinglesInv
<1>7. PendingInv'
  <2>1. \A r \in Senders : controls[r].st # "none" => controls[r].id # tab.next
    BY WholeParts DEF RefsInv, Refers, TypeInv
  <2> QED BY <1>2, <2>1 DEF QueueParts, PendingInv
<1>8. Ordered(wire', tab'.queue, pi'.followUp)
  <2>1. Apart(wire, pi.followUp, t)
    BY DEF Nowhere, Listed, Apart, Range
  <2>2. /\ \A i \in DOMAIN tab.queue : i \in DOMAIN tab'.queue /\ tab'.queue[i] = tab.queue[i]
        /\ \A i \in DOMAIN tab'.queue : \/ i \in DOMAIN tab.queue /\ tab.queue[i] = tab'.queue[i]
                                        \/ Apart(wire, pi.followUp, tab'.queue[i])
                                           /\ \A j \in DOMAIN tab.queue : j < i
    BY <1>1, <1>2, <2>1
  <2>3. Ordered(wire, tab'.queue, pi.followUp)
    BY <2>2, OrderedApart DEF QueueParts
  <2> QED BY <2>3
<1> QED BY <1>5, <1>6, <1>7, <1>8 DEF QueueParts

\* What is taken back is not on its way, or the transcript is excused.
LEMMA QueueTaken ==
    ASSUME QueueParts, TypeInv, RefsInv, NEW s \in Senders, RollBackControl(s),
           "rollback" \notin told'.lapse
    PROVE  QueueParts'
<1>1. PICK i : i = controls[s].id
  OBVIOUS
<1>2. /\ controls[s].st = "failed" /\ controls' = [controls EXCEPT ![s] = NoControl]
      /\ UNCHANGED <<pi, wire, prompts, promote, abort>>
      /\ tab' = [tab EXCEPT !.msgs = Without(@, i), !.queue = Without(@, i)]
      /\ told' = Lapse(TakenBack(controls[s].text))
  BY <1>1 DEF RollBackControl
<1>3. tab'.queue = Without(tab.queue, i) /\ wire \in Seq(Events)
  <2>1. tab \in Tabs
    BY DEF TypeInv, Whole
  <2> QED BY <1>2, <2>1, StreamParts DEF Tabs
<1>4. /\ DOMAIN tab'.queue = DOMAIN tab.queue \ {i}
      /\ \A j \in DOMAIN tab'.queue : tab'.queue[j] = tab.queue[j]
  BY <1>3 DEF Without
<1>5. /\ controls'[s].st = "none" /\ \A r \in Senders \ {s} : controls'[r] = controls[r]
  BY <1>2, NoRequests DEF TypeInv
<1>6. /\ StagesInv /\ SinglesInv /\ PendingInv
      /\ Ordered(wire, tab.queue, pi.followUp)
  BY DEF QueueParts
<1>7. ~InFlight(controls[s].text)
  BY <1>2 DEF Lapse, TakenBack, TypeInv, History
<1>8. i \in DOMAIN tab.queue => Apart(wire, pi.followUp, tab.queue[i])
  BY <1>1, <1>2, <1>6, <1>7 DEF PendingInv, InFlight, Apart, Range
<1>9. Ordered(wire', tab'.queue, pi'.followUp)
  <2>1. /\ \A j \in DOMAIN tab.queue : \/ j \in DOMAIN tab'.queue /\ tab'.queue[j] = tab.queue[j]
                                       \/ Apart(wire, pi.followUp, tab.queue[j])
        /\ \A j \in DOMAIN tab'.queue : \/ j \in DOMAIN tab.queue /\ tab.queue[j] = tab'.queue[j]
                                        \/ Apart(wire, pi.followUp, tab'.queue[j])
                                           /\ \A k \in DOMAIN tab.queue : k < j
    BY <1>4, <1>8
  <2>2. Ordered(wire, tab'.queue, pi.followUp)
    BY <1>6, <2>1, OrderedApart
  <2> QED BY <1>2, <2>2
<1>10. \A t : /\ Asked(t)' => Asked(t)
              /\ Again(t)' => Again(t)
              /\ Spoken(t)' => Spoken(t)
              /\ Listed(t)' => Listed(t)
              /\ Echoes(t)' => Echoes(t)
  BY <1>2, <1>5 DEF Asked, Asks, Again, Spoken, Listed, Echoes
<1>11. StagesInv'
  <2>1. Range(tab'.queue) \subseteq Range(tab.queue)
    BY <1>4 DEF Range
  <2> QED BY <1>2, <1>6, <1>10, <2>1 DEF StagesInv
<1>12. SinglesInv'
  <2>1. Single(tab'.queue)
    BY <1>4, <1>6 DEF SinglesInv, Single
  <2>2. \A r \in Senders : Asks(r)' => Asks(r) /\ controls'[r].text = controls[r].text
    BY <1>5 DEF Asks
  <2> QED BY <1>2, <1>6, <2>1, <2>2 DEF SinglesInv
<1>13. PendingInv'
  BY <1>1, <1>2, <1>4, <1>5, <1>6 DEF PendingInv
<1> QED BY <1>9, <1>11, <1>12, <1>13 DEF QueueParts

\* What is sent again is nowhere else, or the transcript is excused.
LEMMA QueueAborted ==
    ASSUME QueueParts, TypeInv, RefsInv, AnswerAbort,
           told'.lapse \cap {"resent", "cleared"} = {}
    PROVE  QueueParts'
<1>1. Whole(tab) /\ abort \in Aborts /\ prompts \in [Senders -> Prompts] /\ told \in History
  BY DEF TypeInv
<1>2. UNCHANGED <<pi, wire, controls, promote>>
  BY DEF AnswerAbort
<1>3. CASE /\ tab' = SettleTurn(tab) /\ abort' = NoAbort /\ UNCHANGED prompts
  <2>1. tab'.queue = tab.queue
    BY <1>1, <1>3, SettledIs DEF Is
  <2>2. abort'.st # "resuming" /\ Range(abort'.held) = {}
    BY <1>3, NoRequests, NothingIsList DEF NoAbort, Range
  <2> QED BY <1>2, <1>3, <2>1, <2>2, QueueSteady
<1>4. CASE DOMAIN abort.held # {}
  <2>1. PICK i : i = Earliest(DOMAIN abort.held)
    OBVIOUS
  <2>2. PICK t : t = abort.held[i]
    OBVIOUS
  <2>3. PICK c : c = [SettleTurn(tab) EXCEPT !.queue = Nothing]
    OBVIOUS
  <2>4. /\ Submit("resume", c, t)
        /\ abort' = [st |-> "resuming", held |-> Without(abort.held, i)]
        /\ told' = Lapse(Tailed \cup Pinned \cup Lost(Senders) \cup SentAgain \cup Cleared)
    BY <1>4, <2>1, <2>2, <2>3 DEF AnswerAbort
  <2>5. i \in DOMAIN abort.held /\ t \in Texts
    BY <1>1, <1>4, <2>1, <2>2, FirstHeld
  <2>6. Whole(c) /\ c.queue = Nothing
    BY <1>1, <2>3, AbortedIs DEF Is, Grows
  <2>7. tab'.queue = Nothing /\ prompts'["resume"].text = t
        /\ \A r \in Senders \ {"resume"} : prompts'[r] = prompts[r]
    <3>1. "resume" \in Senders
      BY DEF Senders
    <3> QED BY <1>1, <2>4, <2>5, <2>6, <3>1, SubmitIs
  <2>8. SentAgain = {} /\ Cleared = {}
    <3>1. (SentAgain \cup Cleared) \subseteq told'.lapse
      BY <1>1, <2>4, LapseIs, Excuses
    <3> QED BY <3>1 DEF SentAgain, Cleared
  <2>9. \A u \in Range(abort.held) : ~InFlight(u) /\ ~Asked(u)
    BY <2>8 DEF SentAgain, TakenBack, Asked, Asks, Range
  <2>10. Single(abort.held)
    BY <2>8 DEF SentAgain, Single
  <2>11. \A u \in Range(abort.held) : ~Listed(u) /\ ~Echoes(u) /\ u \notin Range(pi.followUp)
    BY <2>9 DEF InFlight, Listed, Echoes
  <2>12. /\ abort'.st = "resuming" /\ abort'.held = Without(abort.held, i)
         /\ Single(abort'.held) /\ Range(abort'.held) \subseteq Range(abort.held)
         /\ t \in Range(abort.held) /\ t \notin Range(abort'.held)
    <3>1. abort'.st = "resuming" /\ abort'.held = Without(abort.held, i)
      BY <2>4
    <3> QED BY <2>2, <2>5, <2>10, <3>1 DEF Without, Single, Range
  <2>13. StagesInv'
    <3>1. \A u : /\ Asked(u)' <=> Asked(u)
                 /\ Again(u)' => u \in Range(abort.held)
                 /\ Spoken(u)' => Spoken(u) \/ u = t
                 /\ Listed(u)' <=> Listed(u)
                 /\ Echoes(u)' <=> Echoes(u)
      BY <1>2, <2>7, <2>12 DEF Asked, Asks, Again, Spoken, Listed, Echoes
    <3>2. Range(tab'.queue) = {}
      BY <2>7, NothingIsList DEF Range
    <3>3. \A u : Spoken(u) => u \notin Range(abort.held)
      BY DEF QueueParts, StagesInv
    <3> QED BY <1>2, <2>9, <2>11, <2>12, <3>1, <3>2, <3>3 DEF QueueParts, StagesInv
  <2>14. SinglesInv'
    <3>1. Single(tab'.queue)
      BY <2>7, NothingIsList DEF Single
    <3> QED BY <1>2, <2>12, <3>1 DEF QueueParts, SinglesInv, Asks
  <2>15. PendingInv'
    BY <2>7, NothingIsList DEF PendingInv
  <2>16. Ordered(wire', tab'.queue, pi'.followUp)
    <3>1. pi.followUp \in Seq(Texts) /\ Ordered(wire, tab.queue, pi.followUp)
      BY StreamParts
    <3>2. ASSUME QueuesOf(wire) = {} PROVE pi.followUp = <<>>
      <4>1. Range(pi.followUp) \subseteq Range(tab.queue)
        BY <3>1, <3>2 DEF Ordered, Full
      <4>2. Range(tab.queue) \subseteq Range(abort.held)
        BY <2>8 DEF Cleared
      <4>3. Range(pi.followUp) = {}
        BY <2>11, <4>1, <4>2
      <4> QED BY <3>1, <4>3, RangeParts
    <3>3. Ordered(wire, Nothing, pi.followUp)
      BY <3>1, <3>2, NothingQueued
    <3> QED BY <1>2, <2>7, <3>3
  <2> QED BY <2>13, <2>14, <2>15, <2>16 DEF QueueParts
<1> QED BY <1>3, <1>4 DEF AnswerAbort

\* What a control is, and what it queues
LEMMA ControlAsks ==
    ASSUME TypeInv, NEW t \in Texts, NEW mode \in {"steer", "follow_up"}, NEW s \in Senders,
           Control(s, mode, t)
    PROVE  /\ mode = "steer" => tab'.queue = tab.queue
           /\ mode = "follow_up" => tab'.queue = Add(tab.queue, tab.next, t)
           /\ controls'[s].st = "sent" /\ controls'[s].mode = mode
           /\ controls'[s].text = t /\ controls'[s].id = tab.next
           /\ \A r \in Senders \ {s} : controls'[r] = controls[r]
<1>1. Whole(tab) /\ controls \in [Senders -> Controls]
  BY DEF TypeInv
<1>2. /\ controls' = [controls EXCEPT ![s] = [st |-> "sent", mode |-> mode, id |-> tab.next,
                                              text |-> t]]
      /\ mode = "follow_up" => tab' = [tab EXCEPT !.queue = Add(@, tab.next, t), !.next = @ + 1]
  BY DEF Control
<1>3. mode = "steer" => tab'.queue = tab.queue
  BY <1>1, ControlIs
<1>4. mode = "follow_up" => tab'.queue = Add(tab.queue, tab.next, t)
  BY <1>1, <1>2, QueueOneIs DEF Is
<1>5. /\ controls'[s].st = "sent" /\ controls'[s].mode = mode
      /\ controls'[s].text = t /\ controls'[s].id = tab.next
      /\ \A r \in Senders \ {s} : controls'[r] = controls[r]
  BY <1>1, <1>2
<1> QED BY <1>3, <1>4, <1>5

\* The user sends a text.
LEMMA QueueSent ==
    ASSUME QueueParts, TypeInv, RefsInv, UsedInv, SendPrompt \/ SendControl
    PROVE  QueueParts'
<1>1. ASSUME NEW t \in Fresh PROVE Nowhere(t) /\ t \notin Range(abort.held) /\ t \in Texts
  BY FreshIsNew DEF Nowhere, Fresh
<1>2. CASE SendPrompt
  <2>1. PICK t \in Fresh : /\ tab'.queue = tab.queue
                           /\ \A s \in Senders : prompts'[s] = prompts[s] \/ prompts'[s].text = t
    BY <1>2, SendPromptIs
  <2>2. UNCHANGED <<pi, wire, controls, abort>>
    BY <1>2 DEF SendPrompt
  <2> QED BY <1>1, <2>1, <2>2, QueueSaid
<1>3. CASE SendControl
  <2>1. PICK mode \in {"steer", "follow_up"}, t \in Fresh : Control("composer", mode, t)
    BY <1>3 DEF SendControl
  <2>2. /\ controls["composer"].st = "none" /\ UNCHANGED <<pi, wire, prompts, abort>>
        /\ "composer" \in Senders
    BY <1>3 DEF SendControl, Senders
  <2>3. PICK s : s = "composer"
    OBVIOUS
  <2>4. /\ mode = "steer" => tab'.queue = tab.queue
        /\ mode = "follow_up" => tab'.queue = Add(tab.queue, tab.next, t)
        /\ controls'[s].st = "sent" /\ controls'[s].mode = mode
        /\ controls'[s].text = t /\ controls'[s].id = tab.next
        /\ \A r \in Senders \ {s} : controls'[r] = controls[r]
    BY <1>1, <2>1, <2>2, <2>3, ControlAsks
  <2>5. Nowhere(t) /\ t \notin Range(abort.held)
    BY <1>1
  <2>6. CASE mode = "steer"
    <3>1. \A r \in Senders : \/ controls'[r] = controls[r]
                             \/ /\ controls[r].st = "none" /\ controls'[r].st = "sent"
                                /\ controls'[r].mode = "steer" /\ controls'[r].text = t
                                /\ controls'[r].id = tab.next
      BY <2>2, <2>3, <2>4, <2>6
    <3> QED BY <2>2, <2>4, <2>5, <2>6, <3>1, QueueSaid
  <2>7. CASE mode = "follow_up"
    <3>1. tab'.queue = Add(tab.queue, tab.next, t) /\ s \in Senders /\ controls[s].st = "none"
          /\ controls'[s].mode = "follow_up" /\ abort'.st = abort.st /\ t \notin Range(abort'.held)
          /\ Range(abort'.held) \subseteq Range(abort.held)
          /\ (Single(abort.held) => Single(abort'.held))
      BY <2>2, <2>3, <2>4, <2>5, <2>7
    <3> QED BY <2>2, <2>4, <2>5, <3>1, QueueAsked
  <2> QED BY <2>6, <2>7
<1> QED BY <1>2, <1>3

\* A follow-up that was held is sent again.
LEMMA QueueResumed ==
    ASSUME QueueParts, TypeInv, RefsInv, Resume
    PROVE  QueueParts'
<1>1. Whole(tab) /\ abort \in Aborts
  BY DEF TypeInv
<1>2. /\ UNCHANGED <<pi, wire, prompts>> /\ abort.st = "resuming"
      /\ controls["resume"].st = "none" /\ "resume" \in Senders
  BY DEF Resume, Senders
<1>3. CASE abort' = NoAbort /\ UNCHANGED <<tab, controls>>
  <2>1. abort'.st # "resuming" /\ Range(abort'.held) = {}
    BY <1>3, NoRequests, NothingIsList DEF NoAbort, Range
  <2> QED BY <1>2, <1>3, <2>1, QueueSteady
<1>4. CASE DOMAIN abort.held # {}
  <2>1. PICK i : i = Earliest(DOMAIN abort.held)
    OBVIOUS
  <2>2. PICK t : t = abort.held[i]
    OBVIOUS
  <2>3. PICK s : s = "resume"
    OBVIOUS
  <2>4. /\ Control("resume", "follow_up", t)
        /\ abort' = [abort EXCEPT !.held = Without(@, i)]
    BY <1>4, <2>1, <2>2 DEF Resume
  <2>5. i \in DOMAIN abort.held /\ t \in Texts
    BY <1>1, <1>4, <2>1, <2>2, FirstHeld
  <2>6. PICK mode : mode = "follow_up"
    OBVIOUS
  <2>7. mode \in {"steer", "follow_up"} /\ Control(s, mode, t) /\ s \in Senders
    BY <1>2, <2>3, <2>4, <2>6
  <2>8. /\ tab'.queue = Add(tab.queue, tab.next, t)
        /\ controls'[s].st = "sent" /\ controls'[s].mode = "follow_up"
        /\ controls'[s].text = t /\ controls'[s].id = tab.next
        /\ \A r \in Senders \ {s} : controls'[r] = controls[r]
    BY <2>5, <2>6, <2>7, ControlAsks
  <2>9. abort'.st = abort.st /\ abort'.held = Without(abort.held, i)
    BY <1>1, <2>4 DEF Aborts
  <2>10. Single(abort.held)
    BY <1>2 DEF QueueParts, SinglesInv
  <2>11. /\ t \in Range(abort.held) /\ t \notin Range(abort'.held) /\ Single(abort'.held)
         /\ Range(abort'.held) \subseteq Range(abort.held)
    BY <2>2, <2>5, <2>9, <2>10 DEF Without, Single, Range
  <2>12. Nowhere(t)
    BY <1>2, <2>11 DEF QueueParts, StagesInv, Nowhere, Again
  <2> QED BY <1>2, <2>3, <2>7, <2>8, <2>9, <2>11, <2>12, QueueAsked
<1> QED BY <1>3, <1>4 DEF Resume

\* An excuse stays one.
LEMMA LapseGrows ==
    ASSUME TypeInv, [Next]_vars
    PROVE  told.lapse \subseteq told'.lapse
<1>1. told \in History /\ \A why : told.lapse \subseteq Lapse(why).lapse
  BY DEF TypeInv, Lapse, History
<1>2. CASE UNCHANGED vars
  BY <1>2 DEF vars
<1>3. CASE Runtime \/ TakeAbort \/ Abort \/ Resume \/ Promote
           \/ \E s \in Senders : \/ TakePrompt(s) \/ TakeControl(s) \/ ProbeFailedPrompt(s)
                                 \/ AcceptControl(s)
  BY <1>3 DEF Runtime, PiDelivers, PiReplies, PiRetries, PiSettles, Works, TakeAbort, Abort,
              Resume, Promote, TakePrompt, TakeControl, ProbeFailedPrompt, AcceptControl
<1>4. CASE Receive \/ SendPrompt \/ SendControl
  BY <1>1, <1>4 DEF Receive, SendPrompt, SendControl, History
<1>5. CASE Poll \/ PromoteRefused \/ AnswerAbort
           \/ \E s \in Senders : \/ AcceptPrompt(s) \/ SettleFailedPrompt(s)
                                 \/ RollBackControl(s)
  BY <1>1, <1>5 DEF Poll, PromoteRefused, AnswerAbort, AcceptPrompt, SettleFailedPrompt,
                    RollBackControl
<1> QED BY <1>2, <1>3, <1>4, <1>5 DEF Next, Requests

\* Every step keeps the queue in order.
LEMMA QueueKept ==
    ASSUME QueueInv, TypeInv, RefsInv, UsedInv, [Next]_vars
    PROVE  QueueInv'
<1> SUFFICES ASSUME told'.lapse \cap {"rollback", "resent", "cleared"} = {}
             PROVE  QueueParts'
  BY DEF QueueInv, Excused
<1>1. QueueParts
  BY LapseGrows DEF QueueInv, Excused
<1>2. Whole(tab)
  BY DEF TypeInv
<1>3. CASE UNCHANGED vars
  <2>1. UNCHANGED <<pi, wire, tab, prompts, controls, abort>>
    BY <1>3 DEF vars
  <2> QED BY <1>1, <2>1, QueueSteady
<1>4. CASE Runtime \/ TakeAbort
           \/ \E s \in Senders : TakePrompt(s) \/ TakeControl(s) \/ ProbeFailedPrompt(s)
  BY <1>1, <1>4, QueueOfRuntime
<1>5. CASE Receive
  BY <1>1, <1>5, QueueShown, QueueEchoed
<1>6. CASE SendPrompt \/ SendControl
  BY <1>1, <1>6, QueueSent
<1>7. CASE Poll
  BY <1>1, <1>7, SteadyTab, QueueSteady DEF Poll
<1>8. ASSUME NEW s \in Senders, AcceptPrompt(s) PROVE QueueParts'
  <2>1. tab'.queue = tab.queue
    BY <1>8, SteadyTab
  <2>2. UNCHANGED <<pi, wire, controls, abort>>
        /\ prompts' = [prompts EXCEPT ![s] = NoPrompt]
    BY <1>8 DEF AcceptPrompt
  <2>3. \A r \in Senders : prompts'[r] = prompts[r] \/ prompts'[r].st = "none"
    BY <2>2, NoRequests DEF TypeInv
  <2> QED BY <1>1, <2>1, <2>2, <2>3, QueueSteady
<1>9. ASSUME NEW s \in Senders, AcceptControl(s) PROVE QueueParts'
  <2>1. tab'.queue = tab.queue
    BY <1>9, SteadyTab
  <2>2. UNCHANGED <<pi, wire, prompts, abort>> /\ controls[s].st = "taken"
        /\ controls' = [controls EXCEPT ![s] = NoControl]
    BY <1>9 DEF AcceptControl
  <2>3. \A r \in Senders : \/ controls'[r] = controls[r]
                           \/ controls'[r].st = "none" /\ controls[r].st = "taken"
    BY <2>2, NoRequests DEF TypeInv
  <2> QED BY <1>1, <2>1, <2>2, <2>3, QueueSteady
<1>10. ASSUME NEW s \in Senders, SettleFailedPrompt(s) PROVE QueueParts'
  <2>1. UNCHANGED <<pi, wire, controls, abort>>
        /\ prompts' = [prompts EXCEPT ![s] = NoPrompt]
        /\ \/ tab' = [SettleTurn(tab) EXCEPT !.msgs = Without(@, prompts[s].bubble)]
           \/ tab' = tab
    BY <1>10 DEF SettleFailedPrompt
  <2>2. tab'.queue = tab.queue
    <3>1. SettleTurn(tab) \in Tabs /\ SettleTurn(tab).queue = tab.queue
      BY <1>2, SettledIs DEF Is
    <3> QED BY <2>1, <3>1 DEF Tabs
  <2>3. \A r \in Senders : prompts'[r] = prompts[r] \/ prompts'[r].st = "none"
    BY <2>1, NoRequests DEF TypeInv
  <2> QED BY <1>1, <2>1, <2>2, <2>3, QueueSteady
<1>11. ASSUME NEW s \in Senders, RollBackControl(s) PROVE QueueParts'
  BY <1>1, <1>11, QueueTaken
<1>12. CASE Promote
  <2>1. tab'.queue = tab.queue /\ UNCHANGED <<pi, wire, prompts, controls, abort>>
    BY <1>12, PromoteIs
  <2> QED BY <1>1, <2>1, QueueSteady
<1>13. CASE PromoteRefused
  <2>1. UNCHANGED <<pi, wire, prompts, controls, abort>>
        /\ tab' = [tab EXCEPT !.msgs = Without(@, promote)]
    BY <1>13 DEF PromoteRefused
  <2>2. tab'.queue = tab.queue
    BY <1>2, <2>1 DEF Whole, Tabs
  <2> QED BY <1>1, <2>1, <2>2, QueueSteady
<1>14. CASE Abort
  <2>1. UNCHANGED <<pi, wire, prompts, controls>>
        /\ abort'.st # "resuming" /\ abort'.held = tab.queue
    BY <1>14 DEF Abort
  <2>2. tab'.queue = tab.queue
    BY <1>14, SteadyTab
  <2> QED BY <1>1, <2>1, <2>2, QueueSteady
<1>15. CASE AnswerAbort
  BY <1>1, <1>15, QueueAborted
<1>16. CASE Resume
  BY <1>1, <1>16, QueueResumed
<1> QED BY <1>3, <1>4, <1>5, <1>6, <1>7, <1>8, <1>9, <1>10, <1>11, <1>12, <1>13, <1>14,
           <1>15, <1>16 DEF Next, Requests

\* Nothing is queued at first.
LEMMA QueueAtFirst == ASSUME Init PROVE QueueInv
<1>1. /\ DOMAIN tab.queue = {} /\ pi.followUp = <<>> /\ pi.steering = <<>> /\ wire = <<>>
      /\ abort.st = "none" /\ abort.held = Nothing
      /\ \A s \in Senders : controls[s].st = "none" /\ prompts[s].st = "none"
  BY NothingIsList, NoRequests DEF Init, NoAbort
<1>2. /\ Range(tab.queue) = {} /\ Range(pi.followUp) = {} /\ Range(pi.steering) = {}
      /\ Range(wire) = {} /\ QueuesOf(wire) = {}
  BY <1>1 DEF Range, QueuesOf
<1>3. \A t : ~Asked(t) /\ ~Again(t) /\ ~Spoken(t) /\ ~Listed(t) /\ ~Echoes(t)
  BY <1>1, <1>2 DEF Asked, Asks, Again, Spoken, Listed, Echoes
<1>4. StagesInv
  BY <1>3 DEF StagesInv
<1>5. SinglesInv
  BY <1>1, <1>2 DEF SinglesInv, Single, Asks
<1>6. PendingInv
  BY <1>1 DEF PendingInv
<1>7. Ordered(wire, tab.queue, pi.followUp)
  BY <1>1, <1>2 DEF Ordered, Full, Fits
<1> QED BY <1>4, <1>5, <1>6, <1>7 DEF QueueInv, QueueParts

\* With nothing under way the two lists are the same.
LEMMA QueueAtRest ==
    ASSUME QueueInv, TypeInv
    PROVE  QueueConverges
<1> SUFFICES ASSUME Resting, ~Excused({"rollback", "resent", "cleared"})
             PROVE  Shows(tab.queue, pi.followUp)
  BY DEF QueueConverges
<1>1. PICK q : q = tab.queue
  OBVIOUS
<1>2. PICK f : f = pi.followUp
  OBVIOUS
<1>3. QueueParts
  BY DEF QueueInv
<1>4. Single(q) /\ Single(f) /\ q \in Lists(Texts) /\ f \in Seq(Texts) /\ QueuesOf(wire) = {}
  BY <1>1, <1>2, <1>3, StreamParts DEF QueueParts, SinglesInv, Resting, QueuesOf
<1>5. Range(f) \subseteq Range(q) /\ Fits(q, f)
  BY <1>1, <1>2, <1>3, <1>4 DEF QueueParts, Ordered, Full
<1>6. \A i \in DOMAIN q : q[i] \in Range(f)
  BY <1>1, <1>2, <1>3, <1>4, NoRequests DEF QueueParts, PendingInv, Resting
<1> DEFINE place == [n \in DOMAIN f |-> CHOOSE i \in DOMAIN q : q[i] = f[n]]
<1>7. \A n \in DOMAIN f : place[n] \in DOMAIN q /\ q[place[n]] = f[n]
  <2>1. \A n \in DOMAIN f : \E i \in DOMAIN q : q[i] = f[n]
    BY <1>5 DEF Range
  <2> QED BY <2>1
<1>8. \A n \in DOMAIN f, i \in DOMAIN q : q[i] = f[n] => place[n] = i
  BY <1>4, <1>7 DEF Single
<1>9. place \in [DOMAIN f -> DOMAIN q]
  BY <1>7
<1>10. DOMAIN place = DOMAIN f
  OBVIOUS
<1> HIDE DEF place
<1>11. Range(place) = DOMAIN q
  <2>1. ASSUME NEW i \in DOMAIN q PROVE i \in Range(place)
    <3>1. PICK n \in DOMAIN f : f[n] = q[i]
      BY <1>6, <2>1 DEF Range
    <3>2. place[n] = i
      BY <1>8, <3>1
    <3> QED BY <1>10, <3>2 DEF Range
  <2> QED BY <1>7, <1>10, <2>1 DEF Range
<1>12. \A m, n \in DOMAIN f : m < n => place[m] < place[n]
  <2>1. SUFFICES ASSUME NEW m \in DOMAIN f, NEW n \in DOMAIN f, m < n
                 PROVE  place[m] < place[n]
    OBVIOUS
  <2>2. PICK j \in DOMAIN q : j < place[n] /\ q[j] = f[m]
    BY <1>5, <1>7, <2>1 DEF Fits
  <2> QED BY <1>8, <2>2
<1> QED BY <1>1, <1>2, <1>7, <1>9, <1>11, <1>12 DEF Shows

\* For any texts and budgets: when nothing is under way, the queue that is shown is the one pi
\* holds, in its order, however the page's own additions, the stream's lists, its echoes and
\* the answers to requests were interleaved.
THEOREM QueueConvergesHolds == Spec => []QueueConverges
<1> DEFINE Inv == TypeInv /\ RefsInv /\ UsedInv /\ QueueInv
<1>1. Init => Inv
  BY Inits, UsedAtFirst, QueueAtFirst
<1>2. Inv /\ [Next]_vars => Inv'
  BY TypesKept, UsedKept, QueueKept
<1>3. Inv => QueueConverges
  BY QueueAtRest
<1> QED BY <1>1, <1>2, <1>3, PTL DEF Spec

=============================================================================
