--------------------------- MODULE WorkspaceProofs ---------------------------
(***************************************************************************)
(* What is proved of Workspace for any number of panes, sessions and       *)
(* native ids, and for any layouts that obey the laws of LayoutLaws.       *)
(***************************************************************************)
EXTENDS Workspace, TLAPS, FiniteSetTheorems, FunctionTheorems

\* ---- What every workspace is ----

\* A map of some panes to session ids, and of some session ids to sessions
PaneMaps == UNION {[some -> Keys] : some \in SUBSET Panes}
SessionMaps == UNION {[some -> Session] : some \in SUBSET Keys}
Workspaces == [layout : Layouts, panes : PaneMaps, focused : Panes, sessions : SessionMaps]

\* PanesAreWhole of a state, but for the sessions that are excused
Whole(w, gone) ==
    /\ w \in Workspaces
    /\ DOMAIN w.panes = Leaves(w.layout)
    /\ LayoutFits(w.layout)
    /\ w.focused \in Leaves(w.layout)
    /\ \A p \in DOMAIN w.panes : Has(w, w.panes[p]) \/ w.panes[p] \in gone

\* OneSessionPerNative of a state, but for the native ids that are excused.  A claim of a
\* session needs it of the other sessions only.
SingleAmong(w, keys, twice) ==
    \A j, k \in keys :
        j # k /\ w.sessions[j].pi = w.sessions[k].pi /\ w.sessions[k].pi # NoNative
            => w.sessions[k].pi \in twice
Single(w, twice) == SingleAmong(w, DOMAIN w.sessions, twice)
SingleBut(w, k, twice) == SingleAmong(w, DOMAIN w.sessions \ {k}, twice)

\* WorkStays from a state to a state, and what it takes of all steps but the last
Kept(w, c) ==
    \A k \in DOMAIN w.sessions :
        w.sessions[k].working =>
            \/ k \in DOMAIN c.sessions
            \/ \E j \in DOMAIN c.sessions :
                    c.sessions[j].pi = w.sessions[k].pi /\ w.sessions[k].pi # NoNative
KeptAsIs(w, c) ==
    \A k \in DOMAIN w.sessions :
        w.sessions[k].working => k \in DOMAIN c.sessions /\ c.sessions[k] = w.sessions[k]

\* What is stored can be restored: a record for each leaf, with at most one tab, and records of
\* one session agree.
StoredIsWhole ==
    stored # NotStored =>
        /\ DOMAIN stored.panes = Leaves(stored.layout)
        /\ \A p \in DOMAIN stored.panes :
              /\ stored.panes[p] \in [key : Keys, tabs : SUBSET (Natives \cup {NoNative})]
              /\ \/ stored.panes[p].tabs = {}
                 \/ \E n \in Natives \cup {NoNative} : stored.panes[p].tabs = {n}
        /\ \A p, q \in DOMAIN stored.panes :
              stored.panes[p].key = stored.panes[q].key => stored.panes[p].tabs = stored.panes[q].tabs

\* Nor does it hold a native id twice, but those a split has copied.
StoredIsSingle ==
    stored # NotStored =>
        \A p, q \in DOMAIN stored.panes, n \in Natives :
            /\ stored.panes[p].key # stored.panes[q].key
            /\ n \in stored.panes[p].tabs /\ n \in stored.panes[q].tabs
            => n \in copied

WorkspaceInv ==
    /\ copied \subseteq Natives /\ astray \subseteq Keys /\ side \subseteq Keys
    /\ Whole(ws, astray)
    /\ Single(ws, copied)
    /\ StoredIsWhole
    /\ StoredIsSingle
    /\ StoredIsShown

-----------------------------------------------------------------------------
\* ---- Maps and layouts ----

LEMMA MapsAreFunctions ==
    /\ \A f \in PaneMaps : DOMAIN f \subseteq Panes /\ f \in [DOMAIN f -> Keys]
    /\ \A f \in SessionMaps : DOMAIN f \subseteq Keys /\ f \in [DOMAIN f -> Session]
BY DEF PaneMaps, SessionMaps

LEMMA FunctionsAreMaps ==
    /\ \A some \in SUBSET Panes : [some -> Keys] \subseteq PaneMaps
    /\ \A some \in SUBSET Keys : [some -> Session] \subseteq SessionMaps
BY DEF PaneMaps, SessionMaps

LEMMA PutIsMap ==
    /\ \A f \in PaneMaps, p \in Panes, k \in Keys : Put(f, p, k) \in PaneMaps
    /\ \A f \in SessionMaps, k \in Keys, s \in Session : Put(f, k, s) \in SessionMaps
<1>1. ASSUME NEW f \in PaneMaps, NEW p \in Panes, NEW k \in Keys
      PROVE  Put(f, p, k) \in PaneMaps
  <2>1. Put(f, p, k) \in [DOMAIN f \cup {p} -> Keys] /\ DOMAIN f \cup {p} \in SUBSET Panes
    BY <1>1, MapsAreFunctions DEF Put
  <2> QED BY <2>1, FunctionsAreMaps
<1>2. ASSUME NEW f \in SessionMaps, NEW k \in Keys, NEW s \in Session
      PROVE  Put(f, k, s) \in SessionMaps
  <2>1. Put(f, k, s) \in [DOMAIN f \cup {k} -> Session] /\ DOMAIN f \cup {k} \in SUBSET Keys
    BY <1>2, MapsAreFunctions DEF Put
  <2> QED BY <2>1, FunctionsAreMaps
<1> QED BY <1>1, <1>2

LEMMA WithoutIsMap ==
    ASSUME NEW gone
    PROVE  /\ \A f \in PaneMaps : Without(f, gone) \in PaneMaps
           /\ \A f \in SessionMaps : Without(f, gone) \in SessionMaps
<1>1. ASSUME NEW f \in PaneMaps PROVE Without(f, gone) \in [DOMAIN f \ gone -> Keys]
  BY <1>1, MapsAreFunctions DEF Without
<1>2. ASSUME NEW f \in SessionMaps PROVE Without(f, gone) \in [DOMAIN f \ gone -> Session]
  BY <1>2, MapsAreFunctions DEF Without
<1> QED BY <1>1, <1>2, MapsAreFunctions, FunctionsAreMaps

LEMMA FreshTabIsSession == FreshTab \in Session /\ ~FreshTab.working /\ FreshTab.pi = NoNative
BY DEF FreshTab, Session

\* The leaves are panes, and there is one.
LEMMA LeavesArePanes ==
    ASSUME NEW l \in Layouts
    PROVE  /\ LayoutLeaves(l) \in Seq(Panes) /\ Len(LayoutLeaves(l)) >= 1
           /\ DOMAIN LayoutLeaves(l) = 1..Len(LayoutLeaves(l))
           /\ Leaves(l) \subseteq Panes
           /\ LayoutLeaves(l)[1] \in Leaves(l)
<1>1. LayoutLeaves(l) \in Seq(Panes) /\ LayoutLeaves(l) # <<>>
  BY LayoutAssumption DEF LayoutLaws, LeavesAreDistinct
<1> HIDE DEF Leaves
<1>2. Len(LayoutLeaves(l)) >= 1 /\ DOMAIN LayoutLeaves(l) = 1..Len(LayoutLeaves(l))
  BY <1>1
<1>3. \A i \in DOMAIN LayoutLeaves(l) : LayoutLeaves(l)[i] \in Panes
  BY <1>1, <1>2
<1> QED BY <1>1, <1>2, <1>3 DEF Leaves

\* A pane is listed once.
LEMMA LeavesOnce ==
    ASSUME NEW l \in Layouts, NEW i \in DOMAIN LayoutLeaves(l), NEW j \in DOMAIN LayoutLeaves(l),
           LayoutLeaves(l)[i] = LayoutLeaves(l)[j]
    PROVE  i = j
BY LayoutAssumption DEF LayoutLaws, LeavesAreDistinct

LEMMA LeavesAreCounted ==
    ASSUME NEW l \in Layouts
    PROVE  Len(LayoutLeaves(l)) = Cardinality(Leaves(l))
<1> DEFINE n == Len(LayoutLeaves(l))
           f == [i \in 1..n |-> LayoutLeaves(l)[i]]
<1>1. n \in Nat /\ DOMAIN LayoutLeaves(l) = 1..n
  BY LeavesArePanes
<1>2. f \in Bijection(1..n, Leaves(l))
  <2>1. f \in [1..n -> Leaves(l)]
    BY <1>1 DEF Leaves
  <2>2. \A i, j \in 1..n : f[i] = f[j] => i = j
    BY <1>1, LeavesOnce
  <2>3. \A p \in Leaves(l) : \E i \in 1..n : f[i] = p
    BY <1>1 DEF Leaves
  <2> QED BY <2>1, <2>2, <2>3, Fun_IsBij
<1>3. IsFiniteSet(1..n) /\ Cardinality(1..n) = n
  <2> HIDE DEF n
  <2>1. 1 \in Int /\ n \in Int
    BY <1>1
  <2>2. IsFiniteSet(1..n) /\ Cardinality(1..n) = IF 1 > n THEN 0 ELSE n - 1 + 1
    BY ONLY <2>1, FS_Interval
  <2> QED BY <1>1, <2>2
<1>4. Cardinality(1..n) = Cardinality(Leaves(l))
  BY <1>2, <1>3, FS_Bijection DEF ExistsBijection
<1> QED BY <1>3, <1>4

LEMMA OneLeaf ==
    ASSUME NEW p \in Panes
    PROVE  LayoutLeaf(p) \in Layouts /\ Leaves(LayoutLeaf(p)) = {p} /\ LayoutFits(LayoutLeaf(p))
<1>1. LayoutLeaf(p) \in Layouts /\ LayoutLeaves(LayoutLeaf(p)) = <<p>> /\ LayoutFits(LayoutLeaf(p))
  BY LayoutAssumption DEF LayoutLaws
<1> QED BY <1>1 DEF Leaves

LEMMA RemoveOne ==
    ASSUME NEW l \in Layouts, NEW p \in Panes, Leaves(l) # {p}
    PROVE  /\ LayoutRemove(l, p) \in Layouts /\ Leaves(LayoutRemove(l, p)) = Leaves(l) \ {p}
           /\ LayoutFits(l) => LayoutFits(LayoutRemove(l, p))
BY LayoutAssumption DEF LayoutLaws, Shrinks, LeadsTo

LEMMA RemoveSome ==
    ASSUME NEW l \in Layouts, NEW gone \in SUBSET Panes, ~(Leaves(l) \subseteq gone)
    PROVE  /\ LayoutRemoveAll(l, gone) \in Layouts /\ Leaves(LayoutRemoveAll(l, gone)) = Leaves(l) \ gone
           /\ LayoutFits(l) => LayoutFits(LayoutRemoveAll(l, gone))
BY LayoutAssumption DEF LayoutLaws, Shrinks, LeadsTo

LEMMA SplitOne ==
    ASSUME NEW l \in Layouts, NEW p \in Leaves(l), NEW new \in Panes \ Leaves(l),
           NEW edge \in Edges \cup {Beside}
    PROVE  /\ LayoutSplit(l, p, new, edge[1], edge[2]) \in Layouts
           /\ Leaves(LayoutSplit(l, p, new, edge[1], edge[2])) = Leaves(l) \cup {new}
BY LayoutAssumption DEF LayoutLaws, LeadsTo

\* With one leaf there is no sibling, and with two there is one.
LEMMA SiblingIsLeaf ==
    ASSUME NEW w \in Workspaces, NEW p, HasSibling(w, p)
    PROVE  Sibling(w, p) \in Leaves(w.layout) \ {p}
<1> DEFINE ids == LayoutLeaves(w.layout)
           first(i) == ids[i] # p /\ \A j \in DOMAIN ids : ids[j] # p => i <= j
<1>1. w.layout \in Layouts
  BY DEF Workspaces
<1>2. DOMAIN ids = 1..Len(ids) /\ Len(ids) \in Nat
  BY <1>1, LeavesArePanes
<1>3. \E i \in DOMAIN ids : ids[i] # p
  BY DEF HasSibling, Leaves
<1>4. \A i, j \in DOMAIN ids : ids[i] = ids[j] => i = j
  BY <1>1, LeavesOnce
<1>5. \E i \in DOMAIN ids : first(i)
  <2>1. CASE ids[1] # p
    BY <1>2, <1>3, <2>1
  <2>2. CASE ids[1] = p
    <3>1. 2 \in DOMAIN ids /\ ids[2] # p
      BY <1>2, <1>3, <1>4, <2>2
    <3>2. \A j \in DOMAIN ids : ids[j] # p => 2 <= j
      BY <1>2, <2>2
    <3> QED BY <3>1, <3>2
  <2> QED BY <2>1, <2>2
<1>6. (CHOOSE i \in DOMAIN ids : first(i)) \in DOMAIN ids /\ first(CHOOSE i \in DOMAIN ids : first(i))
  <2> HIDE DEF first
  <2> QED BY <1>5
<1> QED BY <1>6 DEF Sibling, Leaves

LEMMA ManyLeaves ==
    ASSUME NEW l \in Layouts
    PROVE  /\ Len(LayoutLeaves(l)) > 1 => \A p : Leaves(l) # {p}
           /\ Len(LayoutLeaves(l)) <= 1 => \E p \in Panes : Leaves(l) = {p}
<1>1. DOMAIN LayoutLeaves(l) = 1..Len(LayoutLeaves(l)) /\ Len(LayoutLeaves(l)) >= 1
      /\ Len(LayoutLeaves(l)) \in Nat /\ Leaves(l) \subseteq Panes
  BY LeavesArePanes
<1>2. ASSUME Len(LayoutLeaves(l)) > 1 PROVE \A p : Leaves(l) # {p}
  <2>1. LayoutLeaves(l)[1] # LayoutLeaves(l)[2] /\ {1, 2} \subseteq DOMAIN LayoutLeaves(l)
    BY <1>1, <1>2, LeavesOnce
  <2> QED BY <2>1 DEF Leaves
<1>3. ASSUME Len(LayoutLeaves(l)) <= 1 PROVE Leaves(l) = {LayoutLeaves(l)[1]}
  <2>1. DOMAIN LayoutLeaves(l) = {1}
    BY <1>1, <1>3
  <2> QED BY <2>1 DEF Leaves
<1> QED BY <1>1, <1>2, <1>3

-----------------------------------------------------------------------------
\* ---- Operations from a state to a state ----

\* c has some of the sessions of w, as they are.
Fewer(w, c) ==
    /\ DOMAIN c.sessions \subseteq DOMAIN w.sessions
    /\ \A k \in DOMAIN c.sessions : c.sessions[k] = w.sessions[k]

LEMMA FewerStaySingle ==
    ASSUME NEW w, NEW c, NEW k, NEW twice, Fewer(w, c)
    PROVE  /\ Single(w, twice) => Single(c, twice)
           /\ SingleBut(w, k, twice) => SingleBut(c, k, twice)
BY DEF Fewer, Single, SingleBut, SingleAmong

\* pruneSessions keeps what is shown and what works.
LEMMA PruneKeeps ==
    ASSUME NEW w \in Workspaces
    PROVE  /\ Prune(w) \in Workspaces
           /\ Prune(w).layout = w.layout /\ Prune(w).panes = w.panes /\ Prune(w).focused = w.focused
           /\ Fewer(w, Prune(w)) /\ KeptAsIs(w, Prune(w))
           /\ \A k \in DOMAIN w.sessions : Shown(w, k) => k \in DOMAIN Prune(w).sessions
<1> DEFINE gone == {k \in DOMAIN w.sessions : ~Shown(w, k) /\ ~w.sessions[k].working}
<1>1. Prune(w) = [w EXCEPT !.sessions = Without(w.sessions, gone)]
  BY DEF Prune, Workspaces
<1>2. Without(w.sessions, gone) \in SessionMaps /\ w.sessions \in SessionMaps
  BY WithoutIsMap DEF Workspaces
<1> HIDE DEF gone
<1>3. /\ Prune(w) \in Workspaces /\ Prune(w).sessions = Without(w.sessions, gone)
      /\ Prune(w).layout = w.layout /\ Prune(w).panes = w.panes /\ Prune(w).focused = w.focused
  BY <1>1, <1>2 DEF Workspaces
<1>4. DOMAIN Prune(w).sessions = DOMAIN w.sessions \ gone
      /\ \A k \in DOMAIN Prune(w).sessions : Prune(w).sessions[k] = w.sessions[k]
  BY <1>3 DEF Without
<1> QED BY <1>3, <1>4 DEF gone, Fewer, KeptAsIs

LEMMA PruneStaysWhole ==
    ASSUME NEW w, NEW gone, Whole(w, gone)
    PROVE  Whole(Prune(w), gone)
BY PruneKeeps DEF Whole, Has, Shown

\* A session may be put in place of none, of itself, or of one that does not work.
MayPut(w, k, s) == Has(w, k) => w.sessions[k] = s \/ ~w.sessions[k].working

LEMMA PutKeeps ==
    ASSUME NEW w \in Workspaces, NEW k \in Keys, NEW s \in Session, NEW c,
           c = [w EXCEPT !.sessions = Put(@, k, s)]
    PROVE  /\ c \in Workspaces
           /\ c.layout = w.layout /\ c.panes = w.panes /\ c.focused = w.focused
           /\ c.sessions = Put(w.sessions, k, s)
           /\ DOMAIN c.sessions = DOMAIN w.sessions \cup {k} /\ c.sessions[k] = s
           /\ \A j \in DOMAIN w.sessions \ {k} : c.sessions[j] = w.sessions[j]
           /\ MayPut(w, k, s) => KeptAsIs(w, c)
           /\ \A twice : Single(w, twice) => SingleBut(c, k, twice)
<1>1. w.sessions \in SessionMaps /\ Put(w.sessions, k, s) \in SessionMaps
  BY PutIsMap DEF Workspaces
<1>2. /\ c \in Workspaces /\ c.sessions = Put(w.sessions, k, s)
      /\ c.layout = w.layout /\ c.panes = w.panes /\ c.focused = w.focused
  BY <1>1 DEF Workspaces
<1>3. DOMAIN c.sessions = DOMAIN w.sessions \cup {k} /\ c.sessions[k] = s
      /\ \A j \in DOMAIN w.sessions \ {k} : c.sessions[j] = w.sessions[j]
  BY <1>2 DEF Put
<1>4. MayPut(w, k, s) => KeptAsIs(w, c)
  BY <1>3 DEF MayPut, KeptAsIs, Has
<1>5. ASSUME NEW twice, Single(w, twice) PROVE SingleBut(c, k, twice)
  BY <1>3, <1>5 DEF Single, SingleBut, SingleAmong
<1> QED BY <1>2, <1>3, <1>4, <1>5

LEMMA PutStaysWhole ==
    ASSUME NEW w, NEW gone, Whole(w, gone), NEW k \in Keys, NEW s \in Session
    PROVE  Whole([w EXCEPT !.sessions = Put(@, k, s)], gone)
BY PutKeeps DEF Whole, Has

\* A step that keeps all work as it is, and then one that keeps it.
LEMMA KeptInTwo ==
    ASSUME NEW w, NEW c, NEW d, KeptAsIs(w, c)
    PROVE  /\ KeptAsIs(c, d) => KeptAsIs(w, d)
           /\ Kept(c, d) => Kept(w, d)
BY DEF KeptAsIs, Kept

LEMMA KeptBySame ==
    ASSUME NEW w
    PROVE  KeptAsIs(w, w) /\ Kept(w, w)
BY DEF KeptAsIs, Kept

\* What every dispatch leads to
StepOK(w, c, gone, twice) == Whole(c, gone) /\ Single(c, twice) /\ Kept(w, c)

-----------------------------------------------------------------------------
\* ---- claimCanonicalSession ----

Duplicates(w, k) == {j \in DOMAIN w.sessions \ {k} : w.sessions[j].pi = w.sessions[k].pi}
Claimed(w, k) == [p \in DOMAIN w.panes |-> IF w.panes[p] \in Duplicates(w, k) THEN k ELSE w.panes[p]]
Canonical(w, k) == {p \in DOMAIN w.panes : Claimed(w, k)[p] = k}

\* The three outcomes
LEMMA ClaimCases ==
    ASSUME NEW w, NEW k, NEW c \in Claim(w, k)
    PROVE  \/ w.sessions[k].pi = NoNative /\ c = w
           \/ /\ w.sessions[k].pi # NoNative
              /\ c = [w EXCEPT !.sessions = Without(w.sessions, Duplicates(w, k)),
                               !.panes = Claimed(w, k)]
           \/ /\ w.sessions[k].pi # NoNative
              /\ \E p \in Canonical(w, k) :
                    /\ w.focused \in Canonical(w, k) => p = w.focused
                    /\ c = KeepPane(w, Claimed(w, k), Without(w.sessions, Duplicates(w, k)),
                                    Canonical(w, k), p)
BY DEF Claim, Duplicates, Claimed, Canonical

\* Without the duplicates every native id is single again, and no work is lost.
LEMMA ClaimedSessions ==
    ASSUME NEW w \in Workspaces, NEW k \in DOMAIN w.sessions, NEW twice, SingleBut(w, k, twice),
           w.sessions[k].pi # NoNative, NEW c,
           c.sessions = Without(w.sessions, Duplicates(w, k))
    PROVE  Single(c, twice) /\ Kept(w, c) /\ k \in DOMAIN c.sessions
<1>1. DOMAIN c.sessions = DOMAIN w.sessions \ Duplicates(w, k) /\ k \notin Duplicates(w, k)
      /\ \A j \in DOMAIN c.sessions : c.sessions[j] = w.sessions[j]
  BY DEF Without, Duplicates
<1>2. Single(c, twice)
  BY <1>1 DEF Single, SingleBut, SingleAmong, Duplicates
<1>3. Kept(w, c)
  BY <1>1 DEF Kept, Duplicates
<1> QED BY <1>1, <1>2, <1>3

LEMMA ClaimedPanes ==
    ASSUME NEW w, NEW gone, Whole(w, gone), NEW k \in DOMAIN w.sessions
    PROVE  /\ Claimed(w, k) \in PaneMaps /\ DOMAIN Claimed(w, k) = DOMAIN w.panes
           /\ Without(w.sessions, Duplicates(w, k)) \in SessionMaps
           /\ \A p \in DOMAIN w.panes :
                 Claimed(w, k)[p] \in DOMAIN w.sessions \ Duplicates(w, k) \/ Claimed(w, k)[p] \in gone
           /\ \A p \in DOMAIN w.panes : w.panes[p] = k => p \in Canonical(w, k)
<1>1. w.panes \in PaneMaps /\ w.sessions \in SessionMaps /\ k \in Keys
  BY MapsAreFunctions DEF Whole, Workspaces
<1>2. Claimed(w, k) \in [DOMAIN w.panes -> Keys] /\ DOMAIN w.panes \in SUBSET Panes
  BY <1>1, MapsAreFunctions DEF Claimed
<1>3. Claimed(w, k) \in PaneMaps
  BY <1>2, FunctionsAreMaps
<1>4. Without(w.sessions, Duplicates(w, k)) \in SessionMaps
  BY <1>1, WithoutIsMap
<1>5. k \notin Duplicates(w, k)
  BY DEF Duplicates
<1>6. ASSUME NEW p \in DOMAIN w.panes
      PROVE  /\ Claimed(w, k)[p] \in DOMAIN w.sessions \ Duplicates(w, k) \/ Claimed(w, k)[p] \in gone
             /\ w.panes[p] = k => p \in Canonical(w, k)
  BY <1>5 DEF Claimed, Whole, Has, Canonical
<1> QED BY <1>2, <1>3, <1>4, <1>6

\* The panes of the others close, with their leaves.
LEMMA KeepPaneStaysWhole ==
    ASSUME NEW w, NEW gone, Whole(w, gone), NEW k \in DOMAIN w.sessions,
           NEW p \in Canonical(w, k), NEW c,
           c = KeepPane(w, Claimed(w, k), Without(w.sessions, Duplicates(w, k)), Canonical(w, k), p)
    PROVE  /\ Whole(c, gone) /\ c.focused = p
           /\ c.sessions = Without(w.sessions, Duplicates(w, k))
<1> DEFINE extra == Canonical(w, k) \ {p}
           sessions == Without(w.sessions, Duplicates(w, k))
           panes == Without(Claimed(w, k), extra)
           layout == LayoutRemoveAll(w.layout, extra)
<1>1. /\ w \in Workspaces /\ w.layout \in Layouts /\ DOMAIN w.panes = Leaves(w.layout)
      /\ LayoutFits(w.layout) /\ Leaves(w.layout) \subseteq Panes
  BY LeavesArePanes DEF Whole, Workspaces
<1>2. p \in Leaves(w.layout) /\ p \notin extra /\ extra \in SUBSET Panes
  BY <1>1 DEF Canonical
<1>3. layout \in Layouts /\ Leaves(layout) = Leaves(w.layout) \ extra /\ LayoutFits(layout)
  BY <1>1, <1>2, RemoveSome
<1>4. panes \in PaneMaps /\ sessions \in SessionMaps
  BY ClaimedPanes, WithoutIsMap
<1>5. /\ DOMAIN panes = Leaves(w.layout) \ extra
      /\ \A q \in DOMAIN panes : panes[q] = Claimed(w, k)[q] /\ q \in DOMAIN w.panes
  BY <1>1, ClaimedPanes DEF Without
<1>6. DOMAIN sessions = DOMAIN w.sessions \ Duplicates(w, k)
  BY DEF Without
<1>7. c = [w EXCEPT !.sessions = sessions, !.panes = panes, !.layout = layout, !.focused = p]
  BY <1>1 DEF KeepPane, Workspaces
<1> HIDE DEF extra, sessions, panes, layout
<1>8. /\ c \in Workspaces /\ c.layout = layout /\ c.panes = panes /\ c.focused = p
      /\ c.sessions = sessions
  BY <1>1, <1>2, <1>3, <1>4, <1>7 DEF Workspaces
<1>9. \A q \in DOMAIN panes : panes[q] \in DOMAIN sessions \/ panes[q] \in gone
  BY <1>5, <1>6, ClaimedPanes
<1>10. Whole(c, gone)
  BY <1>2, <1>3, <1>5, <1>8, <1>9 DEF Whole, Has
<1> QED BY <1>8, <1>10 DEF sessions

\* A claim makes a native id single; it keeps what is whole, and the focus if the session has it.
LEMMA ClaimStep ==
    ASSUME NEW w, NEW gone, NEW twice, Whole(w, gone),
           NEW k \in DOMAIN w.sessions, SingleBut(w, k, twice), NEW c \in Claim(w, k)
    PROVE  /\ StepOK(w, c, gone, twice) /\ k \in DOMAIN c.sessions
           /\ w.panes[w.focused] = k => c.focused = w.focused
<1>1. CASE w.sessions[k].pi = NoNative
  <2>1. c = w
    BY <1>1, ClaimCases
  <2>2. Single(w, twice)
    BY <1>1 DEF Single, SingleBut, SingleAmong
  <2> QED BY <2>1, <2>2, KeptBySame DEF StepOK
<1>2. CASE /\ w.sessions[k].pi # NoNative
           /\ c = [w EXCEPT !.sessions = Without(w.sessions, Duplicates(w, k)),
                            !.panes = Claimed(w, k)]
  <2> DEFINE sessions == Without(w.sessions, Duplicates(w, k))
             panes == Claimed(w, k)
  <2>1. w \in Workspaces /\ panes \in PaneMaps /\ sessions \in SessionMaps
    BY ClaimedPanes DEF Whole
  <2>2. /\ DOMAIN panes = DOMAIN w.panes /\ DOMAIN sessions = DOMAIN w.sessions \ Duplicates(w, k)
        /\ \A p \in DOMAIN panes : panes[p] \in DOMAIN sessions \/ panes[p] \in gone
    BY ClaimedPanes DEF Without
  <2>3. c = [w EXCEPT !.sessions = sessions, !.panes = panes]
    BY <1>2
  <2>4. c.sessions = sessions /\ Single(c, twice) /\ Kept(w, c) /\ k \in DOMAIN c.sessions
    BY <1>2, <2>1, ClaimedSessions DEF Workspaces
  <2> HIDE DEF sessions, panes
  <2>5. /\ c \in Workspaces /\ c.panes = panes /\ c.layout = w.layout /\ c.focused = w.focused
    BY <2>1, <2>3 DEF Workspaces
  <2>6. Whole(c, gone)
    BY <2>2, <2>4, <2>5 DEF Whole, Has
  <2> QED BY <2>4, <2>5, <2>6 DEF StepOK
<1>3. CASE /\ w.sessions[k].pi # NoNative
           /\ \E p \in Canonical(w, k) :
                /\ w.focused \in Canonical(w, k) => p = w.focused
                /\ c = KeepPane(w, Claimed(w, k), Without(w.sessions, Duplicates(w, k)),
                                Canonical(w, k), p)
  <2>1. PICK p \in Canonical(w, k) :
               /\ w.focused \in Canonical(w, k) => p = w.focused
               /\ c = KeepPane(w, Claimed(w, k), Without(w.sessions, Duplicates(w, k)),
                               Canonical(w, k), p)
    BY <1>3
  <2>2. /\ Whole(c, gone) /\ c.focused = p
        /\ c.sessions = Without(w.sessions, Duplicates(w, k))
    BY <2>1, KeepPaneStaysWhole
  <2>3. w \in Workspaces /\ w.focused \in DOMAIN w.panes
    BY DEF Whole
  <2>4. Single(c, twice) /\ Kept(w, c) /\ k \in DOMAIN c.sessions
    BY <1>3, <2>2, <2>3, ClaimedSessions
  <2>5. w.panes[w.focused] = k => c.focused = w.focused
    BY <2>1, <2>2, <2>3, ClaimedPanes
  <2> QED BY <2>2, <2>4, <2>5 DEF StepOK
<1> QED BY <1>1, <1>2, <1>3, ClaimCases

-----------------------------------------------------------------------------
\* ---- Panes get other sessions, or the focus ----

\* Nothing happens.
LEMMA SameStep ==
    ASSUME NEW w, NEW gone, NEW twice, Whole(w, gone), Single(w, twice)
    PROVE  StepOK(w, w, gone, twice)
BY KeptBySame DEF StepOK

LEMMA FocusStep ==
    ASSUME NEW w, NEW gone, NEW twice, Whole(w, gone), Single(w, twice),
           NEW p \in DOMAIN w.panes, NEW c, c = [w EXCEPT !.focused = p]
    PROVE  StepOK(w, c, gone, twice)
<1>1. p \in Leaves(w.layout) /\ p \in Panes /\ w \in Workspaces
  BY LeavesArePanes DEF Whole, Workspaces
<1>2. /\ c \in Workspaces /\ c.focused = p
      /\ c.layout = w.layout /\ c.panes = w.panes /\ c.sessions = w.sessions
  BY <1>1 DEF Workspaces
<1> QED BY <1>1, <1>2 DEF StepOK, Whole, Has, Single, SingleAmong, Kept

LEMMA FocusExistingStep ==
    ASSUME NEW w, NEW gone, NEW twice, Whole(w, gone), Single(w, twice),
           NEW p, NEW k, NEW c \in FocusExisting(w, p, k)
    PROVE  StepOK(w, c, gone, twice)
BY FocusStep, SameStep DEF FocusExisting

LEMMA FocusShownStep ==
    ASSUME NEW w, NEW gone, NEW twice, Whole(w, gone), Single(w, twice),
           NEW k, NEW c \in FocusShown(w, k)
    PROVE  StepOK(w, c, gone, twice)
BY FocusExistingStep DEF FocusShown

\* replacePaneSession
LEMMA ReplaceStep ==
    ASSUME NEW w, NEW gone, NEW twice, Whole(w, gone), Single(w, twice),
           NEW p, NEW k \in Keys, NEW s \in Session, MayPut(w, k, s),
           NEW c \in ReplacePaneSession(w, p, k, s)
    PROVE  StepOK(w, c, gone, twice)
<1>1. CASE p \notin DOMAIN w.panes
  BY <1>1, SameStep DEF ReplacePaneSession
<1>2. CASE p \in DOMAIN w.panes
  <2> DEFINE put == [w EXCEPT !.sessions = Put(@, k, s)]
             set == [put EXCEPT !.panes = [@ EXCEPT ![p] = k]]
             pruned == [Prune(set) EXCEPT !.focused = p]
  <2>1. /\ w \in Workspaces /\ w.panes \in PaneMaps /\ p \in Panes /\ p \in Leaves(w.layout)
        /\ DOMAIN w.panes \in SUBSET Panes /\ w.panes \in [DOMAIN w.panes -> Keys]
    BY <1>2, MapsAreFunctions DEF Whole, Workspaces
  <2>2. /\ put \in Workspaces /\ put.layout = w.layout /\ put.panes = w.panes
        /\ put.focused = w.focused /\ DOMAIN put.sessions = DOMAIN w.sessions \cup {k}
        /\ KeptAsIs(w, put) /\ SingleBut(put, k, twice)
    <3>1. put = [w EXCEPT !.sessions = Put(@, k, s)]
      OBVIOUS
    <3> HIDE DEF put
    <3> QED BY <2>1, <3>1, PutKeeps
  <2>3. [w EXCEPT !.sessions = Put(@, k, s), !.panes[p] = k] = set
    BY <2>1 DEF Workspaces
  <2> HIDE DEF put
  <2>4. [w.panes EXCEPT ![p] = k] \in PaneMaps
    <3>1. [w.panes EXCEPT ![p] = k] \in [DOMAIN w.panes -> Keys]
      BY <2>1
    <3> QED BY <2>1, <3>1, FunctionsAreMaps
  <2>5. /\ set \in Workspaces /\ set.sessions = put.sessions /\ set.layout = w.layout
        /\ set.panes = [w.panes EXCEPT ![p] = k] /\ set.focused = w.focused
    BY <2>2, <2>4 DEF Workspaces
  <2> HIDE DEF set
  <2>6. Whole(set, gone) /\ Has(set, k) /\ Shown(set, k)
    BY <1>2, <2>1, <2>2, <2>5 DEF Whole, Has, Shown
  <2>7. KeptAsIs(w, set) /\ SingleBut(set, k, twice)
    BY <2>2, <2>5 DEF KeptAsIs, SingleBut, SingleAmong
  <2>8. /\ Whole(Prune(set), gone) /\ KeptAsIs(w, Prune(set)) /\ SingleBut(Prune(set), k, twice)
        /\ k \in DOMAIN Prune(set).sessions
        /\ Prune(set).panes = set.panes /\ Prune(set).layout = w.layout /\ Prune(set) \in Workspaces
    BY <2>5, <2>6, <2>7, PruneKeeps, PruneStaysWhole, KeptInTwo, FewerStaySingle DEF Has
  <2>9. /\ pruned \in Workspaces /\ pruned.focused = p /\ pruned.panes = set.panes
        /\ pruned.layout = w.layout /\ pruned.sessions = Prune(set).sessions
    BY <2>1, <2>8 DEF Workspaces
  <2> HIDE DEF pruned
  <2>10. /\ Whole(pruned, gone) /\ KeptAsIs(w, pruned) /\ SingleBut(pruned, k, twice)
         /\ k \in DOMAIN pruned.sessions /\ pruned.panes[pruned.focused] = k
    BY <1>2, <2>1, <2>5, <2>8, <2>9 DEF Whole, Has, KeptAsIs, SingleBut, SingleAmong
  <2>11. PICK d \in Claim(pruned, k) : c = [d EXCEPT !.focused = p]
    BY <1>2, <2>3 DEF ReplacePaneSession, pruned
  <2>12. StepOK(pruned, d, gone, twice) /\ d.focused = p
    BY <2>9, <2>10, ClaimStep
  <2>13. c = d
    BY <2>11, <2>12 DEF StepOK, Whole, Workspaces
  <2> QED BY <2>10, <2>12, <2>13, KeptInTwo DEF StepOK
<1> QED BY <1>1, <1>2

-----------------------------------------------------------------------------
\* ---- One pane takes the place of all ----

LEMMA OnlyPaneKeeps ==
    ASSUME NEW w, NEW gone, Whole(w, gone), NEW p \in Panes, NEW k \in Keys, Has(w, k) \/ k \in gone
    PROVE  /\ Whole(OnlyPane(w, p, k), gone) /\ Fewer(w, OnlyPane(w, p, k))
           /\ KeptAsIs(w, OnlyPane(w, p, k))
           /\ Has(w, k) => k \in DOMAIN OnlyPane(w, p, k).sessions
<1> DEFINE panes == [q \in {p} |-> k]
           only == [w EXCEPT !.layout = LayoutLeaf(p), !.panes = panes, !.focused = p]
<1>1. OnlyPane(w, p, k) = Prune(only)
  BY DEF OnlyPane
<1>2. panes \in PaneMaps /\ DOMAIN panes = {p} /\ panes[p] = k
  <2>1. panes \in [{p} -> Keys] /\ {p} \in SUBSET Panes
    OBVIOUS
  <2> QED BY <2>1, FunctionsAreMaps
<1>3. w \in Workspaces /\ LayoutLeaf(p) \in Layouts /\ Leaves(LayoutLeaf(p)) = {p} /\ LayoutFits(LayoutLeaf(p))
  BY OneLeaf DEF Whole
<1> HIDE DEF panes
<1>4. /\ only \in Workspaces /\ only.layout = LayoutLeaf(p) /\ only.panes = panes /\ only.focused = p
      /\ only.sessions = w.sessions
  BY <1>2, <1>3 DEF Workspaces
<1> HIDE DEF only
<1>5. Whole(only, gone) /\ Shown(only, k)
  BY <1>2, <1>3, <1>4 DEF Whole, Has, Shown
<1>6. Whole(Prune(only), gone) /\ Fewer(only, Prune(only)) /\ KeptAsIs(only, Prune(only))
      /\ (k \in DOMAIN only.sessions => k \in DOMAIN Prune(only).sessions)
  BY <1>4, <1>5, PruneKeeps, PruneStaysWhole
<1> QED BY <1>1, <1>4, <1>6 DEF Fewer, KeptAsIs, Has

\* focusSessionAsOnlyPane
LEMMA FocusAsOnlyStep ==
    ASSUME NEW w, NEW gone, NEW twice, Whole(w, gone), Single(w, twice),
           NEW p, NEW k, NEW c \in FocusAsOnlyPane(w, p, k)
    PROVE  StepOK(w, c, gone, twice)
<1>1. CASE p \notin DOMAIN w.panes \/ w.panes[p] # k
  BY <1>1, SameStep DEF FocusAsOnlyPane
<1>2. CASE p \in DOMAIN w.panes /\ w.panes[p] = k
  <2> DEFINE only == OnlyPane(w, p, k)
  <2>1. p \in Panes /\ k \in Keys /\ (Has(w, k) \/ k \in gone)
    BY <1>2, MapsAreFunctions DEF Whole, Workspaces
  <2>2. /\ Whole(only, gone) /\ Fewer(w, only) /\ KeptAsIs(w, only)
        /\ Has(w, k) => k \in DOMAIN only.sessions
    BY <2>1, OnlyPaneKeeps
  <2> HIDE DEF only
  <2>3. Single(only, twice) /\ SingleBut(only, k, twice)
    <3>1. Single(only, twice)
      BY <2>2, FewerStaySingle
    <3> QED BY <3>1 DEF Single, SingleBut, SingleAmong
  <2>4. CASE Has(w, k)
    <3>1. c \in Claim(only, k)
      BY <1>2, <2>4 DEF FocusAsOnlyPane, only
    <3>2. StepOK(only, c, gone, twice)
      BY <2>2, <2>3, <2>4, <3>1, ClaimStep
    <3> QED BY <2>2, <3>2, KeptInTwo DEF StepOK
  <2>5. CASE ~Has(w, k)
    <3>1. c = only
      BY <1>2, <2>5 DEF FocusAsOnlyPane, only
    <3> QED BY <2>2, <2>3, <3>1, KeptInTwo, KeptBySame DEF StepOK
  <2> QED BY <2>4, <2>5
<1> QED BY <1>1, <1>2

\* replaceWorkspaceSession
LEMMA ReplaceWorkspaceStep ==
    ASSUME NEW w, NEW gone, NEW twice, Whole(w, gone), Single(w, twice),
           NEW p \in Panes, NEW k \in Keys, NEW s \in Session, MayPut(w, k, s),
           NEW c \in ReplaceWorkspaceSession(w, p, k, s)
    PROVE  StepOK(w, c, gone, twice)
<1> DEFINE put == [w EXCEPT !.sessions = Put(@, k, s)]
           only == OnlyPane(put, p, k)
<1>1. /\ Whole(put, gone) /\ KeptAsIs(w, put) /\ SingleBut(put, k, twice)
      /\ DOMAIN put.sessions = DOMAIN w.sessions \cup {k}
  <2>1. w \in Workspaces
    BY DEF Whole
  <2>2. put = [w EXCEPT !.sessions = Put(@, k, s)]
    OBVIOUS
  <2>3. Whole(put, gone)
    BY PutStaysWhole
  <2> HIDE DEF put, only
  <2>4. /\ DOMAIN put.sessions = DOMAIN w.sessions \cup {k}
        /\ KeptAsIs(w, put) /\ SingleBut(put, k, twice)
    BY <2>1, <2>2, PutKeeps
  <2> QED BY <2>3, <2>4
<1>2. c \in Claim(only, k)
  BY DEF ReplaceWorkspaceSession
<1> HIDE DEF put
<1>3. Has(put, k)
  BY <1>1 DEF Has
<1>4. /\ Whole(only, gone) /\ Fewer(put, only) /\ KeptAsIs(put, only)
      /\ k \in DOMAIN only.sessions
  BY <1>1, <1>3, OnlyPaneKeeps
<1> HIDE DEF only
<1>5. KeptAsIs(w, only) /\ SingleBut(only, k, twice)
  BY <1>1, <1>4, KeptInTwo, FewerStaySingle
<1>6. StepOK(only, c, gone, twice)
  BY <1>2, <1>4, <1>5, ClaimStep
<1> QED BY <1>5, <1>6, KeptInTwo DEF StepOK

-----------------------------------------------------------------------------
\* ---- A pane is split, or closes ----

\* Nobody else has the native id of the session, but as excused.
NoOther(w, k, s, twice) ==
    \A j \in DOMAIN w.sessions \ {k} :
        w.sessions[j].pi = s.pi /\ s.pi # NoNative => s.pi \in twice

\* splitPaneWithSession.  A split that copies a session excuses its native id.
LEMMA SplitStep ==
    ASSUME NEW w, NEW gone, NEW twice, NEW more, Whole(w, gone), Single(w, twice),
           NEW k \in Keys, NEW s \in Session, MayPut(w, k, s),
           twice \subseteq more, NoOther(w, k, s, more),
           NEW p, NEW new \in Panes \ Leaves(w.layout), NEW edge \in Edges \cup {Beside},
           NEW c \in SplitPane(w, p, k, s, new, edge[1], edge[2])
    PROVE  StepOK(w, c, gone, more)
<1> DEFINE put == [w EXCEPT !.sessions = Put(@, k, s)]
           layout == LayoutSplit(w.layout, p, new, edge[1], edge[2])
           panes == Put(w.panes, new, k)
<1>1. put = [w EXCEPT !.sessions = Put(@, k, s)]
  OBVIOUS
<1>2. /\ p \in Leaves(w.layout) /\ LayoutFits(layout)
      /\ c = [w EXCEPT !.sessions = Put(@, k, s), !.panes = Put(@, new, k), !.layout = layout,
                       !.focused = new]
  BY DEF SplitPane
<1>3. w \in Workspaces /\ w.layout \in Layouts /\ w.panes \in PaneMaps
  BY DEF Whole, Workspaces
<1>4. layout \in Layouts /\ Leaves(layout) = Leaves(w.layout) \cup {new}
  BY <1>2, <1>3, SplitOne
<1>5. /\ panes \in PaneMaps /\ DOMAIN panes = DOMAIN w.panes \cup {new} /\ panes[new] = k
      /\ \A q \in DOMAIN w.panes \ {new} : panes[q] = w.panes[q]
  <2>1. panes \in PaneMaps
    BY <1>3, PutIsMap
  <2> QED BY <2>1 DEF Put
<1>6. c = [put EXCEPT !.panes = panes, !.layout = layout, !.focused = new]
  BY <1>2, <1>3 DEF Workspaces
<1> HIDE DEF put, layout, panes
<1>7. /\ put \in Workspaces /\ put.layout = w.layout /\ put.panes = w.panes /\ put.sessions[k] = s
      /\ DOMAIN put.sessions = DOMAIN w.sessions \cup {k}
      /\ \A j \in DOMAIN w.sessions \ {k} : put.sessions[j] = w.sessions[j]
      /\ KeptAsIs(w, put)
  BY <1>1, <1>3, PutKeeps
<1>8. /\ c \in Workspaces /\ c.layout = layout /\ c.panes = panes /\ c.focused = new
      /\ c.sessions = put.sessions
  BY <1>4, <1>5, <1>6, <1>7 DEF Workspaces
<1>9. Whole(c, gone)
  BY <1>2, <1>4, <1>5, <1>7, <1>8 DEF Whole, Has
<1>10. Single(c, more)
  BY <1>7, <1>8 DEF Single, SingleAmong, NoOther
<1>11. Kept(w, c)
  BY <1>7, <1>8 DEF KeptAsIs, Kept
<1> QED BY <1>9, <1>10, <1>11 DEF StepOK

LEMMA MoreExcused ==
    ASSUME NEW w, NEW c, NEW gone, NEW twice, NEW more, twice \subseteq more
    PROVE  /\ Single(w, twice) => Single(w, more)
           /\ StepOK(w, c, gone, twice) => StepOK(w, c, gone, more)
BY DEF StepOK, Single, SingleAmong

\* When the layout is full nothing happens.
LEMMA SplitOrStep ==
    ASSUME NEW w, NEW gone, NEW twice, NEW more, Whole(w, gone), Single(w, twice),
           NEW k \in Keys, NEW s \in Session, MayPut(w, k, s),
           twice \subseteq more, NoOther(w, k, s, more),
           NEW p, NEW new \in Panes \ Leaves(w.layout), NEW edge \in Edges \cup {Beside},
           NEW c \in SplitPaneOr(w, p, k, s, new, edge[1], edge[2], {w})
    PROVE  StepOK(w, c, gone, more)
<1>1. c = w \/ c \in SplitPane(w, p, k, s, new, edge[1], edge[2])
  BY DEF SplitPaneOr
<1>2. StepOK(w, w, gone, more)
  BY SameStep, MoreExcused
<1> QED BY <1>1, <1>2, SplitStep

\* A pane that has no sibling is the only leaf.
LEMMA NoSibling ==
    ASSUME NEW w, NEW gone, Whole(w, gone), ~HasSibling(w, w.focused)
    PROVE  Leaves(w.layout) = {w.focused}
BY DEF HasSibling, Whole

\* openSessionAdjacentToFocusedPane
LEMMA AdjacentStep ==
    ASSUME NEW w, NEW gone, NEW twice, Whole(w, gone), Single(w, twice),
           NEW k \in Keys, NEW s \in Session, MayPut(w, k, s), NoOther(w, k, s, twice),
           NEW new \in Panes, Leaves(w.layout) = {w.focused} => new # w.focused,
           NEW c \in OpenAdjacent(w, k, s, new)
    PROVE  StepOK(w, c, gone, twice)
<1>1. CASE HasSibling(w, w.focused)
  BY <1>1, ReplaceStep DEF OpenAdjacent
<1>2. CASE ~HasSibling(w, w.focused)
  <2>1. new \in Panes \ Leaves(w.layout)
    BY <1>2, NoSibling
  <2>2. c \in SplitPaneOr(w, w.focused, k, s, new, Beside[1], Beside[2], {w})
    BY <1>2 DEF OpenAdjacent
  <2> QED BY <2>1, <2>2, SplitOrStep
<1> QED BY <1>1, <1>2

\* replaySessionInSplitPane
LEMMA ReplaySplitStep ==
    ASSUME NEW w, NEW gone, NEW twice, Whole(w, gone), Single(w, twice), NEW k \in Keys,
           NEW new \in Panes, Leaves(w.layout) = {w.focused} => new # w.focused,
           NEW c \in ReplaySplit(w, k, new)
    PROVE  StepOK(w, c, gone, twice)
<1>1. CASE Has(w, k) /\ Shown(w, k)
  BY <1>1, FocusShownStep DEF ReplaySplit
<1>2. CASE ~(Has(w, k) /\ Shown(w, k))
  <2> DEFINE s == IF Has(w, k) THEN w.sessions[k] ELSE FreshTab
  <2>1. s \in Session /\ MayPut(w, k, s)
    BY FreshTabIsSession, MapsAreFunctions DEF Whole, Workspaces, Has, MayPut
  <2>2. NoOther(w, k, s, twice)
    BY FreshTabIsSession DEF NoOther, Single, SingleAmong, Has
  <2>3. c \in OpenAdjacent(w, k, s, new)
    BY <1>2 DEF ReplaySplit
  <2> HIDE DEF s
  <2> QED BY <2>1, <2>2, <2>3, AdjacentStep
<1> QED BY <1>1, <1>2

\* openNewSessionInFocusedPane
LEMMA OpenNewStep ==
    ASSUME NEW w, NEW gone, NEW twice, Whole(w, gone), Single(w, twice),
           NEW k \in Keys, ~Has(w, k), NEW c \in OpenNew(w, k)
    PROVE  StepOK(w, c, gone, twice)
<1>1. w.focused \in DOMAIN w.panes /\ w.focused \in Panes /\ w.panes[w.focused] \in Keys
  BY MapsAreFunctions DEF Whole, Workspaces
<1>2. PICK j \in Keys : /\ c \in ReplaceWorkspaceSession(w, w.focused, j, FreshTab)
                        /\ MayPut(w, j, FreshTab)
  BY <1>1 DEF OpenNew, MayPut, MayBeStarter, Has
<1> QED BY <1>1, <1>2, FreshTabIsSession, ReplaceWorkspaceStep

\* replaySessionInFocusedPane
LEMMA ReplayFocusedStep ==
    ASSUME NEW w, NEW gone, NEW twice, Whole(w, gone), Single(w, twice),
           NEW k \in Keys, NEW c \in ReplayFocused(w, k)
    PROVE  StepOK(w, c, gone, twice)
<1>1. w.focused \in Panes
  BY DEF Whole, Workspaces
<1>2. CASE ~Has(w, k)
  <2>1. MayPut(w, k, FreshTab) /\ c \in ReplaceWorkspaceSession(w, w.focused, k, FreshTab)
    BY <1>2 DEF MayPut, ReplayFocused
  <2> QED BY <1>1, <2>1, FreshTabIsSession, ReplaceWorkspaceStep
<1>3. CASE Has(w, k) /\ c \in ReplaceWorkspaceSession(w, w.focused, k, w.sessions[k])
  <2>1. MayPut(w, k, w.sessions[k]) /\ w.sessions[k] \in Session
    BY <1>3, MapsAreFunctions DEF MayPut, Has, Whole, Workspaces
  <2> QED BY <1>1, <1>3, <2>1, ReplaceWorkspaceStep
<1>4. CASE \E p \in DOMAIN w.panes : c \in FocusAsOnlyPane(w, p, k)
  BY <1>4, FocusAsOnlyStep
<1> QED BY <1>2, <1>3, <1>4 DEF ReplayFocused

\* closePane
LEMMA CloseStep ==
    ASSUME NEW w, NEW gone, NEW twice, Whole(w, gone), Single(w, twice),
           NEW p \in Leaves(w.layout), Len(LayoutLeaves(w.layout)) > 1, NEW c,
           c = Prune([w EXCEPT !.layout = LayoutRemove(@, p), !.panes = Without(@, {p}),
                               !.focused = IF @ = p THEN Sibling(w, p) ELSE @])
    PROVE  StepOK(w, c, gone, twice)
<1> DEFINE layout == LayoutRemove(w.layout, p)
           panes == Without(w.panes, {p})
           focused == IF w.focused = p THEN Sibling(w, p) ELSE w.focused
           rest == [w EXCEPT !.layout = layout, !.panes = panes, !.focused = focused]
<1>1. /\ w \in Workspaces /\ w.layout \in Layouts /\ w.panes \in PaneMaps
      /\ Leaves(w.layout) \subseteq Panes
  BY LeavesArePanes DEF Whole, Workspaces
<1>2. p \in Panes /\ Leaves(w.layout) # {p}
  BY <1>1, ManyLeaves
<1>3. /\ layout \in Layouts /\ Leaves(layout) = Leaves(w.layout) \ {p} /\ LayoutFits(layout)
  BY <1>1, <1>2, RemoveOne DEF Whole
<1>4. panes \in PaneMaps /\ DOMAIN panes = DOMAIN w.panes \ {p}
      /\ \A q \in DOMAIN panes : panes[q] = w.panes[q]
  <2>1. panes \in PaneMaps
    BY <1>1, WithoutIsMap
  <2> QED BY <2>1 DEF Without
<1>5. focused \in Leaves(w.layout) \ {p}
  <2>1. HasSibling(w, p)
    BY <1>2 DEF HasSibling
  <2> QED BY <1>1, <2>1, SiblingIsLeaf DEF Whole
<1>6. c = Prune(rest)
  BY <1>1 DEF Workspaces
<1> HIDE DEF layout, panes, focused
<1>7. /\ rest \in Workspaces /\ rest.layout = layout /\ rest.panes = panes /\ rest.focused = focused
      /\ rest.sessions = w.sessions
  BY <1>1, <1>3, <1>4, <1>5 DEF Workspaces
<1> HIDE DEF rest
<1>8. Whole(rest, gone) /\ Single(rest, twice) /\ KeptAsIs(w, rest)
  BY <1>3, <1>4, <1>5, <1>7 DEF Whole, Has, Single, SingleAmong, KeptAsIs
<1>9. Whole(c, gone) /\ Single(c, twice) /\ KeptAsIs(w, c)
  BY <1>6, <1>7, <1>8, PruneKeeps, PruneStaysWhole, FewerStaySingle, KeptInTwo
<1> QED BY <1>9 DEF StepOK, KeptAsIs, Kept

-----------------------------------------------------------------------------
\* ---- The histories and the storage ----

LEMMA RememberSingle ==
    ASSUME NEW natives, NEW keys, Remember(natives, keys), Single(ws', copied \cup natives)
    PROVE  Single(ws', copied')
<1> SUFFICES ASSUME NEW j \in DOMAIN ws'.sessions, NEW k \in DOMAIN ws'.sessions,
                    j # k, ws'.sessions[j].pi = ws'.sessions[k].pi, ws'.sessions[k].pi # NoNative
             PROVE  ws'.sessions[k].pi \in copied'
  BY DEF Single, SingleAmong
<1>1. ws'.sessions[k].pi \in (copied \cup natives) \ {NoNative}
  BY DEF Single, SingleAmong
<1>2. Twice(ws'.sessions[k].pi)
  BY DEF Twice
<1> QED BY <1>1, <1>2 DEF Remember

LEMMA RememberWhole ==
    ASSUME NEW natives, NEW keys, Remember(natives, keys), Whole(ws', astray \cup keys)
    PROVE  Whole(ws', astray')
BY DEF Remember, Whole, Shown

\* What has just been written is whole, single and shown.
LEMMA WrittenIsShown ==
    ASSUME stored' = Persisted(ws'), Whole(ws', astray'), Single(ws', copied')
    PROVE  StoredIsWhole' /\ StoredIsSingle' /\ StoredIsShown'
<1> DEFINE tabs(p) == IF Has(ws', ws'.panes[p]) THEN {ws'.sessions[ws'.panes[p]].pi} ELSE {}
<1>1. /\ DOMAIN ws'.panes = Leaves(ws'.layout) /\ ws'.panes \in [DOMAIN ws'.panes -> Keys]
      /\ ws'.sessions \in [DOMAIN ws'.sessions -> Session]
  BY MapsAreFunctions DEF Whole, Workspaces
<1>2. /\ stored'.layout = ws'.layout /\ stored'.focused = ws'.focused
      /\ DOMAIN stored'.panes = DOMAIN ws'.panes
      /\ \A p \in DOMAIN ws'.panes :
            /\ stored'.panes[p] = [key |-> ws'.panes[p], tabs |-> tabs(p)]
            /\ stored'.panes[p] = Persisted(ws').panes[p]
  BY DEF Persisted
<1>3. \A p \in DOMAIN ws'.panes :
        /\ tabs(p) \in SUBSET (Natives \cup {NoNative})
        /\ tabs(p) = {} \/ \E n \in Natives \cup {NoNative} : tabs(p) = {n}
        /\ \A n \in tabs(p) : ws'.panes[p] \in DOMAIN ws'.sessions
                              /\ n = ws'.sessions[ws'.panes[p]].pi
  BY <1>1 DEF Has, Session
<1>4. \A p, q \in DOMAIN ws'.panes : ws'.panes[p] = ws'.panes[q] => tabs(p) = tabs(q)
  OBVIOUS
<1> HIDE DEF tabs
<1>5. \A p \in DOMAIN stored'.panes :
        /\ stored'.panes[p] \in [key : Keys, tabs : SUBSET (Natives \cup {NoNative})]
        /\ stored'.panes[p].key = ws'.panes[p] /\ stored'.panes[p].tabs = tabs(p)
  <2> TAKE p \in DOMAIN stored'.panes
  <2>1. p \in DOMAIN ws'.panes /\ ws'.panes[p] \in Keys /\ tabs(p) \in SUBSET (Natives \cup {NoNative})
    BY <1>1, <1>2, <1>3
  <2>2. stored'.panes[p] = [key |-> ws'.panes[p], tabs |-> tabs(p)]
    BY <1>2, <2>1
  <2> QED BY <2>1, <2>2
<1>6. StoredIsWhole'
  BY <1>1, <1>2, <1>3, <1>4, <1>5 DEF StoredIsWhole
<1>8. StoredIsSingle'
  <2> SUFFICES ASSUME NEW p \in DOMAIN ws'.panes, NEW q \in DOMAIN ws'.panes, NEW n \in Natives,
                      ws'.panes[p] # ws'.panes[q], n \in tabs(p), n \in tabs(q)
               PROVE  n \in copied'
    BY <1>2, <1>5 DEF StoredIsSingle
  <2> QED BY <1>3, NamesAssumption DEF Single, SingleAmong
<1>7. StoredIsShown'
  BY <1>2 DEF StoredIsShown
<1> QED BY <1>6, <1>7, <1>8

\* What stays in the storage stays as single as the histories say.
LEMMA StoredStaysSingle ==
    ASSUME WorkspaceInv, stored' = stored, NEW natives, NEW keys, Remember(natives, keys)
    PROVE  StoredIsWhole' /\ StoredIsSingle'
<1>1. StoredIsWhole'
  BY DEF WorkspaceInv, StoredIsWhole
<1>2. ASSUME stored # NotStored, NEW p \in DOMAIN stored.panes, NEW q \in DOMAIN stored.panes,
             NEW n \in Natives, stored.panes[p].key # stored.panes[q].key,
             n \in stored.panes[p].tabs, n \in stored.panes[q].tabs
      PROVE  n \in copied'
  <2>1. n \in copied /\ n # NoNative
    BY <1>2, NamesAssumption DEF WorkspaceInv, StoredIsSingle
  <2>2. {stored.panes[p].key, stored.panes[q].key} \subseteq StoredKeys(stored', n)
    BY <1>2 DEF StoredKeys
  <2>3. Twice(n)
    BY <1>2, <2>2 DEF Twice
  <2> QED BY <2>1, <2>3 DEF Remember
<1>3. StoredIsSingle'
  BY <1>2 DEF StoredIsSingle
<1> QED BY <1>1, <1>3

LEMMA HistoriesAreTyped ==
    ASSUME WorkspaceInv, NEW natives \in SUBSET (Natives \cup {NoNative}),
           NEW keys \in SUBSET Keys, Remember(natives, keys)
    PROVE  copied' \subseteq Natives /\ astray' \subseteq Keys
BY DEF WorkspaceInv, Remember

\* An action of PANE_STATE_ACTIONS
LEMMA DispatchStep ==
    ASSUME WorkspaceInv, NEW next, Dispatch(next),
           NEW natives \in SUBSET (Natives \cup {NoNative}), Remember(natives, {}), UNCHANGED side,
           \A c \in next : StepOK(ws, c, astray, copied \cup natives)
    PROVE  WorkspaceInv' /\ WorkStays
<1>1. StepOK(ws, ws', astray, copied \cup natives) /\ stored' = Persisted(ws')
  BY DEF Dispatch
<1>2. Whole(ws', astray') /\ Single(ws', copied')
  BY <1>1, RememberWhole, RememberSingle DEF StepOK
<1>3. StoredIsWhole' /\ StoredIsSingle' /\ StoredIsShown'
  BY <1>1, <1>2, WrittenIsShown
<1>4. copied' \subseteq Natives /\ astray' \subseteq Keys /\ side' \subseteq Keys
  BY HistoriesAreTyped DEF WorkspaceInv
<1>5. WorkStays
  BY <1>1 DEF StepOK, Kept, WorkStays
<1> QED BY <1>2, <1>3, <1>4, <1>5 DEF WorkspaceInv

\* A patch: when it changes nothing that is written, what is shown has not changed.
LEMMA DispatchPatchStep ==
    ASSUME WorkspaceInv, NEW next, DispatchPatch(next), Quiet,
           \A c \in next : StepOK(ws, c, astray, copied)
    PROVE  WorkspaceInv' /\ WorkStays
<1>1. StepOK(ws, ws', astray, copied) /\ Remember({}, {})
  BY DEF DispatchPatch, Quiet
<1>2. Whole(ws', astray') /\ Single(ws', copied')
  <2>1. astray \cup {} = astray /\ copied \cup {} = copied
    OBVIOUS
  <2> QED BY <1>1, <2>1, RememberWhole, RememberSingle DEF StepOK
<1>3. ASSUME Persisted(ws') = Persisted(ws)
      PROVE  StoredIsWhole' /\ StoredIsSingle' /\ StoredIsShown'
  <2>1. stored' = stored
    BY <1>3 DEF DispatchPatch
  <2>2. /\ ws'.layout = ws.layout /\ ws'.focused = ws.focused
        /\ DOMAIN ws'.panes = DOMAIN ws.panes
        /\ \A p \in DOMAIN ws.panes : ws'.panes[p] = ws.panes[p]
    <3>1. /\ Persisted(ws').layout = Persisted(ws).layout
          /\ Persisted(ws').focused = Persisted(ws).focused
          /\ DOMAIN Persisted(ws').panes = DOMAIN Persisted(ws).panes
          /\ \A p \in DOMAIN ws.panes : Persisted(ws').panes[p].key = Persisted(ws).panes[p].key
      BY <1>3
    <3> QED BY <3>1 DEF Persisted
  <2>3. \A p \in DOMAIN ws.panes : ws.panes[p] \in astray => ws'.panes[p] \in astray'
    BY <1>1, <2>2 DEF Remember, Shown
  <2>4. StoredIsShown'
    BY <1>3, <2>1, <2>2, <2>3 DEF WorkspaceInv, StoredIsShown
  <2> QED BY <1>1, <2>1, <2>4, StoredStaysSingle
<1>4. ASSUME Persisted(ws') # Persisted(ws)
      PROVE  StoredIsWhole' /\ StoredIsSingle' /\ StoredIsShown'
  BY <1>2, <1>4, WrittenIsShown DEF DispatchPatch
<1>5. StoredIsWhole' /\ StoredIsSingle' /\ StoredIsShown'
  BY <1>3, <1>4
<1>6. copied' \subseteq Natives /\ astray' \subseteq Keys /\ side' \subseteq Keys
  BY <1>1, HistoriesAreTyped DEF WorkspaceInv, Quiet
<1>7. WorkStays
  BY <1>1 DEF StepOK, Kept, WorkStays
<1> QED BY <1>2, <1>5, <1>6, <1>7 DEF WorkspaceInv

\* The side chat writes sessions behind the storage's back.
LEMMA BehindStorage ==
    ASSUME WorkspaceInv, NEW sessions \in SessionMaps, NEW keys \in SUBSET Keys,
           ws' = [ws EXCEPT !.sessions = sessions],
           \A k \in Keys \ keys : /\ k \in DOMAIN sessions <=> k \in DOMAIN ws.sessions
                                  /\ k \in DOMAIN sessions => sessions[k] = ws.sessions[k],
           UNCHANGED stored, side' \subseteq Keys, Remember({}, keys), Single(ws', copied)
    PROVE  WorkspaceInv'
<1>1. /\ ws \in Workspaces /\ ws' \in Workspaces
      /\ ws'.layout = ws.layout /\ ws'.panes = ws.panes /\ ws'.focused = ws.focused
      /\ ws'.sessions = sessions /\ ws.panes \in [DOMAIN ws.panes -> Keys]
  BY MapsAreFunctions DEF WorkspaceInv, Whole, Workspaces
<1>2. Whole(ws', astray \cup keys)
  BY <1>1 DEF WorkspaceInv, Whole, Has
<1>3. Whole(ws', astray') /\ Single(ws', copied')
  <2>1. copied \cup {} = copied
    OBVIOUS
  <2> QED BY <1>2, <2>1, RememberWhole, RememberSingle
<1>4. StoredIsWhole' /\ StoredIsSingle'
  BY StoredStaysSingle
<1>5. ASSUME NEW p \in DOMAIN ws.panes, ws.panes[p] \notin astray'
      PROVE  ws.panes[p] \notin astray /\ Persisted(ws').panes[p] = Persisted(ws).panes[p]
  <2>1. Shown(ws', ws.panes[p])
    BY <1>1 DEF Shown
  <2>2. ws.panes[p] \notin astray \cup keys
    BY <1>5, <2>1 DEF Remember
  <2> QED BY <1>1, <2>2 DEF Persisted, Has
<1>6. StoredIsShown'
  BY <1>1, <1>5 DEF WorkspaceInv, StoredIsShown
<1>7. copied' \subseteq Natives /\ astray' \subseteq Keys
  BY HistoriesAreTyped
<1> QED BY <1>3, <1>4, <1>6, <1>7 DEF WorkspaceInv

-----------------------------------------------------------------------------
\* ---- The actions ----

LEMMA InvIsWhole ==
    ASSUME WorkspaceInv
    PROVE  /\ Whole(ws, astray) /\ Single(ws, copied) /\ ws \in Workspaces
           /\ \A c, natives : StepOK(ws, c, astray, copied) => StepOK(ws, c, astray, copied \cup natives)
           /\ ws.sessions \in [DOMAIN ws.sessions -> Session] /\ DOMAIN ws.sessions \subseteq Keys
           /\ \A p \in DOMAIN ws.panes : ws.panes[p] \in Keys
BY MapsAreFunctions DEF WorkspaceInv, Whole, Workspaces, StepOK, Single, SingleAmong

LEMMA QuietDispatchStep ==
    ASSUME WorkspaceInv, NEW next, Dispatch(next), Quiet,
           \A c \in next : StepOK(ws, c, astray, copied)
    PROVE  WorkspaceInv' /\ WorkStays
BY InvIsWhole, DispatchStep DEF Quiet

LEMMA FreshIsNew ==
    ASSUME WorkspaceInv
    PROVE  /\ \A k \in FreshKeys : k \in Keys /\ ~Has(ws, k)
           /\ \A new \in FreshPanes : new \in Panes \ Leaves(ws.layout)
           /\ \A new \in SparePanes :
                 /\ new \in Panes
                 /\ \A p : Leaves(ws.layout) = {p} => new # p
<1>1. DOMAIN ws.panes = Leaves(ws.layout)
  BY DEF WorkspaceInv, Whole
<1>2. \A p : Leaves(ws.layout) = {p} => FreshPanes # {}
  BY <1>1, LeavesArePanes, PanesAssumption DEF FreshPanes, WorkspaceInv, Whole, Workspaces
<1> QED BY <1>1, <1>2 DEF FreshKeys, FreshPanes, SparePanes, Has

LEMMA FocusPaneStep ==
    ASSUME WorkspaceInv, NEW p, FocusPane(p)
    PROVE  WorkspaceInv' /\ WorkStays
<1>1. \A c \in {IF p \in DOMAIN ws.panes THEN [ws EXCEPT !.focused = p] ELSE ws} :
        StepOK(ws, c, astray, copied)
  BY InvIsWhole, FocusStep, SameStep
<1> QED BY <1>1, QuietDispatchStep DEF FocusPane

LEMMA FocusPaneSessionStep ==
    ASSUME WorkspaceInv, NEW p, NEW k, NEW replace \in BOOLEAN, FocusPaneSession(p, k, replace)
    PROVE  WorkspaceInv' /\ WorkStays
<1>1. \A c \in IF replace THEN FocusAsOnlyPane(ws, p, k) ELSE FocusExisting(ws, p, k) :
        StepOK(ws, c, astray, copied)
  BY InvIsWhole, FocusAsOnlyStep, FocusExistingStep
<1> QED BY <1>1, QuietDispatchStep DEF FocusPaneSession

LEMMA ClosePaneStep ==
    ASSUME WorkspaceInv, NEW p, ClosePane(p)
    PROVE  WorkspaceInv' /\ WorkStays
<1> DEFINE closed == Prune([ws EXCEPT !.layout = LayoutRemove(@, p), !.panes = Without(@, {p}),
                                      !.focused = IF @ = p THEN Sibling(ws, p) ELSE @])
           next == IF p \notin Leaves(ws.layout) \/ Len(LayoutLeaves(ws.layout)) <= 1
                     THEN {ws} ELSE {closed}
<1>1. Dispatch(next) /\ Quiet
  BY DEF ClosePane
<1>2. StepOK(ws, ws, astray, copied)
  BY InvIsWhole, SameStep
<1>3. ASSUME p \in Leaves(ws.layout), ~(Len(LayoutLeaves(ws.layout)) <= 1)
      PROVE  StepOK(ws, closed, astray, copied)
  <2>1. ws.layout \in Layouts
    BY InvIsWhole DEF Workspaces
  <2>2. Len(LayoutLeaves(ws.layout)) > 1
    BY <1>3, <2>1, LeavesArePanes
  <2>3. closed = Prune([ws EXCEPT !.layout = LayoutRemove(@, p), !.panes = Without(@, {p}),
                                  !.focused = IF @ = p THEN Sibling(ws, p) ELSE @])
    OBVIOUS
  <2> HIDE DEF closed
  <2> QED BY <1>3, <2>2, <2>3, InvIsWhole, CloseStep
<1> HIDE DEF closed
<1>4. \A c \in next : StepOK(ws, c, astray, copied)
  BY <1>2, <1>3
<1> QED BY <1>1, <1>4, QuietDispatchStep

\* What a list of sessions knows of a native id
LEMMA OwnersAre ==
    ASSUME NEW w, NEW n
    PROVE  /\ \A j \in Owners(w, n) : j \in DOMAIN w.sessions /\ w.sessions[j].pi = n
           /\ Owners(w, n) = {} => \A j \in DOMAIN w.sessions : w.sessions[j].pi # n
BY DEF Owners

\* A session that is there is put in its own place.
LEMMA OwnMayBePut ==
    ASSUME WorkspaceInv, NEW j \in DOMAIN ws.sessions
    PROVE  /\ j \in Keys /\ ws.sessions[j] \in Session /\ MayPut(ws, j, ws.sessions[j])
           /\ NoOther(ws, j, ws.sessions[j], copied)
BY InvIsWhole DEF MayPut, NoOther, Single, SingleAmong

LEMMA NewTabIsSession ==
    ASSUME NEW n \in Natives
    PROVE  [FreshTab EXCEPT !.pi = n] \in Session /\ [FreshTab EXCEPT !.pi = n].pi = n
BY DEF FreshTab, Session

LEMMA OpenInPaneStep ==
    ASSUME WorkspaceInv, NEW p, NEW n \in Natives, NEW k \in FreshKeys, OpenInPane(p, n, k)
    PROVE  WorkspaceInv' /\ WorkStays
<1>1. CASE Owners(ws, n) = {}
  <2>1. MayPut(ws, k, [FreshTab EXCEPT !.pi = n]) /\ k \in Keys
    BY FreshIsNew DEF MayPut
  <2>2. \A c \in ReplacePaneSession(ws, p, k, [FreshTab EXCEPT !.pi = n]) :
          StepOK(ws, c, astray, copied)
    BY <2>1, NewTabIsSession, InvIsWhole, ReplaceStep
  <2>3. Dispatch(ReplacePaneSession(ws, p, k, [FreshTab EXCEPT !.pi = n])) /\ Quiet
    BY <1>1 DEF OpenInPane
  <2> QED BY <2>2, <2>3, QuietDispatchStep
<1>2. CASE Owners(ws, n) # {}
  <2> DEFINE to(j) == IF Shown(ws, j) THEN FocusShown(ws, j)
                      ELSE ReplacePaneSession(ws, p, j, ws.sessions[j])
             next == UNION {to(j) : j \in Owners(ws, n)}
  <2>1. ASSUME NEW j \in Owners(ws, n), NEW c \in to(j)
        PROVE  StepOK(ws, c, astray, copied)
    <3>1. j \in DOMAIN ws.sessions
      BY OwnersAre
    <3> QED BY <2>1, <3>1, OwnMayBePut, InvIsWhole, FocusShownStep, ReplaceStep
  <2>2. Dispatch(next) /\ Quiet
    BY <1>2 DEF OpenInPane
  <2> HIDE DEF to
  <2>3. \A c \in next : StepOK(ws, c, astray, copied)
    BY <2>1
  <2> QED BY <2>2, <2>3, QuietDispatchStep
<1> QED BY <1>1, <1>2

LEMMA CopyToPaneStep ==
    ASSUME WorkspaceInv, NEW p, NEW source, NEW k \in FreshKeys, CopyToPane(p, source, k)
    PROVE  WorkspaceInv' /\ WorkStays
<1>1. ws.sessions[source] \in Session /\ k \in Keys /\ MayPut(ws, k, ws.sessions[source])
  BY InvIsWhole, FreshIsNew DEF CopyToPane, Has, MayPut
<1>2. \A c \in ReplacePaneSession(ws, p, k, ws.sessions[source]) : StepOK(ws, c, astray, copied)
  BY <1>1, InvIsWhole, ReplaceStep
<1> QED BY <1>2, QuietDispatchStep DEF CopyToPane

LEMMA SplitOpenStep ==
    ASSUME WorkspaceInv, NEW p, NEW n \in Natives, NEW k \in FreshKeys, NEW new \in FreshPanes,
           NEW edge \in Edges, SplitOpen(p, n, k, new, edge[1], edge[2])
    PROVE  WorkspaceInv' /\ WorkStays
<1>1. new \in Panes \ Leaves(ws.layout) /\ edge \in Edges \cup {Beside}
  BY FreshIsNew
<1>2. CASE Owners(ws, n) # {}
  <2> DEFINE to(j) == IF Shown(ws, j) THEN FocusShown(ws, j)
                      ELSE SplitPaneOr(ws, p, j, ws.sessions[j], new, edge[1], edge[2], {ws})
             next == UNION {to(j) : j \in Owners(ws, n)}
  <2>1. ASSUME NEW j \in Owners(ws, n), NEW c \in to(j)
        PROVE  StepOK(ws, c, astray, copied)
    <3>1. j \in DOMAIN ws.sessions
      BY OwnersAre
    <3>2. CASE c \in FocusShown(ws, j)
      BY <3>2, InvIsWhole, FocusShownStep
    <3>3. CASE c \in SplitPaneOr(ws, p, j, ws.sessions[j], new, edge[1], edge[2], {ws})
      BY <1>1, <3>1, <3>3, OwnMayBePut, InvIsWhole, SplitOrStep
    <3> QED BY <2>1, <3>2, <3>3
  <2>2. Dispatch(next) /\ Quiet
    BY <1>2 DEF SplitOpen
  <2> HIDE DEF to
  <2>3. \A c \in next : StepOK(ws, c, astray, copied)
    BY <2>1
  <2> QED BY <2>2, <2>3, QuietDispatchStep
<1>3. CASE Owners(ws, n) = {} /\ Len(LayoutLeaves(ws.layout)) >= 2
  <2>1. \A c \in {ws} : StepOK(ws, c, astray, copied)
    BY InvIsWhole, SameStep
  <2> QED BY <1>3, <2>1, QuietDispatchStep DEF SplitOpen
<1>4. CASE Owners(ws, n) = {} /\ ~(Len(LayoutLeaves(ws.layout)) >= 2)
  <2> DEFINE s == [FreshTab EXCEPT !.pi = n]
             next == SplitPaneOr(ws, p, k, s, new, edge[1], edge[2], {ws})
  <2>1. k \in Keys /\ MayPut(ws, k, s) /\ s \in Session /\ NoOther(ws, k, s, copied)
    BY <1>4, FreshIsNew, NewTabIsSession, OwnersAre DEF MayPut, NoOther
  <2>2. Dispatch(next) /\ Quiet
    BY <1>4 DEF SplitOpen
  <2> HIDE DEF s
  <2>3. \A c \in next : StepOK(ws, c, astray, copied)
    BY <1>1, <2>1, InvIsWhole, SplitOrStep
  <2> QED BY <2>2, <2>3, QuietDispatchStep
<1> QED BY <1>2, <1>3, <1>4

LEMMA SplitCopyStep ==
    ASSUME WorkspaceInv, NEW p, NEW source, NEW k \in FreshKeys, NEW new \in FreshPanes,
           NEW edge \in Edges, SplitCopy(p, source, k, new, edge[1], edge[2])
    PROVE  WorkspaceInv' /\ WorkStays
<1> DEFINE s == IF Has(ws, source) THEN ws.sessions[source] ELSE FreshTab
           next == SplitPaneOr(ws, p, k, s, new, edge[1], edge[2], {ws})
<1>1. new \in Panes \ Leaves(ws.layout) /\ edge \in Edges \cup {Beside}
  BY FreshIsNew
<1>2. s \in Session
  BY InvIsWhole, FreshTabIsSession DEF Has
<1>3. Dispatch(next) /\ Remember({s.pi}, {}) /\ UNCHANGED side
  BY DEF SplitCopy
<1> HIDE DEF s
<1>4. /\ k \in Keys /\ MayPut(ws, k, s) /\ NoOther(ws, k, s, copied \cup {s.pi})
      /\ {s.pi} \in SUBSET (Natives \cup {NoNative})
  BY <1>2, FreshIsNew DEF MayPut, NoOther, Session
<1>5. \A c \in next : StepOK(ws, c, astray, copied \cup {s.pi})
  BY <1>1, <1>2, <1>4, InvIsWhole, SplitOrStep
<1> QED BY <1>3, <1>4, <1>5, DispatchStep

LEMMA SplitTabStep ==
    ASSUME WorkspaceInv, NEW p, NEW source, NEW k \in FreshKeys, NEW new \in SparePanes,
           SplitTab(p, source, k, new)
    PROVE  WorkspaceInv' /\ WorkStays
<1> DEFINE s == ws.sessions[source]
<1>1. s \in Session
  BY InvIsWhole DEF SplitTab, Has
<1>2. Remember({s.pi}, {}) /\ UNCHANGED side
  BY DEF SplitTab
<1>3. /\ k \in Keys /\ MayPut(ws, k, s) /\ NoOther(ws, k, s, copied \cup {s.pi})
      /\ {s.pi} \in SUBSET (Natives \cup {NoNative})
  BY <1>1, FreshIsNew DEF MayPut, NoOther, Session
<1>4. CASE Len(LayoutLeaves(ws.layout)) >= 2
  <2>1. Dispatch(ReplacePaneSession(ws, Sibling(ws, ws.focused), k, s))
    BY <1>4 DEF SplitTab
  <2>2. \A c \in ReplacePaneSession(ws, Sibling(ws, ws.focused), k, s) :
          StepOK(ws, c, astray, copied \cup {s.pi})
    BY <1>1, <1>3, InvIsWhole, ReplaceStep
  <2> QED BY <1>2, <1>3, <2>1, <2>2, DispatchStep
<1>5. CASE ~(Len(LayoutLeaves(ws.layout)) >= 2)
  <2> DEFINE next == SplitPaneOr(ws, ws.focused, k, s, new, Beside[1], Beside[2], {ws})
  <2>1. Dispatch(next)
    BY <1>5 DEF SplitTab
  <2>2. ws.layout \in Layouts
    BY InvIsWhole DEF Workspaces
  <2>3. Len(LayoutLeaves(ws.layout)) <= 1
    BY <1>5, <2>2, LeavesArePanes
  <2>4. new \in Panes \ Leaves(ws.layout)
    BY <2>2, <2>3, ManyLeaves, FreshIsNew
  <2> HIDE DEF s
  <2>5. \A c \in next : StepOK(ws, c, astray, copied \cup {s.pi})
    BY <1>1, <1>3, <2>4, InvIsWhole, SplitOrStep
  <2> QED BY <1>2, <1>3, <2>1, <2>5, DispatchStep DEF s
<1> QED BY <1>4, <1>5

LEMMA NavigateStep ==
    ASSUME WorkspaceInv, NEW k \in Keys,
           \/ k \in FreshKeys /\ NavigateNew(k)
           \/ NavigateTo(k)
           \/ \E new \in SparePanes : NavigateBeside(k, new)
    PROVE  WorkspaceInv' /\ WorkStays
<1>1. CASE k \in FreshKeys /\ NavigateNew(k)
  <2>1. \A c \in OpenNew(ws, k) : StepOK(ws, c, astray, copied)
    BY <1>1, FreshIsNew, InvIsWhole, OpenNewStep
  <2> QED BY <1>1, <2>1, QuietDispatchStep DEF NavigateNew
<1>2. CASE NavigateTo(k)
  <2>1. \A c \in ReplayFocused(ws, k) : StepOK(ws, c, astray, copied)
    BY InvIsWhole, ReplayFocusedStep
  <2> QED BY <1>2, <2>1, QuietDispatchStep DEF NavigateTo
<1>3. ASSUME NEW new \in SparePanes, NavigateBeside(k, new)
      PROVE  WorkspaceInv' /\ WorkStays
  <2>1. \A c \in ReplaySplit(ws, k, new) : StepOK(ws, c, astray, copied)
    BY FreshIsNew, InvIsWhole, ReplaySplitStep
  <2> QED BY <1>3, <2>1, QuietDispatchStep DEF NavigateBeside
<1> QED BY <1>1, <1>2, <1>3

\* The session that is patched may stop working, or change its native id; it stays itself.
LEMMA PatchStep ==
    ASSUME WorkspaceInv, NEW k, NEW s \in Session, Patch(k, s)
    PROVE  WorkspaceInv' /\ WorkStays
<1> DEFINE put == [ws EXCEPT !.sessions = Put(@, k, s)]
<1>1. k \in DOMAIN ws.sessions /\ k \in Keys /\ ws \in Workspaces
  BY InvIsWhole DEF Patch, Has
<1>2. [ws EXCEPT !.sessions[k] = s] = put
  <2>1. [ws.sessions EXCEPT ![k] = s] = Put(ws.sessions, k, s)
    BY <1>1, InvIsWhole DEF Put
  <2> QED BY <1>1, <2>1 DEF Workspaces
<1>3. DispatchPatch(Claim(put, k)) /\ Quiet
  BY <1>2 DEF Patch
<1>4. Whole(put, astray)
  BY <1>1, InvIsWhole, PutStaysWhole
<1>5. put = [ws EXCEPT !.sessions = Put(@, k, s)]
  OBVIOUS
<1> HIDE DEF put
<1>6. /\ DOMAIN put.sessions = DOMAIN ws.sessions \cup {k} /\ SingleBut(put, k, copied)
      /\ \A j \in DOMAIN ws.sessions \ {k} : put.sessions[j] = ws.sessions[j]
  <2>1. Single(ws, copied)
    BY InvIsWhole
  <2>2. /\ DOMAIN put.sessions = DOMAIN ws.sessions \cup {k}
        /\ \A j \in DOMAIN ws.sessions \ {k} : put.sessions[j] = ws.sessions[j]
        /\ \A twice : Single(ws, twice) => SingleBut(put, k, twice)
    BY <1>1, <1>5, PutKeeps
  <2> QED BY <2>1, <2>2
<1>7. ASSUME NEW c \in Claim(put, k) PROVE StepOK(ws, c, astray, copied)
  <2>1. StepOK(put, c, astray, copied) /\ k \in DOMAIN c.sessions
    BY <1>4, <1>6, ClaimStep
  <2> QED BY <1>6, <2>1 DEF StepOK, Kept
<1> QED BY <1>3, <1>7, DispatchPatchStep

LEMMA UpdateDetachedStep ==
    ASSUME WorkspaceInv, NEW k \in Keys, NEW s \in Session, UpdateDetached(k, s)
    PROVE  WorkspaceInv' /\ WorkStays
<1>1. /\ ws' = [ws EXCEPT !.sessions = Put(@, k, s)]
      /\ Put(ws.sessions, k, s) \in SessionMaps
      /\ side' = {k} /\ UNCHANGED stored /\ Remember({}, {k})
  BY InvIsWhole, PutIsMap DEF UpdateDetached, Workspaces
<1>2. ws \in Workspaces
  BY InvIsWhole
<1>3. /\ DOMAIN ws'.sessions = DOMAIN ws.sessions \cup {k} /\ ws'.sessions[k] = s
      /\ ws'.sessions = Put(ws.sessions, k, s)
      /\ \A j \in DOMAIN ws.sessions \ {k} : ws'.sessions[j] = ws.sessions[j]
  BY <1>1, <1>2, PutKeeps
<1>4. \A j \in DOMAIN ws.sessions \ {k} :
        ws.sessions[j].pi = s.pi /\ s.pi # NoNative => s.pi \in copied
  BY InvIsWhole DEF UpdateDetached, Has, Single, SingleAmong
<1>5. Single(ws', copied)
  BY <1>3, <1>4, InvIsWhole DEF Single, SingleAmong
<1>6. WorkspaceInv'
  <2>1. \A j \in Keys \ {k} : /\ j \in DOMAIN ws'.sessions <=> j \in DOMAIN ws.sessions
                              /\ j \in DOMAIN ws'.sessions => ws'.sessions[j] = ws.sessions[j]
    BY <1>3
  <2> QED BY <1>1, <1>3, <1>5, <2>1, BehindStorage
<1>7. WorkStays
  BY <1>3 DEF WorkStays
<1> QED BY <1>6, <1>7

LEMMA RemoveDetachedStep ==
    ASSUME WorkspaceInv, RemoveDetached
    PROVE  WorkspaceInv'
<1>1. /\ ws' = [ws EXCEPT !.sessions = Without(@, side)]
      /\ Without(ws.sessions, side) \in SessionMaps
      /\ side' = {} /\ UNCHANGED stored /\ Remember({}, side) /\ side \in SUBSET Keys
  BY InvIsWhole, WithoutIsMap DEF RemoveDetached, Workspaces, WorkspaceInv
<1>2. /\ DOMAIN Without(ws.sessions, side) = DOMAIN ws.sessions \ side
      /\ \A j \in DOMAIN ws.sessions \ side : Without(ws.sessions, side)[j] = ws.sessions[j]
      /\ ws'.sessions = Without(ws.sessions, side)
  BY <1>1, InvIsWhole DEF Without, Workspaces
<1>3. Single(ws', copied)
  BY <1>2, InvIsWhole DEF Single, SingleAmong
<1> QED BY <1>1, <1>2, <1>3, BehindStorage

-----------------------------------------------------------------------------
\* ---- A new page ----

LEMMA InitialIsWhole ==
    ASSUME NEW p \in Panes, NEW k \in Keys
    PROVE  \A gone, twice : Whole(InitialState(p, k), gone) /\ Single(InitialState(p, k), twice)
<1> DEFINE w == InitialState(p, k)
<1>1. [q \in {p} |-> k] \in PaneMaps /\ [j \in {k} |-> FreshTab] \in SessionMaps
  <2>1. /\ [q \in {p} |-> k] \in [{p} -> Keys] /\ {p} \in SUBSET Panes
        /\ [j \in {k} |-> FreshTab] \in [{k} -> Session] /\ {k} \in SUBSET Keys
    BY FreshTabIsSession
  <2> QED BY <2>1, FunctionsAreMaps
<1>2. /\ w \in Workspaces /\ w.layout = LayoutLeaf(p) /\ w.panes = [q \in {p} |-> k]
      /\ w.focused = p /\ w.sessions = [j \in {k} |-> FreshTab]
  BY <1>1, OneLeaf DEF InitialState, Workspaces
<1> HIDE DEF w
<1>3. \A gone : Whole(w, gone)
  BY <1>2, OneLeaf DEF Whole, Has
<1>4. \A twice : Single(w, twice)
  BY <1>2 DEF Single, SingleAmong
<1> QED BY <1>3, <1>4 DEF w

LEMMA ReloadStep ==
    ASSUME WorkspaceInv, Reload
    PROVE  WorkspaceInv'
<1>1. side' = {} /\ stored' = stored
  BY DEF Reload
<1>2. CASE stored = NotStored
  <2>1. PICK p \in Panes, k \in Keys : ws' = InitialState(p, k)
    BY <1>2 DEF Reload
  <2>2. Remember({}, {})
    BY <1>2 DEF Reload
  <2>3. Whole(ws', astray') /\ Single(ws', copied')
    BY <2>1, InitialIsWhole
  <2>4. StoredIsWhole' /\ StoredIsSingle' /\ StoredIsShown'
    BY <1>1, <1>2 DEF StoredIsWhole, StoredIsSingle, StoredIsShown
  <2>5. copied' \subseteq Natives /\ astray' \subseteq Keys
    BY <2>2, HistoriesAreTyped
  <2> QED BY <1>1, <2>3, <2>4, <2>5 DEF WorkspaceInv
<1>3. CASE stored # NotStored
  <2> DEFINE ids == Leaves(stored.layout)
             key(p) == stored.panes[p].key
             empty == {p \in ids : stored.panes[p].tabs = {}}
  <2>1. PICK fresh \in [empty -> Keys \ {key(p) : p \in ids}] :
               /\ ws' = Restored(fresh)
               /\ Remember({}, {fresh[p] : p \in empty})
    BY <1>3 DEF Reload
  <2> DEFINE panes == [p \in ids |-> IF p \in DOMAIN fresh THEN fresh[p] ELSE key(p)]
             tab(p) == IF p \in DOMAIN fresh THEN FreshTab
                       ELSE [FreshTab EXCEPT !.pi = CHOOSE n \in stored.panes[p].tabs : TRUE]
             shower(k) == CHOOSE p \in DOMAIN panes : panes[p] = k
             sessions == [k \in {panes[p] : p \in DOMAIN panes} |-> tab(shower(k))]
             freshKeys == {fresh[p] : p \in empty}
  <2>2. /\ stored.layout = ws.layout /\ stored.focused = ws.focused /\ ws.layout \in Layouts
        /\ ids = Leaves(ws.layout) /\ ids = DOMAIN ws.panes /\ ids = DOMAIN stored.panes
        /\ ws.focused \in ids /\ ws.focused \in Panes /\ LayoutFits(ws.layout)
        /\ ids \subseteq Panes
    BY <1>3, LeavesArePanes
       DEF WorkspaceInv, StoredIsShown, StoredIsWhole, Whole, Workspaces
  <2>3. /\ \A p \in ids : stored.panes[p] = [key |-> key(p), tabs |-> stored.panes[p].tabs]
                          /\ key(p) \in Keys
        /\ \A p \in ids \ empty : \E n \in Natives \cup {NoNative} : stored.panes[p].tabs = {n}
        /\ \A p, q \in ids : key(p) = key(q) => stored.panes[p].tabs = stored.panes[q].tabs
    BY <1>3, <2>2 DEF WorkspaceInv, StoredIsWhole
  <2>4. /\ ws' = [layout |-> stored.layout, panes |-> panes, focused |-> stored.focused,
                  sessions |-> sessions]
        /\ DOMAIN fresh = empty
    BY <2>1, <2>2 DEF Restored
  <2>5. /\ \A p \in empty : panes[p] = fresh[p] /\ fresh[p] \in Keys
        /\ \A p \in ids \ empty : panes[p] = key(p)
        /\ \A p \in ids, q \in empty : fresh[q] # key(p)
        /\ DOMAIN panes = ids
    BY <2>1, <2>4
  <2>6. \A p \in ids : shower(panes[p]) \in ids /\ panes[shower(panes[p])] = panes[p]
    BY <2>5
  <2>7. \A p \in ids : shower(panes[p]) \in empty <=> p \in empty
    <3> TAKE p \in ids
    <3> DEFINE q == shower(panes[p])
    <3>1. q \in ids /\ panes[q] = panes[p]
      BY <2>6
    <3> HIDE DEF q, panes, key
    <3> QED BY <2>5, <3>1
  <2>8. DOMAIN sessions = {panes[p] : p \in ids}
        /\ \A p \in ids : sessions[panes[p]] = tab(shower(panes[p]))
    BY <2>5
  <2>9. \A p \in empty : sessions[panes[p]] = FreshTab
    BY <2>4, <2>7, <2>8
  <2>10. ASSUME NEW p \in ids \ empty
         PROVE  /\ stored.panes[p].tabs = {sessions[panes[p]].pi}
                /\ sessions[panes[p]] \in Session
    <3> DEFINE q == shower(panes[p])
    <3>1. q \in ids \ empty /\ key(q) = key(p)
      BY <2>5, <2>6, <2>7
    <3>2. stored.panes[q].tabs = stored.panes[p].tabs
      BY <2>3, <3>1
    <3>3. PICK n \in Natives \cup {NoNative} : stored.panes[p].tabs = {n}
      BY <2>3
    <3> HIDE DEF q
    <3>4. tab(q) = [FreshTab EXCEPT !.pi = n]
      BY <2>4, <3>1, <3>2, <3>3
    <3>5. sessions[panes[p]] = [FreshTab EXCEPT !.pi = n]
      BY <2>8, <3>4 DEF q
    <3> HIDE DEF sessions, panes
    <3> QED BY <3>3, <3>5 DEF FreshTab, Session
  <2> HIDE DEF shower, tab
  <2>11. panes \in PaneMaps
    <3>1. panes \in [ids -> Keys] /\ ids \in SUBSET Panes
      BY <2>2, <2>3, <2>5
    <3> QED BY <3>1, FunctionsAreMaps
  <2>12. sessions \in SessionMaps
    <3>1. DOMAIN sessions \in SUBSET Keys
      <4>1. \A p \in ids : panes[p] \in Keys
        BY <2>3, <2>5
      <4> QED BY <2>8, <4>1
    <3>2. \A k \in DOMAIN sessions : sessions[k] \in Session
      BY <2>8, <2>9, <2>10, FreshTabIsSession
    <3>3. sessions \in [DOMAIN sessions -> Session]
      BY <3>2
    <3> QED BY <3>1, <3>3, FunctionsAreMaps
  <2> HIDE DEF panes, sessions
  <2>13. /\ ws' \in Workspaces /\ ws'.layout = stored.layout /\ ws'.focused = stored.focused
         /\ ws'.panes = panes /\ ws'.sessions = sessions
    BY <2>2, <2>4, <2>11, <2>12 DEF Workspaces
  <2>14. Whole(ws', astray')
    BY <2>2, <2>5, <2>8, <2>13 DEF Whole, Has
  <2>15. Single(ws', copied)
    <3> SUFFICES ASSUME NEW p \in ids, NEW q \in ids, panes[p] # panes[q],
                        sessions[panes[p]].pi = sessions[panes[q]].pi,
                        sessions[panes[q]].pi # NoNative
                 PROVE  sessions[panes[q]].pi \in copied
      BY <2>8, <2>13 DEF Single, SingleAmong
    <3>1. p \in ids \ empty /\ q \in ids \ empty
      BY <2>9, FreshTabIsSession
    <3>2. sessions[panes[q]].pi \in Natives
      BY <2>10, <3>1 DEF Session
    <3>3. key(p) # key(q)
      BY <2>5, <3>1
    <3> HIDE DEF key
    <3>4. sessions[panes[q]].pi \in stored.panes[p].tabs /\ sessions[panes[q]].pi \in stored.panes[q].tabs
      BY <2>10, <3>1
    <3> QED BY <1>3, <2>2, <3>2, <3>3, <3>4 DEF WorkspaceInv, StoredIsSingle, key
  <2>16. Single(ws', copied')
    <3>1. copied \cup {} = copied
      OBVIOUS
    <3> QED BY <2>1, <2>15, <3>1, RememberSingle
  <2>17. StoredIsShown'
    <3> SUFFICES ASSUME NEW p \in ids, panes[p] \notin astray'
                 PROVE  stored.panes[p] = Persisted(ws').panes[p]
      BY <1>1, <2>2, <2>5, <2>13 DEF StoredIsShown
    <3>1. p \notin empty
      <4>1. Shown(ws', panes[p])
        BY <2>5, <2>13 DEF Shown
      <4>2. panes[p] \notin freshKeys
        BY <2>1, <4>1 DEF Remember
      <4> QED BY <2>5, <4>2
    <3>2. panes[p] = key(p) /\ stored.panes[p].tabs = {sessions[panes[p]].pi}
          /\ panes[p] \in DOMAIN sessions
      BY <2>5, <2>8, <2>10, <3>1
    <3>3. Persisted(ws').panes[p] = [key |-> panes[p], tabs |-> {sessions[panes[p]].pi}]
      BY <2>5, <2>13, <3>2 DEF Persisted, Has
    <3> HIDE DEF key
    <3> QED BY <2>3, <3>2, <3>3
  <2>18. StoredIsWhole' /\ StoredIsSingle'
    BY <1>1, <2>1, StoredStaysSingle
  <2>19. copied' \subseteq Natives /\ astray' \subseteq Keys
    <3>1. freshKeys \in SUBSET Keys
      BY <2>5
    <3> QED BY <2>1, <3>1, HistoriesAreTyped
  <2> QED BY <1>1, <2>14, <2>16, <2>17, <2>18, <2>19 DEF WorkspaceInv
<1> QED BY <1>2, <1>3

-----------------------------------------------------------------------------
\* ---- Theorems ----

LEMMA InitIsWhole ==
    ASSUME Init
    PROVE  WorkspaceInv
<1>1. PICK p \in Panes, k \in Keys : ws = InitialState(p, k)
  BY DEF Init
<1>2. Whole(ws, astray) /\ Single(ws, copied)
  BY <1>1, InitialIsWhole
<1> QED BY <1>2 DEF Init, WorkspaceInv, StoredIsWhole, StoredIsSingle, StoredIsShown

LEMMA NextStep ==
    ASSUME WorkspaceInv, Next
    PROVE  WorkspaceInv' /\ (WorkStays \/ RemoveDetached \/ Reload)
<1>1. ASSUME NEW p \in Panes, FocusPane(p) \/ ClosePane(p)
      PROVE  WorkspaceInv' /\ WorkStays
  BY <1>1, FocusPaneStep, ClosePaneStep
<1>2. ASSUME NEW p \in Panes, NEW k \in Keys, NEW replace \in BOOLEAN,
             FocusPaneSession(p, k, replace)
      PROVE  WorkspaceInv' /\ WorkStays
  BY <1>2, FocusPaneSessionStep
<1>3. ASSUME NEW p \in Panes, NEW n \in Natives, NEW k \in FreshKeys, OpenInPane(p, n, k)
      PROVE  WorkspaceInv' /\ WorkStays
  BY <1>3, OpenInPaneStep
<1>4. ASSUME NEW p \in Panes, NEW source \in Keys, NEW k \in FreshKeys, CopyToPane(p, source, k)
      PROVE  WorkspaceInv' /\ WorkStays
  BY <1>4, CopyToPaneStep
<1>5. ASSUME NEW p \in Panes, NEW k \in FreshKeys, NEW new \in FreshPanes, NEW edge \in Edges,
             \/ \E n \in Natives : SplitOpen(p, n, k, new, edge[1], edge[2])
             \/ \E source \in Keys : SplitCopy(p, source, k, new, edge[1], edge[2])
      PROVE  WorkspaceInv' /\ WorkStays
  BY <1>5, SplitOpenStep, SplitCopyStep
<1>6. ASSUME NEW p \in Panes, NEW source \in Keys, NEW k \in FreshKeys, NEW new \in SparePanes,
             SplitTab(p, source, k, new)
      PROVE  WorkspaceInv' /\ WorkStays
  BY <1>6, SplitTabStep
<1>7. ASSUME NEW k \in FreshKeys, NavigateNew(k)
      PROVE  WorkspaceInv' /\ WorkStays
  BY <1>7, FreshIsNew, NavigateStep
<1>8. ASSUME NEW k \in Keys, NavigateTo(k) \/ \E new \in SparePanes : NavigateBeside(k, new)
      PROVE  WorkspaceInv' /\ WorkStays
  BY <1>8, NavigateStep
<1>9. ASSUME NEW k \in Keys, NEW s \in Session, Patch(k, s) \/ UpdateDetached(k, s)
      PROVE  WorkspaceInv' /\ WorkStays
  BY <1>9, PatchStep, UpdateDetachedStep
<1> QED BY <1>1, <1>2, <1>3, <1>4, <1>5, <1>6, <1>7, <1>8, <1>9, RemoveDetachedStep, ReloadStep
        DEF Next

LEMMA StutterStep ==
    ASSUME WorkspaceInv, UNCHANGED vars
    PROVE  WorkspaceInv'
BY DEF vars, WorkspaceInv, StoredIsWhole, StoredIsSingle, StoredIsShown

(* Whatever is opened, split, claimed, closed, patched, linked to or reloaded, in any order: the
   state is whole, so is what is stored, and both agree but for the side chat's session.         *)
THEOREM WorkspaceHolds == Spec => []WorkspaceInv
<1>1. Init => WorkspaceInv
  BY InitIsWhole
<1>2. WorkspaceInv /\ [Next]_vars => WorkspaceInv'
  BY NextStep, StutterStep
<1> QED BY <1>1, <1>2, PTL DEF Spec

(* Panes, layout and focus stay in step (claimCanonicalSession, closePane, restorePersistedPaneState). *)
THEOREM PanesHold == Spec => []PanesAreWhole
<1>1. WorkspaceInv => PanesAreWhole
  <2> SUFFICES ASSUME WorkspaceInv PROVE PanesAreWhole
    OBVIOUS
  <2>1. Whole(ws, astray) /\ ws.layout \in Layouts
    BY InvIsWhole DEF Workspaces
  <2> QED BY <2>1, LeavesAreCounted DEF Whole, PanesAreWhole
<1> QED BY <1>1, WorkspaceHolds, PTL

(* No two sessions stand for one native session, but those a split has copied.  It takes that a
   claim removes every other session of the native id, and that the storage holds no two.        *)
THEOREM NativesHold == Spec => []OneSessionPerNative
<1>1. WorkspaceInv => OneSessionPerNative
  BY DEF WorkspaceInv, Single, SingleAmong, OneSessionPerNative
<1> QED BY <1>1, WorkspaceHolds, PTL

(* What a reload would restore is what is shown. *)
THEOREM StoredHolds == Spec => []StoredIsShown
<1>1. WorkspaceInv => StoredIsShown
  BY DEF WorkspaceInv
<1> QED BY <1>1, WorkspaceHolds, PTL

(* A session that works is lost to nothing but the page, the side chat's reset, or a session of
   the same native id.                                                                           *)
THEOREM WorkHolds == Spec => WorkSurvives
<1>1. WorkspaceInv /\ [Next]_vars => [WorkStays \/ RemoveDetached \/ Reload]_vars
  BY NextStep
<1> QED BY <1>1, WorkspaceHolds, PTL DEF Spec, WorkSurvives
=============================================================================
