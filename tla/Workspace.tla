------------------------------- MODULE Workspace -------------------------------
(***************************************************************************)
(* The panes of the agent workspace and the sessions they show             *)
(* (frontend/src/features/agent/workspace: pane-controller.ts, reducer.ts, *)
(* persistence.ts, the restore of store.ts, the persist rules of           *)
(* effects.ts; runtime/store.ts and runtime/selectors.ts).                 *)
(*                                                                         *)
(* Every action is one dispatch: the reducer takes the whole state to the  *)
(* next one and the pane state is then written to the storage, or not.     *)
(* They come from the user (clicks, links, drags), from the runtime        *)
(* controller (patches, in any order, of any session, also of one that has *)
(* gone), and a reload rebuilds the state from the storage.                *)
(*                                                                         *)
(* Of a session the model keeps its native id (piSessionId) and whether it *)
(* works on a turn.  Whether an idle one without native id is an empty     *)
(* starter depends on its messages, text and queue, and is left open.      *)
(***************************************************************************)
EXTENDS Naturals, Sequences, FiniteSets

CONSTANTS
    Panes,        \* pane ids; newPaneId gives one that is nowhere in use
    Keys,         \* session ids; makeFreshTab gives one that is nowhere in use
    Natives,      \* native session ids
    NoNative,     \* no native id yet
    Edges         \* where a session may be dropped on a pane: direction and side

\* The layouts and the operations of layout.ts.  PaneLayout defines them for trees.
CONSTANTS Layouts, LayoutLeaf(_), LayoutLeaves(_), LayoutRemove(_, _), LayoutRemoveAll(_, _),
          LayoutSplit(_, _, _, _, _), LayoutFits(_)

\* findLeaf and includes
Leaves(l) == {LayoutLeaves(l)[i] : i \in DOMAIN LayoutLeaves(l)}

\* A layout has leaves, each a pane, and no pane twice.
LeavesAreDistinct(layouts, panes) ==
    \A l \in layouts :
        /\ LayoutLeaves(l) \in Seq(panes)
        /\ LayoutLeaves(l) # <<>>
        /\ \A i, j \in DOMAIN LayoutLeaves(l) : LayoutLeaves(l)[i] = LayoutLeaves(l)[j] => i = j

\* An operation leads from a layout to one with these leaves, and a smaller one needs no more room.
LeadsTo(layouts, old, new, leaves) == new \in layouts /\ Leaves(new) = leaves
Shrinks(layouts, old, new, leaves) ==
    LeadsTo(layouts, old, new, leaves) /\ (LayoutFits(old) => LayoutFits(new))

LayoutLaws(layouts, panes, edges) ==
    /\ LeavesAreDistinct(layouts, panes)
    /\ \A p \in panes :
          LayoutLeaf(p) \in layouts /\ LayoutLeaves(LayoutLeaf(p)) = <<p>> /\ LayoutFits(LayoutLeaf(p))
    /\ \A l \in layouts, p \in panes :
          Leaves(l) # {p} => Shrinks(layouts, l, LayoutRemove(l, p), Leaves(l) \ {p})
    /\ \A l \in layouts, gone \in SUBSET panes :
          ~(Leaves(l) \subseteq gone) => Shrinks(layouts, l, LayoutRemoveAll(l, gone), Leaves(l) \ gone)
    /\ \A l \in layouts, edge \in edges : \A p \in Leaves(l), new \in panes \ Leaves(l) :
          LeadsTo(layouts, l, LayoutSplit(l, p, new, edge[1], edge[2]), Leaves(l) \cup {new})

\* Beside: where splitPaneWithSession puts a pane unless told otherwise
Beside == <<"vertical", "b">>

ASSUME NamesAssumption == NoNative \notin Natives
ASSUME PanesAssumption == \A p \in Panes : Panes # {p}
ASSUME EdgesAssumption == Edges \subseteq {"vertical", "horizontal"} \X {"a", "b"}
ASSUME LayoutAssumption == LayoutLaws(Layouts, Panes, Edges \cup {Beside})

VARIABLES
    ws,        \* WorkspaceState
    stored,    \* the pane state in the storage, or NotStored
    side,      \* the id of the side chat's session, or none: {}
    copied,    \* history: the native ids a split has given to a second session
    astray     \* history: the sessions in panes that the side chat has removed or replaced

vars == <<ws, stored, side, copied, astray>>

Session == [pi : Natives \cup {NoNative}, working : BOOLEAN]
FreshTab == [pi |-> NoNative, working |-> FALSE]
NotStored == [none |-> TRUE]

Put(f, k, v) == [j \in DOMAIN f \cup {k} |-> IF j = k THEN v ELSE f[j]]
Without(f, S) == [j \in DOMAIN f \ S |-> f[j]]
Has(w, k) == k \in DOMAIN w.sessions
Shown(w, k) == \E p \in DOMAIN w.panes : w.panes[p] = k

\* writePaneState: of a session only what it is restored with
Persisted(w) == [layout |-> w.layout, focused |-> w.focused,
                 panes |-> [p \in DOMAIN w.panes |->
                    [key |-> w.panes[p],
                     tabs |-> IF Has(w, w.panes[p]) THEN {w.sessions[w.panes[p]].pi} ELSE {}]]]

FreshKeys == {k \in Keys \ (DOMAIN ws.sessions \cup side) : ~Shown(ws, k)}
FreshPanes == Panes \ (DOMAIN ws.panes \cup Leaves(ws.layout))
\* For the operations that split a single pane only: when none is left they have no use for it.
SparePanes == IF FreshPanes = {} THEN Panes ELSE FreshPanes

\* createInitialState
InitialState(p, k) == [layout |-> LayoutLeaf(p), panes |-> [q \in {p} |-> k], focused |-> p,
                       sessions |-> [j \in {k} |-> FreshTab]]

Init ==
    \E p \in Panes, k \in Keys :
        /\ ws = InitialState(p, k)
        /\ stored = NotStored
        /\ side = {}
        /\ copied = {}
        /\ astray = {}

------------------------------------------------------------------------------
(* The operations of pane-controller.ts, each from a state to a state *)

MayBeStarter(s) == s.pi = NoNative /\ ~s.working

\* Mutant: what the comment on pruneSessions describes
PruneWorking(w) == [w EXCEPT !.sessions = Without(@, {k \in DOMAIN @ : ~Shown(w, k)})]
\* pruneOrphanSessions: a session that works outlives its pane
Prune(w) ==
    [w EXCEPT !.sessions = Without(@, {k \in DOMAIN @ : ~Shown(w, k) /\ ~@[k].working})]

\* Mutant: the leaves of the closed panes stay
KeepPaneAndLeaves(w, panes, sessions, extra, p) ==
    [w EXCEPT !.sessions = sessions, !.panes = Without(panes, extra \ {p}), !.focused = p]
\* The panes of a claimed session but one close.
KeepPane(w, panes, sessions, extra, p) ==
    [w EXCEPT !.sessions = sessions,
              !.panes = Without(panes, extra \ {p}),
              !.layout = LayoutRemoveAll(@, extra \ {p}),
              !.focused = p]

\* claimCanonicalSession: the states it may lead to.  Which pane stays, when none of them has
\* the focus, depends on the order the panes were opened in.
Claim(w, k) ==
    LET duplicates == {j \in DOMAIN w.sessions \ {k} : w.sessions[j].pi = w.sessions[k].pi}
        sessions == Without(w.sessions, duplicates)
        panes == [p \in DOMAIN w.panes |-> IF w.panes[p] \in duplicates THEN k ELSE w.panes[p]]
        canonical == {p \in DOMAIN panes : panes[p] = k}
    IN  IF w.sessions[k].pi = NoNative THEN {w}
        ELSE IF Cardinality(canonical) <= 1
               THEN {[w EXCEPT !.sessions = sessions, !.panes = panes]}
        ELSE {KeepPane(w, panes, sessions, canonical, p) :
                p \in IF w.focused \in canonical THEN {w.focused} ELSE canonical}

FocusExisting(w, p, k) ==
    IF p \in DOMAIN w.panes /\ w.panes[p] = k THEN {[w EXCEPT !.focused = p]} ELSE {w}

\* findPaneBySessionId and focusExistingSession
FocusShown(w, k) == UNION {FocusExisting(w, p, k) : p \in {q \in DOMAIN w.panes : w.panes[q] = k}}

ReplacePaneSession(w, p, k, s) ==
    IF p \notin DOMAIN w.panes THEN {w}
    ELSE {[c EXCEPT !.focused = p] :
            c \in Claim([Prune([w EXCEPT !.sessions = Put(@, k, s), !.panes[p] = k])
                           EXCEPT !.focused = p], k)}

OnlyPane(w, p, k) ==
    Prune([w EXCEPT !.layout = LayoutLeaf(p), !.panes = [q \in {p} |-> k], !.focused = p])

FocusAsOnlyPane(w, p, k) ==
    IF p \notin DOMAIN w.panes \/ w.panes[p] # k THEN {w}
    ELSE IF Has(w, k) THEN Claim(OnlyPane(w, p, k), k) ELSE {OnlyPane(w, p, k)}

ReplaceWorkspaceSession(w, p, k, s) ==
    Claim(OnlyPane([w EXCEPT !.sessions = Put(@, k, s)], p, k), k)

\* splitPaneWithSession: neither prunes nor claims.  {} when the layout is full.
SplitPane(w, p, k, s, new, dir, at) ==
    LET layout == LayoutSplit(w.layout, p, new, dir, at)
    IN  IF p \in Leaves(w.layout) /\ LayoutFits(layout)
          THEN {[w EXCEPT !.sessions = Put(@, k, s), !.panes = Put(@, new, k),
                          !.layout = layout, !.focused = new]}
          ELSE {}
SplitPaneOr(w, p, k, s, new, dir, at, otherwise) ==
    IF SplitPane(w, p, k, s, new, dir, at) = {} THEN otherwise
    ELSE SplitPane(w, p, k, s, new, dir, at)

\* siblingPaneId, and remaining[0] of closePane: the first of the other panes
HasSibling(w, p) == Leaves(w.layout) \ {p} # {}
Sibling(w, p) ==
    LET leaves == LayoutLeaves(w.layout)
    IN  leaves[CHOOSE i \in DOMAIN leaves :
                 leaves[i] # p /\ \A j \in DOMAIN leaves : leaves[j] # p => i <= j]

OpenAdjacent(w, k, s, new) ==
    IF HasSibling(w, w.focused) THEN ReplacePaneSession(w, Sibling(w, w.focused), k, s)
    ELSE SplitPaneOr(w, w.focused, k, s, new, Beside[1], Beside[2], {w})

\* openNewSessionInFocusedPane, as links ask for it (replaceWorkspace).  The starter of the
\* focused pane is used again.
OpenNew(w, k) ==
    LET active == w.panes[w.focused]
        again == Has(w, active) /\ MayBeStarter(w.sessions[active])
    IN  IF w.focused \notin DOMAIN w.panes THEN {w}
        ELSE UNION {ReplaceWorkspaceSession(w, w.focused, j, FreshTab) :
                      j \in {k} \cup (IF again THEN {active} ELSE {})}

\* replaySessionInFocusedPane, likewise: the session may be new to the workspace
ReplayFocused(w, k) ==
    LET panes == {p \in DOMAIN w.panes : w.panes[p] = k}
    IN  IF ~Has(w, k) THEN ReplaceWorkspaceSession(w, w.focused, k, FreshTab)
        ELSE IF panes = {} THEN ReplaceWorkspaceSession(w, w.focused, k, w.sessions[k])
        ELSE UNION {FocusAsOnlyPane(w, p, k) : p \in panes}

ReplaySplit(w, k, new) ==
    IF Has(w, k) /\ Shown(w, k) THEN FocusShown(w, k)
    ELSE OpenAdjacent(w, k, IF Has(w, k) THEN w.sessions[k] ELSE FreshTab, new)

\* findWorkspaceSessionByPiSessionId: in a pane before all, then one that works
Owners(w, n) ==
    LET all == {k \in DOMAIN w.sessions : w.sessions[k].pi = n}
        shown == {k \in all : Shown(w, k)}
        working == {k \in all : w.sessions[k].working}
    IN  IF shown # {} THEN shown ELSE IF working # {} THEN working ELSE all

------------------------------------------------------------------------------
(* The dispatches *)

\* useWorkspace's dispatch: reducer, then runWorkspaceEffect.  An action of PANE_STATE_ACTIONS
\* always writes; a patch writes when it changed what would be written.
Dispatch(next) ==
    /\ ws' \in next
    /\ stored' = Persisted(ws')
\* Mutant: patches are taken for changes of messages only
DispatchPatchUnsaved(next) == ws' \in next /\ UNCHANGED stored
DispatchPatch(next) ==
    /\ ws' \in next
    /\ stored' = IF Persisted(ws') = Persisted(ws) THEN stored ELSE Persisted(ws')
\* What the histories keep of themselves
StoredKeys(st, n) ==
    IF st = NotStored THEN {}
    ELSE {st.panes[p].key : p \in {q \in DOMAIN st.panes : n \in st.panes[q].tabs}}
Twice(n) == LET keys == {k \in DOMAIN ws'.sessions : ws'.sessions[k].pi = n} \cup StoredKeys(stored', n)
            IN  \E j, k \in keys : j # k
Remember(natives, keys) ==
    /\ copied' = {n \in (copied \cup natives) \ {NoNative} : Twice(n)}
    /\ astray' = {k \in astray \cup keys : Shown(ws', k)}
Quiet == UNCHANGED side /\ Remember({}, {})

FocusPane(p) ==
    /\ Dispatch({IF p \in DOMAIN ws.panes THEN [ws EXCEPT !.focused = p] ELSE ws})
    /\ Quiet

FocusPaneSession(p, k, replace) ==
    /\ Dispatch(IF replace THEN FocusAsOnlyPane(ws, p, k) ELSE FocusExisting(ws, p, k))
    /\ Quiet

ClosePane(p) ==
    /\ Dispatch(
         IF p \notin Leaves(ws.layout) \/ Len(LayoutLeaves(ws.layout)) <= 1 THEN {ws}
         ELSE {Prune([ws EXCEPT !.layout = LayoutRemove(@, p), !.panes = Without(@, {p}),
                                !.focused = IF @ = p THEN Sibling(ws, p) ELSE @])})
    /\ Quiet

\* openSessionPayloadInPane with a native id: a session dropped on a pane
OpenInPane(p, n, k) ==
    /\ p \in DOMAIN ws.panes
    /\ Dispatch(
         IF Owners(ws, n) = {} THEN ReplacePaneSession(ws, p, k, [FreshTab EXCEPT !.pi = n])
         ELSE UNION {IF Shown(ws, j) THEN FocusShown(ws, j)
                     ELSE ReplacePaneSession(ws, p, j, ws.sessions[j]) : j \in Owners(ws, n)})
    /\ Quiet

\* openSessionPayloadInPane without one: a copy of the tab under a fresh id
CopyToPane(p, source, k) ==
    /\ p \in DOMAIN ws.panes /\ Has(ws, source)
    /\ Dispatch(ReplacePaneSession(ws, p, k, ws.sessions[source]))
    /\ Quiet

\* splitPaneWithPayload with a native id
SplitOpen(p, n, k, new, dir, at) ==
    /\ p \in Leaves(ws.layout)
    /\ Dispatch(
         IF Owners(ws, n) # {}
           THEN UNION {IF Shown(ws, j) THEN FocusShown(ws, j)
                       ELSE SplitPaneOr(ws, p, j, ws.sessions[j], new, dir, at, {ws}) :
                       j \in Owners(ws, n)}
         ELSE IF Len(LayoutLeaves(ws.layout)) >= 2 THEN {ws}
         ELSE SplitPaneOr(ws, p, k, [FreshTab EXCEPT !.pi = n], new, dir, at, {ws}))
    /\ Quiet

\* splitPaneWithPayload without one: the session of the tab, if it is there, or a new one
SplitCopy(p, source, k, new, dir, at) ==
    LET s == IF Has(ws, source) THEN ws.sessions[source] ELSE FreshTab
    IN  /\ p \in Leaves(ws.layout) /\ Len(LayoutLeaves(ws.layout)) < 2
        /\ Dispatch(SplitPaneOr(ws, p, k, s, new, dir, at, {ws}))
        /\ Remember({s.pi}, {})
        /\ UNCHANGED side

\* splitTabIntoNewPane
SplitTab(p, source, k, new) ==
    /\ p \in DOMAIN ws.panes /\ ws.panes[p] = source /\ Has(ws, source)
    /\ Dispatch(IF Len(LayoutLeaves(ws.layout)) >= 2
                  THEN ReplacePaneSession(ws, Sibling(ws, ws.focused), k, ws.sessions[source])
                  ELSE SplitPaneOr(ws, ws.focused, k, ws.sessions[source], new, Beside[1], Beside[2], {ws}))
    /\ Remember({ws.sessions[source].pi}, {})
    /\ UNCHANGED side

\* applyUrlNavigation: a link to a new chat, to a session, or to a session beside the focused
\* one.  That a link is ignored because a later one was handled is left open.
NavigateNew(k) == Dispatch(OpenNew(ws, k)) /\ Quiet
NavigateTo(k) == Dispatch(ReplayFocused(ws, k)) /\ Quiet
NavigateBeside(k, new) == Dispatch(ReplaySplit(ws, k, new)) /\ Quiet

\* Mutant: the patch of a session as patchActiveTab does it
PatchUnclaimed(k, s) ==
    /\ Has(ws, k) /\ (s.pi = NoNative => ws.sessions[k].pi = NoNative)
    /\ DispatchPatch({[ws EXCEPT !.sessions[k] = s]})
    /\ Quiet
\* patchSession: the runtime controller and the pane of a session report a change.
Patch(k, s) ==
    /\ Has(ws, k) /\ (s.pi = NoNative => ws.sessions[k].pi = NoNative)
    /\ DispatchPatch(Claim([ws EXCEPT !.sessions[k] = s], k))
    /\ Quiet

\* updateDetachedSession: the side chat writes its session without a look at panes or storage.
\* If an idle side chat was pruned it begins again.  Its native id is one of its own.
UpdateDetached(k, s) ==
    /\ side \subseteq {k} /\ (side = {} => k \in FreshKeys)
    /\ IF Has(ws, k) /\ ws.sessions[k].pi # NoNative THEN s.pi = ws.sessions[k].pi
       ELSE \A j \in DOMAIN ws.sessions : s.pi = NoNative \/ ws.sessions[j].pi # s.pi
    /\ ws' = [ws EXCEPT !.sessions = Put(@, k, s)]
    /\ side' = {k}
    /\ UNCHANGED stored
    /\ Remember({}, {k})

\* removeDetachedSession: the side chat is started afresh.
RemoveDetached ==
    /\ side # {}
    /\ ws' = [ws EXCEPT !.sessions = Without(@, side)]
    /\ side' = {}
    /\ UNCHANGED stored
    /\ Remember({}, side)

\* restorePersistedPaneState.  A pane whose record has no tab gets a fresh one.
Restored(fresh) ==
    LET leaves == LayoutLeaves(stored.layout)
        panes == [p \in Leaves(stored.layout) |->
                    IF p \in DOMAIN fresh THEN fresh[p] ELSE stored.panes[p].key]
        tab(p) == IF p \in DOMAIN fresh THEN FreshTab
                  ELSE [FreshTab EXCEPT !.pi = CHOOSE n \in stored.panes[p].tabs : TRUE]
    IN  [layout |-> stored.layout,
         panes |-> panes,
         focused |-> IF stored.focused \in DOMAIN panes THEN stored.focused ELSE leaves[1],
         sessions |-> [k \in {panes[p] : p \in DOMAIN panes} |->
                         tab(CHOOSE p \in DOMAIN panes : panes[p] = k)]]

\* loadInitialFromStorage and hydrate in a new page
Reload ==
    /\ side' = {}
    /\ UNCHANGED stored
    /\ IF stored = NotStored
         THEN /\ \E p \in Panes, k \in Keys : ws' = InitialState(p, k)
              /\ Remember({}, {})
         ELSE LET empty == {p \in Leaves(stored.layout) : stored.panes[p].tabs = {}}
              IN  \E fresh \in [empty -> Keys \ {stored.panes[p].key : p \in Leaves(stored.layout)}] :
                    /\ \A p, q \in empty : fresh[p] = fresh[q] => p = q
                    /\ ws' = Restored(fresh)
                    /\ Remember({}, {fresh[p] : p \in empty})

Next ==
    \/ \E p \in Panes : FocusPane(p) \/ ClosePane(p)
    \/ \E p \in Panes, k \in Keys, replace \in BOOLEAN : FocusPaneSession(p, k, replace)
    \/ \E p \in Panes, n \in Natives, k \in FreshKeys : OpenInPane(p, n, k)
    \/ \E p \in Panes, source \in Keys, k \in FreshKeys : CopyToPane(p, source, k)
    \/ \E p \in Panes, k \in FreshKeys, new \in FreshPanes, edge \in Edges :
          \/ \E n \in Natives : SplitOpen(p, n, k, new, edge[1], edge[2])
          \/ \E source \in Keys : SplitCopy(p, source, k, new, edge[1], edge[2])
    \/ \E p \in Panes, source \in Keys, k \in FreshKeys, new \in SparePanes : SplitTab(p, source, k, new)
    \/ \E k \in FreshKeys : NavigateNew(k)
    \/ \E k \in Keys : NavigateTo(k) \/ \E new \in SparePanes : NavigateBeside(k, new)
    \/ \E k \in Keys, s \in Session : Patch(k, s) \/ UpdateDetached(k, s)
    \/ RemoveDetached
    \/ Reload

Spec == Init /\ [][Next]_vars
------------------------------------------------------------------------------
(* Properties *)

TypeOK ==
    /\ DOMAIN ws.panes \subseteq Panes
    /\ DOMAIN ws.sessions \subseteq Keys
    /\ \A k \in DOMAIN ws.sessions : ws.sessions[k] \in Session
    /\ copied \subseteq Natives /\ astray \subseteq Keys /\ side \subseteq Keys

(* However sessions are opened, split, claimed and closed, and whatever the storage held: the
   panes are the leaves of the layout, each once, the layout is within its grid, the focus is on
   one of them, and each shows a session that is there, unless the side chat removed it.        *)
PanesAreWhole ==
    /\ DOMAIN ws.panes = Leaves(ws.layout)
    /\ Len(LayoutLeaves(ws.layout)) = Cardinality(Leaves(ws.layout))
    /\ LayoutFits(ws.layout)
    /\ ws.focused \in Leaves(ws.layout)
    /\ \A p \in DOMAIN ws.panes : Has(ws, ws.panes[p]) \/ ws.panes[p] \in astray

(* claimCanonicalSession: patches, links and drops give native ids to sessions in any order, yet
   no two sessions stand for the same native session, but those a split has copied.             *)
OneSessionPerNative ==
    \A j, k \in DOMAIN ws.sessions :
        j # k /\ ws.sessions[j].pi = ws.sessions[k].pi /\ ws.sessions[k].pi # NoNative
            => ws.sessions[k].pi \in copied

(* The comment on pruneSessions: a session mid-turn survives the loss of its pane.  It goes only
   with the page, with the side chat's reset, or into a session of the same native id.          *)
WorkStays ==
    \A k \in DOMAIN ws.sessions :
        ws.sessions[k].working =>
            \/ k \in DOMAIN ws'.sessions
            \/ \E j \in DOMAIN ws'.sessions :
                    ws'.sessions[j].pi = ws.sessions[k].pi /\ ws.sessions[k].pi # NoNative
WorkSurvives == [][WorkStays \/ RemoveDetached \/ Reload]_vars

(* What a reload would restore is what is shown: every dispatch that moves panes, focus or native
   ids is one after which the pane state is written, patches that lead to a claim included.  The
   side chat's session is the exception: it is written behind the storage's back.               *)
StoredIsShown ==
    stored # NotStored =>
        /\ stored.layout = ws.layout /\ stored.focused = ws.focused
        /\ \A p \in DOMAIN ws.panes :
              ws.panes[p] \in astray \/ stored.panes[p] = Persisted(ws).panes[p]
===============================================================================
