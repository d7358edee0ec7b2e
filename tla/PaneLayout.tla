------------------------------ MODULE PaneLayout ------------------------------
(***************************************************************************)
(* The tree of panes of the agent workspace                                *)
(* (frontend/src/features/agent/workspace/layout.ts).  A leaf is a pane, a *)
(* split has two children side by side ("vertical") or stacked             *)
(* ("horizontal").  The ratio of a split is layout only and left out.      *)
(***************************************************************************)
EXTENDS Naturals, Sequences, FiniteSetsExt

Leaf(p) == [kind |-> "leaf", pane |-> p]
Split(dir, a, b) == [kind |-> "split", dir |-> dir, a |-> a, b |-> b]

\* What removeLeaf returns when nothing is left
NoLayout == [kind |-> "none"]

RECURSIVE CollectLeaves(_)
CollectLeaves(l) ==
    IF l.kind = "leaf" THEN <<l.pane>> ELSE CollectLeaves(l.a) \o CollectLeaves(l.b)

RECURSIVE ReplaceLeaf(_, _, _)
ReplaceLeaf(l, p, new) ==
    IF l.kind = "leaf" THEN IF l.pane = p THEN new ELSE l
    ELSE Split(l.dir, ReplaceLeaf(l.a, p, new), ReplaceLeaf(l.b, p, new))

\* The sibling of the removed leaf takes the place of their split.
RECURSIVE RemoveLeaf(_, _)
RemoveLeaf(l, p) ==
    IF l.kind = "leaf" THEN IF l.pane = p THEN NoLayout ELSE l
    ELSE LET a == RemoveLeaf(l.a, p)
             b == RemoveLeaf(l.b, p)
         IN  IF a = NoLayout THEN b ELSE IF b = NoLayout THEN a ELSE Split(l.dir, a, b)

\* The loop of claimCanonicalSession: the leaves go one after the other, and one whose removal
\* leaves nothing stays.
RemoveLeaves(l, panes) ==
    FoldSet(LAMBDA p, rest : IF RemoveLeaf(rest, p) = NoLayout THEN rest ELSE RemoveLeaf(rest, p),
            l, panes)

\* splitLeaf: side "a" puts the new pane left or on top
SplitLeaf(l, p, new, dir, side) ==
    ReplaceLeaf(l, p, IF side = "a" THEN Split(dir, Leaf(new), Leaf(p))
                                    ELSE Split(dir, Leaf(p), Leaf(new)))

Wider(m, n) == IF m > n THEN m ELSE n

RECURSIVE GridSize(_)
GridSize(l) ==
    IF l.kind = "leaf" THEN [cols |-> 1, rows |-> 1]
    ELSE LET a == GridSize(l.a)
             b == GridSize(l.b)
         IN  IF l.dir = "vertical"
               THEN [cols |-> a.cols + b.cols, rows |-> Wider(a.rows, b.rows)]
               ELSE [cols |-> Wider(a.cols, b.cols), rows |-> a.rows + b.rows]

MaxCols == 3
MaxRows == 2
WithinLimits(l) == GridSize(l).cols <= MaxCols /\ GridSize(l).rows <= MaxRows
===============================================================================
