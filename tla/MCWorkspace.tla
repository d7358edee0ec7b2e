------------------------------ MODULE MCWorkspace ------------------------------
(***************************************************************************)
(* A few panes, sessions and native ids; they are interchangeable.  The    *)
(* layouts are the trees of PaneLayout, with every pane at most once.      *)
(***************************************************************************)
EXTENDS Workspace, PaneLayout, TLC

\* The trees whose leaves are these panes, and those of some of them
RECURSIVE Trees(_)
Trees(panes) ==
    {Leaf(p) : p \in {q \in panes : panes = {q}}} \cup
    UNION {{Split(dir, a, b) : dir \in {"vertical", "horizontal"},
                               a \in Trees(left), b \in Trees(panes \ left)} :
              left \in SUBSET panes \ {{}, panes}}
TreesOf(panes) == UNION {Trees(some) : some \in SUBSET panes \ {{}}}

PaneTrees == TreesOf(Panes)
FourPanes == 1..4
ASSUME LargerLayoutAssumption ==
    LayoutLaws(TreesOf(FourPanes), FourPanes, {"vertical", "horizontal"} \X {"a", "b"})

\* Drops put a session above another, links put one to the right of it.
AboveOnly == {<<"horizontal", "a">>}
Symmetry == Permutations(Panes) \cup Permutations(Keys) \cup Permutations(Natives)
===============================================================================
