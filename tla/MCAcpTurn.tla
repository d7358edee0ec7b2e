----------------------------- MODULE MCAcpTurn -----------------------------
(* The turns of an ACP session on a small instance. *)
EXTENDS AcpTurn, TLC

Symmetry == Permutations(Callers) \cup Permutations(Slots) \cup Permutations(Tasks)
            \cup Permutations(RequestIds) \cup Permutations(Children)
=============================================================================
