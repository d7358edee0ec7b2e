------------------------- MODULE MCDownloadManager -------------------------
(* The download manager on a small instance: a directory, a subdirectory of *)
(* it and an unrelated one.                                                 *)
EXTENDS DownloadManager, TLC

CONSTANTS parent, child, other

MCContains == {<<r, r>> : r \in Requests} \cup ({<<parent, child>>} \cap (Requests \X Requests))

Symmetry == Permutations(Handlers) \cup Permutations(Ids) \cup Permutations(Owners)
=============================================================================
