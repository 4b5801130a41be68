----------------------- MODULE MCProjectionCoordinator -----------------------
(* Instances of ProjectionCoordinator for TLC. *)
EXTENDS ProjectionCoordinator, TLC, FiniteSets

CONSTANT Revisions

MCKey == [sequence : 0 .. MaxSequence, revision : Revisions]

Symmetry == Permutations(Caller) \union Permutations(Graph)
=============================================================================
