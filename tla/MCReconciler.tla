----------------------------- MODULE MCReconciler ----------------------------
(* Instances of Reconciler for TLC. *)
EXTENDS Reconciler, TLC

CONSTANT Revisions

MCKey == [sequence : 0 .. MaxSequence, revision : Revisions]

Symmetry == Permutations(Caller) \union Permutations(Graph) \union Permutations(Player)
=============================================================================
