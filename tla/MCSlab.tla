------------------------------- MODULE MCSlab -------------------------------
(***************************************************************************)
(* An instance of Slab for TLC: pools and pages are interchangeable.       *)
(***************************************************************************)
EXTENDS Slab, TLC

Symmetry == Permutations(Pools) \cup Permutations(Pages)

=============================================================================
