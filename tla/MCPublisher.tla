----------------------------- MODULE MCPublisher -----------------------------
(* Symmetry for the safety run of Publisher: calls are interchangeable. *)
EXTENDS Publisher, TLC

Symmetry == Permutations(Calls)
=============================================================================
