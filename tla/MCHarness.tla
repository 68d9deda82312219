------------------------------ MODULE MCHarness ------------------------------
(* The runs of Harness: the events are numbers, so there is no symmetry. *)
EXTENDS Harness
=============================================================================
