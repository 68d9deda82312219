--------------------------- MODULE MCShutdownTiming ---------------------------
(* Model values and symmetry for the runs of ShutdownTiming. *)
EXTENDS ShutdownTiming, TLC

Symmetry == Permutations(Calls)
=============================================================================
