------------------------- MODULE MCPublisherLiveness -------------------------
(* The liveness run of Publisher: no symmetry, two calls. *)
EXTENDS PublisherLiveness
=============================================================================
