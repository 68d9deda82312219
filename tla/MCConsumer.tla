------------------------------ MODULE MCConsumer ------------------------------
(* The runs of Consumer: messages that are gzip streams and one that is not. *)
EXTENDS Consumer
=============================================================================
