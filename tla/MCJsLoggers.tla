------------------------------ MODULE MCJsLoggers ------------------------------
(* JsLoggers for TLC: both generated modules in one process, one app with up
   to three suffixes, since only names of one app can meet, and two options
   objects that callers pass again. *)
EXTENDS JsLoggers
=============================================================================
