------------------------------ MODULE MCLogLines ------------------------------
(* LogLines for TLC: the caller m runs main and, in the Go server, g is a
   second goroutine that records through the same Writer. *)
EXTENDS LogLines
=============================================================================
