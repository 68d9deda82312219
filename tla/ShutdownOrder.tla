----------------------------- MODULE ShutdownOrder -----------------------------
(***************************************************************************)
(* The order of a shutdown, with no timers, goroutines or batches in sight: *)
(* work begins only while the program runs, the drain comes before Close,   *)
(* and the program ends by itself only when the client holds no message     *)
(* whose result is open.  Harness has the order in full and no clock,       *)
(* ShutdownTiming has the clock; both implement it.                         *)
(***************************************************************************)
CONSTANT Calls   \* the Publish calls, each with its own message

VARIABLES
  phase,         \* what main is doing
  message        \* how far the message of each call has come

Init ==
  /\ phase = "running"
  /\ message = [c \in Calls |-> "none"]

alive == phase \in {"running", "draining", "closing"}

(* A goroutine begins with the event of c. *)
Begin(c) ==
  /\ phase = "running" /\ message[c] = "none"
  /\ message' = [message EXCEPT ![c] = "begun"]
  /\ UNCHANGED phase

(* The client takes the message, or sets an error as its result. *)
Hand(c) ==
  /\ alive /\ message[c] = "begun"
  /\ \E s \in {"held", "settled"} : message' = [message EXCEPT ![c] = s]
  /\ UNCHANGED phase

(* The results of a batch are set. *)
Settle(S) ==
  /\ alive /\ \A c \in S : message[c] = "held"
  /\ message' = [c \in Calls |-> IF c \in S THEN "settled" ELSE message[c]]
  /\ UNCHANGED phase

Drain == phase = "running"  /\ phase' = "draining" /\ UNCHANGED message
Close == phase = "draining" /\ phase' = "closing"  /\ UNCHANGED message

Exit ==
  /\ phase = "closing" /\ \A c \in Calls : message[c] # "held"
  /\ phase' = "exited"
  /\ UNCHANGED message

(* The process is killed, or dies of a panic, while it shuts down. *)
Die == phase \in {"draining", "closing"} /\ phase' = "killed" /\ UNCHANGED message

Next ==
  \/ \E c \in Calls : Begin(c) \/ Hand(c)
  \/ \E S \in SUBSET Calls : Settle(S)
  \/ Drain \/ Close \/ Exit \/ Die

Spec == Init /\ [][Next]_<<phase, message>>
=============================================================================
