-------------------------- MODULE PublishContract --------------------------
(***************************************************************************)
(* What Publisher.Publish promises its callers, with no batching, retries  *)
(* or timeouts in sight: a call ends in success or in error, once, and it  *)
(* ends in success only when the topic holds its message.  Delivery is at  *)
(* least once, and after an error the message may be in the topic or not,  *)
(* now or later.                                                           *)
(***************************************************************************)
EXTENDS Naturals

CONSTANT Calls     \* the Publish calls, each with its own message

VARIABLES
  call,            \* what the caller knows of each call
  copies           \* copies of its message the topic has stored

Init ==
  /\ call = [c \in Calls |-> "idle"]
  /\ copies = [c \in Calls |-> 0]

(* A caller hands over its message. *)
Open(c) ==
  /\ call[c] = "idle"
  /\ call' = [call EXCEPT ![c] = "open"]
  /\ UNCHANGED copies

(* The topic stores a copy of some of the messages handed over. *)
Store(S) ==
  /\ \A c \in S : call[c] # "idle"
  /\ copies' = [c \in Calls |-> copies[c] + IF c \in S THEN 1 ELSE 0]
  /\ UNCHANGED call

(* Publish returns nil. *)
Succeed(c) ==
  /\ call[c] = "open" /\ copies[c] > 0
  /\ call' = [call EXCEPT ![c] = "ok"]
  /\ UNCHANGED copies

(* Publish returns an error, which says nothing of the message. *)
Fail(c) ==
  /\ call[c] = "open"
  /\ call' = [call EXCEPT ![c] = "err"]
  /\ UNCHANGED copies

Next ==
  \/ \E c \in Calls : Open(c) \/ Succeed(c) \/ Fail(c)
  \/ \E S \in SUBSET Calls : Store(S)

Spec == Init /\ [][Next]_<<call, copies>>

(* The promise as a state predicate: success means stored. *)
SuccessMeansStored == \A c \in Calls : call[c] = "ok" => copies[c] > 0
=============================================================================
