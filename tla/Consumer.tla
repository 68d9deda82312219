------------------------------- MODULE Consumer -------------------------------
(***************************************************************************)
(* java-consumer: runs of subscribeSyncExample (App.java), one after the   *)
(* other, against a subscription.  A run pulls some messages, shows each,  *)
(* and acknowledges them in one call at the end; it may be killed or fail  *)
(* between any two of these.  The subscription is external: it leases what *)
(* it delivers and delivers it again when a lease ends without an ack.     *)
(***************************************************************************)
EXTENDS Naturals, FiniteSets

CONSTANTS
  Messages,       \* the messages of the subscription
  Gzipped,        \* those whose data is a gzip stream
  NumOfMessages   \* setMaxMessages of the pull

ASSUME ConsumerAssumption ==
  /\ Gzipped \subseteq Messages /\ IsFiniteSet(Messages)
  /\ NumOfMessages \in Nat \ {0}

VARIABLES
  pc,        \* control point of the run: "start", "loop", "ack" or "exited"
  pulled,    \* the messages of the pull response still to be handled
  ackIds,    \* ackIds
  leased,    \* messages delivered whose lease runs
  acked,     \* messages the subscription has forgotten
  shown,     \* messages whose attributes were printed, once or more often
  decoded    \* messages whose payload was printed

runVars == <<pc, pulled, ackIds>>
vars    == <<runVars, leased, acked, shown, decoded>>

Init ==
  /\ pc = "start" /\ pulled = {} /\ ackIds = {}
  /\ leased = {} /\ acked = {}
  /\ shown = {} /\ decoded = {}

available == Messages \ (leased \cup acked)

-----------------------------------------------------------------------------

(* Faulty variant: the list outlives the run. *)
newAckIds_Static == ackIds

newAckIds == {}

(* subscriber.pullCallable().call: at most numOfMessages, perhaps none. *)
Pull ==
  /\ pc = "start"
  /\ \E S \in SUBSET available :
       /\ Cardinality(S) <= NumOfMessages
       /\ pulled' = S
       /\ leased' = leased \cup S
       /\ pc' = IF S = {} THEN "exited" ELSE "loop"
  /\ ackIds' = newAckIds
  /\ UNCHANGED <<acked, shown, decoded>>

(* What a gzip stream decompresses to is printed, of anything else nothing. *)
printed(m) == {m} \cap Gzipped

(* One pass of the loop; an IOException of the gzip stream is ignored. *)
Handle(m) ==
  /\ pc = "loop" /\ m \in pulled
  /\ shown' = shown \cup {m}
  /\ decoded' = decoded \cup printed(m)
  /\ ackIds' = ackIds \cup {m}
  /\ pulled' = pulled \ {m}
  /\ UNCHANGED <<pc, leased, acked>>

LoopEnds ==
  /\ pc = "loop" /\ pulled = {}
  /\ pc' = "ack"
  /\ UNCHANGED <<pulled, ackIds, leased, acked, shown, decoded>>

(* Faulty variant: everything delivered is acked. *)
acks_Leased == leased

acks == ackIds

(* One acknowledge call for the whole pull: the service drops what is still
   leased; an ack that comes after its lease may work or be ignored. *)
Acknowledge ==
  /\ pc = "ack"
  /\ \E late \in SUBSET (acks \ leased) :
       acked' = acked \cup (acks \cap leased) \cup late
  /\ leased' = leased \ acks
  /\ pc' = "exited"
  /\ UNCHANGED <<pulled, ackIds, shown, decoded>>

(* The run is killed, or a call to the service throws: nothing persists. *)
Fails ==
  /\ pc # "exited"
  /\ pc' = "exited" /\ pulled' = {}
  /\ UNCHANGED <<ackIds, leased, acked, shown, decoded>>

(* main runs again. *)
Rerun ==
  /\ pc = "exited"
  /\ pc' = "start"
  /\ UNCHANGED <<pulled, ackIds, leased, acked, shown, decoded>>

(* The ack deadline passes, of a run that is gone or merely slow. *)
LeaseEnds(m) ==
  /\ m \in leased
  /\ leased' = leased \ {m}
  /\ UNCHANGED <<runVars, acked, shown, decoded>>

Next ==
  \/ Pull \/ LoopEnds \/ Acknowledge \/ Fails \/ Rerun
  \/ \E m \in Messages : Handle(m) \/ LeaseEnds(m)

Spec == Init /\ [][Next]_vars

-----------------------------------------------------------------------------
(* Properties.                                                             *)

TypeOK ==
  /\ pc \in {"start", "loop", "ack", "exited"}
  /\ leased \subseteq Messages /\ acked \subseteq Messages
  /\ pulled \subseteq Messages /\ ackIds \subseteq Messages \ pulled
  /\ shown \subseteq Messages /\ decoded \subseteq Messages

(* A message leaves the subscription only after some run has shown its
   attributes, and its payload if it is a gzip stream, whatever runs died and
   whatever leases ended in between: the acks go out after the loop, for what
   the loop handled (App.java:58-90).  One that is no gzip stream is acked
   with its payload unseen, because the IOException is ignored. *)
AckedWasShown ==
  acked \subseteq shown /\ acked \cap Gzipped \subseteq decoded
=============================================================================
