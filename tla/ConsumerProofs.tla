---------------------------- MODULE ConsumerProofs ----------------------------
(***************************************************************************)
(* Proofs about Consumer for any subscription and any size of the pull.    *)
(***************************************************************************)
EXTENDS Consumer, TLAPS

(* What the run is about to ack has been seen already: AckedWasShown alone
   does not say so, and the acknowledge needs it. *)
Inv ==
  /\ TypeOK /\ AckedWasShown
  /\ ackIds \subseteq shown /\ ackIds \cap Gzipped \subseteq decoded

LEMMA InitInv == Init => Inv
BY DEF Init, Inv, TypeOK, AckedWasShown

LEMMA StepPull == ASSUME Inv, Pull PROVE Inv'
<1>1. PICK S \in SUBSET available :
        pulled' = S /\ leased' = leased \cup S /\ pc' \in {"exited", "loop"}
  BY DEF Pull
<1>2. ackIds' = {} /\ UNCHANGED <<acked, shown, decoded>>
  BY DEF Pull, newAckIds
<1> QED
  BY <1>1, <1>2 DEF Inv, TypeOK, AckedWasShown, available

(* Handling a message only adds to what has been seen. *)
LEMMA StepHandle == ASSUME Inv, NEW m \in Messages, Handle(m) PROVE Inv'
BY ConsumerAssumption DEF Handle, printed, Inv, TypeOK, AckedWasShown

LEMMA StepAcknowledge == ASSUME Inv, Acknowledge PROVE Inv'
BY DEF Acknowledge, acks, Inv, TypeOK, AckedWasShown

LEMMA StepOther ==
  ASSUME Inv,
         LoopEnds \/ Fails \/ Rerun \/ (\E m \in Messages : LeaseEnds(m))
           \/ UNCHANGED vars
  PROVE  Inv'
BY DEF LoopEnds, Fails, Rerun, LeaseEnds, vars, runVars, Inv, TypeOK,
       AckedWasShown

LEMMA StepInv == Inv /\ [Next]_vars => Inv'
BY StepPull, StepHandle, StepAcknowledge, StepOther DEF Next

(* The invariant from which the properties follow. *)
THEOREM Safety == Spec => []Inv
BY InitInv, StepInv, PTL DEF Spec

(* The run and the subscription keep their types; an ackId is listed once its
   message has been handled (App.java:58-80). *)
THEOREM ConsumerTypes == Spec => []TypeOK
BY Safety, PTL DEF Inv

(* Whatever runs die and whatever leases end, no message leaves the
   subscription that no run has shown. *)
THEOREM AckedAlwaysShown == Spec => []AckedWasShown
BY Safety, PTL DEF Inv
=============================================================================
