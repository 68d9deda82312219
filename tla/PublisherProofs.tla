--------------------------- MODULE PublisherProofs ---------------------------
(***************************************************************************)
(* Proofs about Publisher for every set of calls, threshold and number of  *)
(* attempts: type correctness, the safety invariants, and that Publish     *)
(* keeps the promise of PublishContract.                                   *)
(***************************************************************************)
EXTENDS Publisher, FiniteSetTheorems, TLAPS

-----------------------------------------------------------------------------
(* The type invariant.                                                     *)

LEMMA TypeInit == Init => TypeOK
<1> SUFFICES ASSUME Init PROVE TypeOK
  OBVIOUS
<1>1. panicked \in BOOLEAN
  BY Zenon DEF Init
<1>2. abandoned = {} /\ sending = {} /\ expired = {}
  BY Zenon DEF Init
<1> QED
  BY <1>1, <1>2, PublisherAssumption DEF Init, TypeOK, PCs, Stages, Clients

(* The steps of a caller keep the types. *)
LEMMA TypeCall ==
  ASSUME TypeOK, NEW c \in Calls, Enter(c) \/ CallStep(c)
  PROVE  TypeOK'
<1> USE PublisherAssumption DEF TypeOK
<1>1. CASE Enter(c)
  BY <1>1 DEF Enter, PCs, clientVars
<1>2. CASE Enqueue(c)
  <2>1. ASSUME AddToBundle(c)
        PROVE  stage' \in [Calls -> Stages] /\ sending' \subseteq SUBSET Calls
    BY <2>1 DEF AddToBundle, Move, Flush, bundle, Stages
  <2>2. ASSUME PublishAfterStop(c)
        PROVE  stage' \in [Calls -> Stages] /\ sending' \subseteq SUBSET Calls
    BY <2>2 DEF PublishAfterStop, Move, Stages
  <2>3. panicked' \in BOOLEAN
    BY <1>2, Zenon DEF Enqueue, AddToBundle, PublishAfterStop
  <2>4. stage' \in [Calls -> Stages] /\ sending' \subseteq SUBSET Calls
    BY <1>2, <2>1, <2>2 DEF Enqueue
  <2>5. /\ pc' \in [Calls -> PCs] /\ callDurations' \in Nat
        /\ UNCHANGED <<outcome, expired, abandoned, attempts, copies, client,
                       inflight, publishTotal, resultDurations>>
    BY <1>2 DEF Enqueue, PCs
  <2> QED
    BY <2>3, <2>4, <2>5
<1>3. CASE Expire(c)
  BY <1>3 DEF Expire, clientVars, metricVars
<1>4. CASE Get(c)
  BY <1>4 DEF Get, GetReturns, PCs, clientVars
<1>5. CASE Count(c)
  BY <1>5 DEF Count, status, PCs, clientVars
<1>6. CASE Return(c)
  BY <1>6 DEF Return, Dec, PCs, clientVars
<1> QED
  BY <1>1, <1>2, <1>3, <1>4, <1>5, <1>6 DEF CallStep

(* The steps of the client for one batch keep the types. *)
LEMMA TypeBatch ==
  ASSUME TypeOK, NEW b \in sending, BatchStep(b)
  PROVE  TypeOK'
<1> USE PublisherAssumption DEF TypeOK, callVars, metricVars
<1>0. b \subseteq Calls
  OBVIOUS
<1>1. CASE Attempt(b)
  BY <1>0, <1>1 DEF Attempt, Move, Stages
<1>2. CASE Store(b)
  BY <1>0, <1>2 DEF Store, Move, Stages
<1>3. Abandon(b) => abandoned' \subseteq (SUBSET Calls) \X (0 .. MaxAttempts)
  BY <1>0 DEF Abandon
<1>4. ASSUME NEW s \in Stages, Resolve(b, s)
      PROVE  /\ stage' \in [Calls -> Stages] /\ sending' \subseteq SUBSET Calls
             /\ UNCHANGED <<callVars, attempts, copies, client, panicked, metricVars>>
  BY <1>4 DEF Resolve, Move
<1>5. CASE Ack(b)
  BY <1>4, <1>5 DEF Ack, Stages
<1>6. CASE BatchTimeout(b)
  BY <1>3, <1>4, <1>6 DEF BatchTimeout, Stages
<1>7. CASE \E code \in retryableCodes : Retry(b, code)
  BY <1>3, <1>7 DEF Retry, Move, Stages
<1>8. CASE \E code \in finalCodes : Reject(b, code)
  BY <1>4, <1>8 DEF Reject, Stages
<1> QED
  BY <1>1, <1>2, <1>5, <1>6, <1>7, <1>8 DEF BatchStep

LEMMA TypeStep == TypeOK /\ [Next]_vars => TypeOK'
<1> SUFFICES ASSUME TypeOK, [Next]_vars PROVE TypeOK'
  OBVIOUS
<1> USE PublisherAssumption
<1>1. ASSUME NEW c \in Calls, CallerEnters(c) \/ CallStep(c) PROVE TypeOK'
  BY <1>1, TypeCall DEF CallerEnters
<1>2. CASE DelayElapses
  BY <1>2 DEF TypeOK, DelayElapses, Flush, Move, bundle, Stages, callVars, metricVars
<1>3. ASSUME NEW b \in sending, BatchStep(b) PROVE TypeOK'
  BY <1>3, TypeBatch
<1>4. ASSUME NEW a \in abandoned, LateStore(a) PROVE TypeOK'
  BY <1>4 DEF TypeOK, LateStore, callVars, metricVars
<1>5. CASE StopReturns \/ CloseClient
  BY <1>5 DEF TypeOK, StopReturns, CloseClient, Clients, callVars, metricVars
<1>6. CASE CallerCloses
  BY <1>6 DEF TypeOK, CallerCloses, Stop, Flush, Move, bundle, Stages, Clients,
              callVars, metricVars
<1>7. CASE UNCHANGED vars
  BY <1>7 DEF TypeOK, vars, callVars, clientVars, metricVars
<1> QED
  BY <1>1, <1>2, <1>3, <1>4, <1>5, <1>6, <1>7 DEF Next, ClientStep, Terminated

(* Every variable of the publisher keeps its type. *)
THEOREM TypeCorrect == Spec => []TypeOK
BY TypeInit, TypeStep, PTL DEF Spec

-----------------------------------------------------------------------------
(* The batches on the wire.  Four shapes of step disturb them: a message   *)
(* settles outside the wire, a bundle is flushed, a batch moves on as a    *)
(* whole, a batch is resolved.                                             *)

LEMMA SettleKeepsBatches ==
  ASSUME TypeOK, BatchesPartition, NEW c \in Calls, stage[c] = "none",
         Move({c}, "bundled") \/ Move({c}, "failed"),
         UNCHANGED <<sending, attempts>>
  PROVE  BatchesPartition'
BY DEF TypeOK, BatchesPartition, Move, InBatch, Stages

LEMMA FlushKeepsBatches ==
  ASSUME TypeOK, BatchesPartition, NEW S \in SUBSET Calls, S # {},
         \A c \in S : stage[c] \in {"none", "bundled"},
         Flush(S), UNCHANGED attempts
  PROVE  BatchesPartition'
<1>1. \A b \in sending : b \cap S = {}
  BY DEF BatchesPartition, InBatch
<1>2. \A c \in Calls : stage'[c] = IF c \in S THEN "queued" ELSE stage[c]
  BY DEF Flush, Move
<1> QED
  BY <1>1, <1>2 DEF TypeOK, BatchesPartition, Flush, InBatch

LEMMA AdvanceKeepsBatches ==
  ASSUME TypeOK, BatchesPartition, NEW b \in sending, NEW s \in InBatch,
         Move(b, s), UNCHANGED sending,
         \/ UNCHANGED attempts
         \/ attempts' = [c \in Calls |-> attempts[c] + IF c \in b THEN 1 ELSE 0]
  PROVE  BatchesPartition'
<1>1. \A e \in sending : e # b => e \cap b = {}
  BY DEF BatchesPartition
<1>2. \A c \in Calls : stage'[c] = IF c \in b THEN s ELSE stage[c]
  BY DEF Move
<1>3. \A c \in Calls : c \notin b => attempts'[c] = attempts[c]
  <2>1. CASE UNCHANGED attempts
    BY <2>1
  <2>2. CASE attempts' = [c \in Calls |-> attempts[c] + IF c \in b THEN 1 ELSE 0]
    BY <2>2 DEF TypeOK
  <2> QED
    BY <2>1, <2>2
<1>4. \A c, d \in b : attempts'[c] = attempts'[d]
  BY DEF TypeOK, BatchesPartition
<1>5. b \subseteq Calls /\ \A e \in sending : e \subseteq Calls
  BY DEF TypeOK
<1>6. \A e \in sending :
        /\ e # {}
        /\ \A c, d \in e : /\ stage'[c] \in InBatch
                           /\ stage'[c] = stage'[d] /\ attempts'[c] = attempts'[d]
  <2> SUFFICES ASSUME NEW e \in sending, NEW c \in e, NEW d \in e
               PROVE  /\ stage'[c] \in InBatch
                      /\ stage'[c] = stage'[d] /\ attempts'[c] = attempts'[d]
    BY DEF BatchesPartition
  <2>1. CASE e = b
    BY <1>2, <1>4, <1>5, <2>1
  <2>2. CASE e # b
    BY <1>1, <1>2, <1>3, <1>5, <2>2 DEF BatchesPartition
  <2> QED
    BY <2>1, <2>2
<1>7. \A c \in Calls : stage'[c] \in InBatch => \E e \in sending : c \in e
  <2> TAKE c \in Calls
  <2>1. c \in b => \E e \in sending : c \in e
    OBVIOUS
  <2>2. c \notin b => stage'[c] = stage[c]
    BY <1>2
  <2>3. stage[c] \in InBatch => \E e \in sending : c \in e
    BY DEF BatchesPartition
  <2> QED
    BY <2>1, <2>2, <2>3
<1>8. \A c \in Calls : stage'[c] \in {"none", "bundled"} => attempts'[c] = 0
  BY <1>2, <1>3 DEF BatchesPartition, InBatch
<1> QED
  BY <1>6, <1>7, <1>8 DEF BatchesPartition

LEMMA ResolveKeepsBatches ==
  ASSUME TypeOK, BatchesPartition, NEW b \in sending,
         NEW s \in {"acked", "failed"}, Resolve(b, s)
  PROVE  BatchesPartition'
<1>1. \A e \in sending' : e \in sending /\ e # b /\ e \cap b = {}
  BY DEF BatchesPartition, Resolve
<1>2. \A c \in Calls : stage'[c] = IF c \in b THEN s ELSE stage[c]
  BY DEF Resolve, Move
<1> QED
  BY <1>1, <1>2 DEF TypeOK, BatchesPartition, Resolve, InBatch

LEMMA BatchesCall ==
  ASSUME TypeOK, BatchesPartition, OutcomeMatchesStage,
         NEW c \in Calls, Enter(c) \/ CallStep(c)
  PROVE  BatchesPartition'
<1>1. CASE Enqueue(c)
  <2>1. stage[c] = "none" /\ UNCHANGED attempts
    BY <1>1 DEF Enqueue, OutcomeMatchesStage
  <2>2. CASE Flush(bundle \cup {c})
    <3>1. \A d \in bundle \cup {c} : stage[d] \in {"none", "bundled"}
      BY <2>1 DEF bundle
    <3>2. bundle \cup {c} \in SUBSET Calls /\ bundle \cup {c} # {}
      BY DEF bundle
    <3> QED
      BY <2>1, <2>2, <3>1, <3>2, FlushKeepsBatches
  <2>3. CASE (Move({c}, "bundled") \/ Move({c}, "failed")) /\ UNCHANGED sending
    BY <2>1, <2>3, SettleKeepsBatches
  <2>4. \/ Flush(bundle \cup {c})
        \/ (Move({c}, "bundled") \/ Move({c}, "failed")) /\ UNCHANGED sending
        \/ UNCHANGED <<stage, sending>>
    BY <1>1 DEF Enqueue, AddToBundle, PublishAfterStop
  <2>5. CASE UNCHANGED <<stage, sending>>
    BY <2>1, <2>5 DEF BatchesPartition
  <2> QED
    BY <2>2, <2>3, <2>4, <2>5
<1>2. CASE Enter(c) \/ Expire(c) \/ Get(c) \/ Count(c) \/ Return(c)
  BY <1>2 DEF Enter, Expire, Get, Count, Return, clientVars, BatchesPartition
<1> QED
  BY <1>1, <1>2 DEF CallStep

LEMMA BatchesBatch ==
  ASSUME TypeOK, BatchesPartition, NEW b \in sending, BatchStep(b)
  PROVE  BatchesPartition'
<1>1. CASE Attempt(b)
  BY <1>1, AdvanceKeepsBatches DEF Attempt, InBatch
<1>2. CASE Store(b)
  BY <1>2, AdvanceKeepsBatches DEF Store, InBatch
<1>3. CASE \E code \in retryableCodes : Retry(b, code)
  BY <1>3, AdvanceKeepsBatches DEF Retry, InBatch
<1>4. CASE Ack(b) \/ BatchTimeout(b) \/ \E code \in finalCodes : Reject(b, code)
  BY <1>4, ResolveKeepsBatches DEF Ack, BatchTimeout, Reject
<1> QED
  BY <1>1, <1>2, <1>3, <1>4 DEF BatchStep

LEMMA BatchesStep ==
  TypeOK /\ BatchesPartition /\ OutcomeMatchesStage /\ [Next]_vars => BatchesPartition'
<1> SUFFICES ASSUME TypeOK, BatchesPartition, OutcomeMatchesStage, [Next]_vars
             PROVE  BatchesPartition'
  OBVIOUS
<1>1. ASSUME NEW c \in Calls, CallerEnters(c) \/ CallStep(c) PROVE BatchesPartition'
  BY <1>1, BatchesCall DEF CallerEnters
<1>2. ASSUME Flush(bundle), bundle # {}, UNCHANGED attempts PROVE BatchesPartition'
  <2>1. bundle \in SUBSET Calls /\ \A d \in bundle : stage[d] \in {"none", "bundled"}
    BY DEF bundle
  <2> QED
    BY <1>2, <2>1, FlushKeepsBatches
<1>3. CASE DelayElapses
  BY <1>2, <1>3 DEF DelayElapses, due
<1>4. ASSUME NEW b \in sending, BatchStep(b) PROVE BatchesPartition'
  BY <1>4, BatchesBatch
<1>5. ASSUME UNCHANGED <<stage, sending, attempts>> PROVE BatchesPartition'
  BY <1>5 DEF BatchesPartition
<1>6. ASSUME NEW a \in abandoned, LateStore(a) PROVE BatchesPartition'
  BY <1>5, <1>6 DEF LateStore
<1>7. CASE CallerCloses
  BY <1>2, <1>5, <1>7 DEF CallerCloses, Stop
<1>8. CASE StopReturns \/ CloseClient \/ UNCHANGED vars
  BY <1>5, <1>8 DEF StopReturns, CloseClient, vars, clientVars
<1> QED
  BY <1>1, <1>3, <1>4, <1>6, <1>7, <1>8 DEF Next, ClientStep, Terminated

-----------------------------------------------------------------------------
(* What calls are told against what became of their messages.              *)

(* A call that hands its message to an open client moves no other message,
   save those that leave the bundle with its own. *)
LEMMA AddToBundleMoves ==
  ASSUME NEW c \in Calls, stage[c] = "none", AddToBundle(c)
  PROVE  /\ stage'[c] \in {"bundled", "queued"}
         /\ \A d \in Calls : d # c =>
              stage'[d] = stage[d] \/ (stage[d] = "bundled" /\ stage'[d] = "queued")
<1>1. CASE Flush(bundle \cup {c})
  BY <1>1 DEF Flush, Move, bundle
<1>2. CASE Move({c}, "bundled")
  BY <1>2 DEF Move
<1> QED
  BY <1>1, <1>2 DEF AddToBundle

LEMMA OutcomeCall ==
  ASSUME TypeOK, OutcomeMatchesStage, BatchesPartition, QuietClose,
         NEW c \in Calls, CallerEnters(c) \/ CallStep(c)
  PROVE  OutcomeMatchesStage'
<1> USE DEF TypeOK, OutcomeMatchesStage
<1>1. CASE CallerEnters(c)
  BY <1>1 DEF CallerEnters, Enter, clientVars
<1>2. CASE Enqueue(c)
  <2>1. AddToBundle(c)
    BY <1>2 DEF Enqueue, QuietClose, PublishAfterStop
  <2>2. /\ stage[c] = "none" /\ stage'[c] \in {"bundled", "queued"}
        /\ \A d \in Calls : d # c =>
             stage'[d] = stage[d] \/ (stage[d] = "bundled" /\ stage'[d] = "queued")
    <3>1. stage[c] = "none"
      BY <1>2 DEF Enqueue
    <3> QED
      BY <2>1, <3>1, AddToBundleMoves
  <2>3. /\ pc'[c] = "get" /\ \A d \in Calls : d # c => pc'[d] = pc[d]
        /\ UNCHANGED <<outcome, copies, abandoned>>
    BY <1>2 DEF Enqueue
  <2>4. \A a \in abandoned : \A d \in a[1] : d \in Calls
    OBVIOUS
  <2> QED
    BY <1>2, <2>2, <2>3, <2>4 DEF Enqueue
<1>3. CASE Expire(c)
  BY <1>3 DEF Expire, clientVars
<1>4. CASE Get(c)
  BY <1>4 DEF Get, GetReturns, clientVars
<1>5. CASE Count(c) \/ Return(c)
  BY <1>5 DEF Count, Return, clientVars
<1> QED
  BY <1>1, <1>2, <1>3, <1>4, <1>5 DEF CallStep

LEMMA OutcomeBatch ==
  ASSUME TypeOK, OutcomeMatchesStage, BatchesPartition,
         NEW b \in sending, BatchStep(b)
  PROVE  OutcomeMatchesStage'
<1>0. b \subseteq Calls /\ \A a \in abandoned : a[1] \subseteq Calls
  BY DEF TypeOK
<1>1. \A c \in b : stage[c] \in InBatch
  BY DEF BatchesPartition
<1>2. ASSUME NEW s \in Stages \ {"none"}, Move(b, s), UNCHANGED <<pc, outcome>>,
             \A a \in abandoned' : a \in abandoned \/ a[1] = b,
             \A c \in Calls : copies[c] > 0 => copies'[c] > 0,
             s \in {"stored", "acked"} => \A c \in b : copies'[c] > 0
      PROVE  OutcomeMatchesStage'
  <2>1. \A c \in Calls : stage'[c] = IF c \in b THEN s ELSE stage[c]
    BY <1>2 DEF Move
  <2>2. \A a \in abandoned' : \A c \in a[1] : stage'[c] # "none"
    BY <1>0, <1>2, <2>1 DEF OutcomeMatchesStage
  <2>3. \A c \in Calls : stage'[c] \in {"stored", "acked"} => copies'[c] > 0
    BY <1>2, <2>1 DEF OutcomeMatchesStage
  <2>4. \A c \in Calls : outcome[c] = "ok" => stage'[c] = "acked"
    BY <1>1, <2>1 DEF OutcomeMatchesStage, InBatch
  <2>5. \A c \in Calls : stage'[c] = "none" <=> pc[c] \in {"idle", "enqueue"}
    BY <1>1, <1>2, <2>1 DEF OutcomeMatchesStage, InBatch
  <2> QED
    BY <1>2, <2>2, <2>3, <2>4, <2>5 DEF OutcomeMatchesStage
<1>3. Abandon(b) => \A a \in abandoned' : a \in abandoned \/ a[1] = b
  BY DEF Abandon
<1>4. \A c \in Calls : copies[c] \in Nat
  BY DEF TypeOK
<1>5. CASE Attempt(b)
  BY <1>2, <1>4, <1>5 DEF Attempt, Stages, callVars
<1>6. CASE Store(b)
  <2>1. \A c \in Calls : copies'[c] = copies[c] + IF c \in b THEN 1 ELSE 0
    BY <1>6 DEF Store
  <2> QED
    BY <1>0, <1>2, <1>4, <1>6, <2>1 DEF Store, Stages, callVars
<1>7. CASE Ack(b)
  <2>1. \A c \in b : copies[c] > 0
    BY <1>0, <1>7 DEF Ack, OutcomeMatchesStage
  <2> QED
    BY <1>2, <1>4, <1>7, <2>1 DEF Ack, Resolve, Stages, callVars
<1>8. CASE BatchTimeout(b)
  BY <1>2, <1>3, <1>4, <1>8 DEF BatchTimeout, Resolve, Stages, callVars
<1>9. CASE \E code \in retryableCodes : Retry(b, code)
  BY <1>2, <1>3, <1>4, <1>9 DEF Retry, Stages, callVars
<1>10. CASE \E code \in finalCodes : Reject(b, code)
  BY <1>2, <1>4, <1>10 DEF Reject, Resolve, Stages, callVars
<1> QED
  BY <1>5, <1>6, <1>7, <1>8, <1>9, <1>10 DEF BatchStep

LEMMA OutcomeStep ==
  /\ TypeOK /\ BatchesPartition /\ OutcomeMatchesStage /\ QuietClose
  /\ [Next]_vars
  => OutcomeMatchesStage'
<1> SUFFICES ASSUME TypeOK, BatchesPartition, OutcomeMatchesStage, QuietClose,
                    [Next]_vars
             PROVE  OutcomeMatchesStage'
  OBVIOUS
<1>1. ASSUME NEW c \in Calls, CallerEnters(c) \/ CallStep(c) PROVE OutcomeMatchesStage'
  BY <1>1, OutcomeCall
<1>2. ASSUME NEW b \in sending, BatchStep(b) PROVE OutcomeMatchesStage'
  BY <1>2, OutcomeBatch
<1>3. ASSUME Flush(bundle), UNCHANGED <<pc, outcome, copies, abandoned>>
      PROVE  OutcomeMatchesStage'
  <2>1. \A c \in Calls : \/ stage'[c] = stage[c]
                         \/ stage[c] = "bundled" /\ stage'[c] = "queued"
    BY <1>3 DEF Flush, Move, bundle
  <2>2. \A a \in abandoned : a[1] \subseteq Calls
    BY DEF TypeOK
  <2> QED
    BY <1>3, <2>1, <2>2 DEF OutcomeMatchesStage
<1>4. CASE DelayElapses
  BY <1>3, <1>4 DEF DelayElapses, callVars
<1>5. ASSUME NEW a \in abandoned, LateStore(a) PROVE OutcomeMatchesStage'
  <2>1. \A c \in Calls : copies[c] \in Nat /\ copies'[c] \in {copies[c], copies[c] + 1}
    BY <1>5 DEF LateStore, TypeOK
  <2> QED
    BY <1>5, <2>1 DEF LateStore, OutcomeMatchesStage, callVars
<1>6. ASSUME UNCHANGED <<pc, outcome, stage, copies, abandoned>>
      PROVE  OutcomeMatchesStage'
  BY <1>6 DEF OutcomeMatchesStage
<1>7. CASE CallerCloses
  BY <1>3, <1>6, <1>7 DEF CallerCloses, Stop, callVars
<1>8. CASE StopReturns \/ CloseClient \/ UNCHANGED vars
  BY <1>6, <1>8 DEF StopReturns, CloseClient, vars, callVars, clientVars
<1> QED
  BY <1>1, <1>2, <1>4, <1>5, <1>7, <1>8 DEF Next, ClientStep, Terminated

-----------------------------------------------------------------------------
(* Close.                                                                  *)

LEMMA QuietStep ==
  QuietClose /\ OutcomeMatchesStage /\ BatchesPartition /\ TypeOK /\ [Next]_vars => QuietClose'
<1> SUFFICES ASSUME QuietClose, OutcomeMatchesStage, BatchesPartition, TypeOK, [Next]_vars
             PROVE  QuietClose'
  OBVIOUS
<1>1. ASSUME NEW c \in Calls, CallerEnters(c) PROVE QuietClose'
  BY <1>1 DEF CallerEnters, Enter, QuietClose, bundle, clientVars
<1>2. ASSUME NEW c \in Calls, CallStep(c) PROVE QuietClose'
  <2>1. CASE Enqueue(c)
    BY <2>1 DEF Enqueue, AddToBundle, PublishAfterStop, QuietClose
  <2>2. CASE Expire(c) \/ Get(c) \/ Count(c) \/ Return(c)
    <3>1. \A d \in Calls : pc[d] \in {"idle", "returned"} => pc'[d] = pc[d]
      BY <2>2 DEF Expire, Get, Count, Return, TypeOK
    <3>2. UNCHANGED <<stage, client, panicked>>
      BY <2>2 DEF Expire, Get, Count, Return, clientVars
    <3> QED
      BY <3>1, <3>2 DEF QuietClose, bundle
  <2> QED
    BY <1>2, <2>1, <2>2 DEF CallStep
<1>3. ASSUME NEW b \in sending, BatchStep(b) PROVE QuietClose'
  <2>1. b \subseteq Calls /\ b # {}
    BY DEF TypeOK, BatchesPartition
  <2>2. \A c \in Calls : stage'[c] = "bundled" => stage[c] = "bundled"
    BY <1>3 DEF BatchStep, Attempt, Store, Ack, BatchTimeout, Retry, Reject,
                Resolve, Move
  <2>3. UNCHANGED <<pc, client, panicked>>
    BY <1>3 DEF BatchStep, Attempt, Store, Ack, BatchTimeout, Retry, Reject,
                Resolve, callVars
  <2> QED
    BY <2>2, <2>3 DEF QuietClose, bundle
<1>4. CASE DelayElapses
  BY <1>4 DEF DelayElapses, QuietClose, callVars, Flush, Move, bundle
<1>5. ASSUME UNCHANGED <<pc, stage, client, panicked>> PROVE QuietClose'
  BY <1>5 DEF QuietClose, bundle
<1>6. ASSUME NEW a \in abandoned, LateStore(a) PROVE QuietClose'
  BY <1>5, <1>6 DEF LateStore, callVars
<1>7. CASE CallerCloses
  BY <1>7 DEF CallerCloses, quiet, Stop, Flush, Move, QuietClose, bundle, callVars
<1>8. CASE StopReturns \/ CloseClient
  BY <1>8 DEF StopReturns, CloseClient, QuietClose, bundle, callVars
<1>9. CASE UNCHANGED vars
  BY <1>5, <1>9 DEF vars, callVars, clientVars
<1> QED
  BY <1>1, <1>2, <1>3, <1>4, <1>6, <1>7, <1>8, <1>9 DEF Next, ClientStep, Terminated

LEMMA CloseFlushesStep ==
  TypeOK /\ BatchesPartition /\ QuietClose /\ CloseFlushes /\ [Next]_vars => CloseFlushes'
<1> SUFFICES ASSUME TypeOK, BatchesPartition, QuietClose, CloseFlushes, [Next]_vars
             PROVE  CloseFlushes'
  OBVIOUS
<1>1. client \in {"stopped", "closed"} => sending = {}
  BY DEF TypeOK, BatchesPartition, CloseFlushes, InBatch
<1>2. ASSUME UNCHANGED <<stage, client>> PROVE CloseFlushes'
  BY <1>2 DEF CloseFlushes
<1>3. ASSUME NEW c \in Calls, CallerEnters(c) \/ CallStep(c) PROVE CloseFlushes'
  <2>1. CASE Enqueue(c)
    BY <2>1 DEF Enqueue, QuietClose, CloseFlushes
  <2>2. CASE CallerEnters(c) \/ Expire(c) \/ Get(c) \/ Count(c) \/ Return(c)
    BY <1>2, <2>2 DEF CallerEnters, Enter, Expire, Get, Count, Return, clientVars
  <2> QED
    BY <1>3, <2>1, <2>2 DEF CallStep
<1>4. ASSUME NEW b \in sending, BatchStep(b) PROVE CloseFlushes'
  <2>1. UNCHANGED client
    BY <1>4 DEF BatchStep, Attempt, Store, Ack, BatchTimeout, Retry, Reject, Resolve
  <2> QED
    BY <1>1, <2>1 DEF CloseFlushes
<1>5. CASE DelayElapses
  BY <1>5 DEF DelayElapses, due, QuietClose, CloseFlushes
<1>6. ASSUME NEW a \in abandoned, LateStore(a) PROVE CloseFlushes'
  BY <1>2, <1>6 DEF LateStore
<1>7. CASE CallerCloses
  BY <1>7 DEF CallerCloses, Stop, CloseFlushes
<1>8. CASE StopReturns
  <2>1. \A c \in Calls : stage[c] \notin InBatch
    BY <1>8 DEF StopReturns, flushed, BatchesPartition
  <2>2. \A c \in Calls : stage[c] # "bundled"
    BY <1>8 DEF StopReturns, QuietClose, bundle
  <2> QED
    BY <1>8, <2>1, <2>2 DEF StopReturns, TypeOK, Stages, InBatch, CloseFlushes
<1>9. CASE CloseClient
  BY <1>9 DEF CloseClient, CloseFlushes
<1>10. CASE UNCHANGED vars
  BY <1>2, <1>10 DEF vars, clientVars
<1> QED
  BY <1>3, <1>4, <1>5, <1>6, <1>7, <1>8, <1>9, <1>10 DEF Next, ClientStep, Terminated

-----------------------------------------------------------------------------
(* The inductive invariant and what follows from it.                       *)

Inv == /\ TypeOK /\ BatchesPartition /\ OutcomeMatchesStage
       /\ QuietClose /\ CloseFlushes

LEMMA InvInit == Init => Inv
<1> SUFFICES ASSUME Init PROVE Inv
  OBVIOUS
<1>1. sending = {} /\ abandoned = {} /\ ~panicked
  BY Zenon DEF Init
<1> QED
  BY <1>1, TypeInit DEF Init, Inv, BatchesPartition, OutcomeMatchesStage,
                        QuietClose, CloseFlushes, InBatch

LEMMA InvStep == Inv /\ [Next]_vars => Inv'
BY TypeStep, BatchesStep, OutcomeStep, QuietStep, CloseFlushesStep DEF Inv

(* The invariant from which the safety properties follow. *)
THEOREM Safety == Spec => []Inv
BY InvInit, InvStep, PTL DEF Spec

(* One answer of the service decides for a whole batch, and the batches on
   the wire never overlap. *)
THEOREM BatchesAlwaysPartition == Spec => []BatchesPartition
BY Safety, PTL DEF Inv

(* A call is told "ok" only for a message that was acked, and an acked
   message is in the topic. *)
THEOREM OutcomeAlwaysMatches == Spec => []OutcomeMatchesStage
BY Safety, PTL DEF Inv

(* Callers that keep the contract never meet the panic of a Publish that
   races Close. *)
THEOREM CloseIsQuiet == Spec => []QuietClose
BY Safety, PTL DEF Inv

(* When topic.Stop has returned, the client holds nothing unresolved. *)
THEOREM CloseAlwaysFlushes == Spec => []CloseFlushes
BY Safety, PTL DEF Inv

-----------------------------------------------------------------------------
(* Publisher implements PublishContract.                                   *)

CVars == <<callState, copies>>

LEMMA ContractStutter ==
  UNCHANGED <<pc, outcome, copies>> => UNCHANGED CVars
BY DEF CVars, callState

LEMMA ContractStore ==
  ASSUME Inv, NEW S \in SUBSET Calls, \A c \in S : stage[c] # "none",
         copies' = [c \in Calls |-> copies[c] + IF c \in S THEN 1 ELSE 0],
         UNCHANGED <<pc, outcome>>
  PROVE  Contract!Next
<1>1. \A c \in S : callState[c] # "idle"
  BY DEF Inv, TypeOK, OutcomeMatchesStage, callState
<1>2. UNCHANGED callState
  BY DEF callState
<1>3. Contract!Store(S)
  BY <1>1, <1>2 DEF Contract!Store
<1> QED
  BY <1>3 DEF Contract!Next

LEMMA ContractCall ==
  ASSUME Inv, NEW c \in Calls, Enter(c) \/ CallStep(c)
  PROVE  Contract!Next \/ UNCHANGED CVars
<1> USE DEF Inv, TypeOK
<1>1. CASE Enter(c)
  <2>1. callState[c] = "idle" /\ callState' = [callState EXCEPT ![c] = "open"]
    BY <1>1 DEF Enter, callState, OutcomeMatchesStage
  <2>2. Contract!Open(c)
    BY <1>1, <2>1 DEF Contract!Open, Enter, clientVars
  <2> QED
    BY <2>2 DEF Contract!Next
<1>2. CASE Get(c)
  <2>1. callState[c] = "open" /\ callState' = [callState EXCEPT ![c] = outcome'[c]]
    <3>1. pc[c] = "get" /\ outcome[c] = "none"
      BY <1>2 DEF Get, OutcomeMatchesStage
    <3>2. PICK o \in GetReturns(c) : outcome' = [outcome EXCEPT ![c] = o]
      BY <1>2 DEF Get
    <3>3. o \in {"ok", "err"} /\ outcome'[c] = o
      BY <3>2 DEF GetReturns
    <3>4. \A d \in Calls : d # c => outcome'[d] = outcome[d] /\ pc'[d] = pc[d]
      BY <1>2, <3>2 DEF Get
    <3>5. \A d \in Calls : callState'[d] = IF d = c THEN outcome'[c] ELSE callState[d]
      BY <3>3, <3>4 DEF callState
    <3>6. callState' = [d \in Calls |-> callState'[d]]
      BY DEF callState
    <3>7. callState = [d \in Calls |-> callState[d]]
      BY DEF callState
    <3>8. callState[c] = "open"
      BY <3>1 DEF callState
    <3>9. callState' = [callState EXCEPT ![c] = outcome'[c]]
      BY <3>5, <3>6, <3>7
    <3> QED
      BY <3>8, <3>9
  <2>2. outcome'[c] \in GetReturns(c) /\ UNCHANGED copies
    BY <1>2 DEF Get, clientVars
  <2>3. CASE outcome'[c] = "ok"
    <3>1. copies[c] > 0
      BY <2>2, <2>3 DEF GetReturns, OutcomeMatchesStage
    <3>2. Contract!Succeed(c)
      BY <2>1, <2>2, <2>3, <3>1 DEF Contract!Succeed
    <3> QED
      BY <3>2 DEF Contract!Next
  <2>4. CASE outcome'[c] = "err"
    <3>1. Contract!Fail(c)
      BY <2>1, <2>2, <2>4 DEF Contract!Fail
    <3> QED
      BY <3>1 DEF Contract!Next
  <2> QED
    BY <2>2, <2>3, <2>4 DEF GetReturns
<1>3. CASE Enqueue(c) \/ Count(c) \/ Return(c)
  <2>1. callState' = callState
    BY <1>3 DEF Enqueue, Count, Return, callState
  <2> QED
    BY <1>3, <2>1 DEF Enqueue, Count, Return, clientVars, CVars
<1>4. CASE Expire(c)
  BY <1>4, ContractStutter DEF Expire, clientVars
<1> QED
  BY <1>1, <1>2, <1>3, <1>4 DEF CallStep

LEMMA ContractStep == Inv /\ [Next]_vars => Contract!Next \/ UNCHANGED CVars
<1> SUFFICES ASSUME Inv, [Next]_vars PROVE Contract!Next \/ UNCHANGED CVars
  OBVIOUS
<1>1. ASSUME NEW c \in Calls, CallerEnters(c) \/ CallStep(c)
      PROVE  Contract!Next \/ UNCHANGED CVars
  BY <1>1, ContractCall DEF CallerEnters
<1>2. ASSUME NEW b \in sending, BatchStep(b)
      PROVE  Contract!Next \/ UNCHANGED CVars
  <2>1. b \in SUBSET Calls /\ \A c \in b : stage[c] # "none"
    BY DEF Inv, TypeOK, BatchesPartition, InBatch
  <2>2. CASE Store(b)
    BY <2>1, <2>2, ContractStore DEF Store, callVars
  <2>3. CASE \/ Attempt(b) \/ Ack(b) \/ BatchTimeout(b)
             \/ \E code \in retryableCodes : Retry(b, code)
             \/ \E code \in finalCodes : Reject(b, code)
    BY <2>3, ContractStutter
    DEF Attempt, Ack, BatchTimeout, Retry, Reject, Resolve, callVars
  <2> QED
    BY <1>2, <2>2, <2>3 DEF BatchStep
<1>3. ASSUME NEW a \in abandoned, LateStore(a)
      PROVE  Contract!Next \/ UNCHANGED CVars
  <2>1. a[1] \in SUBSET Calls /\ \A c \in a[1] : stage[c] # "none"
    BY DEF Inv, TypeOK, OutcomeMatchesStage
  <2> QED
    BY <1>3, <2>1, ContractStore DEF LateStore, callVars
<1>4. CASE DelayElapses \/ StopReturns \/ CloseClient \/ CallerCloses \/ UNCHANGED vars
  BY <1>4, ContractStutter
  DEF DelayElapses, StopReturns, CloseClient, CallerCloses, Stop, vars, callVars, clientVars
<1> QED
  BY <1>1, <1>2, <1>3, <1>4 DEF Next, ClientStep, Terminated

(* Publish keeps its promise: every behaviour of the publisher is one of
   the contract. *)
THEOREM PublisherImplementsContract == Spec => ImplementsContract
<1>1. Init => Contract!Init
  BY DEF Init, Contract!Init, callState
<1>2. Inv /\ [Next]_vars => [Contract!Next]_CVars
  BY ContractStep
<1> QED
  BY <1>1, <1>2, Safety, PTL DEF Spec, ImplementsContract, Contract!Spec, CVars

-----------------------------------------------------------------------------
(* The metrics count the calls at certain points.                          *)

LEMMA OneMore ==
  ASSUME NEW S, NEW T, NEW x, IsFiniteSet(S), x \notin S, T = S \cup {x}
  PROVE  IsFiniteSet(T) /\ Cardinality(T) = Cardinality(S) + 1
BY FS_AddElement

LEMMA OneLess ==
  ASSUME NEW S, NEW T, NEW x, IsFiniteSet(S), x \in S, T = S \ {x}
  PROVE  IsFiniteSet(T) /\ Cardinality(T) = Cardinality(S) - 1
BY FS_RemoveElement

AtPoint(S)  == {c \in Calls : pc[c] \in S}
Tallied(s)  == {c \in AtPoint({"return", "returned"}) : status(c) = s}
Inside      == AtPoint(PCs \ {"idle", "returned"})
Handed      == AtPoint(PCs \ {"idle", "enqueue"})
Answered    == AtPoint({"count", "return", "returned"})

LEMMA MetricsSpelt ==
  MetricsAgree <=>
    /\ inflight = Cardinality(Inside)
    /\ publishTotal = [s \in {"success", "error"} |-> Cardinality(Tallied(s))]
    /\ callDurations = Cardinality(Handed)
    /\ resultDurations = Cardinality(Answered)
BY DEF MetricsAgree, Inside, Tallied, Handed, Answered, AtPoint

LEMMA PointsFinite ==
  /\ IsFiniteSet(Inside) /\ IsFiniteSet(Handed) /\ IsFiniteSet(Answered)
  /\ \A s \in {"success", "error"} : IsFiniteSet(Tallied(s))
<1>1. \A S \in SUBSET Calls : IsFiniteSet(S)
  BY PublisherAssumption, FS_Subset
<1> QED
  BY <1>1 DEF Inside, Tallied, Handed, Answered, AtPoint

LEMMA MetricsInit == Init => MetricsAgree
<1> SUFFICES ASSUME Init PROVE MetricsAgree
  OBVIOUS
<1>1. Inside = {} /\ Handed = {} /\ Answered = {} /\ \A s : Tallied(s) = {}
  BY DEF Init, Inside, Tallied, Handed, Answered, AtPoint
<1>2. /\ inflight = 0 /\ callDurations = 0 /\ resultDurations = 0
      /\ publishTotal = [s \in {"success", "error"} |-> 0]
  BY DEF Init
<1> QED
  BY <1>1, <1>2, FS_EmptySet, MetricsSpelt

(* The points a call has left or reached decide which counts change. *)
LEMMA MetricsCall ==
  ASSUME TypeOK, MetricsAgree, OutcomeMatchesStage,
         NEW c \in Calls, Enter(c) \/ CallStep(c)
  PROVE  MetricsAgree'
<1>0. /\ inflight = Cardinality(Inside)
      /\ publishTotal = [s \in {"success", "error"} |-> Cardinality(Tallied(s))]
      /\ callDurations = Cardinality(Handed)
      /\ resultDurations = Cardinality(Answered)
  BY MetricsSpelt
<1> SUFFICES
      /\ inflight' = Cardinality(Inside')
      /\ publishTotal' = [s \in {"success", "error"} |-> Cardinality(Tallied(s)')]
      /\ callDurations' = Cardinality(Handed')
      /\ resultDurations' = Cardinality(Answered')
  BY DEF MetricsAgree, Inside, Tallied, Handed, Answered, AtPoint
<1>7. ASSUME UNCHANGED publishTotal, \A s \in {"success", "error"} : Tallied(s)' = Tallied(s)
      PROVE  publishTotal' = [s \in {"success", "error"} |-> Cardinality(Tallied(s)')]
  BY <1>0, <1>7
<1>8. ASSUME NEW r \in {"success", "error"},
             Cardinality(Tallied(r)') = publishTotal[r] + 1,
             \A s \in {"success", "error"} : s # r => Tallied(s)' = Tallied(s),
             publishTotal' = [publishTotal EXCEPT ![r] = @ + 1]
      PROVE  publishTotal' = [s \in {"success", "error"} |-> Cardinality(Tallied(s)')]
  BY <1>0, <1>8
<1> USE PointsFinite DEF TypeOK, Inside, Tallied, Handed, Answered, AtPoint, PCs
<1>1. CASE Enter(c)
  <2>1. Inside' = Inside \cup {c} /\ c \notin Inside
    BY <1>1 DEF Enter
  <2>2. UNCHANGED <<Handed, Answered>> /\ \A s \in {"success", "error"} : Tallied(s)' = Tallied(s)
    BY <1>1 DEF Enter, status
  <2>3. inflight' = Cardinality(Inside')
    BY <1>0, <1>1, <2>1, OneMore DEF Enter
  <2>4. publishTotal' = [s \in {"success", "error"} |-> Cardinality(Tallied(s)')]
    BY <1>1, <1>7, <2>2 DEF Enter
  <2> QED
    BY <1>0, <1>1, <2>2, <2>3, <2>4 DEF Enter
<1>2. CASE Enqueue(c)
  <2>1. Handed' = Handed \cup {c} /\ c \notin Handed
    BY <1>2 DEF Enqueue
  <2>2. UNCHANGED <<Inside, Answered>> /\ \A s \in {"success", "error"} : Tallied(s)' = Tallied(s)
    BY <1>2 DEF Enqueue, status
  <2>3. callDurations' = Cardinality(Handed')
    BY <1>0, <1>2, <2>1, OneMore DEF Enqueue
  <2>4. publishTotal' = [s \in {"success", "error"} |-> Cardinality(Tallied(s)')]
    BY <1>2, <1>7, <2>2 DEF Enqueue
  <2> QED
    BY <1>0, <1>2, <2>2, <2>3, <2>4 DEF Enqueue
<1>3. CASE Expire(c)
  <2>1. UNCHANGED <<pc, outcome, inflight, publishTotal, callDurations, resultDurations>>
    BY <1>3 DEF Expire, metricVars
  <2>2. \A s \in {"success", "error"} : Tallied(s)' = Tallied(s)
    BY <2>1 DEF status
  <2>3. publishTotal' = [s \in {"success", "error"} |-> Cardinality(Tallied(s)')]
    BY <1>7, <2>1, <2>2
  <2> QED
    BY <1>0, <2>1, <2>3
<1>4. CASE Get(c)
  <2>1. Answered' = Answered \cup {c} /\ c \notin Answered
    BY <1>4 DEF Get
  <2>2. UNCHANGED <<Inside, Handed>> /\ \A s \in {"success", "error"} : Tallied(s)' = Tallied(s)
    BY <1>4 DEF Get, status
  <2>3. resultDurations' = Cardinality(Answered')
    BY <1>0, <1>4, <2>1, OneMore DEF Get
  <2>4. publishTotal' = [s \in {"success", "error"} |-> Cardinality(Tallied(s)')]
    BY <1>4, <1>7, <2>2 DEF Get
  <2> QED
    BY <1>0, <1>4, <2>2, <2>3, <2>4 DEF Get
<1>5. CASE Count(c)
  <2>1. UNCHANGED <<Inside, Handed, Answered>>
    BY <1>5 DEF Count
  <2>2. PICK r \in {"success", "error"} : r = status(c)
    BY DEF status
  <2>3. Tallied(r)' = Tallied(r) \cup {c} /\ c \notin Tallied(r)
    BY <1>5, <2>2 DEF Count, status
  <2>4. \A s \in {"success", "error"} : s # r => Tallied(s)' = Tallied(s)
    BY <1>5, <2>2 DEF Count, status
  <2>5. Cardinality(Tallied(r)') = publishTotal[r] + 1
    BY <1>0, <2>3, OneMore
  <2>6. publishTotal' = [publishTotal EXCEPT ![r] = @ + 1]
    BY <1>5, <2>2 DEF Count
  <2>7. publishTotal' = [s \in {"success", "error"} |-> Cardinality(Tallied(s)')]
    BY <1>8, <2>4, <2>5, <2>6
  <2> QED
    BY <1>0, <1>5, <2>1, <2>7 DEF Count
<1>6. CASE Return(c)
  <2>1. Inside' = Inside \ {c} /\ c \in Inside
    BY <1>6 DEF Return
  <2>2. UNCHANGED <<Handed, Answered>> /\ \A s \in {"success", "error"} : Tallied(s)' = Tallied(s)
    BY <1>6 DEF Return, status
  <2>3. inflight' = Cardinality(Inside')
    BY <1>0, <1>6, <2>1, OneLess DEF Return, Dec
  <2>4. publishTotal' = [s \in {"success", "error"} |-> Cardinality(Tallied(s)')]
    BY <1>6, <1>7, <2>2 DEF Return
  <2> QED
    BY <1>0, <1>6, <2>2, <2>3, <2>4 DEF Return
<1> QED
  BY <1>1, <1>2, <1>3, <1>4, <1>5, <1>6 DEF CallStep

LEMMA MetricsStep == Inv /\ MetricsAgree /\ [Next]_vars => MetricsAgree'
<1> SUFFICES ASSUME Inv, MetricsAgree, [Next]_vars PROVE MetricsAgree'
  OBVIOUS
<1>1. ASSUME NEW c \in Calls, CallerEnters(c) \/ CallStep(c) PROVE MetricsAgree'
  BY <1>1, MetricsCall DEF CallerEnters, Inv
<1>2. ASSUME UNCHANGED <<pc, outcome, inflight, publishTotal, callDurations,
                         resultDurations>>
      PROVE  MetricsAgree'
  BY <1>2 DEF MetricsAgree, status
<1>3. ASSUME NEW b \in sending, BatchStep(b) PROVE MetricsAgree'
  BY <1>2, <1>3 DEF BatchStep, Attempt, Store, Ack, BatchTimeout, Retry, Reject,
                    Resolve, callVars, metricVars
<1>4. ASSUME NEW a \in abandoned, LateStore(a) PROVE MetricsAgree'
  BY <1>2, <1>4 DEF LateStore, callVars, metricVars
<1>5. CASE DelayElapses \/ StopReturns \/ CloseClient \/ CallerCloses \/ UNCHANGED vars
  BY <1>2, <1>5 DEF DelayElapses, StopReturns, CloseClient, CallerCloses, Stop,
                    vars, callVars, metricVars
<1> QED
  BY <1>1, <1>3, <1>4, <1>5 DEF Next, ClientStep, Terminated

(* A scrape at any moment finds the gauge, the counters and the histograms
   in agreement with the calls. *)
THEOREM MetricsAlwaysAgree == Spec => []MetricsAgree
BY MetricsInit, MetricsStep, Safety, PTL DEF Spec
================================================================================
