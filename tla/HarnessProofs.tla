--------------------------- MODULE HarnessProofs ---------------------------
(***************************************************************************)
(* Proofs about Harness for every rate, duration and length of run: type   *)
(* correctness and the safety properties of the shutdown.  The first part  *)
(* is what the instance P of Publisher keeps under a caller that does not  *)
(* honour the contract; the theorems of PublisherProofs assume one that    *)
(* does.                                                                   *)
(***************************************************************************)
EXTENDS Harness, FiniteSetTheorems, TLAPS

LEMMA EventsFinite ==
  IsFiniteSet(Events) /\ \A S \in SUBSET Events : IsFiniteSet(S)
<1>1. Rate * MaxTime \in Int
  BY HarnessAssumption
<1>2. IsFiniteSet(Events)
  BY <1>1, FS_Interval DEF Events
<1> QED
  BY <1>2, FS_Subset

LEMMA OneMore ==
  ASSUME NEW S, NEW T, NEW x, IsFiniteSet(S), x \notin S, T = S \cup {x}
  PROVE  IsFiniteSet(T) /\ Cardinality(T) = Cardinality(S) + 1
BY FS_AddElement

LEMMA OneLess ==
  ASSUME NEW S, NEW T, NEW x, IsFiniteSet(S), x \in S, T = S \ {x}
  PROVE  IsFiniteSet(T) /\ Cardinality(T) = Cardinality(S) - 1
BY FS_RemoveElement

-----------------------------------------------------------------------------
(* The publisher's half.                                                   *)

(* What a step of Harness may do to the variables of Publisher. *)
PubStep ==
  \/ \E e \in Events : P!Enter(e) \/ P!CallStep(e)
  \/ P!DelayElapses
  \/ \E b \in sending : P!BatchStep(b)
  \/ \E a \in abandoned : P!LateStore(a)
  \/ P!Stop \/ P!StopReturns \/ P!CloseClient
  \/ UNCHANGED publisherVars

LEMMA IsPubStep == [Next]_vars => PubStep
<1> SUFFICES ASSUME [Next]_vars PROVE PubStep
  OBVIOUS
<1>1. ASSUME NEW e \in Events, WorkerStep(e) \/ Timers(e) PROVE PubStep
  BY <1>1 DEF WorkerStep, Build, Publishing, Tally, Done, Timers, PubStep, P!CallStep
<1>2. CASE MainStep
  BY <1>2 DEF MainStep, TickCase, Spawn, CatchUpEnds, DoneCase, DrainEnds,
              DrainTimesOut, Close, Exit, PubStep
<1>3. CASE Background
  BY <1>3 DEF Background, PubStep
<1>4. CASE \/ TimePasses \/ SignalArrives \/ SignalHandled \/ ScrapeEnds
           \/ WaitReturns \/ Heartbeat \/ UNCHANGED vars
  BY <1>4 DEF TimePasses, SignalArrives, SignalHandled, ScrapeEnds, WaitReturns,
              Heartbeat, HeartbeatLoads, HeartbeatLogs, HeartbeatStops,
              HeartbeatOnly, vars, PubStep
<1> QED
  BY <1>1, <1>2, <1>3, <1>4 DEF Next, Running, Terminated

LEMMA PubTypeInit == P!Init => P!TypeOK
<1> SUFFICES ASSUME P!Init PROVE P!TypeOK
  OBVIOUS
<1>1. panicked \in BOOLEAN
  BY Zenon DEF P!Init
<1>2. abandoned = {} /\ sending = {} /\ expired = {}
  BY Zenon DEF P!Init
<1> QED
  BY <1>1, <1>2, HarnessAssumption
  DEF P!Init, P!TypeOK, P!PCs, P!Stages, P!Clients

LEMMA PubTypeCall ==
  ASSUME P!TypeOK, NEW c \in Events, P!Enter(c) \/ P!CallStep(c)
  PROVE  P!TypeOK'
<1> USE DEF P!TypeOK
<1>1. CASE P!Enter(c)
  BY <1>1 DEF P!Enter, P!PCs, P!clientVars
<1>2. CASE P!Enqueue(c)
  <2>1. P!AddToBundle(c) =>
          stage' \in [Events -> P!Stages] /\ sending' \subseteq SUBSET Events
    BY DEF P!AddToBundle, P!Move, P!Flush, P!bundle, P!Stages
  <2>2. P!PublishAfterStop(c) =>
          stage' \in [Events -> P!Stages] /\ sending' \subseteq SUBSET Events
    BY DEF P!PublishAfterStop, P!Move, P!Stages
  <2>3. panicked' \in BOOLEAN
    BY <1>2, Zenon DEF P!Enqueue, P!AddToBundle, P!PublishAfterStop
  <2>4. /\ pc' \in [Events -> P!PCs] /\ callDurations' \in Nat
        /\ UNCHANGED <<outcome, expired, abandoned, attempts, copies, client,
                       inflight, publishTotal, resultDurations>>
    BY <1>2 DEF P!Enqueue, P!PCs
  <2> QED
    BY <1>2, <2>1, <2>2, <2>3, <2>4 DEF P!Enqueue
<1>3. CASE P!Expire(c)
  BY <1>3 DEF P!Expire, P!clientVars, P!metricVars
<1>4. CASE P!Get(c)
  BY <1>4 DEF P!Get, P!GetReturns, P!PCs, P!clientVars
<1>5. CASE P!Count(c)
  BY <1>5 DEF P!Count, P!status, P!PCs, P!clientVars
<1>6. CASE P!Return(c)
  BY <1>6 DEF P!Return, P!Dec, P!PCs, P!clientVars
<1> QED
  BY <1>1, <1>2, <1>3, <1>4, <1>5, <1>6 DEF P!CallStep

LEMMA PubTypeBatch ==
  ASSUME P!TypeOK, NEW b \in sending, P!BatchStep(b)
  PROVE  P!TypeOK'
<1> USE HarnessAssumption DEF P!TypeOK, P!callVars, P!metricVars
<1>0. b \subseteq Events
  OBVIOUS
<1>1. CASE P!Attempt(b)
  BY <1>0, <1>1 DEF P!Attempt, P!Move, P!Stages
<1>2. CASE P!Store(b)
  BY <1>0, <1>2 DEF P!Store, P!Move, P!Stages
<1>3. P!Abandon(b) => abandoned' \subseteq (SUBSET Events) \X (0 .. MaxAttempts)
  BY <1>0 DEF P!Abandon
<1>4. ASSUME NEW s \in P!Stages, P!Resolve(b, s)
      PROVE  /\ stage' \in [Events -> P!Stages] /\ sending' \subseteq SUBSET Events
             /\ UNCHANGED <<P!callVars, attempts, copies, client, panicked, P!metricVars>>
  BY <1>4 DEF P!Resolve, P!Move
<1>5. CASE P!Ack(b)
  BY <1>4, <1>5 DEF P!Ack, P!Stages
<1>6. CASE P!BatchTimeout(b)
  BY <1>3, <1>4, <1>6 DEF P!BatchTimeout, P!Stages
<1>7. CASE \E code \in P!retryableCodes : P!Retry(b, code)
  BY <1>3, <1>7 DEF P!Retry, P!Move, P!Stages
<1>8. CASE \E code \in P!finalCodes : P!Reject(b, code)
  BY <1>4, <1>8 DEF P!Reject, P!Stages
<1> QED
  BY <1>1, <1>2, <1>5, <1>6, <1>7, <1>8 DEF P!BatchStep

LEMMA PubTypeStep == P!TypeOK /\ PubStep => P!TypeOK'
<1> SUFFICES ASSUME P!TypeOK, PubStep PROVE P!TypeOK'
  OBVIOUS
<1>1. CASE P!DelayElapses
  BY <1>1 DEF P!TypeOK, P!DelayElapses, P!Flush, P!Move, P!bundle, P!Stages,
              P!callVars, P!metricVars
<1>2. ASSUME NEW a \in abandoned, P!LateStore(a) PROVE P!TypeOK'
  BY <1>2 DEF P!TypeOK, P!LateStore, P!callVars, P!metricVars
<1>3. CASE P!StopReturns \/ P!CloseClient
  BY <1>3 DEF P!TypeOK, P!StopReturns, P!CloseClient, P!Clients, P!callVars, P!metricVars
<1>4. CASE P!Stop
  BY <1>4 DEF P!TypeOK, P!Stop, P!Flush, P!Move, P!bundle, P!Stages, P!Clients,
              P!callVars, P!metricVars
<1>5. CASE UNCHANGED publisherVars
  BY <1>5 DEF P!TypeOK, publisherVars
<1> QED
  BY <1>1, <1>2, <1>3, <1>4, <1>5, PubTypeCall, PubTypeBatch DEF PubStep

(* What the client knows of a message, and what Close leaves behind, whoever
   calls it and when. *)
Delivered ==
  \A e \in Events : stage[e] \in {"stored", "acked"} \/ outcome[e] = "ok" => copies[e] > 0

Decided == \A e \in Events : outcome[e] = "none" <=> pc[e] \in {"idle", "enqueue", "get"}

OnTheWire == \A e \in Events : stage[e] \in P!InBatch => \E b \in sending : e \in b

Emptied == /\ client # "open" => P!bundle = {}
           /\ client \in {"stopped", "closed"} => sending = {}

LEMMA DeliveredStep == P!TypeOK /\ Delivered /\ PubStep => Delivered'
<1> SUFFICES ASSUME P!TypeOK, Delivered, PubStep PROVE Delivered'
  OBVIOUS
<1> USE DEF P!TypeOK
<1>1. ASSUME UNCHANGED <<outcome, copies>>,
             \A e \in Events : stage'[e] \in {"stored", "acked"} =>
                                 stage[e] \in {"stored", "acked"} \/ copies[e] > 0
      PROVE  Delivered'
  BY <1>1 DEF Delivered
<1>2. ASSUME NEW e \in Events, P!Enter(e) \/ P!CallStep(e) PROVE Delivered'
  <2>1. CASE P!Get(e)
    BY <2>1 DEF P!Get, P!GetReturns, P!clientVars, Delivered
  <2>2. CASE P!Enqueue(e)
    BY <1>1, <2>2
    DEF P!Enqueue, P!AddToBundle, P!PublishAfterStop, P!Flush, P!Move, Delivered
  <2>3. CASE P!Enter(e) \/ P!Expire(e) \/ P!Count(e) \/ P!Return(e)
    BY <2>3 DEF P!Enter, P!Expire, P!Count, P!Return, P!clientVars, Delivered
  <2> QED
    BY <1>2, <2>1, <2>2, <2>3 DEF P!CallStep
<1>3. ASSUME NEW b \in sending, P!BatchStep(b) PROVE Delivered'
  <2>1. CASE P!Store(b)
    <3>1. \A e \in Events : copies'[e] = copies[e] + IF e \in b THEN 1 ELSE 0
      BY <2>1 DEF P!Store
    <3> QED
      BY <2>1, <3>1 DEF P!Store, P!Move, P!callVars, Delivered
  <2>2. CASE P!Ack(b)
    BY <1>1, <2>2 DEF P!Ack, P!Resolve, P!Move, P!callVars, Delivered
  <2>3. CASE \/ P!Attempt(b) \/ P!BatchTimeout(b)
             \/ \E code \in P!retryableCodes : P!Retry(b, code)
             \/ \E code \in P!finalCodes : P!Reject(b, code)
    <3>1. UNCHANGED <<outcome, copies>>
      BY <2>3 DEF P!Attempt, P!BatchTimeout, P!Retry, P!Reject, P!Resolve, P!callVars
    <3>2. \A e \in Events : stage'[e] \in {"stored", "acked"} => stage[e] = stage'[e]
      BY <2>3 DEF P!Attempt, P!BatchTimeout, P!Retry, P!Reject, P!Resolve, P!Move
    <3> QED
      BY <3>1, <3>2 DEF Delivered
  <2> QED
    BY <1>3, <2>1, <2>2, <2>3 DEF P!BatchStep
<1>4. ASSUME NEW a \in abandoned, P!LateStore(a) PROVE Delivered'
  <2>1. \A e \in Events : copies'[e] = copies[e] + IF e \in a[1] THEN 1 ELSE 0
    BY <1>4 DEF P!LateStore
  <2> QED
    BY <1>4, <2>1 DEF P!LateStore, P!callVars, Delivered
<1>5. CASE P!DelayElapses \/ P!Stop
  <2>1. UNCHANGED <<outcome, copies>>
    BY <1>5 DEF P!DelayElapses, P!Stop, P!callVars
  <2>2. \A e \in Events : stage'[e] \in {"stored", "acked"} => stage[e] = stage'[e]
    BY <1>5 DEF P!DelayElapses, P!Stop, P!Flush, P!Move
  <2> QED
    BY <2>1, <2>2 DEF Delivered
<1>6. CASE P!StopReturns \/ P!CloseClient \/ UNCHANGED publisherVars
  BY <1>6 DEF P!StopReturns, P!CloseClient, publisherVars, P!callVars, Delivered
<1> QED
  BY <1>2, <1>3, <1>4, <1>5, <1>6 DEF PubStep

(* Only the steps of a call move its control point, and only Get decides. *)
LEMMA OnlyCallsMove ==
  PubStep => (\E e \in Events : P!Enter(e) \/ P!CallStep(e))
             \/ UNCHANGED <<pc, outcome, inflight, publishTotal>>
BY DEF PubStep, P!DelayElapses, P!BatchStep, P!Attempt, P!Store, P!Ack,
       P!BatchTimeout, P!Retry, P!Reject, P!Resolve, P!LateStore, P!Stop,
       P!StopReturns, P!CloseClient, P!callVars, P!metricVars, publisherVars

LEMMA DecidedStep == P!TypeOK /\ Decided /\ PubStep => Decided'
<1> SUFFICES ASSUME P!TypeOK, Decided, PubStep PROVE Decided'
  OBVIOUS
<1>1. ASSUME NEW e \in Events, P!Enter(e) \/ P!CallStep(e) PROVE Decided'
  <2> USE DEF P!TypeOK, Decided
  <2>1. CASE P!Get(e)
    BY <2>1 DEF P!Get, P!GetReturns
  <2>2. CASE P!Enter(e) \/ P!Enqueue(e) \/ P!Expire(e) \/ P!Count(e) \/ P!Return(e)
    BY <2>2 DEF P!Enter, P!Enqueue, P!Expire, P!Count, P!Return
  <2> QED
    BY <1>1, <2>1, <2>2 DEF P!CallStep
<1> QED
  BY <1>1, OnlyCallsMove DEF Decided

LEMMA WireStep == P!TypeOK /\ OnTheWire /\ PubStep => OnTheWire'
<1> SUFFICES ASSUME P!TypeOK, OnTheWire, PubStep PROVE OnTheWire'
  OBVIOUS
<1>1. ASSUME NEW S \in SUBSET Events, P!Flush(S) PROVE OnTheWire'
  BY <1>1 DEF P!Flush, P!Move, OnTheWire
<1>2. ASSUME UNCHANGED sending,
             \A e \in Events : stage'[e] \in P!InBatch => \E b \in sending : e \in b
      PROVE  OnTheWire'
  BY <1>2 DEF OnTheWire
<1>3. ASSUME NEW e \in Events, P!Enter(e) \/ P!CallStep(e) PROVE OnTheWire'
  <2>1. CASE P!Enqueue(e)
    <3>1. P!bundle \cup {e} \in SUBSET Events
      BY DEF P!bundle
    <3>2. P!Flush(P!bundle \cup {e}) => OnTheWire'
      BY <1>1, <3>1
    <3>3. (P!Move({e}, "bundled") \/ P!Move({e}, "failed")) /\ UNCHANGED sending
            => OnTheWire'
      BY DEF P!Move, P!InBatch, OnTheWire
    <3>4. UNCHANGED <<stage, sending>> => OnTheWire'
      BY DEF OnTheWire
    <3> QED
      BY <2>1, <3>2, <3>3, <3>4 DEF P!Enqueue, P!AddToBundle, P!PublishAfterStop
  <2>2. CASE P!Enter(e) \/ P!Expire(e) \/ P!Get(e) \/ P!Count(e) \/ P!Return(e)
    BY <2>2 DEF P!Enter, P!Expire, P!Get, P!Count, P!Return, P!clientVars, OnTheWire
  <2> QED
    BY <1>3, <2>1, <2>2 DEF P!CallStep
<1>4. ASSUME NEW b \in sending, P!BatchStep(b) PROVE OnTheWire'
  <2>1. ASSUME NEW s \in {"acked", "failed"}, P!Resolve(b, s) PROVE OnTheWire'
    BY <2>1 DEF P!Resolve, P!Move, P!InBatch, OnTheWire
  <2>2. ASSUME NEW s, P!Move(b, s), UNCHANGED sending PROVE OnTheWire'
    BY <2>2 DEF P!Move, OnTheWire
  <2> QED
    BY <1>4, <2>1, <2>2
    DEF P!BatchStep, P!Attempt, P!Store, P!Ack, P!BatchTimeout, P!Retry, P!Reject
<1>5. CASE P!DelayElapses \/ P!Stop
  <2>1. P!bundle \in SUBSET Events
    BY DEF P!bundle
  <2>2. UNCHANGED <<stage, sending>> => OnTheWire'
    BY DEF OnTheWire
  <2> QED
    BY <1>1, <1>5, <2>1, <2>2 DEF P!DelayElapses, P!Stop
<1>6. CASE \/ P!StopReturns \/ P!CloseClient \/ UNCHANGED publisherVars
           \/ \E a \in abandoned : P!LateStore(a)
  BY <1>6 DEF P!StopReturns, P!CloseClient, P!LateStore, publisherVars, OnTheWire
<1> QED
  BY <1>3, <1>4, <1>5, <1>6 DEF PubStep

LEMMA EmptiedStep == P!TypeOK /\ Emptied /\ PubStep => Emptied'
<1> SUFFICES ASSUME P!TypeOK, Emptied, PubStep PROVE Emptied'
  OBVIOUS
<1>1. ASSUME NEW e \in Events, P!Enter(e) \/ P!CallStep(e) PROVE Emptied'
  <2>1. CASE P!Enqueue(e)
    <3>1. UNCHANGED client
      BY <2>1 DEF P!Enqueue
    <3>2. CASE client = "open"
      BY <3>1, <3>2 DEF Emptied
    <3>3. CASE client # "open"
      BY <2>1, <3>1, <3>3
      DEF P!Enqueue, P!AddToBundle, P!PublishAfterStop, P!Move, P!bundle, Emptied
    <3> QED
      BY <3>2, <3>3
  <2>2. CASE P!Enter(e) \/ P!Expire(e) \/ P!Get(e) \/ P!Count(e) \/ P!Return(e)
    BY <2>2 DEF P!Enter, P!Expire, P!Get, P!Count, P!Return, P!clientVars,
                P!bundle, Emptied
  <2> QED
    BY <1>1, <2>1, <2>2 DEF P!CallStep
<1>2. ASSUME NEW b \in sending, P!BatchStep(b) PROVE Emptied'
  <2>1. UNCHANGED client /\ (sending = {} => sending' = {})
    BY <1>2 DEF P!BatchStep, P!Attempt, P!Store, P!Ack, P!BatchTimeout, P!Retry,
                P!Reject, P!Resolve
  <2>2. \A e \in Events : stage'[e] = "bundled" => stage[e] = "bundled"
    BY <1>2 DEF P!BatchStep, P!Attempt, P!Store, P!Ack, P!BatchTimeout, P!Retry,
                P!Reject, P!Resolve, P!Move
  <2> QED
    BY <2>1, <2>2 DEF P!bundle, Emptied
<1>3. CASE P!DelayElapses
  BY <1>3 DEF P!DelayElapses, P!due, P!Flush, P!Move, P!bundle, Emptied
<1>4. CASE P!Stop
  <2>1. client' = "stopping" /\ (P!bundle = {} => UNCHANGED stage)
    BY <1>4 DEF P!Stop
  <2>2. P!bundle # {} => \A e \in Events : stage'[e] # "bundled"
    BY <1>4 DEF P!Stop, P!Flush, P!Move, P!bundle
  <2> QED
    BY <2>1, <2>2 DEF P!bundle, Emptied
<1>5. CASE P!StopReturns \/ P!CloseClient
  BY <1>5 DEF P!StopReturns, P!CloseClient, P!flushed, P!bundle, Emptied
<1>6. CASE UNCHANGED publisherVars \/ \E a \in abandoned : P!LateStore(a)
  BY <1>6 DEF P!LateStore, publisherVars, P!bundle, Emptied
<1> QED
  BY <1>1, <1>2, <1>3, <1>4, <1>5, <1>6 DEF PubStep

-----------------------------------------------------------------------------
(* The two metrics that the harness counters are compared with.            *)

Inside    == {e \in Events : pc[e] \notin {"idle", "returned"}}
Succeeded == {e \in Events : pc[e] \in {"return", "returned"} /\ outcome[e] = "ok"}

Metrics == /\ inflight = Cardinality(Inside)
           /\ publishTotal["success"] = Cardinality(Succeeded)

LEMMA MetricsStep == P!TypeOK /\ Metrics /\ Decided /\ PubStep => Metrics'
<1> SUFFICES ASSUME P!TypeOK, Metrics, Decided, PubStep PROVE Metrics'
  OBVIOUS
<1>0. IsFiniteSet(Inside) /\ IsFiniteSet(Succeeded)
  BY EventsFinite DEF Inside, Succeeded
<1>1. ASSUME UNCHANGED <<pc, outcome, inflight, publishTotal>> PROVE Metrics'
  BY <1>1 DEF Metrics, Inside, Succeeded
<1>2. ASSUME NEW e \in Events, P!Enter(e) \/ P!CallStep(e) PROVE Metrics'
  <2> USE DEF P!TypeOK
  <2>1. CASE P!Enter(e)
    <3>1. Inside' = Inside \cup {e} /\ e \notin Inside /\ Succeeded' = Succeeded
      BY <2>1 DEF P!Enter, Inside, Succeeded
    <3>2. Cardinality(Inside') = Cardinality(Inside) + 1
      BY <1>0, <3>1, OneMore
    <3> QED
      BY <2>1, <3>1, <3>2 DEF P!Enter, Metrics
  <2>2. CASE P!Return(e)
    <3>1. Inside' = Inside \ {e} /\ e \in Inside /\ Succeeded' = Succeeded
      BY <2>2 DEF P!Return, Inside, Succeeded
    <3>2. Cardinality(Inside') = Cardinality(Inside) - 1
      BY <1>0, <3>1, OneLess
    <3> QED
      BY <2>2, <3>1, <3>2 DEF P!Return, P!Dec, Metrics
  <2>3. CASE P!Count(e)
    <3>1. Inside' = Inside /\ inflight' = inflight
      BY <2>3 DEF P!Count, Inside
    <3>2. CASE outcome[e] = "ok"
      <4>1. Succeeded' = Succeeded \cup {e} /\ e \notin Succeeded
        BY <2>3, <3>2 DEF P!Count, Succeeded
      <4>2. Cardinality(Succeeded') = Cardinality(Succeeded) + 1
        BY <1>0, <4>1, OneMore
      <4>3. publishTotal'["success"] = publishTotal["success"] + 1
        BY <2>3, <3>2 DEF P!Count, P!status
      <4> QED
        BY <3>1, <4>2, <4>3 DEF Metrics
    <3>3. CASE outcome[e] # "ok"
      <4>1. Succeeded' = Succeeded
        BY <2>3, <3>3 DEF P!Count, Succeeded
      <4>2. publishTotal'["success"] = publishTotal["success"]
        BY <2>3, <3>3 DEF P!Count, P!status
      <4> QED
        BY <3>1, <4>1, <4>2 DEF Metrics
    <3> QED
      BY <3>2, <3>3
  <2>4. CASE P!Enqueue(e) \/ P!Get(e)
    <3>1. Inside' = Inside
      BY <2>4 DEF P!Enqueue, P!Get, Inside
    <3>2. Succeeded' = Succeeded
      BY <2>4 DEF P!Enqueue, P!Get, Succeeded, Decided
    <3> QED
      BY <2>4, <3>1, <3>2 DEF P!Enqueue, P!Get, Metrics
  <2>5. CASE P!Expire(e)
    BY <1>1, <2>5 DEF P!Expire, P!metricVars
  <2> QED
    BY <1>2, <2>1, <2>2, <2>3, <2>4, <2>5 DEF P!CallStep
<1> QED
  BY <1>1, <1>2, OnlyCallsMove

PubInv == P!TypeOK /\ Delivered /\ Decided /\ OnTheWire /\ Emptied /\ Metrics

LEMMA PubInvInit == P!Init => PubInv
<1> SUFFICES ASSUME P!Init PROVE PubInv
  OBVIOUS
<1>1. sending = {} /\ Inside = {} /\ Succeeded = {}
  BY Zenon DEF P!Init, Inside, Succeeded
<1>2. /\ \A e \in Events : outcome[e] = "none" /\ pc[e] = "idle" /\ stage[e] = "none"
      /\ client = "open" /\ inflight = 0 /\ publishTotal["success"] = 0
  BY DEF P!Init
<1> QED
  BY <1>1, <1>2, PubTypeInit, FS_EmptySet
  DEF PubInv, Delivered, Decided, OnTheWire, Emptied, Metrics, P!InBatch

LEMMA PubInvStep == PubInv /\ PubStep => PubInv'
BY PubTypeStep, DeliveredStep, DecidedStep, WireStep, EmptiedStep, MetricsStep DEF PubInv

-----------------------------------------------------------------------------
(* The harness's half.                                                     *)

LEMMA Due ==
  ASSUME NEW m \in Nat, NEW n \in Nat, m <= n
  PROVE  Rate * m \in Nat /\ Rate * n \in Nat /\ Rate * m <= Rate * n
<1>1. Rate \in Nat
  BY HarnessAssumption
<1>2. PICK k \in Nat : n = m + k
  <2>1. n - m \in Nat /\ n = m + (n - m)
    OBVIOUS
  <2> QED
    BY <2>1
<1>3. Rate * n = Rate * m + Rate * k /\ Rate * k \in Nat /\ Rate * m \in Nat
  BY <1>1, <1>2
<1> QED
  BY <1>1, <1>2, <1>3

Loop ==
  /\ duration \in Durations /\ now \in 0 .. MaxTime
  /\ tick \in BOOLEAN /\ main \in Mains
  /\ expected \in 0 .. Rate * MaxTime /\ eventCount \in 0 .. Rate * MaxTime
  /\ worker \in [Events -> Workers]
  /\ expected <= Rate * now

Shutdown ==
  /\ signalled \in {"none", "pending", "taken"} /\ ctxDone \in BOOLEAN
  /\ drained \in {"none", "open", "closed"} /\ timedOut \in BOOLEAN
  /\ scraping \in BOOLEAN

(* Where main is tells how far the drain and Close have come. *)
Order ==
  /\ drained = "none" <=> main \in {"select", "catchup"}
  /\ client # "open" => main \in {"close", "metrics", "exited"}
  /\ main \in {"metrics", "exited"} => client = "closed"
  /\ main \in {"close", "metrics", "exited"} /\ ~timedOut => drained = "closed"

(* Where a worker is tells how far its Publish has come. *)
Apart ==
  \A e \in Events :
    /\ worker[e] \in {"unborn", "build"} => pc[e] = "idle"
    /\ worker[e] = "publish" => pc[e] # "idle"
    /\ worker[e] \in {"exit", "gone"} => pc[e] \in {"idle", "returned"}

Live  == {e \in Events : worker[e] \in {"build", "publish", "exit"}}
Ended == {e \in Events : worker[e] \in {"exit", "gone"}}
Good  == {e \in Ended : outcome[e] = "ok"}
Bad   == {e \in Ended : outcome[e] # "ok"}

(* The wait group and the harness counters count workers. *)
Counters ==
  /\ wg = Cardinality(Live)
  /\ generatedCount = Cardinality(Good) /\ publishErrors = Cardinality(Bad)
  /\ heartbeat \in {"waiting", "loaded", "stopped"} /\ beat \in Nat
  /\ heartbeat = "loaded" => beat <= generatedCount

(* Once the drain has been reported, no worker is left. *)
NoneLive == drained = "closed" => Live = {}

NoPanic == ~timedOut => ~panicked

HInv == /\ PubInv /\ Loop /\ Shutdown /\ Order /\ Apart /\ Counters
        /\ Paced /\ NoneLive /\ NoPanic

LEMMA LoopStep == Loop /\ Paced /\ [Next]_vars => Loop' /\ Paced'
<1> SUFFICES ASSUME Loop, Paced, [Next]_vars PROVE Loop' /\ Paced'
  OBVIOUS
<1>0. /\ Rate \in Nat /\ MaxTime \in Nat /\ now \in Nat /\ eventCount \in Nat
      /\ expected \in Nat /\ Rate * now \in Nat /\ Rate * MaxTime \in Nat
      /\ Rate * now <= Rate * MaxTime
  BY HarnessAssumption, Due DEF Loop
<1> USE DEF Loop, Paced
<1>1. CASE TimePasses
  <2>1. now' \in 0 .. MaxTime /\ now' \in Nat /\ now <= now'
    BY <1>0, <1>1 DEF TimePasses
  <2>2. Rate * now <= Rate * now' /\ Rate * now' \in Nat
    BY <1>0, <2>1, Due
  <2>3. UNCHANGED <<duration, main, expected, eventCount, worker>> /\ tick' \in BOOLEAN
    BY <1>1, Zenon DEF TimePasses, workerVars
  <2>4. expected <= Rate * now' /\ eventCount <= Rate * now'
    BY <1>0, <2>2
  <2>5. \A e \in Events : worker'[e] = "unborn" <=> e > eventCount'
    BY <2>3
  <2> QED
    BY <2>1, <2>3, <2>4, <2>5
<1>2. CASE TickCase
  <2>1. /\ UNCHANGED <<duration, now, eventCount, worker>>
        /\ expected' = Rate * now /\ main' = "catchup" /\ tick' = FALSE
    BY <1>2 DEF TickCase, allDue, workerVars
  <2>2. expected' \in 0 .. Rate * MaxTime /\ expected' <= Rate * now'
    BY <1>0, <2>1
  <2>3. tick' \in BOOLEAN /\ main' \in Mains
    BY <2>1 DEF Mains
  <2> QED
    BY <2>1, <2>2, <2>3
<1>3. CASE Spawn
  <2>1. eventCount' = eventCount + 1 /\ eventCount < expected
    BY <1>3 DEF Spawn, behind
  <2>2. worker' = [worker EXCEPT ![eventCount + 1] = "build"]
        /\ UNCHANGED <<duration, main, now, tick, expected>>
    BY <1>3 DEF Spawn
  <2>3. eventCount' \in 0 .. Rate * MaxTime /\ eventCount' <= Rate * now
    BY <1>0, <2>1
  <2>4. worker' \in [Events -> Workers]
    BY <2>2 DEF Workers
  <2>5. \A e \in Events : worker'[e] = "unborn" <=> e > eventCount'
    BY <1>0, <2>1, <2>2 DEF Events
  <2> QED
    BY <2>2, <2>3, <2>4, <2>5
<1>4. ASSUME UNCHANGED <<duration, now, tick, expected, eventCount, worker>>,
             main' \in Mains
      PROVE  Loop' /\ Paced'
  BY <1>4
<1>5. ASSUME NEW e \in Events, WorkerStep(e) \/ Timers(e) PROVE Loop' /\ Paced'
  <2>1. UNCHANGED <<main, duration, now, tick, expected, eventCount>>
    BY <1>5 DEF WorkerStep, Build, Publishing, Tally, Done, Timers, loopVars
  <2>2. \/ UNCHANGED worker
        \/ worker[e] # "unborn" /\ \E s \in Workers \ {"unborn"} :
             worker' = [worker EXCEPT ![e] = s]
    BY <1>5 DEF WorkerStep, Build, Publishing, Tally, Done, Timers, workerVars, Workers
  <2> QED
    BY <2>1, <2>2
<1>6. CASE CatchUpEnds \/ DoneCase \/ DrainEnds \/ DrainTimesOut \/ Close \/ Exit
  BY <1>4, <1>6 DEF CatchUpEnds, DoneCase, DrainEnds, DrainTimesOut, Close, Exit,
                    loopVars, workerVars, Mains
<1>7. CASE \/ SignalArrives \/ SignalHandled \/ ScrapeEnds \/ WaitReturns
           \/ Heartbeat \/ Background \/ UNCHANGED vars
  BY <1>4, <1>7 DEF SignalArrives, SignalHandled, ScrapeEnds, WaitReturns, Heartbeat,
                    HeartbeatLoads, HeartbeatLogs, HeartbeatStops, HeartbeatOnly,
                    Background, loopVars, workerVars, vars
<1> QED
  BY <1>1, <1>2, <1>3, <1>5, <1>6, <1>7 DEF Next, Running, MainStep, Terminated

LEMMA ShutdownStep == Shutdown /\ [Next]_vars => Shutdown'
<1> SUFFICES ASSUME Shutdown, [Next]_vars PROVE Shutdown'
  OBVIOUS
<1>1. CASE UNCHANGED shutdownVars
  BY <1>1 DEF Shutdown, shutdownVars
<1>2. CASE SignalArrives \/ SignalHandled
  BY <1>2, Zenon DEF SignalArrives, SignalHandled, Shutdown
<1>3. CASE ScrapeEnds
  BY <1>3, Zenon DEF ScrapeEnds, Shutdown
<1>4. CASE CatchUpEnds
  <2>1. UNCHANGED <<signalled, timedOut, scraping>> /\ ctxDone' \in BOOLEAN
    BY <1>4, Zenon DEF CatchUpEnds, Shutdown
  <2>2. drained' \in {"none", "open", "closed"}
    BY <1>4 DEF CatchUpEnds, Shutdown
  <2> QED
    BY <2>1, <2>2 DEF Shutdown
<1>5. CASE DoneCase \/ WaitReturns
  BY <1>5 DEF DoneCase, WaitReturns, Shutdown
<1>6. CASE DrainTimesOut
  BY <1>6, Zenon DEF DrainTimesOut, Shutdown
<1>7. CASE Close
  <2>1. UNCHANGED <<signalled, ctxDone, drained, timedOut>>
    BY <1>7 DEF Close
  <2>2. scraping' \in BOOLEAN
    BY <1>7, Zenon DEF Close, Shutdown
  <2> QED
    BY <2>1, <2>2 DEF Shutdown
<1>8. \/ UNCHANGED shutdownVars
      \/ SignalArrives \/ SignalHandled \/ ScrapeEnds \/ CatchUpEnds \/ DoneCase
      \/ WaitReturns \/ DrainTimesOut \/ Close
  BY DEF Next, Running, MainStep, Terminated, TimePasses, TickCase, Spawn, DrainEnds,
         Exit, Heartbeat, HeartbeatLoads, HeartbeatLogs, HeartbeatStops,
         HeartbeatOnly, Background, WorkerStep, Build, Publishing, Tally, Done,
         Timers, vars
<1> QED
  BY <1>1, <1>2, <1>3, <1>4, <1>5, <1>6, <1>7, <1>8

-----------------------------------------------------------------------------
(* Steps by the part they touch.                                           *)

(* Everything but the workers' steps and Spawn. *)
Aside ==
  \/ TimePasses \/ SignalArrives \/ SignalHandled \/ ScrapeEnds
  \/ TickCase \/ CatchUpEnds \/ DoneCase
  \/ WaitReturns \/ DrainEnds \/ DrainTimesOut \/ Close \/ Exit
  \/ Heartbeat \/ Background \/ UNCHANGED vars

LEMMA Steps ==
  [Next]_vars => Aside \/ Spawn \/ \E e \in Events : WorkerStep(e) \/ Timers(e)
BY DEF Next, Running, MainStep, Terminated, Aside

LEMMA AsideLeaves ==
  Aside => UNCHANGED <<worker, wg, generatedCount, publishErrors, pc, outcome, panicked>>
<1>1. CASE Close
  BY <1>1 DEF Close, P!Stop, P!StopReturns, P!CloseClient, P!callVars, workerVars,
              publisherVars
<1>2. CASE Background
  BY <1>2 DEF Background, P!DelayElapses, P!BatchStep, P!Attempt, P!Store, P!Ack,
              P!BatchTimeout, P!Retry, P!Reject, P!Resolve, P!LateStore,
              P!callVars, workerVars
<1>3. CASE \/ TimePasses \/ SignalArrives \/ SignalHandled \/ ScrapeEnds
           \/ TickCase \/ CatchUpEnds \/ DoneCase
           \/ WaitReturns \/ DrainEnds \/ DrainTimesOut \/ Exit
           \/ Heartbeat \/ UNCHANGED vars
  BY <1>3 DEF TimePasses, SignalArrives, SignalHandled, ScrapeEnds, TickCase, CatchUpEnds,
              DoneCase, WaitReturns, DrainEnds, DrainTimesOut, Exit, Heartbeat,
              HeartbeatLoads, HeartbeatLogs, HeartbeatStops, HeartbeatOnly,
              workerVars, publisherVars, vars
<1> QED
  BY <1>1, <1>2, <1>3 DEF Aside

(* The steps of a worker leave main and the drain alone, and the client open
   or closed. *)
LEMMA WorkerLeaves ==
  ASSUME NEW e \in Events, WorkerStep(e) \/ Timers(e)
  PROVE  UNCHANGED <<main, drained, timedOut, client, eventCount, heartVars>>
BY DEF WorkerStep, Build, Publishing, Tally, Done, Timers, loopVars, workerVars,
       shutdownVars, publisherVars, P!Enter, P!Enqueue, P!Get, P!Count, P!Return,
       P!Expire, P!clientVars

LEMMA OrderStep == Order /\ Loop /\ [Next]_vars => Order'
<1> SUFFICES ASSUME Order, Loop, [Next]_vars PROVE Order'
  OBVIOUS
<1>1. ASSUME UNCHANGED <<main, drained, timedOut, client>> PROVE Order'
  BY <1>1 DEF Order
<1>2. ASSUME NEW e \in Events, WorkerStep(e) \/ Timers(e) PROVE Order'
  BY <1>1, <1>2, WorkerLeaves
<1>3. CASE \/ TimePasses \/ SignalArrives \/ SignalHandled \/ ScrapeEnds \/ Spawn
           \/ Heartbeat \/ UNCHANGED vars
  BY <1>1, <1>3
  DEF TimePasses, SignalArrives, SignalHandled, ScrapeEnds, Spawn, Heartbeat,
      HeartbeatLoads, HeartbeatLogs, HeartbeatStops, HeartbeatOnly,
      shutdownVars, publisherVars, vars
<1>4. CASE Background
  BY <1>1, <1>4
  DEF Background, P!DelayElapses, P!BatchStep, P!Attempt, P!Store, P!Ack,
      P!BatchTimeout, P!Retry, P!Reject, P!Resolve, P!LateStore, shutdownVars
<1>5. CASE TickCase \/ CatchUpEnds \/ DoneCase
  BY <1>5 DEF TickCase, CatchUpEnds, DoneCase, Order, shutdownVars, publisherVars
<1>6. CASE WaitReturns
  BY <1>6 DEF WaitReturns, Order, publisherVars
<1>7. CASE DrainEnds \/ DrainTimesOut
  BY <1>7 DEF DrainEnds, DrainTimesOut, drainDone, Order, Shutdown, shutdownVars,
              publisherVars
<1>8. CASE Close
  <2>1. CASE UNCHANGED main
    BY <1>8, <2>1 DEF Close, Order, shutdownVars
  <2>2. CASE client = "closed" /\ main' = "metrics" /\ UNCHANGED publisherVars
    BY <1>8, <2>2 DEF Close, Order, shutdownVars, publisherVars
  <2> QED
    BY <1>8, <2>1, <2>2 DEF Close
<1>9. CASE Exit
  BY <1>9 DEF Exit, Order, shutdownVars, publisherVars
<1> QED
  BY <1>2, <1>3, <1>4, <1>5, <1>6, <1>7, <1>8, <1>9, Steps DEF Aside

LEMMA ApartStep == PubInv /\ Loop /\ Paced /\ Apart /\ [Next]_vars => Apart'
<1> SUFFICES ASSUME PubInv, Loop, Paced, Apart, [Next]_vars PROVE Apart'
  OBVIOUS
<1> USE DEF PubInv, P!TypeOK, Loop, Workers
<1>1. CASE Aside
  BY <1>1, AsideLeaves DEF Apart
<1>2. CASE Spawn
  <2>1. worker' = [worker EXCEPT ![eventCount + 1] = "build"] /\ UNCHANGED pc
    BY <1>2 DEF Spawn, publisherVars
  <2>2. eventCount \in Nat
    BY HarnessAssumption
  <2>3. \A e \in Events : e = eventCount + 1 => worker[e] = "unborn"
    BY <2>2 DEF Paced, Events
  <2> QED
    BY <2>1, <2>3 DEF Apart
<1>3. ASSUME NEW e \in Events, WorkerStep(e) \/ Timers(e) PROVE Apart'
  <2>1. CASE Build(e)
    BY <2>1 DEF Build, P!Enter, publisherVars, Apart
  <2>2. CASE Publishing(e)
    <3>1. pc[e] \notin {"idle", "returned"} /\ UNCHANGED worker
      BY <2>2 DEF Publishing, workerVars, P!Enqueue, P!Get, P!Count, P!Return
    <3>2. \E p \in P!PCs \ {"idle"} : pc' = [pc EXCEPT ![e] = p]
      BY <2>2 DEF Publishing, P!Enqueue, P!Get, P!Count, P!Return, P!PCs
    <3> QED
      BY <3>1, <3>2 DEF Apart
  <2>3. CASE Tally(e) \/ Done(e)
    BY <2>3 DEF Tally, Done, publisherVars, Apart
  <2>4. CASE Timers(e)
    BY <2>4 DEF Timers, workerVars, P!Expire, Apart
  <2> QED
    BY <1>3, <2>1, <2>2, <2>3, <2>4 DEF WorkerStep
<1> QED
  BY <1>1, <1>2, <1>3, Steps

LEMMA NoneLiveStep ==
  Order /\ Loop /\ Counters /\ NoneLive /\ [Next]_vars => NoneLive'
<1> SUFFICES ASSUME Order, Loop, Counters, NoneLive, [Next]_vars PROVE NoneLive'
  OBVIOUS
<1>1. CASE Aside
  <2>1. Live' = Live
    BY <1>1, AsideLeaves DEF Live
  <2>2. drained' = "closed" => drained = "closed" \/ wg = 0
    BY <1>1 DEF Aside, TimePasses, SignalArrives, SignalHandled, ScrapeEnds, TickCase,
                CatchUpEnds, DoneCase, WaitReturns, DrainEnds, DrainTimesOut, Close,
                Exit, Heartbeat, HeartbeatLoads, HeartbeatLogs, HeartbeatStops,
                HeartbeatOnly, Background, shutdownVars, vars
  <2>3. wg = 0 => Live = {}
    <3>1. IsFiniteSet(Live)
      BY EventsFinite DEF Live
    <3> QED
      BY <3>1, FS_EmptySet, FS_RemoveElement, FS_Subset DEF Counters
  <2> QED
    BY <2>1, <2>2, <2>3 DEF NoneLive
<1>2. CASE Spawn
  BY <1>2 DEF Spawn, Order, NoneLive, shutdownVars
<1>3. ASSUME NEW e \in Events, WorkerStep(e) \/ Timers(e) PROVE NoneLive'
  <2>1. UNCHANGED drained
    BY <1>3, WorkerLeaves
  <2>2. Live' \subseteq Live
    BY <1>3 DEF WorkerStep, Build, Publishing, Tally, Done, Timers, workerVars, Live,
                Loop
  <2> QED
    BY <2>1, <2>2 DEF NoneLive
<1> QED
  BY <1>1, <1>2, <1>3, Steps

LEMMA NoPanicStep ==
  Order /\ Loop /\ Apart /\ NoneLive /\ NoPanic /\ [Next]_vars => NoPanic'
<1> SUFFICES ASSUME Order, Loop, Apart, NoneLive, NoPanic, [Next]_vars PROVE NoPanic'
  OBVIOUS
<1>1. CASE Aside
  <2>1. UNCHANGED panicked
    BY <1>1, AsideLeaves
  <2>2. timedOut => timedOut'
    BY <1>1 DEF Aside, TimePasses, SignalArrives, SignalHandled, ScrapeEnds, TickCase,
                CatchUpEnds, DoneCase, WaitReturns, DrainEnds, DrainTimesOut, Close,
                Exit, Heartbeat, HeartbeatLoads, HeartbeatLogs, HeartbeatStops,
                HeartbeatOnly, Background, shutdownVars, vars
  <2> QED
    BY <2>1, <2>2 DEF NoPanic
<1>2. CASE Spawn
  BY <1>2 DEF Spawn, shutdownVars, publisherVars, NoPanic
<1>3. ASSUME NEW e \in Events, WorkerStep(e) \/ Timers(e) PROVE NoPanic'
  <2>1. UNCHANGED timedOut
    BY <1>3, WorkerLeaves
  <2>2. CASE UNCHANGED panicked
    BY <2>1, <2>2 DEF NoPanic
  <2>3. CASE P!Enqueue(e)
    <3>1. worker[e] = "publish"
      BY <2>3 DEF P!Enqueue, Apart, Loop, Workers
    <3>2. drained # "closed"
      BY <3>1 DEF NoneLive, Live
    <3>3. ~timedOut => client = "open"
      BY <3>2 DEF Order
    <3>4. client = "open" => UNCHANGED panicked
      BY <2>3 DEF P!Enqueue, P!AddToBundle, P!PublishAfterStop
    <3> QED
      BY <2>1, <2>2, <3>3, <3>4 DEF NoPanic
  <2> QED
    BY <1>3, <2>2, <2>3
    DEF WorkerStep, Build, Publishing, Tally, Done, Timers, publisherVars,
        P!Enter, P!Get, P!Count, P!Return, P!Expire, P!clientVars
<1> QED
  BY <1>1, <1>2, <1>3, Steps

LEMMA SetsFinite ==
  IsFiniteSet(Live) /\ IsFiniteSet(Ended) /\ IsFiniteSet(Good) /\ IsFiniteSet(Bad)
BY EventsFinite DEF Live, Ended, Good, Bad

LEMMA CountersWorker ==
  ASSUME PubInv, Loop, Apart, Counters, NEW e \in Events, WorkerStep(e) \/ Timers(e)
  PROVE  Counters'
<1> USE DEF PubInv, P!TypeOK, Loop, Workers
<1>0. /\ wg = Cardinality(Live)
      /\ generatedCount = Cardinality(Good) /\ publishErrors = Cardinality(Bad)
      /\ heartbeat \in {"waiting", "loaded", "stopped"} /\ beat \in Nat
      /\ heartbeat = "loaded" => beat <= generatedCount
  BY DEF Counters
<1>1. UNCHANGED <<heartbeat, beat>>
  BY WorkerLeaves DEF heartVars
<1>2. /\ Cardinality(Live) \in Nat /\ Cardinality(Good) \in Nat
      /\ Cardinality(Bad) \in Nat
  BY SetsFinite, FS_CardinalityType
<1>3. ASSUME wg' = Cardinality(Live'), generatedCount' = Cardinality(Good'),
             publishErrors' = Cardinality(Bad'), generatedCount' >= generatedCount,
             generatedCount' \in Nat
      PROVE  Counters'
  BY <1>0, <1>1, <1>2, <1>3 DEF Counters
<1>4. CASE Build(e)
  <2>1. worker[e] = "build" /\ UNCHANGED <<wg, generatedCount>>
    BY <1>4 DEF Build
  <2>2. outcome[e] = "none" /\ UNCHANGED outcome
    BY <1>4, <2>1 DEF Build, Apart, Decided, P!Enter, publisherVars
  <2>3. Live' = Live /\ Good' = Good
    BY <1>4, <2>1, <2>2 DEF Build, Live, Good, Ended
  <2>4. CASE worker' = [worker EXCEPT ![e] = "exit"] /\ publishErrors' = publishErrors + 1
    <3>1. Bad' = Bad \cup {e} /\ e \notin Bad
      BY <2>1, <2>2, <2>4 DEF Bad, Ended
    <3>2. Cardinality(Bad') = Cardinality(Bad) + 1
      BY <3>1, SetsFinite, OneMore
    <3> QED
      BY <1>0, <1>2, <1>3, <2>1, <2>3, <2>4, <3>2
  <2>5. CASE worker' = [worker EXCEPT ![e] = "publish"] /\ UNCHANGED publishErrors
    <3>1. Bad' = Bad
      BY <2>1, <2>2, <2>5 DEF Bad, Ended
    <3> QED
      BY <1>0, <1>2, <1>3, <2>1, <2>3, <2>5, <3>1
  <2> QED
    BY <1>4, <2>4, <2>5 DEF Build
<1>5. CASE Publishing(e) \/ Timers(e)
  <2>1. UNCHANGED <<worker, wg, generatedCount, publishErrors>>
    BY <1>5 DEF Publishing, Timers, workerVars
  <2>2. \A d \in Ended : outcome'[d] = outcome[d]
    BY <1>5 DEF Publishing, Timers, P!Enqueue, P!Get, P!Count, P!Return, P!Expire,
                Ended, Apart
  <2>3. Live' = Live /\ Ended' = Ended
    BY <2>1 DEF Live, Ended
  <2>4. Good' = Good /\ Bad' = Bad
    BY <2>2, <2>3 DEF Good, Bad
  <2> QED
    BY <1>0, <1>2, <1>3, <2>1, <2>3, <2>4
<1>6. CASE Tally(e)
  <2>1. /\ worker[e] = "publish" /\ worker' = [worker EXCEPT ![e] = "exit"]
        /\ UNCHANGED <<wg, outcome>>
    BY <1>6 DEF Tally, publisherVars
  <2>2. Live' = Live /\ Ended' = Ended \cup {e} /\ e \notin Ended
    BY <2>1 DEF Live, Ended
  <2>3. CASE outcome[e] = "ok"
    <3>1. Good' = Good \cup {e} /\ e \notin Good /\ Bad' = Bad
      BY <2>1, <2>2, <2>3 DEF Good, Bad
    <3>2. Cardinality(Good') = Cardinality(Good) + 1
      BY <3>1, SetsFinite, OneMore
    <3>3. generatedCount' = generatedCount + 1 /\ UNCHANGED publishErrors
      BY <1>6, <2>3 DEF Tally
    <3> QED
      BY <1>0, <1>2, <1>3, <2>1, <2>2, <3>1, <3>2, <3>3
  <2>4. CASE outcome[e] # "ok"
    <3>1. Bad' = Bad \cup {e} /\ e \notin Bad /\ Good' = Good
      BY <2>1, <2>2, <2>4 DEF Good, Bad
    <3>2. Cardinality(Bad') = Cardinality(Bad) + 1
      BY <3>1, SetsFinite, OneMore
    <3>3. publishErrors' = publishErrors + 1 /\ UNCHANGED generatedCount
      BY <1>6, <2>4 DEF Tally, missed
    <3> QED
      BY <1>0, <1>2, <1>3, <2>1, <2>2, <3>1, <3>2, <3>3
  <2> QED
    BY <2>3, <2>4
<1>7. CASE Done(e)
  <2>1. /\ worker[e] = "exit" /\ worker' = [worker EXCEPT ![e] = "gone"]
        /\ wg' = wg - 1 /\ UNCHANGED <<outcome, generatedCount, publishErrors>>
    BY <1>7 DEF Done, publisherVars
  <2>2. Live' = Live \ {e} /\ e \in Live /\ Ended' = Ended
    BY <2>1 DEF Live, Ended
  <2>3. Good' = Good /\ Bad' = Bad
    BY <2>1, <2>2 DEF Good, Bad
  <2>4. Cardinality(Live') = Cardinality(Live) - 1
    BY <2>2, SetsFinite, OneLess
  <2> QED
    BY <1>0, <1>2, <1>3, <2>1, <2>3, <2>4
<1> QED
  BY <1>4, <1>5, <1>6, <1>7 DEF WorkerStep

LEMMA CountersStep ==
  PubInv /\ Loop /\ Paced /\ Apart /\ Counters /\ [Next]_vars => Counters'
<1> SUFFICES ASSUME PubInv, Loop, Paced, Apart, Counters, [Next]_vars PROVE Counters'
  OBVIOUS
<1>1. CASE Aside
  <2>1. /\ Live' = Live /\ Good' = Good /\ Bad' = Bad
        /\ UNCHANGED <<wg, generatedCount, publishErrors>>
    BY <1>1, AsideLeaves DEF Live, Good, Bad, Ended
  <2>2. UNCHANGED <<heartbeat, beat>> \/ Heartbeat
    BY <1>1 DEF Aside, TimePasses, SignalArrives, SignalHandled, ScrapeEnds, TickCase,
                CatchUpEnds, DoneCase, WaitReturns, DrainEnds, DrainTimesOut, Close,
                Exit, Background, workerVars, heartVars, vars
  <2>3. Cardinality(Good) \in Nat
    BY SetsFinite, FS_CardinalityType
  <2>4. CASE UNCHANGED <<heartbeat, beat>>
    BY <2>1, <2>4 DEF Counters
  <2>5. CASE Heartbeat
    BY <2>1, <2>3, <2>5
    DEF Heartbeat, HeartbeatLoads, HeartbeatLogs, HeartbeatStops, Counters
  <2> QED
    BY <2>2, <2>4, <2>5
<1>2. CASE Spawn
  <2>1. /\ wg' = wg + 1 /\ worker' = [worker EXCEPT ![eventCount + 1] = "build"]
        /\ UNCHANGED <<outcome, generatedCount, publishErrors, heartbeat, beat>>
    BY <1>2 DEF Spawn, added, heartVars, publisherVars
  <2>2. eventCount + 1 \in Events /\ worker[eventCount + 1] = "unborn"
    <3>1. eventCount \in Nat /\ expected \in Nat /\ eventCount < expected
          /\ expected <= Rate * MaxTime /\ Rate * MaxTime \in Nat
      BY <1>2, HarnessAssumption DEF Spawn, behind, Loop
    <3> QED
      BY <3>1 DEF Paced, Events
  <2>3. Live' = Live \cup {eventCount + 1} /\ eventCount + 1 \notin Live
    BY <2>1, <2>2 DEF Live, Loop
  <2>4. Ended' = Ended
    BY <2>1, <2>2 DEF Ended, Loop
  <2>5. Good' = Good /\ Bad' = Bad
    BY <2>1, <2>4 DEF Good, Bad
  <2>6. Cardinality(Live') = Cardinality(Live) + 1
    BY <2>3, SetsFinite, OneMore
  <2> QED
    BY <2>1, <2>5, <2>6 DEF Counters
<1>3. ASSUME NEW e \in Events, WorkerStep(e) \/ Timers(e) PROVE Counters'
  BY <1>3, CountersWorker
<1> QED
  BY <1>1, <1>2, <1>3, Steps

-----------------------------------------------------------------------------
(* The inductive invariant and what follows from it.                       *)

LEMMA HInit == Init => HInv
<1> SUFFICES ASSUME Init PROVE HInv
  OBVIOUS
<1>1. PubInv
  BY PubInvInit DEF Init
<1>2. /\ signalled = "none" /\ ctxDone \in BOOLEAN /\ timedOut \in BOOLEAN
      /\ scraping \in BOOLEAN /\ tick \in BOOLEAN
      /\ drained = "none" /\ main = "select" /\ ~timedOut
  BY Zenon DEF Init
<1>3. /\ duration \in Durations /\ now = 0 /\ expected = 0 /\ eventCount = 0
      /\ wg = 0 /\ generatedCount = 0 /\ publishErrors = 0
      /\ heartbeat = "waiting" /\ beat = 0
      /\ \A e \in Events : worker[e] = "unborn"
      /\ worker \in [Events -> Workers]
  BY DEF Init, Workers
<1>4. /\ client = "open" /\ ~panicked /\ \A e \in Events : pc[e] = "idle"
  BY DEF Init, P!Init
<1>5. Loop /\ Paced
  <2>1. Rate * MaxTime \in Nat /\ Rate * 0 = 0 /\ MaxTime \in Nat
    BY HarnessAssumption
  <2> QED
    BY <1>2, <1>3, <2>1 DEF Loop, Paced, Mains, Events
<1>6. Live = {} /\ Good = {} /\ Bad = {}
  BY <1>3 DEF Live, Good, Bad, Ended
<1>7. Counters
  BY <1>3, <1>6, FS_EmptySet DEF Counters
<1> QED
  BY <1>1, <1>2, <1>3, <1>4, <1>5, <1>6, <1>7
  DEF HInv, Shutdown, Order, Apart, NoneLive, NoPanic

LEMMA HStep == HInv /\ [Next]_vars => HInv'
BY IsPubStep, PubInvStep, LoopStep, ShutdownStep, OrderStep, ApartStep,
   CountersStep, NoneLiveStep, NoPanicStep DEF HInv

(* The invariant from which the properties of the shutdown follow. *)
THEOREM Safety == Spec => []HInv
BY HInit, HStep, PTL DEF Spec

(* The workers that ended are counted once each. *)
LEMMA EndedSplit ==
  Cardinality(Good) + Cardinality(Bad) = Cardinality(Ended)
<1>1. Good \cup Bad = Ended /\ Good \cap Bad = {}
  BY DEF Good, Bad
<1>2. /\ Cardinality(Good) \in Nat /\ Cardinality(Bad) \in Nat
      /\ IsFiniteSet(Good) /\ IsFiniteSet(Bad)
  BY SetsFinite, FS_CardinalityType
<1> QED
  BY <1>1, <1>2, FS_Union, FS_EmptySet

LEMMA Spawned ==
  ASSUME HInv
  PROVE  /\ IsFiniteSet(spawned) /\ Cardinality(spawned) = eventCount
         /\ Ended \subseteq spawned /\ spawned \subseteq Events
<1>1. eventCount \in Nat /\ eventCount <= Rate * MaxTime /\ Rate * MaxTime \in Nat
  BY HarnessAssumption DEF HInv, Loop
<1>2. IsFiniteSet(spawned) /\ Cardinality(spawned) = eventCount
  BY <1>1, FS_Interval DEF spawned
<1>3. spawned \subseteq Events
  BY <1>1 DEF spawned, Events
<1>4. Ended \subseteq spawned
  BY <1>1 DEF HInv, Paced, Ended, spawned, Events
<1> QED
  BY <1>2, <1>3, <1>4

LEMMA TypesFollow == HInv => TypeOK
<1> SUFFICES ASSUME HInv PROVE TypeOK
  OBVIOUS
<1>1. wg \in Int /\ generatedCount \in Nat /\ publishErrors \in Nat
  BY SetsFinite, FS_CardinalityType DEF HInv, Counters
<1> QED
  BY <1>1 DEF HInv, PubInv, Loop, Shutdown, Counters, TypeOK

LEMMA QuietFollows == HInv => DrainedMeansQuiet
<1> SUFFICES ASSUME HInv, drained = "closed"
             PROVE  /\ \A e \in spawned : worker[e] = "gone"
                    /\ generatedCount + publishErrors = eventCount
                    /\ main \notin {"select", "catchup"}
  BY DEF DrainedMeansQuiet
<1>1. \A e \in spawned : e \in Events /\ worker[e] # "unborn" /\ worker[e] \in Workers
  <2>1. \A e \in spawned : e \in Events
    BY Spawned
  <2>2. eventCount \in Nat
    BY HarnessAssumption DEF HInv, Loop
  <2>3. \A e \in spawned : ~(e > eventCount)
    BY <2>2 DEF spawned
  <2> QED
    BY <2>1, <2>3 DEF HInv, Paced, Loop
<1>2. \A e \in spawned : worker[e] = "gone"
  BY <1>1 DEF HInv, NoneLive, Live, Workers
<1>3. Ended = spawned
  BY <1>1, <1>2, Spawned DEF Ended
<1>4. generatedCount + publishErrors = eventCount
  BY <1>3, EndedSplit, Spawned DEF HInv, Counters
<1>5. main \notin {"select", "catchup"}
  BY DEF HInv, Order
<1> QED
  BY <1>2, <1>4, <1>5

LEMMA CloseFollows == HInv => DrainedCloseIsSafe
<1> SUFFICES ASSUME HInv, ~timedOut PROVE ~panicked /\ (client # "open" => Publishes = {})
  BY DEF DrainedCloseIsSafe
<1>1. client # "open" => drained = "closed"
  BY DEF HInv, Order
<1>2. drained = "closed" => Publishes = {}
  BY DEF HInv, NoneLive, Live, Loop, Workers, Apart, Publishes
<1> QED
  BY <1>1, <1>2 DEF HInv, NoPanic

LEMMA GoodSucceeded == HInv => Cardinality(Good) <= Cardinality(Succeeded)
<1> SUFFICES ASSUME HInv PROVE Cardinality(Good) <= Cardinality(Succeeded)
  OBVIOUS
<1>1. Good \in SUBSET Succeeded
  BY DEF HInv, PubInv, Apart, Decided, Good, Ended, Succeeded
<1>2. IsFiniteSet(Succeeded)
  BY EventsFinite DEF Succeeded
<1> QED
  BY <1>1, <1>2, FS_Subset

LEMMA HeartbeatFollows == HInv => HeartbeatSound
<1> SUFFICES ASSUME HInv, heartbeat = "loaded"
             PROVE  beat + publishErrors <= eventCount /\ beat <= publishTotal["success"]
  BY DEF HeartbeatSound
<1>1. /\ beat \in Nat /\ beat <= Cardinality(Good)
      /\ publishErrors = Cardinality(Bad)
  BY DEF HInv, Counters
<1>2. /\ Cardinality(Good) \in Nat /\ Cardinality(Bad) \in Nat
      /\ Cardinality(Ended) \in Nat
  BY SetsFinite, FS_CardinalityType
<1>3. Cardinality(Ended) <= eventCount /\ eventCount \in Nat
  BY Spawned, FS_Subset, HarnessAssumption DEF HInv, Loop
<1>4. publishTotal["success"] = Cardinality(Succeeded) /\ publishTotal["success"] \in Nat
  BY DEF HInv, PubInv, Metrics, P!TypeOK
<1> QED
  BY <1>1, <1>2, <1>3, <1>4, EndedSplit, GoodSucceeded

LEMMA CountsFollow == HInv => FinalCountsExact
<1> DEFINE cutOff == {e \in spawned : worker[e] \in {"build", "publish"}}
           lost   == {e \in spawned : copies[e] = 0}
<1> SUFFICES ASSUME HInv, main = "exited"
             PROVE  /\ ~timedOut => cutOff = {}
                    /\ generatedCount + publishErrors + Cardinality(cutOff) = eventCount
                    /\ publishTotal["success"] \in
                         generatedCount .. (generatedCount + Cardinality(cutOff))
                    /\ inflight \in 0 .. Cardinality(cutOff)
                    /\ Cardinality(lost) <= publishErrors + Cardinality(cutOff)
  BY DEF FinalCountsExact
<1>1. /\ \A e \in spawned : e \in Events /\ worker[e] \in Workers \ {"unborn"}
      /\ \A e \in Events : worker[e] # "unborn" => e \in spawned
  <2>1. spawned \subseteq Events /\ eventCount \in Nat
    BY Spawned, HarnessAssumption DEF HInv, Loop
  <2>2. \A e \in Events : e \in spawned <=> ~(e > eventCount)
    BY <2>1, HarnessAssumption DEF spawned, Events
  <2> QED
    BY <2>1, <2>2 DEF HInv, Paced, Loop
<1>2. spawned = Ended \cup cutOff /\ Ended \cap cutOff = {}
  BY <1>1, Spawned DEF Ended, Workers
<1>3. /\ IsFiniteSet(cutOff) /\ IsFiniteSet(Good) /\ IsFiniteSet(Bad)
      /\ IsFiniteSet(Good \cup cutOff) /\ IsFiniteSet(Bad \cup cutOff)
      /\ Cardinality(cutOff) \in Nat /\ Cardinality(Good) \in Nat
      /\ Cardinality(Bad) \in Nat /\ Cardinality(Ended) \in Nat
  <2>1. cutOff \in SUBSET Events /\ Good \in SUBSET Events /\ Bad \in SUBSET Events
    BY <1>1 DEF Good, Bad, Ended
  <2>2. Good \cup cutOff \in SUBSET Events /\ Bad \cup cutOff \in SUBSET Events
    BY <2>1
  <2> QED
    BY <2>1, <2>2, SetsFinite, EventsFinite, FS_CardinalityType
<1>4. generatedCount = Cardinality(Good) /\ publishErrors = Cardinality(Bad)
  BY DEF HInv, Counters
<1> HIDE DEF cutOff, lost
<1>5. \A S \in {Good, Bad, Ended} :
        S \cap cutOff = {} => Cardinality(S \cup cutOff) = Cardinality(S) + Cardinality(cutOff)
  <2> SUFFICES ASSUME NEW S, IsFiniteSet(S), Cardinality(S) \in Nat, S \cap cutOff = {}
               PROVE  Cardinality(S \cup cutOff) = Cardinality(S) + Cardinality(cutOff)
    BY <1>3, SetsFinite
  <2>1. /\ Cardinality(S \cap cutOff) = 0
        /\ Cardinality(S \cup cutOff)
             = Cardinality(S) + Cardinality(cutOff) - Cardinality(S \cap cutOff)
    BY <1>3, FS_Union, FS_EmptySet
  <2> QED
    BY <1>3, <2>1
<1>6. Good \cap cutOff = {} /\ Bad \cap cutOff = {}
  BY <1>2 DEF Good, Bad
<1>7. ~timedOut => cutOff = {}
  BY <1>1 DEF cutOff, HInv, Order, NoneLive, Live
<1>8. generatedCount + publishErrors + Cardinality(cutOff) = eventCount
  BY <1>2, <1>3, <1>4, <1>5, EndedSplit, Spawned
<1>9. publishTotal["success"] \in generatedCount .. (generatedCount + Cardinality(cutOff))
  <2>1. Good \in SUBSET Succeeded /\ Succeeded \in SUBSET (Good \cup cutOff)
    BY <1>1 DEF cutOff, HInv, PubInv, Apart, Decided, Good, Ended, Succeeded, Workers
  <2>2. IsFiniteSet(Succeeded) /\ Cardinality(Succeeded) \in Nat
    BY EventsFinite, FS_CardinalityType DEF Succeeded
  <2>3. /\ Cardinality(Good) <= Cardinality(Succeeded)
        /\ Cardinality(Succeeded) <= Cardinality(Good) + Cardinality(cutOff)
    BY <1>3, <1>5, <1>6, <2>1, <2>2, FS_Subset
  <2> QED
    BY <1>3, <1>4, <2>2, <2>3 DEF HInv, PubInv, Metrics
<1>10. inflight \in 0 .. Cardinality(cutOff)
  <2>1. Inside \in SUBSET cutOff
    BY <1>1 DEF cutOff, HInv, Apart, Inside, Loop, Workers
  <2>2. Cardinality(Inside) \in Nat /\ Cardinality(Inside) <= Cardinality(cutOff)
    BY <1>3, <2>1, FS_Subset, FS_CardinalityType
  <2> QED
    BY <1>3, <2>2 DEF HInv, PubInv, Metrics
<1>11. Cardinality(lost) <= publishErrors + Cardinality(cutOff)
  <2>1. lost \in SUBSET (Bad \cup cutOff)
    BY <1>2, Spawned DEF lost, HInv, PubInv, Delivered, Bad, Ended
  <2> QED
    BY <1>3, <1>4, <1>5, <1>6, <2>1, FS_Subset
<1> QED
  BY <1>7, <1>8, <1>9, <1>10, <1>11

(* Once the client is closed it holds no message. *)
LEMMA ClosedIsFlushed ==
  ASSUME HInv, client = "closed", NEW e \in Events
  PROVE  stage[e] \in {"none", "acked", "failed"}
<1>1. stage[e] # "bundled" /\ stage[e] \notin P!InBatch
  BY DEF HInv, PubInv, Emptied, OnTheWire, P!bundle
<1> QED
  BY <1>1 DEF HInv, PubInv, P!TypeOK, P!Stages, P!InBatch

LEMMA FlushFollows == HInv => ExitAfterFlush
BY ClosedIsFlushed DEF ExitAfterFlush, HInv, Order

(* Every variable of the harness and of its publisher keeps its type. *)
THEOREM HarnessTypes == Spec => []TypeOK
BY Safety, TypesFollow, PTL

(* The generator never runs ahead of the clock, at any rate. *)
THEOREM GeneratorIsPaced == Spec => []Paced
BY Safety, PTL DEF HInv

(* When main waits it has spawned what was due at its last tick, and unless
   another tick is pending that is all that is due. *)
CaughtUp ==
  /\ main = "select" => eventCount = expected
  /\ eventCount <= expected
  /\ main \in {"select", "catchup"} /\ ~tick => expected = Rate * now

LEMMA CaughtUpStep == Loop /\ CaughtUp /\ [Next]_vars => CaughtUp'
<1> SUFFICES ASSUME Loop, CaughtUp, [Next]_vars PROVE CaughtUp'
  OBVIOUS
<1>0. eventCount \in Nat /\ expected \in Nat /\ Rate * now \in Nat /\ expected <= Rate * now
  BY HarnessAssumption, Due DEF Loop
<1> USE DEF CaughtUp
<1>1. CASE TimePasses
  BY <1>1 DEF TimePasses
<1>2. CASE TickCase
  BY <1>0, <1>2 DEF TickCase, allDue
<1>3. CASE Spawn
  BY <1>0, <1>3 DEF Spawn, behind
<1>4. CASE CatchUpEnds
  <2>1. eventCount = expected /\ UNCHANGED <<now, tick, expected, eventCount>>
    BY <1>0, <1>4 DEF CatchUpEnds, caughtUp, loopVars
  <2> QED
    BY <1>4, <2>1 DEF CatchUpEnds
<1>5. CASE DoneCase \/ DrainEnds \/ DrainTimesOut \/ Close \/ Exit
  BY <1>5 DEF DoneCase, DrainEnds, DrainTimesOut, Close, Exit, loopVars
<1>6. ASSUME NEW e \in Events, WorkerStep(e) \/ Timers(e) PROVE CaughtUp'
  BY <1>6 DEF WorkerStep, Build, Publishing, Tally, Done, Timers, loopVars
<1>7. CASE \/ SignalArrives \/ SignalHandled \/ ScrapeEnds \/ WaitReturns
           \/ Heartbeat \/ Background \/ UNCHANGED vars
  BY <1>7 DEF SignalArrives, SignalHandled, ScrapeEnds, WaitReturns, Heartbeat,
              HeartbeatLoads, HeartbeatLogs, HeartbeatStops, HeartbeatOnly,
              Background, loopVars, vars
<1> QED
  BY <1>1, <1>2, <1>3, <1>4, <1>5, <1>6, <1>7 DEF Next, Running, MainStep, Terminated

(* Ticks that are dropped and a clock that is read before the loop lose no
   event, at any rate. *)
THEOREM NothingIsLost == Spec => []NothingLost
<1>1. Init => CaughtUp
  BY HarnessAssumption DEF Init, CaughtUp
<1>2. HInv /\ CaughtUp /\ [Next]_vars => CaughtUp'
  BY CaughtUpStep DEF HInv
<1>3. CaughtUp => NothingLost
  BY DEF CaughtUp, NothingLost
<1> QED
  BY <1>1, <1>2, <1>3, Safety, PTL DEF Spec

(* A drain that is reported has left no worker and lost no event. *)
THEOREM DrainIsQuiet == Spec => []DrainedMeansQuiet
BY Safety, QuietFollows, PTL

(* A shutdown that drains closes the client behind the last Publish. *)
THEOREM DrainedCloseSafe == Spec => []DrainedCloseIsSafe
BY Safety, CloseFollows, PTL

(* The heartbeat never claims an event twice, nor one that was not stored. *)
THEOREM HeartbeatIsSound == Spec => []HeartbeatSound
BY Safety, HeartbeatFollows, PTL

(* The counters the process ends with agree with the publisher's metrics and
   with the topic, but for the workers that were cut off. *)
THEOREM FinalCounts == Spec => []FinalCountsExact
BY Safety, CountsFollow, PTL

(* What was handed to the client is resolved when the process ends, drained
   or not. *)
THEOREM ExitIsFlushed == Spec => []ExitAfterFlush
BY Safety, FlushFollows, PTL

-----------------------------------------------------------------------------
(* Harness implements PublishContract.                                     *)

(* The client has a message only of a call that has begun. *)
Handed ==
  \A e \in Events : pc[e] = "idle" =>
    /\ stage[e] = "none"
    /\ \A b \in sending : e \notin b
    /\ \A a \in abandoned : e \notin a[1]

LEMMA HandedStep == P!TypeOK /\ Handed /\ PubStep => Handed'
<1> SUFFICES ASSUME P!TypeOK, Handed, PubStep PROVE Handed'
  OBVIOUS
<1> USE DEF P!TypeOK
<1>1. ASSUME UNCHANGED <<pc, abandoned>>, P!Flush(P!bundle)
      PROVE  Handed'
  BY <1>1 DEF P!Flush, P!Move, P!bundle, Handed
<1>2. ASSUME UNCHANGED pc, NEW b \in sending,
             P!Move(b, "queued") \/ P!Move(b, "sent") \/ P!Move(b, "stored")
               \/ P!Move(b, "acked") \/ P!Move(b, "failed"),
             sending' \subseteq sending,
             abandoned' \subseteq abandoned \/ P!Abandon(b)
      PROVE  Handed'
  <2>1. \A e \in Events : pc[e] = "idle" => e \notin b /\ stage'[e] = "none"
    BY <1>2 DEF P!Move, Handed
  <2>2. \A a \in abandoned' : a \in abandoned \/ a[1] = b
    BY <1>2 DEF P!Abandon
  <2> QED
    BY <1>2, <2>1, <2>2 DEF Handed
<1>3. ASSUME NEW e \in Events, P!Enter(e) \/ P!CallStep(e) PROVE Handed'
  <2>1. CASE P!Enqueue(e)
    <3>1. /\ pc[e] = "enqueue" /\ pc'[e] = "get" /\ UNCHANGED abandoned
          /\ \A d \in Events : pc'[d] = "idle" => pc[d] = "idle" /\ d # e
      BY <2>1 DEF P!Enqueue
    <3>2. P!Flush(P!bundle \cup {e}) => Handed'
      BY <3>1 DEF P!Flush, P!Move, P!bundle, Handed
    <3>3. (P!Move({e}, "bundled") \/ P!Move({e}, "failed")) /\ UNCHANGED sending
            => Handed'
      BY <3>1 DEF P!Move, Handed
    <3>4. UNCHANGED <<stage, sending>> => Handed'
      BY <3>1 DEF Handed
    <3> QED
      BY <2>1, <3>2, <3>3, <3>4 DEF P!Enqueue, P!AddToBundle, P!PublishAfterStop
  <2>2. CASE P!Enter(e) \/ P!Expire(e) \/ P!Get(e) \/ P!Count(e) \/ P!Return(e)
    BY <2>2 DEF P!Enter, P!Expire, P!Get, P!Count, P!Return, P!clientVars, Handed
  <2> QED
    BY <1>3, <2>1, <2>2 DEF P!CallStep
<1>4. ASSUME NEW b \in sending, P!BatchStep(b) PROVE Handed'
  BY <1>2, <1>4
  DEF P!BatchStep, P!Attempt, P!Store, P!Ack, P!BatchTimeout, P!Retry, P!Reject,
      P!Resolve, P!callVars
<1>5. CASE P!DelayElapses \/ P!Stop
  <2>1. UNCHANGED <<pc, abandoned, stage, sending>> => Handed'
    BY DEF Handed
  <2> QED
    BY <1>1, <1>5, <2>1 DEF P!DelayElapses, P!Stop, P!callVars
<1>6. CASE \/ P!StopReturns \/ P!CloseClient \/ UNCHANGED publisherVars
           \/ \E a \in abandoned : P!LateStore(a)
  BY <1>6 DEF P!StopReturns, P!CloseClient, P!LateStore, P!callVars, publisherVars,
              Handed
<1> QED
  BY <1>3, <1>4, <1>5, <1>6 DEF PubStep

CVars == <<P!callState, copies>>

LEMMA ContractStutter == UNCHANGED <<pc, outcome, copies>> => UNCHANGED CVars
BY DEF CVars, P!callState

LEMMA ContractStore ==
  ASSUME P!TypeOK, NEW S \in SUBSET Events, \A e \in S : pc[e] # "idle",
         copies' = [e \in Events |-> copies[e] + IF e \in S THEN 1 ELSE 0],
         UNCHANGED <<pc, outcome>>
  PROVE  Contract!Next
<1>1. \A e \in S : P!callState[e] # "idle"
  BY DEF P!TypeOK, P!callState
<1>2. UNCHANGED P!callState
  BY DEF P!callState
<1>3. Contract!Store(S)
  BY <1>1, <1>2 DEF Contract!Store
<1> QED
  BY <1>3 DEF Contract!Next

(* A step of call e changes what e knows and nothing of the others. *)
LEMMA ContractCall ==
  ASSUME P!TypeOK, Delivered, Decided, NEW e \in Events, P!Enter(e) \/ P!CallStep(e)
  PROVE  Contract!Next \/ UNCHANGED CVars
<1> USE DEF P!TypeOK, Decided
<1>1. CASE P!Enter(e)
  <2>1. /\ P!callState[e] = "idle"
        /\ P!callState' = [P!callState EXCEPT ![e] = "open"]
    BY <1>1 DEF P!Enter, P!callState
  <2>2. Contract!Open(e)
    BY <1>1, <2>1 DEF Contract!Open, P!Enter, P!clientVars
  <2> QED
    BY <2>2 DEF Contract!Next
<1>2. CASE P!Get(e)
  <2>1. PICK o \in {"ok", "err"} :
          /\ outcome' = [outcome EXCEPT ![e] = o]
          /\ o = "ok" => stage[e] = "acked"
    BY <1>2 DEF P!Get, P!GetReturns
  <2>2. pc[e] = "get" /\ outcome[e] = "none" /\ UNCHANGED copies
    BY <1>2 DEF P!Get, P!clientVars
  <2>3. pc' = [pc EXCEPT ![e] = "count"]
    BY <1>2 DEF P!Get
  <2>4. \A d \in Events : P!callState'[d] = IF d = e THEN o ELSE P!callState[d]
    BY <2>1, <2>3 DEF P!callState
  <2>5. P!callState[e] = "open" /\ P!callState' = [P!callState EXCEPT ![e] = o]
    <3>1. P!callState[e] = "open"
      BY <2>2 DEF P!callState
    <3>2. P!callState' = [d \in Events |-> P!callState'[d]]
      BY DEF P!callState
    <3>3. P!callState = [d \in Events |-> P!callState[d]]
      BY DEF P!callState
    <3> QED
      BY <2>4, <3>1, <3>2, <3>3
  <2>6. CASE o = "ok"
    <3>1. Contract!Succeed(e)
      BY <2>1, <2>2, <2>5, <2>6 DEF Contract!Succeed, Delivered
    <3> QED
      BY <3>1 DEF Contract!Next
  <2>7. CASE o = "err"
    <3>1. Contract!Fail(e)
      BY <2>2, <2>5, <2>7 DEF Contract!Fail
    <3> QED
      BY <3>1 DEF Contract!Next
  <2> QED
    BY <2>6, <2>7
<1>3. CASE P!Enqueue(e) \/ P!Count(e) \/ P!Return(e)
  <2>1. UNCHANGED P!callState
    BY <1>3 DEF P!Enqueue, P!Count, P!Return, P!callState
  <2> QED
    BY <1>3, <2>1 DEF P!Enqueue, P!Count, P!Return, P!clientVars, CVars
<1>4. CASE P!Expire(e)
  BY <1>4, ContractStutter DEF P!Expire, P!clientVars
<1> QED
  BY <1>1, <1>2, <1>3, <1>4 DEF P!CallStep

LEMMA ContractStep == PubInv /\ Handed /\ PubStep => [Contract!Next]_CVars
<1> SUFFICES ASSUME PubInv, Handed, PubStep
             PROVE  Contract!Next \/ UNCHANGED CVars
  OBVIOUS
<1> USE DEF PubInv
<1>1. ASSUME NEW b \in sending, P!BatchStep(b)
      PROVE  Contract!Next \/ UNCHANGED CVars
  <2>1. b \in SUBSET Events /\ \A e \in b : pc[e] # "idle"
    BY DEF P!TypeOK, Handed
  <2>2. CASE P!Store(b)
    BY <2>1, <2>2, ContractStore DEF P!Store, P!callVars
  <2>3. CASE \/ P!Attempt(b) \/ P!Ack(b) \/ P!BatchTimeout(b)
             \/ \E code \in P!retryableCodes : P!Retry(b, code)
             \/ \E code \in P!finalCodes : P!Reject(b, code)
    BY <2>3, ContractStutter
    DEF P!Attempt, P!Ack, P!BatchTimeout, P!Retry, P!Reject, P!Resolve, P!callVars
  <2> QED
    BY <1>1, <2>2, <2>3 DEF P!BatchStep
<1>2. ASSUME NEW a \in abandoned, P!LateStore(a)
      PROVE  Contract!Next \/ UNCHANGED CVars
  <2>1. a[1] \in SUBSET Events /\ \A e \in a[1] : pc[e] # "idle"
    BY DEF P!TypeOK, Handed
  <2> QED
    BY <1>2, <2>1, ContractStore DEF P!LateStore, P!callVars
<1>3. CASE P!DelayElapses \/ P!Stop \/ P!StopReturns \/ P!CloseClient
           \/ UNCHANGED publisherVars
  BY <1>3, ContractStutter
  DEF P!DelayElapses, P!Stop, P!StopReturns, P!CloseClient, P!callVars, publisherVars
<1> QED
  BY <1>1, <1>2, <1>3, ContractCall DEF PubStep

(* The workers are told the truth: the harness implements the contract of
   Publish although its main may break the one of Close. *)
THEOREM HarnessKeepsContract == Spec => KeepsContract
<1>1. Init => Contract!Init /\ Handed
  BY DEF Init, P!Init, Contract!Init, P!callState, Handed
<1>2. HInv /\ Handed /\ [Next]_vars => Handed'
  BY IsPubStep, HandedStep DEF HInv, PubInv
<1>3. HInv /\ Handed /\ [Next]_vars => [Contract!Next]_CVars
  BY IsPubStep, ContractStep DEF HInv
<1>4. Spec => []Handed
  BY <1>1, <1>2, Safety, PTL DEF Spec
<1>5. Spec => Contract!Init /\ [][Contract!Next]_CVars
  BY <1>1, <1>3, <1>4, Safety, PTL DEF Spec
<1> QED
  BY <1>5 DEF KeepsContract, Contract!Spec, CVars

-----------------------------------------------------------------------------
(* Harness implements ShutdownOrder.                                       *)

(* The batches on the wire are apart and hold open messages only; a call
   that has not reached the client has no message there. *)
Batched ==
  /\ \A e \in Events : pc[e] = "enqueue" => stage[e] = "none"
  /\ \A b \in sending : \A e \in b : stage[e] \in P!InBatch
  /\ \A b, d \in sending : b = d \/ b \cap d = {}

LEMMA BatchedFlush ==
  ASSUME P!TypeOK, Batched, NEW S \in SUBSET Events,
         \A e \in S : stage[e] \in {"none", "bundled"}, P!Flush(S),
         \A e \in Events : pc'[e] = "enqueue" => pc[e] = "enqueue" /\ e \notin S
  PROVE  Batched'
<1>1. \A e \in Events : stage'[e] = IF e \in S THEN "queued" ELSE stage[e]
  BY DEF P!Flush, P!Move
<1>2. \A b \in sending : b \cap S = {} /\ b \subseteq Events
  BY DEF Batched, P!InBatch, P!TypeOK
<1>3. sending' = sending \cup {S}
  BY DEF P!Flush
<1>4. \A b \in sending' : \A e \in b : stage'[e] \in P!InBatch
  BY <1>1, <1>2, <1>3 DEF Batched, P!InBatch
<1>5. \A b, d \in sending' : b = d \/ b \cap d = {}
  BY <1>2, <1>3 DEF Batched
<1>6. \A e \in Events : pc'[e] = "enqueue" => stage'[e] = "none"
  BY <1>1 DEF Batched
<1> QED
  BY <1>4, <1>5, <1>6 DEF Batched

LEMMA BatchedMove ==
  ASSUME P!TypeOK, Batched, NEW b \in sending, NEW s, P!Move(b, s), UNCHANGED pc,
         \/ s \in P!InBatch /\ sending' = sending
         \/ sending' = sending \ {b}
  PROVE  Batched'
<1>1. \A e \in Events : stage'[e] = IF e \in b THEN s ELSE stage[e]
  BY DEF P!Move
<1>2. \A d \in sending : d \subseteq Events /\ (d # b => d \cap b = {})
  BY DEF Batched, P!TypeOK
<1>3. \A d \in sending' : \A e \in d : stage'[e] \in P!InBatch
  BY <1>1, <1>2 DEF Batched
<1>4. \A e \in Events : pc'[e] = "enqueue" => e \notin b /\ stage'[e] = "none"
  BY <1>1, <1>2 DEF Batched, P!InBatch
<1> QED
  BY <1>2, <1>3, <1>4 DEF Batched

LEMMA BatchedStep == P!TypeOK /\ Handed /\ Batched /\ PubStep => Batched'
<1> SUFFICES ASSUME P!TypeOK, Handed, Batched, PubStep PROVE Batched'
  OBVIOUS
<1> USE DEF P!TypeOK
<1>1. ASSUME UNCHANGED <<stage, sending>>,
             \A e \in Events : pc'[e] = "enqueue" => pc[e] \in {"idle", "enqueue"}
      PROVE  Batched'
  BY <1>1 DEF Batched, Handed
<1>2. ASSUME NEW e \in Events, P!Enter(e) \/ P!CallStep(e) PROVE Batched'
  <2>1. CASE P!Enqueue(e)
    <3>1. /\ stage[e] = "none"
          /\ \A d \in Events : pc'[d] = "enqueue" => pc[d] = "enqueue" /\ d # e
      BY <2>1 DEF P!Enqueue, Batched
    <3>2. CASE P!Flush(P!bundle \cup {e})
      <4>1. /\ P!bundle \cup {e} \in SUBSET Events
            /\ \A d \in P!bundle \cup {e} : stage[d] \in {"none", "bundled"}
            /\ \A d \in Events : pc'[d] = "enqueue" => d \notin P!bundle \cup {e}
        BY <3>1 DEF P!bundle, Batched
      <4> QED
        BY <3>1, <3>2, <4>1, BatchedFlush
    <3>3. CASE (P!Move({e}, "bundled") \/ P!Move({e}, "failed")) /\ UNCHANGED sending
      BY <3>1, <3>3 DEF P!Move, Batched, P!InBatch
    <3>4. CASE UNCHANGED <<stage, sending>>
      BY <1>1, <3>1, <3>4
    <3> QED
      BY <2>1, <3>2, <3>3, <3>4 DEF P!Enqueue, P!AddToBundle, P!PublishAfterStop
  <2>2. CASE P!Enter(e) \/ P!Expire(e) \/ P!Get(e) \/ P!Count(e) \/ P!Return(e)
    BY <1>1, <2>2 DEF P!Enter, P!Expire, P!Get, P!Count, P!Return, P!clientVars
  <2> QED
    BY <1>2, <2>1, <2>2 DEF P!CallStep
<1>3. ASSUME NEW b \in sending, P!BatchStep(b) PROVE Batched'
  <2>1. CASE \/ P!Attempt(b) \/ P!Store(b)
             \/ \E code \in P!retryableCodes : P!Retry(b, code)
    BY <2>1, BatchedMove
    DEF P!Attempt, P!Store, P!Retry, P!InBatch, P!callVars
  <2>2. CASE P!Ack(b) \/ P!BatchTimeout(b) \/ \E code \in P!finalCodes : P!Reject(b, code)
    BY <2>2, BatchedMove
    DEF P!Ack, P!BatchTimeout, P!Reject, P!Resolve, P!callVars
  <2> QED
    BY <1>3, <2>1, <2>2 DEF P!BatchStep
<1>4. CASE P!DelayElapses \/ P!Stop
  <2>1. /\ P!bundle \in SUBSET Events
        /\ \A e \in P!bundle : stage[e] = "bundled" /\ pc[e] # "enqueue"
    BY DEF P!bundle, Batched
  <2>2. UNCHANGED pc
    BY <1>4 DEF P!DelayElapses, P!Stop, P!callVars
  <2>3. P!Flush(P!bundle) \/ UNCHANGED <<stage, sending>>
    BY <1>4 DEF P!DelayElapses, P!Stop
  <2> QED
    BY <1>1, <2>1, <2>2, <2>3, BatchedFlush
<1>5. CASE \/ P!StopReturns \/ P!CloseClient \/ UNCHANGED publisherVars
           \/ \E a \in abandoned : P!LateStore(a)
  BY <1>1, <1>5 DEF P!StopReturns, P!CloseClient, P!LateStore, P!callVars, publisherVars
<1> QED
  BY <1>2, <1>3, <1>4, <1>5 DEF PubStep

OVars == <<phase, message>>

LEMMA Phases ==
  ASSUME Loop, ~panicked
  PROVE  /\ phase = "running"  <=> main \in {"select", "catchup"}
         /\ phase = "draining" <=> main = "drain"
         /\ phase = "closing"  <=> main \in {"close", "metrics"}
         /\ phase = "exited"   <=> main = "exited"
         /\ alive => Ordered!alive
<1>1. main \in {"select", "catchup", "drain", "close", "metrics", "exited"}
  BY DEF Loop, Mains
<1> QED
  BY <1>1 DEF phase, alive, Ordered!alive

(* The steps that ShutdownOrder does not see. *)
LEMMA OrderStutter ==
  ASSUME UNCHANGED <<main, panicked, stage>>,
         \A e \in Events : worker'[e] = "unborn" <=> worker[e] = "unborn"
  PROVE  UNCHANGED OVars
BY DEF OVars, phase, message

(* A message that the client holds, or has held, is that of a live event. *)
LEMMA HeldIsBorn ==
  ASSUME HInv, Handed, NEW e \in Events, stage[e] # "none" \/ pc[e] # "idle"
  PROVE  worker[e] # "unborn"
BY DEF HInv, Apart, Handed

LEMMA OrderSpawn == ASSUME HInv, Handed, alive, Spawn PROVE Ordered!Next
<1> DEFINE e == eventCount + 1
<1>1. e \in Events /\ worker[e] = "unborn"
  <2>1. eventCount \in Nat /\ expected \in Nat /\ eventCount < expected
        /\ expected <= Rate * MaxTime /\ Rate * MaxTime \in Nat
    BY HarnessAssumption DEF Spawn, behind, HInv, Loop
  <2> QED
    BY <2>1 DEF HInv, Paced, Events
<1>2. stage[e] = "none"
  BY <1>1 DEF HInv, Apart, Handed
<1>3. /\ worker' = [worker EXCEPT ![e] = "build"] /\ main = "catchup"
      /\ UNCHANGED <<main, stage, panicked>>
  BY DEF Spawn, publisherVars
<1> HIDE DEF e
<1>4. message[e] = "none" /\ message' = [message EXCEPT ![e] = "begun"]
  BY <1>1, <1>2, <1>3 DEF message, HInv, Loop
<1>5. UNCHANGED phase
  BY <1>3 DEF phase
<1>6. phase = "running"
  BY <1>3, Phases DEF HInv, alive
<1>7. Ordered!Begin(e)
  BY <1>4, <1>5, <1>6 DEF Ordered!Begin
<1> QED
  BY <1>1, <1>7 DEF Ordered!Next

(* The batch b is resolved. *)
LEMMA OrderSettles ==
  ASSUME HInv, Handed, Batched, alive, NEW b \in sending, NEW s \in {"acked", "failed"},
         P!Move(b, s), UNCHANGED <<main, worker, panicked>>
  PROVE  Ordered!Next
<1>1. b \subseteq Events
  BY DEF HInv, PubInv, P!TypeOK
<1>2. \A e \in b : message[e] = "held"
  BY <1>1, HeldIsBorn DEF Batched, P!InBatch, message
<1>3. \A e \in Events : stage'[e] = IF e \in b THEN s ELSE stage[e]
  BY DEF P!Move
<1>4. message' = [e \in Events |-> IF e \in b THEN "settled" ELSE message[e]]
  <2>1. \A e \in Events : message'[e] = IF e \in b THEN "settled" ELSE message[e]
    BY <1>1, <1>2, <1>3 DEF message
  <2> QED
    BY <2>1 DEF message
<1>5. Ordered!alive /\ UNCHANGED phase
  BY Phases DEF HInv, alive, phase
<1>6. Ordered!Settle(b)
  BY <1>2, <1>4, <1>5 DEF Ordered!Settle
<1> QED
  BY <1>1, <1>6 DEF Ordered!Next

LEMMA OrderBackground ==
  ASSUME HInv, Handed, Batched, alive, Background
  PROVE  Ordered!Next \/ UNCHANGED OVars
<1>1. UNCHANGED <<main, worker>>
  BY DEF Background, workerVars
<1>2. ASSUME UNCHANGED panicked, NEW S \in SUBSET Events, NEW s \in P!InBatch,
             P!Move(S, s), \A e \in S : stage[e] \in P!InBatch \cup {"bundled"}
      PROVE  UNCHANGED OVars
  <2>1. \A e \in Events : stage'[e] = IF e \in S THEN s ELSE stage[e]
    BY <1>2 DEF P!Move
  <2>2. \A e \in Events : message'[e] = message[e]
    BY <1>1, <1>2, <2>1 DEF message, P!InBatch
  <2>3. message' = message
    BY <2>2 DEF message
  <2> QED
    BY <1>1, <1>2, <2>3 DEF OVars, phase
<1>3. ASSUME NEW b \in sending, P!BatchStep(b)
      PROVE  Ordered!Next \/ UNCHANGED OVars
  <2>1. b \in SUBSET Events /\ \A e \in b : stage[e] \in P!InBatch
    BY DEF HInv, PubInv, P!TypeOK, Batched
  <2>2. UNCHANGED panicked
    BY <1>3 DEF P!BatchStep, P!Attempt, P!Store, P!Ack, P!BatchTimeout, P!Retry,
                P!Reject, P!Resolve
  <2>3. CASE \/ P!Attempt(b) \/ P!Store(b)
             \/ \E code \in P!retryableCodes : P!Retry(b, code)
    BY <1>2, <2>1, <2>2, <2>3 DEF P!Attempt, P!Store, P!Retry, P!InBatch
  <2>4. CASE P!Ack(b) \/ P!BatchTimeout(b) \/ \E code \in P!finalCodes : P!Reject(b, code)
    BY <1>1, <2>2, <2>4, OrderSettles DEF P!Ack, P!BatchTimeout, P!Reject, P!Resolve
  <2> QED
    BY <1>3, <2>3, <2>4 DEF P!BatchStep
<1>4. CASE P!DelayElapses
  <2>1. /\ P!bundle \in SUBSET Events /\ P!Move(P!bundle, "queued") /\ UNCHANGED panicked
        /\ \A e \in P!bundle : stage[e] = "bundled"
    BY <1>4 DEF P!DelayElapses, P!Flush, P!bundle
  <2> QED
    BY <1>2, <2>1 DEF P!InBatch
<1>5. CASE \E a \in abandoned : P!LateStore(a)
  BY <1>1, <1>5, OrderStutter DEF P!LateStore
<1> QED
  BY <1>3, <1>4, <1>5 DEF Background

(* The client takes a message, fails it because Close has begun, or panics. *)
LEMMA OrderEnqueue ==
  ASSUME HInv, Handed, Batched, alive, NEW e \in Events, P!Enqueue(e),
         UNCHANGED <<main, worker>>
  PROVE  Ordered!Next \/ UNCHANGED OVars
<1>1. message[e] = "begun" /\ stage[e] = "none" /\ worker[e] # "unborn"
  BY HeldIsBorn DEF P!Enqueue, Batched, message
<1>2. Ordered!alive
  BY Phases DEF HInv, alive
<1>3. ASSUME UNCHANGED panicked, NEW s \in {"held", "settled"},
             \A d \in Events : message'[d] = IF d = e THEN s ELSE message[d]
      PROVE  Ordered!Next
  <2>1. message' = [message EXCEPT ![e] = s]
    BY <1>3 DEF message
  <2>2. UNCHANGED phase
    BY <1>3 DEF phase
  <2>3. Ordered!Hand(e)
    BY <1>1, <1>2, <2>1, <2>2 DEF Ordered!Hand
  <2> QED
    BY <2>3 DEF Ordered!Next
<1>4. CASE P!AddToBundle(e)
  <2>1. \A d \in Events : message'[d] = IF d = e THEN "held" ELSE message[d]
    <3>1. CASE P!Flush(P!bundle \cup {e})
      <4>1. \A d \in Events : stage'[d] = IF d = e \/ stage[d] = "bundled" THEN "queued"
                                          ELSE stage[d]
        BY <3>1 DEF P!Flush, P!Move, P!bundle
      <4> QED
        BY <1>1, <4>1 DEF message
    <3>2. CASE P!Move({e}, "bundled")
      BY <1>1, <3>2 DEF P!Move, message
    <3> QED
      BY <1>4, <3>1, <3>2 DEF P!AddToBundle
  <2>2. UNCHANGED panicked
    BY <1>4 DEF P!AddToBundle
  <2> QED
    BY <1>3, <2>1, <2>2
<1>5. CASE P!Move({e}, "failed") /\ UNCHANGED panicked
  <2>1. \A d \in Events : message'[d] = IF d = e THEN "settled" ELSE message[d]
    BY <1>1, <1>5 DEF P!Move, message
  <2> QED
    BY <1>3, <1>5, <2>1
<1>6. CASE client # "open" /\ panicked' = TRUE /\ UNCHANGED stage
  <2>1. phase = "closing"
    BY <1>6, Phases DEF HInv, Order, alive
  <2>2. phase' = "killed" /\ UNCHANGED message
    BY <1>6 DEF phase, message
  <2>3. Ordered!Die
    BY <2>1, <2>2 DEF Ordered!Die
  <2> QED
    BY <2>3 DEF Ordered!Next
<1> QED
  BY <1>4, <1>5, <1>6 DEF P!Enqueue, P!PublishAfterStop

LEMMA OrderWorker ==
  ASSUME HInv, Handed, Batched, alive, NEW e \in Events, WorkerStep(e) \/ Timers(e)
  PROVE  Ordered!Next \/ UNCHANGED OVars
<1>1. CASE Build(e) \/ Tally(e) \/ Done(e)
  <2>1. worker[e] # "unborn" /\ \E l \in Workers \ {"unborn"} : worker' = [worker EXCEPT ![e] = l]
    BY <1>1 DEF Build, Tally, Done, Workers
  <2>2. UNCHANGED <<main, panicked, stage>>
    BY <1>1 DEF Build, Tally, Done, publisherVars, P!Enter, P!clientVars
  <2> QED
    BY <2>1, <2>2, OrderStutter DEF HInv, Loop
<1>2. CASE Publishing(e)
  <2>1. UNCHANGED <<main, worker>>
    BY <1>2 DEF Publishing, workerVars
  <2>2. CASE P!Get(e) \/ P!Count(e) \/ P!Return(e)
    BY <2>1, <2>2, OrderStutter DEF P!Get, P!Count, P!Return, P!clientVars
  <2> QED
    BY <1>2, <2>1, <2>2, OrderEnqueue DEF Publishing
<1>3. CASE Timers(e)
  BY <1>3, OrderStutter DEF Timers, workerVars, P!Expire, P!clientVars
<1> QED
  BY <1>1, <1>2, <1>3 DEF WorkerStep

LEMMA OrderMain ==
  ASSUME HInv, Handed, Batched, alive, MainStep
  PROVE  Ordered!Next \/ UNCHANGED OVars
<1>1. CASE TickCase \/ CatchUpEnds \/ DoneCase \/ DrainEnds \/ DrainTimesOut \/ Exit
  <2>1. UNCHANGED <<worker, stage, panicked>> /\ ~panicked
    BY <1>1 DEF TickCase, CatchUpEnds, DoneCase, DrainEnds, DrainTimesOut, Exit,
                workerVars, publisherVars, alive
  <2>2. UNCHANGED message
    BY <2>1 DEF message
  <2>3. CASE TickCase
    BY <2>1, <2>2, <2>3 DEF TickCase, phase, OVars
  <2>4. CASE CatchUpEnds \/ DoneCase
    <3>1. phase = "running" /\ (phase' = "running" \/ phase' = "draining")
      BY <2>1, <2>4 DEF CatchUpEnds, DoneCase, phase
    <3> QED
      BY <2>2, <3>1 DEF Ordered!Next, Ordered!Drain, OVars
  <2>5. CASE DrainEnds \/ DrainTimesOut
    <3>1. phase = "draining" /\ phase' = "closing"
      BY <2>1, <2>5 DEF DrainEnds, DrainTimesOut, phase
    <3> QED
      BY <2>2, <3>1 DEF Ordered!Next, Ordered!Close
  <2>6. CASE Exit
    <3>1. phase = "closing" /\ phase' = "exited" /\ client = "closed"
      BY <2>1, <2>6 DEF Exit, phase, HInv, Order
    <3>2. \A e \in Events : stage[e] \in {"none", "acked", "failed"}
      BY <3>1, ClosedIsFlushed
    <3>3. \A e \in Events : message[e] # "held"
      BY <3>2 DEF message
    <3> QED
      BY <2>2, <3>1, <3>3 DEF Ordered!Next, Ordered!Exit
  <2> QED
    BY <1>1, <2>3, <2>4, <2>5, <2>6
<1>2. CASE Spawn
  BY <1>2, OrderSpawn
<1>3. CASE Close
  <2>1. UNCHANGED <<worker, panicked>> /\ main = "close" /\ main' \in {"close", "metrics"}
    BY <1>3 DEF Close, workerVars, publisherVars, P!Stop, P!StopReturns, P!CloseClient
  <2>2. \A e \in Events : stage'[e] = stage[e] \/ (stage[e] = "bundled" /\ stage'[e] = "queued")
    <3>1. CASE P!Stop
      <4>1. UNCHANGED stage \/ P!Move(P!bundle, "queued")
        BY <3>1 DEF P!Stop, P!Flush
      <4> QED
        BY <4>1 DEF P!Move, P!bundle
    <3>2. CASE P!StopReturns \/ P!CloseClient \/ UNCHANGED publisherVars
      BY <3>2 DEF P!StopReturns, P!CloseClient, publisherVars
    <3> QED
      BY <1>3, <3>1, <3>2 DEF Close
  <2>3. \A e \in Events : message'[e] = message[e]
    BY <2>1, <2>2 DEF message
  <2>4. UNCHANGED message
    BY <2>3 DEF message
  <2> QED
    BY <2>1, <2>4 DEF OVars, phase
<1> QED
  BY <1>1, <1>2, <1>3 DEF MainStep

LEMMA OrderedStep ==
  HInv /\ Handed /\ Batched /\ [Next]_vars => [Ordered!Next]_OVars
<1> SUFFICES ASSUME HInv, Handed, Batched, [Next]_vars
             PROVE  Ordered!Next \/ UNCHANGED OVars
  OBVIOUS
<1>1. CASE \/ TimePasses \/ SignalArrives \/ SignalHandled \/ ScrapeEnds
           \/ WaitReturns \/ Heartbeat \/ UNCHANGED vars
  <2>1. UNCHANGED <<main, worker, stage, panicked>>
    BY <1>1 DEF TimePasses, SignalArrives, SignalHandled, ScrapeEnds, WaitReturns, Heartbeat,
                HeartbeatLoads, HeartbeatLogs, HeartbeatStops, HeartbeatOnly,
                workerVars, publisherVars, vars
  <2> QED
    BY <2>1, OrderStutter
<1> QED
  BY <1>1, OrderMain, OrderBackground, OrderWorker DEF Next, Running, Terminated

(* The process shuts down in order, at any rate and whatever times out: no
   event begins once the drain has, and the process does not end by itself
   while the client holds a message. *)
THEOREM HarnessShutsDownInOrder == Spec => KeepsShutdownOrder
<1>1. Init => Ordered!Init /\ Handed /\ Batched
  BY DEF Init, P!Init, Ordered!Init, phase, message, Handed, Batched
<1>2. HInv /\ Handed /\ Batched /\ [Next]_vars => Handed' /\ Batched'
  BY IsPubStep, HandedStep, BatchedStep DEF HInv, PubInv
<1>3. Spec => [](Handed /\ Batched)
  BY <1>1, <1>2, Safety, PTL DEF Spec
<1>4. Spec => Ordered!Init /\ [][Ordered!Next]_OVars
  BY <1>1, <1>3, OrderedStep, Safety, PTL DEF Spec
<1> QED
  BY <1>4 DEF KeepsShutdownOrder, Ordered!Spec, OVars
=============================================================================
