------------------------- MODULE ShutdownTimingProofs -------------------------
(***************************************************************************)
(* Proofs about ShutdownTiming for every number of calls and of goroutines *)
(* and every value of the timeouts.                                        *)
(***************************************************************************)
EXTENDS ShutdownTiming, FiniteSetTheorems, TLAPS

(* Nothing that is due is ever overdue. *)
Punctual ==
  /\ returned \subseteq begun /\ begun \subseteq spawned
  /\ \A c \in begun :
       /\ entered[c] <= now
       /\ phase # "running" => entered[c] <= termAt
       /\ c \in returned \/ now <= entered[c] + PublishTimeout
  /\ \A c \in Calls : sent[c] >= 0 =>
       /\ c \in begun /\ sent[c] <= now
       /\ c \in resolved \/ now <= sent[c] + Timeout
  /\ resolved \subseteq {c \in Calls : sent[c] >= 0}
  /\ phase # "running" => termAt <= now
  /\ phase = "draining" => now <= termAt + FlushTimeout

(* What the signal starts: no time passes before main has seen it, nor before
   a goroutine started by then has called Publish, so that the drain and Close
   find nothing but calls that have begun. *)
AfterSignal ==
  /\ phase = "cancelled" => now = termAt
  /\ phase # "running" /\ now # termAt => spawned \subseteq begun
  /\ phase \in {"closing", "metrics", "exited"} => spawned \subseteq begun
  /\ phase \in {"metrics", "exited"} =>
       begun \subseteq resolved /\ (scrape = "none" => now - termAt <= flushBound)

release(c) == entered[c] + DelayThreshold
sentBefore(t) == {c \in Calls : sent[c] >= 0 /\ sent[c] < t}

(* While a batch waits past its delay every goroutine is busy: each further
   Timeout of waiting has seen all of them take another batch. *)
Backlog ==
  \A c \in begun : sent[c] = -1 =>
    \A k, t \in Nat : release(c) + k * Timeout < t /\ t <= now =>
      Cardinality(sentBefore(t)) >= senders * (k + 1)

(* So a batch is sent in the last of the turns at the latest. *)
Served ==
  \A c \in Calls : sent[c] >= 0 => sent[c] <= release(c) + Timeout * (rounds - 1)

Inv ==
  /\ TypeOK /\ Punctual /\ AfterSignal /\ Backlog /\ Served
  /\ ShutdownBounded /\ DrainCompletes /\ GraceSuffices

LEMMA CallsFinite ==
  /\ Cardinality(Calls) \in Nat
  /\ \A S \in SUBSET Calls : Cardinality(S) \in Nat /\ Cardinality(S) <= Cardinality(Calls)
BY TimingAssumption, FS_CardinalityType, FS_Subset

(* The turns hold a batch of every call. *)
LEMMA RoundsSuffice ==
  ASSUME senders \in Senders
  PROVE  /\ rounds \in Nat /\ senders * rounds >= Cardinality(Calls)
         /\ \A c \in Calls : rounds >= 1
<1> DEFINE n == Cardinality(Calls)
           a == n + senders - 1
           q == a \div senders
<1>1. n \in Nat /\ senders \in Nat \ {0} /\ a \in Nat
  BY CallsFinite, TimingAssumption
<1>2. q \in Nat /\ senders * q <= a /\ a < senders * q + senders
  <2> HIDE DEF a
  <2> QED
    BY <1>1
<1>3. senders * q >= n
  <2> DEFINE p == senders * q
  <2>1. p \in Nat /\ n + senders - 1 < p + senders
    BY <1>1, <1>2
  <2> HIDE DEF p
  <2>2. p >= n
    BY <1>1, <2>1
  <2> QED
    BY <2>2 DEF p
<1>4. ASSUME NEW c \in Calls PROVE q >= 1
  <2>1. n # 0
    BY TimingAssumption, FS_EmptySet
  <2> SUFFICES ASSUME q = 0 PROVE FALSE
    BY <1>2
  <2>2. senders * q = 0
    BY <1>1
  <2> QED
    BY <1>1, <1>3, <2>1, <2>2
<1> QED
  BY <1>2, <1>3, <1>4 DEF rounds

LEMMA FlushBoundType ==
  ASSUME senders \in Senders PROVE flushBound \in Nat
<1>1. rounds \in Nat
  BY RoundsSuffice
<1>2. Timeout * rounds \in Nat
  BY <1>1, TimingAssumption
<1> QED
  BY <1>2, TimingAssumption DEF flushBound

(* A batch that has not been sent is still within its turns. *)
LEMMA Turn ==
  ASSUME TypeOK, Backlog, Punctual, NEW c \in begun, sent[c] = -1
  PROVE  now <= release(c) + Timeout * (rounds - 1)
<1> USE TimingAssumption DEF TypeOK
<1> DEFINE k == rounds - 1
<1>1. c \in Calls /\ entered[c] \in Nat /\ release(c) \in Nat
  BY DEF begun, release
<1>2. k \in Nat /\ senders * (k + 1) >= Cardinality(Calls) /\ k * Timeout = Timeout * k
  BY <1>1, RoundsSuffice
<1>3. sentBefore(now) \in SUBSET Calls /\ sentBefore(now) # Calls
  BY <1>1 DEF sentBefore
<1>4. Cardinality(sentBefore(now)) < Cardinality(Calls)
  BY <1>3, CallsFinite, FS_Subset
<1> HIDE DEF k
<1>5. ~(release(c) + k * Timeout < now)
  BY <1>2, <1>3, <1>4, CallsFinite DEF Backlog
<1>6. k * Timeout \in Nat
  BY <1>2
<1> QED
  BY <1>1, <1>2, <1>5, <1>6 DEF k

LEMMA InitInv == Init => Inv
BY TimingAssumption
DEF Init, Inv, TypeOK, Phases, Scrapes, Punctual, AfterSignal, begun, Backlog, Served, ShutdownBounded,
    DrainCompletes, GraceSuffices

(* What the steps that neither begin a call, send a batch nor let time pass
   leave as it is. *)
LEMMA Unmoved ==
  ASSUME UNCHANGED <<now, senders, entered, sent>>
  PROVE  /\ begun' = begun /\ flushBound' = flushBound
         /\ (Backlog => Backlog') /\ (Served => Served')
BY DEF begun, flushBound, rounds, Backlog, Served, release, sentBefore

LEMMA StepPublish ==
  ASSUME Inv, NEW c \in Calls, Publish(c) PROVE Inv'
<1> USE TimingAssumption DEF Inv, TypeOK, Phases
<1>0. UNCHANGED <<now, senders, grace, phase, termAt, spawned, sent, returned, resolved, scrape>>
  BY DEF Publish, setVars
<1>1. /\ begun' = begun \cup {c} /\ c \notin begun /\ entered'[c] = now
      /\ rounds' = rounds /\ flushBound' = flushBound
  BY <1>0 DEF Publish, begun, rounds, flushBound
<1>2. \A d \in begun : entered'[d] = entered[d]
  BY <1>1 DEF Publish
<1>3. /\ phase # "running" => now = termAt
      /\ phase \in {"running", "cancelled", "draining"}
  BY <1>1 DEF AfterSignal, Publish, ended
<1>4. TypeOK'
  BY <1>0 DEF Publish
<1>5. Punctual' /\ AfterSignal'
  BY <1>0, <1>1, <1>2, <1>3 DEF Publish, Punctual, AfterSignal
<1>6. Backlog'
  <2>1. \A k \in Nat : k * Timeout \in Nat
    OBVIOUS
  <2>2. \A t : sentBefore(t)' = sentBefore(t)
    BY <1>0 DEF sentBefore
  <2>3. \A k, t \in Nat : t <= now => ~(now + DelayThreshold + k * Timeout < t)
    BY <2>1
  <2> QED
    BY <1>0, <1>1, <1>2, <2>2, <2>3 DEF Backlog, release
<1>7. Served'
  BY <1>0, <1>1, <1>2 DEF Served, Punctual, release
<1> QED
  BY <1>0, <1>1, <1>3, <1>4, <1>5, <1>6, <1>7
  DEF ShutdownBounded, DrainCompletes, GraceSuffices

LEMMA StepSend ==
  ASSUME Inv, NEW c \in Calls, Send(c) PROVE Inv'
<1> USE TimingAssumption DEF Inv, TypeOK, Phases
<1>0. UNCHANGED <<now, senders, grace, phase, termAt, spawned, entered, returned, resolved, scrape>>
  BY DEF Send, setVars
<1>1. /\ begun' = begun /\ rounds' = rounds /\ flushBound' = flushBound
      /\ sent'[c] = now /\ \A d \in Calls : d # c => sent'[d] = sent[d]
  BY <1>0 DEF Send, begun, rounds, flushBound
<1>2. TypeOK'
  BY <1>0 DEF Send
<1>3. Punctual' /\ AfterSignal'
  BY <1>0, <1>1 DEF Send, Punctual, AfterSignal
<1>4. Backlog'
  <2>1. \A t \in Nat : t <= now => sentBefore(t)' = sentBefore(t)
    BY <1>0, <1>1 DEF Send, sentBefore
  <2> QED
    BY <1>0, <1>1, <2>1 DEF Send, Backlog, release, begun
<1>5. Served'
  <2>1. now <= release(c) + Timeout * (rounds - 1)
    BY Turn DEF Send
  <2> QED
    BY <1>0, <1>1, <2>1 DEF Served, release
<1> QED
  BY <1>0, <1>1, <1>2, <1>3, <1>4, <1>5
  DEF ShutdownBounded, DrainCompletes, GraceSuffices

LEMMA StepSpawn ==
  ASSUME Inv, NEW c \in Calls, Spawn(c) PROVE Inv'
<1> USE TimingAssumption DEF Inv, TypeOK, Phases
<1>1. /\ UNCHANGED <<now, senders, grace, phase, termAt, entered, sent, returned, resolved, scrape>>
      /\ spawned' = spawned \cup {c} /\ phase \in {"running", "cancelled"}
  BY DEF Spawn, setVars
<1>2. begun' = begun /\ flushBound' = flushBound /\ Backlog' /\ Served'
  BY <1>1, Unmoved
<1>3. TypeOK' /\ Punctual' /\ AfterSignal'
  BY <1>1, <1>2 DEF Punctual, AfterSignal
<1> QED
  BY <1>1, <1>2, <1>3 DEF ShutdownBounded, DrainCompletes, GraceSuffices

(* Time passes only when nothing is due: a batch that waits past its delay
   finds every goroutine with a batch that it took less than Timeout ago. *)
LEMMA TickBacklog ==
  ASSUME Inv, Tick PROVE Backlog'
<1> USE TimingAssumption DEF Inv, TypeOK
<1>1. /\ now' = now + 1 /\ begun' = begun /\ sent' = sent /\ senders' = senders
      /\ entered' = entered /\ \A t : sentBefore(t)' = sentBefore(t)
  BY DEF Tick, callVars, setVars, begun, sentBefore
<1> SUFFICES ASSUME NEW c \in begun, sent[c] = -1, NEW k \in Nat,
                    release(c) + k * Timeout < now + 1
             PROVE  Cardinality(sentBefore(now + 1)) >= senders * (k + 1)
  BY <1>1 DEF Backlog, release
<1>2. c \in Calls /\ release(c) \in Nat /\ k * Timeout \in Nat
  BY DEF begun, release
<1>3. Cardinality(sending) >= senders /\ Cardinality(sending) \in Nat
  <2>1. now >= entered[c] + DelayThreshold
    BY <1>2 DEF release
  <2>2. sending \in SUBSET Calls
    BY DEF sending
  <2> QED
    BY <2>1, <2>2, CallsFinite DEF Tick, batchDue, free
<1>4. \A d \in sending : now < sent[d] + Timeout /\ sent[d] <= now /\ sent[d] >= 0
  BY DEF Tick, sending, messageDue, Punctual
<1>5. sending \in SUBSET sentBefore(now + 1) /\ sentBefore(now + 1) \in SUBSET Calls
  BY <1>4 DEF sending, sentBefore
<1>6. CASE k = 0
  BY <1>3, <1>5, <1>6, CallsFinite, FS_Subset
<1>7. CASE k # 0
  <2> DEFINE t == now + 1 - Timeout
             old == sentBefore(t)
  <2>1. k - 1 \in Nat /\ k * Timeout = (k - 1) * Timeout + Timeout
    BY <1>7
  <2>2. t \in Nat /\ t <= now /\ release(c) + (k - 1) * Timeout < t
    BY <1>2, <2>1
  <2>3. Cardinality(old) >= senders * k
    <3> DEFINE j == k - 1
    <3>1. j \in Nat /\ release(c) + j * Timeout < t /\ t \in Nat /\ t <= now /\ j + 1 = k
      BY <2>1, <2>2
    <3> HIDE DEF t, j
    <3>2. Cardinality(sentBefore(t)) >= senders * (j + 1)
      BY <3>1 DEF Backlog
    <3> QED
      BY <3>1, <3>2
  <2>4. /\ old \cap sending = {} /\ old \in SUBSET Calls /\ sending \in SUBSET Calls
        /\ old \cup sending \in SUBSET sentBefore(now + 1)
    BY <1>4, <1>5, <2>2 DEF sentBefore, sending
  <2>5. Cardinality(old \cup sending) = Cardinality(old) + Cardinality(sending)
    <3>1. IsFiniteSet(old) /\ IsFiniteSet(sending) /\ Cardinality(old \cap sending) = 0
      BY <2>4, FS_Subset, FS_EmptySet
    <3> HIDE DEF old
    <3>2. Cardinality(old) \in Nat /\ Cardinality(sending) \in Nat
      BY <3>1, FS_CardinalityType
    <3>3. Cardinality(old \cup sending) =
            Cardinality(old) + Cardinality(sending) - Cardinality(old \cap sending)
      BY <3>1, FS_Union
    <3> QED
      BY <3>1, <3>2, <3>3
  <2>6. Cardinality(sentBefore(now + 1)) >= Cardinality(old \cup sending)
    BY <1>5, <2>4, TimingAssumption, FS_Subset
  <2>7. Cardinality(old) \in Nat /\ Cardinality(sentBefore(now + 1)) \in Nat
    BY <1>5, <2>4, CallsFinite
  <2>8. senders * (k + 1) = senders * k + senders /\ senders * k \in Nat
    BY DEF TypeOK
  <2> HIDE DEF old
  <2> QED
    BY <1>3, <2>3, <2>5, <2>6, <2>7, <2>8
<1> QED
  BY <1>6, <1>7

LEMMA StepTick ==
  ASSUME Inv, Tick PROVE Inv'
<1> USE TimingAssumption DEF Inv, TypeOK, Phases
<1>0. /\ UNCHANGED <<senders, grace, phase, termAt, spawned, entered, sent, returned,
                      resolved, scrape>>
      /\ spawned \subseteq begun
  BY DEF Tick, callVars, setVars
<1>1. /\ begun' = begun /\ now' = now + 1
      /\ flushBound' = flushBound /\ rounds' = rounds
      /\ phase \in {"running", "draining", "closing", "metrics"}
  BY <1>0 DEF Tick, mainWaits, begun, rounds, flushBound
<1>2. \A c \in begun : c \in Calls /\ entered[c] \in Nat
  BY DEF begun
<1>3. TypeOK'
  BY <1>0, <1>1
<1>4. Punctual' /\ AfterSignal'
  <2>1. phase = "draining" => now < termAt + FlushTimeout
    BY DEF Tick, mainWaits, drainOver
  <2>2. \A c \in begun : c \in returned \/ now < entered[c] + PublishTimeout
    BY <1>2 DEF Tick, callDue
  <2>3. \A c \in Calls : sent[c] >= 0 => c \in resolved \/ now < sent[c] + Timeout
    BY DEF Tick, messageDue, sending, Punctual
  <2> QED
    <3>1. Punctual'
      BY <1>0, <1>1, <1>2, <2>1, <2>2, <2>3 DEF Punctual
    <3>2. AfterSignal'
      BY <1>0, <1>1 DEF Tick, mainWaits, AfterSignal
    <3> QED
      BY <3>1, <3>2
<1>5. Backlog' /\ Served'
  BY <1>0, <1>1, TickBacklog DEF Served, release
<1>6. ShutdownBounded'
  <2>1. CASE phase \in {"running", "metrics"}
    BY <1>0, <2>1 DEF ShutdownBounded
  <2>2. CASE phase \in {"draining", "closing"}
    <3>1. PICK c \in begun : c \notin resolved
      <4>1. CASE phase = "draining"
        <5>1. PICK c \in begun : c \notin returned
          BY <1>0, <4>1 DEF Tick, mainWaits, drainOver
        <5> QED
          BY <5>1 DEF Tick, callDue
      <4>2. CASE phase = "closing"
        BY <4>2 DEF Tick, mainWaits
      <4> QED
        BY <2>2, <4>1, <4>2
    <3>2. c \in Calls /\ entered[c] <= termAt /\ entered[c] \in Nat
      BY <1>2, <2>2, <3>1 DEF Punctual
    <3>3. rounds \in Nat /\ Timeout * (rounds - 1) + Timeout = Timeout * rounds
      BY RoundsSuffice
    <3>4. Timeout * (rounds - 1) \in Int
      BY <3>3
    <3>5. now + 1 <= entered[c] + flushBound
      <4>1. CASE sent[c] = -1
        BY <3>1, <3>2, <3>3, <3>4, <4>1, Turn DEF release, flushBound
      <4>2. CASE sent[c] # -1
        <5>1. sent[c] \in Nat /\ now < sent[c] + Timeout
          BY <3>1, <3>2, <4>2 DEF Tick, messageDue, sending, Punctual
        <5>2. sent[c] <= release(c) + Timeout * (rounds - 1)
          BY <3>2, <5>1 DEF Served
        <5> QED
          BY <3>2, <3>3, <3>4, <5>1, <5>2 DEF release, flushBound
      <4> QED
        BY <4>1, <4>2
    <3> QED
      BY <1>0, <1>1, <3>2, <3>5, FlushBoundType DEF ShutdownBounded
  <2> QED
    BY <1>1, <2>1, <2>2
<1> QED
  BY <1>0, <1>1, <1>3, <1>4, <1>5, <1>6 DEF DrainCompletes, GraceSuffices

LEMMA StepPhase ==
  ASSUME Inv, UNCHANGED <<now, setVars, callVars>>,
         Term \/ DoneCase \/ DrainEnds \/ CloseReturns \/ ScrapeEnds \/ Exit \/ Kill
  PROVE  Inv'
<1> USE TimingAssumption DEF Inv, TypeOK, Phases
<1>0. UNCHANGED <<now, senders, grace, spawned, entered, sent, returned, resolved>>
  BY DEF callVars, setVars
<1>1. begun' = begun /\ flushBound' = flushBound /\ Backlog' /\ Served'
  BY <1>0, Unmoved
<1>2. flushBound \in Nat
  BY FlushBoundType
<1>3. CASE Term
  BY <1>0, <1>1, <1>2, <1>3
  DEF Term, Punctual, AfterSignal, ShutdownBounded, DrainCompletes, GraceSuffices
<1>4. CASE DoneCase
  BY <1>0, <1>1, <1>4
  DEF DoneCase, Punctual, AfterSignal, ShutdownBounded, DrainCompletes, GraceSuffices
<1>5. CASE DrainEnds
  <2>1. spawned \subseteq begun
    BY <1>5 DEF DrainEnds, drainOver, Punctual, AfterSignal
  <2>2. TypeOK' /\ Punctual' /\ AfterSignal' /\ ShutdownBounded' /\ GraceSuffices'
    BY <1>0, <1>1, <1>5, <2>1
    DEF DrainEnds, Punctual, AfterSignal, ShutdownBounded, GraceSuffices
  <2>3. PublishTimeout < FlushTimeout => spawned \subseteq returned
    BY <1>5, <2>1 DEF DrainEnds, drainOver, Punctual, begun
  <2> QED
    BY <1>0, <1>1, <1>5, <2>2, <2>3 DEF DrainEnds, DrainCompletes
<1>6. CASE CloseReturns
  <2>1. TypeOK'
    BY <1>0, <1>6 DEF CloseReturns, Scrapes
  <2> QED
    BY <1>0, <1>1, <1>6, <2>1
    DEF CloseReturns, Punctual, AfterSignal, ShutdownBounded, DrainCompletes, GraceSuffices
<1>7. CASE ScrapeEnds
  <2>1. TypeOK'
    BY <1>0, <1>7 DEF ScrapeEnds, Scrapes
  <2> QED
    BY <1>0, <1>1, <1>7, <2>1
    DEF ScrapeEnds, ended, Punctual, AfterSignal, ShutdownBounded, DrainCompletes,
        GraceSuffices
<1>8. CASE Exit
  BY <1>0, <1>1, <1>8
  DEF Exit, Punctual, AfterSignal, ShutdownBounded, DrainCompletes, GraceSuffices
<1>9. CASE Kill
  <2>1. grace > flushBound => begun \subseteq resolved /\ scrape # "none"
    BY <1>2, <1>9 DEF Kill, ended, AfterSignal, ShutdownBounded
  <2> QED
    BY <1>0, <1>1, <1>9, <2>1
    DEF Kill, Punctual, AfterSignal, ShutdownBounded, DrainCompletes, GraceSuffices
<1> QED
  BY <1>3, <1>4, <1>5, <1>6, <1>7, <1>8, <1>9

LEMMA StepInv == Inv /\ [Next]_vars => Inv'
<1> SUFFICES ASSUME Inv, [Next]_vars PROVE Inv'
  OBVIOUS
<1> USE TimingAssumption DEF Inv, TypeOK, Phases
<1>1. ASSUME NEW c \in Calls, Spawn(c) \/ Publish(c) \/ Send(c) PROVE Inv'
  BY <1>1, StepSpawn, StepPublish, StepSend
<1>2. ASSUME NEW c \in Calls, Resolve(c) \/ Return(c) PROVE Inv'
  <2>0. UNCHANGED <<now, senders, grace, phase, termAt, spawned, entered, sent, scrape>>
    BY <1>2 DEF Resolve, Return, setVars
  <2>1. begun' = begun /\ flushBound' = flushBound /\ Backlog' /\ Served'
    BY <2>0, Unmoved
  <2>2. TypeOK' /\ Punctual' /\ AfterSignal'
    BY <1>2, <2>0, <2>1 DEF Resolve, Return, Punctual, AfterSignal, sending
  <2>3. /\ resolved \subseteq resolved' /\ returned \subseteq returned'
        /\ phase # "killed"
    BY <1>2 DEF Resolve, Return, ended
  <2> QED
    BY <2>0, <2>1, <2>2, <2>3 DEF ShutdownBounded, DrainCompletes, GraceSuffices
<1>3. CASE Term \/ DoneCase \/ DrainEnds \/ CloseReturns \/ ScrapeEnds \/ Exit \/ Kill
  <2>1. UNCHANGED <<now, setVars, callVars>>
    BY <1>3 DEF Term, DoneCase, DrainEnds, CloseReturns, ScrapeEnds, Exit, Kill
  <2> QED
    BY <1>3, <2>1, StepPhase
<1>4. CASE Tick
  BY <1>4, StepTick
<1>5. CASE UNCHANGED vars
  <2>0. UNCHANGED <<now, senders, grace, phase, termAt, spawned, entered, sent, returned,
                    resolved, scrape>>
    BY <1>5 DEF vars, callVars, setVars
  <2>1. begun' = begun /\ flushBound' = flushBound /\ Backlog' /\ Served'
    BY <2>0, Unmoved
  <2> QED
    BY <2>0, <2>1
    DEF Punctual, AfterSignal, ShutdownBounded, DrainCompletes, GraceSuffices
<1> QED
  BY <1>1, <1>2, <1>3, <1>4, <1>5 DEF Next, Terminated

(* The invariant from which the properties follow. *)
THEOREM Safety == Spec => []Inv
BY InitInv, StepInv, PTL DEF Spec

(* Every clock, set and phase of the shutdown keeps its type (main.go:91-121). *)
THEOREM TimingTypes == Spec => []TypeOK
BY Safety, PTL DEF Inv

(* From SIGTERM to the return of Close it takes no longer than the client's
   flush, one Timeout for each turn of the goroutines, for every backlog and
   every setting of the timeouts: --flush-timeout only decides when the drain
   gives up. *)
THEOREM ShutdownTime == Spec => []ShutdownBounded
BY Safety, PTL DEF Inv

(* A drain that is given more time than one call never times out on one. *)
THEOREM DrainTime == Spec => []DrainCompletes
BY Safety, PTL DEF Inv

(* A grace period longer than the flush is used up by nothing but a scrape
   that main waits for, and then the client holds no message. *)
THEOREM GraceTime == Spec => []GraceSuffices
BY Safety, PTL DEF Inv

-----------------------------------------------------------------------------
(* ShutdownTiming implements ShutdownOrder.                                *)

OVars == <<orderPhase, message>>

LEMMA OrderedCall ==
  ASSUME Inv, NEW c \in Calls, Spawn(c) \/ Publish(c) \/ Resolve(c)
  PROVE  Ordered!Next
<1> USE DEF Inv, TypeOK, Phases
<1>1. UNCHANGED orderPhase
  BY DEF Spawn, Publish, Resolve, orderPhase
<1>2. CASE Spawn(c)
  <2>1. /\ begun' = begun /\ spawned' = spawned \cup {c} /\ c \notin spawned /\ c \notin begun
        /\ UNCHANGED resolved /\ orderPhase = "running"
    BY <1>2 DEF Spawn, begun, Punctual, orderPhase
  <2>2. message[c] = "none" /\ message' = [message EXCEPT ![c] = "begun"]
    BY <2>1 DEF message
  <2>3. Ordered!Begin(c)
    BY <1>1, <2>1, <2>2 DEF Ordered!Begin
  <2> QED
    BY <2>3 DEF Ordered!Next
<1>3. CASE Publish(c)
  <2>1. /\ begun' = begun \cup {c} /\ c \notin begun /\ c \in spawned /\ c \notin resolved
        /\ UNCHANGED <<spawned, resolved>>
    BY <1>3 DEF Publish, begun, Punctual
  <2>2. message[c] = "begun" /\ message' = [message EXCEPT ![c] = "held"]
    BY <2>1 DEF message
  <2>3. Ordered!Hand(c)
    BY <1>1, <1>3, <2>2 DEF Publish, ended, orderPhase, Ordered!alive, Ordered!Hand
  <2> QED
    BY <2>3 DEF Ordered!Next
<1>4. CASE Resolve(c)
  <2>1. /\ begun' = begun /\ resolved' = resolved \cup {c} /\ UNCHANGED spawned
        /\ c \in begun /\ c \in spawned /\ c \notin resolved
    BY <1>4 DEF Resolve, begun, sending, Punctual
  <2>2. /\ \A d \in {c} : message[d] = "held"
        /\ message' = [d \in Calls |-> IF d \in {c} THEN "settled" ELSE message[d]]
    BY <2>1 DEF message
  <2>3. Ordered!Settle({c})
    BY <1>1, <1>4, <2>2 DEF Resolve, ended, orderPhase, Ordered!alive, Ordered!Settle
  <2> QED
    BY <2>3 DEF Ordered!Next
<1> QED
  BY <1>2, <1>3, <1>4

LEMMA OrderedStep == Inv /\ [Next]_vars => [Ordered!Next]_OVars
<1> SUFFICES ASSUME Inv, [Next]_vars PROVE Ordered!Next \/ UNCHANGED OVars
  OBVIOUS
<1> USE DEF Inv, TypeOK, Phases
<1>1. ASSUME NEW c \in Calls, Spawn(c) \/ Publish(c) \/ Resolve(c) PROVE Ordered!Next
  BY <1>1, OrderedCall
<1>2. ASSUME UNCHANGED <<spawned, entered, resolved>> PROVE UNCHANGED message
  BY <1>2 DEF message, begun
<1>3. ASSUME NEW c \in Calls, Send(c) \/ Return(c) PROVE UNCHANGED OVars
  BY <1>2, <1>3 DEF Send, Return, OVars, orderPhase
<1>4. CASE Term \/ CloseReturns \/ ScrapeEnds \/ Tick \/ UNCHANGED vars
  <2>1. UNCHANGED message
    BY <1>2, <1>4 DEF Term, CloseReturns, ScrapeEnds, Tick, vars, callVars
  <2>2. UNCHANGED orderPhase
    BY <1>4 DEF Term, CloseReturns, ScrapeEnds, Tick, vars, orderPhase
  <2> QED
    BY <2>1, <2>2 DEF OVars
<1>5. CASE DoneCase
  BY <1>2, <1>5 DEF DoneCase, callVars, orderPhase, Ordered!Next, Ordered!Drain
<1>6. CASE DrainEnds
  BY <1>2, <1>6 DEF DrainEnds, callVars, orderPhase, Ordered!Next, Ordered!Close
<1>7. CASE Exit
  <2>1. \A c \in Calls : message[c] # "held"
    BY <1>7 DEF Exit, AfterSignal, message
  <2> QED
    BY <1>2, <1>7, <2>1 DEF Exit, callVars, orderPhase, Ordered!Next, Ordered!Exit
<1>8. CASE Kill
  <2>1. phase \in {"draining", "closing", "metrics"}
    BY <1>8, TimingAssumption DEF Kill, ended, AfterSignal
  <2> QED
    BY <1>2, <1>8, <2>1 DEF Kill, callVars, orderPhase, Ordered!Next, Ordered!Die
<1> QED
  BY <1>1, <1>3, <1>4, <1>5, <1>6, <1>7, <1>8 DEF Next, Terminated

(* The timed shutdown keeps the order of the untimed one, for every backlog
   and every setting: nothing begins once the drain has, and only a kill ends
   the process while the client holds a message. *)
THEOREM TimedShutdownInOrder == Spec => KeepsShutdownOrder
<1>1. Init => Ordered!Init
  BY DEF Init, Ordered!Init, message, orderPhase
<1>2. Spec => Ordered!Init /\ [][Ordered!Next]_OVars
  BY <1>1, OrderedStep, Safety, PTL DEF Spec
<1> QED
  BY <1>2 DEF KeepsShutdownOrder, Ordered!Spec, OVars
=============================================================================
