---------------------------- MODULE ShutdownTiming ----------------------------
(***************************************************************************)
(* How long the shutdown of test-go-publisher takes, in discrete time: the *)
(* drain of main.go, bounded by --flush-timeout; the Publish calls, each   *)
(* bounded by publishTimeout; the flush inside Close, bounded by the       *)
(* client's DelayThreshold, its Timeout and the number of batches it sends *)
(* at once; the scrape that the metrics server may be serving last; and    *)
(* the grace period after which Kubernetes kills the container.  Whatever  *)
(* is due now happens before time advances; computing takes no time.       *)
(* Publisher and Harness have the same steps in full and no clock.         *)
(***************************************************************************)
EXTENDS Integers, FiniteSets

CONSTANTS
  Calls,           \* the Publish calls around the end of the process, each
                   \* with a batch of its own
  FlushTimeout,    \* --flush-timeout
  PublishTimeout,  \* defaultPublishTimeout
  DelayThreshold,  \* PublishSettings.DelayThreshold
  Timeout,         \* PublishSettings.Timeout
  Senders,         \* how many batches the client may send at once:
                   \* PublishSettings.NumGoroutines, which is not configured
  Graces,          \* values considered for terminationGracePeriodSeconds
  LastStart        \* bound on the time before SIGTERM

(* A drain of no time at all, which Close may follow before a goroutine has
   called Publish, is Harness's. *)
ASSUME TimingAssumption ==
  /\ FlushTimeout \in Nat \ {0} /\ PublishTimeout \in Nat /\ DelayThreshold \in Nat
  /\ IsFiniteSet(Calls) /\ Senders \subseteq Nat \ {0}
  /\ Timeout \in Nat \ {0} /\ Graces \subseteq Nat \ {0} /\ LastStart \in Nat

VARIABLES
  now,
  senders,    \* publish goroutines of the client, one batch each
  grace,      \* terminationGracePeriodSeconds of the deployment
  phase,      \* what main is doing
  termAt,     \* when SIGTERM came
  spawned,    \* calls whose goroutine has been started
  entered,    \* when each call of Publish began, -1 before
  sent,       \* when its batch got a goroutine, -1 before
  returned,   \* calls that have returned
  resolved,   \* calls whose message the client has resolved
  scrape      \* the scrape that metricsSrv.Shutdown finds, if any

callVars  == <<spawned, entered, sent, returned, resolved>>
setVars   == <<senders, grace>>
vars      == <<now, setVars, phase, termAt, callVars, scrape>>

Phases  == {"running", "cancelled", "draining", "closing", "metrics", "exited", "killed"}
Scrapes == {"none", "serving", "served"}

Init ==
  /\ now = 0 /\ senders \in Senders /\ grace \in Graces
  /\ phase = "running" /\ termAt = 0
  /\ spawned = {} /\ returned = {} /\ resolved = {}
  /\ entered = [c \in Calls |-> -1] /\ sent = [c \in Calls |-> -1]
  /\ scrape = "none"

begun == {c \in Calls : entered[c] >= 0}
ended == phase \in {"exited", "killed"}

sending == {c \in Calls : sent[c] >= 0 /\ c \notin resolved}
free == Cardinality(sending) < senders

(* The batches of all calls need this many turns of the goroutines.  The
   client resolves a message this long after it was handed over at the
   latest: the wait in the bundle, then one Timeout for each turn. *)
rounds == (Cardinality(Calls) + senders - 1) \div senders
flushBound == DelayThreshold + Timeout * rounds

(* The shutdown as ShutdownOrder sees it, where the loop runs until it takes
   its ctx.Done case and Close covers the end of the metrics server. *)
orderPhase ==
  CASE phase = "cancelled" -> "running"
    [] phase = "metrics"   -> "closing"
    [] OTHER               -> phase
message ==
  [c \in Calls |-> IF c \notin spawned THEN "none"
                   ELSE IF c \notin begun THEN "begun"
                   ELSE IF c \in resolved THEN "settled" ELSE "held"]
Ordered == INSTANCE ShutdownOrder WITH phase <- orderPhase

-----------------------------------------------------------------------------
(* The calls and the client.                                               *)

(* Faulty variant: the generator goes on until the drain ends. *)
Spawn_WhileDraining(c) ==
  /\ phase \in {"running", "cancelled", "draining"} /\ c \notin spawned
  /\ spawned' = spawned \cup {c}
  /\ UNCHANGED <<now, setVars, phase, termAt, entered, sent, returned, resolved, scrape>>

(* The catch-up loop starts a goroutine: until main takes its ctx.Done case
   it may still do so, in a loop it has begun or for one more tick. *)
Spawn(c) ==
  /\ phase \in {"running", "cancelled"} /\ c \notin spawned
  /\ spawned' = spawned \cup {c}
  /\ UNCHANGED <<now, setVars, phase, termAt, entered, sent, returned, resolved, scrape>>

(* The goroutine calls Publish with what it has built; one whose build fails
   ends at once and is left out. *)
Publish(c) ==
  /\ ~ended /\ c \in spawned /\ entered[c] = -1
  /\ entered' = [entered EXCEPT ![c] = now]
  /\ UNCHANGED <<now, setVars, phase, termAt, spawned, sent, returned, resolved, scrape>>

(* A goroutine takes the batch: at any time, since the bundle may be full or
   older than its last message. *)
Send(c) ==
  /\ ~ended /\ c \in begun /\ sent[c] = -1 /\ free
  /\ sent' = [sent EXCEPT ![c] = now]
  /\ UNCHANGED <<now, setVars, phase, termAt, spawned, entered, returned, resolved, scrape>>

Resolve(c) ==
  /\ ~ended /\ c \in sending
  /\ resolved' = resolved \cup {c}
  /\ UNCHANGED <<now, setVars, phase, termAt, spawned, entered, sent, returned, scrape>>

Return(c) ==
  /\ ~ended /\ c \in begun \ returned
  /\ c \in resolved \/ now >= entered[c] + PublishTimeout
  /\ returned' = returned \cup {c}
  /\ UNCHANGED <<now, setVars, phase, termAt, spawned, entered, sent, resolved, scrape>>

-----------------------------------------------------------------------------
(* The shutdown.                                                           *)

(* The goroutine that reads sigChan calls cancel(). *)
Term ==
  /\ phase = "running"
  /\ phase' = "cancelled" /\ termAt' = now
  /\ UNCHANGED <<now, setVars, callVars, scrape>>

(* The ctx.Done() case of the select. *)
DoneCase ==
  /\ phase = "cancelled"
  /\ phase' = "draining"
  /\ UNCHANGED <<now, setVars, termAt, callVars, scrape>>

(* Faulty variant: the drain is bounded by the wrong setting. *)
drainOver_ByDelay == spawned \subseteq returned \/ now >= termAt + DelayThreshold

drainOver == spawned \subseteq returned \/ now >= termAt + FlushTimeout

DrainEnds ==
  /\ phase = "draining" /\ drainOver
  /\ phase' = "closing"
  /\ UNCHANGED <<now, setVars, termAt, callVars, scrape>>

(* publisher.Close() returns, and metricsSrv.Shutdown finds a scrape being
   served or none. *)
CloseReturns ==
  /\ phase = "closing" /\ begun \subseteq resolved
  /\ phase' = "metrics" /\ scrape' \in {"none", "serving"}
  /\ UNCHANGED <<now, setVars, termAt, callVars>>

ScrapeEnds ==
  /\ ~ended /\ scrape = "serving"
  /\ scrape' = "served"
  /\ UNCHANGED <<now, setVars, phase, termAt, callVars>>

Exit ==
  /\ phase = "metrics" /\ scrape # "serving"
  /\ phase' = "exited"
  /\ UNCHANGED <<now, setVars, termAt, callVars, scrape>>

Kill ==
  /\ ~ended /\ phase # "running" /\ now >= termAt + grace
  /\ phase' = "killed"
  /\ UNCHANGED <<now, setVars, termAt, callVars, scrape>>

-----------------------------------------------------------------------------
(* Time.                                                                   *)

(* The delay of the bundle is over, or Stop flushes it. *)
batchDue(c) ==
  sent[c] = -1 /\ free /\ (now >= entered[c] + DelayThreshold \/ phase = "closing")

(* Faulty variant: the client's Timeout counts for each attempt. *)
messageDue_TwoAttempts(c) == c \in sending /\ now >= sent[c] + 2 * Timeout

messageDue(c) == c \in sending /\ now >= sent[c] + Timeout

callDue(c) ==
  c \notin returned /\ (c \in resolved \/ now >= entered[c] + PublishTimeout)

(* What main waits for: events, the drain, the flush, or a scrape, which
   nothing limits. *)
mainWaits ==
  \/ phase = "running" /\ now < LastStart
  \/ phase = "draining" /\ ~drainOver
  \/ phase = "closing" /\ ~(begun \subseteq resolved)
  \/ phase = "metrics" /\ scrape = "serving"

Tick ==
  /\ mainWaits /\ (phase = "running" \/ now < termAt + grace)
  /\ spawned \subseteq begun
  /\ \A c \in begun : ~batchDue(c) /\ ~messageDue(c) /\ ~callDue(c)
  /\ now' = now + 1
  /\ UNCHANGED <<setVars, phase, termAt, callVars, scrape>>

Terminated == ended /\ UNCHANGED vars

Next ==
  \/ \E c \in Calls : Spawn(c) \/ Publish(c) \/ Send(c) \/ Resolve(c) \/ Return(c)
  \/ Term \/ DoneCase \/ DrainEnds \/ CloseReturns \/ ScrapeEnds \/ Exit \/ Kill
  \/ Tick \/ Terminated

Spec == Init /\ [][Next]_vars

-----------------------------------------------------------------------------
(* Properties.                                                             *)

TypeOK ==
  /\ now \in Nat /\ senders \in Senders /\ grace \in Graces
  /\ phase \in Phases /\ termAt \in Nat /\ scrape \in Scrapes
  /\ entered \in [Calls -> Nat \cup {-1}] /\ sent \in [Calls -> Nat \cup {-1}]
  /\ spawned \subseteq Calls /\ returned \subseteq Calls /\ resolved \subseteq Calls

(* From SIGTERM to the return of publisher.Close it takes no longer than the
   flush, whatever --flush-timeout is: the drain and the flush overlap, since
   main sees the signal at once and starts nothing more, and a call whose
   message is resolved holds the drain up no longer (main.go:99-110,
   publisher.go:128-137, 162).  Buffering is unbounded and Timeout counts only
   from when a batch gets a goroutine (publisher.go:102-108, 130-134), so in an
   outage the flush grows with the backlog: one Timeout for each turn. *)
ShutdownBounded ==
  phase \in {"cancelled", "draining", "closing"} => now - termAt <= flushBound

(* The drain ends by itself, with every call returned, if it is given more
   time than one call: Close then keeps the contract of publisher.go:36-38,
   although goroutines may have been started after the signal, while main had
   yet to see it.  The defaults of the two are equal (main.go:58,
   publisher.go:93). *)
DrainCompletes ==
  PublishTimeout < FlushTimeout /\ phase \in {"closing", "metrics", "exited"} =>
    spawned \subseteq returned

(* "Graceful termination period to allow flushing pending messages"
   (kubernetes/test-go-publisher-deploy.yaml:67-68): the container is not
   killed while the client still holds a message. *)
GraceAllowsFlush == phase = "killed" => begun \subseteq resolved

(* A grace period longer than the flush keeps that promise, whatever becomes
   of the drain.  It is still used up if metricsSrv.Shutdown, which has no
   deadline, waits for a scrape (main.go:111), and in no other way. *)
GraceSuffices ==
  grace > flushBound /\ phase = "killed" => begun \subseteq resolved /\ scrape # "none"

(* With the clock, the timeouts and the kill of the container the shutdown
   keeps the order of main.go:91-121: what begins between the signal and the
   ctx.Done case is drained and flushed like the rest, nothing begins once
   the drain has, and only a kill ends the process while the client holds a
   message. *)
KeepsShutdownOrder == Ordered!Spec
=============================================================================
