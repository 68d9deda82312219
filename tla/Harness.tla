------------------------------- MODULE Harness -------------------------------
(***************************************************************************)
(* The process of test-go-publisher: main's rate-paced loop, one goroutine *)
(* per event that builds a message and publishes it, the signal goroutine, *)
(* and the shutdown sequence, composed with Publisher.  One unit of now is *)
(* the time in which Rate events fall due; the events are numbered in the  *)
(* order of their creation and stand for the Publish calls of Publisher.   *)
(***************************************************************************)
EXTENDS Integers, FiniteSets

CONSTANTS
  Rate,            \* --rate, events per unit of time
  Durations,       \* the values of --duration considered, 0 for no limit
  MaxTime,         \* bound on the clock: the ticker goes on at MaxTime
  CountThreshold,  \* see Publisher
  MaxAttempts      \* see Publisher

ASSUME HarnessAssumption ==
  /\ Rate \in Nat /\ Durations \subseteq Nat /\ MaxTime \in Nat
  /\ CountThreshold \in Nat \ {0} /\ MaxAttempts \in Nat \ {0}

VARIABLES
  duration,        \* --duration
  now,             \* time since startTime
  tick,            \* the ticker's channel holds a tick
  main,            \* control point of main
  expected,        \* events that should exist, as of the last tick
  eventCount,      \* events spawned
  worker,          \* control point of the goroutine of each event
  wg,              \* the WaitGroup's counter
  generatedCount, publishErrors,   \* the harness counters
  heartbeat,       \* control point of the heartbeat goroutine
  beat,            \* generatedCount as the heartbeat has loaded it
  signalled,       \* sigChan: "none", "pending", or "taken" by its reader
  ctxDone,         \* cancel() has been called
  drained,         \* the drained channel: "none", "open" or "closed"
  timedOut,        \* the drain timed out
  scraping         \* metricsSrv.Shutdown waits for a scrape of /metrics

(* The variables of Publisher, whose calls are the events. *)
VARIABLES
  pc, outcome, expired, stage, sending, abandoned, attempts, copies, client,
  panicked, inflight, publishTotal, callDurations, resultDurations

Events == 1 .. Rate * MaxTime

P == INSTANCE Publisher WITH Calls <- Events
Contract == INSTANCE PublishContract WITH Calls <- Events, call <- P!callState

(* The shutdown as ShutdownOrder sees it. *)
phase ==
  IF panicked THEN "killed"
  ELSE CASE main \in {"select", "catchup"} -> "running"
         [] main = "drain"                 -> "draining"
         [] main \in {"close", "metrics"}  -> "closing"
         [] main = "exited"                -> "exited"
message ==
  [e \in Events |-> IF worker[e] = "unborn" THEN "none"
                    ELSE IF stage[e] = "none" THEN "begun"
                    ELSE IF stage[e] \in {"acked", "failed"} THEN "settled"
                    ELSE "held"]
Ordered == INSTANCE ShutdownOrder WITH Calls <- Events

publisherVars ==
  <<pc, outcome, expired, stage, sending, abandoned, attempts, copies, client,
    panicked, inflight, publishTotal, callDurations, resultDurations>>

heartVars    == <<heartbeat, beat>>
loopVars     == <<duration, now, tick, expected, eventCount>>
workerVars   == <<worker, wg, generatedCount, publishErrors, heartVars>>
shutdownVars == <<signalled, ctxDone, drained, timedOut, scraping>>
vars         == <<main, loopVars, workerVars, shutdownVars, publisherVars>>

Mains   == {"select", "catchup", "drain", "close", "metrics", "exited"}
Workers == {"unborn", "build", "publish", "exit", "gone"}

(* Workers die with the process, when main returns or any of them panics. *)
alive == main # "exited" /\ ~panicked

Init ==
  /\ duration \in Durations /\ now = 0 /\ tick = FALSE
  /\ main = "select" /\ expected = 0 /\ eventCount = 0
  /\ worker = [e \in Events |-> "unborn"]
  /\ wg = 0 /\ generatedCount = 0 /\ publishErrors = 0
  /\ heartbeat = "waiting" /\ beat = 0
  /\ signalled = "none" /\ ctxDone = FALSE
  /\ drained = "none" /\ timedOut = FALSE
  /\ scraping = FALSE
  /\ P!Init

-----------------------------------------------------------------------------
(* The environment.                                                        *)

(* Time advances and the ticker fires; a tick that finds another one waiting
   is dropped. *)
TimePasses ==
  /\ now' = IF now < MaxTime THEN now + 1 ELSE now
  /\ tick' = TRUE
  /\ UNCHANGED <<duration, main, expected, eventCount, workerVars,
                 shutdownVars, publisherVars>>

(* SIGINT or SIGTERM.  Only the first one has a reader. *)
SignalArrives ==
  /\ signalled = "none"
  /\ signalled' = "pending"
  /\ UNCHANGED <<main, loopVars, workerVars, ctxDone, drained, timedOut,
                 scraping, publisherVars>>

(* Faulty variant: the signal is logged and nothing is cancelled. *)
SignalHandled_NoCancel ==
  /\ signalled = "pending"
  /\ signalled' = "taken"
  /\ UNCHANGED <<main, loopVars, workerVars, ctxDone, drained, timedOut,
                 scraping, publisherVars>>

(* The goroutine that reads sigChan once and calls cancel(). *)
SignalHandled ==
  /\ signalled = "pending"
  /\ signalled' = "taken"
  /\ ctxDone' = TRUE
  /\ UNCHANGED <<main, loopVars, workerVars, drained, timedOut, scraping,
                 publisherVars>>

-----------------------------------------------------------------------------
(* The loop of main.                                                       *)

(* Faulty variant: every tick stands for one unit of time. *)
allDue_PerTick == expected + Rate

(* The events due since startTime, by the clock. *)
allDue == Rate * now

(* The ticker's case of the select; time.Since is read here ... *)
TickCase ==
  /\ main = "select" /\ tick
  /\ main' = "catchup"
  /\ tick' = FALSE
  /\ expected' = allDue
  /\ UNCHANGED <<duration, now, eventCount, workerVars, shutdownVars,
                 publisherVars>>

(* Faulty variants: one event too many; no wg.Add. *)
behind_OffByOne == eventCount <= expected
added_None == 0

behind   == eventCount < expected
caughtUp == eventCount >= expected
added    == 1

(* The body of the catch-up loop: wg.Add(1) before the go statement. *)
Spawn ==
  /\ main = "catchup" /\ behind
  /\ eventCount' = eventCount + 1
  /\ wg' = wg + added
  /\ worker' = [worker EXCEPT ![eventCount + 1] = "build"]
  /\ UNCHANGED <<duration, main, now, tick, expected, generatedCount,
                 publishErrors, heartVars, shutdownVars, publisherVars>>

(* ... and read again after the loop, for the duration. *)
CatchUpEnds ==
  /\ main = "catchup" /\ caughtUp
  /\ IF duration > 0 /\ now >= duration
     THEN main' = "drain" /\ ctxDone' = TRUE /\ drained' = "open"
     ELSE main' = "select" /\ UNCHANGED <<ctxDone, drained>>
  /\ UNCHANGED <<loopVars, workerVars, signalled, timedOut, scraping,
                 publisherVars>>

(* The ctx.Done() case of the select. *)
DoneCase ==
  /\ main = "select" /\ ctxDone
  /\ main' = "drain" /\ drained' = "open"
  /\ UNCHANGED <<loopVars, workerVars, signalled, ctxDone, timedOut, scraping,
                 publisherVars>>

-----------------------------------------------------------------------------
(* The goroutine of event e.                                               *)

(* The build fails, or Publish is called with the message. *)
Build(e) ==
  /\ worker[e] = "build"
  /\ \/ /\ worker' = [worker EXCEPT ![e] = "exit"]
        /\ publishErrors' = publishErrors + 1
        /\ UNCHANGED publisherVars
     \/ /\ worker' = [worker EXCEPT ![e] = "publish"]
        /\ P!Enter(e)
        /\ UNCHANGED publishErrors
  /\ UNCHANGED <<main, loopVars, wg, generatedCount, heartVars, shutdownVars>>

Publishing(e) ==
  /\ P!Enqueue(e) \/ P!Get(e) \/ P!Count(e) \/ P!Return(e)
  /\ UNCHANGED <<main, loopVars, workerVars, shutdownVars>>

(* Faulty variant: a failed Publish is logged and not counted. *)
missed_None == 0

missed == 1

(* Faulty variant: no return after a failed Publish. *)
Tally_NoReturn(e) ==
  /\ worker[e] = "publish" /\ pc[e] = "returned"
  /\ worker' = [worker EXCEPT ![e] = "exit"]
  /\ generatedCount' = generatedCount + 1
  /\ IF outcome[e] = "ok"
     THEN UNCHANGED publishErrors ELSE publishErrors' = publishErrors + missed
  /\ UNCHANGED <<main, loopVars, wg, heartVars, shutdownVars, publisherVars>>

Tally(e) ==
  /\ worker[e] = "publish" /\ pc[e] = "returned"
  /\ worker' = [worker EXCEPT ![e] = "exit"]
  /\ IF outcome[e] = "ok"
     THEN generatedCount' = generatedCount + 1 /\ UNCHANGED publishErrors
     ELSE publishErrors' = publishErrors + missed /\ UNCHANGED generatedCount
  /\ UNCHANGED <<main, loopVars, wg, heartVars, shutdownVars, publisherVars>>

(* The deferred wg.Done(). *)
Done(e) ==
  /\ worker[e] = "exit"
  /\ worker' = [worker EXCEPT ![e] = "gone"]
  /\ wg' = wg - 1
  /\ UNCHANGED <<main, loopVars, generatedCount, publishErrors, heartVars,
                 shutdownVars, publisherVars>>

WorkerStep(e) == Build(e) \/ Publishing(e) \/ Tally(e) \/ Done(e)

(* The timers and the client's own goroutines run beside the workers. *)
Timers(e) ==
  /\ P!Expire(e)
  /\ UNCHANGED <<main, loopVars, workerVars, shutdownVars>>

-----------------------------------------------------------------------------
(* The heartbeat goroutine reads the harness counters one after the other,  *)
(* until the context ends.                                                  *)

HeartbeatOnly ==
  UNCHANGED <<main, loopVars, worker, wg, generatedCount, publishErrors,
              shutdownVars, publisherVars>>

(* Its ticker fires: generatedCount.Load(). *)
HeartbeatLoads ==
  /\ heartbeat = "waiting"
  /\ heartbeat' = "loaded" /\ beat' = generatedCount
  /\ HeartbeatOnly

(* publishErrors.Load(), and the log line with the two numbers. *)
HeartbeatLogs ==
  /\ heartbeat = "loaded"
  /\ heartbeat' = "waiting" /\ beat' = 0
  /\ HeartbeatOnly

HeartbeatStops ==
  /\ heartbeat = "waiting" /\ ctxDone
  /\ heartbeat' = "stopped" /\ UNCHANGED beat
  /\ HeartbeatOnly

Heartbeat == HeartbeatLoads \/ HeartbeatLogs \/ HeartbeatStops

-----------------------------------------------------------------------------
(* shutdown: drain, bounded by --flush-timeout, then close, then metrics.  *)

(* go func() { wg.Wait(); close(drained) }() *)
WaitReturns ==
  /\ drained = "open" /\ wg = 0
  /\ drained' = "closed"
  /\ UNCHANGED <<main, loopVars, workerVars, signalled, ctxDone, timedOut,
                 scraping, publisherVars>>

(* Faulty variant: shutdown does not wait for the drained channel. *)
drainDone_Assumed == TRUE

drainDone == drained = "closed"

DrainEnds ==
  /\ main = "drain" /\ drainDone
  /\ main' = "close"
  /\ UNCHANGED <<loopVars, workerVars, shutdownVars, publisherVars>>

DrainTimesOut ==
  /\ main = "drain"
  /\ main' = "close"
  /\ timedOut' = TRUE
  /\ UNCHANGED <<loopVars, workerVars, signalled, ctxDone, drained, scraping,
                 publisherVars>>

(* Faulty variant: topic.Stop() is left out. *)
Close_NoStop ==
  /\ main = "close" /\ main' = "metrics"
  /\ UNCHANGED <<loopVars, workerVars, shutdownVars, publisherVars>>

(* publisher.Close(), after which metricsSrv.Shutdown closes the listener and
   may find a scrape of /metrics being served. *)
Close ==
  /\ main = "close"
  /\ \/ (P!Stop \/ P!StopReturns \/ P!CloseClient) /\ UNCHANGED <<main, scraping>>
     \/ /\ client = "closed" /\ main' = "metrics"
        /\ scraping' \in BOOLEAN
        /\ UNCHANGED publisherVars
  /\ UNCHANGED <<loopVars, workerVars, signalled, ctxDone, drained, timedOut>>

(* The scrape that metricsSrv.Shutdown found has been served. *)
ScrapeEnds ==
  /\ scraping
  /\ scraping' = FALSE
  /\ UNCHANGED <<main, loopVars, workerVars, signalled, ctxDone, drained,
                 timedOut, publisherVars>>

(* Faulty variant: main also waits for the goroutine that reads sigChan. *)
served_AndSignalled == ~scraping /\ signalled = "taken"

served == ~scraping

(* metricsSrv.Shutdown waits for the scrapes being served, with no limit,
   and main returns: the process ends, with every goroutine in it. *)
Exit ==
  /\ main = "metrics" /\ served
  /\ main' = "exited"
  /\ UNCHANGED <<loopVars, workerVars, shutdownVars, publisherVars>>

-----------------------------------------------------------------------------

MainStep ==
  \/ TickCase \/ Spawn \/ CatchUpEnds \/ DoneCase
  \/ DrainEnds \/ DrainTimesOut \/ Close \/ Exit

(* The client library's own goroutines, and the service. *)
Background ==
  /\ \/ P!DelayElapses
     \/ \E b \in sending : P!BatchStep(b)
     \/ \E a \in abandoned : P!LateStore(a)
  /\ UNCHANGED <<main, loopVars, workerVars, shutdownVars>>

Running ==
  \/ TimePasses \/ SignalArrives \/ SignalHandled \/ ScrapeEnds
  \/ MainStep \/ WaitReturns \/ Heartbeat \/ Background
  \/ \E e \in Events : WorkerStep(e) \/ Timers(e)

(* The process has ended. *)
Terminated == ~alive /\ UNCHANGED vars

Next == (alive /\ Running) \/ Terminated

Spec == Init /\ [][Next]_vars

(* The scheduler runs every goroutine that can run and every timer fires.
   The select of main picks among its ready cases at random, so a case that
   is ready again and again is taken: strong fairness.  Nothing is assumed
   of the service; a scrape is served in finite time. *)
Fairness ==
  /\ WF_vars(alive /\ TimePasses)
  /\ WF_vars(alive /\ SignalHandled)
  /\ WF_vars(alive /\ MainStep) /\ SF_vars(alive /\ DoneCase)
  /\ WF_vars(alive /\ WaitReturns)
  /\ WF_vars(alive /\ ScrapeEnds)
  /\ \A e \in Events : /\ WF_vars(alive /\ WorkerStep(e))
                       /\ WF_vars(alive /\ Timers(e))
  /\ \A b \in SUBSET Events \ {{}} :
       WF_vars(alive /\ b \in sending /\ P!BatchTimeout(b)
                     /\ UNCHANGED <<main, loopVars, workerVars, shutdownVars>>)

FairSpec == Spec /\ Fairness

-----------------------------------------------------------------------------
(* Properties.                                                             *)

TypeOK ==
  /\ duration \in Durations /\ now \in 0 .. MaxTime
  /\ tick \in BOOLEAN /\ main \in Mains
  /\ expected \in 0 .. Rate * MaxTime /\ eventCount \in 0 .. Rate * MaxTime
  /\ worker \in [Events -> Workers]
  /\ wg \in Int /\ generatedCount \in Nat /\ publishErrors \in Nat
  /\ heartbeat \in {"waiting", "loaded", "stopped"} /\ beat \in Nat
  /\ signalled \in {"none", "pending", "taken"} /\ ctxDone \in BOOLEAN
  /\ drained \in {"none", "open", "closed"} /\ timedOut \in BOOLEAN
  /\ scraping \in BOOLEAN
  /\ P!TypeOK

spawned == 1 .. eventCount
Publishes == {e \in Events : pc[e] \notin {"idle", "returned"}}

(* The generator never runs ahead of the clock, nor numbers an event twice:
   the events spawned are the first ones due (main.go:152-193). *)
Paced ==
  /\ eventCount <= Rate * now
  /\ \A e \in Events : worker[e] = "unborn" <=> e > eventCount

(* Nothing due is lost: the ticker drops a tick that finds another one
   waiting, and elapsed is stale by the time the catch-up loop ends, yet when
   main waits with no tick pending it has spawned every event the clock asks
   for, and none twice (main.go:143-155, "rate-paced event generator with
   catch-up"). *)
NothingLost == main = "select" /\ ~tick => eventCount = Rate * now

(* A closed drained channel means what shutdown takes it to mean: every
   event spawned has been built, published and counted, and none follows
   (main.go:101-104, 168-170). *)
DrainedMeansQuiet ==
  drained = "closed" =>
    /\ \A e \in spawned : worker[e] = "gone"
    /\ generatedCount + publishErrors = eventCount
    /\ main \notin {"select", "catchup"}

(* The two numbers of a heartbeat are read apart, while workers go on; yet
   together they never claim more than the generator has spawned, nor the
   first more than the publisher has counted as stored (main.go:126-141,
   179-190). *)
HeartbeatSound ==
  heartbeat = "loaded" =>
    /\ beat + publishErrors <= eventCount
    /\ beat <= publishTotal["success"]

(* "Stop accepting new work, wait for in-flight (blocking) Publish calls to
   return ... then release the client" (main.go:91-96): a shutdown that
   drains closes the client behind the last Publish, and cannot panic. *)
DrainedCloseIsSafe ==
  ~timedOut => ~panicked /\ (client # "open" => Publishes = {})

(* What the harness counters say when the process ends agrees with the
   metrics of the publisher and with the topic, but for the workers that a
   drain which timed out has cut off, and those are none after one that has
   not: an event is counted once or cut off, one counted as generated is
   stored, and one that is not stored was counted as an error or cut off
   (main.go:105-110, 179-190, 199, publisher.go:159-169). *)
FinalCountsExact ==
  LET cutOff == {e \in spawned : worker[e] \in {"build", "publish"}}
      lost   == {e \in spawned : copies[e] = 0}
  IN  main = "exited" =>
        /\ ~timedOut => cutOff = {}
        /\ generatedCount + publishErrors + Cardinality(cutOff) = eventCount
        /\ publishTotal["success"] \in
             generatedCount .. (generatedCount + Cardinality(cutOff))
        /\ inflight \in 0 .. Cardinality(cutOff)
        /\ Cardinality(lost) <= publishErrors + Cardinality(cutOff)

(* Publish calls that Close overtook may be cut off by the end of the
   process, but what they handed to the client is not: it has been resolved
   by then, drained or not (main.go:105-110, publisher.go:172-173). *)
ExitAfterFlush ==
  main = "exited" =>
    \A e \in Events : stage[e] \in {"none", "acked", "failed"}

(* "Stop accepting new work, wait for in-flight (blocking) Publish calls to
   return ... then release the client" (main.go:91-96): whatever times out
   or panics on the way, no event begins once the drain has, what the client
   has taken is resolved before the process ends by itself, and a result
   that is set stays set. *)
KeepsShutdownOrder == Ordered!Spec

(* Publish keeps its promise to the workers although main may break its own
   to the publisher: whatever Close overtakes, no event is told "ok" unless
   the topic holds it, and none is told two results (main.go:105-108,
   185-190, publisher.go:36-39). *)
KeepsContract == Contract!Spec

(* "Caller contract: ensure all Publish calls have returned before invoking
   Close" (publisher.go:36-38).  It does not hold of main, which closes
   anyway when the drain times out (main.go:105-108). *)
CallerContract ==
  client # "open" => Publishes = {}

(* A signal ends the process, although ticks keep coming, the service may
   never answer and events are in every stage (main.go:115-121, 203-205). *)
SignalStops == signalled = "pending" ~> ~alive

(* --duration ends the process (main.go:195-201). *)
DurationStops == duration > 0 => <>~alive
==============================================================================
