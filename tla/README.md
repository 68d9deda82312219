# Verification of the server telemetry examples

This directory holds TLA+ models of the programs of this repository, the TLC
configurations that check them on small instances, and theorems about them
checked by TLAPS for every value of their constants. `PROJECT.json` says, for
every definition, which lines of the source it stands for, and for every
property, which change of the code would break it.

1. [The system](#1-the-system): components, state, operations, what is hard
2. [The modules](#2-the-modules): what models what, and how
3. [The runs](#3-the-runs): what TLC checks, bounds, fairness
4. [The proofs](#4-the-proofs): what TLAPS proves, and how
5. [Findings](#5-findings): where the code and what is said of it disagree
6. [Not modelled](#6-not-modelled)
7. [Plan](#7-plan)

## 1. The system

Servers emit Glean pings along two paths. On the *Cloud Logging path* a
generated logger prints each ping as one line of JSON to stdout; an agent, a log
sink and a topic carry it to the Decoder. On the *direct path* a generated
builder makes a gzipped Pub/Sub message, and a hand-written publisher hands it
to the Pub/Sub client and waits for the result. A Java consumer reads what the
Decoder emits.

### Inventory

| Component | Source | State it keeps | Operations |
|---|---|---|---|
| Publisher | `test-go-publisher/publisher.go` | client and topic of the Pub/Sub library, four Prometheus metrics | `NewPublisher`, `Publish`, `Close` |
| Harness | `test-go-publisher/main.go` | event count, WaitGroup, two counters, context, signal channel, ticker, metrics server | the rate-paced loop, a goroutine per event, signal goroutine, heartbeat, `shutdown` |
| Deployment of the harness | `kubernetes/test-go-publisher-deploy.yaml` | the grace period | SIGTERM, SIGKILL |
| Message builder | `test-go-publisher/glean/server_events.go` | `gzipPool`, a package variable | `BuildEventsPingMessage` and what it calls |
| Go logger | `test-go-logger/` | none but the shared Writer | `RecordEventsPing`, the loop of `main` |
| Rust logger | `test-rust-logger/` | none | `record_events_ping`, the loop of `main` |
| Python logger | `test-py-logger/` | none | `record_backend_object_update`, `emit_record`, the loop of `main` |
| JavaScript loggers | `test-js-logger/` | `_logger` of each generated module; the caller's options | factories, constructors, `record` methods; an Express server and a timer |
| TypeScript loggers | `test-ts-logger/` | the same | the same |
| Java consumer | `java-consumer/.../App.java` | the list of ack ids of one run | pull, print, acknowledge |
| Decoder and routing | two shell scripts, `README.md` | external services | command lines only |
| Benchmarks, `graveyard.js`, fluent-bit tutorial | | none | |

### How they interact

- The harness calls the builder and `Publish` from one goroutine per event, and
  `Close` from `main`. They share the WaitGroup, two atomic counters and the
  client. The metrics are read by scrapes at any moment.
- `Publish` calls `topic.Publish`, which puts the message into the open bundle
  of the client, and blocks in `result.Get` until the result is set or its own
  context, bounded by `publishTimeout`, is done. The client's goroutines flush
  bundles by count, by delay and on `Stop`, send each as one RPC with retries,
  and set the results of a batch together.
- Concurrent builds share gzip writers through a `sync.Pool`.
- The loggers share stdout with each other and with other lines the programs
  print. In Node the factories share the module's `_logger`, and mutate the
  options object they are passed.
- The consumer talks to its subscription: pull leases messages, acknowledge
  drops them, and a lease that ends brings them back.

### What is hard, and what makes each component correct

*Publisher.* A call may time out while its message is queued, on the wire,
stored, or acked a moment later; an attempt the client has given up may still be
stored; one answer decides for a whole batch; `Close` meets messages everywhere.
It is correct when: success is said only of messages the topic holds; an error
leaves delivery open; no message is in two batches or in none; the metrics agree
with the calls whenever somebody looks; a call always returns, retries come to
an end, every message is resolved and `Close` returns with nothing unresolved,
although the service may never answer.

*Harness.* Ticks are dropped while the loop is busy; tick and cancellation race
in a `select` that picks at random; the drain may time out with goroutines
inside `Publish`; the final counts are read right after. It is correct when the
generator neither runs ahead nor loses what a dropped tick stood for, the WaitGroup means what
`shutdown` takes it to mean, the final counts agree with the topic, nothing the
client holds is cut off, and a signal or the duration ends the process. The
heartbeat reads two counters, one after the other, while workers count; it is
correct when the pair claims no event twice and none that was not stored.

*Deployment.* Four time bounds of nearly the same size nest in one another. It
is correct when the client holds nothing any more when the container is killed.
How long the client takes to flush depends on its backlog, which nothing bounds,
and on how many batches it sends at once, which is not configured. The last wait
of the shutdown, for a scrape of `/metrics`, has no bound at all.

*Builder.* Writers go through many hands, failed builds included; one builder
serves every request; a caller may supply a document id to share it across
transports. It is correct when a message holds its own payload, its own
attributes and an id of its own unless one was supplied, and nobody writes to it
after the return.

*Loggers.* A write can fail or be cut short and spoil the line of the next, a
factory runs on every tick and renames the options it is passed. They are correct
when one ping is one line, an error means that nothing was written, a return
that something was, and a logger prints each record once.

*Consumer.* It can die, or lose its leases, between the pull and the ack. It is
correct when nothing is acknowledged that was not shown.

`PROJECT.json` lists under `hazards` each of these at its line, with the
properties that would catch it.

## 2. The modules

| Module | Models | Composes or uses |
|---|---|---|
| `PublishContract` | what `Publish` promises a caller, abstractly | |
| `ShutdownOrder` | in which order a shutdown happens, abstractly | |
| `BuildContract` | what the builder promises concurrent callers, abstractly | |
| `Publisher` | `publisher.go` over the client library as configured | implements `PublishContract` |
| `PublisherLiveness` | its fairness and what must happen | extends `Publisher` |
| `PublisherProofs` | its theorems | extends `Publisher` |
| `Harness` | `main.go` | an instance of `Publisher` whose calls are the events; implements `PublishContract` and `ShutdownOrder` |
| `HarnessProofs` | its theorems | extends `Harness` |
| `ShutdownTiming` | the time bounds of the shutdown and the client's backlog, in discrete time | implements `ShutdownOrder` |
| `ShutdownTimingProofs` | its theorems | extends `ShutdownTiming` |
| `MessageBuilder` | builds over the pool of gzip writers, attributes, document ids | implements `BuildContract` |
| `MessageBuilderProofs` | its theorems | extends `MessageBuilder` |
| `LogLines` | the Go, Rust and Python loggers, to the line on stdout | |
| `LogLinesProofs` | its theorems | extends `LogLines` |
| `JsLoggers` | the generated modules in a Node process | |
| `JsLoggersProofs` | its theorems | extends `JsLoggers` |
| `Consumer` | runs of the Java consumer against a subscription | |
| `ConsumerProofs` | its theorems | extends `Consumer` |
| `MC...` | the same modules for TLC, with the symmetry of their sets | |

Operators with an underscore and a second name (`GetReturns_NoTimeout`,
`missing_Always`) are *faulty variants*: a mapped operator with a plausible bug.
No specification uses them. Putting one in the place of its operator makes a
run fail, which shows that the property is about the code.

**`PublishContract`.** A call is idle, open, ok or err. It becomes ok only while
the topic holds a copy of its message; copies may appear at any time, also after
an error, and more than one may.

**`ShutdownOrder`.** The phases of `main` (running, draining, closing, exited or
killed) and how far the message of each call has come. Work begins while the
program runs and not later; a result once set stays; the program ends by itself only
from closing, and only when the client holds no message with an open result. There
is no clock and no batch in it, so the untimed `Harness` and the timed
`ShutdownTiming` can both be shown to implement it: the two models of one
shutdown are tied to one promise.

**`BuildContract`.** A call fails or returns one message, in one step. The message
is a function of the call's own parameters and of a document id, which is the one
supplied or one that no other message has; messages returned do not
change. Neither writers nor buffers exist in it.

**`Publisher`.** An element of `Calls` is one invocation of `Publish`; `pc`
follows it through the statements: `Enter` (gauge up, context made), `Enqueue`
(`topic.Publish` and the first histogram), `Get` (`result.Get` and the second
histogram), `Count` (the counter), `Return` (the deferred calls). `Expire` is the
end of the context. The rest is the client library, external, as `NewPublisher`
configures it: `stage` says where it has each message; a batch goes through
`Attempt`, `Store`, `Ack`, or back through `Retry` on a code of
`retryableCodes`, or fails through `Reject` or `BatchTimeout`. An attempt that is
given up while in the air stays in `abandoned`, and `LateStore` may store it at
any later time. `Stop`, `StopReturns` and `CloseClient` are `Close`. The callers
of `Spec` keep the contract written above the type; `PublishAfterStop`, what
happens to one that does not, is there for `Harness`.

**`PublisherLiveness`** adds a constant of the behaviour, `stuck`: a client that
need not do anything.

**`Harness`.** One unit of `now` is the time in which `Rate` events fall due; a
tick that finds another one waiting is dropped, and `allDue` is what the clock
asks for when a tick is taken. The actions of `main` are `TickCase`, `Spawn`,
`CatchUpEnds`, `DoneCase`, `DrainEnds`, `DrainTimesOut`, `Close` and `Exit`, which
waits for the scrape that `metricsSrv.Shutdown` may have found (`ScrapeEnds`); a
worker goes through `Build`, `Publishing`, `Tally` and `Done`. `HeartbeatLoads`
and `HeartbeatLogs` are the two loads of the heartbeat goroutine, at any time,
since its ticker is not related to anything else. The flags are the constants and
the initial state. The instance `P` of `Publisher` supplies the steps inside
`Publish` and `Close`, without the guards of well-behaved callers: whether `main`
keeps the contract is a question here, not an assumption. The end of the process
stops everything in it; late stores of the service after that are not modelled
here (`Publisher` has them).

**`ShutdownTiming`.** The steps of the shutdown with a clock and nothing else, in
the same order as in `Harness`: goroutines start (`Spawn`) and call `Publish`; the
signal goroutine cancels (`Term`); main goes on starting goroutines, in the loop
it is in or for another tick, until it takes its `ctx.Done` case (`DoneCase`);
then come the drain, `Close`, and the metrics server, which waits for the scrape
it finds being served, if any, for as long as that takes; `Kill` may come when the
grace period is over. What is due happens before time advances, and computing
takes no time, so the bounds are those of the timers alone. The client sends at
most `senders` batches at once (`PublishSettings.NumGoroutines`, which
`NewPublisher` leaves at the library's default): `Send` is a goroutine taking a
batch, and `Timeout` counts from there, so that a batch behind a backlog waits for
its turn first. Each call has a batch of its own, the worst case.

**`MessageBuilder`.** `params` are what each call was given: a `DocumentID` or
none, an event or none, and the fields of `RequestInfo` that are not empty
(none of them in `...WithoutUserInfo`). A payload is named by its call. A writer
has a sink and a stream; `Reset` sets both, `Write` fills the stream, `Close` moves
it to the sink. `Finish` is the rest of the build: `resolveDocumentID` returns the
ID that was supplied or a UUID never drawn before, and `attributes` the optional
attributes, each with the call its value comes from. A build may fail at
marshalling, at either gzip call and at the UUID. `sync.Pool` may return any of its
writers or a new one, and may lose any.

**`LogLines`.** One variable says which of the three programs runs. In Go several
goroutines may share a Writer (`GleanEventsLogger` is a value without state), as
in a server; this repository's own `main` is a single one. Each record is one
write of text and newline; in Rust and Python only `main` records. A failed write
leaves nothing or a part of the text on the open line. Rust panics, Python raises,
and neither is caught; Go drops the error. Python runs with `-u` (its Dockerfile),
so text and newline are two writes; they may be two in Rust, where the line buffer
of stdout lets a long text out ahead of its newline. The lines the programs print
besides are there too.

**`JsLoggers`.** The generated JavaScript and TypeScript have the same code.
`Construct` is a factory call: the first one renames the options and makes the
logger. Options are a literal, as in both servers, or an object the caller
keeps and may pass again, to either module. A name is an app and how many times
`-glean` follows it, so a name may have the suffix before the constructor
appends it: one of the caller's, one of an object that has been renamed, or that of
the server's own logger. `mozlog` is external, and modelled from the comment in the
constructor: loggers are kept by name and two handlers under one name print twice.

**`Consumer`.** Runs one after the other, each of which may die at any step while
leases end. `ackIds` is the list of the run; what was `shown` (the attributes) and
`decoded` (the payload, of gzip streams only) outlives it. The subscription is
external.

## 3. The runs

| Run | Question | Bounds |
|---|---|---|
| `publisher_safety` | do batches and metrics agree with the calls, and does `Publish` keep its contract? | 3 calls, bundles of 2, 2 attempts |
| `publisher_live` | does a call return, even with a client stuck for ever; is every message resolved, and does `Close` return? | 2 calls, 2 attempts |
| `harness_safety` | is nothing due lost; WaitGroup, heartbeat, final counts, those of an exit that cuts workers off included | 2 events, 1 attempt, with no duration and with one of 2 |
| `harness_live` | do a signal and the duration end the process; is a worker told the truth, and does the shutdown keep its order, whatever `Close` overtakes? | 1 event, with and without a duration |
| `harness_contract` | does `main` keep the caller contract? (no: finding 1) | 1 event |
| `timing_bounds` | how long is it until `Close` returns, when does the drain complete, with which grace does a kill find nothing but a scrape, is the order kept with a clock and a kill? | 4 calls, 1, 2 and 4 publish goroutines, bounds 1 to 4, a grace of 2 and of 5 |
| `timing_deployed` | is the deployed grace period enough? (no: finding 2) | 1 call, the real values in units of 100 ms |
| `builder_safety` | do concurrent builds over shared writers look like calls of a builder without state? | 3 builds, 3 writers, 3 UUIDs, 3 kinds of ping |
| `log_lines` | what does a failed write cost, what is a return worth? | 2 goroutines, 2 passes each |
| `log_lines_nil` | does nil mean printed in Go? (no: finding 3) | the same |
| `js_loggers` | is each record printed once, and do modules that share an options object stay apart? | 2 modules, 1 app with up to 3 suffixes, 2 objects, 2 instances each |
| `consumer_safety` | is what is acked what was shown? | 4 messages, one of them no gzip stream, pulls of 2 |

*Why the bounds are enough.* Three calls and bundles of two give a bundle filled
by count, one flushed by the delay and one flushed by `Stop`, batches of
one and two members at the same time, and a message that joins while another
batch is being retried; two attempts give a retry after a store, after a loss,
and before a late store. In the harness two events give a generator that is behind
by one or by two, ticks that are dropped while it is in its loop, with the clock
going on behind the `elapsed` it has read, a worker that has not been born when
another is done, and both orders of every race between the drain and a worker; `Publisher` has
already been checked by itself with more attempts, so one is enough there. The
liveness runs are smaller because their behaviours do not depend on how many
calls there are; the two refinements `harness_live` checks with one event are
proved for any number. In `log_lines` a line is spoiled by one failure, by two in a
row, and by a failure of the other goroutine. In `builder_safety` there
are as many writers as builds, so none ever waits: the pool never blocks; its
pings are one with everything, one with a shared `DocumentID` and no event, and one
without user info, so that two builds may share an id, or be given different
requests, at once. Four calls over two goroutines give a backlog in the middle: one
batch sent, one waiting for its turn behind it and one behind that; over one
goroutine they queue up one behind the other, over four none waits. The flush then takes 5, 3 or 2 units, on both sides of the
drain's bound of 4, of the call's of 3 and of a grace of 5. A pull of two
out of four messages leaves a rest for the next run and mixes in it what comes
back with what is new. `harness_safety` and `publisher_safety` are the largest runs, with
2.2 and 1.2 million states; the others that pass have fewer. In `js_loggers` one
app is enough, since names of different apps never meet; three suffixes let an
object be renamed by both modules and by a call of mozlog that fails. Every bound is
a constant of its module with its meaning beside it: `MaxAttempts`, `MaxTime`,
`LastStart`, `MaxPasses`, `MaxInstances`, `MaxSuffixes`.

*Symmetry* is used where the elements of a set are interchangeable (calls of
`Publisher` and `ShutdownTiming`, builds and writers), and only in runs that
check safety.

*Fairness.* Weak fairness stands for the Go scheduler, which runs every
goroutine that can run, and for timers, which fire: `CallerFairness` for the
steps of a call and the end of its context, `ClientFairness` for the client's
delay and timeout. The second is not assumed of a client that is `stuck`, so
`EveryCallReturns` rests on `publishTimeout` alone. Of the service nothing is
assumed. In the harness `DoneCase` has strong fairness: the loop
comes back to its `select` again and again, and Go picks among the ready cases at
random, so a case that is ready each time is picked at some time. A scrape is
served in finite time; without that assumption the process might stay, since
`metricsSrv.Shutdown` is called without a deadline (main.go:111). `ShutdownTiming`
does not assume it: there the scrape may last for ever, and what is bounded
ends with the return of `Close`.

*Deadlock* is checked in every run; where a program ends there is an action
`Terminated`.

## 4. The proofs

`PublisherProofs` proves for all finite sets of calls, thresholds and numbers
of attempts:

| Theorem | Property |
|---|---|
| `TypeCorrect` | `TypeOK` |
| `BatchesAlwaysPartition` | `BatchesPartition` |
| `OutcomeAlwaysMatches` | `OutcomeMatchesStage` |
| `CloseIsQuiet` | `QuietClose` |
| `CloseAlwaysFlushes` | `CloseFlushes` |
| `MetricsAlwaysAgree` | `MetricsAgree` |
| `PublisherImplementsContract` | `ImplementsContract`, the refinement |

They rest on one inductive invariant, the conjunction of `TypeOK`,
`BatchesPartition`, `OutcomeMatchesStage`, `QuietClose` and `CloseFlushes`. None of
these is inductive alone. That "ok" is said of acked messages only needs
that an acked message stays acked, which needs that no batch on the wire
contains it: `BatchesPartition`. That a batch moves as one needs that its members
were at one stage of one attempt. `CloseFlushes` needs `QuietClose`, or a call
could still put a message into the bundle after `Stop`; and `BatchesPartition`, or a
message could be on the wire with no batch to wait for. That success means
stored needs that only stored messages are acked. For the refinement a step of `Get`
maps to `Succeed` or `Fail`, `Enter` to `Open`, `Store` and `LateStore` to `Store`,
and all others stutter; `Succeed` is enabled because of `OutcomeMatchesStage`.
`MetricsAgree` equates counters with sizes of sets of calls; a call moves from one set to
the next, and its size changes by one exactly when the metric does.

`HarnessProofs` proves for every rate, every duration and every length of the run:

| Theorem | Property |
|---|---|
| `HarnessTypes` | `TypeOK` |
| `GeneratorIsPaced` | `Paced` |
| `NothingIsLost` | `NothingLost` |
| `DrainIsQuiet` | `DrainedMeansQuiet` |
| `DrainedCloseSafe` | `DrainedCloseIsSafe` |
| `HeartbeatIsSound` | `HeartbeatSound` |
| `FinalCounts` | `FinalCountsExact` |
| `ExitIsFlushed` | `ExitAfterFlush` |
| `HarnessShutsDownInOrder` | `KeepsShutdownOrder`, the refinement of `ShutdownOrder` |
| `HarnessKeepsContract` | `KeepsContract`, the refinement of `PublishContract` |

Its invariant `HInv` has two halves. `PubInv` is what the publisher keeps although its
caller may break the contract, as `main` does when its drain times out. It cannot be
taken from `PublisherProofs`, for two reasons: the theorems there assume callers
that keep the contract, and this version of TLAPS does not cite theorems through an
INSTANCE. So it is proved again, for the weaker caller, and says less: `CloseFlushes`
becomes `Emptied`, from which only `ExitAfterFlush` is needed. The other half
ties `main`, the workers and the counters together. `Counters` says that `wg` is the
number of live workers, `generatedCount` that of the ended ones whose outcome is ok,
and `publishErrors` that of the rest; that is `DrainedMeansQuiet` as soon as `NoneLive`
says that a closed `drained` leaves no live worker, which holds because `Order` puts
`main` behind its loop by then, where nothing is spawned. `Apart` relates the
worker to its `Publish`; with it, no live worker means no call inside `Publish`,
which is `DrainedCloseIsSafe` and the reason why there is `NoPanic`. The counters agree
with the metrics because the workers that ended well are calls that have counted
a success (`GoodSucceeded`), and in a drained process they are all of those. The
refinement is that of `PublisherProofs` for the weaker caller: `Delivered` says that
what was told ok is stored, and `Handed` that the client has messages only of calls
that have begun, which a message refused after `Stop` does not disturb.

`FinalCountsExact` is about every exit. After a drain that completed it is an equation.
After one that timed out the process ends with workers still between their
build and their count (`cutOff`), and the property says that each disagreement
between the counters, the metrics and the topic is one of theirs: `CountsFollow`
splits the events spawned into those counted and those cut off, and bounds what is
missing by the second set.

`NothingLost` is about main between two ticks. `CaughtUp` strengthens it: in the
`select` main has spawned what it found due at its last tick, never more, and
what it found due is what the clock asks for unless another tick is pending by now.
A tick that is dropped finds one pending, and that one reads the clock again.

For `ShutdownOrder` the phase is read off `main`, a panic being a kill, and
the progress of a message off its worker and its `stage`. `Spawn` maps to `Begin`, for which
the numbering of the events (`Paced`) and `HeldIsBorn` say that the message is untouched;
`Enqueue` maps to `Hand`; `Ack`, `Reject` and `BatchTimeout` map to `Settle` of the whole
batch, for which `Batched` says that its members are all still open. `Exit`
finds nothing open because `main` gets past `Close` only with a flushed client
(`ClosedIsFlushed`). A panic in the client maps to `Die`, which `ShutdownOrder` allows from
draining on: the client panics only once it has been stopped, and `Order` puts `main`
behind its drain by then.

`ShutdownTimingProofs` proves `ShutdownTime`, `DrainTime` and `GraceTime` (the
properties `ShutdownBounded`, `DrainCompletes` and `GraceSuffices`) for all
settings and any number of calls. The invariant `Punctual` says that time never
passes the moment at which something is due: a batch that has a goroutine is
younger than `Timeout`, a call that has not returned younger than
`publishTimeout`, a drain younger than `--flush-timeout`. `AfterSignal` says what
the phases have left behind them: main takes its `ctx.Done` case when the signal
comes, and by the time anything else does every goroutine it had started is in its
`Publish`; and once `Close` has returned nothing is unresolved, and time goes on
only for a scrape. What is left is how long a
batch waits for a goroutine. `Backlog` says that while one waits past its delay, every
goroutine is busy, and that each further `Timeout` of waiting has seen all of them
take another batch: after k of them, at least `senders * (k + 1)` batches have been
sent. There are only as many batches as calls, so it waits for less than `rounds` of them
(`Served`), and is resolved within `flushBound`. From the signal to the return of
`Close` it takes no longer than that: a drain that is still waiting waits for a call that has not returned, whose
message is therefore unresolved, and so is within `flushBound` of its beginning,
which was no later than the signal. `--flush-timeout` decides when the drain gives
up on its calls, not how long it takes to flush. After that there is the scrape,
which has no bound: so `GraceSuffices` says of a grace longer than `flushBound` not
that it is never used up, but that only a scrape can use it up and that the client
holds nothing then. `TimedShutdownInOrder` is the refinement of
`ShutdownOrder`: `Spawn` maps to `Begin`, `Publish` to `Hand`, `Resolve` to `Settle` of
one message, `DoneCase`, `DrainEnds`, `Exit` and `Kill` to `Drain`, `Close`, `Exit` and
`Die`; the rest stutters, `Term` and `CloseReturns` included, since the abstract
program runs until main has seen the signal and closes until main returns.

`MessageBuilderProofs` proves `TypeOK`, `OneOwner`, `OwnPayload`,
`IdSharedOnPurpose` and the action property `BufferIsCallers` for any number of builds
and writers and any parameters. `Ownership` is `OneOwner` without the counting;
`InGzip` says where a payload is at each point of its build, and that the writer
a build holds writes to that build's buffer; `Documents` that an id was either
supplied or drawn, and that no two messages have one drawn id.
`OwnPayload` needs `Ownership` and `InGzip`: closing a writer is right because the stream holds
this build's payload alone, and nobody else can have touched it.
`BuilderIsStateless` puts these together: every behaviour is one of
`BuildContract`. `Finish` maps to `Succeed`, with the id that `Documents` shows to be
the supplied one or a fresh one, the payload of `OwnPayload` and the attributes
of `OwnAttributes`, a part of the invariant; an error of the marshalling, of the writer or of the UUID maps to `Fail`
(`GivesUp`); everything else happens inside a build (`InsideBuild`) and stutters, for which
`MessagesKept` says that no step touches a message that has been returned.

`ConsumerProofs` proves `TypeOK` and `AckedWasShown` for any subscription; the
strengthening is that what a run is about to ack has been shown already, by that
run.

`LogLinesProofs` proves `TypeOK`, `RefusedLeavesNothing`, `ReturnedIsReadable` and
`LossBounded` for any set of goroutines and any number of passes. `Calls` says where
a caller is when it has been told a result: a ping is refused before the step that
writes, so no text can carry its id (`Written`). `Kept` counts: every ping returned and not
readable, and one more while the open line is already spoilt, is paid for by a
failed write, which pays for two. A write that lands on a spoilt line loses its ping
and leaves a fresh line behind, so the sum stays the same. In Rust and Python
there is nothing to count: a failed write ends the process (`Clean`).

`JsLoggersProofs` proves `TypeOK`, `PrintedOnce` and `ReusedOptionsStayApart` for any
number of modules, options objects and instances. `HandlersCounted` says that a
name that is not the server's has no handler before a module takes it, and one if a
single module has; `OneLogger` that a module has one logger at most; `Printers` that
what was printed came from a module that has a logger, which it keeps. `Renamed`
says that an object has at least the suffixes of every logger that was made from
it: the next constructor that is given the object appends one more, and so makes a
name that no earlier one has from that object.

The assumptions are those on the constants, named in each module
(`PublisherAssumption`, `HarnessAssumption`, `TimingAssumption`,
`BuilderAssumption`, `ConsumerAssumption`, `LogAssumption`, `JsAssumption`). TLC
evaluates them in the runs. Some things are built into the models: UUIDs never
repeat, `sync.Pool` never has fewer writers than are needed, the rate is not
negative (a negative one generates nothing), and in `ShutdownTiming` the client's
`Timeout` counts from when a batch gets a goroutine.

*Only model-checked.* Liveness under fairness (`EveryCallReturns`,
`EveryMessageResolves`, `CloseReturns`, `SignalStops`, `DurationStops`), which the
prover does not reach. Every invariant and action property
of a passing run is also a theorem. The other way round, some predicates are proved
and in no run: `OutcomeMatchesStage`, `QuietClose`, `Paced` and the `TypeOK` of
`ShutdownTiming` are parts of the inductive invariants, and with them a run would
show little. Others a refinement that is checked
implies or rests on: `OneOwner` (`KeepsBuildContract`), and
`ExitAfterFlush` (`KeepsShutdownOrder`).

## 5. Findings

1. `harness_contract`: `main` calls `Close` after its drain has timed out, with
   goroutines inside `Publish` (main.go:105-110), against the contract of the type
   (publisher.go:36-37). The defaults of `--flush-timeout` and `publishTimeout` are
   equal, so one stuck publish is enough. `DrainCompletes` says what would
   prevent it: a drain longer than one call. What is left is bounded all the
   same: `KeepsShutdownOrder` and `ExitAfterFlush` hold drained or not, and
   `FinalCountsExact` bounds by the workers that are cut off what the final
   counts can miss.
2. `timing_deployed`: the grace period of 30 s is not longer than the drain (30 s) nor
   than the client's bound on a message (30.1 s, and 30 s more for each turn it
   waits behind a backlog), so the container can be killed with messages
   unresolved. `GraceSuffices` says which grace keeps the promise: one longer than
   the client's flush, however long the drain may wait. The process may outlast that
   one too, while it serves a scrape, but with nothing left to flush.
3. `log_lines_nil`: the Go logger drops the error of `fmt.Fprintln`, so a nil
   result does not mean a printed ping. `LossBounded` says what a failed write can
   cost: its own line and the next.

Also noted, with no run: the two generated Node modules, given the same
app name in one process, end up on the same mozlog name in spite of the suffix
that is there "to avoid collision with other loggers", unless they are given it in
one object; and so does a module whose name with the suffix is that of the server's
own logger. What mozlog makes of that is not in the repository. `PrintedOnce`
excepts both cases. The metrics server's failure to listen is only logged.
A second signal is ignored. `shutdownOnce` has one caller, `main`.
The deployment of the Go logger sets `MODE` and `EVENTS_PER_SEC`, which
its `main.go` does not read.

## 6. Not modelled

- The parsing of flags and environment (main.go:52-72, 210-225), whose results are
  constants, and a failure of `NewPublisher`, before which nothing has happened.
- A bound on the client's buffer: the code has none (publisher.go:101-108), so there is
  none to check. What a backlog costs is in `ShutdownTiming`, for any number of calls.
- Contents of pings and attributes, times, JSON and gzip as formats.
- The Decoder, the log sink and the agent: services of other repositories, which
  this one configures by command lines. A pipeline from end to end would be a model
  of them and of nothing here: between the topic of `Publisher` and the
  subscription of `Consumer` no line of this repository runs. A line of stdout and a
  message of the topic are where the models end.
- The Express servers, whose one route returns a constant; the lines `app.js`
  prints to exercise validation.
- `graveyard.js`, which nothing imports; the benchmarks, which measure sizes; the
  fluent-bit directory, a copy of a tutorial.

## 7. Plan

Done, in this order: `PublishContract`, `Publisher`, `PublisherProofs`, `Harness`,
`ShutdownTiming` and its proofs, `MessageBuilder`, `Consumer`, `LogLines`,
`JsLoggers`, and the proofs of `MessageBuilder`, `Consumer` and `JsLoggers`; then the
client's goroutines in `ShutdownTiming`, parameters, attributes and ids in
`MessageBuilder`, the heartbeat in `Harness`, and the proofs that were missing, of the
publisher's metrics and copies, of `LogLines` and of `Harness`, which is also shown to
implement `PublishContract`; then the two contracts `ShutdownOrder` and
`BuildContract` with the proofs that `Harness`, `ShutdownTiming` and `MessageBuilder`
implement them, the final counts of a process that cuts workers off, and
the bound of the shutdown without the drain; then the time between the signal and
main's seeing it and the scrape at the end in `ShutdownTiming`, dropped ticks in
`Harness`, and names and options objects in `JsLoggers`.

Dropped: a module for the pipeline from end to end, for the reason given above.

Left for later, in the order of their worth:

1. `Consumer`: that a run which is not killed ends, and that a message is shown in the
   end if runs go on, under fairness of the runs.
2. `JsLoggers`: the lines `app.js` prints itself through its own logger on every
   tick, which share that logger's handlers.
