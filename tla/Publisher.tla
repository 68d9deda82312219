------------------------------ MODULE Publisher ------------------------------
(***************************************************************************)
(* The transport half of the direct Pub/Sub path: Publisher.Publish and    *)
(* Publisher.Close of test-go-publisher/publisher.go, over the batching    *)
(* client of cloud.google.com/go/pubsub as NewPublisher configures it.     *)
(*                                                                         *)
(* Each element of Calls is one invocation of Publish with a message of    *)
(* its own, made by its own goroutine.  The client library is external:    *)
(* it gathers messages in one open bundle, sends a bundle as one RPC with  *)
(* retries, and resolves the PublishResult of every member at once.        *)
(***************************************************************************)
EXTENDS Integers, FiniteSets

CONSTANTS
  Calls,           \* the Publish calls, each with its own message
  CountThreshold,  \* messages that make the client send a bundle at once
  MaxAttempts      \* bound on the RPC attempts made for one batch

ASSUME PublisherAssumption ==
  /\ IsFiniteSet(Calls)
  /\ CountThreshold \in Nat \ {0}
  /\ MaxAttempts \in Nat \ {0}

VARIABLES
  pc,               \* control point of each Publish call
  outcome,          \* the err variable of each Publish call
  expired,          \* calls whose publishCtx is done
  stage,            \* where the client library has each call's message
  sending,          \* the batches handed to the RPC layer, as sets of calls
  abandoned,        \* attempts given up unanswered that may yet be stored
  attempts,         \* RPC attempts that carried the message
  copies,           \* copies of the message the topic has stored
  client,           \* lifecycle of the client under Close
  panicked,         \* the client panicked on a Publish that raced Close
  inflight,         \* gauge glean_pubsub_inflight
  publishTotal,     \* counter glean_pubsub_publish_total, by status
  callDurations,    \* observations of glean_pubsub_publish_duration_seconds
  resultDurations   \* observations of glean_pubsub_result_duration_seconds

callVars    == <<pc, outcome, expired>>
clientVars  == <<stage, sending, abandoned, attempts, copies, client, panicked>>
metricVars  == <<inflight, publishTotal, callDurations, resultDurations>>
vars        == <<callVars, clientVars, metricVars>>

PCs     == {"idle", "enqueue", "get", "count", "return", "returned"}
Stages  == {"none", "bundled", "queued", "sent", "stored", "acked", "failed"}
InBatch == {"queued", "sent", "stored"}
Clients == {"open", "stopping", "stopped", "closed"}

retryableCodes == {"Aborted", "Canceled", "Internal", "ResourceExhausted",
                   "Unknown", "Unavailable", "DeadlineExceeded"}

(* The error codes of gRPC that are not in retryableCodes. *)
finalCodes == {"InvalidArgument", "NotFound", "AlreadyExists",
               "PermissionDenied", "FailedPrecondition", "OutOfRange",
               "Unimplemented", "DataLoss", "Unauthenticated"}

Init ==
  /\ pc = [c \in Calls |-> "idle"]
  /\ outcome = [c \in Calls |-> "none"]
  /\ expired = {}
  /\ stage = [c \in Calls |-> "none"]
  /\ sending = {}
  /\ abandoned = {}
  /\ attempts = [c \in Calls |-> 0]
  /\ copies = [c \in Calls |-> 0]
  /\ client = "open"
  /\ panicked = FALSE
  /\ inflight = 0
  /\ publishTotal = [s \in {"success", "error"} |-> 0]
  /\ callDurations = 0
  /\ resultDurations = 0

-----------------------------------------------------------------------------
(* Publish, one action per step another goroutine can see.                 *)

bundle == {c \in Calls : stage[c] = "bundled"}

(* The stage of every message of S becomes s. *)
Move(S, s) == stage' = [c \in Calls |-> IF c \in S THEN s ELSE stage[c]]

(* S leaves the bundler as one batch. *)
Flush(S) == Move(S, "queued") /\ sending' = sending \cup {S}

(* publishInflight.Inc() and the context with publishTimeout. *)
Enter(c) ==
  /\ pc[c] = "idle"
  /\ pc' = [pc EXCEPT ![c] = "enqueue"]
  /\ inflight' = inflight + 1
  /\ UNCHANGED <<outcome, expired, clientVars, publishTotal, callDurations,
                 resultDurations>>

(* topic.Publish on an open client: the message joins the bundle, which is
   sent as soon as it holds CountThreshold messages. *)
AddToBundle(c) ==
  /\ client = "open"
  /\ LET S == bundle \cup {c}
     IN  IF Cardinality(S) >= CountThreshold
         THEN Flush(S)
         ELSE Move({c}, "bundled") /\ UNCHANGED sending
  /\ UNCHANGED panicked

(* Faulty variant: the message is dropped and its result is a success. *)
PublishAfterStop_Ok(c) ==
  client # "open" /\ Move({c}, "acked") /\ UNCHANGED <<sending, panicked>>

(* topic.Publish once Close has begun: the outcome the Publisher's doc
   comment warns about, an error in the PublishResult or a panic. *)
PublishAfterStop(c) ==
  /\ client # "open"
  /\ \/ Move({c}, "failed") /\ UNCHANGED panicked
     \/ panicked' = TRUE /\ UNCHANGED stage
  /\ UNCHANGED sending

Enqueue(c) ==
  /\ pc[c] = "enqueue"
  /\ AddToBundle(c) \/ PublishAfterStop(c)
  /\ pc' = [pc EXCEPT ![c] = "get"]
  /\ callDurations' = callDurations + 1
  /\ UNCHANGED <<outcome, expired, abandoned, attempts, copies, client,
                 inflight, publishTotal, resultDurations>>

(* publishTimeout, or the caller's own context, ends while Publish waits. *)
Expire(c) ==
  /\ pc[c] \in {"enqueue", "get"}
  /\ c \notin expired
  /\ expired' = expired \cup {c}
  /\ UNCHANGED <<pc, outcome, clientVars, metricVars>>

(* Faulty variants: an outcome of its own for the context; success assumed
   when the time is up; no time limit. *)
GetReturns_Unclassified(c) ==
  IF stage[c] = "acked" THEN {"ok"}
  ELSE IF stage[c] = "failed" THEN {"err"}
  ELSE IF c \in expired THEN {"timeout"} ELSE {}
GetReturns_AssumesDelivery(c) ==
  IF stage[c] = "failed" THEN {"err"}
  ELSE IF stage[c] = "acked" \/ c \in expired THEN {"ok"} ELSE {}
GetReturns_NoTimeout(c) ==
  IF stage[c] = "acked" THEN {"ok"} ELSE IF stage[c] = "failed" THEN {"err"} ELSE {}

(* What result.Get(publishCtx) may return: the result once it is set, the
   context's error once the context is done, either when both are ready. *)
GetReturns(c) ==
  {o \in {"ok", "err"} : \/ o = "ok"  /\ stage[c] = "acked"
                         \/ o = "err" /\ (stage[c] = "failed" \/ c \in expired)}

Get(c) ==
  /\ pc[c] = "get"
  /\ \E o \in GetReturns(c) : outcome' = [outcome EXCEPT ![c] = o]
  /\ pc' = [pc EXCEPT ![c] = "count"]
  /\ resultDurations' = resultDurations + 1
  /\ UNCHANGED <<expired, clientVars, inflight, publishTotal, callDurations>>

status(c) == IF outcome[c] = "ok" THEN "success" ELSE "error"

Count(c) ==
  /\ pc[c] = "count"
  /\ pc' = [pc EXCEPT ![c] = "return"]
  /\ publishTotal' = [publishTotal EXCEPT ![status(c)] = @ + 1]
  /\ UNCHANGED <<outcome, expired, clientVars, inflight, callDurations,
                 resultDurations>>

(* Faulty variant: the gauge is decremented on the success path only. *)
Dec_OnSuccess(c) == IF outcome[c] = "ok" THEN 1 ELSE 0

Dec(c) == 1

(* The deferred cancel() and publishInflight.Dec(), and the return. *)
Return(c) ==
  /\ pc[c] = "return"
  /\ pc' = [pc EXCEPT ![c] = "returned"]
  /\ inflight' = inflight - Dec(c)
  /\ UNCHANGED <<outcome, expired, clientVars, publishTotal, callDurations,
                 resultDurations>>

-----------------------------------------------------------------------------
(* The client library, as NewPublisher configures it.                      *)

(* Faulty variant: the delay flushes full bundles only. *)
due_FullOnly == Cardinality(bundle) >= CountThreshold

due == bundle # {}

(* DelayThreshold has passed since the first message of the bundle. *)
DelayElapses ==
  /\ due
  /\ Flush(bundle)
  /\ UNCHANGED <<callVars, abandoned, attempts, copies, client, panicked,
                 metricVars>>

(* One more attempt of the RPC that carries batch b. *)
Attempt(b) ==
  /\ \A c \in b : stage[c] = "queued" /\ attempts[c] < MaxAttempts
  /\ Move(b, "sent")
  /\ attempts' = [c \in Calls |-> attempts[c] + IF c \in b THEN 1 ELSE 0]
  /\ UNCHANGED <<callVars, sending, abandoned, copies, client, panicked,
                 metricVars>>

(* The service stores every message of the batch. *)
Store(b) ==
  /\ \A c \in b : stage[c] = "sent"
  /\ Move(b, "stored")
  /\ copies' = [c \in Calls |-> copies[c] + IF c \in b THEN 1 ELSE 0]
  /\ UNCHANGED <<callVars, sending, abandoned, attempts, client, panicked,
                 metricVars>>

(* The client stops waiting for the attempt of b that is in the air, if any:
   the service may still come to store it. *)
Abandon(b) ==
  abandoned' = abandoned \cup
    {<<b, n>> : n \in {attempts[c] : c \in {d \in b : stage[d] = "sent"}}}

LateStore(a) ==
  /\ a \in abandoned
  /\ abandoned' = abandoned \ {a}
  /\ copies' = [c \in Calls |-> copies[c] + IF c \in a[1] THEN 1 ELSE 0]
  /\ UNCHANGED <<callVars, stage, sending, attempts, client, panicked,
                 metricVars>>

(* Faulty variant: the batch is not taken off the wire. *)
Resolve_KeepsBatch(b, s) ==
  /\ Move(b, s)
  /\ UNCHANGED <<callVars, sending, attempts, copies, client, panicked, metricVars>>

(* The results of batch b are all set at once. *)
Resolve(b, s) ==
  /\ Move(b, s)
  /\ sending' = sending \ {b}
  /\ UNCHANGED <<callVars, attempts, copies, client, panicked, metricVars>>

(* The ack of the service reaches the client. *)
Ack(b) ==
  /\ \A c \in b : stage[c] = "stored"
  /\ Resolve(b, "acked")
  /\ UNCHANGED abandoned

(* A retryable code comes back, possibly after the batch was stored or
   while it still may be: the batch waits for its next attempt. *)
Retry(b, code) ==
  /\ code \in retryableCodes
  /\ \A c \in b : stage[c] \in {"sent", "stored"}
  /\ Abandon(b)
  /\ Move(b, "queued")
  /\ UNCHANGED <<callVars, sending, attempts, copies, client, panicked,
                 metricVars>>

(* Any other code is the service's refusal: the whole batch fails. *)
Reject(b, code) ==
  /\ code \notin retryableCodes
  /\ \A c \in b : stage[c] = "sent"
  /\ Resolve(b, "failed")
  /\ UNCHANGED abandoned

(* Faulty variant: the timeout covers single attempts, not the retries. *)
BatchTimeout_PerAttempt(b) ==
  (\A c \in b : stage[c] = "sent") /\ Resolve(b, "failed") /\ Abandon(b)

(* PublishSettings.Timeout bounds the attempts of a batch as a whole. *)
BatchTimeout(b) == Resolve(b, "failed") /\ Abandon(b)

-----------------------------------------------------------------------------
(* Close: topic.Stop() flushes and waits, then client.Close().             *)

Stop ==
  /\ client = "open"
  /\ client' = "stopping"
  /\ IF bundle = {} THEN UNCHANGED <<stage, sending>> ELSE Flush(bundle)
  /\ UNCHANGED <<callVars, abandoned, attempts, copies, panicked, metricVars>>

(* Faulty variant: Stop does not wait for the batches on the wire. *)
flushed_Assumed == TRUE

flushed == sending = {}

StopReturns ==
  /\ client = "stopping"
  /\ flushed
  /\ client' = "stopped"
  /\ UNCHANGED <<callVars, stage, sending, abandoned, attempts, copies,
                 panicked, metricVars>>

CloseClient ==
  /\ client = "stopped"
  /\ client' = "closed"
  /\ UNCHANGED <<callVars, stage, sending, abandoned, attempts, copies,
                 panicked, metricVars>>

-----------------------------------------------------------------------------
(* Callers that keep the contract of the Publisher type: no Publish starts *)
(* once Close has begun, and Close begins when every Publish has returned. *)

CallerEnters(c) == client = "open" /\ Enter(c)

quiet == \A c \in Calls : pc[c] \in {"idle", "returned"}

CallerCloses == quiet /\ Stop

CallStep(c) == Enqueue(c) \/ Expire(c) \/ Get(c) \/ Count(c) \/ Return(c)

BatchStep(b) ==
  \/ Attempt(b) \/ Store(b) \/ Ack(b) \/ BatchTimeout(b)
  \/ \E code \in retryableCodes : Retry(b, code)
  \/ \E code \in finalCodes : Reject(b, code)

ClientStep ==
  \/ DelayElapses
  \/ \E b \in sending : BatchStep(b)
  \/ \E a \in abandoned : LateStore(a)
  \/ StopReturns
  \/ CloseClient

Terminated == client = "closed" /\ UNCHANGED vars

Next ==
  \/ \E c \in Calls : CallerEnters(c) \/ CallStep(c)
  \/ ClientStep
  \/ CallerCloses
  \/ Terminated

Spec == Init /\ [][Next]_vars

-----------------------------------------------------------------------------
(* What a caller is promised: the contract of PublishContract, where a     *)
(* call is open from its entry until its outcome is known.                 *)

callState ==
  [c \in Calls |-> IF outcome[c] # "none" THEN outcome[c]
                   ELSE IF pc[c] = "idle" THEN "idle" ELSE "open"]

Contract == INSTANCE PublishContract WITH call <- callState

(* A call is told "ok" only for a message that the topic holds, whatever
   the timeouts, retries and late answers between them: publisher.go:139-142
   and publisher_test.go:64-67. *)
ImplementsContract == Contract!Spec

-----------------------------------------------------------------------------
(* Properties.                                                             *)

(* The type invariant of the variables above. *)
TypeOK ==
  /\ pc \in [Calls -> PCs]
  /\ outcome \in [Calls -> {"none", "ok", "err"}]
  /\ expired \subseteq Calls
  /\ stage \in [Calls -> Stages]
  /\ sending \subseteq SUBSET Calls
  /\ abandoned \subseteq (SUBSET Calls) \X (0 .. MaxAttempts)
  /\ attempts \in [Calls -> 0 .. MaxAttempts]
  /\ copies \in [Calls -> Nat]
  /\ client \in Clients
  /\ panicked \in BOOLEAN
  /\ inflight \in Int
  /\ publishTotal \in [{"success", "error"} -> Nat]
  /\ callDurations \in Nat /\ resultDurations \in Nat

(* The batches on the wire are disjoint and hold exactly the messages whose
   result is still open there; the members of one batch are always at the
   same stage of the same attempt, so one answer decides for all of them
   (publisher.go:128-134, batching). *)
BatchesPartition ==
  /\ \A b \in sending :
       /\ b # {}
       /\ \A c, d \in b : /\ stage[c] \in InBatch
                          /\ stage[c] = stage[d] /\ attempts[c] = attempts[d]
  /\ \A b, e \in sending : b = e \/ b \cap e = {}
  /\ \A c \in Calls : /\ stage[c] \in InBatch => \E b \in sending : c \in b
                      /\ stage[c] \in {"none", "bundled"} => attempts[c] = 0

(* What a call has been told and what has become of its message agree: the
   client knows nothing of a message before topic.Publish, a message it
   reports as stored is in the topic, an outcome exists once result.Get has
   returned and "ok" is said of acked messages only (publisher.go:159-169). *)
OutcomeMatchesStage ==
  /\ \A c \in Calls :
       /\ stage[c] = "none" <=> pc[c] \in {"idle", "enqueue"}
       /\ outcome[c] = "none" <=> pc[c] \in {"idle", "enqueue", "get"}
       /\ outcome[c] = "ok" => stage[c] = "acked"
       /\ stage[c] \in {"stored", "acked"} => copies[c] > 0
  /\ \A a \in abandoned : \A c \in a[1] : stage[c] # "none"

(* The metrics of publisher.go:52-74 agree with the calls at every moment
   another goroutine may scrape them: the gauge counts the calls inside
   Publish, the counters split the calls past their result by outcome, the
   histograms count the calls past their two observations. *)
MetricsAgree ==
  LET At(S) == {c \in Calls : pc[c] \in S}
      Done(s) == {c \in At({"return", "returned"}) : status(c) = s}
  IN  /\ inflight = Cardinality(At(PCs \ {"idle", "returned"}))
      /\ publishTotal = [s \in {"success", "error"} |-> Cardinality(Done(s))]
      /\ callDurations = Cardinality(At(PCs \ {"idle", "enqueue"}))
      /\ resultDurations = Cardinality(At({"count", "return", "returned"}))

(* Close "blocks until any pending batches flush" (publisher.go:172-173):
   once topic.Stop has returned the client holds no message unresolved,
   whatever was in the bundle or on the wire when it was called. *)
CloseFlushes ==
  client \in {"stopped", "closed"} =>
    \A c \in Calls : stage[c] \in {"none", "acked", "failed"}

(* Callers that keep the contract of publisher.go:36-38 never meet the
   panic it warns of: Close finds no call inside Publish, and no message
   joins the bundle behind its back (publisher.go:172-174). *)
QuietClose ==
  /\ ~panicked
  /\ client # "open" =>
       bundle = {} /\ \A c \in Calls : pc[c] \in {"idle", "returned"}
=============================================================================
