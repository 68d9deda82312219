---------------------------- MODULE MessageBuilder ----------------------------
(***************************************************************************)
(* BuildEventsPingMessage of test-go-publisher/glean/server_events.go, run *)
(* by many goroutines at once: the builder itself is stateless, the gzip   *)
(* writers are shared through gzipPool.  Compressing a payload moves it    *)
(* into a writer's stream, and closing the writer moves the stream into    *)
(* the buffer the writer was last reset to.                                *)
(***************************************************************************)
EXTENDS Naturals, Sequences, FiniteSets

CONSTANTS
  Builds,   \* the calls, each with an account ID of its own
  Pings,    \* the parameters considered: DocumentID, Event, and request, the
            \* fields of RequestInfo that are not empty
  NoID,     \* the empty DocumentID
  UUIDs,    \* what uuid.NewRandom may return
  Writers,  \* the gzip.Writers that may exist at one time
  Discard   \* io.Discard, the sink of a new writer

Fields == {"user_agent", "x_forwarded_for"}

ASSUME BuilderAssumption ==
  /\ Discard \notin Builds
  /\ \A p \in Pings : p.request \subseteq Fields /\ p.DocumentID \notin UUIDs
  /\ NoID \notin UUIDs
  /\ IsFiniteSet(Builds) /\ IsFiniteSet(Writers)
  /\ Cardinality(Writers) >= Cardinality(Builds)

VARIABLES
  params,    \* the parameters of each call
  pc,        \* control point of each call
  held,      \* the writer each call has taken from the pool, as a set
  pool,      \* writers in gzipPool
  existing,  \* writers allocated and not yet collected
  sink,      \* the buffer each writer writes to, named by its call
  stream,    \* what each writer has compressed and not yet flushed
  buf,       \* the buffer of each call: the payloads in it
  document,  \* the document_id of each message
  optional,  \* the optional attributes of each message, and whose they are
  issued     \* the UUIDs drawn so far

(* What the callers see of all this. *)
result   == [c \in Builds |-> IF pc[c] \in {"built", "failed"} THEN pc[c] ELSE "idle"]
message(c) == [data |-> buf[c], document_id |-> document[c], attributes |-> optional[c]]
messages == {message(c) : c \in {b \in Builds : pc[b] = "built"}}
Contract == INSTANCE BuildContract

gzipVars    == <<held, pool, existing, sink, stream>>
messageVars == <<document, optional, issued>>
vars        == <<params, pc, gzipVars, buf, messageVars>>

PCs == {"idle", "write", "close", "put", "giveup", "attributes", "built",
        "failed"}

Init ==
  /\ params \in [Builds -> Pings]
  /\ pc = [c \in Builds |-> "idle"]
  /\ held = [c \in Builds |-> {}]
  /\ pool = {} /\ existing = {}
  /\ sink = [w \in Writers |-> Discard]
  /\ stream = [w \in Writers |-> <<>>]
  /\ buf = [c \in Builds |-> <<>>]
  /\ document = [c \in Builds |-> NoID] /\ optional = [c \in Builds |-> {}]
  /\ issued = {}

Goto(c, l) == pc' = [pc EXCEPT ![c] = l] /\ UNCHANGED params

(* The JSON of buildPayload: what the caller gave, an event or none; the
   rest is the same for every ping but for the time. *)
payload(c) == [account |-> c, events |-> IF params[c].Event THEN {c} ELSE {}]

-----------------------------------------------------------------------------

(* Faulty variant of the reset below: the pooled writer is used as it is. *)
Reset_Missing(w, c) == UNCHANGED <<sink, stream>>

(* Faulty variant: a writer keeps its first buffer, pooled along with it. *)
Reset_PooledBuffer(w, c) ==
  /\ sink' = [sink EXCEPT ![w] = IF @ = Discard THEN c ELSE @]
  /\ stream' = [stream EXCEPT ![w] = <<>>]

(* gz.Reset(&buf). *)
Reset(w, c) ==
  /\ sink' = [sink EXCEPT ![w] = c]
  /\ stream' = [stream EXCEPT ![w] = <<>>]

(* Faulty variant: one writer for all, as a package variable would be. *)
without_Shared(w) == pool \cup {w}

(* The pool when w has been taken. *)
without(w) == pool \ {w}

(* gzipPool.Get: any pooled writer, or a new one when the pool of this
   processor is empty, which others may not be. *)
Get(c) ==
  /\ pc[c] = "idle"
  /\ \E w \in pool \cup (Writers \ existing) :
       /\ held' = [held EXCEPT ![c] = {w}]
       /\ pool' = without(w)
       /\ existing' = existing \cup {w}
       /\ Reset(w, c)
  /\ Goto(c, "write")
  /\ UNCHANGED <<buf, messageVars>>

(* json.Marshal fails before any of it. *)
MarshalFails(c) ==
  /\ pc[c] = "idle"
  /\ Goto(c, "failed")
  /\ UNCHANGED <<gzipVars, buf, messageVars>>

(* gz.Write fails, perhaps half-way, or takes the whole payload. *)
Write(c) ==
  /\ pc[c] = "write"
  /\ \E w \in held[c] : stream' = [stream EXCEPT ![w] = Append(@, payload(c))]
  /\ Goto(c, "close") \/ Goto(c, "giveup")
  /\ UNCHANGED <<held, pool, existing, sink, buf, messageVars>>

(* gz.Close flushes the stream to the sink, or fails. *)
Close(c) ==
  /\ pc[c] = "close"
  /\ \E w \in held[c] :
       /\ buf' = [d \in Builds |->
                   IF d = sink[w] THEN buf[d] \o stream[w] ELSE buf[d]]
       /\ stream' = [stream EXCEPT ![w] = <<>>]
  /\ Goto(c, "put") \/ Goto(c, "giveup")
  /\ UNCHANGED <<held, pool, existing, sink, messageVars>>

(* gzipPool.Put, on every way out of compressPayload. *)
Put(c) ==
  /\ pc[c] \in {"put", "giveup"}
  /\ pool' = pool \cup held[c]
  /\ held' = [held EXCEPT ![c] = {}]
  /\ Goto(c, IF pc[c] = "put" THEN "attributes" ELSE "failed")
  /\ UNCHANGED <<existing, sink, stream, buf, messageVars>>

(* Faulty variant: one UUID for the process. *)
resolveDocumentID_Cached(p) ==
  IF p.DocumentID # NoID THEN {p.DocumentID}
  ELSE IF issued # {} THEN issued ELSE UUIDs

(* The ID that was supplied, or a fresh UUID. *)
resolveDocumentID(p) ==
  IF p.DocumentID # NoID THEN {p.DocumentID} ELSE UUIDs \ issued

(* Faulty variant: the map of attributes is kept from call to call. *)
attributes_Reused(c) ==
  UNION {optional[d] : d \in Builds} \cup {<<f, c>> : f \in params[c].request}

(* The fields of the request that are not empty, with their values. *)
attributes(c) == {<<f, c>> : f \in params[c].request}

Finish(c) ==
  /\ pc[c] = "attributes"
  /\ \E id \in resolveDocumentID(params[c]) :
       /\ document' = [document EXCEPT ![c] = id]
       /\ issued' = issued \cup ({id} \cap UUIDs)
  /\ optional' = [optional EXCEPT ![c] = attributes(c)]
  /\ Goto(c, "built")
  /\ UNCHANGED <<gzipVars, buf>>

(* uuid.NewRandom fails. *)
NewRandomFails(c) ==
  /\ pc[c] = "attributes" /\ params[c].DocumentID = NoID
  /\ Goto(c, "failed")
  /\ UNCHANGED <<gzipVars, buf, messageVars>>

(* The garbage collector empties the pool, whole or in part. *)
Collect(w) ==
  /\ w \in pool
  /\ pool' = pool \ {w}
  /\ existing' = existing \ {w}
  /\ sink' = [sink EXCEPT ![w] = Discard]
  /\ stream' = [stream EXCEPT ![w] = <<>>]
  /\ UNCHANGED <<params, pc, held, buf, messageVars>>

(* Every call has returned. *)
Terminated ==
  (\A c \in Builds : pc[c] \in {"built", "failed"}) /\ UNCHANGED vars

BuildStep(c) ==
  \/ Get(c) \/ MarshalFails(c) \/ Write(c) \/ Close(c) \/ Put(c)
  \/ Finish(c) \/ NewRandomFails(c)

Next ==
  \/ \E c \in Builds : BuildStep(c)
  \/ \E w \in Writers : Collect(w)
  \/ Terminated

Spec == Init /\ [][Next]_vars

-----------------------------------------------------------------------------
(* Properties.                                                             *)

Payloads == [account : Builds, events : SUBSET Builds]

TypeOK ==
  /\ params \in [Builds -> Pings]
  /\ pc \in [Builds -> PCs]
  /\ existing \subseteq Writers /\ pool \subseteq existing
  /\ held \in [Builds -> SUBSET existing]
  /\ sink \in [Writers -> Builds \cup {Discard}]
  /\ stream \in [Writers -> Seq(Payloads)]
  /\ buf \in [Builds -> Seq(Payloads)]
  /\ document \in [Builds -> {NoID} \cup UUIDs \cup {p.DocumentID : p \in Pings}]
  /\ optional \in [Builds -> SUBSET (Fields \X Builds)]
  /\ issued \subseteq UUIDs

(* A writer is in one place: with one call, or in the pool
   (server_events.go:48-62). *)
OneOwner ==
  /\ \A c, d \in Builds : c # d => held[c] \cap held[d] = {}
  /\ \A c \in Builds : held[c] \cap pool = {}
  /\ \A c \in Builds :
       Cardinality(held[c]) = IF pc[c] \in {"write", "close", "put", "giveup"}
                              THEN 1 ELSE 0

(* A message carries its own payload, once and whole, and nothing of the
   others that went through the same writer, failed ones included
   (server_events.go:220-262). *)
OwnPayload ==
  \A c \in Builds : pc[c] \in {"put", "attributes", "built"} =>
    buf[c] = <<payload(c)>>

(* "The returned slice is caller-owned; only the *gzip.Writer is returned to
   the pool" (server_events.go:43-45): nobody writes to a buffer once it has
   been handed over. *)
BufferIsCallers ==
  [][\A c \in Builds :
       pc[c] \in {"attributes", "built"} => buf'[c] = buf[c]]_vars

(* "The builder is stateless and safe to share across goroutines"
   (main.go:177-178): however the calls overlap and whatever writer the pool
   hands to whom, each behaves as if it had run alone, in one step, and no
   message changes once it has been returned. *)
KeepsBuildContract == Contract!Spec

(* "Set DocumentID on the ping params struct to share an ID across
   transports" (server_events.go:136-138): two messages have one document_id
   if their callers asked for it and not otherwise, whether they are built
   one after the other or at once. *)
IdSharedOnPurpose ==
  \A c, d \in Builds : c # d /\ pc[c] = "built" /\ pc[d] = "built" =>
    (document[c] = document[d] <=>
       params[c].DocumentID = params[d].DocumentID /\ params[c].DocumentID # NoID)
=============================================================================
