------------------------- MODULE MessageBuilderProofs -------------------------
(***************************************************************************)
(* Proofs about MessageBuilder for any number of concurrent builds and any *)
(* number of writers.                                                      *)
(***************************************************************************)
EXTENDS MessageBuilder, FiniteSetTheorems, TLAPS

Holding == {"write", "close", "put", "giveup"}

(* A call holds one writer from Get to Put and none otherwise; nobody else
   does, nor does the pool. *)
Ownership ==
  /\ \A c \in Builds : IF pc[c] \in Holding THEN \E w \in Writers : held[c] = {w}
                                            ELSE held[c] = {}
  /\ \A c, d \in Builds : c # d => held[c] \cap held[d] = {}
  /\ \A c \in Builds : held[c] \cap pool = {}

(* Where the payload of a call is, at each point of the call. *)
InGzip ==
  /\ \A c \in Builds : pc[c] \in {"idle", "write", "close"} => buf[c] = <<>>
  /\ \A c \in Builds : \A w \in held[c] :
       /\ pc[c] \in {"write", "close"} => sink[w] = c
       /\ pc[c] = "write" => stream[w] = <<>>
       /\ pc[c] = "close" => stream[w] = <<payload(c)>>

(* Who has a document_id, and where it comes from. *)
Documents ==
  /\ \A c \in Builds : pc[c] = "built" =>
       IF params[c].DocumentID # NoID THEN document[c] = params[c].DocumentID
                                      ELSE document[c] \in issued
  /\ \A c, d \in Builds :
       c # d /\ pc[c] = "built" /\ pc[d] = "built" /\ document[c] = document[d] =>
         document[c] \notin issued

(* A built message has the attributes of its own request, all of them and
   nothing of another's. *)
OwnAttributes ==
  \A c \in Builds : pc[c] = "built" =>
    optional[c] = {<<f, c>> : f \in params[c].request}

Inv == TypeOK /\ Ownership /\ InGzip /\ OwnPayload /\ OwnAttributes /\ Documents

LEMMA InitInv == Init => Inv
BY DEF Init, Inv, TypeOK, PCs, Ownership, Holding, InGzip, OwnPayload, OwnAttributes,
  Documents

(* A payload does not change, and neither does what a message carries. *)
LEMMA PayloadFixed ==
  /\ \A c \in Builds : payload(c) \in Payloads
  /\ params' = params => \A c \in Builds : payload(c)' = payload(c)
BY DEF payload, Payloads

LEMMA MessagesStay ==
  ASSUME OwnAttributes, Documents, UNCHANGED <<params, messageVars>>,
         \A c \in Builds : pc'[c] = "built" => pc[c] = "built"
  PROVE  OwnAttributes' /\ Documents'
BY DEF OwnAttributes, Documents, messageVars

(* Nobody else holds the writer that c holds. *)
LEMMA Exclusive ==
  ASSUME Inv, NEW c \in Builds, NEW w \in held[c], NEW d \in Builds \ {c}
  PROVE  w \notin held[d]
BY DEF Inv, Ownership

LEMMA StepGet == ASSUME Inv, NEW c \in Builds, Get(c) PROVE Inv'
<1> USE BuilderAssumption DEF Inv, TypeOK, PCs, messageVars
<1>1. PICK w \in pool \cup (Writers \ existing) :
        /\ held' = [held EXCEPT ![c] = {w}]
        /\ pool' = pool \ {w}
        /\ existing' = existing \cup {w}
        /\ sink' = [sink EXCEPT ![w] = c]
        /\ stream' = [stream EXCEPT ![w] = <<>>]
  BY DEF Get, without, Reset
<1>2. /\ pc[c] = "idle" /\ pc' = [pc EXCEPT ![c] = "write"]
      /\ UNCHANGED <<params, buf, messageVars>>
  BY DEF Get, Goto
<1>3. w \in Writers /\ \A d \in Builds : w \notin held[d]
  BY <1>1 DEF Ownership
<1>4. TypeOK'
  BY <1>1, <1>2, <1>3
<1>5. Ownership'
  BY <1>1, <1>2, <1>3 DEF Ownership, Holding
<1>6. InGzip'
  BY PayloadFixed, <1>1, <1>2, <1>3 DEF InGzip
<1>7. OwnPayload'
  BY PayloadFixed, <1>2 DEF OwnPayload
<1>8. OwnAttributes' /\ Documents'
  BY <1>2, MessagesStay
<1> QED
  BY <1>4, <1>5, <1>6, <1>7, <1>8

LEMMA StepWrite == ASSUME Inv, NEW c \in Builds, Write(c) PROVE Inv'
<1> USE BuilderAssumption DEF Inv, TypeOK, PCs, messageVars
<1>1. PICK w \in held[c] : stream' = [stream EXCEPT ![w] = Append(@, payload(c))]
  BY DEF Write
<1>2. /\ pc[c] = "write"
      /\ \/ pc' = [pc EXCEPT ![c] = "close"]
         \/ pc' = [pc EXCEPT ![c] = "giveup"]
      /\ UNCHANGED <<params, held, pool, existing, sink, buf, messageVars>>
  BY DEF Write, Goto
<1>3. w \in Writers /\ held[c] = {w}
  BY <1>1, <1>2 DEF Ownership, Holding
<1>4. stream[w] = <<>> /\ stream'[w] = <<payload(c)>>
  <2>1. stream[w] = <<>>
    BY <1>2, <1>3 DEF InGzip
  <2>2. stream'[w] = Append(<<>>, payload(c))
    BY <1>1, <1>3, <2>1
  <2> QED
    BY <2>1, <2>2
<1>5. TypeOK'
  <2>1. Append(stream[w], payload(c)) \in Seq(Payloads)
    BY <1>3, PayloadFixed
  <2>2. stream' \in [Writers -> Seq(Payloads)]
    BY <1>1, <1>3, <2>1
  <2> QED
    BY <1>2, <2>2
<1>6. Ownership'
  BY <1>2 DEF Ownership, Holding
<1>7. \A d \in Builds \ {c} : \A v \in held[d] : stream'[v] = stream[v] /\ v \in Writers
  BY <1>1, <1>3, Exclusive
<1>8. InGzip'
  <2>1. \A d \in Builds : payload(d)' = payload(d)
    BY <1>2, PayloadFixed
  <2>2. ASSUME NEW d \in Builds, pc'[d] \in {"idle", "write", "close"}
        PROVE  buf'[d] = <<>>
    BY <1>2, <2>2 DEF InGzip
  <2>3. ASSUME NEW d \in Builds, NEW v \in held'[d]
        PROVE  /\ pc'[d] \in {"write", "close"} => sink'[v] = d
               /\ pc'[d] = "write" => stream'[v] = <<>>
               /\ pc'[d] = "close" => stream'[v] = <<payload(d)>>
    <3>1. CASE d = c
      BY <1>2, <1>3, <1>4, <2>3, <3>1 DEF InGzip
    <3>2. CASE d # c
      BY <1>2, <1>7, <2>3, <3>2 DEF InGzip
    <3> QED
      BY <3>1, <3>2
  <2> QED
    BY <2>1, <2>2, <2>3 DEF InGzip
<1>9. OwnPayload'
  BY PayloadFixed, <1>2 DEF OwnPayload
<1>10. OwnAttributes' /\ Documents'
  BY <1>2, MessagesStay
<1> QED
  BY <1>5, <1>6, <1>8, <1>9, <1>10

(* What closing the writer of c does: it touches the buffer of c alone. *)
LEMMA CloseEffect ==
  ASSUME Inv, NEW c \in Builds, Close(c)
  PROVE  /\ pc[c] = "close"
         /\ buf' = [buf EXCEPT ![c] = <<payload(c)>>]
         /\ \E w \in Writers : /\ held[c] = {w}
                               /\ stream' = [stream EXCEPT ![w] = <<>>]
<1> USE BuilderAssumption DEF Inv, TypeOK, PCs, messageVars
<1>1. pc[c] = "close"
  BY DEF Close
<1>2. PICK w \in held[c] :
        /\ buf' = [d \in Builds |->
                    IF d = sink[w] THEN buf[d] \o stream[w] ELSE buf[d]]
        /\ stream' = [stream EXCEPT ![w] = <<>>]
  BY DEF Close
<1>3. w \in Writers /\ held[c] = {w}
  BY <1>1, <1>2 DEF Ownership, Holding
<1>4. sink[w] = c /\ stream[w] = <<payload(c)>> /\ buf[c] = <<>>
  BY <1>1, <1>3 DEF InGzip
<1>5. buf[c] \o stream[w] = <<payload(c)>>
  BY <1>4
<1> QED
  BY <1>1, <1>2, <1>3, <1>4, <1>5

LEMMA StepClose == ASSUME Inv, NEW c \in Builds, Close(c) PROVE Inv'
<1> USE BuilderAssumption DEF Inv, TypeOK, PCs, messageVars
<1>1. PICK w \in Writers : /\ held[c] = {w}
                           /\ stream' = [stream EXCEPT ![w] = <<>>]
  BY CloseEffect
<1>2. /\ pc[c] = "close" /\ buf' = [buf EXCEPT ![c] = <<payload(c)>>]
      /\ \/ pc' = [pc EXCEPT ![c] = "put"]
         \/ pc' = [pc EXCEPT ![c] = "giveup"]
      /\ UNCHANGED <<params, held, pool, existing, sink, messageVars>>
  BY CloseEffect DEF Close, Goto
<1>3. TypeOK'
  <2>1. <<payload(c)>> \in Seq(Payloads) /\ <<>> \in Seq(Payloads)
    BY PayloadFixed
  <2>2. stream' \in [Writers -> Seq(Payloads)] /\ buf' \in [Builds -> Seq(Payloads)]
    BY <1>1, <1>2, <2>1
  <2>3. pc' \in [Builds -> PCs]
    BY <1>2
  <2> QED
    BY <1>2, <2>2, <2>3
<1>4. Ownership'
  BY <1>2 DEF Ownership, Holding
<1>5. \A d \in Builds \ {c} : \A v \in held[d] : stream'[v] = stream[v] /\ v \in Writers
  BY <1>1, Exclusive
<1>6. InGzip'
  BY PayloadFixed, <1>2, <1>5 DEF InGzip
<1>7. OwnPayload'
  BY PayloadFixed, <1>2 DEF OwnPayload
<1>8. OwnAttributes' /\ Documents'
  BY <1>2, MessagesStay
<1> QED
  BY <1>3, <1>4, <1>6, <1>7, <1>8

LEMMA StepPut == ASSUME Inv, NEW c \in Builds, Put(c) PROVE Inv'
<1> USE BuilderAssumption DEF Inv, TypeOK, PCs, messageVars
<1>1. /\ pc[c] \in {"put", "giveup"}
      /\ pool' = pool \cup held[c] /\ held' = [held EXCEPT ![c] = {}]
      /\ pc' = [pc EXCEPT ![c] = IF pc[c] = "put" THEN "attributes" ELSE "failed"]
      /\ UNCHANGED <<params, existing, sink, stream, buf, messageVars>>
  BY DEF Put, Goto
<1>2. TypeOK'
  <2>1. pc' \in [Builds -> PCs]
    BY <1>1
  <2>2. held' \in [Builds -> SUBSET existing']
    BY <1>1
  <2>3. existing' \subseteq Writers /\ pool' \subseteq existing'
    <3>1. held[c] \subseteq existing
      OBVIOUS
    <3> QED
      BY <1>1, <3>1
  <2> QED
    BY <1>1, <2>1, <2>2, <2>3
<1>3. Ownership'
  BY <1>1 DEF Ownership, Holding
<1>4. InGzip'
  BY PayloadFixed, <1>1 DEF InGzip
<1>5. OwnPayload'
  BY PayloadFixed, <1>1 DEF OwnPayload
<1>6. OwnAttributes' /\ Documents'
  BY <1>1, MessagesStay
<1> QED
  BY <1>2, <1>3, <1>4, <1>5, <1>6

LEMMA StepFails ==
  ASSUME Inv, NEW c \in Builds, MarshalFails(c) \/ NewRandomFails(c)
  PROVE  Inv'
<1> USE DEF Inv, TypeOK, PCs, gzipVars
<1>1. /\ pc[c] \in {"idle", "attributes"} /\ pc' = [pc EXCEPT ![c] = "failed"]
      /\ UNCHANGED <<params, gzipVars, buf, messageVars>>
  BY DEF MarshalFails, NewRandomFails, Goto
<1>2. TypeOK'
  BY <1>1 DEF messageVars
<1>3. Ownership'
  BY <1>1 DEF Ownership, Holding
<1>4. InGzip' /\ OwnPayload'
  BY PayloadFixed, <1>1 DEF InGzip, OwnPayload
<1>5. OwnAttributes' /\ Documents'
  BY <1>1, MessagesStay
<1> QED
  BY <1>2, <1>3, <1>4, <1>5

LEMMA StepFinish ==
  ASSUME Inv, NEW c \in Builds, Finish(c) PROVE Inv'
<1> USE BuilderAssumption DEF Inv, TypeOK, PCs, gzipVars
<1>1. PICK id \in resolveDocumentID(params[c]) :
        /\ document' = [document EXCEPT ![c] = id]
        /\ issued' = issued \cup ({id} \cap UUIDs)
  BY DEF Finish
<1>2. /\ pc[c] = "attributes" /\ pc' = [pc EXCEPT ![c] = "built"]
      /\ optional' = [optional EXCEPT ![c] = {<<f, c>> : f \in params[c].request}]
      /\ UNCHANGED <<params, gzipVars, buf>>
  BY DEF Finish, Goto, attributes
<1>3. IF params[c].DocumentID # NoID THEN id = params[c].DocumentID /\ id \notin UUIDs
                                     ELSE id \in UUIDs \ issued
  BY <1>1 DEF resolveDocumentID
<1>4. TypeOK'
  <2>1. {<<f, c>> : f \in params[c].request} \subseteq Fields \X Builds
    OBVIOUS
  <2> QED
    BY <1>1, <1>2, <1>3, <2>1
<1>5. Ownership'
  BY <1>2 DEF Ownership, Holding
<1>6. InGzip' /\ OwnPayload'
  BY PayloadFixed, <1>2 DEF InGzip, OwnPayload
<1>7. OwnAttributes'
  BY <1>2 DEF OwnAttributes
<1>8. Documents'
  <2>1. ASSUME NEW d \in Builds, d # c, pc'[d] = "built"
        PROVE  /\ pc[d] = "built" /\ document'[d] = document[d]
               /\ IF params[d].DocumentID # NoID
                    THEN document[d] = params[d].DocumentID /\ document[d] \notin UUIDs
                    ELSE document[d] \in issued
    BY <1>1, <1>2, <1>3, <2>1 DEF Documents
  <2>2. document'[c] = id /\ params' = params
    BY <1>1, <1>2
  <2>3. \A d \in Builds : pc'[d] = "built" =>
          IF params'[d].DocumentID # NoID THEN document'[d] = params'[d].DocumentID
                                          ELSE document'[d] \in issued'
    BY <1>1, <1>3, <2>1, <2>2
  <2>4. ASSUME NEW d \in Builds, NEW e \in Builds, d # e, pc'[d] = "built",
               pc'[e] = "built", document'[d] = document'[e]
        PROVE  document'[d] \notin issued'
    <3>1. CASE d # c /\ e # c
      <4>1. document[d] = document[e] /\ document[d] \notin issued
        BY <2>1, <2>4, <3>1 DEF Documents
      <4>2. document[d] \notin UUIDs
        BY <2>1, <2>4, <3>1, <4>1
      <4> QED
        BY <1>1, <2>1, <2>4, <3>1, <4>1, <4>2
    <3>2. CASE d = c \/ e = c
      BY <1>1, <1>3, <2>1, <2>2, <2>4, <3>2
    <3> QED
      BY <3>1, <3>2
  <2> QED
    BY <2>3, <2>4 DEF Documents
<1> QED
  BY <1>4, <1>5, <1>6, <1>7, <1>8

LEMMA StepCollect == ASSUME Inv, NEW w \in Writers, Collect(w) PROVE Inv'
<1> USE BuilderAssumption DEF Inv, TypeOK, PCs, messageVars
<1>1. \A c \in Builds : w \notin held[c] /\ held[c] \subseteq existing
  BY DEF Collect, Ownership
<1>2. /\ pool' = pool \ {w} /\ existing' = existing \ {w}
      /\ sink' = [sink EXCEPT ![w] = Discard]
      /\ stream' = [stream EXCEPT ![w] = <<>>]
      /\ UNCHANGED <<params, pc, held, buf, messageVars>>
  BY DEF Collect
<1>3. TypeOK'
  BY <1>1, <1>2
<1>4. Ownership'
  BY <1>2 DEF Ownership, Holding
<1>5. InGzip'
  BY PayloadFixed, <1>1, <1>2 DEF InGzip
<1>6. OwnPayload' /\ OwnAttributes' /\ Documents'
  BY PayloadFixed, MessagesStay, <1>2 DEF OwnPayload
<1> QED
  BY <1>3, <1>4, <1>5, <1>6

LEMMA StepInv == Inv /\ [Next]_vars => Inv'
<1> SUFFICES ASSUME Inv, [Next]_vars PROVE Inv'
  OBVIOUS
<1>1. ASSUME NEW c \in Builds, BuildStep(c) PROVE Inv'
  BY <1>1, StepGet, StepWrite, StepClose, StepPut, StepFails,
     StepFinish DEF BuildStep
<1>2. ASSUME NEW w \in Writers, Collect(w) PROVE Inv'
  BY <1>2, StepCollect
<1>3. CASE UNCHANGED vars
  <2>1. TypeOK' /\ Ownership'
    BY <1>3 DEF vars, gzipVars, messageVars, Inv, TypeOK, Ownership
  <2>2. InGzip' /\ OwnPayload' /\ OwnAttributes' /\ Documents'
    BY <1>3, PayloadFixed, MessagesStay
    DEF vars, gzipVars, Inv, InGzip, OwnPayload
  <2> QED
    BY <2>1, <2>2 DEF Inv
<1> QED
  BY <1>1, <1>2, <1>3 DEF Next, Terminated

(* The invariant from which the properties follow. *)
THEOREM Safety == Spec => []Inv
BY InitInv, StepInv, PTL DEF Spec

(* The variables keep their types, for any number of builds and writers. *)
THEOREM TypeCorrect == Spec => []TypeOK
BY Safety, PTL DEF Inv

(* A gzip.Writer is never shared by two builds, nor left in the pool while a
   build uses it. *)
THEOREM WritersHaveOneOwner == Spec => []OneOwner
<1>1. Inv => OneOwner
  <2> SUFFICES ASSUME Inv, NEW c \in Builds
               PROVE  Cardinality(held[c]) = IF pc[c] \in Holding THEN 1 ELSE 0
    BY DEF OneOwner, Inv, Ownership, Holding
  <2>1. CASE pc[c] \in Holding
    BY <2>1, FS_Singleton DEF Inv, Ownership
  <2>2. CASE pc[c] \notin Holding
    BY <2>2, FS_EmptySet DEF Inv, Ownership
  <2> QED
    BY <2>1, <2>2
<1> QED
  BY <1>1, Safety, PTL

(* Every message built carries its own payload, once. *)
THEOREM PayloadsAreOwn == Spec => []OwnPayload
BY Safety, PTL DEF Inv

(* Two messages share a document_id exactly when their callers asked for it,
   for any number of builds at once. *)
THEOREM IdsSharedOnPurpose == Spec => []IdSharedOnPurpose
<1>1. Inv => IdSharedOnPurpose
  BY BuilderAssumption DEF Inv, TypeOK, Documents, IdSharedOnPurpose
<1> QED
  BY <1>1, Safety, PTL

(* A buffer is not written to once its call has handed it over. *)
THEOREM BuffersAreCallers == Spec => BufferIsCallers
<1>1. ASSUME Inv, [Next]_vars, NEW c \in Builds, pc[c] \in {"attributes", "built"}
      PROVE  buf'[c] = buf[c]
  <2>1. ASSUME NEW d \in Builds, Close(d) PROVE buf'[c] = buf[c]
    <3>1. pc[d] = "close" /\ buf' = [buf EXCEPT ![d] = <<payload(d)>>]
      BY <2>1, <1>1, CloseEffect
    <3> QED
      BY <1>1, <3>1 DEF Inv, TypeOK
  <2>2. ASSUME NEW d \in Builds,
               Get(d) \/ MarshalFails(d) \/ Write(d) \/ Put(d) \/ Finish(d)
                 \/ NewRandomFails(d)
        PROVE  buf' = buf
    BY <2>2 DEF Get, MarshalFails, Write, Put, Finish, NewRandomFails
  <2>3. ASSUME NEW w \in Writers, Collect(w) PROVE buf' = buf
    BY <2>3 DEF Collect
  <2> QED
    BY <1>1, <2>1, <2>2, <2>3 DEF Next, BuildStep, Terminated, vars
<1>2. Inv /\ [Next]_vars =>
        [\A c \in Builds :
           pc[c] \in {"attributes", "built"} => buf'[c] = buf[c]]_vars
  BY <1>1
<1> QED
  BY <1>2, Safety, PTL DEF Spec, BufferIsCallers

-----------------------------------------------------------------------------
(* The builder implements BuildContract: a call takes effect when Finish has *)
(* put its message together, or when it gives up.                            *)

CVars == <<params, result, messages>>

(* What a step leaves of the messages that have been returned. *)
Returned == {c \in Builds : pc[c] = "built"}

LEMMA MessagesKept ==
  ASSUME UNCHANGED messageVars, Returned' = Returned,
         \A c \in Returned : buf'[c] = buf[c]
  PROVE  messages' = messages
<1>1. \A c \in Returned : message(c)' = message(c)
  BY DEF message, messageVars
<1>2. messages = {message(c) : c \in Returned} /\ messages' = {message(c)' : c \in Returned'}
  BY DEF messages, Returned
<1> QED
  BY <1>1, <1>2

(* A step of c inside the build is not seen outside. *)
LEMMA InsideBuild ==
  ASSUME TypeOK, NEW c \in Builds, NEW l \in PCs \ {"built", "failed"},
         pc[c] \notin {"built", "failed"}, pc' = [pc EXCEPT ![c] = l],
         UNCHANGED <<params, messageVars>>,
         \A d \in Builds : pc[d] = "built" => buf'[d] = buf[d]
  PROVE  UNCHANGED CVars
<1> USE DEF TypeOK
<1>1. Returned' = Returned
  BY DEF Returned
<1>2. UNCHANGED messages
  BY <1>1, MessagesKept DEF Returned
<1>3. UNCHANGED result
  BY DEF result
<1> QED
  BY <1>2, <1>3 DEF CVars

(* A call gives up. *)
LEMMA GivesUp ==
  ASSUME TypeOK, NEW c \in Builds, pc[c] \notin {"built", "failed"},
         pc' = [pc EXCEPT ![c] = "failed"], UNCHANGED <<params, buf, messageVars>>
  PROVE  Contract!Next
<1> USE DEF TypeOK
<1>1. Returned' = Returned
  BY DEF Returned
<1>2. UNCHANGED messages
  BY <1>1, MessagesKept
<1>3. result[c] = "idle" /\ result' = [result EXCEPT ![c] = "failed"]
  BY DEF result
<1>4. Contract!Fail(c)
  BY <1>2, <1>3 DEF Contract!Fail
<1> QED
  BY <1>4 DEF Contract!Next

(* A call returns its message: the one the contract asks for. *)
LEMMA ReturnsMessage ==
  ASSUME Inv, NEW c \in Builds, Finish(c) PROVE Contract!Next
<1> USE DEF Inv, TypeOK, PCs
<1>1. PICK id \in resolveDocumentID(params[c]) :
        document' = [document EXCEPT ![c] = id]
  BY DEF Finish
<1>2. /\ pc[c] = "attributes" /\ pc' = [pc EXCEPT ![c] = "built"]
      /\ optional' = [optional EXCEPT ![c] = {<<f, c>> : f \in params[c].request}]
      /\ UNCHANGED <<params, buf>>
  BY DEF Finish, Goto, attributes
<1>3. result[c] = "idle" /\ result' = [result EXCEPT ![c] = "built"]
  BY <1>2 DEF result
<1>4. message(c)' = Contract!messageOf(c, id)
  <2>1. buf[c] = <<payload(c)>>
    BY <1>2 DEF OwnPayload
  <2>2. /\ message(c)' = [data |-> buf'[c], document_id |-> document'[c],
                          attributes |-> optional'[c]]
        /\ document'[c] = id /\ optional'[c] = {<<f, c>> : f \in params[c].request}
    BY <1>1, <1>2 DEF message
  <2> QED
    BY <1>2, <2>1, <2>2 DEF payload, Contract!messageOf
<1>5. id \in Contract!documents(c)
  <2>1. CASE params[c].DocumentID # NoID
    BY <1>1, <2>1 DEF resolveDocumentID, Contract!documents
  <2>2. CASE params[c].DocumentID = NoID
    <3>1. id \in UUIDs \ issued
      BY <1>1, <2>2 DEF resolveDocumentID
    <3>2. \A d \in Returned : document[d] \in issued \/ document[d] \notin UUIDs
      BY BuilderAssumption DEF Documents, Returned
    <3>3. \A m \in messages : \E d \in Returned : m.document_id = document[d]
      BY DEF messages, message, Returned
    <3> QED
      BY <2>2, <3>1, <3>2, <3>3 DEF Contract!documents
  <2> QED
    BY <2>1, <2>2
<1>6. messages' = messages \cup {message(c)'}
  <2>1. Returned' = Returned \cup {c} /\ c \notin Returned
    BY <1>2 DEF Returned
  <2>2. \A d \in Returned : message(d)' = message(d)
    BY <1>1, <1>2, <2>1 DEF message, Returned
  <2>3. messages = {message(d) : d \in Returned} /\ messages' = {message(d)' : d \in Returned'}
    BY DEF messages, Returned
  <2> QED
    BY <2>1, <2>2, <2>3
<1>7. Contract!Succeed(c)
  BY <1>2, <1>3, <1>4, <1>5, <1>6 DEF Contract!Succeed
<1> QED
  BY <1>7 DEF Contract!Next

LEMMA ContractStep == Inv /\ [Next]_vars => [Contract!Next]_CVars
<1> SUFFICES ASSUME Inv, [Next]_vars PROVE Contract!Next \/ UNCHANGED CVars
  OBVIOUS
<1> USE DEF Inv, PCs
<1>1. ASSUME NEW c \in Builds, Get(c) PROVE UNCHANGED CVars
  BY <1>1, InsideBuild DEF Get, Goto
<1>2. ASSUME NEW c \in Builds, Write(c) PROVE UNCHANGED CVars
  BY <1>2, InsideBuild DEF Write, Goto
<1>3. ASSUME NEW c \in Builds, Close(c) PROVE UNCHANGED CVars
  <2>1. pc[c] = "close" /\ buf' = [buf EXCEPT ![c] = <<payload(c)>>]
    BY <1>3, CloseEffect
  <2>2. \A d \in Builds : pc[d] = "built" => buf'[d] = buf[d]
    BY <2>1 DEF TypeOK
  <2> QED
    BY <1>3, <2>1, <2>2, InsideBuild DEF Close, Goto
<1>4. ASSUME NEW c \in Builds, Put(c) PROVE Contract!Next \/ UNCHANGED CVars
  <2>1. CASE pc[c] = "put"
    BY <1>4, <2>1, InsideBuild DEF Put, Goto
  <2>2. CASE pc[c] = "giveup"
    BY <1>4, <2>2, GivesUp DEF Put, Goto
  <2> QED
    BY <1>4, <2>1, <2>2 DEF Put
<1>5. ASSUME NEW c \in Builds, MarshalFails(c) \/ NewRandomFails(c)
      PROVE  Contract!Next
  BY <1>5, GivesUp DEF MarshalFails, NewRandomFails, Goto
<1>6. ASSUME UNCHANGED <<params, pc, buf, messageVars>> PROVE UNCHANGED CVars
  <2>1. UNCHANGED messages
    BY <1>6, MessagesKept DEF Returned
  <2> QED
    BY <1>6, <2>1 DEF CVars, result
<1>7. ASSUME NEW w \in Writers, Collect(w) PROVE UNCHANGED CVars
  BY <1>6, <1>7 DEF Collect
<1>8. CASE UNCHANGED vars
  BY <1>6, <1>8 DEF vars
<1> QED
  BY <1>1, <1>2, <1>3, <1>4, <1>5, <1>7, <1>8, ReturnsMessage
  DEF Next, BuildStep, Terminated

(* The builder is stateless as far as its callers can tell, for any number
   of goroutines, writers and collections of the pool: each call behaves as
   if it had run alone. *)
THEOREM BuilderIsStateless == Spec => KeepsBuildContract
<1>1. Init => Contract!Init
  BY DEF Init, Contract!Init, result, messages
<1>2. Spec => Contract!Init /\ [][Contract!Next]_CVars
  BY <1>1, ContractStep, Safety, PTL DEF Spec
<1> QED
  BY <1>2 DEF KeepsBuildContract, Contract!Spec, CVars
=============================================================================
