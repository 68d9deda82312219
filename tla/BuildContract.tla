----------------------------- MODULE BuildContract -----------------------------
(***************************************************************************)
(* What the events-ping builder promises the goroutines that share it, with *)
(* no compression and no writers in sight: a call fails or returns one      *)
(* message, in one step, made of its own parameters and of nothing that     *)
(* another call left behind; and a message returned stays as it is.         *)
(***************************************************************************)
CONSTANTS
  Builds,    \* see MessageBuilder
  Pings, NoID, UUIDs

VARIABLES
  params,    \* the parameters of each call
  result,    \* what each call has returned
  messages   \* the messages returned so far

Init ==
  /\ params \in [Builds -> Pings]
  /\ result = [c \in Builds |-> "idle"]
  /\ messages = {}

(* The document_ids a call may use: the one supplied, or any not in use. *)
documents(c) ==
  IF params[c].DocumentID # NoID THEN {params[c].DocumentID}
  ELSE UUIDs \ {m.document_id : m \in messages}

(* The message of call c under a document_id. *)
messageOf(c, id) ==
  [data        |-> <<[account |-> c, events |-> IF params[c].Event THEN {c} ELSE {}]>>,
   document_id |-> id,
   attributes  |-> {<<f, c>> : f \in params[c].request}]

Succeed(c) ==
  /\ result[c] = "idle"
  /\ result' = [result EXCEPT ![c] = "built"]
  /\ \E id \in documents(c) : messages' = messages \cup {messageOf(c, id)}
  /\ UNCHANGED params

Fail(c) ==
  /\ result[c] = "idle"
  /\ result' = [result EXCEPT ![c] = "failed"]
  /\ UNCHANGED <<params, messages>>

Next == \E c \in Builds : Succeed(c) \/ Fail(c)

Spec == Init /\ [][Next]_<<params, result, messages>>
=============================================================================
