--------------------------- MODULE PublisherLiveness ---------------------------
(***************************************************************************)
(* What must happen in Publisher, when the scheduler is fair to the callers *)
(* and the client's own timers run.  The client may also be stuck for ever, *)
(* which is what publishTimeout is there for; nothing at all is assumed of *)
(* the service, which may never answer.                                    *)
(***************************************************************************)
EXTENDS Publisher

VARIABLE stuck     \* from the start, the client makes no progress it must make

liveVars == <<vars, stuck>>

LiveInit == Init /\ stuck \in BOOLEAN

LiveNext == Next /\ UNCHANGED stuck

(* The scheduler runs every goroutine and every context timer fires. *)
CallerFairness ==
  \A c \in Calls :
    /\ WF_liveVars(UNCHANGED stuck /\ Enqueue(c))
    /\ WF_liveVars(UNCHANGED stuck /\ Expire(c))
    /\ WF_liveVars(UNCHANGED stuck /\ Get(c))
    /\ WF_liveVars(UNCHANGED stuck /\ Count(c))
    /\ WF_liveVars(UNCHANGED stuck /\ Return(c))

(* The client's timers fire and Close runs on, unless the client is stuck. *)
works == ~stuck /\ UNCHANGED stuck

ClientFairness ==
  /\ WF_liveVars(works /\ DelayElapses)
  /\ \A b \in SUBSET Calls \ {{}} :
       WF_liveVars(works /\ b \in sending /\ BatchTimeout(b))
  /\ WF_liveVars(works /\ StopReturns)
  /\ WF_liveVars(works /\ CloseClient)

LiveSpec ==
  LiveInit /\ [][LiveNext]_liveVars /\ CallerFairness /\ ClientFairness

-----------------------------------------------------------------------------
(* Properties.                                                             *)

(* "The call is bounded by publishTimeout ... so a stuck or slow publish
   fails fast rather than hanging the caller" (publisher.go:148-150): every
   call that enters returns, also when the client never resolves anything. *)
EveryCallReturns ==
  \A c \in Calls : pc[c] = "enqueue" ~> pc[c] = "returned"

(* DelayThreshold and Timeout together resolve every message accepted, also
   one whose bundle never fills, with no answer from the service
   (publisher.go:128-134). *)
EveryMessageResolves ==
  \A c \in Calls :
    (stage[c] = "bundled" /\ ~stuck) ~> stage[c] \in {"acked", "failed"}

(* Close returns although the service may never answer (publisher.go:181). *)
CloseReturns == (client = "stopping" /\ ~stuck) ~> client = "closed"
=============================================================================
