--------------------------- MODULE MCMessageBuilder ---------------------------
(* Model values, parameters and symmetry for the runs of MessageBuilder. *)
EXTENDS MessageBuilder, TLC

CONSTANT shared  \* the DocumentID that the callers who supply one agree on

(* A ping with everything, one with a shared DocumentID and no event, one
   built WithoutUserInfo. *)
MCPings ==
  { [DocumentID |-> NoID,   Event |-> TRUE,  request |-> {"user_agent", "x_forwarded_for"}],
    [DocumentID |-> shared, Event |-> FALSE, request |-> {"user_agent"}],
    [DocumentID |-> NoID,   Event |-> TRUE,  request |-> {}] }

Symmetry ==
  Permutations(Builds) \cup Permutations(Writers) \cup Permutations(UUIDs)
=============================================================================
