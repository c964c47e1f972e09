--------------------------- MODULE MCBridgeWorker ---------------------------
(***************************************************************************)
(* Two holders for TLC, one of them the worker's, and three kinds of       *)
(* transactions: a burn, two burns at once, and a burn after an event of   *)
(* the same signature that another contract emits.                         *)
(***************************************************************************)
EXTENDS BridgeWorker

CONSTANT fake

Burnt(emitter, amount) == [emitter |-> emitter, amount |-> amount]

MCCalls ==
    {<<Burnt(Token, 2)>>, <<Burnt(Token, 1), Burnt(Token, 1)>>,
     <<Burnt(fake, 1), Burnt(Token, 1)>>}

=============================================================================
