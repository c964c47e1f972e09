------------------------- MODULE MCSettlementServer -------------------------
(***************************************************************************)
(* Deposits for TLC.  d1 and d2 are what settle-batch has to tell apart: a *)
(* receiver gets the same amount twice, at two rates.  e1 is a deposit of  *)
(* another corridor of the same escrow that has the receiver and the       *)
(* deposit id of d1: every corridor numbers its deposits from 0.           *)
(***************************************************************************)
EXTENDS SettlementServer

CONSTANTS d1, d2, e1, bob

MCReceiver == [d \in Deposits |-> bob]
MCAmount == [d \in Deposits |-> 10]
MCDepositId == [d \in Deposits |-> IF d = d2 THEN 1 ELSE 0]
MCHeight == [d \in Deposits |-> IF d = d2 THEN 2 ELSE 1]
MCPayout == [d \in Deposits |-> CASE d = d1 -> 100 [] d = d2 -> 200 [] OTHER -> 300]

=============================================================================
