---------------------------- MODULE PayoutLedger ----------------------------
(***************************************************************************)
(* What the corridor promises, without chains, proofs or contracts: there  *)
(* is a growing set of payments owed, and a ledger of payments made.  A    *)
(* settlement makes some payments that are owed and not yet made, each     *)
(* once, and nothing is ever taken back.                                   *)
(***************************************************************************)
EXTENDS Integers, Sequences, Functions

CONSTANT MaxSettlement  \* most payments made by one settlement

VARIABLES
    owed,       \* payments that have become due
    ledger      \* payments made, in order

vars == <<owed, ledger>>

Init ==
    /\ owed = {}
    /\ ledger = <<>>

\* More payments become due.
Accrue ==
    /\ owed \subseteq owed'
    /\ UNCHANGED ledger

\* One settlement: distinct payments, all owed, none made before.
Settle ==
    /\ \E n \in 1 .. MaxSettlement :
          \E payments \in [1 .. n -> owed \ Range(ledger)] :
              /\ IsInjective(payments)
              /\ ledger' = ledger \o payments
    /\ UNCHANGED owed

Next == Accrue \/ Settle

Spec == Init /\ [][Next]_vars

=============================================================================
