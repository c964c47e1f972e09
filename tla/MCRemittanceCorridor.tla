------------------------ MODULE MCRemittanceCorridor ------------------------
(***************************************************************************)
(* A small corridor for TLC: two deposit contracts on one escrow, as the   *)
(* deployment has them, and the transactions that make the cases differ:   *)
(* amounts that round down to a payout and to zero, a product that         *)
(* overflows, a transfer to oneself, a transaction with three deposits,    *)
(* ones in which another contract's events or another feed's come first,   *)
(* one that is no deposit at all, and ones that revert.                    *)
(***************************************************************************)
EXTENDS RemittanceCorridor

CONSTANTS A, B, other, alice, bob

Call(c, r, n) == [kind |-> "deposit", contract |-> c, receiver |-> r, amount |-> n]
Observe(c) == [kind |-> "observe", contract |-> c]
OtherRate(n, d) ==
    [kind |-> "RateObserved", log |-> [feed |-> other, answer |-> n, decimals |-> d]]
OtherDeposit ==
    [kind |-> "RemittanceDeposited",
     log |-> [contract |-> other, sender |-> bob, receiver |-> bob, amount |-> 7,
              depositId |-> 0]]

\* The third pays 40 for 1; two of them would overflow the supply of the token.
MCTransactions ==
    {[sender |-> alice, steps |-> <<Call(A, bob, 5)>>],
     [sender |-> alice, steps |-> <<Call(A, alice, 4), Call(B, bob, 1), Call(A, bob, 2)>>],
     [sender |-> bob,   steps |-> <<OtherRate(40, 0), Call(B, alice, 1)>>],
     [sender |-> bob,   steps |-> <<OtherRate(1, 40), Call(B, alice, 1)>>],
     [sender |-> bob,   steps |-> <<OtherDeposit, Call(B, alice, 1)>>],
     [sender |-> bob,   steps |-> <<Observe(B), Call(A, bob, 1), OtherDeposit, OtherRate(0, 0)>>],
     [sender |-> bob,   steps |-> <<OtherDeposit>>],
     [sender |-> bob,   steps |-> <<OtherRate(0, 0)>>],
     [sender |-> bob,   steps |-> <<Call(A, ZeroAddress, 1)>>]}

\* 1.5 and 0.2 units of payout per unit, an answer that is not positive, and one
\* that has aged.
MCReadings ==
    {[answer |-> 15, decimals |-> 1, stale |-> FALSE],
     [answer |-> 2,  decimals |-> 1, stale |-> FALSE],
     [answer |-> 0,  decimals |-> 1, stale |-> FALSE],
     [answer |-> 15, decimals |-> 1, stale |-> TRUE]}

MCInitialReading == [answer |-> 15, decimals |-> 1, stale |-> FALSE]

=============================================================================
