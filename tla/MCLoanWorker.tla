---------------------------- MODULE MCLoanWorker ----------------------------
(***************************************************************************)
(* One loan for TLC, due at one of a few blocks, funded at once and repaid *)
(* in two parts or in one.                                                 *)
(***************************************************************************)
EXTENDS LoanWorker

CONSTANTS alice, bob, due

MCOffers ==
    [lender : {alice}, borrower : {bob}, amount : {1}, repay : {2}, deadline : due]

=============================================================================
