--------------------------- MODULE MCLoanManager ---------------------------
(***************************************************************************)
(* Two loans for TLC, in opposite directions between two accounts, paid in *)
(* amounts below and above what is left, with deadlines two blocks apart.  *)
(***************************************************************************)
EXTENDS LoanManager

CONSTANTS alice, bob

MCOffers ==
    {[lender |-> alice, borrower |-> bob, amount |-> 2, repay |-> 2, deadline |-> 2],
     [lender |-> bob, borrower |-> alice, amount |-> 1, repay |-> 2, deadline |-> 3]}

=============================================================================
