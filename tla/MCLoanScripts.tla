--------------------------- MODULE MCLoanScripts ---------------------------
(***************************************************************************)
(* One loan for TLC, lent and owed in amounts the cfg gives, and runs of   *)
(* the scripts that pay it in parts, at once, or more than is left.        *)
(***************************************************************************)
EXTENDS LoanScripts

CONSTANTS lentAmounts, owedAmounts

MCOffers ==
    [lender : {Lender}, borrower : {Borrower}, amount : lentAmounts, repay : owedAmounts,
     deadline : {2}]

=============================================================================
