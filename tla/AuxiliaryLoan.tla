--------------------------- MODULE AuxiliaryLoan ---------------------------
(***************************************************************************)
(* The source-chain half of the loan flow: AuxiliaryLoanContract, which    *)
(* moves the lender's tokens to the borrower and back and leaves a log for *)
(* each loan fully funded and for each repayment.  A transaction that      *)
(* reverts leaves no log, one that goes through at most one, so the chain  *)
(* is the sequence of logs; any other contract can emit the same events.   *)
(*                                                                         *)
(* One token is used, the one of the worker's configuration: what a flow   *)
(* names is its lender and its borrower.                                   *)
(***************************************************************************)
EXTENDS Integers, Sequences, FiniteSets

CONSTANTS
    Accounts,       \* lenders and borrowers
    LoanIds,        \* ids of loans, 1 .. the bound on loans
    Auxiliary,      \* the AuxiliaryLoanContract
    Others,         \* other contracts of the source chain
    None,           \* no flow, no terms, no contract
    InitialTokens,  \* tokens each account starts with
    MaxLogs         \* bound: logs on the source chain

Flow == [from : Accounts, to : Accounts]

ASSUME AuxiliaryAssumption ==
    /\ Auxiliary \notin Others \cup {None}
    /\ None \notin Flow
    /\ LoanIds \subseteq Nat \ {0}
    /\ InitialTokens \in Nat

VARIABLES
    authorized,     \* authorizedTokens, for the token
    tokens,         \* balanceOf
    flows,          \* loanFundFlows: [from, to], None until loanFundRegistered
    fundLeft,       \* loanFundAmounts
    repayLeft,      \* loanRepaymentAmounts
    repayable,      \* loanRepaymentRegistered
    expiredLoans,
    logs,           \* LoanFunded and LoanRepaid events of all contracts, in order
    attested        \* how many of them are in attested blocks

flowVars == <<flows, fundLeft, repayLeft, repayable>>
auxiliaryVars == <<authorized, tokens, flowVars, expiredLoans, logs, attested>>

AuxiliaryInit ==
    /\ authorized = FALSE
    /\ tokens = [a \in Accounts |-> InitialTokens]
    /\ flows = [l \in LoanIds |-> None]
    /\ fundLeft = [l \in LoanIds |-> 0]
    /\ repayLeft = [l \in LoanIds |-> 0]
    /\ repayable = {}
    /\ expiredLoans = {}
    /\ logs = <<>>
    /\ attested = 0

-----------------------------------------------------------------------------

Log(contract, event, l, amount) ==
    [contract |-> contract, event |-> event, loanId |-> l, amount |-> amount]

\* addAuthorizedToken and removeAuthorizedToken.
Authorize(yes) ==
    /\ authorized' = yes
    /\ UNCHANGED <<tokens, flowVars, expiredLoans, logs, attested>>

\* validateFlow: true of a flow and of its reverse alike.
ValidFlow(from, to) == from # to /\ authorized

\* What each operation requires; without it the transaction reverts.
CanRegisterLoanFund(l, from, to, fundAmount) ==
    /\ l \notin expiredLoans
    /\ flows[l] = None
    /\ fundAmount > 0
    /\ ValidFlow(from, to)

RegisterLoanFund(l, from, to, fundAmount, repayAmount) ==
    /\ CanRegisterLoanFund(l, from, to, fundAmount)
    /\ flows' = [flows EXCEPT ![l] = [from |-> from, to |-> to]]
    /\ fundLeft' = [fundLeft EXCEPT ![l] = fundAmount]
    /\ repayLeft' = [repayLeft EXCEPT ![l] = repayAmount]
    /\ UNCHANGED <<authorized, tokens, repayable, expiredLoans, logs, attested>>

Min2(m, n) == IF m < n THEN m ELSE n

Transfer(from, to, amount) ==
    tokens' = [tokens EXCEPT ![from] = @ - amount, ![to] = @ + amount]

\* "If the funded amount exceeds expected, cap it to expected", and likewise
\* for a repayment.
Capped(amount, left) == Min2(amount, left)

\* Mutant: the event is emitted for every payment of the lender.
AnyFunding(left) == TRUE

\* The payment of the lender that leaves nothing to fund.
FullyFunded(left) == left = 0

\* What a payment of the lender, or of the borrower, moves.
FundPaid(l, amount) == Capped(amount, fundLeft[l])
RepayPaid(l, amount) == Capped(amount, repayLeft[l])

CanFundLoan(l, amount) ==
    /\ l \notin expiredLoans
    /\ amount > 0
    /\ flows[l] # None
    /\ fundLeft[l] > 0
    /\ tokens[flows[l].from] >= FundPaid(l, amount)
    /\ FullyFunded(fundLeft[l] - FundPaid(l, amount)) =>
          /\ l \notin repayable
          /\ repayLeft[l] > 0
          /\ ValidFlow(flows[l].to, flows[l].from)

\* fundLoan, called by the lender; the last payment opens the repayment.
FundLoan(l, amount) ==
    LET paid == FundPaid(l, amount)
        left == fundLeft[l] - paid
    IN  /\ Len(logs) < MaxLogs
        /\ CanFundLoan(l, amount)
        /\ Transfer(flows[l].from, flows[l].to, paid)
        /\ fundLeft' = [fundLeft EXCEPT ![l] = left]
        /\ IF FullyFunded(left)
           THEN /\ repayable' = repayable \cup {l}
                /\ logs' = Append(logs, Log(Auxiliary, "LoanFunded", l, 0))
           ELSE UNCHANGED <<repayable, logs>>
        /\ UNCHANGED <<authorized, flows, repayLeft, expiredLoans, attested>>

CanRepayLoan(l, amount) ==
    /\ l \notin expiredLoans
    /\ amount > 0
    /\ l \in repayable
    /\ repayLeft[l] > 0
    /\ tokens[flows[l].to] >= RepayPaid(l, amount)

\* repayLoan, called by the borrower.
RepayLoan(l, amount) ==
    LET paid == RepayPaid(l, amount) IN
    /\ Len(logs) < MaxLogs
    /\ CanRepayLoan(l, amount)
    /\ Transfer(flows[l].to, flows[l].from, paid)
    /\ repayLeft' = [repayLeft EXCEPT ![l] = @ - paid]
    /\ logs' = Append(logs, Log(Auxiliary, "LoanRepaid", l, paid))
    /\ UNCHANGED <<authorized, flows, fundLeft, repayable, expiredLoans, attested>>

\* markLoanAsExpired of this contract.
ExpireOnSource(l) ==
    /\ expiredLoans' = expiredLoans \cup {l}
    /\ UNCHANGED <<authorized, tokens, flowVars, logs, attested>>

\* Another contract emits an event of the same signature.
OtherLog(c, event, l, amount) ==
    /\ Len(logs) < MaxLogs
    /\ logs' = Append(logs, Log(c, event, l, amount))
    /\ UNCHANGED <<authorized, tokens, flowVars, expiredLoans, attested>>

\* Attestors attest the source chain in block order (external to src/).
AttestLog ==
    /\ attested < Len(logs)
    /\ attested' = attested + 1
    /\ UNCHANGED <<authorized, tokens, flowVars, expiredLoans, logs>>

-----------------------------------------------------------------------------

LoanLog == [contract : Others \cup {Auxiliary}, event : {"LoanFunded", "LoanRepaid"},
            loanId : LoanIds, amount : Nat]

AuxiliaryTypeOK ==
    /\ authorized \in BOOLEAN
    /\ tokens \in [Accounts -> Nat]
    /\ flows \in [LoanIds -> Flow \cup {None}]
    /\ fundLeft \in [LoanIds -> Nat]
    /\ repayLeft \in [LoanIds -> Nat]
    /\ repayable \subseteq LoanIds
    /\ expiredLoans \subseteq LoanIds
    /\ logs \in Seq(LoanLog)
    /\ attested \in 0 .. Len(logs)

=============================================================================
