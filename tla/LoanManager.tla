---------------------------- MODULE LoanManager ----------------------------
(***************************************************************************)
(* The Creditcoin half of the loan flow, ASCLoanManager with the replay    *)
(* guard of ASCBase, and the two halves together.  The owner registers     *)
(* loans both parties have signed and expires them; anybody proves logs of *)
(* the source chain, late, in any order, or never.  What the owner does on *)
(* the source chain is what loan/scripts/worker.ts does: it registers the  *)
(* funding of a loan by the terms of the LoanRegistered event, and expires *)
(* it at its deadline.                                                     *)
(***************************************************************************)
EXTENDS AuxiliaryLoan, FiniteSets, Functions

CONSTANTS
    Offers,         \* signed terms: [lender, borrower, amount, repay, deadline]
    Payments,       \* amounts that lenders and borrowers pay
    MaxBlock        \* bound: Creditcoin blocks

ASSUME ManagerAssumption ==
    /\ Offers \subseteq [lender : Accounts, borrower : Accounts, amount : Nat,
                         repay : Nat, deadline : Nat]
    /\ None \notin Offers
    /\ Payments \subseteq Nat

VARIABLES
    orders,             \* loanOrders: [terms, status, repaidAmount]
    registeredLoans,
    sourceLoanContract, \* None while it is address(0)
    processedQueries,   \* ASCBase.processedQueries: positions of logs
    ccBlock             \* block.number on Creditcoin

managerVars == <<orders, registeredLoans, sourceLoanContract, processedQueries, ccBlock>>
vars == <<auxiliaryVars, managerVars>>

\* The zero value of a LoanOrder, which has status Created and deadline 0.
NoOrder == [terms |-> None, status |-> "Created", repaidAmount |-> 0]

Deadline(l) == IF orders[l].terms = None THEN 0 ELSE orders[l].terms.deadline

Init ==
    /\ AuxiliaryInit
    /\ orders = [l \in LoanIds |-> NoOrder]
    /\ registeredLoans = {}
    /\ sourceLoanContract = None
    /\ processedQueries = {}
    /\ ccBlock = 1

-----------------------------------------------------------------------------

nextLoanId == Cardinality(registeredLoans) + 1

\* registerLoan, with signatures of these terms by both parties.
RegisterLoan(offer) ==
    /\ nextLoanId \in LoanIds
    /\ offer.amount > 0
    /\ offer.deadline > ccBlock
    /\ offer.repay >= offer.amount
    /\ orders' = [orders EXCEPT ![nextLoanId] =
                     [terms |-> offer, status |-> "Created", repaidAmount |-> 0]]
    /\ registeredLoans' = registeredLoans \cup {nextLoanId}
    /\ UNCHANGED <<sourceLoanContract, processedQueries, ccBlock>>

RegisterSourceLoanContract(c) ==
    /\ sourceLoanContract' = c
    /\ UNCHANGED <<orders, registeredLoans, processedQueries, ccBlock>>

\* Mutant: the address of the log is not looked at.
FromAnyContract(q) == sourceLoanContract # None

\* The log is of the registered contract.
FromSource(q) ==
    /\ sourceLoanContract # None
    /\ logs[q].contract = sourceLoanContract

\* ASCBase.execute, external to src/, up to _processAndEmitEvent.
Provable(q) == q \in 1 .. attested /\ q \notin processedQueries

CanMarkLoanAsFunded(q) ==
    /\ Provable(q)
    /\ logs[q].event = "LoanFunded"
    /\ FromSource(q)
    /\ orders[logs[q].loanId].status = "Created"
    /\ ccBlock <= Deadline(logs[q].loanId)

\* _markLoanAsFunded
MarkLoanAsFunded(q) ==
    /\ CanMarkLoanAsFunded(q)
    /\ orders' = [orders EXCEPT ![logs[q].loanId].status = "Funded"]
    /\ processedQueries' = processedQueries \cup {q}
    /\ UNCHANGED <<registeredLoans, sourceLoanContract, ccBlock>>

\* Mutant: the status after a repayment looks at the repayment alone.
StatusOfPayment(l, repaid) == IF repaid > 0 THEN "Repaid" ELSE "PartlyRepaid"

\* The status of loan l when `repaid` has been repaid.
StatusAfter(l, repaid) ==
    IF repaid >= orders[l].terms.repay THEN "Repaid" ELSE "PartlyRepaid"

CanNoteLoanRepayment(q) ==
    /\ Provable(q)
    /\ logs[q].event = "LoanRepaid"
    /\ FromSource(q)
    /\ orders[logs[q].loanId].status \in {"Funded", "PartlyRepaid"}
    /\ ccBlock <= Deadline(logs[q].loanId)

\* _noteLoanRepayment
NoteLoanRepayment(q) ==
    LET l == logs[q].loanId
        repaid == orders[l].repaidAmount + logs[q].amount
    IN  /\ CanNoteLoanRepayment(q)
        /\ orders' = [orders EXCEPT ![l].repaidAmount = repaid,
                                    ![l].status = StatusAfter(l, repaid)]
        /\ processedQueries' = processedQueries \cup {q}
        /\ UNCHANGED <<registeredLoans, sourceLoanContract, ccBlock>>

\* Mutant: any loan past its deadline can be expired.
PastDeadline(l) == ccBlock >= Deadline(l)

\* The loan is not finalized and its deadline has come.
Expirable(l) ==
    /\ orders[l].status \notin {"Repaid", "Expired"}
    /\ ccBlock >= Deadline(l)

\* markLoanAsExpired of this contract; the id need not be registered.
MarkLoanAsExpired(l) ==
    /\ Expirable(l)
    /\ orders' = [orders EXCEPT ![l].status = "Expired"]
    /\ UNCHANGED <<registeredLoans, sourceLoanContract, processedQueries, ccBlock>>

NextBlock ==
    /\ ccBlock < MaxBlock
    /\ ccBlock' = ccBlock + 1
    /\ UNCHANGED <<orders, registeredLoans, sourceLoanContract, processedQueries>>

-----------------------------------------------------------------------------

CanWorkerRegister(l) ==
    LET terms == orders[l].terms IN
    /\ l \in registeredLoans
    /\ CanRegisterLoanFund(l, terms.lender, terms.borrower, terms.amount)

\* The worker, as owner of the auxiliary contract.
WorkerRegisters(l) ==
    LET terms == orders[l].terms IN
    /\ CanWorkerRegister(l)
    /\ RegisterLoanFund(l, terms.lender, terms.borrower, terms.amount, terms.repay)

SourceStep ==
    \/ \E yes \in BOOLEAN : Authorize(yes)
    \/ \E l \in LoanIds : WorkerRegisters(l)
    \/ \E l \in LoanIds, amount \in Payments : FundLoan(l, amount) \/ RepayLoan(l, amount)
    \/ \E l \in registeredLoans : ccBlock >= Deadline(l) /\ ExpireOnSource(l)
    \/ \E c \in Others, l \in LoanIds :
          \/ OtherLog(c, "LoanFunded", l, 0)
          \/ \E amount \in Payments : OtherLog(c, "LoanRepaid", l, amount)
    \/ AttestLog

\* The owner registers the auxiliary contract, and no other, as the source.
ManagerStep ==
    \/ \E offer \in Offers : RegisterLoan(offer)
    \/ RegisterSourceLoanContract(Auxiliary)
    \/ \E q \in DOMAIN logs : MarkLoanAsFunded(q) \/ NoteLoanRepayment(q)
    \/ \E l \in LoanIds : MarkLoanAsExpired(l)
    \/ NextBlock

Next ==
    \/ SourceStep /\ UNCHANGED managerVars
    \/ ManagerStep /\ UNCHANGED auxiliaryVars

Spec == Init /\ [][Next]_vars

-----------------------------------------------------------------------------

Order == [terms : Offers \cup {None}, repaidAmount : Nat,
          status : {"Created", "Funded", "PartlyRepaid", "Repaid", "Expired"}]

\* The state of both contracts has its type.
TypeOK ==
    /\ AuxiliaryTypeOK
    /\ orders \in [LoanIds -> Order]
    /\ registeredLoans \subseteq LoanIds
    /\ sourceLoanContract \in {None, Auxiliary}
    /\ processedQueries \subseteq 1 .. attested
    /\ ccBlock \in Nat

\* The repayments of loan l that have been made, and those that have been proved.
Repayments(l) ==
    {q \in DOMAIN logs : /\ logs[q].contract = Auxiliary
                         /\ logs[q].event = "LoanRepaid" /\ logs[q].loanId = l}
Volume(S) == SumFunctionOnSet([q \in DOMAIN logs |-> logs[q].amount], S)

\* A loan that Creditcoin calls funded has been lent: the lender has paid the
\* whole amount, however it was split, on the terms of this order.
FundedIsLent ==
    \A l \in LoanIds :
        orders[l].status \in {"Funded", "PartlyRepaid", "Repaid"} =>
            /\ l \in repayable /\ fundLeft[l] = 0
            /\ flows[l] = [from |-> orders[l].terms.lender, to |-> orders[l].terms.borrower]

\* The amount Creditcoin says is repaid is the sum of the proved repayments,
\* each counted once, so never more than the borrower has paid; what has been
\* paid and what is left make the debt; and Repaid means paid in full.
RepaidIsPaid ==
    \A l \in registeredLoans :
        /\ orders[l].repaidAmount = Volume(Repayments(l) \cap processedQueries)
        /\ flows[l] # None =>
              Volume(Repayments(l)) + repayLeft[l] = orders[l].terms.repay
        /\ orders[l].status = "Repaid" =>
              repayLeft[l] = 0 /\ orders[l].repaidAmount = orders[l].terms.repay

\* What of loan l has been lent, and the loans by and to account a.
Lent(l) == orders[l].terms.amount - fundLeft[l]
LoansBy(a) == {l \in LoanIds : flows[l] # None /\ flows[l].from = a}
LoansTo(a) == {l \in LoanIds : flows[l] # None /\ flows[l].to = a}

\* What has been lent, and paid back, in all on some loans.
AllLent(S) == SumFunctionOnSet([l \in S |-> Lent(l)], S)
AllRepaid(S) == SumFunctionOnSet([l \in S |-> Volume(Repayments(l))], S)

\* A borrower owes before he repays: nothing has been repaid on a loan that is
\* not fully funded, and the tokens are where funding and repayments put them.
TokensFollowLoans ==
    /\ \A l \in LoanIds : Repayments(l) # {} => flows[l] # None /\ fundLeft[l] = 0
    /\ \A a \in Accounts :
          tokens[a] + AllLent(LoansBy(a)) + AllRepaid(LoansTo(a)) =
              InitialTokens + AllLent(LoansTo(a)) + AllRepaid(LoansBy(a))

Later(status) ==
    CASE status = "Created" -> {"Funded", "Expired"}
      [] status = "Funded" -> {"PartlyRepaid", "Repaid", "Expired"}
      [] status = "PartlyRepaid" -> {"Repaid", "Expired"}
      [] OTHER -> {}

\* A registered loan goes through its statuses in order and leaves neither of
\* the final two; a proof or an expiry that comes late or twice changes nothing.
StatusesMoveForward ==
    [][\A l \in registeredLoans :
          orders'[l].status # orders[l].status
              => orders'[l].status \in Later(orders[l].status)]_vars

=============================================================================
