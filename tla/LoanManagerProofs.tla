------------------------- MODULE LoanManagerProofs -------------------------
(***************************************************************************)
(* Proofs about the two contracts of the loan flow, for any accounts,      *)
(* offers, payments, other contracts and numbers of loans, logs and        *)
(* blocks.                                                                 *)
(***************************************************************************)
EXTENDS LoanManager, SumTheorems

\* Ids are given out one after the other, each to an order with signed terms.
LoansAreNumbered ==
    /\ IsFiniteSet(registeredLoans)
    /\ registeredLoans = 1 .. Cardinality(registeredLoans)
    /\ \A l \in registeredLoans : orders[l].terms \in Offers

\* What the source chain knows of a loan is what its order says.
FlowsFollowOrders ==
    \A l \in LoanIds : flows[l] # None =>
        /\ l \in registeredLoans
        /\ flows[l] = [from |-> orders[l].terms.lender, to |-> orders[l].terms.borrower]

\* Repayment is open for loans that are fully funded, and only these have logs.
RepayableIsFunded ==
    /\ \A l \in repayable : flows[l] # None /\ fundLeft[l] = 0
    /\ \A q \in DOMAIN logs : logs[q].contract = Auxiliary => logs[q].loanId \in repayable

\* Creditcoin calls a loan funded only if it is.
FundedIsRepayable ==
    \A l \in LoanIds :
        orders[l].status \in {"Funded", "PartlyRepaid", "Repaid"} => l \in repayable

\* The inductive invariant.
IInv == TypeOK /\ LoansAreNumbered /\ FlowsFollowOrders /\ RepayableIsFunded /\ FundedIsRepayable

\* The invariant contains the property.
LEMMA IInvLent == IInv => FundedIsLent
  BY DEF IInv, FundedIsLent, FlowsFollowOrders, RepayableIsFunded, FundedIsRepayable, TypeOK,
         AuxiliaryTypeOK

\* It holds when the contracts are deployed.
LEMMA ManagerInit == Init => IInv
<1> SUFFICES ASSUME Init
             PROVE  IInv
  OBVIOUS
<1> USE AuxiliaryAssumption DEF Init, AuxiliaryInit
<1>1. TypeOK
  <2>1. authorized \in BOOLEAN
    BY Zenon
  <2>2. AuxiliaryTypeOK
    BY <2>1 DEF AuxiliaryTypeOK
  <2>3. NoOrder \in Order
    BY DEF NoOrder, Order
  <2>4. QED
    BY <2>2, <2>3 DEF TypeOK
<1>2. LoansAreNumbered
  BY FS_EmptySet DEF LoansAreNumbered
<1>3. FlowsFollowOrders /\ RepayableIsFunded /\ FundedIsRepayable
  BY DEF FlowsFollowOrders, RepayableIsFunded, FundedIsRepayable, NoOrder
<1>4. QED
  BY <1>1, <1>2, <1>3 DEF IInv

-----------------------------------------------------------------------------
(* The source chain                                                        *)

\* A payment never moves more than is left, nor more than the payer has.
LEMMA PaidType ==
    ASSUME TypeOK, NEW l \in LoanIds, NEW amount \in Payments
    PROVE  /\ FundPaid(l, amount) \in 0 .. fundLeft[l]
           /\ RepayPaid(l, amount) \in 0 .. repayLeft[l]
  BY ManagerAssumption DEF TypeOK, AuxiliaryTypeOK, FundPaid, RepayPaid, Capped, Min2

\* A log is added at the end.
LEMMA LogAppended ==
    ASSUME TypeOK, NEW log \in LoanLog, logs' = Append(logs, log), UNCHANGED attested
    PROVE  /\ logs' \in Seq(LoanLog) /\ attested' \in 0 .. Len(logs')
           /\ DOMAIN logs' = DOMAIN logs \cup {Len(logs) + 1}
           /\ \A q \in DOMAIN logs : logs'[q] = logs[q]
           /\ logs'[Len(logs) + 1] = log
  BY DEF TypeOK, AuxiliaryTypeOK

\* A step of the source chain keeps the orders, so what depends on them alone.
LEMMA SourceKeepsOrders ==
    ASSUME IInv, UNCHANGED managerVars, AuxiliaryTypeOK', attested <= attested',
           FlowsFollowOrders', RepayableIsFunded', repayable \subseteq repayable'
    PROVE  IInv'
<1>1. TypeOK'
  BY DEF IInv, TypeOK, managerVars, AuxiliaryTypeOK
<1>2. LoansAreNumbered' /\ FundedIsRepayable'
  BY DEF IInv, LoansAreNumbered, FundedIsRepayable, managerVars
<1>3. QED
  BY <1>1, <1>2 DEF IInv

\* The worker registers the funding of a loan.
LEMMA RegisterStep ==
    ASSUME IInv, NEW l \in LoanIds, WorkerRegisters(l), UNCHANGED managerVars
    PROVE  IInv'
<1> DEFINE terms == orders[l].terms
           flow == [from |-> terms.lender, to |-> terms.borrower]
<1>1. l \in registeredLoans /\ flows[l] = None /\ terms \in Offers
  BY DEF WorkerRegisters, CanWorkerRegister, CanRegisterLoanFund, IInv, LoansAreNumbered
<1>2. /\ terms.lender \in Accounts /\ terms.borrower \in Accounts
      /\ terms.amount \in Nat /\ terms.repay \in Nat
  BY <1>1, ManagerAssumption
<1>3. /\ flows' = [flows EXCEPT ![l] = flow]
      /\ fundLeft' = [fundLeft EXCEPT ![l] = terms.amount]
      /\ repayLeft' = [repayLeft EXCEPT ![l] = terms.repay]
      /\ UNCHANGED <<authorized, tokens, repayable, expiredLoans, logs, attested, orders,
                     registeredLoans>>
  BY DEF WorkerRegisters, RegisterLoanFund, managerVars
<1>4. flow \in Flow
  BY <1>2 DEF Flow
<1> HIDE DEF terms
<1>5. AuxiliaryTypeOK'
  BY <1>2, <1>3, <1>4 DEF IInv, TypeOK, AuxiliaryTypeOK
<1>6. FlowsFollowOrders'
  BY <1>1, <1>3 DEF FlowsFollowOrders, IInv, TypeOK, AuxiliaryTypeOK, terms
<1>7. RepayableIsFunded'
  <2>1. l \notin repayable
    BY <1>1 DEF IInv, RepayableIsFunded
  <2>2. QED
    BY <1>3, <2>1 DEF RepayableIsFunded, IInv, TypeOK, AuxiliaryTypeOK
<1>8. QED
  BY <1>3, <1>5, <1>6, <1>7, SourceKeepsOrders DEF IInv, TypeOK, AuxiliaryTypeOK

\* A lender pays.
LEMMA FundStep ==
    ASSUME IInv, NEW l \in LoanIds, NEW amount \in Payments, FundLoan(l, amount),
           UNCHANGED managerVars
    PROVE  IInv'
<1> DEFINE paid == FundPaid(l, amount)
           left == fundLeft[l] - paid
           log == Log(Auxiliary, "LoanFunded", l, 0)
<1>1. paid \in 0 .. fundLeft[l] /\ left \in Nat /\ flows[l] \in Flow
  BY PaidType DEF IInv, TypeOK, AuxiliaryTypeOK, FundLoan, CanFundLoan
<1>2. flows[l].from \in Accounts /\ flows[l].to \in Accounts
      /\ tokens[flows[l].from] >= paid
  BY <1>1 DEF Flow, FundLoan, CanFundLoan
<1>3. tokens' \in [Accounts -> Nat]
  BY <1>1, <1>2 DEF FundLoan, Transfer, IInv, TypeOK, AuxiliaryTypeOK
<1>4. /\ fundLeft' = [fundLeft EXCEPT ![l] = left]
      /\ UNCHANGED <<authorized, flows, repayLeft, expiredLoans, attested, orders,
                     registeredLoans>>
      /\ fundLeft[l] > 0 /\ flows[l] # None
  BY DEF FundLoan, CanFundLoan, managerVars
<1>5. l \notin repayable
  BY <1>4 DEF IInv, RepayableIsFunded
<1>6. log \in LoanLog /\ log.contract = Auxiliary /\ log.loanId = l
  BY DEF Log, LoanLog
<1>7. FlowsFollowOrders'
  BY <1>4 DEF FlowsFollowOrders, IInv
<1>8. CASE left = 0
  <2>1. repayable' = repayable \cup {l} /\ logs' = Append(logs, log)
    BY <1>8 DEF FundLoan, FullyFunded
  <2>2. /\ logs' \in Seq(LoanLog) /\ attested' \in 0 .. Len(logs')
        /\ DOMAIN logs' = DOMAIN logs \cup {Len(logs) + 1}
        /\ \A q \in DOMAIN logs : logs'[q] = logs[q]
        /\ logs'[Len(logs) + 1] = log
    BY <1>4, <1>6, <2>1, LogAppended DEF IInv
  <2>3. AuxiliaryTypeOK'
    BY <1>1, <1>3, <1>4, <2>1, <2>2 DEF IInv, TypeOK, AuxiliaryTypeOK
  <2>4. RepayableIsFunded'
    BY <1>4, <1>5, <1>6, <1>8, <2>1, <2>2 DEF RepayableIsFunded, IInv, TypeOK, AuxiliaryTypeOK
  <2>5. QED
    BY <1>4, <1>7, <2>1, <2>3, <2>4, SourceKeepsOrders DEF IInv, TypeOK, AuxiliaryTypeOK
<1>9. CASE left # 0
  <2>1. UNCHANGED <<repayable, logs>>
    BY <1>9 DEF FundLoan, FullyFunded
  <2>2. AuxiliaryTypeOK'
    BY <1>1, <1>3, <1>4, <2>1 DEF IInv, TypeOK, AuxiliaryTypeOK
  <2>3. RepayableIsFunded'
    BY <1>4, <1>5, <2>1 DEF RepayableIsFunded, IInv, TypeOK, AuxiliaryTypeOK
  <2>4. QED
    BY <1>4, <1>7, <2>1, <2>2, <2>3, SourceKeepsOrders DEF IInv, TypeOK, AuxiliaryTypeOK
<1>10. QED
  BY <1>8, <1>9

\* A borrower pays.
LEMMA RepayStep ==
    ASSUME IInv, NEW l \in LoanIds, NEW amount \in Payments, RepayLoan(l, amount),
           UNCHANGED managerVars
    PROVE  IInv'
<1> DEFINE paid == RepayPaid(l, amount)
           log == Log(Auxiliary, "LoanRepaid", l, paid)
<1>1. /\ paid \in 0 .. repayLeft[l] /\ repayLeft[l] - paid \in Nat
      /\ l \in repayable /\ flows[l] \in Flow
  BY PaidType DEF IInv, TypeOK, AuxiliaryTypeOK, RepayLoan, CanRepayLoan, RepayableIsFunded
<1>2. flows[l].from \in Accounts /\ flows[l].to \in Accounts /\ tokens[flows[l].to] >= paid
  BY <1>1 DEF Flow, RepayLoan, CanRepayLoan
<1>3. tokens' \in [Accounts -> Nat]
  BY <1>1, <1>2 DEF RepayLoan, Transfer, IInv, TypeOK, AuxiliaryTypeOK
<1>4. /\ repayLeft' = [repayLeft EXCEPT ![l] = @ - paid]
      /\ logs' = Append(logs, log)
      /\ UNCHANGED <<authorized, flows, fundLeft, repayable, expiredLoans, attested, orders,
                     registeredLoans>>
  BY DEF RepayLoan, managerVars
<1>5. log \in LoanLog /\ log.loanId = l
  BY <1>1 DEF Log, LoanLog, IInv, TypeOK, AuxiliaryTypeOK
<1>6. /\ logs' \in Seq(LoanLog) /\ attested' \in 0 .. Len(logs')
      /\ DOMAIN logs' = DOMAIN logs \cup {Len(logs) + 1}
      /\ \A q \in DOMAIN logs : logs'[q] = logs[q]
      /\ logs'[Len(logs) + 1] = log
  BY <1>4, <1>5, LogAppended DEF IInv
<1> HIDE DEF log
<1>7. AuxiliaryTypeOK'
  BY <1>1, <1>3, <1>4, <1>6 DEF IInv, TypeOK, AuxiliaryTypeOK
<1>8. FlowsFollowOrders' /\ RepayableIsFunded'
  BY <1>1, <1>4, <1>5, <1>6 DEF FlowsFollowOrders, RepayableIsFunded, IInv
<1>9. QED
  BY <1>4, <1>7, <1>8, SourceKeepsOrders DEF IInv, TypeOK, AuxiliaryTypeOK

\* Another contract leaves a log.
LEMMA OtherLogStep ==
    ASSUME IInv, NEW c \in Others, NEW event \in {"LoanFunded", "LoanRepaid"},
           NEW l \in LoanIds, NEW amount \in Nat, OtherLog(c, event, l, amount),
           UNCHANGED managerVars
    PROVE  IInv'
<1> DEFINE log == Log(c, event, l, amount)
<1>1. log \in LoanLog /\ log.contract # Auxiliary
  BY AuxiliaryAssumption DEF Log, LoanLog
<1>2. logs' = Append(logs, log) /\ UNCHANGED <<authorized, tokens, flows, fundLeft, repayLeft,
                                    repayable, expiredLoans, attested, orders, registeredLoans>>
  BY DEF OtherLog, flowVars, managerVars
<1>3. /\ logs' \in Seq(LoanLog) /\ attested' \in 0 .. Len(logs')
      /\ DOMAIN logs' = DOMAIN logs \cup {Len(logs) + 1}
      /\ \A q \in DOMAIN logs : logs'[q] = logs[q]
      /\ logs'[Len(logs) + 1] = log
  BY <1>1, <1>2, LogAppended DEF IInv
<1> HIDE DEF log
<1>4. AuxiliaryTypeOK'
  BY <1>2, <1>3 DEF IInv, TypeOK, AuxiliaryTypeOK
<1>5. FlowsFollowOrders' /\ RepayableIsFunded'
  BY <1>1, <1>2, <1>3 DEF FlowsFollowOrders, RepayableIsFunded, IInv
<1>6. QED
  BY <1>2, <1>4, <1>5, SourceKeepsOrders DEF IInv, TypeOK, AuxiliaryTypeOK

\* Every step of the source chain keeps the invariant.
LEMMA SourceStepKeeps ==
    ASSUME IInv, SourceStep, UNCHANGED managerVars
    PROVE  IInv'
<1>1. ASSUME NEW yes \in BOOLEAN, Authorize(yes)
      PROVE  IInv'
  <2>1. authorized' \in BOOLEAN
    BY <1>1, Zenon DEF Authorize
  <2>2. UNCHANGED <<tokens, flows, fundLeft, repayLeft, repayable, expiredLoans, logs, attested,
                    orders, registeredLoans>>
    BY <1>1 DEF Authorize, flowVars, managerVars
  <2>3. AuxiliaryTypeOK'
    BY <2>1, <2>2 DEF IInv, TypeOK, AuxiliaryTypeOK
  <2>4. FlowsFollowOrders' /\ RepayableIsFunded'
    BY <2>2 DEF IInv, FlowsFollowOrders, RepayableIsFunded
  <2>5. QED
    BY <2>2, <2>3, <2>4, SourceKeepsOrders DEF IInv, TypeOK, AuxiliaryTypeOK
<1>2. ASSUME NEW l \in LoanIds, ExpireOnSource(l)
      PROVE  IInv'
  <2>1. /\ expiredLoans' = expiredLoans \cup {l}
        /\ UNCHANGED <<authorized, tokens, flows, fundLeft, repayLeft, repayable, logs, attested,
                       orders, registeredLoans>>
    BY <1>2 DEF ExpireOnSource, flowVars, managerVars
  <2>2. AuxiliaryTypeOK'
    BY <2>1 DEF IInv, TypeOK, AuxiliaryTypeOK
  <2>3. FlowsFollowOrders' /\ RepayableIsFunded'
    BY <2>1 DEF IInv, FlowsFollowOrders, RepayableIsFunded
  <2>4. QED
    BY <2>1, <2>2, <2>3, SourceKeepsOrders DEF IInv, TypeOK, AuxiliaryTypeOK
<1>3. ASSUME AttestLog
      PROVE  IInv'
  <2>1. /\ attested' = attested + 1 /\ attested < Len(logs)
        /\ UNCHANGED <<authorized, tokens, flows, fundLeft, repayLeft, repayable, expiredLoans,
                       logs, orders, registeredLoans>>
    BY <1>3 DEF AttestLog, flowVars, managerVars
  <2>2. AuxiliaryTypeOK' /\ attested <= attested'
    BY <2>1 DEF IInv, TypeOK, AuxiliaryTypeOK
  <2>3. FlowsFollowOrders' /\ RepayableIsFunded'
    BY <2>1 DEF IInv, FlowsFollowOrders, RepayableIsFunded
  <2>4. QED
    BY <2>1, <2>2, <2>3, SourceKeepsOrders
<1>4. registeredLoans \subseteq LoanIds
  BY DEF IInv, TypeOK
<1>5. ASSUME NEW c \in Others, NEW l \in LoanIds,
             \/ OtherLog(c, "LoanFunded", l, 0)
             \/ \E amount \in Payments : OtherLog(c, "LoanRepaid", l, amount)
      PROVE  IInv'
  BY <1>5, ManagerAssumption, OtherLogStep
<1>6. QED
  BY <1>1, <1>2, <1>3, <1>4, <1>5, RegisterStep, FundStep, RepayStep DEF SourceStep

-----------------------------------------------------------------------------
(* Creditcoin                                                              *)

\* A log that Creditcoin accepts is of the auxiliary contract.
LEMMA FromAuxiliary ==
    ASSUME IInv, NEW q \in DOMAIN logs, FromSource(q)
    PROVE  logs[q].contract = Auxiliary /\ logs[q].loanId \in repayable
                                        /\ logs[q].loanId \in LoanIds /\ logs[q].amount \in Nat
<1>1. logs[q].contract = Auxiliary
  BY DEF FromSource, IInv, TypeOK
<1>2. logs[q] \in LoanLog
  BY DEF IInv, TypeOK, AuxiliaryTypeOK
<1>3. QED
  BY <1>1, <1>2 DEF IInv, RepayableIsFunded, LoanLog

\* A new status, or a repayment, leaves an order with its terms.
LEMMA OrderType ==
    ASSUME NEW order \in Order, NEW repaid \in Nat,
           NEW status \in {"Created", "Funded", "PartlyRepaid", "Repaid", "Expired"}
    PROVE  /\ [order EXCEPT !.status = status] \in Order
           /\ [order EXCEPT !.status = status].status = status
           /\ [order EXCEPT !.status = status].terms = order.terms
           /\ [order EXCEPT !.repaidAmount = repaid, !.status = status] \in Order
           /\ [order EXCEPT !.repaidAmount = repaid, !.status = status].status = status
           /\ [order EXCEPT !.repaidAmount = repaid, !.status = status].terms = order.terms
  BY DEF Order

\* A step that gives one order another status keeps the invariant, if the loan is
\* repayable or the status does not need it.
LEMMA StatusStep ==
    ASSUME IInv, NEW l \in LoanIds, NEW order \in Order,
           orders' = [orders EXCEPT ![l] = order], order.terms = orders[l].terms,
           l \in repayable \/ order.status \in {"Created", "Expired"},
           processedQueries' \subseteq 1 .. attested,
           UNCHANGED <<auxiliaryVars, registeredLoans, sourceLoanContract, ccBlock>>
    PROVE  IInv'
<1>1. /\ orders' \in [LoanIds -> Order]
      /\ \A m \in LoanIds : orders'[m].terms = orders[m].terms
      /\ \A m \in LoanIds : m # l => orders'[m] = orders[m]
      /\ orders'[l] = order
  BY DEF IInv, TypeOK
<1>2. TypeOK'
  BY <1>1 DEF IInv, TypeOK, auxiliaryVars, flowVars, AuxiliaryTypeOK
<1>3. LoansAreNumbered'
  BY <1>1 DEF IInv, LoansAreNumbered, TypeOK
<1>4. FlowsFollowOrders' /\ RepayableIsFunded'
  BY <1>1 DEF IInv, FlowsFollowOrders, RepayableIsFunded, auxiliaryVars, flowVars
<1>5. FundedIsRepayable'
  BY <1>1 DEF IInv, FundedIsRepayable, auxiliaryVars, flowVars
<1>6. QED
  BY <1>2, <1>3, <1>4, <1>5 DEF IInv

\* Every step of Creditcoin keeps the invariant.
LEMMA ManagerStepKeeps ==
    ASSUME IInv, ManagerStep, UNCHANGED auxiliaryVars
    PROVE  IInv'
<1> USE DEF Order
<1>1. ASSUME NEW offer \in Offers, RegisterLoan(offer)
      PROVE  IInv'
  <2> DEFINE new == [terms |-> offer, status |-> "Created", repaidAmount |-> 0]
  <2>1. /\ orders' = [orders EXCEPT ![nextLoanId] = new]
        /\ registeredLoans' = registeredLoans \cup {nextLoanId}
        /\ nextLoanId \in LoanIds
        /\ UNCHANGED <<auxiliaryVars, sourceLoanContract, processedQueries, ccBlock>>
    BY <1>1 DEF RegisterLoan
  <2>2. /\ nextLoanId = Cardinality(registeredLoans) + 1 /\ Cardinality(registeredLoans) \in Nat
        /\ nextLoanId \notin registeredLoans
    BY FS_CardinalityType DEF nextLoanId, IInv, LoansAreNumbered
  <2>3. /\ IsFiniteSet(registeredLoans')
        /\ Cardinality(registeredLoans') = nextLoanId
    BY <2>1, <2>2, FS_AddElement DEF IInv, LoansAreNumbered
  <2> HIDE DEF nextLoanId
  <2>4. /\ new \in Order /\ new.terms = offer /\ new.status = "Created"
        /\ orders' \in [LoanIds -> Order]
        /\ \A m \in LoanIds : m # nextLoanId => orders'[m] = orders[m]
        /\ orders'[nextLoanId] = new
    BY <2>1 DEF IInv, TypeOK
  <2> HIDE DEF new
  <2>5. TypeOK'
    BY <2>1, <2>4 DEF IInv, TypeOK, auxiliaryVars, flowVars, AuxiliaryTypeOK
  <2>6. LoansAreNumbered'
    <3>1. registeredLoans' = 1 .. Cardinality(registeredLoans')
      BY <2>1, <2>2, <2>3 DEF IInv, LoansAreNumbered
    <3>2. \A l \in registeredLoans' : orders'[l].terms \in Offers
      BY <2>1, <2>4 DEF IInv, LoansAreNumbered, TypeOK
    <3>3. QED
      BY <2>3, <3>1, <3>2 DEF LoansAreNumbered
  <2>7. flows[nextLoanId] = None
    BY <2>1, <2>2 DEF IInv, FlowsFollowOrders
  <2>8. FlowsFollowOrders' /\ RepayableIsFunded'
    BY <2>1, <2>4, <2>7 DEF IInv, FlowsFollowOrders, RepayableIsFunded, auxiliaryVars, flowVars
  <2>9. FundedIsRepayable'
    BY <2>1, <2>4 DEF IInv, FundedIsRepayable, auxiliaryVars, flowVars
  <2>10. QED
    BY <2>5, <2>6, <2>8, <2>9 DEF IInv
<1>2. ASSUME NEW q \in DOMAIN logs, MarkLoanAsFunded(q)
      PROVE  IInv'
  <2> DEFINE l == logs[q].loanId
             order == [orders[l] EXCEPT !.status = "Funded"]
  <2>1. FromSource(q) /\ q <= attested
    BY <1>2 DEF MarkLoanAsFunded, CanMarkLoanAsFunded, Provable
  <2>2. l \in repayable /\ l \in LoanIds /\ orders[l] \in Order
    BY <2>1, FromAuxiliary DEF IInv, TypeOK
  <2>3. /\ orders' = [orders EXCEPT ![l] = order]
        /\ processedQueries' = processedQueries \cup {q}
        /\ UNCHANGED <<auxiliaryVars, registeredLoans, sourceLoanContract, ccBlock>>
    BY <1>2 DEF MarkLoanAsFunded
  <2>4. processedQueries' \subseteq 1 .. attested
    BY <2>1, <2>3 DEF IInv, TypeOK, AuxiliaryTypeOK
  <2>5. order \in Order /\ order.terms = orders[l].terms
    BY <2>2, OrderType
  <2>6. QED
    BY <2>2, <2>3, <2>4, <2>5, StatusStep
<1>3. ASSUME NEW q \in DOMAIN logs, NoteLoanRepayment(q)
      PROVE  IInv'
  <2> DEFINE l == logs[q].loanId
             repaid == orders[l].repaidAmount + logs[q].amount
             order == [orders[l] EXCEPT !.repaidAmount = repaid, !.status = StatusAfter(l, repaid)]
  <2>1. FromSource(q) /\ q <= attested
    BY <1>3 DEF NoteLoanRepayment, CanNoteLoanRepayment, Provable
  <2>2. l \in repayable /\ l \in LoanIds /\ orders[l] \in Order /\ repaid \in Nat
    BY <2>1, FromAuxiliary DEF IInv, TypeOK
  <2>3. /\ orders' = [orders EXCEPT ![l] = order]
        /\ processedQueries' = processedQueries \cup {q}
        /\ UNCHANGED <<auxiliaryVars, registeredLoans, sourceLoanContract, ccBlock>>
    BY <1>3 DEF NoteLoanRepayment
  <2>4. processedQueries' \subseteq 1 .. attested
    BY <2>1, <2>3 DEF IInv, TypeOK, AuxiliaryTypeOK
  <2>5. StatusAfter(l, repaid) \in {"Repaid", "PartlyRepaid"}
    BY DEF StatusAfter
  <2>6. order \in Order /\ order.terms = orders[l].terms
    BY <2>2, <2>5, OrderType
  <2>7. QED
    BY <2>2, <2>3, <2>4, <2>6, StatusStep
<1>4. ASSUME NEW l \in LoanIds, MarkLoanAsExpired(l)
      PROVE  IInv'
  <2> DEFINE order == [orders[l] EXCEPT !.status = "Expired"]
  <2>1. /\ orders' = [orders EXCEPT ![l] = order]
        /\ UNCHANGED <<auxiliaryVars, registeredLoans, sourceLoanContract, processedQueries, ccBlock>>
    BY <1>4 DEF MarkLoanAsExpired
  <2>2. order \in Order /\ order.terms = orders[l].terms /\ order.status = "Expired"
    BY OrderType DEF IInv, TypeOK
  <2>3. processedQueries' \subseteq 1 .. attested
    BY <2>1 DEF IInv, TypeOK
  <2>4. QED
    BY <2>1, <2>2, <2>3, StatusStep
<1>5. ASSUME RegisterSourceLoanContract(Auxiliary) \/ NextBlock
      PROVE  IInv'
  <2>1. /\ UNCHANGED <<auxiliaryVars, orders, registeredLoans, processedQueries>>
        /\ sourceLoanContract' \in {None, Auxiliary} /\ ccBlock' \in Nat
    BY <1>5 DEF RegisterSourceLoanContract, NextBlock, IInv, TypeOK
  <2>2. TypeOK'
    BY <2>1 DEF IInv, TypeOK, auxiliaryVars, flowVars, AuxiliaryTypeOK
  <2>3. LoansAreNumbered' /\ FlowsFollowOrders' /\ RepayableIsFunded' /\ FundedIsRepayable'
    BY <2>1 DEF IInv, LoansAreNumbered, FlowsFollowOrders, RepayableIsFunded, FundedIsRepayable,
                auxiliaryVars, flowVars
  <2>4. QED
    BY <2>2, <2>3 DEF IInv
<1>6. QED
  BY <1>1, <1>2, <1>3, <1>4, <1>5 DEF ManagerStep

\* Every step keeps the invariant.
LEMMA ManagerInvariantStep == IInv /\ [Next]_vars => IInv'
<1> SUFFICES ASSUME IInv, [Next]_vars
             PROVE  IInv'
  OBVIOUS
<1>1. CASE UNCHANGED vars
  BY <1>1 DEF IInv, TypeOK, AuxiliaryTypeOK, LoansAreNumbered, FlowsFollowOrders,
              RepayableIsFunded, FundedIsRepayable, vars, auxiliaryVars, flowVars, managerVars
<1>2. QED
  BY <1>1, SourceStepKeeps, ManagerStepKeeps DEF Next

\* A status that changes goes on to a later one.
LEMMA StatusesStep ==
    ASSUME IInv, [Next]_vars, NEW l \in registeredLoans,
           orders'[l].status # orders[l].status
    PROVE  orders'[l].status \in Later(orders[l].status)
<1>1. l \in LoanIds /\ orders \in [LoanIds -> Order] /\ orders[l] \in Order
  BY DEF IInv, TypeOK
<1>2. ManagerStep
  BY DEF Next, vars, managerVars
<1>3. ASSUME NEW offer \in Offers, RegisterLoan(offer)
      PROVE  FALSE
  <2>1. nextLoanId \notin registeredLoans
    BY FS_CardinalityType DEF nextLoanId, IInv, LoansAreNumbered
  <2>2. orders'[l] = orders[l]
    BY <1>1, <1>3, <2>1 DEF RegisterLoan
  <2>3. QED
    BY <2>2
<1>4. ASSUME NEW q \in DOMAIN logs, MarkLoanAsFunded(q)
      PROVE  orders'[l].status \in Later(orders[l].status)
  <2>1. /\ orders[logs[q].loanId].status = "Created"
        /\ orders' = [orders EXCEPT ![logs[q].loanId] =
                         [orders[logs[q].loanId] EXCEPT !.status = "Funded"]]
    BY <1>4 DEF MarkLoanAsFunded, CanMarkLoanAsFunded
  <2>2. l = logs[q].loanId
    BY <1>1, <2>1
  <2>3. orders'[l].status = "Funded"
    BY <1>1, <2>1, <2>2, OrderType
  <2>4. QED
    BY <2>1, <2>2, <2>3 DEF Later
<1>5. ASSUME NEW q \in DOMAIN logs, NoteLoanRepayment(q)
      PROVE  orders'[l].status \in Later(orders[l].status)
  <2> DEFINE m == logs[q].loanId
             repaid == orders[m].repaidAmount + logs[q].amount
  <2>1. /\ orders[m].status \in {"Funded", "PartlyRepaid"} /\ FromSource(q)
        /\ orders' = [orders EXCEPT ![m] = [orders[m] EXCEPT !.repaidAmount = repaid,
                                               !.status = StatusAfter(m, repaid)]]
    BY <1>5 DEF NoteLoanRepayment, CanNoteLoanRepayment
  <2>2. l = m
    BY <1>1, <2>1
  <2>3. repaid \in Nat /\ StatusAfter(m, repaid) \in {"Repaid", "PartlyRepaid"}
    BY <1>1, <2>1, <2>2, FromAuxiliary DEF Order, StatusAfter
  <2> DEFINE status == StatusAfter(m, repaid)
             order == [orders[m] EXCEPT !.repaidAmount = repaid, !.status = status]
  <2>4. orders'[l] = order
    BY <1>1, <2>1, <2>2
  <2>5. orders[m] \in Order
    BY <1>1, <2>2
  <2> HIDE DEF m, repaid, status
  <2>6. order.status = status
    BY <2>5 DEF Order
  <2>7. orders'[l].status \in {"Repaid", "PartlyRepaid"}
    BY <2>3, <2>4, <2>6 DEF status
  <2>8. QED
    BY <2>1, <2>2, <2>7 DEF Later
<1>6. ASSUME NEW m \in LoanIds, MarkLoanAsExpired(m)
      PROVE  orders'[l].status \in Later(orders[l].status)
  <2>1. /\ orders[m].status \notin {"Repaid", "Expired"}
        /\ orders' = [orders EXCEPT ![m] = [orders[m] EXCEPT !.status = "Expired"]]
    BY <1>6 DEF MarkLoanAsExpired, Expirable
  <2>2. l = m
    BY <1>1, <2>1
  <2>3. orders'[l].status = "Expired"
    BY <1>1, <2>1, <2>2, OrderType
  <2>4. QED
    BY <1>1, <2>1, <2>2, <2>3 DEF Later, Order
<1>7. CASE RegisterSourceLoanContract(Auxiliary) \/ NextBlock
  BY <1>7 DEF RegisterSourceLoanContract, NextBlock
<1>8. QED
  BY <1>2, <1>3, <1>4, <1>5, <1>6, <1>7 DEF ManagerStep

-----------------------------------------------------------------------------
(* What has been repaid                                                    *)

\* The amounts of the logs, which only grow in number.
Amounts == [q \in DOMAIN logs |-> logs[q].amount]
LogsExtend == DOMAIN logs \subseteq DOMAIN logs' /\ \A q \in DOMAIN logs : logs'[q] = logs[q]

\* What RepaidIsPaid says of one loan.
PaidOn(l) ==
    /\ orders[l].repaidAmount = Volume(Repayments(l) \cap processedQueries)
    /\ flows[l] # None => Volume(Repayments(l)) + repayLeft[l] = orders[l].terms.repay
    /\ orders[l].status = "Repaid" =>
          repayLeft[l] = 0 /\ orders[l].repaidAmount = orders[l].terms.repay

\* The amounts of logs that are there do not change.
LEMMA VolumeKept ==
    ASSUME TypeOK, LogsExtend, NEW S \in SUBSET DOMAIN logs
    PROVE  /\ IsFiniteSet(S)
           /\ \A q \in S : Amounts[q] \in Nat /\ Amounts'[q] = Amounts[q]
           /\ SumFunctionOnSet(Amounts', S) = SumFunctionOnSet(Amounts, S)
           /\ SumFunctionOnSet(Amounts, S) \in Nat
<1>0. logs \in Seq(LoanLog)
  BY DEF TypeOK, AuxiliaryTypeOK
<1>1. DOMAIN logs = 1 .. Len(logs) /\ Len(logs) \in Nat
  BY <1>0
<1>2. IsFiniteSet(S)
  <2>1. IsFiniteSet(1 .. Len(logs))
    BY <1>1, FS_Interval
  <2>2. QED
    BY <1>1, <2>1, FS_Subset
<1>3. \A q \in DOMAIN logs : logs[q].amount \in Nat
  <2>1. \A q \in DOMAIN logs : logs[q] \in LoanLog
    BY <1>0
  <2>2. QED
    BY <2>1 DEF LoanLog
<1>4. \A q \in S : Amounts[q] \in Nat /\ Amounts'[q] = Amounts[q]
  BY <1>3 DEF Amounts, LogsExtend
<1> HIDE DEF LogsExtend
<1>5. QED
  BY <1>2, <1>4, SumSame, SumType

\* A step that adds no repayment of a loan leaves what has been repaid on it.
LEMMA PaidKept ==
    ASSUME TypeOK, LogsExtend, NEW l, PaidOn(l), Repayments(l)' = Repayments(l),
           (Repayments(l) \cap processedQueries)' = Repayments(l) \cap processedQueries,
           orders'[l].repaidAmount = orders[l].repaidAmount,
           orders'[l].terms = orders[l].terms,
           orders'[l].status = "Repaid" => orders[l].status = "Repaid",
           flows'[l] = flows[l], repayLeft'[l] = repayLeft[l]
    PROVE  PaidOn(l)'
<1> DEFINE all == Repayments(l)
           proved == Repayments(l) \cap processedQueries
<1>1. all \subseteq DOMAIN logs /\ proved \subseteq DOMAIN logs
  BY DEF Repayments
<1>2. all' = all /\ proved' = proved
  OBVIOUS
<1>3. \A S : Volume(S) = SumFunctionOnSet(Amounts, S)
  BY DEF Volume, Amounts
<1>4. /\ Volume(all)' = SumFunctionOnSet(Amounts', all')
      /\ Volume(proved)' = SumFunctionOnSet(Amounts', proved')
  BY DEF Volume, Amounts
<1> HIDE DEF all, proved
<1>5. /\ SumFunctionOnSet(Amounts', all) = SumFunctionOnSet(Amounts, all)
      /\ SumFunctionOnSet(Amounts', proved) = SumFunctionOnSet(Amounts, proved)
  BY <1>1, VolumeKept
<1>6. Volume(all)' = Volume(all) /\ Volume(proved)' = Volume(proved)
  BY <1>2, <1>3, <1>4, <1>5
<1>7. QED
  BY <1>6 DEF PaidOn, all, proved

\* A loan on which nothing has been repaid, and whose debt is what its terms say.
LEMMA PaidNothing ==
    ASSUME NEW l, Repayments(l)' = {}, orders'[l].repaidAmount = 0,
           orders'[l].status # "Repaid", repayLeft'[l] \in Nat,
           flows'[l] # None => repayLeft'[l] = orders'[l].terms.repay
    PROVE  PaidOn(l)'
<1>1. (Repayments(l) \cap processedQueries)' = {}
  OBVIOUS
<1>2. \A S : S = {} => SumFunctionOnSet([q \in DOMAIN logs' |-> logs'[q].amount], S) = 0
  BY SumOfNone
<1>3. Volume(Repayments(l))' = 0 /\ Volume(Repayments(l) \cap processedQueries)' = 0
  BY <1>1, <1>2 DEF Volume
<1>4. QED
  BY <1>3 DEF PaidOn

\* A log that the auxiliary contract adds is a repayment of its loan or of none.
LEMMA RepaymentsOfLogs ==
    ASSUME IInv, NEW log \in LoanLog, logs' = Append(logs, log), UNCHANGED attested
    PROVE  /\ LogsExtend
           /\ \A l \in LoanIds : Repayments(l)' = Repayments(l) \cup
                 (IF log.contract = Auxiliary /\ log.event = "LoanRepaid" /\ log.loanId = l
                  THEN {Len(logs) + 1} ELSE {})
           /\ Len(logs) + 1 \notin DOMAIN logs /\ Len(logs) + 1 \notin processedQueries
           /\ Len(logs) + 1 \in DOMAIN logs' /\ logs'[Len(logs) + 1] = log
<1>1. /\ DOMAIN logs' = DOMAIN logs \cup {Len(logs) + 1}
      /\ \A q \in DOMAIN logs : logs'[q] = logs[q]
      /\ logs'[Len(logs) + 1] = log
  BY LogAppended DEF IInv
<1>2. logs \in Seq(LoanLog) /\ attested \in 0 .. Len(logs) /\ processedQueries \subseteq 1 .. attested
  BY DEF IInv, TypeOK, AuxiliaryTypeOK
<1>3. Len(logs) + 1 \notin DOMAIN logs /\ Len(logs) + 1 \notin processedQueries
  BY <1>2
<1> DEFINE n == Len(logs) + 1
<1> HIDE DEF n
<1>4. DOMAIN logs' = DOMAIN logs \cup {n} /\ logs'[n] = log /\ n \notin DOMAIN logs
  BY <1>1, <1>3 DEF n
<1>5. \A l \in LoanIds : Repayments(l)' = Repayments(l) \cup
         (IF log.contract = Auxiliary /\ log.event = "LoanRepaid" /\ log.loanId = l
          THEN {n} ELSE {})
  BY <1>1, <1>4 DEF Repayments
<1>6. QED
  BY <1>1, <1>3, <1>4, <1>5 DEF LogsExtend, n

\* A repayment takes from what is left what it adds to what is paid.
LEMMA RepayPaidOn ==
    ASSUME IInv, NEW l \in LoanIds, NEW amount \in Payments, RepayLoan(l, amount),
           UNCHANGED managerVars, PaidOn(l)
    PROVE  PaidOn(l)'
<1> DEFINE paid == RepayPaid(l, amount)
           log == Log(Auxiliary, "LoanRepaid", l, paid)
           n == Len(logs) + 1
           all == Repayments(l)
           proved == Repayments(l) \cap processedQueries
<1>1. /\ paid \in 0 .. repayLeft[l] /\ repayLeft[l] \in Nat /\ flows[l] # None
      /\ repayLeft'[l] = repayLeft[l] - paid
  BY PaidType DEF IInv, TypeOK, AuxiliaryTypeOK, RepayLoan, CanRepayLoan, RepayableIsFunded
<1>2. log \in LoanLog /\ log.contract = Auxiliary /\ log.event = "LoanRepaid" /\ log.loanId = l
      /\ log.amount = paid
  BY <1>1 DEF Log, LoanLog
<1>3. /\ logs' = Append(logs, log)
      /\ UNCHANGED <<attested, flows, orders, processedQueries>>
  BY DEF RepayLoan, managerVars
<1> HIDE DEF log
<1>4. /\ LogsExtend /\ all' = all \cup {n} /\ n \notin DOMAIN logs /\ n \notin processedQueries
      /\ n \in DOMAIN logs' /\ logs'[n] = log
  BY <1>2, <1>3, RepaymentsOfLogs
<1>5. all \subseteq DOMAIN logs /\ proved \subseteq DOMAIN logs /\ proved' = proved
  BY <1>3, <1>4 DEF Repayments
<1>6. /\ \A S : Volume(S) = SumFunctionOnSet(Amounts, S)
      /\ Volume(all)' = SumFunctionOnSet(Amounts', all')
      /\ Volume(proved)' = SumFunctionOnSet(Amounts', proved')
  BY DEF Volume, Amounts
<1>7. Amounts'[n] = paid
  BY <1>2, <1>4 DEF Amounts
<1> HIDE DEF all, proved, n, paid
<1>8. /\ IsFiniteSet(all) /\ \A q \in all : Amounts'[q] \in Nat
      /\ SumFunctionOnSet(Amounts', all) = SumFunctionOnSet(Amounts, all)
      /\ SumFunctionOnSet(Amounts', proved) = SumFunctionOnSet(Amounts, proved)
  BY <1>4, <1>5, VolumeKept DEF IInv
<1>9. /\ SumFunctionOnSet(Amounts', all') = SumFunctionOnSet(Amounts', all) + paid
      /\ SumFunctionOnSet(Amounts', all) \in Nat
  <2>1. n \notin all
    BY <1>4, <1>5
  <2>2. \A q \in all \cup {n} : Amounts'[q] \in Nat
    BY <1>1, <1>7, <1>8
  <2>3. QED
    BY <1>4, <1>7, <1>8, <2>1, <2>2, SumAdd
<1>10. Volume(all)' = Volume(all) + paid /\ Volume(all) \in Nat /\ Volume(proved)' = Volume(proved)
  BY <1>5, <1>6, <1>8, <1>9
<1>11. QED
  <2>1. Volume(all) + repayLeft[l] = orders[l].terms.repay
    BY <1>1 DEF PaidOn, all
  <2>2. Volume(all)' + repayLeft'[l] = orders'[l].terms.repay
    BY <1>1, <1>3, <1>10, <2>1
  <2>3. repayLeft[l] = 0 => repayLeft'[l] = 0
    <3>1. ASSUME repayLeft[l] = 0
          PROVE  paid = 0
      BY <1>1, <3>1
    <3>2. repayLeft'[l] = repayLeft[l] - paid
      BY <1>1
    <3>3. QED
      BY <3>1, <3>2
  <2>4. QED
    BY <1>3, <1>10, <2>2, <2>3 DEF PaidOn, all, proved

\* A proof of a repayment adds it to the amount Creditcoin says is repaid, which is
\* never more than what has been paid; so if it is the whole debt, nothing is left.
LEMMA NotePaidOn ==
    ASSUME IInv, NEW q \in DOMAIN logs, NoteLoanRepayment(q), UNCHANGED auxiliaryVars,
           NEW l, l = logs[q].loanId, PaidOn(l)
    PROVE  PaidOn(l)'
<1> DEFINE repaid == orders[l].repaidAmount + logs[q].amount
           all == Repayments(l)
           proved == Repayments(l) \cap processedQueries
<1>1. /\ FromSource(q) /\ q \notin processedQueries /\ logs[q].event = "LoanRepaid"
      /\ processedQueries' = processedQueries \cup {q}
      /\ UNCHANGED <<logs, flows, repayLeft>>
  BY DEF NoteLoanRepayment, CanNoteLoanRepayment, Provable, auxiliaryVars, flowVars
<1>2. /\ logs[q].contract = Auxiliary /\ l \in repayable /\ l \in LoanIds
      /\ logs[q].amount \in Nat
  BY <1>1, FromAuxiliary
<1>3. flows[l] # None /\ repayLeft[l] \in Nat /\ orders[l] \in Order
  BY <1>2 DEF IInv, RepayableIsFunded, TypeOK, AuxiliaryTypeOK
<1>4. q \in all /\ q \notin proved /\ proved' = proved \cup {q} /\ all' = all
      /\ all \subseteq DOMAIN logs /\ proved \subseteq all
  BY <1>1, <1>2 DEF Repayments
<1>5. LogsExtend /\ Amounts[q] = logs[q].amount
  BY <1>1 DEF LogsExtend, Amounts
<1>6. /\ \A S : Volume(S) = SumFunctionOnSet(Amounts, S)
      /\ Volume(all)' = SumFunctionOnSet(Amounts', all')
      /\ Volume(proved)' = SumFunctionOnSet(Amounts', proved')
  BY DEF Volume, Amounts
<1>7. /\ orders'[l].repaidAmount = repaid /\ orders'[l].terms = orders[l].terms
      /\ orders'[l].status = StatusAfter(l, repaid)
  <2>1. orders' = [orders EXCEPT ![l] = [orders[l] EXCEPT !.repaidAmount = repaid,
                                                          !.status = StatusAfter(l, repaid)]]
    BY DEF NoteLoanRepayment
  <2>2. orders'[l] = [orders[l] EXCEPT !.repaidAmount = repaid, !.status = StatusAfter(l, repaid)]
    BY <1>2, <2>1 DEF IInv, TypeOK
  <2>3. StatusAfter(l, repaid) \in {"Created", "Funded", "PartlyRepaid", "Repaid", "Expired"}
    BY DEF StatusAfter
  <2>4. repaid \in Nat
    BY <1>2, <1>3 DEF Order
  <2> HIDE DEF repaid
  <2>5. \A status : /\ [orders[l] EXCEPT !.repaidAmount = repaid, !.status = status].status = status
                     /\ [orders[l] EXCEPT !.repaidAmount = repaid, !.status = status].terms = orders[l].terms
                     /\ [orders[l] EXCEPT !.repaidAmount = repaid, !.status = status].repaidAmount = repaid
    BY <1>3 DEF Order
  <2>6. QED
    BY <2>2, <2>5
<1> HIDE DEF all, proved
<1>8. /\ SumFunctionOnSet(Amounts', all) = SumFunctionOnSet(Amounts, all)
      /\ SumFunctionOnSet(Amounts', proved') = SumFunctionOnSet(Amounts, proved')
      /\ IsFiniteSet(all) /\ \A p \in all : Amounts[p] \in Nat
  BY <1>4, <1>5, VolumeKept DEF IInv
<1>9. /\ SumFunctionOnSet(Amounts, proved') = SumFunctionOnSet(Amounts, proved) + logs[q].amount
      /\ SumFunctionOnSet(Amounts, proved) \in Nat
  <2>1. IsFiniteSet(proved)
    BY <1>4, <1>8, FS_Subset
  <2>2. \A p \in proved \cup {q} : Amounts[p] \in Nat
    BY <1>4, <1>8
  <2>3. QED
    BY <1>4, <1>5, <2>1, <2>2, SumAdd
<1>10. SumFunctionOnSet(Amounts, proved') <= SumFunctionOnSet(Amounts, all)
       /\ SumFunctionOnSet(Amounts, proved') \in Nat /\ SumFunctionOnSet(Amounts, all) \in Nat
  BY <1>4, <1>8, SumOfPart
<1>11. orders[l].repaidAmount = Volume(proved) /\ Volume(all) + repayLeft[l] = orders[l].terms.repay
  BY <1>3 DEF PaidOn, all, proved
<1>12. Volume(proved)' = repaid /\ repaid <= Volume(all) /\ repaid \in Nat
       /\ Volume(all) \in Nat /\ Volume(all)' = Volume(all)
  BY <1>4, <1>6, <1>8, <1>9, <1>10, <1>11
<1> HIDE DEF repaid
<1>13. orders'[l].status = "Repaid" => repayLeft[l] = 0 /\ repaid = orders[l].terms.repay
  <2>1. orders'[l].status = "Repaid" => repaid >= orders[l].terms.repay
    BY <1>7 DEF StatusAfter
  <2>2. QED
    BY <1>3, <1>11, <1>12, <2>1
<1>14. QED
  <2>1. UNCHANGED <<flows, repayLeft>>
    BY <1>1
  <2>2. orders'[l].repaidAmount = Volume(proved)'
    BY <1>7, <1>12
  <2>3. Volume(all)' + repayLeft'[l] = orders'[l].terms.repay
    BY <1>7, <1>11, <1>12, <2>1
  <2>4. orders'[l].status = "Repaid" => repayLeft'[l] = 0 /\ orders'[l].repaidAmount = orders'[l].terms.repay
    BY <1>7, <1>13, <2>1
  <2>5. QED
    BY <2>2, <2>3, <2>4 DEF PaidOn, all, proved

\* The steps of the source chain keep what RepaidIsPaid says of a loan.
LEMMA SourceKeepsPaid ==
    ASSUME IInv, IInv', SourceStep, UNCHANGED managerVars, NEW l \in registeredLoans, PaidOn(l)
    PROVE  PaidOn(l)'
<1>1. l \in LoanIds /\ orders \in [LoanIds -> Order] /\ UNCHANGED <<orders, processedQueries>>
  BY DEF IInv, TypeOK, managerVars
<1>2. ASSUME UNCHANGED <<logs, flows, repayLeft>>
      PROVE  PaidOn(l)'
  <2>1. LogsExtend /\ Repayments(l)' = Repayments(l)
    BY <1>2 DEF LogsExtend, Repayments
  <2>2. QED
    BY <1>1, <1>2, <2>1, PaidKept DEF IInv
<1>3. ASSUME NEW m \in LoanIds, WorkerRegisters(m)
      PROVE  PaidOn(l)'
  <2>1. /\ m \in registeredLoans /\ flows[m] = None /\ UNCHANGED <<logs, repayable>>
        /\ repayLeft' = [repayLeft EXCEPT ![m] = orders[m].terms.repay]
        /\ \A k \in LoanIds : k # m => flows'[k] = flows[k]
    BY <1>3 DEF WorkerRegisters, CanWorkerRegister, RegisterLoanFund, CanRegisterLoanFund, IInv,
                TypeOK, AuxiliaryTypeOK
  <2>2. LogsExtend /\ Repayments(l)' = Repayments(l)
    BY <2>1 DEF LogsExtend, Repayments
  <2>3. CASE l # m
    <3>1. flows'[l] = flows[l] /\ repayLeft'[l] = repayLeft[l]
      BY <1>1, <2>1, <2>3 DEF IInv, TypeOK, AuxiliaryTypeOK
    <3>2. QED
      BY <1>1, <2>2, <3>1, PaidKept DEF IInv
  <2>4. CASE l = m
    <3>1. l \notin repayable
      BY <2>1, <2>4 DEF IInv, RepayableIsFunded
    <3>2. Repayments(l)' = {} /\ Repayments(l) = {} /\ orders[l].status # "Repaid"
      BY <1>1, <2>2, <3>1 DEF IInv, RepayableIsFunded, FundedIsRepayable, Repayments
    <3>3. repayLeft'[l] = orders[l].terms.repay /\ repayLeft'[l] \in Nat
      BY <1>1, <2>1, <2>4 DEF IInv, TypeOK, AuxiliaryTypeOK
    <3>4. orders[l].repaidAmount = 0
      <4>1. Repayments(l) \cap processedQueries = {}
        BY <3>2
      <4>2. Volume({}) = 0
        BY SumOfNone DEF Volume
      <4>3. QED
        BY <4>1, <4>2 DEF PaidOn
    <3>5. QED
      BY <1>1, <3>2, <3>3, <3>4, PaidNothing
  <2>5. QED
    BY <2>3, <2>4
<1>4. ASSUME NEW log \in LoanLog, logs' = Append(logs, log),
             ~(log.contract = Auxiliary /\ log.event = "LoanRepaid" /\ log.loanId = l),
             UNCHANGED attested, flows'[l] = flows[l], repayLeft'[l] = repayLeft[l]
      PROVE  PaidOn(l)'
  <2>1. LogsExtend /\ Repayments(l)' = Repayments(l)
    BY <1>1, <1>4, RepaymentsOfLogs
  <2>2. QED
    BY <1>1, <1>4, <2>1, PaidKept DEF IInv
<1>5. ASSUME NEW m \in LoanIds, NEW amount \in Payments, FundLoan(m, amount)
      PROVE  PaidOn(l)'
  <2> DEFINE log == Log(Auxiliary, "LoanFunded", m, 0)
  <2>1. UNCHANGED <<flows, repayLeft, attested>> /\ (UNCHANGED logs \/ logs' = Append(logs, log))
    BY <1>5 DEF FundLoan
  <2>2. log \in LoanLog /\ log.event # "LoanRepaid"
    BY DEF Log, LoanLog
  <2>3. QED
    BY <1>2, <1>4, <2>1, <2>2
<1>6. ASSUME NEW m \in LoanIds, NEW amount \in Payments, RepayLoan(m, amount)
      PROVE  PaidOn(l)'
  <2> DEFINE paid == RepayPaid(m, amount)
             log == Log(Auxiliary, "LoanRepaid", m, paid)
  <2>1. CASE l = m
    BY <1>1, <1>6, <2>1, RepayPaidOn
  <2>2. CASE l # m
    <3>1. log \in LoanLog /\ log.loanId = m
      <4>1. paid \in Nat
        BY PaidType DEF IInv, TypeOK, AuxiliaryTypeOK
      <4> HIDE DEF paid
      <4>2. QED
        BY <4>1 DEF Log, LoanLog
    <3>2. /\ logs' = Append(logs, log) /\ UNCHANGED <<flows, attested>>
          /\ repayLeft'[l] = repayLeft[l]
      BY <1>1, <1>6, <2>2 DEF RepayLoan, IInv, TypeOK, AuxiliaryTypeOK
    <3>3. QED
      BY <1>4, <2>2, <3>1, <3>2
  <2>3. QED
    BY <2>1, <2>2
<1>7. ASSUME NEW c \in Others, NEW event \in {"LoanFunded", "LoanRepaid"}, NEW m \in LoanIds,
             NEW amount \in Nat, OtherLog(c, event, m, amount)
      PROVE  PaidOn(l)'
  <2> DEFINE log == Log(c, event, m, amount)
  <2>1. log \in LoanLog /\ log.contract # Auxiliary
    BY AuxiliaryAssumption DEF Log, LoanLog
  <2>2. logs' = Append(logs, log) /\ UNCHANGED <<flows, repayLeft, attested>>
    BY <1>7 DEF OtherLog, flowVars
  <2>3. QED
    BY <1>4, <2>1, <2>2
<1>8. ASSUME NEW c \in Others, NEW m \in LoanIds,
             \/ OtherLog(c, "LoanFunded", m, 0)
             \/ \E amount \in Payments : OtherLog(c, "LoanRepaid", m, amount)
      PROVE  PaidOn(l)'
  BY <1>7, <1>8, ManagerAssumption
<1>9. ASSUME \/ \E yes \in BOOLEAN : Authorize(yes)
             \/ \E m \in registeredLoans : ccBlock >= Deadline(m) /\ ExpireOnSource(m)
             \/ AttestLog
      PROVE  PaidOn(l)'
  BY <1>2, <1>9 DEF Authorize, ExpireOnSource, AttestLog, flowVars
<1>10. QED
  BY <1>3, <1>5, <1>6, <1>8, <1>9 DEF SourceStep

\* The steps of Creditcoin make it true of a new loan and keep it of the others.
LEMMA ManagerKeepsPaid ==
    ASSUME IInv, IInv', ManagerStep, UNCHANGED auxiliaryVars, NEW l \in registeredLoans',
           l \in registeredLoans => PaidOn(l)
    PROVE  PaidOn(l)'
<1>1. /\ l \in LoanIds /\ orders \in [LoanIds -> Order] /\ orders[l] \in Order
      /\ UNCHANGED <<logs, flows, repayLeft, repayable>>
      /\ LogsExtend /\ \A k : Repayments(k)' = Repayments(k)
  BY DEF IInv, TypeOK, auxiliaryVars, flowVars, LogsExtend, Repayments
<1>2. ASSUME (Repayments(l) \cap processedQueries)' = Repayments(l) \cap processedQueries,
             l \in registeredLoans,
             orders'[l].repaidAmount = orders[l].repaidAmount, orders'[l].terms = orders[l].terms,
             orders'[l].status = "Repaid" => orders[l].status = "Repaid"
      PROVE  PaidOn(l)'
  BY <1>1, <1>2, PaidKept DEF IInv
<1>3. ASSUME NEW offer \in Offers, RegisterLoan(offer)
      PROVE  PaidOn(l)'
  <2> DEFINE new == [terms |-> offer, status |-> "Created", repaidAmount |-> 0]
  <2>1. /\ nextLoanId \in LoanIds /\ nextLoanId \notin registeredLoans
        /\ orders' = [orders EXCEPT ![nextLoanId] = new]
        /\ registeredLoans' = registeredLoans \cup {nextLoanId}
        /\ UNCHANGED processedQueries
    BY <1>3, FS_CardinalityType DEF RegisterLoan, nextLoanId, IInv, LoansAreNumbered
  <2>2. CASE l # nextLoanId
    BY <1>1, <1>2, <2>1, <2>2
  <2>3. CASE l = nextLoanId
    <3>1. flows[l] = None /\ l \notin repayable
      BY <1>1, <2>1, <2>3 DEF IInv, FlowsFollowOrders, RepayableIsFunded
    <3>2. Repayments(l)' = {}
      BY <1>1, <3>1 DEF IInv, RepayableIsFunded, Repayments
    <3>3. orders'[l] = new /\ repayLeft'[l] \in Nat
      BY <1>1, <2>1, <2>3 DEF IInv, TypeOK, AuxiliaryTypeOK
    <3>4. QED
      BY <1>1, <3>1, <3>2, <3>3, PaidNothing
  <2>4. QED
    BY <2>2, <2>3
<1>4. ASSUME NEW q \in DOMAIN logs, MarkLoanAsFunded(q)
      PROVE  PaidOn(l)'
  <2> DEFINE m == logs[q].loanId
             order == [orders[m] EXCEPT !.status = "Funded"]
  <2>1. /\ orders' = [orders EXCEPT ![m] = order] /\ UNCHANGED registeredLoans
        /\ processedQueries' = processedQueries \cup {q} /\ logs[q].event = "LoanFunded"
    BY <1>4 DEF MarkLoanAsFunded, CanMarkLoanAsFunded
  <2>2. (Repayments(l) \cap processedQueries)' = Repayments(l) \cap processedQueries
    BY <1>1, <2>1 DEF Repayments
  <2>3. /\ [orders[l] EXCEPT !.status = "Funded"].status = "Funded"
        /\ [orders[l] EXCEPT !.status = "Funded"].repaidAmount = orders[l].repaidAmount
        /\ [orders[l] EXCEPT !.status = "Funded"].terms = orders[l].terms
    BY <1>1 DEF Order
  <2>4. orders'[l] = IF l = m THEN [orders[l] EXCEPT !.status = "Funded"] ELSE orders[l]
    BY <1>1, <2>1
  <2>5. QED
    BY <1>2, <2>1, <2>2, <2>3, <2>4
<1>5. ASSUME NEW q \in DOMAIN logs, NoteLoanRepayment(q)
      PROVE  PaidOn(l)'
  <2> DEFINE m == logs[q].loanId
  <2>1. UNCHANGED registeredLoans /\ processedQueries' = processedQueries \cup {q}
        /\ m \in LoanIds /\ \A k \in LoanIds : k # m => orders'[k] = orders[k]
    BY <1>1, <1>5, FromAuxiliary DEF NoteLoanRepayment, CanNoteLoanRepayment
  <2>2. CASE l = m
    BY <1>5, <2>1, <2>2, NotePaidOn
  <2>3. CASE l # m
    <3>1. (Repayments(l) \cap processedQueries)' = Repayments(l) \cap processedQueries
      BY <1>1, <2>1, <2>3 DEF Repayments
    <3>2. QED
      BY <1>1, <1>2, <2>1, <2>3, <3>1
  <2>4. QED
    BY <2>2, <2>3
<1>6. ASSUME NEW m \in LoanIds, MarkLoanAsExpired(m)
      PROVE  PaidOn(l)'
  <2>1. /\ orders' = [orders EXCEPT ![m] = [orders[m] EXCEPT !.status = "Expired"]]
        /\ UNCHANGED <<registeredLoans, processedQueries>>
    BY <1>6 DEF MarkLoanAsExpired
  <2>2. /\ [orders[l] EXCEPT !.status = "Expired"].status = "Expired"
        /\ [orders[l] EXCEPT !.status = "Expired"].repaidAmount = orders[l].repaidAmount
        /\ [orders[l] EXCEPT !.status = "Expired"].terms = orders[l].terms
    BY <1>1 DEF Order
  <2>3. orders'[l] = IF l = m THEN [orders[l] EXCEPT !.status = "Expired"] ELSE orders[l]
    BY <1>1, <2>1
  <2>4. QED
    BY <1>1, <1>2, <2>1, <2>2, <2>3
<1>7. ASSUME RegisterSourceLoanContract(Auxiliary) \/ NextBlock
      PROVE  PaidOn(l)'
  BY <1>1, <1>2, <1>7 DEF RegisterSourceLoanContract, NextBlock
<1>8. QED
  BY <1>3, <1>4, <1>5, <1>6, <1>7 DEF ManagerStep

\* It is said of every registered loan, and every step keeps it.
LEMMA PaidStep == IInv /\ IInv' /\ RepaidIsPaid /\ [Next]_vars => RepaidIsPaid'
<1>1. /\ RepaidIsPaid <=> \A l \in registeredLoans : PaidOn(l)
      /\ RepaidIsPaid' <=> \A l \in registeredLoans' : PaidOn(l)'
  BY DEF RepaidIsPaid, PaidOn
<1>2. SUFFICES ASSUME IInv, IInv', \A l \in registeredLoans : PaidOn(l), [Next]_vars,
                      NEW l \in registeredLoans'
               PROVE  PaidOn(l)'
  BY <1>1
<1>3. CASE SourceStep /\ UNCHANGED managerVars
  <2>1. l \in registeredLoans
    BY <1>3 DEF managerVars
  <2>2. QED
    BY <1>2, <1>3, <2>1, SourceKeepsPaid
<1>4. CASE ManagerStep /\ UNCHANGED auxiliaryVars
  BY <1>2, <1>4, ManagerKeepsPaid
<1>5. CASE UNCHANGED vars
  <2>1. l \in registeredLoans /\ LogsExtend /\ Repayments(l)' = Repayments(l)
        /\ UNCHANGED <<orders, processedQueries, flows, repayLeft>>
    BY <1>5 DEF LogsExtend, Repayments, vars, auxiliaryVars, flowVars, managerVars
  <2>2. QED
    BY <1>2, <2>1, PaidKept DEF IInv
<1>6. QED
  BY <1>2, <1>3, <1>4, <1>5 DEF Next

-----------------------------------------------------------------------------
(* Where the tokens are                                                    *)

\* No more is left to fund of a loan than what its order says.
FundLeftIsOfOrder == \A l \in LoanIds : flows[l] # None => fundLeft[l] <= orders[l].terms.amount

\* Every account holds what it had, what it has borrowed and been repaid, less
\* what it has lent and repaid.
AccountBalances(a) ==
    tokens[a] + AllLent(LoansBy(a)) + AllRepaid(LoansTo(a)) =
        InitialTokens + AllLent(LoansTo(a)) + AllRepaid(LoansBy(a))

\* The volume of some logs is a number.
LEMMA VolumeType ==
    ASSUME NEW ls \in Seq(LoanLog), NEW S \in SUBSET DOMAIN ls
    PROVE  SumFunctionOnSet([q \in DOMAIN ls |-> ls[q].amount], S) \in Nat
<1>1. IsFiniteSet(S)
  BY FS_Interval, FS_Subset
<1>2. \A q \in DOMAIN ls : ls[q].amount \in Nat
  <2>1. \A q \in DOMAIN ls : ls[q] \in LoanLog
    OBVIOUS
  <2>2. QED
    BY <2>1 DEF LoanLog
<1>3. QED
  BY <1>1, <1>2, SumType

\* What has been lent and repaid of a loan, in numbers, before and after a step.
LEMMA LoanAmounts ==
    ASSUME IInv, RepaidIsPaid, FundLeftIsOfOrder, NEW l \in LoanIds, flows[l] # None
    PROVE  /\ orders[l].terms.amount \in Nat /\ orders[l].terms.repay \in Nat
           /\ fundLeft[l] \in Nat /\ repayLeft[l] \in Nat /\ Lent(l) \in Nat
           /\ Volume(Repayments(l)) \in Nat
           /\ Volume(Repayments(l)) = orders[l].terms.repay - repayLeft[l]
<1>1. l \in registeredLoans /\ orders[l].terms \in Offers
  BY DEF IInv, FlowsFollowOrders, LoansAreNumbered
<1>2. orders[l].terms.amount \in Nat /\ orders[l].terms.repay \in Nat
  BY <1>1, ManagerAssumption
<1>3. fundLeft[l] \in Nat /\ repayLeft[l] \in Nat /\ logs \in Seq(LoanLog)
  BY DEF IInv, TypeOK, AuxiliaryTypeOK
<1>4. Lent(l) \in Nat
  BY <1>2, <1>3 DEF Lent, FundLeftIsOfOrder
<1>5. Repayments(l) \subseteq DOMAIN logs
  BY DEF Repayments
<1>6. Volume(Repayments(l)) \in Nat
  BY <1>3, <1>5, VolumeType DEF Volume
<1>7. Volume(Repayments(l)) + repayLeft[l] = orders[l].terms.repay
  BY <1>1 DEF RepaidIsPaid
<1>8. QED
  BY <1>2, <1>3, <1>4, <1>6, <1>7

\* The same of the state after a step, with what has been repaid.
LEMMA NextVolume ==
    ASSUME IInv', RepaidIsPaid', NEW l \in LoanIds, flows'[l] # None
    PROVE  /\ Volume(Repayments(l))' \in Nat /\ repayLeft'[l] \in Nat
           /\ Volume(Repayments(l))' + repayLeft'[l] = orders'[l].terms.repay
<1>1. l \in registeredLoans'
  BY DEF IInv, FlowsFollowOrders
<1>2. logs' \in Seq(LoanLog) /\ repayLeft'[l] \in Nat
  BY DEF IInv, TypeOK, AuxiliaryTypeOK
<1>3. Repayments(l)' \subseteq DOMAIN logs'
  BY DEF Repayments
<1>4. SumFunctionOnSet([q \in DOMAIN logs' |-> logs'[q].amount], Repayments(l)') \in Nat
  BY <1>2, <1>3, VolumeType
<1>5. Volume(Repayments(l))' \in Nat
  BY <1>4 DEF Volume
<1>6. QED
  BY <1>1, <1>2, <1>5 DEF RepaidIsPaid

\* The loans by and to an account are registered, so they are finitely many.
LEMMA LoansFinite ==
    ASSUME IInv, NEW a
    PROVE  IsFiniteSet(LoansBy(a)) /\ IsFiniteSet(LoansTo(a))
<1>1. LoansBy(a) \subseteq registeredLoans /\ LoansTo(a) \subseteq registeredLoans
  BY DEF IInv, FlowsFollowOrders, LoansBy, LoansTo
<1>2. IsFiniteSet(registeredLoans)
  BY DEF IInv, LoansAreNumbered
<1>3. QED
  BY <1>1, <1>2, FS_Subset

\* When one loan is lent more, or repaid more, so are the totals it is part of.
LEMMA TotalsGrow ==
    ASSUME IInv, RepaidIsPaid, FundLeftIsOfOrder, UNCHANGED flows,
           NEW m, NEW lent \in Nat, NEW paid \in Nat,
           \A l \in LoanIds : flows[l] # None =>
               /\ Lent(l)' = Lent(l) + (IF l = m THEN lent ELSE 0)
               /\ Volume(Repayments(l))' = Volume(Repayments(l)) + (IF l = m THEN paid ELSE 0),
           NEW S \in SUBSET {l \in LoanIds : flows[l] # None}, IsFiniteSet(S)
    PROVE  /\ SumFunctionOnSet([l \in S |-> Lent(l)'], S) = AllLent(S) + (IF m \in S THEN lent ELSE 0)
           /\ SumFunctionOnSet([l \in S |-> Volume(Repayments(l))'], S)
                 = AllRepaid(S) + (IF m \in S THEN paid ELSE 0)
           /\ AllLent(S) \in Nat /\ AllRepaid(S) \in Nat
<1> DEFINE lentOf == [l \in S |-> Lent(l)]
           lentNext == [l \in S |-> Lent(l)']
           paidOf == [l \in S |-> Volume(Repayments(l))]
           paidNext == [l \in S |-> Volume(Repayments(l))']
<1>1. /\ \A l \in S : lentOf[l] \in Nat /\ paidOf[l] \in Nat
      /\ \A l \in S : lentNext[l] = lentOf[l] + (IF l = m THEN lent ELSE 0)
      /\ \A l \in S : paidNext[l] = paidOf[l] + (IF l = m THEN paid ELSE 0)
  BY LoanAmounts
<1>3. AllLent(S) = SumFunctionOnSet(lentOf, S) /\ AllRepaid(S) = SumFunctionOnSet(paidOf, S)
  BY DEF AllLent, AllRepaid
<1>2. Grows(lentOf, lentNext, S, m, lent) /\ Grows(paidOf, paidNext, S, m, paid)
  BY <1>1 DEF Grows
<1> HIDE DEF lentOf, lentNext, paidOf, paidNext
<1>4. /\ SumFunctionOnSet(lentNext, S) = SumFunctionOnSet(lentOf, S) + (IF m \in S THEN lent ELSE 0)
      /\ SumFunctionOnSet(lentOf, S) \in Nat
  BY <1>2, SumGrows
<1>5. /\ SumFunctionOnSet(paidNext, S) = SumFunctionOnSet(paidOf, S) + (IF m \in S THEN paid ELSE 0)
      /\ SumFunctionOnSet(paidOf, S) \in Nat
  BY <1>2, SumGrows
<1>6. QED
  BY <1>3, <1>4, <1>5 DEF lentNext, paidNext

\* A step that moves the tokens with what it lends or repays keeps the balance.
LEMMA BalanceMoves ==
    ASSUME IInv, RepaidIsPaid, FundLeftIsOfOrder, UNCHANGED flows,
           NEW m, NEW lent \in Nat, NEW paid \in Nat,
           \A l \in LoanIds : flows[l] # None =>
               /\ Lent(l)' = Lent(l) + (IF l = m THEN lent ELSE 0)
               /\ Volume(Repayments(l))' = Volume(Repayments(l)) + (IF l = m THEN paid ELSE 0),
           NEW a \in Accounts, AccountBalances(a),
           tokens'[a] = tokens[a] - (IF m \in LoansBy(a) THEN lent ELSE 0)
                                  + (IF m \in LoansTo(a) THEN lent ELSE 0)
                                  - (IF m \in LoansTo(a) THEN paid ELSE 0)
                                  + (IF m \in LoansBy(a) THEN paid ELSE 0)
    PROVE  AccountBalances(a)'
<1> DEFINE by == LoansBy(a)
           to == LoansTo(a)
<1>1. /\ by \subseteq {l \in LoanIds : flows[l] # None} /\ IsFiniteSet(by) /\ by' = by
      /\ to \subseteq {l \in LoanIds : flows[l] # None} /\ IsFiniteSet(to) /\ to' = to
  BY LoansFinite DEF LoansBy, LoansTo
<1>2. /\ AllLent(by)' = SumFunctionOnSet([l \in by' |-> Lent(l)'], by')
      /\ AllLent(to)' = SumFunctionOnSet([l \in to' |-> Lent(l)'], to')
      /\ AllRepaid(by)' = SumFunctionOnSet([l \in by' |-> Volume(Repayments(l))'], by')
      /\ AllRepaid(to)' = SumFunctionOnSet([l \in to' |-> Volume(Repayments(l))'], to')
  BY DEF AllLent, AllRepaid
<1> HIDE DEF by, to
<1>3. /\ SumFunctionOnSet([l \in by |-> Lent(l)'], by) = AllLent(by) + (IF m \in by THEN lent ELSE 0)
      /\ SumFunctionOnSet([l \in by |-> Volume(Repayments(l))'], by)
            = AllRepaid(by) + (IF m \in by THEN paid ELSE 0)
      /\ AllLent(by) \in Nat /\ AllRepaid(by) \in Nat
  BY <1>1, TotalsGrow
<1>4. /\ SumFunctionOnSet([l \in to |-> Lent(l)'], to) = AllLent(to) + (IF m \in to THEN lent ELSE 0)
      /\ SumFunctionOnSet([l \in to |-> Volume(Repayments(l))'], to)
            = AllRepaid(to) + (IF m \in to THEN paid ELSE 0)
      /\ AllLent(to) \in Nat /\ AllRepaid(to) \in Nat
  BY <1>1, TotalsGrow
<1>5. /\ AllLent(by)' = AllLent(by) + (IF m \in by THEN lent ELSE 0)
      /\ AllLent(to)' = AllLent(to) + (IF m \in to THEN lent ELSE 0)
      /\ AllRepaid(by)' = AllRepaid(by) + (IF m \in by THEN paid ELSE 0)
      /\ AllRepaid(to)' = AllRepaid(to) + (IF m \in to THEN paid ELSE 0)
  BY <1>1, <1>2, <1>3, <1>4
<1>6. tokens[a] + AllLent(by) + AllRepaid(to) = InitialTokens + AllLent(to) + AllRepaid(by)
      /\ tokens[a] \in Nat /\ InitialTokens \in Nat
  BY AuxiliaryAssumption DEF AccountBalances, IInv, TypeOK, AuxiliaryTypeOK, by, to
<1>7. tokens'[a] = tokens[a] - (IF m \in by THEN lent ELSE 0) + (IF m \in to THEN lent ELSE 0)
                             - (IF m \in to THEN paid ELSE 0) + (IF m \in by THEN paid ELSE 0)
  BY DEF by, to
<1>8. tokens'[a] + AllLent(by)' + AllRepaid(to)' = InitialTokens + AllLent(to)' + AllRepaid(by)'
  <2> DEFINE lentBy == IF m \in by THEN lent ELSE 0
             lentTo == IF m \in to THEN lent ELSE 0
             paidBy == IF m \in by THEN paid ELSE 0
             paidTo == IF m \in to THEN paid ELSE 0
  <2>1. lentBy \in Nat /\ lentTo \in Nat /\ paidBy \in Nat /\ paidTo \in Nat
    OBVIOUS
  <2>2. /\ AllLent(by)' = AllLent(by) + lentBy /\ AllLent(to)' = AllLent(to) + lentTo
        /\ AllRepaid(by)' = AllRepaid(by) + paidBy /\ AllRepaid(to)' = AllRepaid(to) + paidTo
        /\ tokens'[a] = tokens[a] - lentBy + lentTo - paidTo + paidBy
    BY <1>5, <1>7
  <2> HIDE DEF lentBy, lentTo, paidBy, paidTo
  <2>3. PICK old, held, aLent, aBack, aOwed, aPaid :
           /\ old = tokens[a] /\ held = tokens'[a]
           /\ aLent = AllLent(by) /\ aOwed = AllLent(to)
           /\ aBack = AllRepaid(to) /\ aPaid = AllRepaid(by)
    OBVIOUS
  <2>4. /\ {old, aLent, aBack, aOwed, aPaid, lentBy, lentTo, paidBy, paidTo, InitialTokens} \subseteq Nat
        /\ old + aLent + aBack = InitialTokens + aOwed + aPaid
        /\ held = old - lentBy + lentTo - paidTo + paidBy
    BY <1>3, <1>4, <1>6, <2>1, <2>2, <2>3
  <2>5. held + (aLent + lentBy) + (aBack + paidTo) = InitialTokens + (aOwed + lentTo) + (aPaid + paidBy)
    BY <2>4
  <2>6. QED
    BY <2>2, <2>3, <2>5
<1>9. QED
  BY <1>8 DEF AccountBalances, by, to

\* A step that changes no loan that has a flow keeps the balances.
LEMMA BalanceKept ==
    ASSUME IInv, RepaidIsPaid, FundLeftIsOfOrder, IInv', RepaidIsPaid',
           UNCHANGED <<flows, tokens, fundLeft, repayLeft>>,
           \A l \in LoanIds : flows[l] # None => orders'[l].terms = orders[l].terms,
           NEW a \in Accounts, AccountBalances(a)
    PROVE  AccountBalances(a)'
<1>1. ASSUME NEW l \in LoanIds, flows[l] # None
      PROVE  /\ Lent(l)' = Lent(l) + (IF l = None THEN 0 ELSE 0)
             /\ Volume(Repayments(l))' = Volume(Repayments(l)) + (IF l = None THEN 0 ELSE 0)
  <2>1. /\ Lent(l) \in Nat /\ Volume(Repayments(l)) \in Nat /\ repayLeft[l] \in Nat
        /\ orders[l].terms.repay \in Nat
        /\ Volume(Repayments(l)) = orders[l].terms.repay - repayLeft[l]
    BY <1>1, LoanAmounts
  <2>2. Lent(l)' = Lent(l)
    BY <1>1 DEF Lent
  <2>3. Volume(Repayments(l))' \in Nat
        /\ Volume(Repayments(l))' + repayLeft[l] = orders[l].terms.repay
    BY <1>1, NextVolume
  <2>4. QED
    BY <2>1, <2>2, <2>3
<1>2. /\ tokens'[a] = tokens[a] /\ tokens[a] \in Nat
  BY DEF IInv, TypeOK, AuxiliaryTypeOK
<1>3. tokens'[a] = tokens[a] - (IF None \in LoansBy(a) THEN 0 ELSE 0)
                             + (IF None \in LoansTo(a) THEN 0 ELSE 0)
                             - (IF None \in LoansTo(a) THEN 0 ELSE 0)
                             + (IF None \in LoansBy(a) THEN 0 ELSE 0)
  BY <1>2
<1>4. UNCHANGED flows /\ 0 \in Nat
  OBVIOUS
<1>5. QED
  BY <1>1, <1>3, <1>4, BalanceMoves

\* A transfer takes from the one what it gives to the other.
LEMMA TransferMoves ==
    ASSUME TypeOK, NEW from \in Accounts, NEW to \in Accounts, NEW amount \in Nat,
           Transfer(from, to, amount), NEW a \in Accounts
    PROVE  tokens'[a] = tokens[a] - (IF from = a THEN amount ELSE 0) + (IF to = a THEN amount ELSE 0)
  BY DEF TypeOK, AuxiliaryTypeOK, Transfer

\* A loan the worker registers starts with nothing lent and nothing repaid.
LEMMA RegisterBalance ==
    ASSUME IInv, RepaidIsPaid, FundLeftIsOfOrder, IInv', RepaidIsPaid', NEW m \in LoanIds,
           WorkerRegisters(m), UNCHANGED managerVars, NEW a \in Accounts, AccountBalances(a)
    PROVE  AccountBalances(a)'
<1> DEFINE by == LoansBy(a)
           to == LoansTo(a)
<1>1. /\ flows[m] = None /\ flows'[m] # None /\ UNCHANGED <<orders, tokens>>
      /\ fundLeft'[m] = orders[m].terms.amount /\ repayLeft'[m] = orders[m].terms.repay
      /\ \A l \in LoanIds : l # m => /\ flows'[l] = flows[l] /\ fundLeft'[l] = fundLeft[l]
                                     /\ repayLeft'[l] = repayLeft[l]
  <2>1. /\ [from |-> orders[m].terms.lender, to |-> orders[m].terms.borrower] # None
        /\ m \in registeredLoans
    <3>1. m \in registeredLoans
      BY DEF WorkerRegisters, CanWorkerRegister
    <3>2. orders[m].terms \in Offers
      BY <3>1 DEF IInv, LoansAreNumbered
    <3>3. [from |-> orders[m].terms.lender, to |-> orders[m].terms.borrower] \in Flow
      BY <3>2, ManagerAssumption DEF Flow
    <3>4. QED
      BY <3>1, <3>3, AuxiliaryAssumption
  <2>2. QED
    BY <2>1 DEF WorkerRegisters, CanWorkerRegister, RegisterLoanFund, CanRegisterLoanFund,
                managerVars, IInv, TypeOK, AuxiliaryTypeOK
<1>2. orders[m].terms.amount \in Nat /\ orders[m].terms.repay \in Nat
  <2>1. orders[m].terms \in Offers
    BY DEF WorkerRegisters, CanWorkerRegister, IInv, LoansAreNumbered
  <2>2. QED
    BY <2>1, ManagerAssumption
<1>3. Lent(m)' = 0 /\ Volume(Repayments(m))' = 0
  <2>1. Volume(Repayments(m))' \in Nat
        /\ Volume(Repayments(m))' + repayLeft'[m] = orders'[m].terms.repay
    BY <1>1, NextVolume
  <2>2. Volume(Repayments(m))' = 0
    BY <1>1, <1>2, <2>1
  <2>3. Lent(m)' = 0
    BY <1>1, <1>2 DEF Lent
  <2>4. QED
    BY <2>2, <2>3
<1>4. ASSUME NEW l \in LoanIds, flows[l] # None
      PROVE  /\ Lent(l) \in Nat /\ Volume(Repayments(l)) \in Nat
             /\ Lent(l)' = Lent(l) /\ Volume(Repayments(l))' = Volume(Repayments(l))
  <2>1. /\ Lent(l) \in Nat /\ Volume(Repayments(l)) \in Nat /\ repayLeft[l] \in Nat
        /\ orders[l].terms.repay \in Nat
        /\ Volume(Repayments(l)) = orders[l].terms.repay - repayLeft[l]
    BY <1>4, LoanAmounts
  <2>2. l # m /\ flows'[l] # None
    BY <1>1, <1>4
  <2>3. Lent(l)' = Lent(l)
    BY <1>1, <2>2 DEF Lent
  <2>4. Volume(Repayments(l))' \in Nat
        /\ Volume(Repayments(l))' + repayLeft'[l] = orders'[l].terms.repay
    BY <2>2, NextVolume
  <2>5. repayLeft'[l] = repayLeft[l] /\ orders'[l] = orders[l]
    BY <1>1, <2>2
  <2>6. QED
    BY <2>1, <2>3, <2>4, <2>5
<1>5. /\ IsFiniteSet(by) /\ m \notin by /\ (by' = by \/ by' = by \cup {m})
      /\ IsFiniteSet(to) /\ m \notin to /\ (to' = to \/ to' = to \cup {m})
      /\ \A l \in by \cup to : l \in LoanIds /\ flows[l] # None
  BY <1>1, LoansFinite DEF LoansBy, LoansTo
<1>6. /\ AllLent(by)' = SumFunctionOnSet([l \in by' |-> Lent(l)'], by')
      /\ AllLent(to)' = SumFunctionOnSet([l \in to' |-> Lent(l)'], to')
      /\ AllRepaid(by)' = SumFunctionOnSet([l \in by' |-> Volume(Repayments(l))'], by')
      /\ AllRepaid(to)' = SumFunctionOnSet([l \in to' |-> Volume(Repayments(l))'], to')
  BY DEF AllLent, AllRepaid
<1> HIDE DEF by, to
<1>7. ASSUME NEW S, NEW T, IsFiniteSet(S), m \notin S, T = S \/ T = S \cup {m},
             \A l \in S : l \in LoanIds /\ flows[l] # None
      PROVE  /\ SumFunctionOnSet([l \in T |-> Lent(l)'], T) = AllLent(S)
             /\ SumFunctionOnSet([l \in T |-> Volume(Repayments(l))'], T) = AllRepaid(S)
  <2> DEFINE lentOf == [l \in S |-> Lent(l)]
             lentNext == [l \in T |-> Lent(l)']
             paidOf == [l \in S |-> Volume(Repayments(l))]
             paidNext == [l \in T |-> Volume(Repayments(l))']
  <2>1. /\ \A l \in S : lentOf[l] \in Nat /\ lentNext[l] = lentOf[l]
        /\ \A l \in S : paidOf[l] \in Nat /\ paidNext[l] = paidOf[l]
        /\ m \in T => lentNext[m] = 0 /\ paidNext[m] = 0
    BY <1>3, <1>4, <1>7
  <2>2. AllLent(S) = SumFunctionOnSet(lentOf, S) /\ AllRepaid(S) = SumFunctionOnSet(paidOf, S)
    BY DEF AllLent, AllRepaid
  <2> HIDE DEF lentOf, lentNext, paidOf, paidNext
  <2>3. SumFunctionOnSet(lentNext, T) = SumFunctionOnSet(lentOf, S)
    BY <1>7, <2>1, SumAddNothing
  <2>4. SumFunctionOnSet(paidNext, T) = SumFunctionOnSet(paidOf, S)
    BY <1>7, <2>1, SumAddNothing
  <2>5. QED
    BY <2>2, <2>3, <2>4 DEF lentNext, paidNext
<1>8. /\ SumFunctionOnSet([l \in by' |-> Lent(l)'], by') = AllLent(by)
      /\ SumFunctionOnSet([l \in by' |-> Volume(Repayments(l))'], by') = AllRepaid(by)
      /\ SumFunctionOnSet([l \in to' |-> Lent(l)'], to') = AllLent(to)
      /\ SumFunctionOnSet([l \in to' |-> Volume(Repayments(l))'], to') = AllRepaid(to)
  BY <1>5, <1>7
<1>9. QED
  BY <1>1, <1>6, <1>8 DEF AccountBalances, by, to

\* A funding moves to the borrower what it adds to what is lent.
LEMMA FundBalance ==
    ASSUME IInv, RepaidIsPaid, FundLeftIsOfOrder, IInv', RepaidIsPaid', NEW m \in LoanIds,
           NEW amount \in Payments, FundLoan(m, amount), UNCHANGED managerVars,
           NEW a \in Accounts, AccountBalances(a)
    PROVE  AccountBalances(a)'
<1> DEFINE paid == FundPaid(m, amount)
<1>1. paid \in 0 .. fundLeft[m] /\ fundLeft[m] \in Nat /\ flows[m] \in Flow /\ flows[m] # None
  BY PaidType DEF IInv, TypeOK, AuxiliaryTypeOK, FundLoan, CanFundLoan
<1>2. /\ fundLeft'[m] = fundLeft[m] - paid /\ Transfer(flows[m].from, flows[m].to, paid)
      /\ \A l \in LoanIds : l # m => fundLeft'[l] = fundLeft[l]
      /\ UNCHANGED <<flows, repayLeft, orders>>
  BY DEF FundLoan, managerVars, IInv, TypeOK, AuxiliaryTypeOK
<1> HIDE DEF paid
<1>3. ASSUME NEW l \in LoanIds, flows[l] # None
      PROVE  /\ Lent(l)' = Lent(l) + (IF l = m THEN paid ELSE 0)
             /\ Volume(Repayments(l))' = Volume(Repayments(l)) + (IF l = m THEN 0 ELSE 0)
  <2>1. /\ Lent(l) \in Nat /\ Volume(Repayments(l)) \in Nat /\ repayLeft[l] \in Nat
        /\ orders[l].terms.repay \in Nat /\ orders[l].terms.amount \in Nat
        /\ Volume(Repayments(l)) = orders[l].terms.repay - repayLeft[l] /\ fundLeft[l] \in Nat
    BY <1>3, LoanAmounts
  <2>2. Lent(l)' = Lent(l) + (IF l = m THEN paid ELSE 0)
    BY <1>1, <1>2, <2>1 DEF Lent
  <2>3. Volume(Repayments(l))' \in Nat
        /\ Volume(Repayments(l))' + repayLeft[l] = orders[l].terms.repay
    BY <1>2, <1>3, NextVolume
  <2>4. QED
    BY <2>1, <2>2, <2>3
<1>4. /\ flows[m].from \in Accounts /\ flows[m].to \in Accounts /\ paid \in Nat
      /\ tokens[a] \in Nat
  BY <1>1 DEF Flow, IInv, TypeOK, AuxiliaryTypeOK
<1>5. tokens'[a] = tokens[a] - (IF flows[m].from = a THEN paid ELSE 0)
                             + (IF flows[m].to = a THEN paid ELSE 0)
  BY <1>2, <1>4, TransferMoves DEF IInv
<1>6. /\ m \in LoansBy(a) <=> flows[m].from = a
      /\ m \in LoansTo(a) <=> flows[m].to = a
  BY <1>1 DEF LoansBy, LoansTo
<1>7. tokens'[a] = tokens[a] - (IF m \in LoansBy(a) THEN paid ELSE 0)
                             + (IF m \in LoansTo(a) THEN paid ELSE 0)
                             - (IF m \in LoansTo(a) THEN 0 ELSE 0)
                             + (IF m \in LoansBy(a) THEN 0 ELSE 0)
  BY <1>4, <1>5, <1>6
<1>8. QED
  BY <1>2, <1>3, <1>4, <1>7, BalanceMoves

\* A repayment moves back what it adds to what is repaid.
LEMMA RepayBalance ==
    ASSUME IInv, RepaidIsPaid, FundLeftIsOfOrder, IInv', RepaidIsPaid', NEW m \in LoanIds,
           NEW amount \in Payments, RepayLoan(m, amount), UNCHANGED managerVars,
           NEW a \in Accounts, AccountBalances(a)
    PROVE  AccountBalances(a)'
<1> DEFINE paid == RepayPaid(m, amount)
<1>1. paid \in 0 .. repayLeft[m] /\ repayLeft[m] \in Nat /\ flows[m] \in Flow /\ flows[m] # None
  BY PaidType DEF IInv, TypeOK, AuxiliaryTypeOK, RepayLoan, CanRepayLoan, RepayableIsFunded
<1>2. /\ repayLeft'[m] = repayLeft[m] - paid /\ Transfer(flows[m].to, flows[m].from, paid)
      /\ \A l \in LoanIds : l # m => repayLeft'[l] = repayLeft[l]
      /\ UNCHANGED <<flows, fundLeft, orders>>
  BY DEF RepayLoan, managerVars, IInv, TypeOK, AuxiliaryTypeOK
<1> HIDE DEF paid
<1>3. ASSUME NEW l \in LoanIds, flows[l] # None
      PROVE  /\ Lent(l)' = Lent(l) + (IF l = m THEN 0 ELSE 0)
             /\ Volume(Repayments(l))' = Volume(Repayments(l)) + (IF l = m THEN paid ELSE 0)
  <2>1. /\ Lent(l) \in Nat /\ Volume(Repayments(l)) \in Nat /\ repayLeft[l] \in Nat
        /\ orders[l].terms.repay \in Nat
        /\ Volume(Repayments(l)) = orders[l].terms.repay - repayLeft[l]
    BY <1>3, LoanAmounts
  <2>2. Lent(l)' = Lent(l)
    BY <1>2 DEF Lent
  <2>3. Volume(Repayments(l))' \in Nat
        /\ Volume(Repayments(l))' + repayLeft'[l] = orders[l].terms.repay
    BY <1>2, <1>3, NextVolume
  <2>4. repayLeft'[l] = repayLeft[l] - (IF l = m THEN paid ELSE 0)
    BY <1>1, <1>2, <2>1
  <2>5. Volume(Repayments(l))' = Volume(Repayments(l)) + (IF l = m THEN paid ELSE 0)
    BY <1>1, <2>1, <2>3, <2>4
  <2>6. QED
    BY <2>1, <2>2, <2>5
<1>4. /\ flows[m].from \in Accounts /\ flows[m].to \in Accounts /\ paid \in Nat
      /\ tokens[a] \in Nat
  BY <1>1 DEF Flow, IInv, TypeOK, AuxiliaryTypeOK
<1>5. tokens'[a] = tokens[a] - (IF flows[m].to = a THEN paid ELSE 0)
                             + (IF flows[m].from = a THEN paid ELSE 0)
  BY <1>2, <1>4, TransferMoves DEF IInv
<1>6. /\ m \in LoansBy(a) <=> flows[m].from = a
      /\ m \in LoansTo(a) <=> flows[m].to = a
  BY <1>1 DEF LoansBy, LoansTo
<1>7. tokens'[a] = tokens[a] - (IF m \in LoansBy(a) THEN 0 ELSE 0)
                             + (IF m \in LoansTo(a) THEN 0 ELSE 0)
                             - (IF m \in LoansTo(a) THEN paid ELSE 0)
                             + (IF m \in LoansBy(a) THEN paid ELSE 0)
  BY <1>4, <1>5, <1>6
<1>8. QED
  BY <1>2, <1>3, <1>4, <1>7, BalanceMoves

\* The inductive invariant of the balances.
BalanceInv == FundLeftIsOfOrder /\ \A a \in Accounts : AccountBalances(a)

\* The terms of a loan with a flow are those that were signed, and do not change.
LEMMA TermsKept ==
    ASSUME IInv, [Next]_vars
    PROVE  \A l \in LoanIds : flows[l] # None =>
               orders'[l].terms = orders[l].terms /\ orders[l].terms.amount \in Nat
<1>1. SUFFICES ASSUME NEW l \in LoanIds, flows[l] # None
               PROVE  orders'[l].terms = orders[l].terms /\ orders[l].terms.amount \in Nat
  OBVIOUS
<1>2. l \in registeredLoans /\ orders[l].terms \in Offers /\ orders[l] \in Order
      /\ orders \in [LoanIds -> Order]
  BY <1>1 DEF IInv, FlowsFollowOrders, LoansAreNumbered, TypeOK
<1>3. orders'[l].terms = orders[l].terms
  <2>1. ASSUME NEW offer \in Offers, RegisterLoan(offer)
        PROVE  orders'[l] = orders[l]
    <3>1. nextLoanId \notin registeredLoans
      BY FS_CardinalityType DEF nextLoanId, IInv, LoansAreNumbered
    <3>2. QED
      BY <1>2, <2>1, <3>1 DEF RegisterLoan
  <2>2. ASSUME NEW q \in DOMAIN logs, MarkLoanAsFunded(q)
        PROVE  orders'[l].terms = orders[l].terms
    <3>1. orders' = [orders EXCEPT ![logs[q].loanId] =
                        [orders[logs[q].loanId] EXCEPT !.status = "Funded"]]
      BY <2>2 DEF MarkLoanAsFunded
    <3>2. [orders[l] EXCEPT !.status = "Funded"].terms = orders[l].terms
      BY <1>2 DEF Order
    <3>3. QED
      BY <1>2, <3>1, <3>2
  <2>3. ASSUME NEW q \in DOMAIN logs, NoteLoanRepayment(q)
        PROVE  orders'[l].terms = orders[l].terms
    <3> DEFINE m == logs[q].loanId
               repaid == orders[m].repaidAmount + logs[q].amount
               status == StatusAfter(m, repaid)
    <3>1. orders' = [orders EXCEPT ![m] = [orders[m] EXCEPT !.repaidAmount = repaid,
                                                            !.status = status]]
      BY <2>3 DEF NoteLoanRepayment
    <3> HIDE DEF m, repaid, status
    <3>2. [orders[l] EXCEPT !.repaidAmount = repaid, !.status = status].terms = orders[l].terms
      BY <1>2 DEF Order
    <3>3. QED
      BY <1>2, <3>1, <3>2
  <2>4. ASSUME NEW m \in LoanIds, MarkLoanAsExpired(m)
        PROVE  orders'[l].terms = orders[l].terms
    <3>1. orders' = [orders EXCEPT ![m] = [orders[m] EXCEPT !.status = "Expired"]]
      BY <2>4 DEF MarkLoanAsExpired
    <3>2. [orders[l] EXCEPT !.status = "Expired"].terms = orders[l].terms
      BY <1>2 DEF Order
    <3>3. QED
      BY <1>2, <3>1, <3>2
  <2>5. CASE RegisterSourceLoanContract(Auxiliary) \/ NextBlock \/ UNCHANGED orders
    BY <2>5 DEF RegisterSourceLoanContract, NextBlock
  <2>6. QED
    BY <2>1, <2>2, <2>3, <2>4, <2>5 DEF Next, ManagerStep, managerVars, vars
<1>4. QED
  BY <1>2, <1>3, ManagerAssumption

\* Only registration and funding set what is left to fund.
LEMMA FundLeftStep ==
    ASSUME IInv, FundLeftIsOfOrder, [Next]_vars
    PROVE  FundLeftIsOfOrder'
<1>1. ASSUME UNCHANGED <<flows, fundLeft>>,
             \A l \in LoanIds : flows[l] # None => orders'[l].terms = orders[l].terms
      PROVE  FundLeftIsOfOrder'
  BY <1>1 DEF FundLeftIsOfOrder
<1>2. \A l \in LoanIds : flows[l] # None =>
         orders'[l].terms = orders[l].terms /\ orders[l].terms.amount \in Nat
  BY TermsKept
<1>3. ASSUME NEW m \in LoanIds, WorkerRegisters(m), UNCHANGED managerVars
      PROVE  FundLeftIsOfOrder'
  <2>1. /\ fundLeft' = [fundLeft EXCEPT ![m] = orders[m].terms.amount]
        /\ flows' = [flows EXCEPT ![m] = [from |-> orders[m].terms.lender, to |-> orders[m].terms.borrower]]
        /\ UNCHANGED orders /\ m \in registeredLoans
    BY <1>3 DEF WorkerRegisters, RegisterLoanFund, managerVars, CanWorkerRegister
  <2>2. orders[m].terms.amount \in Nat
    BY <2>1, ManagerAssumption DEF IInv, LoansAreNumbered
  <2>3. QED
    BY <2>1, <2>2 DEF FundLeftIsOfOrder, IInv, TypeOK, AuxiliaryTypeOK
<1>4. ASSUME NEW m \in LoanIds, NEW amount \in Payments, FundLoan(m, amount), UNCHANGED managerVars
      PROVE  FundLeftIsOfOrder'
  <2> DEFINE paid == FundPaid(m, amount)
  <2>1. paid \in 0 .. fundLeft[m] /\ fundLeft \in [LoanIds -> Nat]
    BY PaidType DEF IInv, TypeOK, AuxiliaryTypeOK
  <2>2. fundLeft' = [fundLeft EXCEPT ![m] = fundLeft[m] - paid] /\ UNCHANGED <<flows, orders>>
    BY <1>4 DEF FundLoan, managerVars
  <2> HIDE DEF paid
  <2>3. \A l \in LoanIds : fundLeft'[l] \in Nat /\ fundLeft'[l] <= fundLeft[l]
    BY <2>1, <2>2
  <2>4. QED
    BY <1>2, <2>1, <2>2, <2>3 DEF FundLeftIsOfOrder
<1>5. CASE SourceStep /\ UNCHANGED managerVars
  <2>1. ASSUME \/ \E yes \in BOOLEAN : Authorize(yes)
               \/ \E l \in LoanIds, amount \in Payments : RepayLoan(l, amount)
               \/ \E l \in registeredLoans : ccBlock >= Deadline(l) /\ ExpireOnSource(l)
               \/ \E c \in Others, l \in LoanIds :
                     \/ OtherLog(c, "LoanFunded", l, 0)
                     \/ \E amount \in Payments : OtherLog(c, "LoanRepaid", l, amount)
               \/ AttestLog
        PROVE  UNCHANGED <<flows, fundLeft>>
    BY <2>1 DEF Authorize, RepayLoan, ExpireOnSource, OtherLog, AttestLog, flowVars
  <2>2. QED
    BY <1>1, <1>2, <1>3, <1>4, <1>5, <2>1 DEF SourceStep
<1>6. CASE (ManagerStep /\ UNCHANGED auxiliaryVars) \/ UNCHANGED vars
  BY <1>1, <1>2, <1>6 DEF auxiliaryVars, flowVars, vars
<1>7. QED
  BY <1>5, <1>6 DEF Next

\* Every step keeps the balances.
LEMMA BalanceStep ==
    IInv /\ IInv' /\ RepaidIsPaid /\ RepaidIsPaid' /\ BalanceInv /\ [Next]_vars => BalanceInv'
<1> SUFFICES ASSUME IInv, IInv', RepaidIsPaid, RepaidIsPaid', FundLeftIsOfOrder, [Next]_vars,
                    NEW a \in Accounts, AccountBalances(a)
             PROVE  AccountBalances(a)'
  BY FundLeftStep DEF BalanceInv
<1>1. ASSUME UNCHANGED <<flows, tokens, fundLeft, repayLeft>>
      PROVE  AccountBalances(a)'
  BY <1>1, TermsKept, BalanceKept
<1>2. CASE SourceStep /\ UNCHANGED managerVars
  <2>1. ASSUME \/ \E yes \in BOOLEAN : Authorize(yes)
               \/ \E l \in registeredLoans : ccBlock >= Deadline(l) /\ ExpireOnSource(l)
               \/ \E c \in Others, l \in LoanIds :
                     \/ OtherLog(c, "LoanFunded", l, 0)
                     \/ \E amount \in Payments : OtherLog(c, "LoanRepaid", l, amount)
               \/ AttestLog
        PROVE  UNCHANGED <<flows, tokens, fundLeft, repayLeft>>
    BY <2>1 DEF Authorize, ExpireOnSource, OtherLog, AttestLog, flowVars
  <2>2. QED
    BY <1>1, <1>2, <2>1, RegisterBalance, FundBalance, RepayBalance DEF SourceStep
<1>3. CASE (ManagerStep /\ UNCHANGED auxiliaryVars) \/ UNCHANGED vars
  BY <1>1, <1>3 DEF auxiliaryVars, flowVars, vars
<1>4. QED
  BY <1>2, <1>3 DEF Next

\* The accounts start with no loans.
LEMMA BalanceInit == Init => BalanceInv
<1> SUFFICES ASSUME Init
             PROVE  BalanceInv
  OBVIOUS
<1> USE DEF Init, AuxiliaryInit
<1>1. FundLeftIsOfOrder
  BY DEF FundLeftIsOfOrder
<1>2. ASSUME NEW a \in Accounts
      PROVE  AccountBalances(a)
  <2>1. LoansBy(a) = {} /\ LoansTo(a) = {}
    BY DEF LoansBy, LoansTo
  <2>2. AllLent({}) = 0 /\ AllRepaid({}) = 0
    BY SumOfNone DEF AllLent, AllRepaid
  <2>3. tokens[a] = InitialTokens /\ InitialTokens \in Nat
    BY AuxiliaryAssumption
  <2>4. QED
    BY <2>1, <2>2, <2>3 DEF AccountBalances
<1>3. QED
  BY <1>1, <1>2 DEF BalanceInv

-----------------------------------------------------------------------------
(* The theorems                                                            *)

\* The invariant holds throughout.
LEMMA ManagerInvariant == Spec => []IInv
  BY ManagerInit, ManagerInvariantStep, PTL DEF Spec

\* The state of both contracts always has its type: no allowance of the flow, no
\* balance and no amount left underflows, and every processed query is attested.
THEOREM ManagerTypeCorrect == Spec => []TypeOK
<1>1. IInv => TypeOK
  BY DEF IInv
<1>2. QED
  BY <1>1, ManagerInvariant, PTL

\* Whoever proves which logs, and when, Creditcoin calls a loan funded only if its
\* lender has paid the whole amount to its borrower on the source chain.
THEOREM FundedLoansAreLent == Spec => []FundedIsLent
  BY IInvLent, ManagerInvariant, PTL

\* A registered loan goes through its statuses in order and never leaves the final
\* ones, whatever proofs and expiries race.
THEOREM StatusesAdvance == Spec => StatusesMoveForward
<1>1. IInv /\ [Next]_vars
         => [\A l \in registeredLoans :
               orders'[l].status # orders[l].status
                  => orders'[l].status \in Later(orders[l].status)]_vars
  BY StatusesStep
<1>2. QED
  BY <1>1, ManagerInvariant, PTL DEF Spec, StatusesMoveForward

\* The amount Creditcoin says is repaid is the sum of the proved repayments, each
\* counted once, what has been paid and what is left make the debt, and a loan
\* that is called Repaid is paid in full.
THEOREM RepaidAmountsArePaid == Spec => []RepaidIsPaid
<1>1. Init => RepaidIsPaid
  BY DEF Init, RepaidIsPaid
<1>2. QED
  BY <1>1, PaidStep, ManagerInvariant, PTL DEF Spec

\* No token is made or lost by a loan: every account holds what it started with, what
\* it has borrowed and what it has been repaid, less what it has lent and repaid, and
\* nothing is repaid before all has been lent.
THEOREM TokensAreFollowed == Spec => []TokensFollowLoans
<1>1. Spec => []RepaidIsPaid
  BY RepaidAmountsArePaid
<1>2. Spec => []BalanceInv
  BY <1>1, BalanceInit, BalanceStep, ManagerInvariant, PTL DEF Spec
<1>3. IInv /\ BalanceInv => TokensFollowLoans
  BY DEF IInv, RepayableIsFunded, Repayments, BalanceInv, AccountBalances, TokensFollowLoans
<1>4. QED
  BY <1>2, <1>3, ManagerInvariant, PTL

=============================================================================
