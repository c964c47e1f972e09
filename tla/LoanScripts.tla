---------------------------- MODULE LoanScripts ----------------------------
(***************************************************************************)
(* The scripts a lender and a borrower run, fund_loan.ts and repay_loan.ts *)
(* with loan_proof.ts, over the two contracts of LoanManager: read the     *)
(* balance and the allowance, approve, pay on the source chain, wait for   *)
(* the proof of that transaction and submit it, at most three times.       *)
(*                                                                         *)
(* An action is the code from one await to the next.  Any number of runs   *)
(* may overlap, and any may be killed.  Transactions of one wallet are     *)
(* mined in the order they are sent.  The operator registers the funding,  *)
(* expires loans and may prove any log, as worker.ts does.                 *)
(***************************************************************************)
EXTENDS LoanManager

CONSTANTS
    Lender, Borrower,   \* the wallets of the environment
    MaxRuns,            \* bound: runs of a script
    OthersProve         \* bound: logs that the worker, or anybody, proves

ASSUME ScriptsAssumption == Lender \in Accounts /\ Borrower \in Accounts /\ Lender # Borrower

VARIABLES
    allowance,      \* allowance of the auxiliary contract, by wallet
    runs,           \* runs of the scripts, in the order they start
    onSource,       \* sent to the source chain and not mined, by wallet: [run, kind]
    onCreditcoin    \* proofs sent to Creditcoin and not mined: [run, attempt]

scriptVars == <<allowance, runs, onSource, onCreditcoin>>
systemVars == <<vars, scriptVars>>

Wallets == {Lender, Borrower}
Kinds == {"fund", "repay"}
maxAttempts == 3

\* Where a run is: which await it is in, or how it ended.
Ended == {"succeeded", "stopped", "failed"}
Tried == {"submit", "sent", "confirm"}      \* inside the try block of loan_proof.ts
Awaits == {"balance", "allowance", "approving", "paying", "mining", "verdict", "proof",
           "attempt", "caught"} \cup Tried

ScriptsInit ==
    /\ Init
    /\ allowance = [w \in Wallets |-> 0]
    /\ runs = <<>>
    /\ onSource = [w \in Wallets |-> <<>>]
    /\ onCreditcoin = <<>>

-----------------------------------------------------------------------------

Payer(kind) == IF kind = "fund" THEN Lender ELSE Borrower
Wallet(r) == Payer(runs[r].kind)
Status(r) == orders[runs[r].loan].status

RunAt(r, at) == r \in DOMAIN runs /\ runs[r].at = at
Goes(r, at) == runs' = [runs EXCEPT ![r].at = at]
Sends(r, kind) ==
    onSource' = [onSource EXCEPT ![Wallet(r)] = Append(@, [run |-> r, kind |-> kind])]

\* The run has a transaction of its wallet that is not mined yet.
Pending(r) == \E i \in DOMAIN onSource[Wallet(r)] : onSource[Wallet(r)][i].run = r

\* Run r leaves nothing behind that a later run of the wallet could meet.
Settled(r) == runs[r].at \in Ended /\ ~Pending(r)

\* main, up to its first await.  History: inTurn, no other run of this wallet has
\* overlapped with this one.
StartScript(kind, l, amount) ==
    LET own == {r \in DOMAIN runs : Wallet(r) = Payer(kind)}
        run == [kind |-> kind, loan |-> l, amount |-> amount, at |-> "balance", grant |-> 0,
                log |-> 0, attempt |-> 0, inTurn |-> \A r \in own : Settled(r)]
        disturbed == [r \in DOMAIN runs |->
                         IF r \in own THEN [runs[r] EXCEPT !.inTurn = @ /\ Settled(r)] ELSE runs[r]]
    IN  /\ Len(runs) < MaxRuns
        /\ amount > 0
        /\ runs' = Append(disturbed, run)
        /\ UNCHANGED <<vars, allowance, onSource, onCreditcoin>>

\* balanceOf; with too little the script ends before it has done anything.
ReadBalance(r) ==
    /\ RunAt(r, "balance")
    /\ Goes(r, IF tokens[Wallet(r)] < runs[r].amount THEN "stopped" ELSE "allowance")
    /\ UNCHANGED <<vars, allowance, onSource, onCreditcoin>>

\* What fund_loan.ts approves, and repay_loan.ts.
Grant(kind, amount, approved) == IF kind = "fund" THEN amount ELSE amount - approved

\* Mutant: the approval is not awaited.
PayAtOnce == "paying"

\* The script waits for the approval to be mined.
AwaitApproval == "approving"

ReadAllowance(r) ==
    LET run == runs[r]
        approved == allowance[Wallet(r)]
    IN  /\ RunAt(r, "allowance")
        /\ IF approved < run.amount
           THEN /\ runs' = [runs EXCEPT ![r].at = AwaitApproval,
                                        ![r].grant = Grant(run.kind, run.amount, approved)]
                /\ Sends(r, "approve")
           ELSE Goes(r, "paying") /\ UNCHANGED onSource
        /\ UNCHANGED <<vars, allowance, onCreditcoin>>

\* What the auxiliary contract and the token require of the payment.
CanPay(r) ==
    LET run == runs[r] IN
    /\ flows[run.loan] = [from |-> Lender, to |-> Borrower]
    /\ \/ /\ run.kind = "fund"
          /\ CanFundLoan(run.loan, run.amount)
          /\ allowance[Lender] >= FundPaid(run.loan, run.amount)
       \/ /\ run.kind = "repay"
          /\ CanRepayLoan(run.loan, run.amount)
          /\ allowance[Borrower] >= RepayPaid(run.loan, run.amount)

\* fundLoan or repayLoan, estimated before it is sent.
SendPayment(r) ==
    /\ RunAt(r, "paying")
    /\ \/ CanPay(r) /\ Goes(r, "mining") /\ Sends(r, "pay")
       \/ ~CanPay(r) /\ Goes(r, "failed") /\ UNCHANGED onSource
    /\ UNCHANGED <<vars, allowance, onCreditcoin>>

-----------------------------------------------------------------------------
(* loan_proof.ts                                                           *)

\* Nothing is left to prove.
Done(kind, status) == IF kind = "fund" THEN status # "Created" ELSE status = "Repaid"

NotRepayable(kind, status) == kind = "repay" /\ status \notin {"Funded", "PartlyRepaid", "Repaid"}

\* The status of the loan decides whether to go on.
Judge(r, next) ==
    CASE Done(runs[r].kind, Status(r)) -> Goes(r, "succeeded")
      [] NotRepayable(runs[r].kind, Status(r)) -> Goes(r, "failed")
      [] OTHER -> next

\* submitLoanProofAfterTx, up to generateProofFor.
ReadVerdict(r) ==
    /\ RunAt(r, "verdict")
    /\ Judge(r, Goes(r, "proof"))
    /\ UNCHANGED <<vars, allowance, onSource, onCreditcoin>>

\* generateProofFor returns: the block of the transaction is attested.  A payment
\* that leaves no log is provable like any other.
ProveRun(r) ==
    /\ RunAt(r, "proof")
    /\ runs[r].log <= attested
    /\ runs' = [runs EXCEPT ![r].at = "attempt", ![r].attempt = 1]
    /\ UNCHANGED <<vars, allowance, onSource, onCreditcoin>>

\* submitProofExecuteWithRetry: the status again, before each attempt.
Attempt(r) ==
    /\ RunAt(r, "attempt")
    /\ Judge(r, Goes(r, "submit"))
    /\ UNCHANGED <<vars, allowance, onSource, onCreditcoin>>

\* Sent even if the estimate says that it reverts: computeGasLimit swallows that.
SubmitProof(r) ==
    /\ RunAt(r, "submit")
    /\ Goes(r, "sent")
    /\ onCreditcoin' = Append(onCreditcoin, [run |-> r, attempt |-> runs[r].attempt])
    /\ UNCHANGED <<vars, allowance, onSource>>

\* After a repayment the order is read again, for the message.
Confirm(r) ==
    /\ RunAt(r, "confirm")
    /\ Goes(r, "succeeded")
    /\ UNCHANGED <<vars, allowance, onSource, onCreditcoin>>

\* Mutant: the attempts are not counted.
TryForever(attempt) == attempt

NextAttempt(attempt) == attempt + 1

\* A send, a wait or a read inside the try block fails.
TryFails(r) ==
    /\ \E at \in Tried : RunAt(r, at)
    /\ Goes(r, "caught")
    /\ UNCHANGED <<vars, allowance, onSource, onCreditcoin>>

\* Mutant: isFundedStatus for both kinds.
FundedAfterAll(kind, status) == status \in {"Funded", "PartlyRepaid"}

\* The status shows that the proof went through, by this attempt or otherwise.
ProvedAfterAll(kind, status) ==
    IF kind = "fund" THEN status \in {"Funded", "PartlyRepaid"} ELSE status = "Repaid"

\* The catch block: only the status tells whether it went through after all.
Catch(r) ==
    LET run == runs[r] IN
    /\ RunAt(r, "caught")
    /\ IF ProvedAfterAll(run.kind, Status(r)) THEN Goes(r, "succeeded")
       ELSE IF run.attempt = maxAttempts THEN Goes(r, "failed")
       ELSE runs' = [runs EXCEPT ![r].at = "attempt", ![r].attempt = NextAttempt(@)]
    /\ UNCHANGED <<vars, allowance, onSource, onCreditcoin>>

\* The process is killed, or an await outside of that block rejects: the proof
\* service has no proof, a wait times out, the node does not answer.
Die(r) ==
    /\ \E at \in Awaits : RunAt(r, at)
    /\ Goes(r, "failed")
    /\ UNCHANGED <<vars, allowance, onSource, onCreditcoin>>

RunStep(r) ==
    \/ ReadBalance(r) \/ ReadAllowance(r) \/ SendPayment(r)
    \/ ReadVerdict(r) \/ ProveRun(r) \/ Attempt(r) \/ SubmitProof(r) \/ Confirm(r)
    \/ TryFails(r) \/ Catch(r)

-----------------------------------------------------------------------------
(* The chains and everybody else.                                          *)

\* The run waits for the transaction that is mined, or has given up on it.
Informed(r, from, to) == [runs EXCEPT ![r].at = IF @ = from THEN to ELSE @]

Mined(w) == onSource' = [onSource EXCEPT ![w] = Tail(@)]

\* approve sets the allowance, it does not add to it.
MineApproval(w) ==
    LET tx == Head(onSource[w]) IN
    /\ onSource[w] # <<>> /\ tx.kind = "approve"
    /\ allowance' = [allowance EXCEPT ![w] = runs[tx.run].grant]
    /\ runs' = Informed(tx.run, "approving", "paying")
    /\ Mined(w)
    /\ UNCHANGED <<vars, onCreditcoin>>

\* The payment goes through; the script knows the log by its transaction.
MinePayment(w) ==
    LET r == Head(onSource[w]).run
        run == runs[r]
    IN  /\ onSource[w] # <<>> /\ Head(onSource[w]).kind = "pay"
        /\ CanPay(r)
        /\ \/ /\ run.kind = "fund"
              /\ FundLoan(run.loan, run.amount)
              /\ allowance' = [allowance EXCEPT ![w] = @ - FundPaid(run.loan, run.amount)]
           \/ /\ run.kind = "repay"
              /\ RepayLoan(run.loan, run.amount)
              /\ allowance' = [allowance EXCEPT ![w] = @ - RepayPaid(run.loan, run.amount)]
        /\ runs' = [Informed(r, "mining", "verdict") EXCEPT
                       ![r].log = IF Len(logs') > Len(logs) THEN Len(logs') ELSE 0]
        /\ Mined(w)
        /\ UNCHANGED <<managerVars, onCreditcoin>>

PaymentReverts(w) ==
    LET tx == Head(onSource[w]) IN
    /\ onSource[w] # <<>> /\ tx.kind = "pay"
    /\ ~CanPay(tx.run)
    /\ runs' = Informed(tx.run, "mining", "failed")
    /\ Mined(w)
    /\ UNCHANGED <<vars, allowance, onCreditcoin>>

\* The proof of the run's log executes; a transaction without a log never does.
CanExecute(r) ==
    IF runs[r].kind = "fund" THEN CanMarkLoanAsFunded(runs[r].log)
    ELSE CanNoteLoanRepayment(runs[r].log)

\* What the run learns of the proof it waits for.
Awaited(tx, at) ==
    [runs EXCEPT ![tx.run].at = IF @ = "sent" /\ runs[tx.run].attempt = tx.attempt THEN at ELSE @]

MineProof ==
    LET tx == Head(onCreditcoin)
        run == runs[tx.run]
    IN  /\ onCreditcoin # <<>>
        /\ onCreditcoin' = Tail(onCreditcoin)
        /\ \/ /\ CanExecute(tx.run) /\ run.kind = "fund"
              /\ MarkLoanAsFunded(run.log)
              /\ runs' = Awaited(tx, "succeeded")
           \/ /\ CanExecute(tx.run) /\ run.kind = "repay"
              /\ NoteLoanRepayment(run.log)
              /\ runs' = Awaited(tx, "confirm")
           \/ /\ ~CanExecute(tx.run)
              /\ UNCHANGED managerVars
              /\ runs' = Awaited(tx, "caught")
        /\ UNCHANGED <<auxiliaryVars, allowance, onSource>>

\* The token is authorized, the contract registered, and a loan registered on
\* both chains; then it may expire, and its logs may be proved by others.
OperatorStep ==
    \/ ~authorized /\ Authorize(TRUE) /\ UNCHANGED managerVars
    \/ authorized /\ sourceLoanContract = None
          /\ RegisterSourceLoanContract(Auxiliary) /\ UNCHANGED auxiliaryVars
    \/ sourceLoanContract # None
          /\ (\E offer \in Offers : RegisterLoan(offer)) /\ UNCHANGED auxiliaryVars
    \/ (\E l \in LoanIds : WorkerRegisters(l)) /\ UNCHANGED managerVars
    \/ (\E l \in registeredLoans : ccBlock >= Deadline(l) /\ ExpireOnSource(l))
          /\ UNCHANGED managerVars
    \/ /\ \/ \E l \in registeredLoans : MarkLoanAsExpired(l)
          \/ \E q \in DOMAIN logs \cap OthersProve : MarkLoanAsFunded(q) \/ NoteLoanRepayment(q)
          \/ NextBlock
       /\ UNCHANGED auxiliaryVars

AttestSource == AttestLog /\ UNCHANGED managerVars

MineFor(w) == MineApproval(w) \/ MinePayment(w) \/ PaymentReverts(w)

ScriptsNext ==
    \/ \E kind \in Kinds, l \in registeredLoans, amount \in Payments : StartScript(kind, l, amount)
    \/ \E r \in DOMAIN runs : RunStep(r) \/ Die(r)
    \/ \E w \in Wallets : MineFor(w)
    \/ MineProof
    \/ (OperatorStep \/ AttestSource) /\ UNCHANGED scriptVars

ScriptsSpec == ScriptsInit /\ [][ScriptsNext]_systemVars

\* A run that is not killed goes on, what is sent is mined, and the source chain
\* is attested.
FairScripts ==
    /\ ScriptsSpec
    /\ \A r \in 1 .. MaxRuns : WF_systemVars(RunStep(r))
    /\ \A w \in Wallets : WF_systemVars(MineFor(w))
    /\ WF_systemVars(MineProof)
    /\ WF_systemVars(AttestSource /\ UNCHANGED scriptVars)

-----------------------------------------------------------------------------

Run == [kind : Kinds, loan : LoanIds, amount : Payments, at : Awaits \cup Ended, grant : Int,
        log : Nat, attempt : Nat, inTurn : BOOLEAN]

\* The state of the scripts has its type; what is sent is of a run.
ScriptsTypeOK ==
    /\ allowance \in [Wallets -> Int]
    /\ runs \in Seq(Run)
    /\ onSource \in [Wallets -> Seq([run : DOMAIN runs, kind : {"approve", "pay"}])]
    /\ onCreditcoin \in Seq([run : DOMAIN runs, attempt : Nat])

\* Exit code 0 of fund_loan is true: the loan has left Created.
FundSuccessIsTrue ==
    \A r \in DOMAIN runs :
        RunAt(r, "succeeded") /\ runs[r].kind = "fund" => Status(r) # "Created"

\* Exit code 0 of repay_loan is true: this very repayment counts on Creditcoin.
RepaySuccessIsTrue ==
    \A r \in DOMAIN runs :
        RunAt(r, "succeeded") /\ runs[r].kind = "repay" => runs[r].log \in processedQueries

\* Exit code 0 after a payment is true, however the proof got there: by this run,
\* by an attempt it has given up on, by another run or by the worker.
SuccessIsTrue == FundSuccessIsTrue /\ RepaySuccessIsTrue

\* A payment that is about to be sent, or has been sent, by a run that no other
\* run of the wallet overlaps, is covered by the balance and the allowance.
Covered(kind) ==
    \A r \in DOMAIN runs :
        /\ runs[r].kind = kind /\ runs[r].inTurn
        /\ runs[r].at \in {"paying", "mining"}
        => /\ tokens[Wallet(r)] >= runs[r].amount
           /\ allowance[Wallet(r)] >= runs[r].amount

\* Fundings made one after the other do not collide: "Without this the script
\* exits while the tx is still pending ... and the two fundings would collide".
FundingIsCovered == Covered("fund")

\* The same of repayments, which repay_loan.ts says in the same words; it
\* approves what is missing, and approve does not add to what is there.
RepaymentIsCovered == Covered("repay")

\* Every run ends, whatever fails: three attempts are the most.
ScriptsEnd ==
    \A r \in 1 .. MaxRuns : r \in DOMAIN runs ~> \E at \in Ended : RunAt(r, at)

=============================================================================
