------------------------- MODULE LoanClientsProofs -------------------------
(***************************************************************************)
(* Proofs about the programs that drive the loan contracts.  The scripts   *)
(* of lenders and borrowers, for any number of overlapping runs, loans,    *)
(* payments and proofs by others, and the worker of the operator, for any  *)
(* number of loans, payments, logs and blocks, do to the contracts only    *)
(* what LoanManager allows, so what is proved about the contracts holds    *)
(* when they, their failures and their retries drive them.  And what they  *)
(* believe is true: the successes the scripts report, and the repayments   *)
(* the worker counts, each once, from events that may come again.          *)
(***************************************************************************)
EXTENDS LoanScripts, LoanWorker, LoanManagerProofs, SequenceTheorems

-----------------------------------------------------------------------------
(* The scripts                                                             *)

SourceTx == [run : DOMAIN runs, kind : {"approve", "pay"}]
ProofTx == [run : DOMAIN runs, attempt : Nat]

\* What is mined is of a run.
LEMMA MinedType ==
    ASSUME ScriptsTypeOK
    PROVE  /\ \A w \in Wallets : onSource[w] # <<>> =>
                 /\ Head(onSource[w]).run \in DOMAIN runs
                 /\ Tail(onSource[w]) \in Seq(SourceTx)
           /\ onCreditcoin # <<>> => Head(onCreditcoin).run \in DOMAIN runs /\ Tail(onCreditcoin) \in Seq(ProofTx)
           /\ \A r \in DOMAIN runs : runs[r] \in Run /\ runs[r].loan \in LoanIds
                                     /\ runs[r].amount \in Payments
<1>1. /\ \A w \in Wallets : onSource[w] \in Seq(SourceTx)
      /\ onCreditcoin \in Seq(ProofTx)
  BY DEF ScriptsTypeOK, SourceTx, ProofTx
<1>2. \A w \in Wallets : onSource[w] # <<>> =>
         Head(onSource[w]) \in SourceTx /\ Tail(onSource[w]) \in Seq(SourceTx)
  BY <1>1, HeadTailProperties
<1>3. onCreditcoin # <<>> => Head(onCreditcoin) \in ProofTx /\ Tail(onCreditcoin) \in Seq(ProofTx)
  BY <1>1, HeadTailProperties
<1>4. \A r \in DOMAIN runs : runs[r] \in Run
  BY DEF ScriptsTypeOK
<1>5. QED
  BY <1>2, <1>3, <1>4 DEF SourceTx, ProofTx, Run

\* Every step of the scripts, of the chains they use and of the operator is a step
\* of the two contracts, or leaves them alone.
LEMMA ScriptsUseTheContracts ==
    ASSUME IInv, ScriptsTypeOK, [ScriptsNext]_systemVars
    PROVE  [Next]_vars
<1>1. CASE UNCHANGED vars
  BY <1>1
<1>2. ASSUME NEW w \in Wallets, MinePayment(w)
      PROVE  [Next]_vars
  <2> DEFINE r == Head(onSource[w]).run
  <2>1. runs[r].loan \in LoanIds /\ runs[r].amount \in Payments
    BY <1>2, MinedType DEF MinePayment
  <2>2. /\ \/ FundLoan(runs[r].loan, runs[r].amount)
           \/ RepayLoan(runs[r].loan, runs[r].amount)
        /\ UNCHANGED managerVars
    BY <1>2 DEF MinePayment
  <2> HIDE DEF r
  <2>3. SourceStep
    BY <2>1, <2>2 DEF SourceStep
  <2>4. QED
    BY <2>2, <2>3 DEF Next
<1>3. ASSUME NEW q, MarkLoanAsFunded(q) \/ NoteLoanRepayment(q), UNCHANGED auxiliaryVars
      PROVE  [Next]_vars
  <2>1. q \in 1 .. attested
    BY <1>3 DEF MarkLoanAsFunded, CanMarkLoanAsFunded, NoteLoanRepayment, CanNoteLoanRepayment,
                Provable
  <2>2. q \in DOMAIN logs
    BY <2>1 DEF IInv, TypeOK, AuxiliaryTypeOK
  <2>3. QED
    BY <1>3, <2>2 DEF Next, ManagerStep
<1>4. CASE MineProof
  <2>1. CASE UNCHANGED managerVars
    BY <1>4, <2>1 DEF MineProof, vars
  <2>2. QED
    BY <1>3, <1>4, <2>1 DEF MineProof
<1>5. CASE OperatorStep
  <2>1. registeredLoans \subseteq LoanIds
    BY DEF IInv, TypeOK
  <2>2. QED
    BY <1>3, <1>5, <2>1 DEF OperatorStep, Next, SourceStep, ManagerStep
<1>6. CASE AttestSource
  BY <1>6 DEF AttestSource, Next, SourceStep
<1>7. CASE \E w \in Wallets : MineApproval(w) \/ PaymentReverts(w)
  BY <1>1, <1>7 DEF MineApproval, PaymentReverts
<1>8. CASE \/ \E kind \in Kinds, l \in registeredLoans, amount \in Payments :
                 StartScript(kind, l, amount)
           \/ \E r \in DOMAIN runs : RunStep(r) \/ Die(r)
  BY <1>1, <1>8
     DEF StartScript, RunStep, ReadBalance, ReadAllowance, SendPayment, ReadVerdict, ProveRun,
         Attempt, SubmitProof, Confirm, TryFails, Catch, Die
<1>9. QED
  BY <1>1, <1>2, <1>4, <1>5, <1>6, <1>7, <1>8 DEF ScriptsNext, MineFor, systemVars

-----------------------------------------------------------------------------
(* The type of the scripts' state                                          *)

\* A run that goes on is a run.
LEMMA RunType ==
    ASSUME NEW run \in Run, NEW at \in Awaits \cup Ended
    PROVE  /\ [run EXCEPT !.at = at] \in Run
           /\ \A g \in Int : [run EXCEPT !.at = at, !.grant = g] \in Run
           /\ \A n \in Nat : [run EXCEPT !.at = at, !.attempt = n] \in Run
  BY DEF Run

\* One run of them goes on.
LEMMA OneRunType ==
    ASSUME ScriptsTypeOK, NEW r \in DOMAIN runs, NEW run \in Run,
           runs' = [runs EXCEPT ![r] = run]
    PROVE  runs' \in Seq(Run) /\ DOMAIN runs' = DOMAIN runs
<1>1. runs \in Seq(Run) /\ r \in 1 .. Len(runs)
  BY DEF ScriptsTypeOK
<1>2. QED
  BY <1>1, ExceptSeq

\* The types hold again if those of what has changed do.
LEMMA SameRuns ==
    ASSUME ScriptsTypeOK, runs' \in Seq(Run), DOMAIN runs' = DOMAIN runs,
           allowance' \in [Wallets -> Int],
           onSource' \in [Wallets -> Seq(SourceTx)], onCreditcoin' \in Seq(ProofTx)
    PROVE  ScriptsTypeOK'
  BY DEF ScriptsTypeOK, SourceTx, ProofTx

\* A run of its own only.
LEMMA GoesType ==
    ASSUME ScriptsTypeOK, NEW r \in DOMAIN runs, NEW at \in Awaits \cup Ended, Goes(r, at)
    PROVE  runs' \in Seq(Run) /\ DOMAIN runs' = DOMAIN runs
<1>1. runs[r] \in Run
  BY MinedType
<1>2. runs' = [runs EXCEPT ![r] = [runs[r] EXCEPT !.at = at]]
  BY DEF Goes
<1>3. [runs[r] EXCEPT !.at = at] \in Run
  BY <1>1, RunType
<1>4. QED
  BY <1>2, <1>3, OneRunType

\* And nothing else changes.
LEMMA GoesAloneType ==
    ASSUME ScriptsTypeOK, NEW r \in DOMAIN runs, NEW at \in Awaits \cup Ended, Goes(r, at),
           UNCHANGED <<allowance, onSource, onCreditcoin>>
    PROVE  ScriptsTypeOK'
  BY GoesType, SameRuns DEF ScriptsTypeOK, SourceTx, ProofTx

\* What a run sends has its type.
LEMMA SendsType ==
    ASSUME ScriptsTypeOK, NEW r \in DOMAIN runs, NEW kind \in {"approve", "pay"}, Sends(r, kind)
    PROVE  onSource' \in [Wallets -> Seq(SourceTx)]
<1>1. [run |-> r, kind |-> kind] \in SourceTx
  BY DEF SourceTx
<1>2. Wallet(r) \in Wallets
  BY DEF Wallet, Payer, Wallets
<1>3. onSource \in [Wallets -> Seq(SourceTx)]
  BY DEF ScriptsTypeOK, SourceTx
<1>4. Append(onSource[Wallet(r)], [run |-> r, kind |-> kind]) \in Seq(SourceTx)
  BY <1>1, <1>2, <1>3
<1>5. QED
  BY <1>2, <1>3, <1>4 DEF Sends

\* What is left when a transaction is mined has its type.
LEMMA MinedOnSourceType ==
    ASSUME ScriptsTypeOK, NEW w \in Wallets, onSource[w] # <<>>, Mined(w)
    PROVE  onSource' \in [Wallets -> Seq(SourceTx)]
<1>1. onSource \in [Wallets -> Seq(SourceTx)] /\ Tail(onSource[w]) \in Seq(SourceTx)
  BY MinedType DEF ScriptsTypeOK, SourceTx
<1>2. QED
  BY <1>1 DEF Mined

\* A run that is told of its transaction.
LEMMA InformedType ==
    ASSUME ScriptsTypeOK, NEW r \in DOMAIN runs, NEW n \in Nat,
           NEW from, NEW to \in Awaits \cup Ended
    PROVE  /\ Informed(r, from, to) \in Seq(Run)
           /\ [Informed(r, from, to) EXCEPT ![r].log = n] \in Seq(Run)
           /\ DOMAIN Informed(r, from, to) = DOMAIN runs
<1> DEFINE at == IF runs[r].at = from THEN to ELSE runs[r].at
<1>1. runs \in Seq(Run) /\ r \in 1 .. Len(runs) /\ runs[r] \in Run
  BY DEF ScriptsTypeOK
<1>2. at \in Awaits \cup Ended
  BY <1>1 DEF Run
<1>3. Informed(r, from, to) = [runs EXCEPT ![r] = [runs[r] EXCEPT !.at = at]]
  BY <1>1 DEF Informed, Run
<1> HIDE DEF at
<1>4. [runs[r] EXCEPT !.at = at] \in Run
  BY <1>1, <1>2, RunType
<1>5. Informed(r, from, to) \in Seq(Run) /\ DOMAIN Informed(r, from, to) = DOMAIN runs
  BY <1>1, <1>3, <1>4, ExceptSeq
<1>6. ASSUME NEW rs \in Seq(Run), r \in DOMAIN rs
      PROVE  [rs EXCEPT ![r].log = n] \in Seq(Run)
  <2>1. rs[r] \in Run /\ r \in 1 .. Len(rs)
    BY <1>6
  <2>2. [rs[r] EXCEPT !.log = n] \in Run
    BY <2>1 DEF Run
  <2>3. [rs EXCEPT ![r].log = n] = [rs EXCEPT ![r] = [rs[r] EXCEPT !.log = n]]
    BY <2>1
  <2>4. QED
    BY <2>1, <2>2, <2>3, ExceptSeq
<1>7. QED
  BY <1>5, <1>6

\* Sequences over a set are sequences over a larger one.
LEMMA SeqGrows ==
    ASSUME NEW S, NEW T, S \subseteq T
    PROVE  Seq(S) \subseteq Seq(T)
  BY SeqWider

\* A new run leaves the others typed, overlapped or not.
LEMMA StartType ==
    ASSUME TypeOK, ScriptsTypeOK, NEW kind \in Kinds, NEW l \in registeredLoans,
           NEW amount \in Payments, StartScript(kind, l, amount)
    PROVE  ScriptsTypeOK'
<1> DEFINE own == {r \in DOMAIN runs : Wallet(r) = Payer(kind)}
           turn == \A r \in own : Settled(r)
           run == [kind |-> kind, loan |-> l, amount |-> amount, at |-> "balance", grant |-> 0,
                   log |-> 0, attempt |-> 0, inTurn |-> turn]
           others == [r \in DOMAIN runs |->
               IF r \in own THEN [runs[r] EXCEPT !.inTurn = @ /\ Settled(r)] ELSE runs[r]]
<1>1. runs' = Append(others, run) /\ UNCHANGED <<allowance, onSource, onCreditcoin>>
  BY DEF StartScript
<1>2. DOMAIN runs = 1 .. Len(runs) /\ Len(runs) \in Nat /\ \A r \in DOMAIN runs : runs[r] \in Run
  BY DEF ScriptsTypeOK
<1>3. ASSUME NEW r \in DOMAIN runs
      PROVE  others[r] \in Run
  <2> DEFINE b == runs[r].inTurn /\ Settled(r)
  <2>1. others[r] = IF r \in own THEN [runs[r] EXCEPT !.inTurn = b] ELSE runs[r]
    OBVIOUS
  <2>2. b \in BOOLEAN
    OBVIOUS
  <2>3. runs[r] \in Run
    BY <1>2
  <2> HIDE DEF b, own, others
  <2>4. [runs[r] EXCEPT !.inTurn = b] \in Run
    BY <2>2, <2>3 DEF Run
  <2>5. QED
    BY <2>1, <2>3, <2>4
<1>4. others \in Seq(Run) /\ DOMAIN others = DOMAIN runs
  <2>1. others \in [1 .. Len(runs) -> Run]
    BY <1>2, <1>3
  <2> HIDE DEF others
  <2>2. QED
    BY <1>2, <2>1
<1>5. run \in Run
  <2>1. turn \in BOOLEAN
    OBVIOUS
  <2>2. l \in LoanIds
    BY DEF TypeOK
  <2> HIDE DEF turn
  <2>3. QED
    BY <2>1, <2>2 DEF Run, Awaits
<1> HIDE DEF others, run
<1>6. runs' \in Seq(Run) /\ DOMAIN runs \subseteq DOMAIN runs'
  BY <1>1, <1>2, <1>4, <1>5
<1>7. \A w \in Wallets : onSource'[w] \in Seq([run : DOMAIN runs', kind : {"approve", "pay"}])
  <2>1. \A w \in Wallets : onSource'[w] \in Seq(SourceTx)
    BY <1>1 DEF ScriptsTypeOK, SourceTx
  <2>2. SourceTx \subseteq [run : DOMAIN runs', kind : {"approve", "pay"}]
    BY <1>6 DEF SourceTx
  <2>3. Seq(SourceTx) \subseteq Seq([run : DOMAIN runs', kind : {"approve", "pay"}])
    BY <2>2, SeqGrows
  <2>4. QED
    BY <2>1, <2>3
<1>8. onCreditcoin' \in Seq([run : DOMAIN runs', attempt : Nat])
  <2>1. onCreditcoin' \in Seq(ProofTx)
    BY <1>1 DEF ScriptsTypeOK, ProofTx
  <2>2. ProofTx \subseteq [run : DOMAIN runs', attempt : Nat]
    BY <1>6 DEF ProofTx
  <2>3. Seq(ProofTx) \subseteq Seq([run : DOMAIN runs', attempt : Nat])
    BY <2>2, SeqGrows
  <2>4. QED
    BY <2>1, <2>3
<1>9. QED
  BY <1>1, <1>6, <1>7, <1>8 DEF ScriptsTypeOK

\* Every step keeps the types.
LEMMA ScriptsTypeStep ==
    ASSUME IInv, ScriptsTypeOK, [ScriptsNext]_systemVars
    PROVE  ScriptsTypeOK'
<1> USE DEF Awaits, Ended, Tried
<1>1. CASE UNCHANGED scriptVars
  BY <1>1 DEF ScriptsTypeOK, scriptVars
<1>2. ASSUME NEW r \in DOMAIN runs, Attempt(r) \/ ReadVerdict(r)
      PROVE  ScriptsTypeOK'
  BY <1>2, GoesAloneType DEF Attempt, ReadVerdict, Judge
<1>3. ASSUME NEW r \in DOMAIN runs, ReadBalance(r) \/ Confirm(r) \/ TryFails(r) \/ Die(r)
      PROVE  ScriptsTypeOK'
  BY <1>3, GoesAloneType DEF ReadBalance, Confirm, TryFails, Die
<1>4. ASSUME NEW r \in DOMAIN runs, ReadAllowance(r)
      PROVE  ScriptsTypeOK'
  <2>1. CASE Goes(r, "paying") /\ UNCHANGED onSource
    BY <1>4, <2>1, GoesAloneType DEF ReadAllowance
  <2>2. ASSUME NEW g \in Int, Sends(r, "approve"),
               runs' = [runs EXCEPT ![r].at = AwaitApproval, ![r].grant = g]
        PROVE  ScriptsTypeOK'
    <3>1. runs[r] \in Run
      BY MinedType
    <3>2. [runs[r] EXCEPT !.at = AwaitApproval, !.grant = g] \in Run
      BY <3>1, RunType DEF AwaitApproval
    <3>3. runs' \in Seq(Run) /\ DOMAIN runs' = DOMAIN runs
      BY <2>2, <3>1, <3>2, OneRunType
    <3>4. onSource' \in [Wallets -> Seq(SourceTx)]
      BY <2>2, SendsType
    <3>5. QED
      BY <1>4, <3>3, <3>4, SameRuns DEF ReadAllowance, ScriptsTypeOK, ProofTx
  <2>3. Grant(runs[r].kind, runs[r].amount, allowance[Wallet(r)]) \in Int
    <3>1. runs[r].amount \in Payments
      BY MinedType
    <3>2. runs[r].amount \in Int
      BY <3>1, ManagerAssumption
    <3>3. Wallet(r) \in Wallets
      BY DEF Wallet, Payer, Wallets
    <3>4. allowance[Wallet(r)] \in Int
      BY <3>3 DEF ScriptsTypeOK
    <3>5. QED
      BY <3>2, <3>4 DEF Grant
  <2>4. QED
    BY <1>4, <2>1, <2>2, <2>3 DEF ReadAllowance
<1>5. ASSUME NEW r \in DOMAIN runs, SendPayment(r)
      PROVE  ScriptsTypeOK'
  <2>1. CASE Goes(r, "failed") /\ UNCHANGED onSource
    BY <1>5, <2>1, GoesAloneType DEF SendPayment
  <2>2. CASE Goes(r, "mining") /\ Sends(r, "pay")
    BY <1>5, <2>2, GoesType, SendsType, SameRuns DEF SendPayment, ScriptsTypeOK, ProofTx
  <2>3. QED
    BY <1>5, <2>1, <2>2 DEF SendPayment
<1>6. ASSUME NEW r \in DOMAIN runs, NEW n \in Nat, UNCHANGED <<allowance, onSource, onCreditcoin>>,
             runs' = [runs EXCEPT ![r].at = "attempt", ![r].attempt = n]
      PROVE  ScriptsTypeOK'
  <2>1. runs[r] \in Run
    BY MinedType
  <2>2. [runs[r] EXCEPT !.at = "attempt", !.attempt = n] \in Run
    BY <2>1, RunType
  <2>3. runs' \in Seq(Run) /\ DOMAIN runs' = DOMAIN runs
    BY <1>6, <2>1, <2>2, OneRunType
  <2>4. QED
    BY <1>6, <2>3, SameRuns DEF ScriptsTypeOK, SourceTx, ProofTx
<1>7. ASSUME NEW r \in DOMAIN runs, ProveRun(r)
      PROVE  ScriptsTypeOK'
  BY <1>6, <1>7 DEF ProveRun
<1>8. ASSUME NEW r \in DOMAIN runs, Catch(r)
      PROVE  ScriptsTypeOK'
  <2>1. runs[r].attempt + 1 \in Nat
    BY MinedType DEF Run
  <2>2. CASE \E at \in {"succeeded", "failed"} : Goes(r, at)
    BY <1>8, <2>2, GoesAloneType DEF Catch
  <2>3. CASE runs' = [runs EXCEPT ![r].at = "attempt", ![r].attempt = runs[r].attempt + 1]
    BY <1>6, <1>8, <2>1, <2>3 DEF Catch
  <2>4. QED
    BY <1>8, <2>2, <2>3 DEF Catch, NextAttempt
<1>9. ASSUME NEW r \in DOMAIN runs, SubmitProof(r)
      PROVE  ScriptsTypeOK'
  <2>1. [run |-> r, attempt |-> runs[r].attempt] \in ProofTx
    BY MinedType DEF Run, ProofTx
  <2>2. onCreditcoin' \in Seq(ProofTx)
    BY <1>9, <2>1 DEF SubmitProof, ScriptsTypeOK, ProofTx
  <2>3. QED
    BY <1>9, <2>2, GoesType, SameRuns DEF SubmitProof, ScriptsTypeOK, SourceTx
<1>10. ASSUME NEW w \in Wallets, MineApproval(w)
       PROVE  ScriptsTypeOK'
  <2> DEFINE r == Head(onSource[w]).run
  <2>1. r \in DOMAIN runs /\ runs[r] \in Run
    BY <1>10, MinedType DEF MineApproval
  <2>2. runs[r].grant \in Int
    BY <2>1 DEF Run
  <2>3. /\ runs' = Informed(r, "approving", "paying")
        /\ allowance' = [allowance EXCEPT ![w] = runs[r].grant]
        /\ onSource[w] # <<>> /\ Mined(w) /\ UNCHANGED onCreditcoin
    BY <1>10 DEF MineApproval
  <2> HIDE DEF r
  <2>4. runs' \in Seq(Run) /\ DOMAIN runs' = DOMAIN runs
    BY <2>1, <2>3, InformedType
  <2>5. allowance' \in [Wallets -> Int]
    BY <2>2, <2>3 DEF ScriptsTypeOK
  <2>6. onSource' \in [Wallets -> Seq(SourceTx)]
    BY <2>3, MinedOnSourceType
  <2>7. QED
    BY <2>3, <2>4, <2>5, <2>6, SameRuns DEF ScriptsTypeOK, ProofTx
<1>11. ASSUME NEW w \in Wallets, PaymentReverts(w)
       PROVE  ScriptsTypeOK'
  <2> DEFINE r == Head(onSource[w]).run
  <2>1. r \in DOMAIN runs
    BY <1>11, MinedType DEF PaymentReverts
  <2>2. /\ runs' = Informed(r, "mining", "failed")
        /\ onSource[w] # <<>> /\ Mined(w) /\ UNCHANGED <<allowance, onCreditcoin>>
    BY <1>11 DEF PaymentReverts
  <2> HIDE DEF r
  <2>3. runs' \in Seq(Run) /\ DOMAIN runs' = DOMAIN runs
    BY <2>1, <2>2, InformedType
  <2>4. onSource' \in [Wallets -> Seq(SourceTx)]
    BY <2>2, MinedOnSourceType
  <2>5. QED
    BY <2>2, <2>3, <2>4, SameRuns DEF ScriptsTypeOK, ProofTx
<1>12. ASSUME NEW w \in Wallets, MinePayment(w)
       PROVE  ScriptsTypeOK'
  <2> DEFINE r == Head(onSource[w]).run
             n == IF Len(logs') > Len(logs) THEN Len(logs') ELSE 0
  <2>1. r \in DOMAIN runs /\ runs[r].loan \in LoanIds /\ runs[r].amount \in Payments
    BY <1>12, MinedType DEF MinePayment
  <2>2. /\ runs' = [Informed(r, "mining", "verdict") EXCEPT ![r].log = n]
        /\ onSource[w] # <<>> /\ Mined(w) /\ UNCHANGED onCreditcoin
    BY <1>12 DEF MinePayment
  <2>3. n \in Nat
    <3>1. [Next]_vars
      BY <1>12, ScriptsUseTheContracts DEF ScriptsNext, MineFor
    <3>2. IInv'
      BY <3>1, ManagerInvariantStep
    <3>3. QED
      BY <3>2 DEF IInv, TypeOK, AuxiliaryTypeOK
  <2>4. allowance' \in [Wallets -> Int]
    <3>1. /\ FundPaid(runs[r].loan, runs[r].amount) \in Int
          /\ RepayPaid(runs[r].loan, runs[r].amount) \in Int
      BY <2>1, PaidType DEF IInv, TypeOK, AuxiliaryTypeOK
    <3>2. QED
      BY <1>12, <3>1 DEF MinePayment, ScriptsTypeOK
  <2> HIDE DEF r, n
  <2>5. runs' \in Seq(Run) /\ DOMAIN runs' = DOMAIN runs
    BY <2>1, <2>2, <2>3, InformedType
  <2>6. onSource' \in [Wallets -> Seq(SourceTx)]
    BY <2>2, MinedOnSourceType
  <2>7. QED
    BY <2>2, <2>4, <2>5, <2>6, SameRuns DEF ScriptsTypeOK, ProofTx
<1>13. CASE MineProof
  <2> DEFINE r == Head(onCreditcoin).run
  <2>1. r \in DOMAIN runs /\ runs[r] \in Run /\ Tail(onCreditcoin) \in Seq(ProofTx)
    BY <1>13, MinedType DEF MineProof
  <2>2. PICK at \in {runs[r].at, "succeeded", "confirm", "caught"} :
           runs' = [runs EXCEPT ![r].at = at]
    BY <1>13, <2>1 DEF MineProof, Awaited
  <2>3. at \in Awaits \cup Ended
    BY <2>1 DEF Run
  <2> HIDE DEF r
  <2>4. runs' \in Seq(Run) /\ DOMAIN runs' = DOMAIN runs
    BY <2>1, <2>2, <2>3, GoesType DEF Goes
  <2>5. QED
    BY <1>13, <2>1, <2>4, SameRuns DEF MineProof, ScriptsTypeOK, SourceTx
<1>14. QED
  BY <1>1, <1>2, <1>3, <1>4, <1>5, <1>7, <1>8, <1>9, <1>10, <1>11, <1>12, <1>13, StartType
     DEF ScriptsNext, RunStep, MineFor, IInv, systemVars

-----------------------------------------------------------------------------
(* What fund_loan reports                                                  *)

\* A run is about a registered loan, and the log of a funding is of that loan.
LogsAreOwn ==
    \A r \in DOMAIN runs :
        /\ runs[r].loan \in registeredLoans
        /\ runs[r].kind = "fund" /\ runs[r].log # 0 =>
              runs[r].log \in DOMAIN logs /\ logs[runs[r].log].loanId = runs[r].loan
        /\ runs[r].at = "confirm" => runs[r].kind = "repay"

\* The inductive invariant.
ScriptsInv == IInv /\ ScriptsTypeOK /\ LogsAreOwn /\ FundSuccessIsTrue

\* It holds before any script is started.
LEMMA ScriptsInitInv == ScriptsInit => ScriptsInv
<1> SUFFICES ASSUME ScriptsInit
             PROVE  ScriptsInv
  OBVIOUS
<1>1. IInv
  BY ManagerInit DEF ScriptsInit
<1>2. ScriptsTypeOK
  BY DEF ScriptsInit, ScriptsTypeOK
<1>3. LogsAreOwn /\ FundSuccessIsTrue
  BY DEF ScriptsInit, LogsAreOwn, FundSuccessIsTrue, RunAt
<1>4. QED
  BY <1>1, <1>2, <1>3 DEF ScriptsInv

\* What a step of the contracts keeps: logs, loans, and that a loan has been funded.
LEMMA ContractsKeep ==
    ASSUME IInv, [Next]_vars
    PROVE  /\ registeredLoans \subseteq registeredLoans'
           /\ DOMAIN logs \subseteq DOMAIN logs'
           /\ \A q \in DOMAIN logs : logs'[q] = logs[q]
           /\ \A l \in registeredLoans :
                 orders[l].status # "Created" => orders'[l].status # "Created"
<1>1. registeredLoans \subseteq registeredLoans'
  BY DEF Next, ManagerStep, RegisterLoan, RegisterSourceLoanContract, MarkLoanAsFunded,
         NoteLoanRepayment, MarkLoanAsExpired, NextBlock, vars, managerVars
<1>2. logs' = logs \/ \E log : logs' = Append(logs, log)
  BY DEF Next, SourceStep, Authorize, WorkerRegisters, RegisterLoanFund, FundLoan, RepayLoan,
         ExpireOnSource, OtherLog, AttestLog, vars, auxiliaryVars, flowVars
<1>3. DOMAIN logs \subseteq DOMAIN logs' /\ \A q \in DOMAIN logs : logs'[q] = logs[q]
  <2>1. logs \in Seq(LoanLog)
    BY DEF IInv, TypeOK, AuxiliaryTypeOK
  <2>2. QED
    BY <1>2, <2>1
<1>4. \A l \in registeredLoans :
         orders[l].status # "Created" => orders'[l].status # "Created"
  BY StatusesStep DEF Later
<1>5. QED
  BY <1>1, <1>3, <1>4

\* A step in which runs keep what they are about, and a funding succeeds only if the
\* loan has been funded, keeps the invariant.
LEMMA RunsGoOn ==
    ASSUME ScriptsInv, [Next]_vars, IInv', ScriptsTypeOK', DOMAIN runs' = DOMAIN runs,
           \A r \in DOMAIN runs :
               /\ runs'[r].loan = runs[r].loan /\ runs'[r].kind = runs[r].kind
               /\ runs'[r].log = runs[r].log
               /\ runs'[r].at = "confirm" => runs[r].at = "confirm" \/ runs[r].kind = "repay"
               /\ runs'[r].at = "succeeded" /\ runs[r].kind = "fund" =>
                     runs[r].at = "succeeded" \/ orders'[runs[r].loan].status # "Created"
    PROVE  ScriptsInv'
<1>1. LogsAreOwn'
  BY ContractsKeep DEF ScriptsInv, LogsAreOwn
<1>2. FundSuccessIsTrue'
  BY ContractsKeep DEF ScriptsInv, LogsAreOwn, FundSuccessIsTrue, RunAt, Status
<1>3. QED
  BY <1>1, <1>2 DEF ScriptsInv

\* One run goes on, to success only if it may.
LEMMA OneRunGoesOn ==
    ASSUME ScriptsInv, [Next]_vars, IInv', ScriptsTypeOK', NEW r \in DOMAIN runs, NEW at,
           DOMAIN runs' = DOMAIN runs,
           \A s \in DOMAIN runs \ {r} : runs'[s] = runs[s],
           runs'[r].loan = runs[r].loan, runs'[r].kind = runs[r].kind,
           runs'[r].log = runs[r].log, runs'[r].at = at,
           at = "confirm" => runs[r].at = "confirm" \/ runs[r].kind = "repay",
           at = "succeeded" /\ runs[r].kind = "fund" =>
               runs[r].at = "succeeded" \/ orders'[runs[r].loan].status # "Created"
    PROVE  ScriptsInv'
  BY RunsGoOn

\* A run that goes on is about what it was.
LEMMA RunGoes ==
    ASSUME ScriptsTypeOK, NEW r \in DOMAIN runs, NEW at,
           Goes(r, at)
    PROVE  /\ DOMAIN runs' = DOMAIN runs
           /\ \A s \in DOMAIN runs \ {r} : runs'[s] = runs[s]
           /\ runs'[r].loan = runs[r].loan /\ runs'[r].kind = runs[r].kind
           /\ runs'[r].log = runs[r].log /\ runs'[r].at = at
<1>1. runs[r] \in Run
  BY DEF ScriptsTypeOK
<1>2. QED
  BY <1>1 DEF Run, Goes

\* Every step keeps the invariant.
LEMMA ScriptsStep ==
    ASSUME ScriptsInv, [ScriptsNext]_systemVars
    PROVE  ScriptsInv'
<1>1. [Next]_vars /\ IInv' /\ ScriptsTypeOK'
  BY ScriptsUseTheContracts, ManagerInvariantStep, ScriptsTypeStep DEF ScriptsInv
<1>2. runs \in Seq(Run) /\ \A r \in DOMAIN runs : runs[r] \in Run
  BY DEF ScriptsInv, ScriptsTypeOK
<1>3. CASE UNCHANGED runs
  BY <1>1, <1>3, RunsGoOn
<1>4. ASSUME NEW r \in DOMAIN runs, NEW at, Goes(r, at),
             at = "confirm" => runs[r].at = "confirm" \/ runs[r].kind = "repay",
             at = "succeeded" /\ runs[r].kind = "fund" =>
                 runs[r].at = "succeeded" \/ orders'[runs[r].loan].status # "Created"
      PROVE  ScriptsInv'
  <2>1. /\ DOMAIN runs' = DOMAIN runs
        /\ \A s \in DOMAIN runs \ {r} : runs'[s] = runs[s]
        /\ runs'[r].loan = runs[r].loan /\ runs'[r].kind = runs[r].kind
        /\ runs'[r].log = runs[r].log /\ runs'[r].at = at
    BY <1>4, RunGoes DEF ScriptsInv
  <2>2. QED
    BY <1>1, <1>4, <2>1, OneRunGoesOn
<1>5. ASSUME NEW r \in DOMAIN runs, NEW at \in {"attempt", "approving"}, NEW n,
              \/ runs' = [runs EXCEPT ![r].at = at, ![r].attempt = n]
              \/ runs' = [runs EXCEPT ![r].at = at, ![r].grant = n]
       PROVE  ScriptsInv'
  <2>1. /\ DOMAIN runs' = DOMAIN runs
        /\ \A s \in DOMAIN runs \ {r} : runs'[s] = runs[s]
        /\ runs'[r].loan = runs[r].loan /\ runs'[r].kind = runs[r].kind
        /\ runs'[r].log = runs[r].log /\ runs'[r].at = at
    <3>1. runs[r] \in Run
      BY <1>2
    <3>2. QED
      BY <1>5, <3>1 DEF Run
  <2>2. QED
    BY <1>1, <2>1, OneRunGoesOn
<1>6. ASSUME NEW r \in DOMAIN runs, NEW at \in (Awaits \cup Ended) \ {"confirm", "succeeded"},
             Goes(r, at)
      PROVE  ScriptsInv'
  BY <1>4, <1>6
<1>7. ASSUME NEW r \in DOMAIN runs, RunStep(r) \/ Die(r)
      PROVE  ScriptsInv'
  <2> USE DEF Awaits, Ended, Tried
  <2>1. CASE ReadBalance(r) \/ SendPayment(r) \/ SubmitProof(r) \/ TryFails(r) \/ Die(r)
    BY <1>6, <2>1 DEF ReadBalance, SendPayment, SubmitProof, TryFails, Die
  <2>2. CASE ReadAllowance(r)
    <3>1. CASE Goes(r, "paying")
      BY <1>6, <3>1
    <3>2. CASE \E n : runs' = [runs EXCEPT ![r].at = AwaitApproval, ![r].grant = n]
      BY <1>5, <3>2 DEF AwaitApproval
    <3>3. QED
      BY <2>2, <3>1, <3>2 DEF ReadAllowance
  <2>3. CASE ReadVerdict(r) \/ Attempt(r)
    <3>1. UNCHANGED orders
      BY <2>3 DEF ReadVerdict, Attempt, vars, managerVars
    <3>2. CASE Goes(r, "succeeded") /\ Done(runs[r].kind, Status(r))
      BY <1>4, <3>1, <3>2 DEF Done, Status
    <3>3. CASE \E at \in {"failed", "proof", "submit"} : Goes(r, at)
      BY <1>6, <3>3
    <3>4. QED
      BY <2>3, <3>2, <3>3 DEF ReadVerdict, Attempt, Judge
  <2>4. CASE ProveRun(r)
    BY <1>5, <2>4 DEF ProveRun
  <2>5. CASE Confirm(r)
    <3>1. runs[r].kind = "repay"
      BY <2>5 DEF Confirm, RunAt, ScriptsInv, LogsAreOwn
    <3>2. QED
      BY <1>4, <2>5, <3>1 DEF Confirm
  <2>6. CASE Catch(r)
    <3>1. UNCHANGED orders
      BY <2>6 DEF Catch, vars, managerVars
    <3>2. CASE Goes(r, "succeeded") /\ ProvedAfterAll(runs[r].kind, Status(r))
      BY <1>4, <3>1, <3>2 DEF ProvedAfterAll, Status
    <3>3. CASE Goes(r, "failed")
      BY <1>6, <3>3
    <3>4. CASE \E n : runs' = [runs EXCEPT ![r].at = "attempt", ![r].attempt = n]
      BY <1>5, <3>4
    <3>5. QED
      BY <2>6, <3>2, <3>3, <3>4 DEF Catch
  <2>7. QED
    BY <1>7, <2>1, <2>2, <2>3, <2>4, <2>5, <2>6 DEF RunStep
<1>8. ASSUME NEW kind \in Kinds, NEW l \in registeredLoans, NEW amount \in Payments,
             StartScript(kind, l, amount)
      PROVE  ScriptsInv'
  <2> DEFINE new == Len(runs) + 1
  <2>1. UNCHANGED vars
    BY <1>8 DEF StartScript
  <2>2. /\ DOMAIN runs' = DOMAIN runs \cup {new} /\ new \notin DOMAIN runs
        /\ runs'[new].loan = l /\ runs'[new].at = "balance" /\ runs'[new].log = 0
        /\ \A r \in DOMAIN runs :
              /\ runs'[r].loan = runs[r].loan /\ runs'[r].kind = runs[r].kind
              /\ runs'[r].log = runs[r].log /\ runs'[r].at = runs[r].at
    BY <1>2, <1>8 DEF StartScript, Run
  <2> HIDE DEF new
  <2>3. LogsAreOwn'
    BY <2>1, <2>2 DEF ScriptsInv, LogsAreOwn, vars, auxiliaryVars, managerVars
  <2>4. FundSuccessIsTrue'
    BY <2>1, <2>2 DEF ScriptsInv, FundSuccessIsTrue, RunAt, Status, vars, managerVars
  <2>5. QED
    BY <1>1, <2>3, <2>4 DEF ScriptsInv
<1>9. ASSUME NEW w \in Wallets, MineFor(w)
      PROVE  ScriptsInv'
  <2> DEFINE r == Head(onSource[w]).run
  <2>1. onSource[w] # <<>> /\ r \in DOMAIN runs
    BY <1>9, MinedType DEF MineFor, MineApproval, MinePayment, PaymentReverts, ScriptsInv
  <2>2. ASSUME NEW from, NEW to \in {"paying", "failed"}, runs' = Informed(r, from, to)
        PROVE  ScriptsInv'
    <3> DEFINE at == IF runs[r].at = from THEN to ELSE runs[r].at
    <3>1. runs' = [runs EXCEPT ![r].at = at]
      BY <2>1, <2>2 DEF Informed
    <3>2. at \in {runs[r].at, "paying", "failed"}
      OBVIOUS
    <3> HIDE DEF at, r
    <3>3. /\ at = "confirm" => runs[r].at = "confirm"
          /\ at = "succeeded" => runs[r].at = "succeeded"
      BY <3>2
    <3>4. QED
      BY <1>4, <2>1, <3>1, <3>3 DEF Goes
  <2>3. CASE MineApproval(w) \/ PaymentReverts(w)
    BY <2>2, <2>3 DEF MineApproval, PaymentReverts
  <2>4. CASE MinePayment(w)
    <3> DEFINE n == IF Len(logs') > Len(logs) THEN Len(logs') ELSE 0
               informed == Informed(r, "mining", "verdict")
    <3>1. /\ runs' = [informed EXCEPT ![r].log = n]
          /\ runs[r].kind = "fund" => FundLoan(runs[r].loan, runs[r].amount)
      BY <2>4 DEF MinePayment
    <3>2. runs[r].kind = "fund" /\ n # 0 => n \in DOMAIN logs' /\ logs'[n].loanId = runs[r].loan
      <4>1. logs \in Seq(LoanLog)
        BY DEF ScriptsInv, IInv, TypeOK, AuxiliaryTypeOK
      <4>2. CASE runs[r].kind = "fund" /\ n # 0
        <5> DEFINE l == runs[r].loan
        <5>1. FundLoan(l, runs[r].amount)
          BY <3>1, <4>2
        <5>2. logs' = Append(logs, Log(Auxiliary, "LoanFunded", l, 0)) \/ logs' = logs
          BY <5>1 DEF FundLoan
        <5>3. logs' = Append(logs, Log(Auxiliary, "LoanFunded", l, 0))
          BY <4>2, <5>2
        <5> HIDE DEF l
        <5>4. Len(logs') = Len(logs) + 1 /\ logs'[Len(logs) + 1].loanId = l /\ DOMAIN logs' = 1 .. Len(logs')
          BY <4>1, <5>3 DEF Log
        <5>5. QED
          BY <4>1, <5>4 DEF l
      <4>3. QED
        BY <4>2
    <3> HIDE DEF n, r
    <3>3. /\ DOMAIN runs' = DOMAIN runs
          /\ \A s \in DOMAIN runs \ {r} : runs'[s] = runs[s]
          /\ runs'[r].loan = runs[r].loan /\ runs'[r].kind = runs[r].kind /\ runs'[r].log = n
          /\ runs'[r].at \in {runs[r].at, "verdict"}
      <4>1. runs[r] \in Run /\ r \in DOMAIN runs
        BY <1>2, <2>1
      <4>2. /\ DOMAIN informed = DOMAIN runs
            /\ \A s \in DOMAIN runs \ {r} : informed[s] = runs[s]
            /\ informed[r].loan = runs[r].loan /\ informed[r].kind = runs[r].kind
            /\ informed[r].at \in {runs[r].at, "verdict"}
            /\ \E at : informed[r] = [runs[r] EXCEPT !.at = at]
        BY <4>1 DEF Informed, Run
      <4>3. runs' = [informed EXCEPT ![r] = [informed[r] EXCEPT !.log = n]]
        BY <3>1
      <4> HIDE DEF informed
      <4>4. runs'[r] = [informed[r] EXCEPT !.log = n]
        BY <4>1, <4>2, <4>3
      <4>5. /\ runs'[r].loan = informed[r].loan /\ runs'[r].kind = informed[r].kind
            /\ runs'[r].log = n /\ runs'[r].at = informed[r].at
        BY <4>1, <4>2, <4>4 DEF Run
      <4>6. QED
        BY <4>1, <4>2, <4>3, <4>5
    <3>4. LogsAreOwn'
      BY <1>1, <3>2, <3>3, ContractsKeep DEF ScriptsInv, LogsAreOwn
    <3>5. FundSuccessIsTrue'
      BY <1>1, <3>3, ContractsKeep DEF ScriptsInv, LogsAreOwn, FundSuccessIsTrue, RunAt, Status
    <3>6. QED
      BY <1>1, <3>4, <3>5 DEF ScriptsInv
  <2>5. QED
    BY <1>9, <2>3, <2>4 DEF MineFor
<1>10. CASE MineProof
  <2> DEFINE r == Head(onCreditcoin).run
  <2>1. onCreditcoin # <<>> /\ r \in DOMAIN runs
    BY <1>10, MinedType DEF MineProof, ScriptsInv
  <2>2. PICK at \in {runs[r].at, "succeeded", "confirm", "caught"} :
           /\ Goes(r, at)
           /\ at = "confirm" => runs[r].at = "confirm" \/ runs[r].kind = "repay"
           /\ at = "succeeded" =>
                 \/ runs[r].at = "succeeded"
                 \/ runs[r].kind = "fund" /\ MarkLoanAsFunded(runs[r].log)
    BY <1>10, <2>1 DEF MineProof, Awaited, Goes
  <2> HIDE DEF r
  <2>3. runs[r].kind = "fund" /\ MarkLoanAsFunded(runs[r].log)
           => orders'[runs[r].loan].status # "Created"
    <3> DEFINE q == runs[r].log
    <3>1. SUFFICES ASSUME runs[r].kind = "fund", MarkLoanAsFunded(q)
                   PROVE  orders'[runs[r].loan].status # "Created"
      OBVIOUS
    <3>2. q # 0
      BY <3>1 DEF MarkLoanAsFunded, CanMarkLoanAsFunded, Provable, ScriptsInv, IInv, TypeOK,
                  AuxiliaryTypeOK
    <3>3. logs[q].loanId = runs[r].loan /\ runs[r].loan \in registeredLoans
      BY <2>1, <3>1, <3>2 DEF ScriptsInv, LogsAreOwn
    <3>4. runs[r].loan \in LoanIds /\ orders \in [LoanIds -> Order]
      BY <3>3 DEF ScriptsInv, IInv, TypeOK
    <3>5. orders' = [orders EXCEPT ![runs[r].loan] = [orders[runs[r].loan] EXCEPT !.status = "Funded"]]
      BY <3>1, <3>3 DEF MarkLoanAsFunded
    <3>6. orders'[runs[r].loan].status = "Funded"
      <4>1. orders'[runs[r].loan] = [orders[runs[r].loan] EXCEPT !.status = "Funded"]
        BY <3>4, <3>5
      <4>2. orders[runs[r].loan] \in Order
        BY <3>4
      <4>3. QED
        BY <4>1, <4>2 DEF Order
    <3>7. QED
      BY <3>6
  <2>4. QED
    BY <1>4, <2>1, <2>2, <2>3
<1>11. QED
  BY <1>3, <1>7, <1>8, <1>9, <1>10 DEF ScriptsNext, systemVars, scriptVars

-----------------------------------------------------------------------------
(* The theorems                                                            *)

\* The invariant holds throughout.
LEMMA ScriptsInvariant == ScriptsSpec => []ScriptsInv
  BY ScriptsInitInv, ScriptsStep, PTL DEF ScriptsSpec

\* Whatever runs overlap, are killed or send twice, the scripts do to the contracts
\* only what LoanManager allows, so that its theorems hold of them.
THEOREM ScriptsUseLoanManager == ScriptsSpec => Spec
<1>1. ScriptsInit => Init
  BY DEF ScriptsInit
<1>2. ScriptsInv /\ [ScriptsNext]_systemVars => [Next]_vars
  BY ScriptsUseTheContracts DEF ScriptsInv
<1>3. QED
  BY <1>1, <1>2, ScriptsInvariant, PTL DEF ScriptsSpec, Spec

\* Exit code 0 of fund_loan is true, also when the proof that went through was of
\* another run, of an attempt given up on, or of the worker.
THEOREM FundingSuccessIsTrue == ScriptsSpec => []FundSuccessIsTrue
<1>1. ScriptsInv => FundSuccessIsTrue
  BY DEF ScriptsInv
<1>2. QED
  BY <1>1, ScriptsInvariant, PTL

-----------------------------------------------------------------------------
(* Runs in turn, and what repay_loan reports                               *)

\* Where a run is whose payment has been mined.
Paid == {"verdict", "proof", "attempt", "caught", "succeeded"} \cup Tried

\* Where a run is whose payment is sent and not mined, as far as it knows.
Paying == {"mining", "failed"}

\* What is sent from a wallet is of its runs: a payment of a run that waits for it or
\* has failed, or an approval, which for a funding is of its amount.
IsSentBy(tx, rs, w) ==
    /\ tx.run \in DOMAIN rs /\ Payer(rs[tx.run].kind) = w
    /\ tx.kind = "pay" => rs[tx.run].at \in Paying
    /\ tx.kind = "approve" /\ rs[tx.run].kind = "fund" => rs[tx.run].grant = rs[tx.run].amount

\* No payment is sent twice.
PaysOnce(queue) ==
    \A i, j \in DOMAIN queue : queue[i].kind = "pay" /\ queue[j] = queue[i] => j = i

QueueIsOf(queue, rs, w) ==
    /\ \A i \in DOMAIN queue : IsSentBy(queue[i], rs, w)
    /\ PaysOnce(queue)

SourceQueues == \A w \in Wallets : QueueIsOf(onSource[w], runs, w)

\* While a run goes on that no other has overlapped, the others leave nothing behind.
TurnsAreAlone ==
    \A r \in DOMAIN runs : runs[r].inTurn =>
        Settled(r) \/ \A s \in DOMAIN runs \ {r} : Wallet(s) = Wallet(r) => Settled(s)

\* What a funding in turn has read of the balance and the allowance still holds.
FundsAreThere ==
    \A r \in DOMAIN runs : runs[r].kind = "fund" /\ runs[r].inTurn =>
        /\ runs[r].at \in {"allowance", "approving", "paying", "mining"} =>
              tokens[Lender] >= runs[r].amount
        /\ runs[r].at \in {"paying", "mining"} => allowance[Lender] >= runs[r].amount

\* The log is of a repayment of this loan, of some tokens.
IsRepayment(q, l) ==
    /\ q \in DOMAIN logs
    /\ logs[q].contract = Auxiliary /\ logs[q].event = "LoanRepaid" /\ logs[q].loanId = l
    /\ logs[q].amount > 0

\* A repayment that has been mined is in the log of its run, and has been proved if
\* the run says so.
RepaymentsAreLogged ==
    \A r \in DOMAIN runs : runs[r].kind = "repay" =>
        /\ runs[r].at \in Paid => IsRepayment(runs[r].log, runs[r].loan)
        /\ runs[r].at \in {"confirm", "succeeded"} => runs[r].log \in processedQueries

\* The invariant, on top of ScriptsInv.
TurnsInv == SourceQueues /\ TurnsAreAlone /\ FundsAreThere /\ RepaymentsAreLogged

\* Run r is there in both, and is about the same thing.
SameRun(r, rs, after) ==
    /\ r \in DOMAIN after /\ after[r].kind = rs[r].kind /\ after[r].loan = rs[r].loan
    /\ after[r].amount = rs[r].amount

\* The queues of the next state are right if they are of its runs.
LEMMA QueuesNext ==
    ASSUME \A w \in Wallets : QueueIsOf(onSource'[w], runs', w)
    PROVE  SourceQueues'
BY DEF SourceQueues, QueueIsOf, IsSentBy, PaysOnce

\* A queue that nothing happens to.
LEMMA QueueKept ==
    ASSUME NEW w, NEW queue, NEW rs, NEW after, QueueIsOf(queue, rs, w),
           \A r \in DOMAIN rs :
               /\ SameRun(r, rs, after) /\ after[r].grant = rs[r].grant
               /\ Payer(rs[r].kind) = w /\ rs[r].at \in Paying => after[r].at \in Paying
    PROVE  QueueIsOf(queue, after, w)
BY DEF QueueIsOf, IsSentBy, SameRun

\* The first of a queue is mined; its run may go on when that was its payment.
LEMMA QueueTail ==
    ASSUME NEW w, NEW rs, NEW after, NEW queue \in Seq([run : DOMAIN rs, kind : {"approve", "pay"}]),
           QueueIsOf(queue, rs, w), queue # <<>>,
           \A r \in DOMAIN rs :
               /\ SameRun(r, rs, after) /\ after[r].grant = rs[r].grant
               /\ rs[r].at \in Paying =>
                     after[r].at \in Paying \/ Head(queue) = [run |-> r, kind |-> "pay"]
    PROVE  QueueIsOf(Tail(queue), after, w)
<1> DEFINE rest == Tail(queue)
<1>1. Len(queue) \in Nat /\ DOMAIN queue = 1 .. Len(queue) /\ Len(queue) # 0
  BY LenProperties, EmptySeq
<1>2. /\ DOMAIN rest = 1 .. Len(queue) - 1
      /\ \A i \in 1 .. Len(queue) - 1 : rest[i] = queue[i + 1]
  <2>1. /\ Len(rest) = Len(queue) - 1 /\ rest \in Seq([run : DOMAIN rs, kind : {"approve", "pay"}])
        /\ \A i \in 1 .. Len(queue) - 1 : rest[i] = queue[i + 1]
    BY <1>1, HeadTailProperties
  <2> HIDE DEF rest
  <2>2. QED
    BY <2>1, LenProperties
<1>3. Head(queue) = queue[1]
  OBVIOUS
<1> HIDE DEF rest
<1>4. ASSUME NEW i \in DOMAIN rest
      PROVE  IsSentBy(rest[i], after, w)
  <2>1. rest[i] = queue[i + 1] /\ i + 1 \in DOMAIN queue /\ 1 \in DOMAIN queue /\ i + 1 # 1
    BY <1>1, <1>2
  <2>2. queue[i + 1] \in [run : DOMAIN rs, kind : {"approve", "pay"}] /\ IsSentBy(queue[i + 1], rs, w)
    BY <2>1, <1>1, ElementOfSeq DEF QueueIsOf
  <2>3. PICK r \in DOMAIN rs, kind \in {"approve", "pay"} : queue[i + 1] = [run |-> r, kind |-> kind]
    BY <2>2
  <2>4. kind = "pay" => after[r].at \in Paying
    <3>1. SUFFICES ASSUME kind = "pay" PROVE after[r].at \in Paying
      OBVIOUS
    <3>2. queue[1] # queue[i + 1]
      BY <2>1, <2>3, <3>1 DEF QueueIsOf, PaysOnce
    <3>3. rs[r].at \in Paying
      BY <2>2, <2>3, <3>1 DEF IsSentBy
    <3>4. QED
      BY <1>3, <2>3, <3>1, <3>2, <3>3
  <2>5. QED
    BY <2>1, <2>2, <2>3, <2>4 DEF IsSentBy, SameRun
<1>5. PaysOnce(rest)
  <2> SUFFICES ASSUME NEW i \in DOMAIN rest, NEW j \in DOMAIN rest, rest[i].kind = "pay",
                      rest[j] = rest[i]
               PROVE  j = i
    BY DEF PaysOnce
  <2>1. /\ i + 1 \in DOMAIN queue /\ j + 1 \in DOMAIN queue /\ i \in Nat /\ j \in Nat
        /\ rest[i] = queue[i + 1] /\ rest[j] = queue[j + 1]
    BY <1>1, <1>2
  <2>2. j + 1 = i + 1
    BY <2>1 DEF QueueIsOf, PaysOnce
  <2>3. QED
    BY <2>1, <2>2
<1>6. QED
  BY <1>4, <1>5 DEF QueueIsOf, rest

\* A run sends, a payment only if none of its own is there.
LEMMA QueueAppend ==
    ASSUME NEW w, NEW rs, NEW after, NEW queue \in Seq([run : DOMAIN rs, kind : {"approve", "pay"}]),
           QueueIsOf(queue, rs, w), NEW r \in DOMAIN rs, Payer(rs[r].kind) = w,
           rs[r].at \notin Paying,
           \A s \in DOMAIN rs : SameRun(s, rs, after) /\ (s # r => after[s] = rs[s]),
           NEW kind \in {"approve", "pay"},
           kind = "pay" => after[r].at \in Paying /\ after[r].grant = rs[r].grant,
           kind = "approve" /\ rs[r].kind = "fund" => after[r].grant = after[r].amount
    PROVE  QueueIsOf(Append(queue, [run |-> r, kind |-> kind]), after, w)
<1> DEFINE tx == [run |-> r, kind |-> kind]
           more == Append(queue, tx)
           n == Len(queue)
<1>1. /\ n \in Nat /\ DOMAIN queue = 1 .. n /\ DOMAIN more = 1 .. n + 1
      /\ \A i \in 1 .. n : more[i] = queue[i]
      /\ more[n + 1] = tx
  <2>1. tx \in [run : DOMAIN rs, kind : {"approve", "pay"}]
    OBVIOUS
  <2> HIDE DEF tx
  <2>2. QED
    BY <2>1, AppendProperties, LenProperties
<1>2. tx.run = r /\ tx.kind = kind
  OBVIOUS
<1> HIDE DEF more, n, tx
<1>3. \A i \in 1 .. n + 1 : i = n + 1 \/ i \in 1 .. n
  BY <1>1
<1>4. IsSentBy(tx, after, w)
  BY <1>2 DEF IsSentBy, SameRun
<1>5. ASSUME NEW i \in 1 .. n
      PROVE  /\ IsSentBy(queue[i], after, w)
             /\ queue[i].kind = "pay" => queue[i] # tx
  <2>1. IsSentBy(queue[i], rs, w)
    BY <1>1 DEF QueueIsOf
  <2>2. CASE queue[i].run # r
    BY <1>2, <2>1, <2>2 DEF IsSentBy, SameRun
  <2>3. CASE queue[i].run = r
    <3>1. queue[i].kind # "pay"
      BY <2>1, <2>3 DEF IsSentBy
    <3>2. queue[i].kind = "approve" /\ rs[r].kind = "fund" => after[r].grant = after[r].amount
      BY <2>1, <2>3 DEF IsSentBy, SameRun
    <3>3. QED
      BY <2>3, <3>1, <3>2 DEF IsSentBy, SameRun
  <2>4. QED
    BY <2>2, <2>3
<1>6. PaysOnce(more)
  BY <1>1, <1>3, <1>5 DEF QueueIsOf, PaysOnce
<1>7. QED
  BY <1>1, <1>3, <1>4, <1>5, <1>6 DEF QueueIsOf, more, tx

\* A step after which the runs are about the same things, and no other run has started.
RunsStay ==
    /\ DOMAIN runs' = DOMAIN runs
    /\ \A r \in DOMAIN runs : SameRun(r, runs, runs') /\ runs'[r].inTurn = runs[r].inTurn

\* A run that has left nothing behind does not come back, when only runs that go on send.
LEMMA SettledStays ==
    ASSUME RunsStay, NEW r \in DOMAIN runs, Settled(r), runs'[r].at \in Ended,
           \A i \in DOMAIN onSource'[Wallet(r)] :
               onSource'[Wallet(r)][i].run = r =>
                   \E j \in DOMAIN onSource[Wallet(r)] : onSource[Wallet(r)][j].run = r
    PROVE  Settled(r)'
<1>1. Wallet(r)' = Wallet(r)
  BY DEF Wallet, RunsStay, SameRun
<1>2. QED
  BY <1>1 DEF Settled, Pending

\* Then turns are kept.
LEMMA TurnsKept ==
    ASSUME TurnsAreAlone, RunsStay,
           \A r \in DOMAIN runs : Settled(r) => Settled(r)'
    PROVE  TurnsAreAlone'
<1>1. \A r \in DOMAIN runs : Wallet(r)' = Wallet(r)
  BY DEF Wallet, RunsStay, SameRun
<1>2. QED
  BY <1>1 DEF TurnsAreAlone, RunsStay

\* The wallets are two, and a funding is of the lender's.
LEMMA WalletOf ==
    ASSUME ScriptsTypeOK, NEW r \in DOMAIN runs
    PROVE  /\ Wallet(r) \in Wallets
           /\ Wallet(r) = Lender <=> runs[r].kind = "fund"
           /\ Wallet(r) = Borrower <=> runs[r].kind = "repay"
           /\ onSource[Wallet(r)] \in Seq(SourceTx)
<1>1. runs[r].kind \in {"fund", "repay"}
  BY MinedType DEF Run, Kinds
<1>2. QED
  BY <1>1, ScriptsAssumption DEF Wallet, Payer, Wallets, ScriptsTypeOK, SourceTx

\* What has been logged and proved stays so.
LEMMA LoggedStays ==
    ASSUME IInv, [Next]_vars
    PROVE  /\ processedQueries \subseteq processedQueries'
           /\ \A q \in DOMAIN logs : q \in DOMAIN logs' /\ logs'[q] = logs[q]
<1>1. processedQueries \subseteq processedQueries'
  BY DEF Next, ManagerStep, RegisterLoan, RegisterSourceLoanContract, MarkLoanAsFunded,
         NoteLoanRepayment, MarkLoanAsExpired, NextBlock, vars, managerVars
<1>2. QED
  BY <1>1, ContractsKeep

\* A loan is repaid in full only when every repayment of it has been proved.
LEMMA RepaidIsProved ==
    ASSUME IInv, RepaidIsPaid, NEW l \in registeredLoans, orders[l].status = "Repaid",
           NEW q, IsRepayment(q, l)
    PROVE  q \in processedQueries
<1> DEFINE all == Repayments(l)
           proved == all \cap processedQueries
<1>1. l \in LoanIds /\ TypeOK
  BY DEF IInv, TypeOK
<1>2. flows[l] # None
  BY <1>1 DEF IInv, FundedIsRepayable, RepayableIsFunded
<1>3. /\ orders[l].repaidAmount = Volume(proved)
      /\ Volume(all) + repayLeft[l] = orders[l].terms.repay
      /\ repayLeft[l] = 0 /\ orders[l].repaidAmount = orders[l].terms.repay
  BY <1>2 DEF RepaidIsPaid
<1>4. logs \in Seq(LoanLog) /\ all \in SUBSET DOMAIN logs
  BY <1>1 DEF TypeOK, AuxiliaryTypeOK, Repayments
<1>5. /\ IsFiniteSet(all) /\ \A p \in all : Amounts[p] \in Nat
      /\ Volume(all) = SumFunctionOnSet(Amounts, all)
      /\ Volume(proved) = SumFunctionOnSet(Amounts, proved)
  <2>1. IsFiniteSet(DOMAIN logs)
    BY <1>4, LenProperties, FS_Interval
  <2>2. \A p \in DOMAIN logs : logs[p] \in LoanLog
    BY <1>4
  <2>3. \A p \in DOMAIN logs : Amounts[p] \in Nat
    BY <2>2 DEF LoanLog, Amounts
  <2>4. IsFiniteSet(all)
    BY <1>4, <2>1, FS_Subset
  <2>5. \A S : Volume(S) = SumFunctionOnSet(Amounts, S)
    BY DEF Volume, Amounts
  <2>6. QED
    BY <1>4, <2>3, <2>4, <2>5
<1> HIDE DEF all, proved
<1>6. SUFFICES ASSUME q \notin processedQueries PROVE FALSE
  OBVIOUS
<1>7. proved \cup {q} \in SUBSET all /\ q \notin proved /\ proved \in SUBSET all
  BY <1>6 DEF all, proved, Repayments, IsRepayment
<1>8. IsFiniteSet(proved) /\ \A p \in proved \cup {q} : Amounts[p] \in Nat
  BY <1>5, <1>7, FS_Subset
<1>9. /\ SumFunctionOnSet(Amounts, proved \cup {q}) = SumFunctionOnSet(Amounts, proved) + Amounts[q]
      /\ SumFunctionOnSet(Amounts, proved) \in Nat
  BY <1>7, <1>8, SumAdd, SumType
<1>10. SumFunctionOnSet(Amounts, proved \cup {q}) <= SumFunctionOnSet(Amounts, all)
  BY <1>5, <1>7, SumOfPart
<1>11. Amounts[q] = logs[q].amount /\ Amounts[q] \in Nat
  BY <1>4, <1>7, <1>8 DEF Amounts
<1>12. SumFunctionOnSet(Amounts, all) \in Nat /\ repayLeft[l] = 0
  BY <1>3, <1>5, SumType
<1>13. SumFunctionOnSet(Amounts, all) = SumFunctionOnSet(Amounts, proved)
  <2>1. Volume(all) = SumFunctionOnSet(Amounts, all) /\ Volume(proved) = SumFunctionOnSet(Amounts, proved)
    BY <1>5
  <2>2. Volume(all) \in Nat
    BY <1>12, <2>1
  <2>3. Volume(all) + 0 = Volume(proved)
    BY <1>3
  <2>4. Volume(all) = Volume(proved)
    BY <2>2, <2>3
  <2>5. QED
    BY <2>1, <2>4
<1>14. Amounts[q] > 0
  BY <1>11 DEF IsRepayment
<1>15. QED
  BY <1>9, <1>10, <1>11, <1>12, <1>13, <1>14

\* A run that may go where it goes, without sending and without a transaction mined.
MayGo(r, at) ==
    /\ runs[r].at \notin Ended
    /\ runs[r].at = "mining" => at = "failed"
    /\ at \notin {"approving", "mining"}
    /\ at = "allowance" => tokens[Wallet(r)] >= runs[r].amount
    /\ at = "paying" => runs[r].at = "allowance" /\ allowance[Wallet(r)] >= runs[r].amount
    /\ at \in Paid => runs[r].at \in Paid
    /\ at \in {"confirm", "succeeded"} /\ runs[r].kind = "repay" =>
          runs[r].at \in {"confirm", "succeeded"} \/ runs[r].log \in processedQueries'

\* Such a step keeps the invariant.
LEMMA WalkKeeps ==
    ASSUME ScriptsInv, TurnsInv, [Next]_vars, NEW r \in DOMAIN runs, NEW at, NEW n \in Nat,
           runs' = [runs EXCEPT ![r].at = at, ![r].attempt = n],
           UNCHANGED <<onSource, allowance, tokens>>,
           at = runs[r].at \/ MayGo(r, at)
    PROVE  TurnsInv'
<1>1. ScriptsTypeOK /\ IInv
  BY DEF ScriptsInv
<1>2. runs[r] \in Run /\ \A s \in DOMAIN runs : runs[s] \in Run
  BY <1>1, MinedType
<1>3. /\ RunsStay /\ runs'[r].at = at
      /\ \A s \in DOMAIN runs : runs'[s].grant = runs[s].grant /\ runs'[s].log = runs[s].log
      /\ \A s \in DOMAIN runs \ {r} : runs'[s] = runs[s]
  BY <1>2 DEF RunsStay, SameRun, Run
<1>4. \A s \in DOMAIN runs : runs[s].at \in Ended => runs'[s].at \in Ended
  BY <1>3 DEF MayGo
<1>5. \A s \in DOMAIN runs : runs[s].at \in Paying => runs'[s].at \in Paying
  BY <1>3 DEF MayGo, Paying, Ended
<1>6. SourceQueues'
  <2>1. \A s \in DOMAIN runs :
           /\ SameRun(s, runs, runs') /\ runs'[s].grant = runs[s].grant
           /\ runs[s].at \in Paying => runs'[s].at \in Paying
    BY <1>3, <1>5 DEF RunsStay
  <2>2. ASSUME NEW w \in Wallets
        PROVE  QueueIsOf(onSource'[w], runs', w)
    <3>1. QueueIsOf(onSource[w], runs, w) /\ onSource'[w] = onSource[w]
      BY DEF TurnsInv, SourceQueues
    <3>2. QueueIsOf(onSource[w], runs', w)
      BY <2>1, <3>1, QueueKept
    <3>3. QED
      BY <3>1, <3>2
  <2>3. QED
    BY <2>2, QueuesNext
<1>7. TurnsAreAlone'
  <2>1. \A s \in DOMAIN runs : Settled(s) => Settled(s)'
    BY <1>3, <1>4, SettledStays DEF Settled
  <2>2. QED
    BY <1>3, <2>1, TurnsKept DEF TurnsInv
<1>8. FundsAreThere'
  <2>1. runs[r].kind = "fund" => Wallet(r) = Lender
    BY <1>1, WalletOf
  <2>2. ASSUME NEW s \in DOMAIN runs, runs'[s].kind = "fund", runs'[s].inTurn
        PROVE  /\ runs'[s].at \in {"allowance", "approving", "paying", "mining"} =>
                     tokens'[Lender] >= runs'[s].amount
               /\ runs'[s].at \in {"paying", "mining"} => allowance'[Lender] >= runs'[s].amount
    <3>1. /\ runs[s].kind = "fund" /\ runs[s].inTurn /\ runs'[s].amount = runs[s].amount
          /\ runs[s].at \in {"allowance", "approving", "paying", "mining"} =>
                tokens[Lender] >= runs[s].amount
          /\ runs[s].at \in {"paying", "mining"} => allowance[Lender] >= runs[s].amount
      BY <1>3, <2>2 DEF RunsStay, SameRun, TurnsInv, FundsAreThere
    <3>2. s # r \/ at = runs[r].at => runs'[s].at = runs[s].at
      BY <1>3
    <3>3. QED
      BY <1>3, <2>1, <3>1, <3>2 DEF MayGo
  <2>3. QED
    BY <1>3, <2>2 DEF FundsAreThere, RunsStay
<1>9. RepaymentsAreLogged'
  <2>1. ASSUME NEW s \in DOMAIN runs, runs'[s].kind = "repay"
        PROVE  /\ runs'[s].at \in Paid => IsRepayment(runs[s].log, runs[s].loan)'
               /\ runs'[s].at \in {"confirm", "succeeded"} => runs'[s].log \in processedQueries'
    <3>1. /\ runs[s].kind = "repay" /\ runs'[s].log = runs[s].log /\ runs'[s].loan = runs[s].loan
          /\ runs[s].at \in Paid => IsRepayment(runs[s].log, runs[s].loan)
          /\ runs[s].at \in {"confirm", "succeeded"} => runs[s].log \in processedQueries
      BY <1>3, <2>1 DEF RunsStay, SameRun, TurnsInv, RepaymentsAreLogged
    <3>2. /\ processedQueries \subseteq processedQueries'
          /\ IsRepayment(runs[s].log, runs[s].loan) => IsRepayment(runs[s].log, runs[s].loan)'
      BY <1>1, <3>1, LoggedStays DEF IsRepayment
    <3>3. /\ runs'[s].at \in Paid => runs[s].at \in Paid
          /\ runs'[s].at \in {"confirm", "succeeded"} =>
                runs[s].at \in {"confirm", "succeeded"} \/ runs[s].log \in processedQueries'
      BY <1>3, <3>1 DEF MayGo
    <3>4. QED
      BY <3>1, <3>2, <3>3
  <2>2. QED
    BY <1>3, <2>1 DEF RepaymentsAreLogged, RunsStay, IsRepayment
<1>10. QED
  BY <1>6, <1>7, <1>8, <1>9 DEF TurnsInv

\* A run that goes on without a transaction.
LEMMA GoesKeeps ==
    ASSUME ScriptsInv, TurnsInv, [Next]_vars, NEW r \in DOMAIN runs, NEW at, Goes(r, at),
           UNCHANGED <<onSource, allowance, tokens>>, at = runs[r].at \/ MayGo(r, at)
    PROVE  TurnsInv'
<1> DEFINE n == runs[r].attempt
<1>1. runs[r] \in Run
  BY MinedType DEF ScriptsInv
<1>2. n \in Nat /\ [runs[r] EXCEPT !.at = at] = [runs[r] EXCEPT !.at = at, !.attempt = n]
  BY <1>1 DEF Run
<1>3. runs' = [runs EXCEPT ![r].at = at, ![r].attempt = n]
  BY <1>1, <1>2 DEF Goes, Run
<1> HIDE DEF n
<1>4. QED
  BY <1>2, <1>3, WalkKeeps

\* Nothing happens to the runs and what they rely on.
LEMMA StillKeeps ==
    ASSUME ScriptsInv, TurnsInv, [Next]_vars, UNCHANGED <<runs, onSource, allowance, tokens>>
    PROVE  TurnsInv'
<1>1. IInv
  BY DEF ScriptsInv
<1>2. SourceQueues' /\ TurnsAreAlone' /\ FundsAreThere'
  BY DEF TurnsInv, SourceQueues, QueueIsOf, IsSentBy, PaysOnce, TurnsAreAlone, Settled, Pending,
         Wallet, FundsAreThere
<1>3. RepaymentsAreLogged'
  BY <1>1, LoggedStays DEF TurnsInv, RepaymentsAreLogged, IsRepayment
<1>4. QED
  BY <1>2, <1>3 DEF TurnsInv

\* What a run compares are numbers.
LEMMA RunAmounts ==
    ASSUME ScriptsInv, NEW r \in DOMAIN runs
    PROVE  /\ runs[r] \in Run /\ runs[r].amount \in Nat /\ runs[r].loan \in LoanIds
           /\ runs[r].loan \in registeredLoans
           /\ Wallet(r) \in Wallets /\ Wallet(r) \in Accounts
           /\ tokens[Wallet(r)] \in Nat /\ allowance[Wallet(r)] \in Int
<1>1. ScriptsTypeOK /\ TypeOK /\ LogsAreOwn
  BY DEF ScriptsInv, IInv
<1>2. Wallet(r) \in Wallets /\ Wallet(r) \in Accounts
  BY <1>1, WalletOf, ScriptsAssumption DEF Wallets
<1>3. runs[r] \in Run /\ runs[r].amount \in Nat /\ runs[r].loan \in LoanIds
  BY <1>1, MinedType, ManagerAssumption
<1>4. QED
  BY <1>1, <1>2, <1>3 DEF ScriptsTypeOK, TypeOK, AuxiliaryTypeOK, LogsAreOwn

\* A run sends an approval of what it needs, or its payment.
LEMMA SendKeeps ==
    ASSUME ScriptsInv, TurnsInv, UNCHANGED <<vars, allowance>>,
           NEW r \in DOMAIN runs, NEW kind \in {"approve", "pay"}, Sends(r, kind), RunsStay,
           \A s \in DOMAIN runs \ {r} : runs'[s] = runs[s],
           runs'[r].log = runs[r].log,
           kind = "approve" =>
               /\ runs[r].at = "allowance" /\ runs'[r].at = "approving"
               /\ runs[r].kind = "fund" => runs'[r].grant = runs[r].amount,
           kind = "pay" =>
               /\ runs[r].at = "paying" /\ runs'[r].at = "mining"
               /\ runs'[r].grant = runs[r].grant
    PROVE  TurnsInv'
<1> DEFINE tx == [run |-> r, kind |-> kind]
<1>1. /\ ScriptsTypeOK /\ Wallet(r) \in Wallets /\ Wallet(r) = Payer(runs[r].kind)
      /\ runs[r].at \notin Paying /\ runs[r].at \notin Ended
  BY WalletOf DEF ScriptsInv, Wallet, Paying, Ended
<1>2. /\ onSource'[Wallet(r)] = Append(onSource[Wallet(r)], tx)
      /\ \A w \in Wallets \ {Wallet(r)} : onSource'[w] = onSource[w]
      /\ \A w \in Wallets : onSource[w] \in Seq(SourceTx)
  BY <1>1 DEF Sends, ScriptsTypeOK, SourceTx
<1>3. tx \in SourceTx /\ tx.run = r
  BY DEF SourceTx
<1> HIDE DEF tx
<1>4. SourceQueues'
  <2>1. ASSUME NEW w \in Wallets
        PROVE  QueueIsOf(onSource'[w], runs', w)
    <3>1. QueueIsOf(onSource[w], runs, w) /\ onSource[w] \in Seq([run : DOMAIN runs, kind : {"approve", "pay"}])
      BY <1>2 DEF TurnsInv, SourceQueues, SourceTx
    <3>2. CASE w = Wallet(r)
      <4>1. \A s \in DOMAIN runs : SameRun(s, runs, runs') /\ (s # r => runs'[s] = runs[s])
        BY DEF RunsStay
      <4>2. /\ kind = "pay" => runs'[r].at \in Paying /\ runs'[r].grant = runs[r].grant
            /\ kind = "approve" /\ runs[r].kind = "fund" => runs'[r].grant = runs'[r].amount
        BY <4>1 DEF Paying, SameRun
      <4>3. QueueIsOf(Append(onSource[w], [run |-> r, kind |-> kind]), runs', w)
        BY <1>1, <3>1, <3>2, <4>1, <4>2, QueueAppend
      <4>4. QED
        BY <1>2, <3>2, <4>3 DEF tx
    <3>3. CASE w # Wallet(r)
      <4>1. \A s \in DOMAIN runs :
               /\ SameRun(s, runs, runs')
               /\ Payer(runs[s].kind) = w => runs'[s] = runs[s]
        BY <1>1, <3>3 DEF RunsStay
      <4>2. \A i \in DOMAIN onSource[w] : IsSentBy(onSource[w][i], runs', w)
        BY <3>1, <4>1 DEF QueueIsOf, IsSentBy, SameRun
      <4>3. QueueIsOf(onSource[w], runs', w)
        BY <3>1, <4>2 DEF QueueIsOf
      <4>4. QED
        BY <1>2, <3>3, <4>3
    <3>4. QED
      BY <3>2, <3>3
  <2>2. QED
    BY <2>1, QueuesNext
<1>5. TurnsAreAlone'
  <2>1. ASSUME NEW s \in DOMAIN runs, Settled(s)
        PROVE  Settled(s)'
    <3>1. s # r /\ runs'[s].at \in Ended
      BY <1>1, <2>1 DEF Settled
    <3>2. Wallet(s) \in Wallets
      BY <1>1, WalletOf
    <3>3. ASSUME NEW i \in DOMAIN onSource'[Wallet(s)], onSource'[Wallet(s)][i].run = s
          PROVE  \E j \in DOMAIN onSource[Wallet(s)] : onSource[Wallet(s)][j].run = s
      <4>1. CASE Wallet(s) # Wallet(r)
        BY <1>2, <3>2, <3>3, <4>1
      <4>2. CASE Wallet(s) = Wallet(r)
        <5> DEFINE queue == onSource[Wallet(r)]
        <5>1. queue \in Seq(SourceTx) /\ onSource'[Wallet(r)] = Append(queue, tx)
          BY <1>1, <1>2
        <5> HIDE DEF queue
        <5>2. /\ DOMAIN queue = 1 .. Len(queue) /\ Len(queue) \in Nat
              /\ DOMAIN Append(queue, tx) = 1 .. Len(queue) + 1
              /\ \A j \in 1 .. Len(queue) : Append(queue, tx)[j] = queue[j]
              /\ Append(queue, tx)[Len(queue) + 1] = tx
          BY <1>3, <5>1, AppendProperties, LenProperties
        <5>3. i \in DOMAIN Append(queue, tx) /\ Append(queue, tx)[i].run = s
          BY <3>3, <4>2, <5>1
        <5>4. i \in DOMAIN queue /\ queue[i].run = s
          BY <1>3, <3>1, <5>2, <5>3
        <5>5. QED
          BY <4>2, <5>4 DEF queue
      <4>3. QED
        BY <4>1, <4>2
    <3>4. QED
      BY <2>1, <3>1, <3>3, SettledStays
  <2>2. QED
    BY <2>1, TurnsKept DEF TurnsInv
<1>6. UNCHANGED <<tokens, logs, processedQueries>>
  BY DEF vars, auxiliaryVars, managerVars
<1>7. FundsAreThere'
  <2>1. ASSUME NEW s \in DOMAIN runs, runs'[s].kind = "fund", runs'[s].inTurn
        PROVE  /\ runs'[s].at \in {"allowance", "approving", "paying", "mining"} =>
                     tokens'[Lender] >= runs'[s].amount
               /\ runs'[s].at \in {"paying", "mining"} => allowance'[Lender] >= runs'[s].amount
    <3>1. /\ runs[s].kind = "fund" /\ runs[s].inTurn /\ runs'[s].amount = runs[s].amount
          /\ runs[s].at \in {"allowance", "approving", "paying", "mining"} =>
                tokens[Lender] >= runs[s].amount
          /\ runs[s].at \in {"paying", "mining"} => allowance[Lender] >= runs[s].amount
      BY <2>1 DEF RunsStay, SameRun, TurnsInv, FundsAreThere
    <3>2. QED
      BY <1>6, <3>1
  <2>2. QED
    BY <2>1 DEF FundsAreThere, RunsStay
<1>8. RepaymentsAreLogged'
  <2>1. ASSUME NEW s \in DOMAIN runs, runs'[s].kind = "repay"
        PROVE  /\ runs'[s].at \in Paid => IsRepayment(runs[s].log, runs[s].loan)
               /\ runs'[s].at \in {"confirm", "succeeded"} => runs[s].log \in processedQueries
               /\ runs'[s].log = runs[s].log /\ runs'[s].loan = runs[s].loan
    <3>1. /\ runs[s].kind = "repay" /\ runs'[s].log = runs[s].log /\ runs'[s].loan = runs[s].loan
          /\ runs[s].at \in Paid => IsRepayment(runs[s].log, runs[s].loan)
          /\ runs[s].at \in {"confirm", "succeeded"} => runs[s].log \in processedQueries
      BY <2>1 DEF RunsStay, SameRun, TurnsInv, RepaymentsAreLogged
    <3>2. runs'[s].at \in Paid \/ runs'[s].at \in {"confirm", "succeeded"} => runs'[s].at = runs[s].at
      BY DEF Paid, Tried
    <3>3. QED
      BY <3>1, <3>2
  <2>2. QED
    BY <1>6, <2>1 DEF RepaymentsAreLogged, RunsStay, IsRepayment
<1>9. QED
  BY <1>4, <1>5, <1>7, <1>8 DEF TurnsInv

\* The status of a loan that says a repayment counts.
LEMMA RepaidCounts ==
    ASSUME ScriptsInv, TurnsInv, RepaidIsPaid, NEW r \in DOMAIN runs, runs[r].kind = "repay",
           runs[r].at \in Paid, Status(r) = "Repaid"
    PROVE  runs[r].log \in processedQueries
<1>1. IInv /\ runs[r].loan \in registeredLoans /\ orders[runs[r].loan].status = "Repaid"
  BY RunAmounts DEF ScriptsInv, Status
<1>2. IsRepayment(runs[r].log, runs[r].loan)
  BY DEF TurnsInv, RepaymentsAreLogged
<1>3. QED
  BY <1>1, <1>2, RepaidIsProved

\* Whatever a run does next keeps the invariant.
LEMMA RunKeeps ==
    ASSUME ScriptsInv, TurnsInv, RepaidIsPaid, [Next]_vars, NEW r \in DOMAIN runs,
           RunStep(r) \/ Die(r)
    PROVE  TurnsInv'
<1>1. /\ runs[r] \in Run /\ runs[r].amount \in Nat /\ Wallet(r) \in Wallets
      /\ tokens[Wallet(r)] \in Nat /\ allowance[Wallet(r)] \in Int
  BY RunAmounts
<1>2. UNCHANGED vars => UNCHANGED <<tokens, processedQueries>>
  BY DEF vars, auxiliaryVars, managerVars
<1>3. CASE ReadBalance(r)
  <2>1. PICK at \in {"stopped", "allowance"} :
           Goes(r, at) /\ (at = "allowance" => ~(tokens[Wallet(r)] < runs[r].amount))
    BY <1>3 DEF ReadBalance
  <2>2. runs[r].at = "balance" /\ UNCHANGED <<onSource, allowance, tokens>>
    BY <1>2, <1>3 DEF ReadBalance, RunAt
  <2>3. MayGo(r, at)
    BY <1>1, <2>1, <2>2 DEF MayGo, Ended, Paid, Tried
  <2>4. QED
    BY <2>1, <2>2, <2>3, GoesKeeps
<1>4. CASE ReadAllowance(r)
  <2>1. runs[r].at = "allowance" /\ UNCHANGED <<vars, allowance, tokens>>
    BY <1>2, <1>4 DEF ReadAllowance, RunAt
  <2>2. ASSUME ~(allowance[Wallet(r)] < runs[r].amount), Goes(r, "paying"), UNCHANGED onSource
        PROVE  TurnsInv'
    <3>1. MayGo(r, "paying")
      BY <1>1, <2>1, <2>2 DEF MayGo, Ended, Paid, Tried
    <3>2. QED
      BY <2>1, <2>2, <3>1, GoesKeeps
  <2>3. ASSUME NEW g, g = Grant(runs[r].kind, runs[r].amount, allowance[Wallet(r)]),
               runs' = [runs EXCEPT ![r].at = AwaitApproval, ![r].grant = g], Sends(r, "approve")
        PROVE  TurnsInv'
    <3>1. runs[r].kind = "fund" => g = runs[r].amount
      BY <2>3 DEF Grant
    <3>2. /\ RunsStay /\ \A s \in DOMAIN runs \ {r} : runs'[s] = runs[s]
          /\ runs'[r].log = runs[r].log /\ runs'[r].at = "approving" /\ runs'[r].grant = g
      BY <1>1, <2>3 DEF RunsStay, SameRun, Run, AwaitApproval
    <3>3. QED
      BY <2>1, <2>3, <3>1, <3>2, SendKeeps
  <2>4. QED
    BY <1>4, <2>2, <2>3 DEF ReadAllowance
<1>5. CASE SendPayment(r)
  <2>1. runs[r].at = "paying" /\ UNCHANGED <<vars, allowance, tokens>>
    BY <1>2, <1>5 DEF SendPayment, RunAt
  <2>2. CASE Goes(r, "failed") /\ UNCHANGED onSource
    <3>1. MayGo(r, "failed")
      BY <2>1 DEF MayGo, Ended, Paid, Tried
    <3>2. QED
      BY <2>1, <2>2, <3>1, GoesKeeps
  <2>3. CASE Goes(r, "mining") /\ Sends(r, "pay")
    <3>1. /\ RunsStay /\ \A s \in DOMAIN runs \ {r} : runs'[s] = runs[s]
          /\ runs'[r].log = runs[r].log /\ runs'[r].at = "mining"
          /\ runs'[r].grant = runs[r].grant
      BY <1>1, <2>3 DEF RunsStay, SameRun, Run, Goes
    <3>2. QED
      BY <2>1, <2>3, <3>1, SendKeeps
  <2>4. QED
    BY <1>5, <2>2, <2>3 DEF SendPayment
<1>6. ASSUME NEW at \in {"failed", "proof", "submit", "succeeded", "sent", "caught"}, Goes(r, at),
             runs[r].at \in Paid \ {"succeeded"}, UNCHANGED <<onSource, allowance, vars>>,
             at = "succeeded" => \/ runs[r].at = "confirm"
                                 \/ runs[r].kind = "fund"
                                 \/ Status(r) = "Repaid"
      PROVE  TurnsInv'
  <2>1. at = "succeeded" /\ runs[r].kind = "repay" =>
           runs[r].at = "confirm" \/ runs[r].log \in processedQueries'
    <3>1. runs[r].kind = "repay" => runs[r].kind # "fund"
      OBVIOUS
    <3>2. UNCHANGED processedQueries
      BY <1>2, <1>6
    <3>3. QED
      BY <1>6, <3>1, <3>2, RepaidCounts
  <2>2. MayGo(r, at)
    BY <1>6, <2>1 DEF MayGo, Ended, Paid, Tried
  <2>3. QED
    BY <1>2, <1>6, <2>2, GoesKeeps
<1>7. CASE ReadVerdict(r) \/ Attempt(r)
  <2>1. runs[r].at \in Paid \ {"succeeded"} /\ UNCHANGED <<onSource, allowance, vars>>
    BY <1>7 DEF ReadVerdict, Attempt, RunAt, Paid
  <2>2. PICK at \in {"succeeded", "failed", "proof", "submit"} :
           Goes(r, at) /\ (at = "succeeded" => Done(runs[r].kind, Status(r)))
    BY <1>7 DEF ReadVerdict, Attempt, Judge
  <2>3. at = "succeeded" => runs[r].kind = "fund" \/ Status(r) = "Repaid"
    BY <2>2 DEF Done
  <2>4. QED
    BY <1>6, <2>1, <2>2, <2>3
<1>8. CASE SubmitProof(r) \/ Confirm(r) \/ TryFails(r)
  <2>1. runs[r].at \in Tried /\ UNCHANGED <<onSource, allowance, vars>>
    BY <1>8 DEF SubmitProof, Confirm, TryFails, RunAt, Tried
  <2>2. PICK at \in {"sent", "caught", "succeeded"} :
           Goes(r, at) /\ (at = "succeeded" => runs[r].at = "confirm")
    BY <1>8 DEF SubmitProof, Confirm, TryFails, RunAt
  <2>3. QED
    BY <1>6, <2>1, <2>2 DEF Paid, Tried
<1>9. ASSUME NEW n \in Nat, runs' = [runs EXCEPT ![r].at = "attempt", ![r].attempt = n],
             runs[r].at \in Paid \ {"succeeded"}, UNCHANGED <<onSource, allowance, vars>>
      PROVE  TurnsInv'
  <2>1. MayGo(r, "attempt")
    BY <1>9 DEF MayGo, Ended, Paid, Tried
  <2>2. QED
    BY <1>2, <1>9, <2>1, WalkKeeps
<1>10. CASE ProveRun(r)
  BY <1>9, <1>10 DEF ProveRun, RunAt, Paid
<1>11. CASE Catch(r)
  <2>1. runs[r].at = "caught" /\ UNCHANGED <<onSource, allowance, vars>>
    BY <1>11 DEF Catch, RunAt
  <2>2. CASE Goes(r, "succeeded") /\ ProvedAfterAll(runs[r].kind, Status(r))
    BY <1>6, <2>1, <2>2 DEF ProvedAfterAll, Paid
  <2>3. CASE Goes(r, "failed")
    BY <1>6, <2>1, <2>3 DEF Paid
  <2>4. CASE runs' = [runs EXCEPT ![r].at = "attempt", ![r].attempt = NextAttempt(@)]
    <3>1. runs[r].attempt \in Nat
      BY <1>1 DEF Run
    <3>2. NextAttempt(runs[r].attempt) \in Nat
      BY <3>1 DEF NextAttempt
    <3>3. runs' = [runs EXCEPT ![r].at = "attempt", ![r].attempt = NextAttempt(runs[r].attempt)]
      BY <1>1, <2>4
    <3>4. QED
      BY <1>9, <2>1, <3>2, <3>3 DEF Paid
  <2>5. QED
    BY <1>11, <2>2, <2>3, <2>4 DEF Catch
<1>12. CASE Die(r)
  <2>1. /\ runs[r].at \in Awaits /\ Goes(r, "failed")
        /\ UNCHANGED <<onSource, allowance, tokens>>
    BY <1>2, <1>12 DEF Die, RunAt
  <2>2. MayGo(r, "failed")
    BY <2>1 DEF MayGo, Awaits, Ended, Paid, Tried
  <2>3. QED
    BY <2>1, <2>2, GoesKeeps
<1>13. QED
  BY <1>3, <1>4, <1>5, <1>7, <1>8, <1>10, <1>11, <1>12 DEF RunStep

\* A transaction of wallet w is mined, and its run, the only one that changes, is told.
\* For another run in turn of the wallet, it would be one that somebody left behind.
LEMMA MineKeeps ==
    ASSUME ScriptsInv, TurnsInv, [Next]_vars, NEW w \in Wallets, onSource[w] # <<>>, Mined(w),
           NEW r \in DOMAIN runs, Head(onSource[w]).run = r, RunsStay,
           \A s \in DOMAIN runs \ {r} : runs'[s] = runs[s],
           runs'[r].grant = runs[r].grant,
           \/ runs'[r].at = runs[r].at
           \/ runs[r].at = "approving" /\ runs'[r].at = "paying"
           \/ Head(onSource[w]).kind = "pay" /\ runs'[r].at \in {"verdict", "failed"},
           \A v \in Wallets \ {w} : allowance'[v] = allowance[v],
           w = Borrower => tokens'[Lender] >= tokens[Lender],
           runs[r].kind = "fund" /\ runs'[r].at \in {"allowance", "approving", "paying", "mining"} =>
               tokens'[Lender] = tokens[Lender] /\ allowance'[Lender] >= runs[r].amount,
           runs[r].kind = "repay" /\ runs'[r].at \in Paid =>
               \/ runs'[r].at = runs[r].at /\ runs'[r].log = runs[r].log
               \/ runs'[r].at = "verdict" /\ IsRepayment(runs[r].log, runs[r].loan)'
    PROVE  TurnsInv'
<1>1. ScriptsTypeOK /\ IInv
  BY DEF ScriptsInv
<1>2. \A v \in Wallets : /\ onSource[v] \in Seq([run : DOMAIN runs, kind : {"approve", "pay"}])
                         /\ QueueIsOf(onSource[v], runs, v)
                         /\ onSource'[v] = IF v = w THEN Tail(onSource[w]) ELSE onSource[v]
  BY <1>1 DEF Mined, ScriptsTypeOK, TurnsInv, SourceQueues
<1>3. Head(onSource[w]) = onSource[w][1] /\ 1 \in DOMAIN onSource[w]
  <2>1. onSource[w] \in Seq([run : DOMAIN runs, kind : {"approve", "pay"}])
    BY <1>2
  <2>2. QED
    BY <2>1, LenProperties, EmptySeq
<1>4. /\ Wallet(r) = w /\ ~Settled(r)
      /\ Head(onSource[w]).kind = "pay" => runs[r].at \in Paying
      /\ Head(onSource[w]) \in [run : DOMAIN runs, kind : {"approve", "pay"}]
  <2>1. Wallet(r) = w /\ (Head(onSource[w]).kind = "pay" => runs[r].at \in Paying)
    BY <1>2, <1>3 DEF QueueIsOf, IsSentBy, Wallet
  <2>2. Pending(r)
    BY <1>3, <2>1 DEF Pending
  <2>3. onSource[w] \in Seq([run : DOMAIN runs, kind : {"approve", "pay"}])
    BY <1>2
  <2>4. Head(onSource[w]) \in [run : DOMAIN runs, kind : {"approve", "pay"}]
    BY <2>3, HeadTailProperties
  <2>5. QED
    BY <2>1, <2>2, <2>4 DEF Settled
<1>5. SourceQueues'
  <2>1. \A s \in DOMAIN runs :
           /\ SameRun(s, runs, runs') /\ runs'[s].grant = runs[s].grant
           /\ runs[s].at \in Paying =>
                 runs'[s].at \in Paying \/ Head(onSource[w]) = [run |-> s, kind |-> "pay"]
    <3>1. Head(onSource[w]).kind = "pay" => Head(onSource[w]) = [run |-> r, kind |-> "pay"]
      BY <1>4
    <3>2. QED
      BY <3>1 DEF RunsStay, Paying
  <2>2. ASSUME NEW v \in Wallets
        PROVE  QueueIsOf(onSource'[v], runs', v)
    <3>1. CASE v = w
      <4>1. QueueIsOf(Tail(onSource[w]), runs', w)
        BY <1>2, <2>1, QueueTail
      <4>2. QED
        BY <1>2, <3>1, <4>1
    <3>2. CASE v # w
      <4>1. \A s \in DOMAIN runs :
               /\ SameRun(s, runs, runs') /\ runs'[s].grant = runs[s].grant
               /\ Payer(runs[s].kind) = v /\ runs[s].at \in Paying => runs'[s].at \in Paying
        BY <1>4, <2>1, <3>2 DEF Wallet
      <4>2. QueueIsOf(onSource[v], runs', v)
        BY <1>2, <4>1, QueueKept
      <4>3. QED
        BY <1>2, <3>2, <4>2
    <3>3. QED
      BY <3>1, <3>2
  <2>3. QED
    BY <2>2, QueuesNext
<1>6. TurnsAreAlone'
  <2>1. ASSUME NEW s \in DOMAIN runs, Settled(s)
        PROVE  Settled(s)'
    <3>1. s # r /\ runs'[s].at \in Ended
      BY <1>4, <2>1 DEF Settled
    <3>2. Wallet(s) \in Wallets
      BY <1>1, WalletOf
    <3>3. ASSUME NEW i \in DOMAIN onSource'[Wallet(s)], onSource'[Wallet(s)][i].run = s
          PROVE  \E j \in DOMAIN onSource[Wallet(s)] : onSource[Wallet(s)][j].run = s
      <4>1. CASE Wallet(s) # w
        BY <1>2, <3>2, <3>3, <4>1
      <4>2. CASE Wallet(s) = w
        <5>1. i \in DOMAIN Tail(onSource[w]) /\ Tail(onSource[w])[i].run = s
          BY <1>2, <3>3, <4>2
        <5>2. i + 1 \in DOMAIN onSource[w] /\ Tail(onSource[w])[i] = onSource[w][i + 1]
          <6> DEFINE queue == onSource[w]
          <6>1. queue \in Seq([run : DOMAIN runs, kind : {"approve", "pay"}]) /\ queue # <<>>
            BY <1>2
          <6>2. i \in DOMAIN Tail(queue)
            BY <5>1
          <6> HIDE DEF queue
          <6>3. /\ Len(Tail(queue)) = Len(queue) - 1 /\ Len(queue) \in Nat
                /\ Tail(queue) \in Seq([run : DOMAIN runs, kind : {"approve", "pay"}])
                /\ \A j \in 1 .. Len(queue) - 1 : Tail(queue)[j] = queue[j + 1]
            BY <6>1, HeadTailProperties, LenProperties
          <6>4. DOMAIN queue = 1 .. Len(queue) /\ DOMAIN Tail(queue) = 1 .. Len(queue) - 1
            BY <6>1, <6>3, LenProperties
          <6>5. i + 1 \in DOMAIN queue /\ Tail(queue)[i] = queue[i + 1]
            BY <6>2, <6>3, <6>4
          <6>6. QED
            BY <6>5 DEF queue
        <5>3. QED
          BY <4>2, <5>1, <5>2
      <4>3. QED
        BY <4>1, <4>2
    <3>4. QED
      BY <2>1, <3>1, <3>3, SettledStays
  <2>2. QED
    BY <2>1, TurnsKept DEF TurnsInv
<1>7. FundsAreThere'
  <2>1. ASSUME NEW s \in DOMAIN runs, runs'[s].kind = "fund", runs'[s].inTurn
        PROVE  /\ runs'[s].at \in {"allowance", "approving", "paying", "mining"} =>
                     tokens'[Lender] >= runs'[s].amount
               /\ runs'[s].at \in {"paying", "mining"} => allowance'[Lender] >= runs'[s].amount
    <3>1. /\ runs[s].kind = "fund" /\ runs[s].inTurn /\ runs'[s].amount = runs[s].amount
          /\ runs[s].at \in {"allowance", "approving", "paying", "mining"} =>
                tokens[Lender] >= runs[s].amount
          /\ runs[s].at \in {"paying", "mining"} => allowance[Lender] >= runs[s].amount
          /\ Wallet(s) = Lender
      BY <1>1, <2>1, WalletOf DEF RunsStay, SameRun, TurnsInv, FundsAreThere
    <3>2. CASE s = r
      BY <3>1, <3>2
    <3>3. CASE s # r /\ w = Lender
      <4>1. Settled(s)
        BY <1>4, <3>1, <3>3 DEF TurnsInv, TurnsAreAlone
      <4>2. QED
        BY <3>3, <4>1 DEF Settled, Ended
    <3>4. CASE s # r /\ w = Borrower
      <4>1. /\ runs'[s] = runs[s] /\ allowance'[Lender] = allowance[Lender]
            /\ tokens'[Lender] >= tokens[Lender]
        BY <3>4, ScriptsAssumption DEF Wallets
      <4>2. /\ tokens[Lender] \in Nat /\ tokens'[Lender] \in Nat /\ runs[s].amount \in Nat
            /\ allowance[Lender] \in Int
        <5>1. IInv'
          BY <1>1, ManagerInvariantStep
        <5>2. QED
          BY <3>1, <5>1, RunAmounts, ScriptsAssumption DEF IInv, TypeOK, AuxiliaryTypeOK
      <4>3. QED
        BY <3>1, <4>1, <4>2
    <3>5. QED
      BY <3>2, <3>3, <3>4 DEF Wallets
  <2>2. QED
    BY <2>1 DEF FundsAreThere, RunsStay
<1>8. RepaymentsAreLogged'
  <2>1. ASSUME NEW s \in DOMAIN runs, runs'[s].kind = "repay"
        PROVE  /\ runs'[s].at \in Paid => IsRepayment(runs[s].log, runs[s].loan)'
               /\ runs'[s].at \in {"confirm", "succeeded"} => runs'[s].log \in processedQueries'
    <3>1. /\ runs[s].kind = "repay" /\ runs'[s].loan = runs[s].loan
          /\ runs[s].at \in Paid => IsRepayment(runs[s].log, runs[s].loan)
          /\ runs[s].at \in {"confirm", "succeeded"} => runs[s].log \in processedQueries
      BY <2>1 DEF RunsStay, SameRun, TurnsInv, RepaymentsAreLogged
    <3>2. ASSUME runs'[s].log = runs[s].log, runs'[s].at = runs[s].at
          PROVE  /\ runs'[s].at \in Paid => IsRepayment(runs[s].log, runs[s].loan)'
                 /\ runs'[s].at \in {"confirm", "succeeded"} => runs'[s].log \in processedQueries'
      BY <1>1, <3>1, <3>2, LoggedStays DEF IsRepayment
    <3>3. CASE s # r
      BY <3>2, <3>3
    <3>4. CASE s = r
      <4>1. runs'[s].at \in {"confirm", "succeeded"} => runs'[s].at \in Paid
        BY DEF Paid, Tried
      <4>2. "verdict" \notin {"confirm", "succeeded"}
        OBVIOUS
      <4>3. QED
        BY <3>1, <3>2, <3>4, <4>1, <4>2
    <3>5. QED
      BY <3>3, <3>4
  <2>2. QED
    BY <2>1 DEF RepaymentsAreLogged, RunsStay, IsRepayment
<1>9. QED
  BY <1>5, <1>6, <1>7, <1>8 DEF TurnsInv

\* What is mined for a wallet keeps the invariant.
LEMMA MiningKeeps ==
    ASSUME ScriptsInv, TurnsInv, [Next]_vars, NEW w \in Wallets, MineFor(w)
    PROVE  TurnsInv'
<1>1. PICK r, kind : r = Head(onSource[w]).run /\ kind = Head(onSource[w]).kind
  OBVIOUS
<1>2. /\ onSource[w] # <<>> /\ Mined(w) /\ r \in DOMAIN runs
      /\ QueueIsOf(onSource[w], runs, w)
  BY <1>1, MinedType DEF MineFor, MineApproval, MinePayment, PaymentReverts, ScriptsInv, TurnsInv,
     SourceQueues
<1>3. /\ runs[r] \in Run /\ runs[r].amount \in Nat /\ runs[r].loan \in LoanIds
      /\ runs[r].loan \in registeredLoans
  BY <1>2, RunAmounts
<1>4. /\ Wallet(r) = w
      /\ kind = "pay" => runs[r].at \in Paying
      /\ kind = "approve" /\ runs[r].kind = "fund" => runs[r].grant = runs[r].amount
      /\ runs[r].kind = "fund" => w = Lender
      /\ runs[r].kind = "repay" => w = Borrower
  <2>1. onSource[w] \in Seq(SourceTx)
    BY DEF ScriptsInv, ScriptsTypeOK, SourceTx
  <2>2. Head(onSource[w]) = onSource[w][1] /\ 1 \in DOMAIN onSource[w]
    BY <1>2, <2>1, LenProperties, EmptySeq
  <2>3. ScriptsTypeOK
    BY DEF ScriptsInv
  <2>4. IsSentBy(Head(onSource[w]), runs, w)
    BY <1>2, <2>2 DEF QueueIsOf
  <2>5. Wallet(r) = w
    BY <1>1, <2>4 DEF IsSentBy, Wallet
  <2>6. QED
    BY <1>1, <1>2, <2>3, <2>4, <2>5, WalletOf DEF IsSentBy
<1>5. tokens \in [Accounts -> Nat] /\ Lender \in Accounts /\ Borrower \in Accounts
  BY ScriptsAssumption DEF ScriptsInv, IInv, TypeOK, AuxiliaryTypeOK
<1>6. ASSUME NEW from, NEW to, runs' = Informed(r, from, to)
      PROVE  /\ RunsStay /\ \A s \in DOMAIN runs \ {r} : runs'[s] = runs[s]
             /\ runs'[r].grant = runs[r].grant /\ runs'[r].log = runs[r].log
             /\ runs'[r].at = IF runs[r].at = from THEN to ELSE runs[r].at
  BY <1>2, <1>3, <1>6 DEF Informed, RunsStay, SameRun, Run
<1>7. CASE MineApproval(w)
  <2>1. /\ runs' = Informed(r, "approving", "paying") /\ kind = "approve" /\ UNCHANGED tokens
        /\ allowance' = [allowance EXCEPT ![w] = runs[r].grant]
    BY <1>1, <1>7 DEF MineApproval, vars, auxiliaryVars
  <2>2. /\ RunsStay /\ \A s \in DOMAIN runs \ {r} : runs'[s] = runs[s]
        /\ runs'[r].grant = runs[r].grant /\ runs'[r].log = runs[r].log
        /\ runs'[r].at = IF runs[r].at = "approving" THEN "paying" ELSE runs[r].at
    BY <1>6, <2>1
  <2>3. /\ \A v \in Wallets \ {w} : allowance'[v] = allowance[v]
        /\ allowance'[w] = runs[r].grant
    BY <2>1 DEF ScriptsInv, ScriptsTypeOK
  <2>4. tokens'[Lender] >= tokens[Lender]
    BY <1>5, <2>1
  <2>5. runs[r].kind = "fund" => allowance'[Lender] >= runs[r].amount
    BY <1>3, <1>4, <2>1, <2>3
  <2>6. runs'[r].at \in Paid => runs'[r].at = runs[r].at
    BY <2>2 DEF Paid, Tried
  <2>7. runs[r].kind = "fund" /\ runs'[r].at \in {"allowance", "approving", "paying", "mining"} =>
            tokens'[Lender] = tokens[Lender] /\ allowance'[Lender] >= runs[r].amount
    BY <2>1, <2>5
  <2>8. runs[r].kind = "repay" /\ runs'[r].at \in Paid =>
            runs'[r].at = runs[r].at /\ runs'[r].log = runs[r].log
    BY <2>2, <2>6
  <2>9. /\ Head(onSource[w]).run = r
        /\ \/ runs'[r].at = runs[r].at
           \/ runs[r].at = "approving" /\ runs'[r].at = "paying"
    BY <1>1, <2>2
  <2>10. QED
    BY <1>2, <2>2, <2>3, <2>4, <2>7, <2>8, <2>9, MineKeeps
<1>8. CASE PaymentReverts(w)
  <2>1. runs' = Informed(r, "mining", "failed") /\ kind = "pay" /\ UNCHANGED <<tokens, allowance>>
    BY <1>1, <1>8 DEF PaymentReverts, vars, auxiliaryVars
  <2>2. /\ RunsStay /\ \A s \in DOMAIN runs \ {r} : runs'[s] = runs[s]
        /\ runs'[r].grant = runs[r].grant /\ runs'[r].at = "failed"
    BY <1>4, <1>6, <2>1 DEF Paying
  <2>3. tokens'[Lender] >= tokens[Lender]
    BY <1>5, <2>1
  <2>4. "failed" \notin Paid
    BY DEF Paid, Tried
  <2>5. /\ Head(onSource[w]).run = r
        /\ Head(onSource[w]).kind = "pay" /\ runs'[r].at \in {"verdict", "failed"}
        /\ \A v \in Wallets \ {w} : allowance'[v] = allowance[v]
        /\ runs'[r].at \notin Paid \cup {"allowance", "approving", "paying", "mining"}
    BY <1>1, <2>1, <2>2, <2>4
  <2>6. QED
    BY <1>2, <2>2, <2>3, <2>5, MineKeeps
<1>9. CASE MinePayment(w)
  <2> DEFINE n == IF Len(logs') > Len(logs) THEN Len(logs') ELSE 0
             informed == Informed(r, "mining", "verdict")
             l == runs[r].loan
             paid == RepayPaid(l, runs[r].amount)
  <2>1. /\ runs' = [informed EXCEPT ![r].log = n] /\ kind = "pay" /\ CanPay(r)
        /\ runs[r].kind = "fund" => FundLoan(l, runs[r].amount)
        /\ runs[r].kind = "repay" => RepayLoan(l, runs[r].amount)
        /\ \E left : allowance' = [allowance EXCEPT ![w] = left]
    BY <1>1, <1>9 DEF MinePayment
  <2>2. /\ RunsStay /\ \A s \in DOMAIN runs \ {r} : runs'[s] = runs[s]
        /\ runs'[r].grant = runs[r].grant /\ runs'[r].log = n
        /\ runs'[r].at = IF runs[r].at = "mining" THEN "verdict" ELSE runs[r].at
    <3> DEFINE at == IF runs[r].at = "mining" THEN "verdict" ELSE runs[r].at
    <3>1. /\ DOMAIN informed = DOMAIN runs
          /\ \A s \in DOMAIN runs \ {r} : informed[s] = runs[s]
          /\ informed[r] = [runs[r] EXCEPT !.at = at]
      BY <1>2, <1>3 DEF Informed, Run
    <3>2. runs' = [informed EXCEPT ![r] = [informed[r] EXCEPT !.log = n]]
      BY <2>1
    <3> HIDE DEF informed, n, at
    <3>3. runs'[r] = [runs[r] EXCEPT !.at = at, !.log = n]
      BY <1>2, <1>3, <3>1, <3>2 DEF Run
    <3>4. DOMAIN runs' = DOMAIN runs /\ \A s \in DOMAIN runs \ {r} : runs'[s] = runs[s]
      BY <3>1, <3>2
    <3>5. /\ runs'[r].kind = runs[r].kind /\ runs'[r].loan = runs[r].loan
          /\ runs'[r].amount = runs[r].amount /\ runs'[r].inTurn = runs[r].inTurn
          /\ runs'[r].grant = runs[r].grant /\ runs'[r].log = n /\ runs'[r].at = at
      BY <1>3, <3>3 DEF Run
    <3>6. RunsStay
      BY <1>2, <3>4, <3>5 DEF RunsStay, SameRun
    <3>7. QED
      BY <3>4, <3>5, <3>6 DEF at
  <2>3. \A v \in Wallets \ {w} : allowance'[v] = allowance[v]
    BY <2>1 DEF ScriptsInv, ScriptsTypeOK
  <2>4. runs'[r].at \in {"verdict", "failed"}
    BY <1>4, <2>1, <2>2 DEF Paying
  <2>5. runs[r].kind = "repay" => tokens'[Lender] >= tokens[Lender] /\ IsRepayment(runs[r].log, runs[r].loan)'
    <3>1. SUFFICES ASSUME runs[r].kind = "repay"
                   PROVE  tokens'[Lender] >= tokens[Lender] /\ IsRepayment(runs[r].log, runs[r].loan)'
      OBVIOUS
    <3>2. /\ flows[l] = [from |-> Lender, to |-> Borrower]
          /\ Transfer(flows[l].to, flows[l].from, paid)
          /\ logs' = Append(logs, Log(Auxiliary, "LoanRepaid", l, paid))
          /\ runs[r].amount > 0 /\ repayLeft[l] > 0
      BY <2>1, <3>1 DEF CanPay, RepayLoan, CanRepayLoan
    <3>3. repayLeft[l] \in Nat /\ logs \in Seq(LoanLog)
      BY <1>3 DEF ScriptsInv, IInv, TypeOK, AuxiliaryTypeOK
    <3>4. paid \in Nat /\ paid > 0
      BY <1>3, <3>2, <3>3 DEF RepayPaid, Capped, Min2
    <3> HIDE DEF paid
    <3>5. tokens'[Lender] = tokens[Lender] + paid
      BY <1>5, <3>2, <3>4, ScriptsAssumption DEF Transfer
    <3>6. /\ Len(logs') = Len(logs) + 1 /\ Len(logs) \in Nat
          /\ DOMAIN logs' = 1 .. Len(logs')
          /\ logs'[Len(logs) + 1] = Log(Auxiliary, "LoanRepaid", l, paid)
      <4> DEFINE log == Log(Auxiliary, "LoanRepaid", l, paid)
      <4>1. log \in LoanLog
        BY <1>3, <3>4 DEF Log, LoanLog
      <4> HIDE DEF log, l
      <4>2. /\ Append(logs, log) \in Seq(LoanLog) /\ Len(Append(logs, log)) = Len(logs) + 1
            /\ Append(logs, log)[Len(logs) + 1] = log
        BY <3>3, <4>1, AppendProperties
      <4>3. logs' = Append(logs, log)
        BY <3>2 DEF log
      <4>4. QED
        BY <3>3, <4>2, <4>3, LenProperties DEF log
    <3>7. n = Len(logs) + 1
      BY <3>6
    <3> HIDE DEF n
    <3>8. logs'[n].contract = Auxiliary /\ logs'[n].event = "LoanRepaid" /\ logs'[n].loanId = l /\ logs'[n].amount = paid
      BY <3>6, <3>7 DEF Log
    <3>9. runs'[r].log = n /\ runs'[r].loan = l /\ n \in DOMAIN logs'
      BY <1>2, <2>2, <3>6, <3>7 DEF RunsStay, SameRun
    <3> HIDE DEF l
    <3>10. IsRepayment(runs[r].log, runs[r].loan)'
      BY <3>4, <3>8, <3>9 DEF IsRepayment
    <3>11. tokens[Lender] \in Nat
      BY <1>5
    <3>12. QED
      BY <3>4, <3>5, <3>10, <3>11
  <2> HIDE DEF n, informed, l, paid
  <2>6. w = Borrower => tokens'[Lender] >= tokens[Lender]
    <3>1. w = Borrower => runs[r].kind # "fund"
      BY <1>4, ScriptsAssumption
    <3>2. runs[r].kind \in {"fund", "repay"}
      BY <1>3 DEF Run, Kinds
    <3>3. QED
      BY <2>5, <3>1, <3>2
  <2>7. "failed" \notin Paid
    BY DEF Paid, Tried
  <2>8. runs'[r].at \notin {"allowance", "approving", "paying", "mining"}
    BY <2>4
  <2>9. runs[r].kind = "fund" /\ runs'[r].at \in {"allowance", "approving", "paying", "mining"} =>
            tokens'[Lender] = tokens[Lender] /\ allowance'[Lender] >= runs[r].amount
    BY <2>8
  <2>10. runs[r].kind = "repay" /\ runs'[r].at \in Paid =>
            \/ runs'[r].at = runs[r].at /\ runs'[r].log = runs[r].log
            \/ runs'[r].at = "verdict" /\ IsRepayment(runs[r].log, runs[r].loan)'
    BY <2>4, <2>5, <2>7
  <2>11. /\ Head(onSource[w]).run = r
         /\ Head(onSource[w]).kind = "pay" /\ runs'[r].at \in {"verdict", "failed"}
    BY <1>1, <2>1, <2>4
  <2>12. QED
    BY <1>2, <2>2, <2>3, <2>6, <2>9, <2>10, <2>11, MineKeeps
<1>10. QED
  BY <1>7, <1>8, <1>9 DEF MineFor

\* A run that starts is in turn if it finds nothing left behind, and takes the turn of
\* those it overlaps.
LEMMA StartKeeps ==
    ASSUME ScriptsInv, TurnsInv, NEW kind \in Kinds, NEW l \in registeredLoans,
           NEW amount \in Payments, StartScript(kind, l, amount)
    PROVE  TurnsInv'
<1> DEFINE own == {r \in DOMAIN runs : Wallet(r) = Payer(kind)}
           turn == \A r \in own : Settled(r)
<1>1. PICK new : new = Len(runs) + 1
  OBVIOUS
<1>2. /\ UNCHANGED <<vars, allowance, onSource>> /\ UNCHANGED <<tokens, logs, processedQueries>>
      /\ runs \in Seq(Run) /\ \A r \in DOMAIN runs : runs[r] \in Run
  BY DEF StartScript, ScriptsInv, ScriptsTypeOK, vars, auxiliaryVars, managerVars
<1>3. /\ DOMAIN runs' = DOMAIN runs \cup {new} /\ new \notin DOMAIN runs
      /\ runs'[new].kind = kind /\ runs'[new].at = "balance" /\ runs'[new].inTurn = turn
      /\ \A r \in DOMAIN runs :
            /\ SameRun(r, runs, runs') /\ runs'[r].grant = runs[r].grant
            /\ runs'[r].at = runs[r].at /\ runs'[r].log = runs[r].log
            /\ runs'[r].inTurn = IF r \in own THEN runs[r].inTurn /\ Settled(r) ELSE runs[r].inTurn
  <2> DEFINE run == [kind |-> kind, loan |-> l, amount |-> amount, at |-> "balance", grant |-> 0,
                     log |-> 0, attempt |-> 0, inTurn |-> turn]
             others == [r \in DOMAIN runs |->
                 IF r \in own THEN [runs[r] EXCEPT !.inTurn = @ /\ Settled(r)] ELSE runs[r]]
  <2>1. runs' = Append(others, run) /\ Len(runs) \in Nat /\ DOMAIN runs = 1 .. Len(runs)
    BY <1>2, LenProperties DEF StartScript
  <2>2. ASSUME NEW r \in DOMAIN runs
        PROVE  /\ others[r].kind = runs[r].kind /\ others[r].loan = runs[r].loan
               /\ others[r].amount = runs[r].amount /\ others[r].grant = runs[r].grant
               /\ others[r].at = runs[r].at /\ others[r].log = runs[r].log
               /\ others[r].inTurn = IF r \in own THEN runs[r].inTurn /\ Settled(r) ELSE runs[r].inTurn
    <3> DEFINE b == runs[r].inTurn /\ Settled(r)
    <3>1. others[r] = IF r \in own THEN [runs[r] EXCEPT !.inTurn = b] ELSE runs[r]
      OBVIOUS
    <3>2. runs[r] \in Run
      BY <1>2
    <3> HIDE DEF b, own, others
    <3>3. QED
      BY <3>1, <3>2 DEF Run, b
  <2>3. /\ DOMAIN runs' = 1 .. Len(runs) + 1 /\ runs'[Len(runs) + 1] = run
        /\ \A r \in 1 .. Len(runs) : runs'[r] = others[r]
    <3>1. DOMAIN others = 1 .. Len(runs)
      BY <2>1
    <3> HIDE DEF others, run
    <3>2. Len(others) = Len(runs)
      BY <2>1, <3>1
    <3>3. QED
      BY <2>1, <3>1, <3>2
  <2> HIDE DEF others, own, turn
  <2>4. run.kind = kind /\ run.at = "balance" /\ run.inTurn = turn
    OBVIOUS
  <2> HIDE DEF run
  <2>5. QED
    BY <1>1, <2>1, <2>2, <2>3, <2>4 DEF SameRun
<1>4. SourceQueues'
  <2>1. ASSUME NEW w \in Wallets
        PROVE  QueueIsOf(onSource'[w], runs', w)
    <3>1. QueueIsOf(onSource[w], runs, w) /\ onSource'[w] = onSource[w]
      BY <1>2 DEF TurnsInv, SourceQueues
    <3>2. \A r \in DOMAIN runs :
             /\ SameRun(r, runs, runs') /\ runs'[r].grant = runs[r].grant
             /\ Payer(runs[r].kind) = w /\ runs[r].at \in Paying => runs'[r].at \in Paying
      BY <1>3
    <3>3. QueueIsOf(onSource[w], runs', w)
      BY <3>1, <3>2, QueueKept
    <3>4. QED
      BY <3>1, <3>3
  <2>2. QED
    BY <2>1, QueuesNext
<1>5. TurnsAreAlone'
  <2>1. ASSUME NEW r \in DOMAIN runs
        PROVE  Wallet(r)' = Wallet(r) /\ (Settled(r) => Settled(r)')
    BY <1>2, <1>3 DEF Wallet, SameRun, Settled, Pending
  <2>2. Wallet(new)' = Payer(kind)
    BY <1>3 DEF Wallet
  <2>3. ASSUME NEW r \in DOMAIN runs', runs'[r].inTurn
        PROVE  \/ Settled(r)'
               \/ \A s \in DOMAIN runs' \ {r} : Wallet(s)' = Wallet(r)' => Settled(s)'
    <3>1. CASE r = new
      <4>1. turn
        BY <1>3, <2>3, <3>1
      <4>2. ASSUME NEW s \in DOMAIN runs' \ {r}, Wallet(s)' = Wallet(r)'
            PROVE  Settled(s)'
        <5>1. s \in DOMAIN runs
          BY <1>3, <3>1
        <5>2. s \in own
          BY <2>1, <2>2, <3>1, <4>2, <5>1
        <5>3. QED
          BY <2>1, <4>1, <5>1, <5>2
      <4>3. QED
        BY <4>2
    <3>2. CASE r \in own
      BY <1>3, <2>1, <2>3, <3>2
    <3>3. CASE r \in DOMAIN runs \ own
      <4>1. runs[r].inTurn
        BY <1>3, <2>3, <3>3
      <4>2. Wallet(r)' = Wallet(r) /\ Wallet(r) # Payer(kind)
        BY <2>1, <3>3
      <4>3. CASE Settled(r)
        BY <2>1, <3>3, <4>3
      <4>4. CASE \A s \in DOMAIN runs \ {r} : Wallet(s) = Wallet(r) => Settled(s)
        <5>1. ASSUME NEW s \in DOMAIN runs' \ {r}, Wallet(s)' = Wallet(r)'
              PROVE  Settled(s)'
          <6>1. s # new
            BY <2>2, <4>2, <5>1
          <6>2. s \in DOMAIN runs \ {r}
            BY <1>3, <6>1
          <6>3. QED
            BY <2>1, <4>2, <4>4, <5>1, <6>2
        <5>2. QED
          BY <5>1
      <4>5. QED
        BY <3>3, <4>1, <4>3, <4>4 DEF TurnsInv, TurnsAreAlone
    <3>4. QED
      BY <1>3, <3>1, <3>2, <3>3
  <2>4. QED
    BY <2>3 DEF TurnsAreAlone
<1>6. FundsAreThere'
  <2>1. ASSUME NEW r \in DOMAIN runs', runs'[r].kind = "fund", runs'[r].inTurn
        PROVE  /\ runs'[r].at \in {"allowance", "approving", "paying", "mining"} =>
                     tokens[Lender] >= runs'[r].amount
               /\ runs'[r].at \in {"paying", "mining"} => allowance[Lender] >= runs'[r].amount
    <3>1. CASE r = new
      BY <1>3, <3>1
    <3>2. CASE r \in DOMAIN runs
      <4>1. /\ runs[r].kind = "fund" /\ runs[r].inTurn /\ runs'[r].amount = runs[r].amount
            /\ runs'[r].at = runs[r].at
        BY <1>3, <2>1, <3>2 DEF SameRun
      <4>2. QED
        BY <3>2, <4>1 DEF TurnsInv, FundsAreThere
    <3>3. QED
      BY <1>3, <3>1, <3>2
  <2>2. QED
    BY <1>2, <2>1 DEF FundsAreThere
<1>7. RepaymentsAreLogged'
  <2>1. ASSUME NEW r \in DOMAIN runs', runs'[r].kind = "repay"
        PROVE  /\ runs'[r].at \in Paid => IsRepayment(runs'[r].log, runs'[r].loan)
               /\ runs'[r].at \in {"confirm", "succeeded"} => runs'[r].log \in processedQueries
    <3>1. CASE r = new
      BY <1>3, <3>1 DEF Paid, Tried
    <3>2. CASE r \in DOMAIN runs
      <4>1. /\ runs[r].kind = "repay" /\ runs'[r].loan = runs[r].loan /\ runs'[r].log = runs[r].log
            /\ runs'[r].at = runs[r].at
        BY <1>3, <2>1, <3>2 DEF SameRun
      <4>2. QED
        BY <3>2, <4>1 DEF TurnsInv, RepaymentsAreLogged
    <3>3. QED
      BY <1>3, <3>1, <3>2
  <2>2. QED
    BY <1>2, <2>1 DEF RepaymentsAreLogged, IsRepayment
<1>8. QED
  BY <1>4, <1>5, <1>6, <1>7 DEF TurnsInv

\* A proof that is mined for a repayment counts the log of the run that waits for it.
LEMMA ProofKeeps ==
    ASSUME ScriptsInv, TurnsInv, [Next]_vars, MineProof
    PROVE  TurnsInv'
<1>1. PICK r : r = Head(onCreditcoin).run
  OBVIOUS
<1>2. r \in DOMAIN runs /\ UNCHANGED <<onSource, allowance, tokens>>
  BY <1>1, MinedType DEF MineProof, ScriptsInv, auxiliaryVars
<1>3. PICK at : /\ Goes(r, at)
                /\ \/ at = runs[r].at
                   \/ /\ runs[r].at = "sent" /\ at \in {"succeeded", "confirm", "caught"}
                      /\ at = "succeeded" => runs[r].kind = "fund"
                      /\ at = "confirm" => NoteLoanRepayment(runs[r].log)
  <2>1. PICK at \in {"succeeded", "confirm", "caught"} :
           /\ runs' = Awaited(Head(onCreditcoin), at)
           /\ at = "succeeded" => runs[r].kind = "fund"
           /\ at = "confirm" => NoteLoanRepayment(runs[r].log)
    BY <1>1 DEF MineProof
  <2>2. QED
    BY <1>1, <1>2, <2>1 DEF Awaited, Goes
<1>4. MayGo(r, at) \/ at = runs[r].at
  <2>1. ASSUME at # runs[r].at
        PROVE  MayGo(r, at)
    <3>1. /\ runs[r].at = "sent" /\ at \in {"succeeded", "confirm", "caught"}
          /\ at = "succeeded" => runs[r].kind = "fund"
          /\ at = "confirm" => NoteLoanRepayment(runs[r].log)
      BY <1>3, <2>1
    <3>2. NoteLoanRepayment(runs[r].log) => runs[r].log \in processedQueries'
      BY DEF NoteLoanRepayment
    <3>3. QED
      BY <3>1, <3>2 DEF MayGo, Ended, Paid, Tried
  <2>2. QED
    BY <2>1
<1>5. QED
  BY <1>2, <1>3, <1>4, GoesKeeps

\* It holds before any script is started.
LEMMA TurnsInit == ScriptsInit => TurnsInv
<1> SUFFICES ASSUME ScriptsInit
             PROVE  TurnsInv
  OBVIOUS
<1>1. runs = <<>> /\ \A w \in Wallets : onSource[w] = <<>>
  BY DEF ScriptsInit
<1>2. DOMAIN runs = {} /\ \A w \in Wallets : DOMAIN onSource[w] = {}
  BY <1>1
<1>3. QED
  BY <1>2 DEF TurnsInv, SourceQueues, QueueIsOf, PaysOnce, TurnsAreAlone, FundsAreThere,
         RepaymentsAreLogged

\* Every step keeps the invariant.
LEMMA TurnsStep ==
    ASSUME ScriptsInv, TurnsInv, RepaidIsPaid, [ScriptsNext]_systemVars
    PROVE  TurnsInv'
<1>1. [Next]_vars
  BY ScriptsUseTheContracts DEF ScriptsInv
<1>2. CASE (OperatorStep \/ AttestSource) /\ UNCHANGED scriptVars
  <2>1. UNCHANGED tokens
    BY <1>2 DEF OperatorStep, AttestSource, Authorize, WorkerRegisters, RegisterLoanFund,
           ExpireOnSource, AttestLog, auxiliaryVars
  <2>2. QED
    BY <1>1, <1>2, <2>1, StillKeeps DEF scriptVars
<1>3. CASE UNCHANGED systemVars
  BY <1>1, <1>3, StillKeeps DEF systemVars, scriptVars, vars, auxiliaryVars
<1>4. CASE \E r \in DOMAIN runs : RunStep(r) \/ Die(r)
  BY <1>1, <1>4, RunKeeps
<1>5. QED
  BY <1>1, <1>2, <1>3, <1>4, StartKeeps, MiningKeeps, ProofKeeps DEF ScriptsNext

\* What the contracts promise holds when the scripts drive them.
LEMMA TurnsInvariant == ScriptsSpec => [](ScriptsInv /\ TurnsInv)
<1>1. ScriptsSpec => []RepaidIsPaid
  BY ScriptsUseLoanManager, RepaidAmountsArePaid, PTL
<1>2. QED
  BY <1>1, ScriptsInvariant, TurnsInit, TurnsStep, PTL DEF ScriptsSpec

\* Exit code 0 is true of both scripts, however many runs overlap, are killed, give up
\* on a proof that goes through later, or pay a loan that somebody else pays too: the
\* loan of a funding has left Created, and this very repayment counts on Creditcoin.
THEOREM SuccessesAreTrue == ScriptsSpec => []SuccessIsTrue
<1>1. ScriptsInv /\ TurnsInv => SuccessIsTrue
  BY DEF ScriptsInv, TurnsInv, RepaymentsAreLogged, SuccessIsTrue, RepaySuccessIsTrue, RunAt
<1>2. QED
  BY <1>1, TurnsInvariant, PTL

\* The funding of a run that no other run of the lender has overlapped is covered by
\* the balance and the allowance it has read, however long its transactions wait, and
\* whatever earlier runs have died of.
THEOREM FundingsAreCovered == ScriptsSpec => []FundingIsCovered
<1>1. ScriptsInv /\ TurnsInv => FundingIsCovered
  BY DEF TurnsInv, FundsAreThere, FundingIsCovered, Covered, Wallet, Payer
<1>2. QED
  BY <1>1, TurnsInvariant, PTL

-----------------------------------------------------------------------------
(* The worker                                                              *)

\* The registered loans whose deadline has come.
Due == {l \in registeredLoans : ccBlock >= Deadline(l)}

\* What the worker sends to the source chain: it expires only what is due.
DueTx == {tx \in [kind : {"register", "expire"}, id : LoanIds] : tx.kind = "expire" => tx.id \in Due}

\* An order without terms is that of an id that has not been given out.
UnregisteredAreEmpty == \A l \in LoanIds \ registeredLoans : orders[l].terms = None

\* The block handler is called for blocks that have been made, and the loans it
\* goes through, and what is sent of them, are due from then on.
OnlyDueExpire ==
    /\ emitted \in Nat /\ emitted < ccBlock
    /\ expiring \subseteq Due
    /\ sourceTxs \in Seq(DueTx)

\* The inductive invariant.
WorkerInv == IInv /\ UnregisteredAreEmpty /\ OnlyDueExpire

-----------------------------------------------------------------------------
(* The worker and the contracts                                            *)

\* What is mined on the source chain is one of the worker's transactions.
LEMMA HeadIsDue ==
    ASSUME WorkerInv, sourceTxs # <<>>
    PROVE  Head(sourceTxs) \in DueTx /\ Tail(sourceTxs) \in Seq(DueTx)
<1>1. sourceTxs \in Seq(DueTx)
  BY DEF WorkerInv, OnlyDueExpire
<1>2. QED
  BY <1>1, HeadTailProperties

\* A proof, by the worker or by others, is of a log.
LEMMA ProofsUseTheContracts ==
    ASSUME IInv, NEW q, MarkLoanAsFunded(q) \/ NoteLoanRepayment(q), UNCHANGED auxiliaryVars
    PROVE  Next
<1>1. q \in 1 .. attested
  BY DEF MarkLoanAsFunded, CanMarkLoanAsFunded, NoteLoanRepayment, CanNoteLoanRepayment, Provable
<1>2. q \in DOMAIN logs
  BY <1>1 DEF IInv, TypeOK, AuxiliaryTypeOK
<1>3. QED
  BY <1>2 DEF Next, ManagerStep

\* Every step of the worker, of the chains and of the parties is a step of the two
\* contracts, or leaves them alone.
LEMMA WorkerUsesTheContracts ==
    ASSUME WorkerInv, [WorkerNext]_allVars
    PROVE  [Next]_vars
<1>1. CASE UNCHANGED vars
  BY <1>1
<1>2. CASE MineOnSource
  <2> DEFINE tx == Head(sourceTxs)
  <2>1. tx \in DueTx
    BY <1>2, HeadIsDue DEF MineOnSource
  <2>2. UNCHANGED managerVars
    BY <1>2 DEF MineOnSource
  <2>3. CASE WorkerRegisters(tx.id)
    <3>1. tx.id \in LoanIds
      BY <2>1 DEF DueTx
    <3>2. QED
      BY <2>2, <2>3, <3>1 DEF Next, SourceStep
  <2>4. CASE UNCHANGED auxiliaryVars
    BY <2>2, <2>4 DEF vars
  <2>5. CASE tx.kind = "expire" /\ ExpireOnSource(tx.id)
    <3>1. tx.id \in registeredLoans /\ ccBlock >= Deadline(tx.id)
      BY <2>1, <2>5 DEF DueTx, Due
    <3>2. QED
      BY <2>2, <2>5, <3>1 DEF Next, SourceStep
  <2>6. QED
    BY <1>2, <2>3, <2>4, <2>5 DEF MineOnSource
<1>3. CASE MineOnCreditcoin
  <2> DEFINE tx == Head(ccTxs)
  <2>1. UNCHANGED auxiliaryVars
    BY <1>3 DEF MineOnCreditcoin
  <2>2. CASE MarkLoanAsFunded(tx.id) \/ NoteLoanRepayment(tx.id)
    BY <2>1, <2>2, ProofsUseTheContracts DEF WorkerInv
  <2>3. CASE MarkLoanAsExpired(tx.id)
    <3>1. CASE tx.id \in LoanIds
      BY <2>1, <2>3, <3>1 DEF Next, ManagerStep
    <3>2. CASE tx.id \notin LoanIds
      <4>1. DOMAIN orders = LoanIds /\ orders = [l \in LoanIds |-> orders[l]]
        BY DEF WorkerInv, IInv, TypeOK
      <4>2. orders' = orders
        BY <2>3, <3>2, <4>1 DEF MarkLoanAsExpired
      <4>3. QED
        BY <2>1, <2>3, <4>2 DEF MarkLoanAsExpired, vars, managerVars
    <3>3. QED
      BY <3>1, <3>2
  <2>4. CASE UNCHANGED managerVars
    BY <2>1, <2>4 DEF vars
  <2>5. QED
    BY <1>3, <2>2, <2>3, <2>4 DEF MineOnCreditcoin
<1>4. CASE Parties
  <2>1. CASE SetUp
    BY <2>1 DEF SetUp, Next, SourceStep, ManagerStep
  <2>2. CASE (\E offer \in Offers : RegisterLoan(offer)) /\ UNCHANGED auxiliaryVars
    BY <2>2 DEF Next, ManagerStep
  <2>3. CASE /\ \E l \in LoanIds, amount \in Payments : FundLoan(l, amount) \/ RepayLoan(l, amount)
             /\ UNCHANGED managerVars
    BY <2>3 DEF Next, SourceStep
  <2>4. CASE /\ \E q \in DOMAIN logs \cap ProvedByOthers :
                   MarkLoanAsFunded(q) \/ NoteLoanRepayment(q)
             /\ UNCHANGED auxiliaryVars
    BY <2>4 DEF Next, ManagerStep
  <2>5. QED
    BY <1>4, <2>1, <2>2, <2>3, <2>4 DEF Parties
<1>5. CASE Attest
  BY <1>5 DEF Attest, Next, SourceStep
<1>6. CASE NextBlock /\ UNCHANGED auxiliaryVars
  BY <1>6 DEF Next, ManagerStep
<1>7. CASE BlockStep
  BY <1>1, <1>7 DEF BlockStep, EmitBlock, ExpireLoan, chainVars
<1>8. CASE \E p \in Pollers : Handle(p)
  BY <1>1, <1>8
     DEF Handle, OnRegistered, SubmitRegistration, OnSourceEvent, Prove, ReadFundedOrder,
         SubmitFundProof, FundProofSent, ReadRepaidOrder, SubmitRepayProof, RepayProofSent,
         chainVars
<1>9. CASE \/ StartRound
           \/ \E S \in Heads : ReadHead(S) \/ HeadError(S)
           \/ \E p \in Pollers : Query(p) \/ Throw(p)
  BY <1>1, <1>9 DEF StartRound, ReadHead, HeadError, Query, Throw, chainVars
<1>10. QED
  BY <1>1, <1>2, <1>3, <1>4, <1>5, <1>6, <1>7, <1>8, <1>9
     DEF WorkerNext, PollingStep, allVars, chainVars

-----------------------------------------------------------------------------
(* What is due stays due                                                   *)

\* The terms of a loan are set when it is registered and stay.
LEMMA TermsStep ==
    ASSUME IInv, [Next]_vars
    PROVE  /\ registeredLoans \subseteq registeredLoans' /\ ccBlock' \in Nat /\ ccBlock <= ccBlock'
           /\ \A l \in LoanIds :
                 \/ orders'[l].terms = orders[l].terms
                 \/ l \notin registeredLoans /\ l \in registeredLoans'
<1> DEFINE Kept == \A l \in LoanIds :
                      \/ orders'[l].terms = orders[l].terms
                      \/ l \notin registeredLoans /\ l \in registeredLoans'
<1>1. orders \in [LoanIds -> Order] /\ ccBlock \in Nat
  BY DEF IInv, TypeOK
<1>2. CASE UNCHANGED managerVars
  BY <1>1, <1>2 DEF managerVars
<1>3. ASSUME NEW offer \in Offers, RegisterLoan(offer)
      PROVE  registeredLoans \subseteq registeredLoans' /\ Kept /\ UNCHANGED ccBlock
  <2>1. nextLoanId \notin registeredLoans
    BY FS_CardinalityType DEF nextLoanId, IInv, LoansAreNumbered
  <2>2. QED
    BY <1>1, <1>3, <2>1 DEF RegisterLoan
<1>4. ASSUME NEW q \in DOMAIN logs, MarkLoanAsFunded(q) \/ NoteLoanRepayment(q)
      PROVE  UNCHANGED <<registeredLoans, ccBlock>> /\ Kept
  <2> DEFINE m == logs[q].loanId
  <2>1. UNCHANGED <<registeredLoans, ccBlock>>
    BY <1>4 DEF MarkLoanAsFunded, NoteLoanRepayment
  <2>2. CASE MarkLoanAsFunded(q)
    BY <1>1, <2>2 DEF MarkLoanAsFunded, Order
  <2>3. CASE NoteLoanRepayment(q)
    <3>1. PICK n, s : orders' = [orders EXCEPT ![m].repaidAmount = n, ![m].status = s]
      BY <2>3 DEF NoteLoanRepayment
    <3>2. QED
      BY <1>1, <2>1, <3>1 DEF Order
  <2>4. QED
    BY <1>4, <2>1, <2>2, <2>3
<1>5. ASSUME NEW l \in LoanIds, MarkLoanAsExpired(l)
      PROVE  UNCHANGED <<registeredLoans, ccBlock>> /\ Kept
  BY <1>1, <1>5 DEF MarkLoanAsExpired, Order
<1>6. CASE RegisterSourceLoanContract(Auxiliary) \/ NextBlock
  BY <1>1, <1>6 DEF RegisterSourceLoanContract, NextBlock
<1>7. CASE UNCHANGED vars
  BY <1>2, <1>7 DEF vars
<1> HIDE DEF Kept
<1>8. registeredLoans \subseteq registeredLoans' /\ ccBlock' \in Nat /\ ccBlock <= ccBlock' /\ Kept
  BY <1>1, <1>2, <1>3, <1>4, <1>5, <1>6, <1>7 DEF Next, ManagerStep, Kept
<1>9. QED
  BY <1>8 DEF Kept

\* What is due stays due, and an id that has not been given out stays empty.
LEMMA DueGrows ==
    ASSUME WorkerInv, [Next]_vars
    PROVE  Due \subseteq Due' /\ UnregisteredAreEmpty'
<1>1. IInv /\ UnregisteredAreEmpty
  BY DEF WorkerInv
<1>2. /\ registeredLoans \subseteq LoanIds /\ ccBlock \in Nat
      /\ \A l \in registeredLoans : orders[l].terms \in Offers /\ Deadline(l) \in Nat
  BY <1>1, ManagerAssumption DEF IInv, TypeOK, LoansAreNumbered, Deadline
<1>3. \A l \in registeredLoans : Deadline(l)' = Deadline(l)
  BY <1>1, <1>2, TermsStep DEF Deadline
<1>4. Due \subseteq Due'
  BY <1>1, <1>2, <1>3, TermsStep DEF Due
<1>5. UnregisteredAreEmpty'
  BY <1>1, TermsStep DEF UnregisteredAreEmpty
<1>6. QED
  BY <1>4, <1>5

\* What was due when it was sent is due when it is mined.
LEMMA DueTxsGrow ==
    ASSUME Due \subseteq Due'
    PROVE  Seq(DueTx) \subseteq Seq(DueTx')
<1>1. DueTx \subseteq DueTx'
  BY DEF DueTx
<1>2. ASSUME NEW s \in Seq(DueTx)
      PROVE  s \in Seq(DueTx')
  <2>1. s \in [1 .. Len(s) -> DueTx] /\ Len(s) \in Nat
    OBVIOUS
  <2>2. QED
    BY <1>1, <2>1
<1>3. QED
  BY <1>2

-----------------------------------------------------------------------------
(* The invariant and the theorem                                           *)

\* The invariant holds before the worker starts.
LEMMA WorkerInvInit == WorkerInit => WorkerInv
<1> SUFFICES ASSUME WorkerInit
             PROVE  WorkerInv
  OBVIOUS
<1>1. IInv
  BY ManagerInit DEF WorkerInit
<1>2. UnregisteredAreEmpty
  BY DEF WorkerInit, Init, NoOrder, UnregisteredAreEmpty
<1>3. OnlyDueExpire
  BY DEF WorkerInit, Init, OnlyDueExpire
<1>4. QED
  BY <1>1, <1>2, <1>3 DEF WorkerInv

\* A step sends to the source chain, if anything, the registration of a registered
\* loan or the expiry of one that is due.
LEMMA OnlyDueExpireStep ==
    ASSUME WorkerInv, [WorkerNext]_allVars, Due \subseteq Due', ccBlock' \in Nat, ccBlock <= ccBlock'
    PROVE  OnlyDueExpire'
<1>1. OnlyDueExpire /\ IInv /\ ccBlock \in Nat
  BY DEF WorkerInv, IInv, TypeOK
<1>2. ASSUME NEW s \in Seq(DueTx), sourceTxs' = s, emitted' \in Nat, emitted' < ccBlock,
             expiring' \subseteq Due
      PROVE  OnlyDueExpire'
  BY <1>1, <1>2, DueTxsGrow DEF OnlyDueExpire
<1>3. CASE UNCHANGED <<blockVars, sourceTxs>>
  BY <1>1, <1>2, <1>3 DEF blockVars, OnlyDueExpire
<1>4. ASSUME NEW tx \in DueTx, sourceTxs' = Append(sourceTxs, tx), UNCHANGED emitted,
             expiring' \subseteq expiring
      PROVE  OnlyDueExpire'
  <2>1. Append(sourceTxs, tx) \in Seq(DueTx)
    BY <1>1 DEF OnlyDueExpire
  <2>2. QED
    BY <1>1, <1>2, <1>4, <2>1 DEF OnlyDueExpire
<1>5. ASSUME NEW p \in Pollers, SubmitRegistration(p)
      PROVE  OnlyDueExpire'
  <2>1. CASE UNCHANGED sourceTxs
    BY <1>3, <1>5, <2>1 DEF SubmitRegistration
  <2> DEFINE tx == [kind |-> "register", id |-> LoanInHand(p)]
  <2>2. CASE CanWorkerRegister(LoanInHand(p)) /\ sourceTxs' = Append(sourceTxs, tx)
    <3>1. LoanInHand(p) \in LoanIds
      BY <1>1, <2>2 DEF CanWorkerRegister, IInv, TypeOK
    <3>2. tx \in DueTx
      BY <3>1 DEF DueTx
    <3> HIDE DEF tx
    <3>3. QED
      BY <1>4, <1>5, <2>2, <3>2 DEF SubmitRegistration, blockVars
  <2>3. QED
    BY <1>5, <2>1, <2>2 DEF SubmitRegistration, Refused
<1>6. CASE EmitBlock
  <2>1. /\ emitted < ccBlock - 1 /\ emitted' = emitted + 1 /\ UNCHANGED sourceTxs
        /\ expiring' = expiring \cup loanExpiriesAt(emitted + 1)
    BY <1>6 DEF EmitBlock
  <2>2. ASSUME NEW l \in loanExpiriesAt(emitted + 1)
        PROVE  l \in Due
    <3>1. l \in LoanIds /\ Deadline(l) = emitted + 1 /\ emitted \in Nat
      BY <1>1, <2>2 DEF loanExpiriesAt, OnlyDueExpire
    <3>2. orders[l].terms # None
      BY <3>1 DEF Deadline
    <3>3. l \in registeredLoans
      BY <3>1, <3>2 DEF WorkerInv, UnregisteredAreEmpty
    <3>4. QED
      BY <1>1, <2>1, <3>1, <3>3 DEF Due
  <2>3. expiring' \subseteq Due /\ emitted' \in Nat /\ emitted' < ccBlock
    BY <1>1, <2>1, <2>2 DEF OnlyDueExpire
  <2>4. QED
    BY <1>1, <1>2, <2>1, <2>3 DEF OnlyDueExpire
<1>7. ASSUME NEW l \in LoanIds, ExpireLoan(l)
      PROVE  OnlyDueExpire'
  <2> DEFINE tx == [kind |-> "expire", id |-> l]
  <2>1. expiring' \subseteq expiring /\ UNCHANGED emitted
    BY <1>7 DEF ExpireLoan
  <2>2. l \in Due
    BY <1>1, <1>7 DEF ExpireLoan, OnlyDueExpire
  <2>3. tx \in DueTx
    BY <2>2 DEF DueTx
  <2>4. CASE UNCHANGED sourceTxs
    BY <1>1, <1>2, <2>1, <2>4 DEF OnlyDueExpire
  <2>5. CASE sourceTxs' = Append(sourceTxs, tx)
    BY <1>4, <2>1, <2>3, <2>5
  <2>6. QED
    BY <1>7, <2>4, <2>5 DEF ExpireLoan
<1>8. CASE MineOnSource
  BY <1>1, <1>2, <1>8, HeadIsDue DEF MineOnSource, OnlyDueExpire, blockVars
<1>9. CASE MineOnCreditcoin \/ Attest
  BY <1>3, <1>9 DEF MineOnCreditcoin, Attest, workerVars
<1>10. ASSUME NEW p \in Pollers, Handle(p), ~SubmitRegistration(p)
       PROVE  OnlyDueExpire'
  BY <1>3, <1>10
     DEF Handle, OnRegistered, OnSourceEvent, Prove, ReadFundedOrder, SubmitFundProof,
         FundProofSent, ReadRepaidOrder, SubmitRepayProof, RepayProofSent, SendProof, Refused
<1>11. CASE \/ StartRound
            \/ \E S \in Heads : ReadHead(S) \/ HeadError(S)
            \/ \E p \in Pollers : Query(p) \/ Throw(p)
  BY <1>3, <1>11 DEF StartRound, ReadHead, HeadError, Query, Throw
<1>12. CASE UNCHANGED workerVars
  BY <1>3, <1>12 DEF workerVars
<1>13. QED
  BY <1>5, <1>6, <1>7, <1>8, <1>9, <1>10, <1>11, <1>12
     DEF WorkerNext, PollingStep, BlockStep, allVars

\* Every step keeps the invariant, and is one of the contracts.
LEMMA WorkerInvStep == WorkerInv /\ [WorkerNext]_allVars => WorkerInv' /\ [Next]_vars
<1> SUFFICES ASSUME WorkerInv, [WorkerNext]_allVars
             PROVE  WorkerInv' /\ [Next]_vars
  OBVIOUS
<1>1. [Next]_vars
  BY WorkerUsesTheContracts
<1>2. IInv'
  BY <1>1, ManagerInvariantStep DEF WorkerInv
<1>3. Due \subseteq Due' /\ UnregisteredAreEmpty'
  BY <1>1, DueGrows
<1>4. ccBlock' \in Nat /\ ccBlock <= ccBlock'
  BY <1>1, TermsStep DEF WorkerInv
<1>5. QED
  BY <1>1, <1>2, <1>3, <1>4, OnlyDueExpireStep DEF WorkerInv

\* The worker does to the contracts only what LoanManager lets their owner do: it
\* registers fundings by the terms of their orders and expires no loan early,
\* whatever it has seen, missed or been told twice.
THEOREM WorkerUsesLoanManager == WorkerSpec => ImplementsLoanManager
<1>1. WorkerInit => Init
  BY DEF WorkerInit
<1>2. QED
  BY <1>1, WorkerInvInit, WorkerInvStep, PTL DEF WorkerSpec, ImplementsLoanManager, Spec

\* So that what Creditcoin calls funded is lent, with the worker as well.
THEOREM WorkerFundsAreLent == WorkerSpec => []FundedIsLent
  BY WorkerUsesLoanManager, FundedLoansAreLent, PTL DEF ImplementsLoanManager

-----------------------------------------------------------------------------
(* What the worker counts: the invariant                                   *)

\* The loans whose deadline has passed.
Late == {l \in registeredLoans : ccBlock > Deadline(l)}

\* A repayment, and a debt, is of some tokens.
AmountsArePositive ==
    /\ \A q \in DOMAIN logs :
          logs[q].contract = Auxiliary /\ logs[q].event = "LoanRepaid" => logs[q].amount > 0
    /\ \A l \in registeredLoans : orders[l].terms.repay > 0

\* Loans are registered once the source is known, and expire only late.
ManagerIsSetUp ==
    /\ registeredLoans # {} => sourceLoanContract = Auxiliary
    /\ \A l \in LoanIds : orders[l].status = "Expired" => l \in Late

\* The attested repayments of loans that have been funded.
Provables ==
    {q \in 1 .. attested : /\ logs[q].contract = Auxiliary /\ logs[q].event = "LoanRepaid"
                           /\ orders[logs[q].loanId].status # "Created"}

\* What the worker sends to Creditcoin, which it proves and expires.
CcTx ==
    {tx \in [kind : {"fund", "repay", "expire"}, id : Nat] :
        /\ tx.kind = "repay" => tx.id \in Provables
        /\ tx.kind = "expire" => tx.id \in Late}

CcQueue == expiring \subseteq Late /\ ccTxs \in Seq(CcTx)

\* A poll that goes through a chunk, one that has events of it left, and one that
\* is past the first await of the handler of a log.
Reading(poll) == poll.at \in Waits \ {"head"}
Handling(poll) == poll.at \in Waits \ {"head", "chunk"}
Awaiting == {"order", "proof", "submit", "sent"}

\* The block that the poll will stand at when it returns.
Goal(poll) == IF Reading(poll) THEN poll.head + 1 ELSE poll.start

\* The events that a poll of these blocks may deliver.
Todo(p, first, last) ==
    IF p = "LoanRegistered" THEN registeredLoans
    ELSE {q \in DOMAIN logs \cap first .. last :
             logs[q].contract = Auxiliary /\ logs[q].event = p}

\* The state of a poll: it reads up to the head, and what it has to do is of its chunk.
PollIsRight(p, poll) ==
    /\ poll \in Polls(Nat)
    /\ Reading(poll) => poll.start <= poll.head
    /\ Handling(poll) =>
          /\ poll.todo # <<>>
          /\ \A i \in DOMAIN poll.todo : poll.todo[i] \in Todo(p, poll.start, ChunkEnd(poll))

\* The polls of the source chain, of which only one result is used, go to the same block.
PollsAgree ==
    /\ Goal(polls["LoanFunded"]) = Goal(polls["LoanRepaid"])
    /\ polls["LoanFunded"].at = "head" <=> polls["LoanRepaid"].at = "head"

\* What is remembered of the repayments is behind the block that the poll goes to.
CacheIsBehind(cache, poll) == \A q \in Nat : <<"LoanRepaid", q>> \in cache => q < Goal(poll)

PollInv ==
    /\ polls \in [Pollers -> Polls(Nat)]
    /\ \A p \in Pollers : PollIsRight(p, polls[p])
    /\ PollsAgree
    /\ CacheIsBehind(processedTxs, polls["LoanRepaid"])

\* A log in hand is of a loan in the tracker; a repayment in hand has not been dealt
\* with, and is one Creditcoin has been told of when its proof has been sent.
HandIsRight(p, poll) ==
    poll.at \in Awaiting /\ p \in SourceEvents =>
        /\ tracker[logs[Head(poll.todo)].loanId] # None
        /\ p = "LoanRepaid" =>
              /\ <<p, Head(poll.todo)>> \notin processedTxs
              /\ poll.at \in {"submit", "sent"} => Head(poll.todo) <= attested
              /\ poll.at = "sent" =>
                    Head(poll.todo) \in Told \/ logs[Head(poll.todo)].loanId \in Late

HandInv == \A p \in Pollers : HandIsRight(p, polls[p])

\* The repayments that the worker is through with: behind the poll, or remembered.
Finished == {q \in Nat : q < polls["LoanRepaid"].start \/ <<"LoanRepaid", q>> \in processedTxs}

\* A loan on which `left` is left has been paid the rest by repayments that are done
\* with, and until its deadline by those of them Creditcoin is told of.
IsCounted(l, left, done) ==
    /\ orders[l].terms.repay - left <= Volume(Repayments(l) \cap done)
    /\ \/ l \in Late
       \/ orders[l].terms.repay - left <= Volume(Repayments(l) \cap done \cap Told)

PaidInFull(l) == repayLeft[l] = 0 /\ Repayments(l) # {}

\* What the tracker may hold of loan l.
InfoIsRight(l, info, done) ==
    info # None =>
        /\ l \in registeredLoans
        /\ IsCounted(l, info.repayLeft, done)
        /\ info.repaid => PaidInFull(l)

TrackerInv ==
    /\ tracker \in [LoanIds -> LoanInfo \cup {None}]
    /\ \A l \in LoanIds : InfoIsRight(l, tracker[l], Finished)

\* The loans that are about to expire are in the tracker.
ExpiringAreTracked == \A l \in expiring : tracker[l] # None

\* The inductive invariant, on top of WorkerInv and of what the contracts promise.
CountInv ==
    /\ AmountsArePositive /\ ManagerIsSetUp /\ CcQueue
    /\ PollInv /\ HandInv /\ TrackerInv /\ ExpiringAreTracked

-----------------------------------------------------------------------------
(* What is late, proved and paid stays so                                  *)

\* A log of the auxiliary contract is of a registered loan.
LEMMA LoggedIsRegistered ==
    ASSUME IInv, NEW q \in DOMAIN logs, logs[q].contract = Auxiliary
    PROVE  logs[q].loanId \in registeredLoans /\ logs[q].loanId \in LoanIds
<1>1. logs[q].loanId \in repayable /\ repayable \subseteq LoanIds
  BY DEF IInv, RepayableIsFunded, TypeOK, AuxiliaryTypeOK
<1>2. flows[logs[q].loanId] # None
  BY <1>1 DEF IInv, RepayableIsFunded
<1>3. QED
  BY <1>1, <1>2 DEF IInv, FlowsFollowOrders

\* What is late stays late.
LEMMA LateGrows ==
    ASSUME IInv, [Next]_vars
    PROVE  Late \subseteq Late'
<1>1. /\ registeredLoans \subseteq LoanIds /\ ccBlock \in Nat
      /\ \A l \in registeredLoans : orders[l].terms \in Offers /\ Deadline(l) \in Nat
  BY ManagerAssumption DEF IInv, TypeOK, LoansAreNumbered, Deadline
<1>2. \A l \in registeredLoans : Deadline(l)' = Deadline(l)
  BY <1>1, TermsStep DEF Deadline
<1>3. QED
  BY <1>1, <1>2, TermsStep DEF Late

\* What can be proved stays attested, and of a loan that has been funded.
LEMMA ProvablesGrow ==
    ASSUME IInv, [Next]_vars
    PROVE  Provables \subseteq Provables'
<1>1. logs \in Seq(LoanLog) /\ attested \in 0 .. Len(logs) /\ Len(logs) \in Nat
  BY LenProperties DEF IInv, TypeOK, AuxiliaryTypeOK
<1>2. attested' \in Nat /\ attested <= attested'
  BY <1>1 DEF Next, SourceStep, Authorize, WorkerRegisters, RegisterLoanFund, FundLoan, RepayLoan,
         ExpireOnSource, OtherLog, AttestLog, vars, auxiliaryVars
<1>3. ASSUME NEW q \in Provables
      PROVE  q \in Provables'
  <2>1. /\ q \in 1 .. attested /\ logs[q].contract = Auxiliary /\ logs[q].event = "LoanRepaid"
        /\ orders[logs[q].loanId].status # "Created"
    BY <1>3 DEF Provables
  <2>2. q \in DOMAIN logs /\ q \in 1 .. attested'
    BY <1>1, <1>2, <2>1, LenProperties
  <2>3. logs[q].loanId \in registeredLoans
    BY <2>1, <2>2, LoggedIsRegistered
  <2>4. logs'[q] = logs[q] /\ orders'[logs[q].loanId].status # "Created"
    BY <2>1, <2>2, <2>3, ContractsKeep
  <2>5. QED
    BY <2>1, <2>2, <2>4 DEF Provables
<1>4. QED
  BY <1>3

\* What was sent to Creditcoin may be sent later.
LEMMA CcTxsGrow ==
    ASSUME IInv, [Next]_vars
    PROVE  Seq(CcTx) \subseteq Seq(CcTx')
<1>1. CcTx \subseteq CcTx'
  BY LateGrows, ProvablesGrow DEF CcTx
<1>2. QED
  BY <1>1, SeqGrows

\* Payments and debts are of some tokens.
LEMMA AmountsStep ==
    ASSUME IInv, AmountsArePositive, [Next]_vars
    PROVE  AmountsArePositive'
<1>1. /\ logs \in Seq(LoanLog) /\ orders \in [LoanIds -> Order] /\ registeredLoans \subseteq LoanIds
      /\ repayLeft \in [LoanIds -> Nat] /\ Payments \subseteq Nat
      /\ Auxiliary \notin Others
  BY ManagerAssumption, AuxiliaryAssumption DEF IInv, TypeOK, AuxiliaryTypeOK
<1> DEFINE Logged == \/ UNCHANGED logs
                     \/ \E log : /\ logs' = Append(logs, log)
                                 /\ log.contract = Auxiliary /\ log.event = "LoanRepaid" => log.amount > 0
<1>2. Logged
  <2>1. ASSUME NEW l \in LoanIds, NEW amount \in Payments, FundLoan(l, amount)
        PROVE  Logged
    BY <2>1 DEF FundLoan, Log
  <2>2. ASSUME NEW l \in LoanIds, NEW amount \in Payments, RepayLoan(l, amount)
        PROVE  Logged
    <3>1. logs' = Append(logs, Log(Auxiliary, "LoanRepaid", l, RepayPaid(l, amount)))
      BY <2>2 DEF RepayLoan
    <3>2. amount > 0 /\ repayLeft[l] > 0 /\ amount \in Nat /\ repayLeft[l] \in Nat
      BY <1>1, <2>2 DEF RepayLoan, CanRepayLoan
    <3>3. RepayPaid(l, amount) > 0
      BY <3>2 DEF RepayPaid, Capped, Min2
    <3>4. QED
      BY <3>1, <3>3 DEF Log
  <2>3. ASSUME NEW c \in Others, NEW e, NEW l, NEW amount, OtherLog(c, e, l, amount)
        PROVE  Logged
    BY <1>1, <2>3 DEF OtherLog, Log
  <2>4. CASE UNCHANGED logs
    BY <2>4
  <2>5. QED
    BY <2>1, <2>2, <2>3, <2>4
       DEF Next, SourceStep, Authorize, WorkerRegisters, RegisterLoanFund, ExpireOnSource,
           AttestLog, vars, auxiliaryVars
<1>3. \A q \in DOMAIN logs' :
         logs'[q].contract = Auxiliary /\ logs'[q].event = "LoanRepaid" => logs'[q].amount > 0
  <2>1. CASE UNCHANGED logs
    BY <2>1 DEF AmountsArePositive
  <2>2. ASSUME NEW log, logs' = Append(logs, log),
               log.contract = Auxiliary /\ log.event = "LoanRepaid" => log.amount > 0,
               NEW q \in DOMAIN logs'
        PROVE  logs'[q].contract = Auxiliary /\ logs'[q].event = "LoanRepaid" => logs'[q].amount > 0
    <3>1. (q \in DOMAIN logs /\ logs'[q] = logs[q]) \/ logs'[q] = log
      BY <1>1, <2>2
    <3>2. QED
      BY <2>2, <3>1 DEF AmountsArePositive
  <2>3. QED
    BY <1>2, <2>1, <2>2
<1>4. ASSUME NEW l \in registeredLoans'
      PROVE  orders'[l].terms.repay > 0
  <2>1. CASE l \in registeredLoans
    BY <1>1, <2>1, TermsStep DEF AmountsArePositive
  <2>2. CASE l \notin registeredLoans
    <3>1. PICK offer \in Offers : RegisterLoan(offer)
      BY <2>2 DEF Next, ManagerStep, RegisterSourceLoanContract, MarkLoanAsFunded,
             NoteLoanRepayment, MarkLoanAsExpired, NextBlock, vars, managerVars
    <3>2. l = nextLoanId /\ l \in LoanIds /\ offer.amount > 0 /\ offer.repay >= offer.amount
          /\ orders' = [orders EXCEPT ![nextLoanId] =
                           [terms |-> offer, status |-> "Created", repaidAmount |-> 0]]
      BY <2>2, <3>1 DEF RegisterLoan
    <3>3. orders'[l].terms = offer
      BY <1>1, <3>2
    <3>4. offer.amount \in Nat /\ offer.repay \in Nat
      BY ManagerAssumption
    <3>5. QED
      BY <3>2, <3>3, <3>4
  <2>3. QED
    BY <2>1, <2>2
<1>5. QED
  BY <1>3, <1>4 DEF AmountsArePositive

-----------------------------------------------------------------------------
(* The polls                                                               *)

\* A poll goes on to where it was going.
Advances(p, poll, next) ==
    /\ PollIsRight(p, next)
    /\ next.at # "head" /\ Goal(next) = Goal(poll) /\ poll.start <= next.start

\* A chunk is between the start and the head.
LEMMA ChunkIsBounded ==
    ASSUME NEW p, NEW poll, PollIsRight(p, poll), Reading(poll)
    PROVE  /\ poll.start \in Nat /\ poll.head \in Nat /\ ChunkEnd(poll) \in Nat
           /\ poll.start <= ChunkEnd(poll) /\ ChunkEnd(poll) <= poll.head
<1>1. /\ poll.start \in Nat /\ poll.head \in Nat /\ poll.chunk \in Nat /\ poll.chunk >= 1
      /\ poll.start <= poll.head
  BY MaxLogBlockRangeAssumption DEF PollIsRight, Polls
<1>2. QED
  BY <1>1 DEF ChunkEnd

\* The event in hand is one of those the poll may deliver.
LEMMA HeadIsTodo ==
    ASSUME NEW p, NEW poll, PollIsRight(p, poll), Handling(poll)
    PROVE  /\ Reading(poll)
           /\ Head(poll.todo) \in Nat
           /\ Head(poll.todo) \in Todo(p, poll.start, ChunkEnd(poll))
<1>1. /\ poll.todo \in Seq(Nat) /\ poll.todo # <<>>
      /\ \A i \in DOMAIN poll.todo : poll.todo[i] \in Todo(p, poll.start, ChunkEnd(poll))
  BY DEF PollIsRight, Polls
<1>2. 1 \in DOMAIN poll.todo /\ Head(poll.todo) = poll.todo[1] /\ Head(poll.todo) \in Nat
  BY <1>1, EmptySeq, LenProperties, HeadTailProperties
<1>3. QED
  BY <1>1, <1>2 DEF Reading, Handling

\* A log in hand is of the auxiliary contract, and in the chunk.
LEMMA LogInHand ==
    ASSUME NEW p \in SourceEvents, NEW poll, PollIsRight(p, poll), Handling(poll)
    PROVE  /\ Head(poll.todo) \in DOMAIN logs /\ Head(poll.todo) \in Nat
           /\ logs[Head(poll.todo)].contract = Auxiliary /\ logs[Head(poll.todo)].event = p
           /\ poll.start <= Head(poll.todo) /\ Head(poll.todo) <= poll.head
           /\ Head(poll.todo) < Goal(poll)
<1>1. /\ Reading(poll) /\ Head(poll.todo) \in Nat
      /\ Head(poll.todo) \in Todo(p, poll.start, ChunkEnd(poll))
  BY HeadIsTodo
<1>2. /\ Head(poll.todo) \in DOMAIN logs \cap poll.start .. ChunkEnd(poll)
      /\ logs[Head(poll.todo)].contract = Auxiliary /\ logs[Head(poll.todo)].event = p
  BY <1>1 DEF Todo, SourceEvents
<1>3. /\ poll.start \in Nat /\ poll.head \in Nat /\ ChunkEnd(poll) \in Nat
      /\ poll.start <= ChunkEnd(poll) /\ ChunkEnd(poll) <= poll.head
  BY <1>1, ChunkIsBounded
<1>4. poll.start <= Head(poll.todo) /\ Head(poll.todo) <= poll.head
  BY <1>1, <1>2, <1>3
<1>5. QED
  BY <1>1, <1>2, <1>3, <1>4 DEF Goal

\* The chunk is through.
LEMMA OnwardAdvances ==
    ASSUME NEW p, NEW poll, PollIsRight(p, poll), Reading(poll)
    PROVE  Advances(p, poll, Onward(poll)) /\ Onward(poll).at \notin Awaiting
<1> DEFINE next == ChunkEnd(poll) + 1
<1>1. /\ poll.start \in Nat /\ poll.head \in Nat /\ next \in Nat
      /\ poll.start < next /\ next <= poll.head + 1
  BY ChunkIsBounded
<1> HIDE DEF next
<1>2. CASE next > poll.head
  <2>1. Onward(poll) = [at |-> "done", start |-> next, head |-> 0, chunk |-> MaxLogBlockRange,
                        todo |-> <<>>]
    BY <1>2 DEF Onward, PollFrom, next
  <2>2. PollIsRight(p, Onward(poll))
    BY <1>1, <2>1, MaxLogBlockRangeAssumption DEF PollIsRight, Polls, Waits, Reading, Handling
  <2>3. Goal(Onward(poll)) = next /\ Goal(poll) = poll.head + 1
    BY <2>1 DEF Goal, Reading, Waits
  <2>4. QED
    BY <1>1, <1>2, <2>1, <2>2, <2>3 DEF Advances, Awaiting
<1>3. CASE ~(next > poll.head)
  <2>1. Onward(poll) = [at |-> "chunk", start |-> next, head |-> poll.head,
                        chunk |-> MaxLogBlockRange, todo |-> <<>>]
    BY <1>3 DEF Onward, PollFrom, next
  <2>2. PollIsRight(p, Onward(poll))
    BY <1>1, <1>3, <2>1, MaxLogBlockRangeAssumption DEF PollIsRight, Polls, Waits, Reading, Handling
  <2>3. Goal(Onward(poll)) = Goal(poll)
    BY <2>1 DEF Goal, Reading, Waits
  <2>4. QED
    BY <1>1, <2>1, <2>2, <2>3 DEF Advances, Awaiting
<1>4. QED
  BY <1>2, <1>3

\* A poll that is about the same blocks, with what is left to do of them.
LEMMA SameChunk ==
    ASSUME NEW p, NEW poll, PollIsRight(p, poll), Reading(poll),
           NEW next \in Polls(Nat), next.at \in Waits \ {"head", "chunk"},
           next.start = poll.start, next.head = poll.head, next.chunk = poll.chunk,
           next.todo # <<>>,
           \A i \in DOMAIN next.todo : next.todo[i] \in Todo(p, poll.start, ChunkEnd(poll))
    PROVE  Advances(p, poll, next)
<1>1. ChunkEnd(next) = ChunkEnd(poll)
  BY DEF ChunkEnd
<1>2. Reading(next) /\ next.at # "head"
  BY DEF Reading
<1>3. next.start <= next.head /\ poll.start <= next.start
  BY DEF PollIsRight, Polls
<1>4. PollIsRight(p, next)
  BY <1>1, <1>3 DEF PollIsRight
<1>5. QED
  BY <1>2, <1>3, <1>4 DEF Advances, Goal

\* The handler of an event returns.
LEMMA ReturnedAdvances ==
    ASSUME NEW p, NEW poll, PollIsRight(p, poll), Handling(poll)
    PROVE  Advances(p, poll, Returned(poll)) /\ Returned(poll).at \notin Awaiting
<1>1. Reading(poll)
  BY DEF Handling, Reading
<1>2. CASE Len(poll.todo) = 1
  BY <1>1, <1>2, OnwardAdvances DEF Returned
<1>3. CASE Len(poll.todo) # 1
  <2> DEFINE t == Tail(poll.todo)
             r == [poll EXCEPT !.at = "event", !.todo = t]
  <2>1. Returned(poll) = r
    BY <1>3 DEF Returned
  <2>2. /\ poll \in Polls(Nat) /\ poll.todo \in Seq(Nat) /\ poll.todo # <<>>
        /\ \A i \in DOMAIN poll.todo : poll.todo[i] \in Todo(p, poll.start, ChunkEnd(poll))
    BY DEF PollIsRight, Polls
  <2>3. /\ t \in Seq(Nat) /\ Len(t) = Len(poll.todo) - 1
        /\ \A i \in 1 .. Len(poll.todo) - 1 : t[i] = poll.todo[i + 1]
    BY <2>2, HeadTailProperties
  <2>4. Len(poll.todo) \in Nat /\ Len(poll.todo) # 0 /\ DOMAIN poll.todo = 1 .. Len(poll.todo)
    BY <2>2, EmptySeq, LenProperties
  <2>5. DOMAIN t = 1 .. Len(t) /\ Len(t) # 0
    BY <1>3, <2>3, <2>4, LenProperties
  <2> HIDE DEF t
  <2>6. t # <<>>
    BY <2>5
  <2>7. ASSUME NEW i \in DOMAIN t
        PROVE  t[i] \in Todo(p, poll.start, ChunkEnd(poll))
    <3>1. i \in 1 .. Len(poll.todo) - 1 /\ i + 1 \in DOMAIN poll.todo
      BY <2>3, <2>4, <2>5
    <3>2. QED
      BY <2>2, <2>3, <3>1
  <2>8. r \in Polls(Nat) /\ r.at = "event" /\ r.start = poll.start /\ r.head = poll.head
           /\ r.chunk = poll.chunk /\ r.todo = t
    BY <2>2, <2>3 DEF Polls, Waits
  <2> HIDE DEF r
  <2>9. Advances(p, poll, r)
    BY <1>1, <2>6, <2>7, <2>8, SameChunk DEF Waits
  <2>10. QED
    BY <2>1, <2>8, <2>9 DEF Awaiting
<1>4. QED
  BY <1>2, <1>3

\* The handler of an event waits for something else.
LEMMA WaitingAdvances ==
    ASSUME NEW p, NEW poll, PollIsRight(p, poll), Handling(poll), NEW what \in Awaiting
    PROVE  /\ Advances(p, poll, Waiting(poll, what))
           /\ Waiting(poll, what).at = what /\ Waiting(poll, what).todo = poll.todo
<1> DEFINE w == Waiting(poll, what)
<1>1. w \in Polls(Nat) /\ w.at = what /\ w.start = poll.start /\ w.head = poll.head
         /\ w.chunk = poll.chunk /\ w.todo = poll.todo
  BY DEF PollIsRight, Waiting, Polls, Waits, Awaiting
<1> HIDE DEF w
<1>2. /\ Reading(poll) /\ poll.todo # <<>>
      /\ \A i \in DOMAIN poll.todo : poll.todo[i] \in Todo(p, poll.start, ChunkEnd(poll))
  BY DEF PollIsRight, Handling, Reading
<1>3. Advances(p, poll, w)
  BY <1>1, <1>2, SameChunk DEF Waits, Awaiting
<1>4. QED
  BY <1>1, <1>3 DEF w

\* The query or the handler throws.
LEMMA FailedAdvances ==
    ASSUME NEW p, NEW poll, PollIsRight(p, poll), Reading(poll)
    PROVE  Advances(p, poll, ChunkFailed(poll)) /\ ChunkFailed(poll).at \notin Awaiting
<1>1. CASE ~(poll.chunk > 1)
  BY <1>1, OnwardAdvances DEF ChunkFailed
<1>2. CASE poll.chunk > 1
  <2>1. poll \in Polls(Nat) /\ poll.chunk \in 1 .. MaxLogBlockRange
    BY DEF PollIsRight, Polls
  <2> DEFINE c == poll.chunk \div 2
             none == <<>>
             f == [poll EXCEPT !.at = "chunk", !.chunk = c, !.todo = none]
  <2>2. ChunkFailed(poll) = f
    BY <1>2, <2>1 DEF ChunkFailed, Polls
  <2>3. c \in 1 .. MaxLogBlockRange /\ none \in Seq(Nat)
    BY <1>2, <2>1, MaxLogBlockRangeAssumption
  <2> HIDE DEF c, none
  <2>4. f \in Polls(Nat) /\ f.at = "chunk" /\ f.start = poll.start /\ f.head = poll.head
    BY <2>1, <2>3 DEF Polls, Waits
  <2> HIDE DEF f
  <2>5. f.start <= f.head /\ poll.start <= f.start
    BY <2>1, <2>4 DEF PollIsRight, Polls
  <2>6. PollIsRight(p, f)
    BY <2>4, <2>5 DEF PollIsRight, Handling
  <2>7. Goal(f) = Goal(poll)
    BY <2>4 DEF Goal, Reading, Waits
  <2>8. QED
    BY <2>2, <2>4, <2>5, <2>6, <2>7 DEF Advances, Awaiting
<1>3. QED
  BY <1>1, <1>2

\* The events of a query are those that the poll may deliver.
LEMMA EventsAreTodo ==
    ASSUME IInv, NEW p \in Pollers, NEW first \in Nat, NEW last \in Nat
    PROVE  /\ EventsBetween(p, first, last) \in Seq(Todo(p, first, last))
           /\ Todo(p, first, last) \subseteq Nat
<1> DEFINE T == Todo(p, first, last)
           Seen(n) == IF p = "LoanRegistered" THEN registeredAt[n] \in first .. last
                      ELSE n \in first .. last /\ logs[n].contract = Auxiliary /\ logs[n].event = p
           count == IF p = "LoanRegistered" THEN Cardinality(registeredLoans) ELSE Len(logs)
           seqs == [n \in 1 .. count |-> IF Seen(n) THEN <<n>> ELSE <<>>]
<1>1. logs \in Seq(LoanLog) /\ registeredLoans = 1 .. Cardinality(registeredLoans)
         /\ IsFiniteSet(registeredLoans)
  BY DEF IInv, TypeOK, AuxiliaryTypeOK, LoansAreNumbered
<1>2. count \in Nat
  BY <1>1, FS_CardinalityType, LenProperties
<1>3. \A n \in 1 .. count : Seen(n) => n \in T
  <2>1. CASE p = "LoanRegistered"
    BY <1>1, <2>1 DEF Todo
  <2>2. CASE p # "LoanRegistered"
    BY <1>1, <2>2, LenProperties DEF Todo
  <2>3. QED
    BY <2>1, <2>2
<1>4. T \subseteq Nat
  <2>1. registeredLoans \subseteq Nat
    BY <1>1, FS_CardinalityType
  <2>2. DOMAIN logs \subseteq Nat
    BY <1>1, LenProperties
  <2>3. QED
    BY <2>1, <2>2 DEF Todo
<1>5. EventsBetween(p, first, last) = FlattenSeq(seqs)
  BY DEF EventsBetween
<1> HIDE DEF T, Seen, count
<1>6. seqs \in [1 .. count -> Seq(T)]
  <2>1. ASSUME NEW n \in 1 .. count
        PROVE  (IF Seen(n) THEN <<n>> ELSE <<>>) \in Seq(T)
    BY <1>3
  <2>2. QED
    BY <2>1
<1> HIDE DEF seqs
<1>7. QED
  BY <1>2, <1>4, <1>5, <1>6, FlattenType DEF T

\* The query returns.
LEMMA QueriedAdvances ==
    ASSUME IInv, NEW p \in Pollers, NEW poll, PollIsRight(p, poll), Reading(poll)
    PROVE  LET next == Queried(poll, EventsBetween(p, poll.start, ChunkEnd(poll))) IN
           Advances(p, poll, next) /\ next.at \notin Awaiting
<1> DEFINE T == Todo(p, poll.start, ChunkEnd(poll))
           events == EventsBetween(p, poll.start, ChunkEnd(poll))
           q == [poll EXCEPT !.at = "event", !.todo = events]
<1>1. events \in Seq(T) /\ T \subseteq Nat
  BY ChunkIsBounded, EventsAreTodo
<1>2. poll \in Polls(Nat)
  BY DEF PollIsRight
<1> HIDE DEF T, events
<1>3. CASE events = <<>>
  BY <1>3, OnwardAdvances DEF Queried, events
<1>4. CASE events # <<>>
  <2>1. events \in Seq(Nat)
    BY <1>1, SeqWider
  <2>2. q \in Polls(Nat) /\ q.at = "event" /\ q.start = poll.start /\ q.head = poll.head
           /\ q.chunk = poll.chunk /\ q.todo = events
    BY <1>2, <2>1 DEF Polls, Waits
  <2>3. Queried(poll, events) = q
    BY <1>4 DEF Queried
  <2> HIDE DEF q
  <2>4. \A i \in DOMAIN events : events[i] \in T
    BY <1>1
  <2>5. Advances(p, poll, q)
    BY <1>4, <2>2, <2>4, SameChunk DEF Waits, T
  <2>6. QED
    BY <2>2, <2>3, <2>5 DEF Awaiting, events
<1>5. QED
  BY <1>3, <1>4

-----------------------------------------------------------------------------
(* What is sent to Creditcoin                                              *)

\* The worker's own steps leave the chains alone.
LEMMA OwnSteps ==
    ASSUME PollingStep \/ BlockStep
    PROVE  UNCHANGED chainVars
<1>1. CASE BlockStep
  BY <1>1 DEF BlockStep, EmitBlock, ExpireLoan
<1>2. CASE \E p \in Pollers : Handle(p)
  BY <1>2
     DEF Handle, OnRegistered, SubmitRegistration, OnSourceEvent, Prove, ReadFundedOrder,
         SubmitFundProof, FundProofSent, ReadRepaidOrder, SubmitRepayProof, RepayProofSent
<1>3. CASE \/ StartRound
           \/ \E S \in Heads : ReadHead(S) \/ HeadError(S)
           \/ \E p \in Pollers : Query(p) \/ Throw(p)
  BY <1>3 DEF StartRound, ReadHead, HeadError, Query, Throw
<1>4. QED
  BY <1>1, <1>2, <1>3 DEF PollingStep

\* What is mined on Creditcoin is one of the worker's transactions.
LEMMA HeadOfCcTxs ==
    ASSUME CcQueue, ccTxs # <<>>
    PROVE  Head(ccTxs) \in CcTx /\ Tail(ccTxs) \in Seq(CcTx)
<1>1. ccTxs \in Seq(CcTx)
  BY DEF CcQueue
<1>2. QED
  BY <1>1, HeadTailProperties

\* Only the worker expires loans on Creditcoin, and only late.
LEMMA SetUpStep ==
    ASSUME WorkerInv, ManagerIsSetUp, CcQueue, [WorkerNext]_allVars
    PROVE  ManagerIsSetUp'
<1>1. IInv /\ [Next]_vars /\ sourceLoanContract \in {None, Auxiliary}
      /\ orders \in [LoanIds -> Order]
  BY WorkerUsesTheContracts DEF WorkerInv, IInv, TypeOK
<1>2. CASE UNCHANGED vars
  BY <1>2 DEF vars, managerVars, ManagerIsSetUp, Late, Deadline
<1>3. Late \subseteq Late'
  BY <1>1, LateGrows
<1>4. registeredLoans' # {} => sourceLoanContract' = Auxiliary
  <2>1. CASE UNCHANGED <<registeredLoans, sourceLoanContract>>
    BY <2>1 DEF ManagerIsSetUp
  <2>2. CASE MineOnCreditcoin
    BY <2>1, <2>2 DEF MineOnCreditcoin, MarkLoanAsFunded, NoteLoanRepayment, MarkLoanAsExpired,
           managerVars
  <2>3. CASE Parties
    BY <1>1, <2>1, <2>3
       DEF Parties, SetUp, RegisterLoan, RegisterSourceLoanContract, MarkLoanAsFunded,
           NoteLoanRepayment, managerVars
  <2>4. CASE MineOnSource \/ Attest \/ NextBlock
    BY <2>1, <2>4 DEF MineOnSource, Attest, NextBlock, managerVars
  <2>5. CASE PollingStep \/ BlockStep
    BY <1>2, <2>5, OwnSteps DEF chainVars, vars, managerVars, ManagerIsSetUp
  <2>6. CASE UNCHANGED allVars
    BY <2>1, <2>6 DEF allVars, chainVars, vars, managerVars
  <2>7. QED
    BY <2>2, <2>3, <2>4, <2>5, <2>6 DEF WorkerNext
<1>5. ASSUME NEW l \in LoanIds, orders'[l].status = "Expired"
      PROVE  l \in Late'
  <2>1. CASE orders[l].status = "Expired"
    BY <1>3, <2>1 DEF ManagerIsSetUp
  <2> SUFFICES ASSUME orders[l].status # "Expired"
               PROVE  l \in Late'
    BY <2>1
  <2>2. orders'[l] # orders[l]
    BY <1>5
  <2>3. ASSUME NEW q, MarkLoanAsFunded(q) \/ NoteLoanRepayment(q)
        PROVE  FALSE
    <3>1. CASE MarkLoanAsFunded(q)
      BY <1>1, <1>5, <2>2, <3>1 DEF MarkLoanAsFunded, Order
    <3>2. CASE NoteLoanRepayment(q)
      <4> DEFINE m == logs[q].loanId
      <4>1. PICK n : orders' = [orders EXCEPT ![m].repaidAmount = n,
                                              ![m].status = StatusAfter(m, n)]
        BY <3>2 DEF NoteLoanRepayment
      <4>2. StatusAfter(m, n) # "Expired"
        BY DEF StatusAfter
      <4>3. QED
        BY <1>1, <1>5, <2>2, <4>1, <4>2 DEF Order
    <3>3. QED
      BY <2>3, <3>1, <3>2
  <2>4. CASE MineOnCreditcoin
    <3> DEFINE tx == Head(ccTxs)
    <3>1. tx \in CcTx
      BY <2>4, HeadOfCcTxs DEF MineOnCreditcoin
    <3>2. tx.kind = "expire" /\ MarkLoanAsExpired(tx.id)
      BY <2>2, <2>3, <2>4 DEF MineOnCreditcoin, managerVars
    <3>3. tx.id \in Late /\ orders' = [orders EXCEPT ![tx.id].status = "Expired"]
      BY <3>1, <3>2 DEF CcTx, MarkLoanAsExpired
    <3>4. tx.id = l
      BY <1>1, <2>2, <3>3
    <3>5. QED
      BY <1>3, <3>3, <3>4
  <2>5. CASE Parties
    <3>1. CASE \E offer \in Offers : RegisterLoan(offer)
      <4>1. PICK offer \in Offers : RegisterLoan(offer)
        BY <3>1
      <4>2. orders'[l].status # "Expired"
        BY <1>1, <2>2, <4>1 DEF RegisterLoan
      <4>3. QED
        BY <1>5, <4>2
    <3>2. CASE UNCHANGED orders
      BY <2>2, <3>2
    <3>3. QED
      BY <2>3, <2>5, <3>1, <3>2 DEF Parties, SetUp, RegisterSourceLoanContract, managerVars
  <2>6. CASE MineOnSource \/ Attest \/ NextBlock
    BY <2>2, <2>6 DEF MineOnSource, Attest, NextBlock, managerVars
  <2>7. CASE PollingStep \/ BlockStep \/ UNCHANGED allVars
    BY <2>2, <2>7, OwnSteps DEF allVars, chainVars, vars, managerVars
  <2>8. QED
    BY <2>4, <2>5, <2>6, <2>7 DEF WorkerNext
<1>6. QED
  BY <1>4, <1>5 DEF ManagerIsSetUp

\* What Creditcoin has been told of is processed or in the queue.
LEMMA ToldIsSent ==
    ASSUME NEW q
    PROVE  q \in Told <=> \/ q \in processedQueries
                          \/ \E i \in DOMAIN ccTxs : ccTxs[i].kind = "repay" /\ ccTxs[i].id = q
  BY DEF Told, Range

\* The proof of a repayment that reverts is of one that counts, or comes late.
LEMMA RevertedIsTold ==
    ASSUME WorkerInv, RepaidIsPaid, AmountsArePositive, ManagerIsSetUp,
           NEW q \in Provables, ~CanNoteLoanRepayment(q)
    PROVE  q \in processedQueries \/ logs[q].loanId \in Late
<1> DEFINE l == logs[q].loanId
<1>1. /\ IInv /\ logs \in Seq(LoanLog) /\ attested \in 0 .. Len(logs)
      /\ orders \in [LoanIds -> Order] /\ ccBlock \in Nat
  BY DEF WorkerInv, IInv, TypeOK, AuxiliaryTypeOK
<1>2. /\ q \in 1 .. attested /\ logs[q].contract = Auxiliary /\ logs[q].event = "LoanRepaid"
      /\ orders[l].status # "Created"
  BY DEF Provables
<1>3. q \in DOMAIN logs
  BY <1>1, <1>2, LenProperties
<1>4. l \in registeredLoans /\ l \in LoanIds
  BY <1>1, <1>2, <1>3, LoggedIsRegistered
<1>5. FromSource(q)
  BY <1>2, <1>4, AuxiliaryAssumption DEF FromSource, ManagerIsSetUp
<1>6. \/ q \in processedQueries
      \/ orders[l].status \in {"Repaid", "Expired"}
      \/ ~(ccBlock <= Deadline(l))
  <2>1. orders[l] \in Order
    BY <1>1, <1>4
  <2>2. QED
    BY <1>2, <1>5, <2>1 DEF CanNoteLoanRepayment, Provable, Order
<1>7. CASE orders[l].status = "Repaid"
  <2>1. IsRepayment(q, l)
    BY <1>2, <1>3 DEF IsRepayment, AmountsArePositive
  <2>2. QED
    BY <1>1, <1>4, <1>7, <2>1, RepaidIsProved
<1>8. CASE orders[l].status = "Expired"
  BY <1>4, <1>8 DEF ManagerIsSetUp
<1>9. CASE ~(ccBlock <= Deadline(l))
  <2>1. Deadline(l) \in Nat
    BY <1>1, <1>4, ManagerAssumption DEF IInv, LoansAreNumbered, Deadline
  <2>2. QED
    BY <1>1, <1>4, <1>9, <2>1 DEF Late
<1>10. QED
  BY <1>6, <1>7, <1>8, <1>9

\* What Creditcoin has been told of, it is not told again, unless it comes late.
LEMMA ToldStays ==
    ASSUME WorkerInv, RepaidIsPaid, AmountsArePositive, ManagerIsSetUp, CcQueue,
           [WorkerNext]_allVars, NEW q, q \in Told
    PROVE  q \in Told' \/ logs[q].loanId \in Late'
<1>1. IInv /\ [Next]_vars /\ ccTxs \in Seq(CcTx)
  BY WorkerUsesTheContracts DEF WorkerInv, CcQueue
<1>2. processedQueries \subseteq processedQueries'
  BY <1>1, LoggedStays
<1>3. CASE q \in processedQueries
  BY <1>2, <1>3 DEF Told
<1>4. ASSUME NEW i \in DOMAIN ccTxs, ccTxs[i].kind = "repay", ccTxs[i].id = q
      PROVE  q \in Told' \/ logs[q].loanId \in Late'
  <2>0. ASSUME NEW j \in DOMAIN ccTxs', ccTxs'[j] = ccTxs[i]
        PROVE  q \in Told'
    BY <1>4, <2>0 DEF Told, Range
  <2>1. CASE UNCHANGED ccTxs
    BY <2>0, <2>1
  <2>2. ASSUME NEW tx, ccTxs' = Append(ccTxs, tx)
        PROVE  q \in Told'
    <3>1. i \in DOMAIN ccTxs' /\ ccTxs'[i] = ccTxs[i]
      BY <1>1, <2>2
    <3>2. QED
      BY <2>0, <3>1
  <2>3. CASE MineOnCreditcoin
    <3>1. ccTxs # <<>> /\ ccTxs' = Tail(ccTxs) /\ Head(ccTxs) = ccTxs[1]
      BY <1>1, <2>3 DEF MineOnCreditcoin
    <3>2. CASE i # 1
      <4>1. i - 1 \in DOMAIN ccTxs' /\ ccTxs'[i - 1] = ccTxs[i]
        BY <1>1, <3>1, <3>2
      <4>2. QED
        BY <2>0, <4>1
    <3>3. CASE i = 1
      <4>1. Head(ccTxs).kind = "repay" /\ Head(ccTxs).id = q /\ Head(ccTxs) \in CcTx
        BY <1>4, <3>1, <3>3, HeadOfCcTxs
      <4>2. q \in Provables
        BY <4>1 DEF CcTx
      <4>3. CASE NoteLoanRepayment(q)
        BY <4>3 DEF NoteLoanRepayment, Told
      <4>4. CASE ~Executes(Head(ccTxs))
        <5>1. ~CanNoteLoanRepayment(q)
          BY <4>1, <4>4 DEF Executes
        <5>2. q \in processedQueries \/ logs[q].loanId \in Late
          BY <4>2, <5>1, RevertedIsTold
        <5>3. QED
          BY <1>1, <1>3, <5>2, LateGrows
      <4>5. QED
        BY <2>3, <4>1, <4>3, <4>4 DEF MineOnCreditcoin
    <3>4. QED
      BY <3>2, <3>3
  <2>4. CASE BlockStep
    BY <2>1, <2>2, <2>4 DEF BlockStep, EmitBlock, ExpireLoan
  <2>5. CASE \E p \in Pollers : Handle(p)
    BY <2>1, <2>2, <2>5
       DEF Handle, OnRegistered, SubmitRegistration, OnSourceEvent, Prove, ReadFundedOrder,
           SubmitFundProof, FundProofSent, ReadRepaidOrder, SubmitRepayProof, RepayProofSent,
           SendProof, Refused
  <2>6. CASE \/ StartRound
             \/ \E S \in Heads : ReadHead(S) \/ HeadError(S)
             \/ \E p \in Pollers : Query(p) \/ Throw(p)
    BY <2>1, <2>6 DEF StartRound, ReadHead, HeadError, Query, Throw
  <2>7. CASE MineOnSource \/ Attest \/ UNCHANGED workerVars
    BY <2>1, <2>7 DEF MineOnSource, Attest, workerVars
  <2>8. QED
    BY <2>3, <2>4, <2>5, <2>6, <2>7 DEF WorkerNext, PollingStep, allVars
<1>5. QED
  BY <1>3, <1>4, ToldIsSent

\* Only repayments of funded loans are proved, and only late loans expired.
LEMMA CcQueueStep ==
    ASSUME WorkerInv, CcQueue, PollInv, HandInv, [WorkerNext]_allVars
    PROVE  CcQueue'
<1>1. /\ IInv /\ [Next]_vars /\ ccTxs \in Seq(CcTx) /\ expiring \subseteq Late
      /\ ccBlock \in Nat /\ orders \in [LoanIds -> Order] /\ logs \in Seq(LoanLog)
      /\ attested \in Nat
  BY WorkerUsesTheContracts DEF WorkerInv, CcQueue, IInv, TypeOK, AuxiliaryTypeOK
<1>2. ASSUME NEW s \in Seq(CcTx), ccTxs' = s, expiring' \subseteq Late
      PROVE  CcQueue'
  BY <1>1, <1>2, CcTxsGrow, LateGrows DEF CcQueue
<1>3. ASSUME NEW tx \in CcTx, ccTxs' = Append(ccTxs, tx), expiring' \subseteq expiring
      PROVE  CcQueue'
  <2>1. Append(ccTxs, tx) \in Seq(CcTx)
    BY <1>1
  <2>2. QED
    BY <1>1, <1>2, <1>3, <2>1
<1>4. CASE UNCHANGED ccTxs /\ expiring' \subseteq expiring
  BY <1>1, <1>2, <1>4
<1>5. ASSUME NEW p \in Pollers, SubmitFundProof(p) \/ SubmitRepayProof(p)
      PROVE  CcQueue'
  <2>0. UNCHANGED expiring
    BY <1>5 DEF SubmitFundProof, SubmitRepayProof, blockVars
  <2>1. CASE UNCHANGED ccTxs
    BY <1>4, <2>0, <2>1
  <2>2. p \in SourceEvents /\ polls[p].at = "submit"
    BY <1>5 DEF SubmitFundProof, SubmitRepayProof, At, SourceEvents
  <2>3. PollIsRight(p, polls[p]) /\ HandIsRight(p, polls[p])
    BY DEF PollInv, HandInv
  <2>4. Handling(polls[p])
    BY <2>2 DEF Handling, Waits
  <2>5. /\ InHand(p) \in DOMAIN logs /\ InHand(p) \in Nat
        /\ logs[InHand(p)].contract = Auxiliary /\ logs[InHand(p)].event = p
    BY <2>2, <2>3, <2>4, LogInHand DEF InHand
  <2>6. CASE p = "LoanFunded" /\ SendProof(p, "fund")
    <3> DEFINE tx == [kind |-> "fund", id |-> InHand(p)]
    <3>1. tx \in CcTx
      BY <2>5 DEF CcTx
    <3>2. ccTxs' = Append(ccTxs, tx)
      BY <2>6 DEF SendProof
    <3> HIDE DEF tx
    <3>3. QED
      BY <1>3, <2>0, <3>1, <3>2
  <2>7. CASE p = "LoanRepaid" /\ Repayable(orders[LoanInHand(p)].status) /\ SendProof(p, "repay")
    <3> DEFINE tx == [kind |-> "repay", id |-> InHand(p)]
    <3>1. InHand(p) <= attested
      BY <2>2, <2>3, <2>7 DEF HandIsRight, Awaiting, InHand
    <3>2. InHand(p) \in 1 .. attested
      BY <1>1, <2>5, <3>1, LenProperties
    <3>3. InHand(p) \in Provables
      BY <2>5, <2>7, <3>2 DEF Provables, LoanInHand, Repayable
    <3>4. tx \in CcTx
      BY <2>5, <3>3 DEF CcTx
    <3>5. ccTxs' = Append(ccTxs, tx)
      BY <2>7 DEF SendProof
    <3> HIDE DEF tx
    <3>6. QED
      BY <1>3, <2>0, <3>4, <3>5
  <2>8. QED
    BY <1>5, <2>1, <2>6, <2>7 DEF SubmitFundProof, SubmitRepayProof, Refused
<1>6. CASE EmitBlock
  <2>1. /\ emitted < ccBlock - 1 /\ UNCHANGED ccTxs
        /\ expiring' = expiring \cup loanExpiriesAt(emitted + 1)
    BY <1>6 DEF EmitBlock
  <2>2. ASSUME NEW l \in loanExpiriesAt(emitted + 1)
        PROVE  l \in Late
    <3>1. l \in LoanIds /\ Deadline(l) = emitted + 1 /\ emitted \in Nat
      BY <2>2 DEF loanExpiriesAt, WorkerInv, OnlyDueExpire
    <3>2. orders[l].terms # None
      BY <3>1 DEF Deadline
    <3>3. l \in registeredLoans
      BY <3>1, <3>2 DEF WorkerInv, UnregisteredAreEmpty
    <3>4. QED
      BY <1>1, <2>1, <3>1, <3>3 DEF Late
  <2>3. QED
    BY <1>1, <1>2, <2>1, <2>2
<1>7. ASSUME NEW l \in LoanIds, ExpireLoan(l)
      PROVE  CcQueue'
  <2> DEFINE tx == [kind |-> "expire", id |-> l]
  <2>1. expiring' \subseteq expiring /\ l \in Late
    BY <1>1, <1>7 DEF ExpireLoan
  <2>2. tx \in CcTx
    <3>1. l \in Nat
      BY AuxiliaryAssumption
    <3>2. QED
      BY <2>1, <3>1 DEF CcTx
  <2>3. CASE UNCHANGED ccTxs
    BY <1>4, <2>1, <2>3
  <2>4. CASE ccTxs' = Append(ccTxs, tx)
    BY <1>3, <2>1, <2>2, <2>4
  <2>5. QED
    BY <1>7, <2>3, <2>4 DEF ExpireLoan
<1>8. CASE MineOnCreditcoin
  BY <1>1, <1>2, <1>8, HeadOfCcTxs DEF MineOnCreditcoin, blockVars
<1>9. CASE MineOnSource \/ Attest \/ UNCHANGED workerVars
  BY <1>4, <1>9 DEF MineOnSource, Attest, workerVars, blockVars
<1>10. ASSUME NEW p \in Pollers, Handle(p), ~SubmitFundProof(p), ~SubmitRepayProof(p)
       PROVE  CcQueue'
  BY <1>4, <1>10
     DEF Handle, OnRegistered, SubmitRegistration, OnSourceEvent, Prove, ReadFundedOrder,
         FundProofSent, ReadRepaidOrder, RepayProofSent, Refused, blockVars
<1>11. CASE \/ StartRound
            \/ \E S \in Heads : ReadHead(S) \/ HeadError(S)
            \/ \E p \in Pollers : Query(p) \/ Throw(p)
  BY <1>4, <1>11 DEF StartRound, ReadHead, HeadError, Query, Throw, blockVars
<1>12. QED
  BY <1>5, <1>6, <1>7, <1>8, <1>9, <1>10, <1>11
     DEF WorkerNext, PollingStep, BlockStep, allVars

-----------------------------------------------------------------------------
(* Where the polls go                                                      *)

\* A poll stays right while others register loans and pay.
LEMMA PollStays ==
    ASSUME IInv, [Next]_vars, NEW p \in Pollers, NEW poll, PollIsRight(p, poll)
    PROVE  PollIsRight(p, poll)'
<1>1. \A first, last : Todo(p, first, last) \subseteq Todo(p, first, last)'
  BY ContractsKeep DEF Todo
<1>2. QED
  BY <1>1 DEF PollIsRight

\* The next state of the polls is right if each of them is.
LEMMA PollsNext ==
    ASSUME IInv, [Next]_vars, NEW next \in [Pollers -> Polls(Nat)], polls' = next,
           \A p \in Pollers : PollIsRight(p, next[p]),
           Goal(next["LoanFunded"]) = Goal(next["LoanRepaid"]),
           next["LoanFunded"].at = "head" <=> next["LoanRepaid"].at = "head",
           CacheIsBehind(processedTxs', next["LoanRepaid"])
    PROVE  PollInv'
<1>1. \A p \in Pollers : PollIsRight(p, next[p])'
  BY PollStays
<1>2. QED
  BY <1>1 DEF PollInv, PollsAgree, CacheIsBehind

\* One poll goes on, with what its handler remembers.
LEMMA PollMoves ==
    ASSUME IInv, [Next]_vars, PollInv, NEW p \in Pollers, NEW next,
           polls' = [polls EXCEPT ![p] = next], Reading(polls[p]), Advances(p, polls[p], next),
           \/ processedTxs' = processedTxs
           \/ Handling(polls[p]) /\ processedTxs' = processedTxs \cup {txHash(p)}
    PROVE  PollInv' /\ Finished \subseteq Finished' /\ processedTxs \subseteq processedTxs'
<1> DEFINE after == [polls EXCEPT ![p] = next]
<1>1. /\ polls \in [Pollers -> Polls(Nat)] /\ next \in Polls(Nat)
      /\ \A s \in Pollers : PollIsRight(s, polls[s])
      /\ PollIsRight(p, next)
      /\ next.at # "head" /\ Goal(next) = Goal(polls[p]) /\ polls[p].start <= next.start
      /\ polls[p].at # "head"
      /\ {"LoanFunded", "LoanRepaid"} \subseteq Pollers
  BY DEF PollInv, Advances, PollIsRight, Reading, Pollers, SourceEvents
<1>2. after \in [Pollers -> Polls(Nat)] /\ after[p] = next
      /\ \A s \in Pollers \ {p} : after[s] = polls[s]
  BY <1>1
<1> HIDE DEF after
<1>3. \A s \in Pollers : /\ PollIsRight(s, after[s]) /\ Goal(after[s]) = Goal(polls[s])
                         /\ after[s].at = "head" <=> polls[s].at = "head"
                         /\ polls[s].start <= after[s].start
  <2>1. \A s \in Pollers : polls[s].start <= polls[s].start
    BY <1>1 DEF Polls
  <2>2. QED
    BY <1>1, <1>2, <2>1
<1>4. CacheIsBehind(processedTxs', after["LoanRepaid"])
  <2>1. ASSUME NEW q \in Nat, <<"LoanRepaid", q>> \in processedTxs'
        PROVE  q < Goal(polls["LoanRepaid"])
    <3>1. CASE <<"LoanRepaid", q>> \in processedTxs
      BY <3>1 DEF PollInv, CacheIsBehind
    <3>2. CASE Handling(polls[p]) /\ <<"LoanRepaid", q>> = txHash(p)
      <4>1. p = "LoanRepaid" /\ q = Head(polls[p].todo)
        BY <3>2 DEF txHash, InHand
      <4>2. QED
        BY <1>1, <3>2, <4>1, LogInHand DEF SourceEvents
    <3>3. QED
      BY <2>1, <3>1, <3>2
  <2>2. QED
    BY <1>1, <1>3, <2>1 DEF CacheIsBehind
<1>5. PollInv'
  <2>1. polls' = after
    BY DEF after
  <2>2. /\ Goal(after["LoanFunded"]) = Goal(after["LoanRepaid"])
        /\ after["LoanFunded"].at = "head" <=> after["LoanRepaid"].at = "head"
    BY <1>1, <1>3 DEF PollInv, PollsAgree
  <2>3. QED
    BY <1>2, <1>3, <1>4, <2>1, <2>2, PollsNext
<1>6. Finished \subseteq Finished'
  <2>1. /\ polls'["LoanRepaid"] = after["LoanRepaid"] /\ after["LoanRepaid"] \in Polls(Nat)
        /\ polls["LoanRepaid"] \in Polls(Nat)
    BY <1>1, <1>2 DEF after
  <2>2. polls["LoanRepaid"].start \in Nat /\ polls'["LoanRepaid"].start \in Nat
        /\ polls["LoanRepaid"].start <= polls'["LoanRepaid"].start
    BY <1>1, <1>3, <2>1 DEF Polls
  <2>3. QED
    BY <2>2 DEF Finished
<1>7. QED
  BY <1>5, <1>6

\* A poll that reads the head, or fails to.
LEMMA HeadAdvances ==
    ASSUME NEW p, NEW poll, PollIsRight(p, poll), poll.at = "head", NEW n \in Nat
    PROVE  /\ PollIsRight(p, HeadRead(poll, n)) /\ PollIsRight(p, HeadFailed(poll))
           /\ HeadRead(poll, n).at \notin Awaiting \cup {"head"}
           /\ HeadFailed(poll).at \notin Awaiting \cup {"head"}
           /\ HeadRead(poll, n).start = poll.start /\ HeadFailed(poll).start = poll.start
           /\ Goal(HeadRead(poll, n)) = IF n = 0 \/ n < poll.start THEN poll.start ELSE n + 1
           /\ Goal(HeadFailed(poll)) = poll.start /\ Goal(poll) = poll.start
           /\ poll.start <= Goal(HeadRead(poll, n))
<1> DEFINE failed == [poll EXCEPT !.at = "done"]
           read == [poll EXCEPT !.at = "chunk", !.head = n]
<1>1. poll \in Polls(Nat) /\ poll.start \in Nat
  BY DEF PollIsRight, Polls
<1>2. /\ failed \in Polls(Nat) /\ failed.at = "done" /\ failed.start = poll.start
      /\ read \in Polls(Nat) /\ read.at = "chunk" /\ read.start = poll.start /\ read.head = n
  BY <1>1 DEF Polls, Waits
<1>3. /\ HeadFailed(poll) = failed
      /\ HeadRead(poll, n) = IF n = 0 \/ n < poll.start THEN failed ELSE read
  BY DEF HeadFailed, HeadRead
<1> HIDE DEF failed, read
<1>4. PollIsRight(p, failed) /\ Goal(failed) = poll.start /\ Goal(poll) = poll.start
  BY <1>1, <1>2 DEF PollIsRight, Reading, Handling, Waits, Goal
<1>5. ~(n < poll.start) => PollIsRight(p, read) /\ Goal(read) = n + 1
  BY <1>1, <1>2 DEF PollIsRight, Reading, Handling, Waits, Goal
<1>6. QED
  BY <1>1, <1>2, <1>3, <1>4, <1>5 DEF Awaiting

\* The polls of a chain read its head together.
LEMMA HeadStep ==
    ASSUME WorkerInv, [Next]_vars, PollInv, NEW S \in Heads, ReadHead(S) \/ HeadError(S)
    PROVE  /\ PollInv' /\ Finished \subseteq Finished'
           /\ \A p \in Pollers : polls'[p].at \notin Awaiting \/ polls'[p] = polls[p]
<1> DEFINE n == Latest(S)
<1>0. IInv
  BY DEF WorkerInv
<1>1. /\ polls \in [Pollers -> Polls(Nat)]
      /\ \A s \in Pollers : PollIsRight(s, polls[s])
      /\ S \subseteq Pollers /\ \A s \in S : polls[s].at = "head"
      /\ {"LoanFunded", "LoanRepaid"} \subseteq Pollers
      /\ {"LoanFunded", "LoanRepaid"} \subseteq S \/ {"LoanFunded", "LoanRepaid"} \cap S = {}
      /\ processedTxs' = processedTxs
  BY DEF PollInv, Heads, Pollers, SourceEvents, ReadHead, HeadError, OfChain, At
<1>2. n \in Nat
  <2>1. Len(logs) \in Nat /\ ccBlock \in Nat
    BY LenProperties DEF WorkerInv, IInv, TypeOK, AuxiliaryTypeOK
  <2>2. emitted \in Nat /\ emitted < ccBlock
    BY DEF WorkerInv, OnlyDueExpire
  <2>3. QED
    BY <2>1, <2>2 DEF Latest
<1> HIDE DEF n
<1> DEFINE With(ok) == [p \in Pollers |-> IF p \notin S THEN polls[p]
                              ELSE IF ok THEN HeadRead(polls[p], n) ELSE HeadFailed(polls[p])]
<1>3. PICK ok \in BOOLEAN : polls' = With(ok)
  <2>1. CASE ReadHead(S)
    <3>1. polls' = With(TRUE)
      BY <2>1 DEF ReadHead, n
    <3>2. QED
      BY <3>1
  <2>2. CASE HeadError(S)
    <3>1. polls' = With(FALSE)
      BY <2>2 DEF HeadError
    <3>2. QED
      BY <3>1
  <2>3. QED
    BY <2>1, <2>2
<1>4. PICK after : polls' = after /\ after = With(ok)
  BY <1>3
<1>5. ASSUME NEW p \in Pollers
      PROVE  /\ PollIsRight(p, after[p]) /\ after[p] \in Polls(Nat)
             /\ after[p].start = polls[p].start /\ Goal(polls[p]) <= Goal(after[p])
             /\ p \in S => /\ after[p].at \notin Awaiting \cup {"head"}
                           /\ Goal(after[p]) = IF ~ok \/ n = 0 \/ n < polls[p].start
                                               THEN polls[p].start ELSE n + 1
                           /\ Goal(polls[p]) = polls[p].start
             /\ p \notin S => after[p] = polls[p]
             /\ Goal(polls[p]) \in Nat /\ Goal(after[p]) \in Nat
  <2>0. polls[p].start \in Nat /\ polls[p].head \in Nat /\ polls[p] \in Polls(Nat)
    BY <1>1 DEF Polls
  <2>1. CASE p \in S
    <3>1. after[p] = IF ok THEN HeadRead(polls[p], n) ELSE HeadFailed(polls[p])
      BY <1>4, <2>1
    <3>2. PollIsRight(p, polls[p]) /\ polls[p].at = "head"
      BY <1>1, <2>1
    <3>3. PollIsRight(p, after[p])
      BY <1>2, <3>1, <3>2, HeadAdvances
    <3>4. /\ after[p].start = polls[p].start
          /\ after[p].at \notin Awaiting \cup {"head"}
          /\ Goal(after[p]) = IF ~ok \/ n = 0 \/ n < polls[p].start THEN polls[p].start ELSE n + 1
          /\ Goal(polls[p]) = polls[p].start
      BY <1>2, <3>1, <3>2, HeadAdvances
    <3>5. Goal(after[p]) \in Nat /\ Goal(polls[p]) <= Goal(after[p])
      BY <1>2, <2>0, <3>4
    <3>6. after[p] \in Polls(Nat)
      BY <3>3 DEF PollIsRight
    <3>7. QED
      BY <2>0, <2>1, <3>3, <3>4, <3>5, <3>6
  <2>2. CASE p \notin S
    BY <1>1, <1>4, <2>0, <2>2 DEF Goal
  <2>3. QED
    BY <2>1, <2>2
<1>6. /\ Goal(after["LoanFunded"]) = Goal(after["LoanRepaid"])
      /\ after["LoanFunded"].at = "head" <=> after["LoanRepaid"].at = "head"
  <2>1. CASE {"LoanFunded", "LoanRepaid"} \subseteq S
    <3>1. polls["LoanFunded"].start = polls["LoanRepaid"].start
      BY <1>1, <1>5, <2>1 DEF PollInv, PollsAgree
    <3>2. Goal(after["LoanFunded"]) = Goal(after["LoanRepaid"])
      BY <1>1, <1>5, <2>1, <3>1
    <3>3. QED
      BY <1>1, <1>5, <2>1, <3>2
  <2>2. CASE {"LoanFunded", "LoanRepaid"} \cap S = {}
    BY <1>1, <1>5, <2>2 DEF PollInv, PollsAgree
  <2>3. QED
    BY <1>1, <2>1, <2>2
<1>7. CacheIsBehind(processedTxs', after["LoanRepaid"])
  BY <1>1, <1>5 DEF PollInv, CacheIsBehind
<1>8. after \in [Pollers -> Polls(Nat)]
  BY <1>4, <1>5
<1>9. PollInv'
  BY <1>0, <1>4, <1>5, <1>6, <1>7, <1>8, PollsNext
<1>10. Finished \subseteq Finished'
  BY <1>1, <1>4, <1>5 DEF Finished
<1>11. QED
  BY <1>4, <1>5, <1>9, <1>10

\* A round starts where the last one ended, and everything the worker remembers of
\* repayments is behind it when it is forgotten.
LEMMA RoundStep ==
    ASSUME IInv, [Next]_vars, PollInv, StartRound
    PROVE  /\ PollInv' /\ Finished \subseteq Finished'
           /\ \A p \in Pollers : polls'[p].at \notin Awaiting
<1>1. /\ polls \in [Pollers -> Polls(Nat)]
      /\ \A p \in Pollers : polls[p].at = "done"
      /\ {"LoanFunded", "LoanRepaid", "LoanRegistered"} \subseteq Pollers
      /\ polls' = NextCursors
      /\ processedTxs' \subseteq processedTxs
  BY DEF PollInv, Pollers, SourceEvents, StartRound, At
<1>2. PICK after : after = NextCursors
  OBVIOUS
<1>3. \A p \in Pollers : \E n \in Nat : after[p] = PollFrom(n)
  BY <1>1, <1>2 DEF NextCursors, Polls
<1>4. \A n \in Nat : /\ PollFrom(n) \in Polls(Nat) /\ PollFrom(n).at = "head"
                     /\ PollFrom(n).start = n /\ Goal(PollFrom(n)) = n
                     /\ \A p : PollIsRight(p, PollFrom(n))
  BY MaxLogBlockRangeAssumption DEF PollFrom, PollIsRight, Polls, Waits, Reading, Handling, Goal
<1>5. /\ after["LoanFunded"] = PollFrom(polls["LoanFunded"].start)
      /\ after["LoanRepaid"] = PollFrom(polls["LoanFunded"].start)
      /\ polls["LoanFunded"].start \in Nat
  BY <1>1, <1>2 DEF NextCursors, Polls
<1>6. polls["LoanRepaid"].start = polls["LoanFunded"].start
      /\ Goal(polls["LoanRepaid"]) = polls["LoanFunded"].start
  BY <1>1 DEF PollInv, PollsAgree, Goal, Reading, Waits
<1>7. after["LoanRepaid"].start = polls["LoanFunded"].start
      /\ Goal(after["LoanRepaid"]) = polls["LoanFunded"].start
  BY <1>4, <1>5
<1>8. CacheIsBehind(processedTxs', after["LoanRepaid"])
  BY <1>1, <1>6, <1>7 DEF PollInv, CacheIsBehind
<1>9. after \in [Pollers -> Polls(Nat)] /\ \A p \in Pollers : PollIsRight(p, after[p]) /\ after[p].at = "head"
  <2>1. \A p \in Pollers : PollIsRight(p, after[p]) /\ after[p].at = "head" /\ after[p] \in Polls(Nat)
    BY <1>3, <1>4
  <2>2. after = [p \in Pollers |-> after[p]]
    BY <1>2 DEF NextCursors
  <2>3. QED
    BY <2>1, <2>2
<1>10. PollInv'
  BY <1>1, <1>2, <1>5, <1>8, <1>9, PollsNext
<1>11. Finished \subseteq Finished'
  <2>1. polls'["LoanRepaid"].start = polls["LoanRepaid"].start
    BY <1>1, <1>2, <1>6, <1>7
  <2>2. \A q \in Nat : <<"LoanRepaid", q>> \in processedTxs => q < polls["LoanRepaid"].start
    BY <1>6 DEF PollInv, CacheIsBehind
  <2>3. QED
    BY <2>1, <2>2 DEF Finished
<1>12. QED
  BY <1>1, <1>2, <1>9, <1>10, <1>11 DEF Awaiting

-----------------------------------------------------------------------------
(* What has been counted                                                   *)

\* The amounts of the logs are numbers.
LEMMA AmountsType ==
    ASSUME TypeOK, NEW S \in SUBSET DOMAIN logs
    PROVE  /\ IsFiniteSet(S) /\ \A q \in S : Amounts[q] \in Nat
           /\ Volume(S) = SumFunctionOnSet(Amounts, S) /\ Volume(S) \in Nat
<1>1. logs \in Seq(LoanLog)
  BY DEF TypeOK, AuxiliaryTypeOK
<1>2. IsFiniteSet(DOMAIN logs)
  BY <1>1, LenProperties, FS_Interval
<1>3. IsFiniteSet(S)
  BY <1>2, FS_Subset
<1>4. \A q \in DOMAIN logs : logs[q] \in LoanLog
  BY <1>1
<1>5. \A q \in DOMAIN logs : Amounts[q] \in Nat
  BY <1>4 DEF LoanLog, Amounts
<1>6. Volume(S) = SumFunctionOnSet(Amounts, S)
  BY DEF Volume, Amounts
<1>7. QED
  BY <1>3, <1>5, <1>6, SumType

\* More repayments are of no less, now or later.
LEMMA VolumeGrows ==
    ASSUME TypeOK, TypeOK', LogsExtend, NEW S \in SUBSET DOMAIN logs,
           NEW T \in SUBSET DOMAIN logs', S \subseteq T
    PROVE  /\ Volume(S) <= SumFunctionOnSet(Amounts', T)
           /\ Volume(S) \in Nat /\ SumFunctionOnSet(Amounts', T) \in Nat
<1>1. Volume(S) = SumFunctionOnSet(Amounts, S) /\ Volume(S) \in Nat
  BY AmountsType
<1>2. SumFunctionOnSet(Amounts', S) = SumFunctionOnSet(Amounts, S)
  BY VolumeKept
<1>3. logs' \in Seq(LoanLog)
  BY DEF TypeOK, AuxiliaryTypeOK
<1>4. IsFiniteSet(DOMAIN logs')
  BY <1>3, LenProperties, FS_Interval
<1>5. IsFiniteSet(T)
  BY <1>4, FS_Subset
<1>6. \A q \in DOMAIN logs' : logs'[q] \in LoanLog
  BY <1>3
<1>7. \A q \in T : Amounts'[q] \in Nat
  BY <1>6 DEF LoanLog, Amounts
<1>8. QED
  BY <1>1, <1>2, <1>5, <1>7, SumOfPart

\* What Creditcoin has been told of it is told of still, or comes too late.
TellsOn == \A q \in Told : q \in Told' \/ logs[q].loanId \in Late'

\* What is counted stays counted.
LEMMA CountStays ==
    ASSUME IInv, IInv', [Next]_vars, TellsOn, NEW l \in registeredLoans, NEW left \in Int,
           NEW done, NEW after, done \subseteq after, IsCounted(l, left, done)
    PROVE  IsCounted(l, left, after)'
<1>1. TypeOK /\ TypeOK' /\ LogsExtend
  BY ContractsKeep DEF IInv, LogsExtend
<1>2. /\ l \in LoanIds /\ orders[l].terms \in Offers /\ orders'[l].terms = orders[l].terms
      /\ Late \subseteq Late'
  BY TermsStep, LateGrows DEF IInv, TypeOK, LoansAreNumbered
<1>3. orders[l].terms.repay \in Nat
  BY <1>2, ManagerAssumption
<1> DEFINE debt == orders[l].terms.repay - left
<1>4. debt \in Int /\ orders'[l].terms.repay - left = debt
  BY <1>2, <1>3
<1> HIDE DEF debt
<1>5. /\ Repayments(l) \in SUBSET DOMAIN logs /\ Repayments(l)' \in SUBSET DOMAIN logs'
      /\ Repayments(l) \subseteq Repayments(l)'
      /\ \A q \in Repayments(l) : logs[q].loanId = l
  BY <1>1 DEF Repayments, LogsExtend
<1>6. \A S : S \subseteq Repayments(l) =>
         \A T : S \subseteq T /\ T \subseteq Repayments(l)' =>
            /\ Volume(S) <= SumFunctionOnSet(Amounts', T)
            /\ Volume(S) \in Nat /\ SumFunctionOnSet(Amounts', T) \in Nat
  BY <1>1, <1>5, VolumeGrows
<1>7. PICK T1 : T1 = Repayments(l)' \cap after
  OBVIOUS
<1>8. PICK T2 : T2 = Repayments(l)' \cap after \cap Told'
  OBVIOUS
<1>9. /\ Volume(Repayments(l) \cap after)' = SumFunctionOnSet(Amounts', T1)
      /\ Volume(Repayments(l) \cap after \cap Told)' = SumFunctionOnSet(Amounts', T2)
  BY <1>7, <1>8 DEF Volume, Amounts
<1>10. debt <= SumFunctionOnSet(Amounts', T1)
  <2>1. debt <= Volume(Repayments(l) \cap done)
    BY DEF IsCounted, debt
  <2>2. /\ Volume(Repayments(l) \cap done) <= SumFunctionOnSet(Amounts', T1)
        /\ Volume(Repayments(l) \cap done) \in Nat /\ SumFunctionOnSet(Amounts', T1) \in Nat
    BY <1>5, <1>6, <1>7
  <2>3. QED
    BY <1>4, <2>1, <2>2
<1>11. l \in Late' \/ debt <= SumFunctionOnSet(Amounts', T2)
  <2>1. CASE l \in Late
    BY <1>2, <2>1
  <2>2. CASE \E q \in Repayments(l) \cap Told : q \notin Told'
    BY <1>5, <2>2 DEF TellsOn
  <2>3. CASE debt <= Volume(Repayments(l) \cap done \cap Told) /\ Repayments(l) \cap Told \subseteq Told'
    <3>1. /\ Volume(Repayments(l) \cap done \cap Told) <= SumFunctionOnSet(Amounts', T2)
          /\ Volume(Repayments(l) \cap done \cap Told) \in Nat
          /\ SumFunctionOnSet(Amounts', T2) \in Nat
      BY <1>5, <1>6, <1>8, <2>3
    <3>2. QED
      BY <1>4, <2>3, <3>1
  <2>4. QED
    BY <2>1, <2>2, <2>3 DEF IsCounted, debt
<1>12. QED
  BY <1>4, <1>9, <1>10, <1>11 DEF IsCounted

\* A loan that is paid in full stays so.
LEMMA PaidInFullStays ==
    ASSUME IInv, [Next]_vars, NEW l \in LoanIds, PaidInFull(l)
    PROVE  PaidInFull(l)'
<1>1. PICK q \in DOMAIN logs :
         logs[q].contract = Auxiliary /\ logs[q].event = "LoanRepaid" /\ logs[q].loanId = l
  BY DEF PaidInFull, Repayments
<1>2. flows[l] # None /\ repayLeft[l] = 0 /\ repayLeft \in [LoanIds -> Nat]
  BY <1>1 DEF IInv, RepayableIsFunded, PaidInFull, TypeOK, AuxiliaryTypeOK
<1>3. Repayments(l)' # {}
  BY <1>1, ContractsKeep DEF Repayments
<1>4. repayLeft'[l] = repayLeft[l]
  <2>1. ASSUME NEW m \in LoanIds, WorkerRegisters(m)
        PROVE  repayLeft'[l] = repayLeft[l]
    BY <1>2, <2>1 DEF WorkerRegisters, RegisterLoanFund, CanRegisterLoanFund
  <2>2. ASSUME NEW m \in LoanIds, NEW amount \in Payments, RepayLoan(m, amount)
        PROVE  repayLeft'[l] = repayLeft[l]
    <3>1. repayLeft[m] > 0
      BY <2>2 DEF RepayLoan, CanRepayLoan
    <3>2. m # l
      BY <1>2, <3>1
    <3>3. repayLeft' = [repayLeft EXCEPT ![m] = repayLeft[m] - RepayPaid(m, amount)]
      BY <2>2 DEF RepayLoan
    <3>4. QED
      BY <1>2, <3>2, <3>3
  <2>3. QED
    BY <2>1, <2>2
       DEF Next, SourceStep, Authorize, FundLoan, ExpireOnSource, OtherLog, AttestLog,
           vars, auxiliaryVars, flowVars
<1>5. QED
  BY <1>2, <1>3, <1>4 DEF PaidInFull

\* What the tracker may hold, it may hold later.
LEMMA InfoStays ==
    ASSUME IInv, IInv', [Next]_vars, TellsOn, NEW l \in LoanIds,
           NEW info \in LoanInfo \cup {None},
           NEW done, NEW after, done \subseteq after, InfoIsRight(l, info, done)
    PROVE  InfoIsRight(l, info, after)'
<1> SUFFICES ASSUME info # None
             PROVE  InfoIsRight(l, info, after)'
  BY DEF InfoIsRight
<1>1. /\ l \in registeredLoans /\ IsCounted(l, info.repayLeft, done)
      /\ info.repaid => PaidInFull(l)
      /\ info.repayLeft \in Int
  BY DEF InfoIsRight, LoanInfo
<1>2. l \in registeredLoans'
  BY <1>1, ContractsKeep
<1>3. IsCounted(l, info.repayLeft, after)'
  BY <1>1, CountStays
<1>4. info.repaid => PaidInFull(l)'
  BY <1>1, PaidInFullStays
<1>5. QED
  BY <1>2, <1>3, <1>4 DEF InfoIsRight

\* The next state of the tracker is right if it is for each loan, in this state.
LEMMA TrackerNext ==
    ASSUME IInv, IInv', [Next]_vars, TellsOn, NEW next \in [LoanIds -> LoanInfo \cup {None}],
           tracker' = next, NEW done, done \subseteq Finished',
           \A l \in LoanIds : InfoIsRight(l, next[l], done)
    PROVE  TrackerInv'
<1>1. PICK after : after = Finished'
  OBVIOUS
<1>2. \A l \in LoanIds : InfoIsRight(l, next[l], after)'
  BY <1>1, InfoStays
<1>3. QED
  BY <1>1, <1>2 DEF TrackerInv, InfoIsRight, IsCounted

\* The tracker is left alone.
LEMMA TrackerStays ==
    ASSUME IInv, IInv', [Next]_vars, TellsOn, TrackerInv, UNCHANGED tracker,
           Finished \subseteq Finished'
    PROVE  TrackerInv'
<1>1. PICK done : done = Finished
  OBVIOUS
<1>2. PICK next : next = tracker
  OBVIOUS
<1>3. next \in [LoanIds -> LoanInfo \cup {None}] /\ \A l \in LoanIds : InfoIsRight(l, next[l], done)
  BY <1>1, <1>2 DEF TrackerInv
<1>4. QED
  BY <1>1, <1>2, <1>3, TrackerNext

\* What counts with some repayments counts with more of them.
LEMMA CountsWithMore ==
    ASSUME IInv, NEW l \in registeredLoans, NEW left \in Int, NEW done, NEW more, done \subseteq more,
           IsCounted(l, left, done)
    PROVE  IsCounted(l, left, more)
<1>1. TypeOK /\ l \in LoanIds /\ orders[l].terms \in Offers
  BY DEF IInv, TypeOK, LoansAreNumbered
<1>2. orders[l].terms.repay - left \in Int
  BY <1>1, ManagerAssumption
<1>3. Repayments(l) \in SUBSET DOMAIN logs
  BY DEF Repayments
<1>4. \A T : T \subseteq Repayments(l) =>
         \A S : S \subseteq T => Volume(S) <= Volume(T) /\ Volume(S) \in Nat /\ Volume(T) \in Nat
  <2> SUFFICES ASSUME NEW T, T \subseteq Repayments(l), NEW S, S \subseteq T
               PROVE  Volume(S) <= Volume(T) /\ Volume(S) \in Nat /\ Volume(T) \in Nat
    OBVIOUS
  <2>1. T \in SUBSET DOMAIN logs /\ S \in SUBSET DOMAIN logs /\ S \in SUBSET T
    BY <1>3
  <2>2. IsFiniteSet(T) /\ \A q \in T : Amounts[q] \in Nat
    BY <1>1, <2>1, AmountsType
  <2>3. Volume(T) = SumFunctionOnSet(Amounts, T) /\ Volume(S) = SumFunctionOnSet(Amounts, S)
    BY <1>1, <2>1, AmountsType
  <2>4. QED
    BY <2>1, <2>2, <2>3, SumOfPart
<1>5. /\ Volume(Repayments(l) \cap done) <= Volume(Repayments(l) \cap more)
      /\ Volume(Repayments(l) \cap done) \in Nat /\ Volume(Repayments(l) \cap more) \in Nat
  BY <1>4
<1>6. /\ Volume(Repayments(l) \cap done \cap Told) <= Volume(Repayments(l) \cap more \cap Told)
      /\ Volume(Repayments(l) \cap done \cap Told) \in Nat
      /\ Volume(Repayments(l) \cap more \cap Told) \in Nat
  BY <1>4
<1> DEFINE debt == orders[l].terms.repay - left
<1>7. debt \in Int /\ debt <= Volume(Repayments(l) \cap done)
      /\ (l \in Late \/ debt <= Volume(Repayments(l) \cap done \cap Told))
  BY <1>2 DEF IsCounted
<1> HIDE DEF debt
<1>8. /\ debt <= Volume(Repayments(l) \cap more)
      /\ l \in Late \/ debt <= Volume(Repayments(l) \cap more \cap Told)
  BY <1>5, <1>6, <1>7
<1>9. QED
  BY <1>8 DEF IsCounted, debt

\* What is kept of one loan changes.
LEMMA TrackerChanges ==
    ASSUME IInv, IInv', [Next]_vars, TellsOn, TrackerInv, NEW l \in LoanIds, NEW info \in LoanInfo,
           tracker' = [tracker EXCEPT ![l] = info], Finished \subseteq Finished',
           NEW extra, extra \subseteq Finished', InfoIsRight(l, info, Finished \cup extra)
    PROVE  TrackerInv' /\ \A m \in LoanIds : tracker[m] # None => tracker'[m] # None
<1>1. PICK done : done = Finished \cup extra
  OBVIOUS
<1>2. PICK next : next = [tracker EXCEPT ![l] = info]
  OBVIOUS
<1>3. tracker \in [LoanIds -> LoanInfo \cup {None}]
      /\ \A m \in LoanIds : InfoIsRight(m, tracker[m], Finished)
  BY DEF TrackerInv
<1>4. /\ next \in [LoanIds -> LoanInfo \cup {None}] /\ next[l] = info
      /\ \A m \in LoanIds \ {l} : next[m] = tracker[m]
  BY <1>2, <1>3
<1>5. ASSUME NEW m \in LoanIds
      PROVE  InfoIsRight(m, next[m], done)
  <2>1. CASE m = l
    BY <1>1, <1>4, <2>1
  <2>2. CASE m # l /\ tracker[m] # None
    <3>1. /\ m \in registeredLoans /\ IsCounted(m, tracker[m].repayLeft, Finished)
          /\ tracker[m].repaid => PaidInFull(m)
          /\ tracker[m] \in LoanInfo
      BY <1>3, <2>2 DEF InfoIsRight
    <3>2. tracker[m].repayLeft \in Int
      BY <3>1 DEF LoanInfo
    <3>3. IsCounted(m, tracker[m].repayLeft, done)
      BY <1>1, <3>1, <3>2, CountsWithMore
    <3>4. QED
      BY <1>4, <2>2, <3>1, <3>3 DEF InfoIsRight
  <2>3. CASE m # l /\ tracker[m] = None
    BY <1>4, <2>3 DEF InfoIsRight
  <2>4. QED
    BY <2>1, <2>2, <2>3
<1>6. TrackerInv'
  <2>1. done \subseteq Finished' /\ tracker' = next
    BY <1>1, <1>2
  <2>2. QED
    BY <1>4, <1>5, <2>1, TrackerNext
<1>7. QED
  BY <1>2, <1>4, <1>6, TrackerAssumption

-----------------------------------------------------------------------------
(* What counts, now and with one more repayment                            *)

\* A loan that Creditcoin calls repaid has been paid in full.
LEMMA RepaidIsPaidInFull ==
    ASSUME IInv, RepaidIsPaid, AmountsArePositive, NEW l \in registeredLoans,
           orders[l].status = "Repaid"
    PROVE  PaidInFull(l)
<1>1. TypeOK /\ l \in LoanIds /\ orders[l].terms.repay > 0
  BY DEF IInv, TypeOK, AmountsArePositive
<1>2. /\ repayLeft[l] = 0
      /\ orders[l].terms.repay = Volume(Repayments(l) \cap processedQueries)
  BY DEF RepaidIsPaid
<1>3. Volume({}) = 0
  BY SumOfNone DEF Volume
<1>4. Repayments(l) # {}
  <2>1. SUFFICES ASSUME Repayments(l) = {} PROVE FALSE
    OBVIOUS
  <2>2. Volume(Repayments(l) \cap processedQueries) = 0
    BY <1>3, <2>1
  <2>3. QED
    BY <1>1, <1>2, <2>2
<1>5. QED
  BY <1>2, <1>4 DEF PaidInFull

\* A loan on which nothing is left, by what counts, has been paid in full.
LEMMA CountedInFull ==
    ASSUME IInv, RepaidIsPaid, AmountsArePositive, NEW l \in registeredLoans,
           NEW left \in Int, left <= 0, NEW done,
           orders[l].terms.repay - left <= Volume(Repayments(l) \cap done)
    PROVE  PaidInFull(l)
<1>1. /\ TypeOK /\ l \in LoanIds /\ orders[l].terms.repay > 0 /\ orders[l].terms \in Offers
      /\ repayLeft[l] \in Nat
  BY DEF IInv, TypeOK, AuxiliaryTypeOK, AmountsArePositive, LoansAreNumbered
<1>2. orders[l].terms.repay \in Nat
  BY <1>1, ManagerAssumption
<1>3. Repayments(l) \in SUBSET DOMAIN logs /\ Repayments(l) \cap done \in SUBSET DOMAIN logs
      /\ Repayments(l) \cap done \in SUBSET Repayments(l)
  BY DEF Repayments
<1>4. /\ IsFiniteSet(Repayments(l)) /\ \A q \in Repayments(l) : Amounts[q] \in Nat
      /\ Volume(Repayments(l)) = SumFunctionOnSet(Amounts, Repayments(l))
      /\ Volume(Repayments(l) \cap done) = SumFunctionOnSet(Amounts, Repayments(l) \cap done)
  BY <1>1, <1>3, AmountsType
<1>5. /\ Volume(Repayments(l) \cap done) <= Volume(Repayments(l))
      /\ Volume(Repayments(l) \cap done) \in Nat /\ Volume(Repayments(l)) \in Nat
  BY <1>3, <1>4, SumOfPart
<1>6. Volume(Repayments(l)) > 0
  BY <1>1, <1>2, <1>5
<1>7. Repayments(l) # {}
  <2>1. Volume({}) = 0
    BY SumOfNone DEF Volume
  <2>2. QED
    BY <1>6, <2>1
<1>8. flows[l] # None
  BY <1>7 DEF Repayments, IInv, RepayableIsFunded
<1>9. Volume(Repayments(l)) + repayLeft[l] = orders[l].terms.repay
  BY <1>8 DEF RepaidIsPaid
<1>10. repayLeft[l] = 0
  BY <1>1, <1>2, <1>5, <1>9
<1>11. QED
  BY <1>7, <1>10 DEF PaidInFull

\* One more repayment counts.
LEMMA CountsOneMore ==
    ASSUME IInv, NEW l \in registeredLoans, NEW left \in Int, NEW done, IsCounted(l, left, done),
           NEW q \in Repayments(l), q \notin done, q \in Told \/ l \in Late
    PROVE  IsCounted(l, left - logs[q].amount, done \cup {q})
<1> DEFINE debt == orders[l].terms.repay - left
           old == Repayments(l) \cap done
           told == Repayments(l) \cap done \cap Told
<1>1. TypeOK /\ l \in LoanIds /\ orders[l].terms \in Offers
  BY DEF IInv, TypeOK, LoansAreNumbered
<1>2. orders[l].terms.repay \in Nat /\ debt \in Int
  BY <1>1, ManagerAssumption
<1>3. Repayments(l) \in SUBSET DOMAIN logs
  BY DEF Repayments
<1>4. /\ q \in DOMAIN logs /\ Amounts[q] = logs[q].amount
      /\ \A r \in Repayments(l) : Amounts[r] \in Nat
  BY <1>1, <1>3, AmountsType DEF Amounts
<1>5. \A S : S \subseteq Repayments(l) /\ q \notin S =>
         Volume(S \cup {q}) = Volume(S) + logs[q].amount /\ Volume(S) \in Nat
  <2> SUFFICES ASSUME NEW S, S \subseteq Repayments(l), q \notin S
               PROVE  Volume(S \cup {q}) = Volume(S) + logs[q].amount /\ Volume(S) \in Nat
    OBVIOUS
  <2>1. S \in SUBSET DOMAIN logs /\ S \cup {q} \in SUBSET DOMAIN logs
    BY <1>3
  <2>2. IsFiniteSet(S) /\ \A y \in S \cup {q} : Amounts[y] \in Nat
    BY <1>1, <2>1, AmountsType
  <2>3. Volume(S \cup {q}) = SumFunctionOnSet(Amounts, S \cup {q})
        /\ Volume(S) = SumFunctionOnSet(Amounts, S)
    BY <1>1, <2>1, AmountsType
  <2>4. /\ SumFunctionOnSet(Amounts, S \cup {q}) = SumFunctionOnSet(Amounts, S) + Amounts[q]
        /\ SumFunctionOnSet(Amounts, S) \in Nat
    BY <2>2, SumAdd
  <2>5. QED
    BY <1>4, <2>3, <2>4
<1>6. Repayments(l) \cap (done \cup {q}) = old \cup {q}
  OBVIOUS
<1>7. q \in Told => Repayments(l) \cap (done \cup {q}) \cap Told = told \cup {q}
  OBVIOUS
<1>8. /\ Volume(old \cup {q}) = Volume(old) + logs[q].amount /\ Volume(old) \in Nat
      /\ Volume(told \cup {q}) = Volume(told) + logs[q].amount /\ Volume(told) \in Nat
  BY <1>5
<1>9. logs[q].amount \in Nat
  BY <1>4
<1>10. /\ debt <= Volume(old)
       /\ l \in Late \/ debt <= Volume(told)
  BY DEF IsCounted
<1>11. orders[l].terms.repay - (left - logs[q].amount) = debt + logs[q].amount
  BY <1>2, <1>9
<1> HIDE DEF debt, old, told
<1>12. debt + logs[q].amount <= Volume(old \cup {q})
  BY <1>2, <1>8, <1>9, <1>10
<1>13. l \in Late \/ (q \in Told /\ debt + logs[q].amount <= Volume(told \cup {q}))
  BY <1>2, <1>8, <1>9, <1>10
<1>14. QED
  BY <1>6, <1>7, <1>11, <1>12, <1>13 DEF IsCounted

-----------------------------------------------------------------------------
(* The steps of a poll                                                     *)

\* No loan leaves the tracker.
TrackerGrows == \A m \in LoanIds : tracker[m] # None => tracker'[m] # None

\* What is known when the worker takes a step, and what the step keeps.
Grounds == IInv /\ IInv' /\ [Next]_vars /\ TellsOn /\ PollInv /\ HandInv /\ TrackerInv
Kept == PollInv' /\ HandInv' /\ TrackerInv' /\ TrackerGrows

\* The tracker stays, or what it holds of one loan changes as it may.
TrackerMoves ==
    \/ UNCHANGED tracker
    \/ \E l \in LoanIds, info \in LoanInfo, extra \in SUBSET Finished' :
          tracker' = [tracker EXCEPT ![l] = info] /\ InfoIsRight(l, info, Finished \cup extra)

\* What is true of the event in hand stays true.
LEMMA HandStays ==
    ASSUME IInv, [Next]_vars, TellsOn, TrackerGrows, NEW p \in Pollers, NEW poll,
           PollIsRight(p, poll), HandIsRight(p, poll),
           \A q : p = "LoanRepaid" /\ <<p, q>> \in processedTxs' => <<p, q>> \in processedTxs
    PROVE  HandIsRight(p, poll)'
<1> SUFFICES ASSUME poll.at \in Awaiting, p \in SourceEvents
             PROVE  HandIsRight(p, poll)'
  BY DEF HandIsRight
<1>1. Handling(poll)
  BY DEF Awaiting, Handling, Waits
<1> DEFINE q == Head(poll.todo)
<1>2. q \in DOMAIN logs /\ q \in Nat /\ logs[q].contract = Auxiliary
  BY <1>1, LogInHand
<1>3. logs'[q] = logs[q] /\ logs[q].loanId \in LoanIds
  BY <1>2, LoggedIsRegistered, ContractsKeep
<1>4. attested \in Nat /\ attested' \in Nat /\ attested <= attested'
  <2>1. attested \in 0 .. Len(logs) /\ Len(logs) \in Nat
    BY LenProperties DEF IInv, TypeOK, AuxiliaryTypeOK
  <2>2. QED
    BY <2>1 DEF Next, SourceStep, Authorize, WorkerRegisters, RegisterLoanFund, FundLoan, RepayLoan,
           ExpireOnSource, OtherLog, AttestLog, vars, auxiliaryVars
<1>5. Late \subseteq Late'
  BY LateGrows
<1> HIDE DEF q
<1>6. tracker'[logs'[q].loanId] # None
  BY <1>3 DEF HandIsRight, TrackerGrows, q
<1>7. p = "LoanRepaid" =>
         /\ <<p, q>> \notin processedTxs'
         /\ poll.at \in {"submit", "sent"} => q <= attested'
         /\ poll.at = "sent" => q \in Told' \/ logs'[q].loanId \in Late'
  <2> SUFFICES ASSUME p = "LoanRepaid"
               PROVE  /\ <<p, q>> \notin processedTxs'
                      /\ poll.at \in {"submit", "sent"} => q <= attested'
                      /\ poll.at = "sent" => q \in Told' \/ logs'[q].loanId \in Late'
    OBVIOUS
  <2>1. /\ <<p, q>> \notin processedTxs
        /\ poll.at \in {"submit", "sent"} => q <= attested
        /\ poll.at = "sent" => q \in Told \/ logs[q].loanId \in Late
    BY DEF HandIsRight, q
  <2>2. <<p, q>> \notin processedTxs'
    BY <2>1
  <2>3. poll.at \in {"submit", "sent"} => q <= attested'
    BY <1>2, <1>4, <2>1
  <2>4. poll.at = "sent" => q \in Told' \/ logs'[q].loanId \in Late'
    BY <1>3, <1>5, <2>1 DEF TellsOn
  <2>5. QED
    BY <2>2, <2>3, <2>4
<1>8. QED
  BY <1>6, <1>7 DEF HandIsRight, q

\* A poll moves and the others stay.
LEMMA StepKeeps ==
    ASSUME Grounds, NEW p \in Pollers, NEW next, Moves(p, next), Reading(polls[p]),
           Advances(p, polls[p], next), HandIsRight(p, next)',
           \/ processedTxs' = processedTxs
           \/ Handling(polls[p]) /\ processedTxs' = processedTxs \cup {txHash(p)},
           TrackerMoves
    PROVE  Kept
<1> USE DEF Grounds
<1>1. polls' = [polls EXCEPT ![p] = next]
  BY DEF Moves
<1>2. PollInv' /\ Finished \subseteq Finished'
  BY <1>1, PollMoves
<1>3. TrackerInv' /\ TrackerGrows
  <2>1. CASE UNCHANGED tracker
    BY <1>2, <2>1, TrackerStays DEF TrackerGrows
  <2>2. ASSUME NEW l \in LoanIds, NEW info \in LoanInfo, NEW extra \in SUBSET Finished',
               tracker' = [tracker EXCEPT ![l] = info], InfoIsRight(l, info, Finished \cup extra)
        PROVE  TrackerInv' /\ TrackerGrows
    BY <1>2, <2>2, TrackerChanges DEF TrackerGrows
  <2>3. QED
    BY <2>1, <2>2 DEF TrackerMoves
<1>4. PICK after : after = [polls EXCEPT ![p] = next]
  OBVIOUS
<1>5. /\ polls \in [Pollers -> Polls(Nat)] /\ \A s \in Pollers : PollIsRight(s, polls[s])
      /\ \A s \in Pollers : HandIsRight(s, polls[s])
  BY DEF PollInv, HandInv
<1>6. after[p] = next /\ \A s \in Pollers \ {p} : after[s] = polls[s]
  BY <1>4, <1>5
<1>7. ASSUME NEW s \in Pollers
      PROVE  HandIsRight(s, after[s])'
  <2>1. CASE s = p
    <3>1. PICK a : a = after[s]
      OBVIOUS
    <3>2. a = next
      BY <1>6, <2>1, <3>1
    <3>3. HandIsRight(s, a)'
      BY <2>1, <3>2
    <3>4. QED
      BY <3>1, <3>3
  <2>2. CASE s # p
    <3>1. PICK a : a = after[s]
      OBVIOUS
    <3>2. PollIsRight(s, a) /\ HandIsRight(s, a)
      BY <1>5, <1>6, <2>2, <3>1
    <3>3. ASSUME NEW q, s = "LoanRepaid" /\ <<s, q>> \in processedTxs'
          PROVE  <<s, q>> \in processedTxs
      BY <2>2, <3>3 DEF txHash
    <3>4. HandIsRight(s, a)'
      BY <1>3, <3>2, <3>3, HandStays
    <3>5. QED
      BY <3>1, <3>4
  <2>3. QED
    BY <2>1, <2>2
<1>8. HandInv'
  BY <1>1, <1>4, <1>7 DEF HandInv, HandIsRight
<1>9. QED
  BY <1>2, <1>3, <1>8 DEF Kept

\* The handler returns, with or without remembering the event.
LEMMA ReturnKeeps ==
    ASSUME Grounds, NEW p \in Pollers, Handling(polls[p]), Moves(p, Returned(polls[p])),
           processedTxs' = processedTxs \/ processedTxs' = processedTxs \cup {txHash(p)},
           TrackerMoves
    PROVE  Kept
<1>1. PICK next : next = Returned(polls[p])
  OBVIOUS
<1>2. PollIsRight(p, polls[p]) /\ Reading(polls[p])
  BY DEF Grounds, PollInv, Handling, Reading
<1>3. Advances(p, polls[p], next) /\ next.at \notin Awaiting
  BY <1>1, <1>2, ReturnedAdvances
<1>4. Moves(p, next)
  BY <1>1 DEF Moves
<1>5. HandIsRight(p, next)'
  BY <1>3 DEF HandIsRight
<1>6. QED
  BY <1>2, <1>3, <1>4, <1>5, StepKeeps

\* The handler waits: for the order of the loan, the proof, the time to send it, or
\* for what was sent.
LEMMA WaitKeeps ==
    ASSUME Grounds, NEW p \in Pollers, Handling(polls[p]), NEW what \in Awaiting,
           Moves(p, Waiting(polls[p], what)), UNCHANGED processedTxs, TrackerMoves,
           p \in SourceEvents => tracker[LoanInHand(p)] # None,
           p = "LoanRepaid" =>
              /\ txHash(p) \notin processedTxs
              /\ what \in {"submit", "sent"} => InHand(p) <= attested'
              /\ what = "sent" => InHand(p) \in Told'
    PROVE  Kept
<1>1. PICK next : next = Waiting(polls[p], what)
  OBVIOUS
<1>2. PollIsRight(p, polls[p]) /\ Reading(polls[p])
  BY DEF Grounds, PollInv, Handling, Reading
<1>3. /\ Advances(p, polls[p], next) /\ next.at = what
      /\ Head(next.todo) = InHand(p)
  BY <1>1, <1>2, WaitingAdvances DEF InHand
<1>4. Moves(p, next)
  BY <1>1 DEF Moves
<1>5. HandIsRight(p, next)'
  <2>1. CASE p \notin SourceEvents
    BY <2>1 DEF HandIsRight
  <2>2. CASE p \in SourceEvents
    <3>1. PICK q : q = InHand(p)
      OBVIOUS
    <3>2. q \in DOMAIN logs /\ logs[q].contract = Auxiliary
      BY <1>2, <2>2, <3>1, LogInHand DEF InHand
    <3>3. logs'[q] = logs[q] /\ logs[q].loanId \in LoanIds
      BY <3>2, LoggedIsRegistered, ContractsKeep DEF Grounds
    <3>4. LoanInHand(p) = logs[q].loanId
      BY <2>2, <3>1 DEF LoanInHand, SourceEvents
    <3>5. tracker'[logs'[q].loanId] # None
      <4>1. tracker[logs[q].loanId] # None /\ tracker \in [LoanIds -> LoanInfo \cup {None}]
        BY <2>2, <3>4 DEF Grounds, TrackerInv
      <4>2. CASE UNCHANGED tracker
        BY <3>3, <4>1, <4>2
      <4>3. ASSUME NEW l \in LoanIds, NEW info \in LoanInfo,
                   tracker' = [tracker EXCEPT ![l] = info]
            PROVE  tracker'[logs'[q].loanId] # None
        BY <3>3, <4>1, <4>3, TrackerAssumption
      <4>4. QED
        BY <4>2, <4>3 DEF TrackerMoves
    <3>6. p = "LoanRepaid" =>
             /\ <<p, q>> \notin processedTxs'
             /\ next.at \in {"submit", "sent"} => q <= attested'
             /\ next.at = "sent" => q \in Told'
      BY <1>3, <3>1 DEF txHash
    <3>7. Head(next.todo) = q
      BY <1>3, <3>1
    <3>8. QED
      BY <3>5, <3>6, <3>7 DEF HandIsRight
  <2>3. QED
    BY <2>1, <2>2
<1>6. QED
  BY <1>2, <1>3, <1>4, <1>5, StepKeeps

\* The query returns.
LEMMA QueryKeeps ==
    ASSUME Grounds, NEW p \in Pollers, Query(p)
    PROVE  Kept
<1>1. PICK next : next = Queried(polls[p], EventsBetween(p, polls[p].start, ChunkEnd(polls[p])))
  OBVIOUS
<1>2. Moves(p, next) /\ polls[p].at = "chunk" /\ UNCHANGED <<processedTxs, tracker>>
  BY <1>1 DEF Query, Moves, At
<1>3. PollIsRight(p, polls[p]) /\ Reading(polls[p]) /\ IInv
  BY <1>2 DEF Grounds, PollInv, Reading, Waits
<1>4. Advances(p, polls[p], next) /\ next.at \notin Awaiting
  BY <1>1, <1>3, QueriedAdvances
<1>5. HandIsRight(p, next)'
  BY <1>4 DEF HandIsRight
<1>6. QED
  BY <1>2, <1>3, <1>4, <1>5, StepKeeps DEF TrackerMoves

\* The query, or the handler, throws.
LEMMA ThrowKeeps ==
    ASSUME Grounds, NEW p \in Pollers, Throw(p)
    PROVE  Kept
<1>1. PICK next : next = ChunkFailed(polls[p])
  OBVIOUS
<1>2. Moves(p, next) /\ polls[p].at \in {"chunk", "order", "proof", "submit"}
      /\ UNCHANGED <<processedTxs, tracker>>
  BY <1>1 DEF Throw, Moves, At
<1>3. PollIsRight(p, polls[p]) /\ Reading(polls[p])
  BY <1>2 DEF Grounds, PollInv, Reading, Waits
<1>4. Advances(p, polls[p], next) /\ next.at \notin Awaiting
  BY <1>1, <1>3, FailedAdvances
<1>5. HandIsRight(p, next)'
  BY <1>4 DEF HandIsRight
<1>6. QED
  BY <1>2, <1>3, <1>4, <1>5, StepKeeps DEF TrackerMoves

-----------------------------------------------------------------------------
(* The handlers                                                            *)

\* A handler of a log has the loan in the tracker, once it has looked.
LEMMA LoanIsTracked ==
    ASSUME Grounds, NEW p \in SourceEvents, polls[p].at \in Awaiting \cup {"event"}
    PROVE  /\ p \in Pollers /\ Handling(polls[p]) /\ PollIsRight(p, polls[p])
           /\ InHand(p) \in DOMAIN logs /\ InHand(p) \in Nat
           /\ logs[InHand(p)].contract = Auxiliary /\ logs[InHand(p)].event = p
           /\ LoanInHand(p) = logs[InHand(p)].loanId
           /\ LoanInHand(p) \in LoanIds /\ LoanInHand(p) \in registeredLoans
           /\ polls[p].start <= InHand(p)
           /\ polls[p].at \in Awaiting => tracker[LoanInHand(p)] # None
           /\ polls[p].at \in Awaiting /\ p = "LoanRepaid" =>
                 /\ txHash(p) \notin processedTxs
                 /\ polls[p].at \in {"submit", "sent"} => InHand(p) <= attested
                 /\ polls[p].at = "sent" => InHand(p) \in Told \/ LoanInHand(p) \in Late
           /\ tracker[LoanInHand(p)] # None => tracker[LoanInHand(p)] \in LoanInfo
<1>1. p \in Pollers /\ Handling(polls[p]) /\ PollIsRight(p, polls[p]) /\ HandIsRight(p, polls[p])
  BY DEF Grounds, PollInv, HandInv, Pollers, Handling, Waits, Awaiting
<1>2. /\ InHand(p) \in DOMAIN logs /\ InHand(p) \in Nat
      /\ logs[InHand(p)].contract = Auxiliary /\ logs[InHand(p)].event = p
      /\ polls[p].start <= InHand(p)
  BY <1>1, LogInHand DEF InHand
<1>3. LoanInHand(p) = logs[InHand(p)].loanId
  BY DEF LoanInHand, SourceEvents
<1>4. LoanInHand(p) \in LoanIds /\ LoanInHand(p) \in registeredLoans
  BY <1>2, <1>3, LoggedIsRegistered DEF Grounds
<1>5. polls[p].at \in Awaiting => tracker[LoanInHand(p)] # None
  BY <1>1, <1>3 DEF HandIsRight, InHand
<1>6. polls[p].at \in Awaiting /\ p = "LoanRepaid" =>
         /\ txHash(p) \notin processedTxs
         /\ polls[p].at \in {"submit", "sent"} => InHand(p) <= attested
         /\ polls[p].at = "sent" => InHand(p) \in Told \/ LoanInHand(p) \in Late
  BY <1>1, <1>3 DEF HandIsRight, InHand, txHash
<1>7. tracker[LoanInHand(p)] # None => tracker[LoanInHand(p)] \in LoanInfo
  BY <1>4 DEF Grounds, TrackerInv
<1>8. QED
  BY <1>1, <1>2, <1>3, <1>4, <1>5, <1>6, <1>7

\* The flags of a tracked loan change, and say that it is repaid only if it is paid.
LEMMA FlagsMove ==
    ASSUME Grounds, NEW l \in LoanIds, tracker[l] # None, NEW info \in LoanInfo,
           info.repayLeft = tracker[l].repayLeft,
           info.repaid => tracker[l].repaid \/ PaidInFull(l),
           tracker' = [tracker EXCEPT ![l] = info]
    PROVE  TrackerMoves
<1>1. InfoIsRight(l, tracker[l], Finished)
  BY DEF Grounds, TrackerInv
<1>2. InfoIsRight(l, info, Finished)
  BY <1>1 DEF InfoIsRight
<1>3. Finished \cup {} = Finished /\ {} \in SUBSET Finished'
  OBVIOUS
<1>4. QED
  BY <1>2, <1>3 DEF TrackerMoves

\* A loan that is put into the tracker has been registered, and nothing counts yet.
LEMMA RegisteredKeeps ==
    ASSUME Grounds, NEW p \in Pollers, OnRegistered(p)
    PROVE  Kept
<1> DEFINE l == LoanInHand(p)
<1>1. p = "LoanRegistered" /\ Handling(polls[p]) /\ PollIsRight(p, polls[p]) /\ l = InHand(p)
  BY DEF Grounds, PollInv, OnRegistered, At, Handling, Waits, LoanInHand
<1>2. l \in registeredLoans
  BY <1>1, HeadIsTodo DEF InHand, Todo
<1>3. CASE Leaves(p)
  BY <1>1, <1>3, ReturnKeeps DEF Leaves, TrackerMoves
<1>4. CASE /\ tracker' = [tracker EXCEPT ![l] = NewLoanInfo(l)]
           /\ Moves(p, Waiting(polls[p], "submit"))
           /\ UNCHANGED processedTxs
  <2>1. l \in LoanIds /\ orders[l].terms \in Offers /\ TypeOK
    BY <1>2 DEF Grounds, IInv, TypeOK, LoansAreNumbered
  <2>2. orders[l].terms.repay \in Nat
    BY <2>1, ManagerAssumption
  <2>3. PICK info : info = NewLoanInfo(l)
    OBVIOUS
  <2>4. info \in LoanInfo /\ info.repayLeft = orders[l].terms.repay /\ info.repaid = FALSE
    BY <2>2, <2>3 DEF NewLoanInfo, LoanInfo
  <2>5. Repayments(l) \in SUBSET DOMAIN logs
    BY DEF Repayments
  <2>6. \A S : Volume(Repayments(l) \cap S) \in Nat
    BY <2>1, <2>5, AmountsType
  <2>7. \A S, T : Volume(Repayments(l) \cap S \cap T) \in Nat
    BY <2>1, <2>5, AmountsType
  <2>8. IsCounted(l, info.repayLeft, Finished)
    <3>1. orders[l].terms.repay - info.repayLeft = 0
      BY <2>2, <2>4
    <3>2. \A n \in Nat : 0 <= n
      OBVIOUS
    <3>3. QED
      BY <2>6, <2>7, <3>1, <3>2 DEF IsCounted
  <2>9. InfoIsRight(l, info, Finished)
    BY <1>2, <2>4, <2>8 DEF InfoIsRight
  <2>10. TrackerMoves
    <3>1. Finished \cup {} = Finished /\ {} \in SUBSET Finished'
      OBVIOUS
    <3>2. QED
      BY <1>4, <2>1, <2>3, <2>4, <2>9, <3>1 DEF TrackerMoves
  <2>11. "submit" \in Awaiting /\ p \notin SourceEvents
    BY <1>1 DEF Awaiting, SourceEvents
  <2>12. QED
    BY <1>1, <1>4, <2>10, <2>11, WaitKeeps
<1>5. QED
  BY <1>3, <1>4 DEF OnRegistered

\* The registration is sent, or not.
LEMMA RegistrationKeeps ==
    ASSUME Grounds, NEW p \in Pollers, SubmitRegistration(p)
    PROVE  Kept
<1>1. Handling(polls[p])
  BY DEF SubmitRegistration, At, Handling, Waits
<1>2. QED
  BY <1>1, ReturnKeeps DEF SubmitRegistration, Finishes, Refused, Leaves, TrackerMoves

\* The handler of a log takes it up only if it has not been dealt with.
LEMMA SourceEventKeeps ==
    ASSUME Grounds, NEW p \in Pollers, OnSourceEvent(p)
    PROVE  Kept
<1>1. p \in SourceEvents /\ polls[p].at = "event" /\ UNCHANGED <<tracker, processedTxs>>
  BY DEF OnSourceEvent, At, Leaves
<1>2. Handling(polls[p])
  BY <1>1, LoanIsTracked
<1>3. CASE Leaves(p)
  BY <1>1, <1>2, <1>3, ReturnKeeps DEF Leaves, TrackerMoves
<1>4. CASE /\ txHash(p) \notin processedTxs /\ tracker[LoanInHand(p)] # None
           /\ Moves(p, Waiting(polls[p], "order"))
  BY <1>1, <1>2, <1>4, WaitKeeps DEF TrackerMoves, Awaiting
<1>5. QED
  BY <1>3, <1>4 DEF OnSourceEvent

\* The proof is there, or is not.
LEMMA ProveKeeps ==
    ASSUME Grounds, NEW p \in Pollers, Prove(p)
    PROVE  Kept
<1>1. polls[p].at = "proof" /\ InHand(p) <= attested /\ UNCHANGED <<tracker, processedTxs, attested>>
  BY DEF Prove, At, Refused, Leaves, chainVars, vars, auxiliaryVars
<1>2. "proof" \in Awaiting /\ "submit" \in Awaiting /\ "submit" # "sent"
  BY DEF Awaiting
<1>3. /\ Handling(polls[p])
      /\ p \in SourceEvents => tracker[LoanInHand(p)] # None
      /\ p = "LoanRepaid" => p \in SourceEvents /\ txHash(p) \notin processedTxs
  <2>1. Handling(polls[p])
    BY <1>1 DEF Handling, Waits
  <2>2. ASSUME p \in SourceEvents
        PROVE  /\ tracker[LoanInHand(p)] # None
               /\ p = "LoanRepaid" => txHash(p) \notin processedTxs
    BY <1>1, <1>2, <2>2, LoanIsTracked
  <2>3. QED
    BY <2>1, <2>2 DEF SourceEvents
<1>4. CASE Refused(p)
  BY <1>1, <1>3, <1>4, ReturnKeeps DEF Refused, Leaves, TrackerMoves
<1>5. CASE Moves(p, Waiting(polls[p], "submit"))
  <2>1. TrackerMoves
    BY <1>1 DEF TrackerMoves
  <2>2. InHand(p) <= attested'
    BY <1>1
  <2>3. QED
    BY <1>1, <1>2, <1>3, <1>5, <2>1, <2>2, WaitKeeps
<1>6. QED
  BY <1>4, <1>5 DEF Prove

\* What a handler knows of a funding moves the flag of the loan.
LEMMA FundedFlag ==
    ASSUME Grounds, NEW l \in LoanIds, tracker[l] # None, NEW yes \in BOOLEAN,
           tracker' = [tracker EXCEPT ![l].funded = yes]
    PROVE  TrackerMoves
<1>1. tracker \in [LoanIds -> LoanInfo \cup {None}] /\ tracker[l] \in LoanInfo
  BY DEF Grounds, TrackerInv
<1>2. PICK info : info = [tracker[l] EXCEPT !.funded = yes]
  OBVIOUS
<1>3. /\ info \in LoanInfo /\ info.repayLeft = tracker[l].repayLeft
      /\ info.repaid = tracker[l].repaid
  BY <1>1, <1>2 DEF LoanInfo
<1>4. tracker' = [tracker EXCEPT ![l] = info]
  BY <1>1, <1>2
<1>5. QED
  BY <1>3, <1>4, FlagsMove

\* The handlers of a funding.
LEMMA FundingKeeps ==
    ASSUME Grounds, NEW p \in Pollers, ReadFundedOrder(p) \/ SubmitFundProof(p) \/ FundProofSent(p)
    PROVE  Kept
<1>1. p \in SourceEvents /\ p = "LoanFunded" /\ polls[p].at \in Awaiting
  BY DEF ReadFundedOrder, SubmitFundProof, FundProofSent, At, SourceEvents, Awaiting
<1>2. Handling(polls[p]) /\ tracker[LoanInHand(p)] # None /\ LoanInHand(p) \in LoanIds
  BY <1>1, LoanIsTracked
<1>3. ASSUME NEW yes \in BOOLEAN, tracker' = [tracker EXCEPT ![LoanInHand(p)].funded = yes],
             Finishes(p)
      PROVE  Kept
  BY <1>2, <1>3, FundedFlag, ReturnKeeps DEF Finishes
<1>4. CASE UNCHANGED tracker /\ (Finishes(p) \/ Leaves(p))
  BY <1>2, <1>4, ReturnKeeps DEF Finishes, Leaves, TrackerMoves
<1>5. ASSUME NEW what \in Awaiting, Moves(p, Waiting(polls[p], what)),
             UNCHANGED <<tracker, processedTxs>>
      PROVE  Kept
  BY <1>1, <1>2, <1>5, WaitKeeps DEF TrackerMoves
<1>6. \A status : HasBeenFunded(status) \in BOOLEAN
  BY DEF HasBeenFunded
<1>7. CASE ReadFundedOrder(p)
  BY <1>3, <1>5, <1>6, <1>7 DEF ReadFundedOrder, Awaiting
<1>8. CASE SubmitFundProof(p)
  BY <1>3, <1>4, <1>5, <1>6, <1>8 DEF SubmitFundProof, SendProof, Refused, Leaves, Awaiting
<1>9. CASE FundProofSent(p)
  BY <1>3, <1>9 DEF FundProofSent
<1>10. QED
  BY <1>7, <1>8, <1>9

\* The order is read: what it says is repaid has been paid.
LEMMA RepaidOrderKeeps ==
    ASSUME Grounds, RepaidIsPaid, AmountsArePositive, NEW p \in Pollers, ReadRepaidOrder(p)
    PROVE  Kept
<1> DEFINE l == LoanInHand(p)
           funded == tracker[l].funded \/ HasBeenFunded(orders[l].status)
           repaid == funded /\ orders[l].status = "Repaid"
<1>1. p \in SourceEvents /\ p = "LoanRepaid" /\ polls[p].at = "order" /\ "order" \in Awaiting
  BY DEF ReadRepaidOrder, At, SourceEvents, Awaiting
<1>2. /\ Handling(polls[p]) /\ tracker[l] # None /\ l \in LoanIds /\ l \in registeredLoans
      /\ txHash(p) \notin processedTxs /\ tracker[l] \in LoanInfo
  BY <1>1, LoanIsTracked
<1>3. tracker \in [LoanIds -> LoanInfo \cup {None}]
  BY DEF Grounds, TrackerInv
<1>4. CASE Leaves(p)
  BY <1>2, <1>4, ReturnKeeps DEF Leaves, TrackerMoves
<1>5. CASE ~Leaves(p)
  <2>1. PICK info : info = [tracker[l] EXCEPT !.funded = funded, !.repaid = repaid]
    OBVIOUS
  <2>2. funded \in BOOLEAN /\ repaid \in BOOLEAN
    BY <1>2 DEF HasBeenFunded, LoanInfo
  <2>3. tracker' = [tracker EXCEPT ![l].funded = funded, ![l].repaid = repaid]
    BY <1>5 DEF ReadRepaidOrder
  <2>4. repaid => PaidInFull(l)
    BY <1>2, RepaidIsPaidInFull DEF Grounds
  <2>5. \/ Finishes(p)
        \/ Moves(p, Returned(polls[p])) /\ UNCHANGED processedTxs
        \/ Moves(p, Waiting(polls[p], "proof")) /\ UNCHANGED processedTxs
    BY <1>5 DEF ReadRepaidOrder
  <2> HIDE DEF funded, repaid, l
  <2>6. tracker' = [tracker EXCEPT ![l] = info]
    BY <1>2, <1>3, <2>1, <2>3
  <2>7. info \in LoanInfo /\ info.repayLeft = tracker[l].repayLeft /\ info.repaid = repaid
    BY <1>2, <2>1, <2>2 DEF LoanInfo
  <2>8. TrackerMoves
    BY <1>2, <2>4, <2>6, <2>7, FlagsMove
  <2>9. CASE Finishes(p)
    BY <1>2, <2>8, <2>9, ReturnKeeps DEF Finishes
  <2>10. CASE Moves(p, Returned(polls[p])) /\ UNCHANGED processedTxs
    BY <1>2, <2>8, <2>10, ReturnKeeps
  <2>11. CASE Moves(p, Waiting(polls[p], "proof")) /\ UNCHANGED processedTxs
    <3>1. "proof" \in Awaiting /\ tracker[LoanInHand(p)] # None
      BY <1>2 DEF Awaiting, l
    <3>2. QED
      BY <1>2, <2>8, <2>11, <3>1, WaitKeeps
  <2>12. QED
    BY <2>5, <2>9, <2>10, <2>11
<1>6. QED
  BY <1>4, <1>5

\* The proof of a repayment is sent.
LEMMA RepayProofKeeps ==
    ASSUME Grounds, RepaidIsPaid, AmountsArePositive, CcQueue, NEW p \in Pollers, SubmitRepayProof(p)
    PROVE  Kept
<1> DEFINE l == LoanInHand(p)
<1>1. p \in SourceEvents /\ p = "LoanRepaid" /\ polls[p].at = "submit"
      /\ "submit" \in Awaiting /\ "sent" \in Awaiting
  BY DEF SubmitRepayProof, At, SourceEvents, Awaiting
<1>2. /\ Handling(polls[p]) /\ tracker[l] # None /\ l \in LoanIds /\ l \in registeredLoans
      /\ txHash(p) \notin processedTxs /\ tracker[l] \in LoanInfo /\ InHand(p) <= attested
  BY <1>1, LoanIsTracked
<1>3. tracker \in [LoanIds -> LoanInfo \cup {None}]
  BY DEF Grounds, TrackerInv
<1>4. CASE Leaves(p)
  BY <1>2, <1>4, ReturnKeeps DEF Leaves, TrackerMoves
<1>5. CASE /\ orders[l].status = "Repaid" /\ Finishes(p)
           /\ tracker' = [tracker EXCEPT ![l].repaid = TRUE]
  <2>1. PICK info : info = [tracker[l] EXCEPT !.repaid = TRUE]
    OBVIOUS
  <2>2. PaidInFull(l)
    BY <1>2, <1>5, RepaidIsPaidInFull DEF Grounds
  <2> HIDE DEF l
  <2>3. tracker' = [tracker EXCEPT ![l] = info]
    BY <1>2, <1>3, <1>5, <2>1
  <2>4. info \in LoanInfo /\ info.repayLeft = tracker[l].repayLeft
    BY <1>2, <2>1 DEF LoanInfo
  <2>5. TrackerMoves
    BY <1>2, <2>2, <2>3, <2>4, FlagsMove
  <2>6. QED
    BY <1>2, <1>5, <2>5, ReturnKeeps DEF Finishes
<1>6. CASE SendProof(p, "repay")
  <2>1. /\ ccTxs' = Append(ccTxs, [kind |-> "repay", id |-> InHand(p)])
        /\ Moves(p, Waiting(polls[p], "sent")) /\ UNCHANGED <<tracker, processedTxs>>
    BY <1>6 DEF SendProof
  <2>2. InHand(p) \in Told'
    <3> DEFINE tx == [kind |-> "repay", id |-> InHand(p)]
    <3>1. ccTxs \in Seq(CcTx)
      BY DEF CcQueue
    <3>2. Len(ccTxs) + 1 \in DOMAIN ccTxs' /\ ccTxs'[Len(ccTxs) + 1] = tx
      BY <2>1, <3>1
    <3>3. tx \in Range(ccTxs)' /\ tx.kind = "repay" /\ tx.id = InHand(p)
      BY <3>2 DEF Range
    <3> HIDE DEF tx
    <3>4. QED
      BY <3>3 DEF Told
  <2>3. UNCHANGED attested
    BY DEF SubmitRepayProof, chainVars, vars, auxiliaryVars
  <2>4. TrackerMoves
    BY <2>1 DEF TrackerMoves
  <2>5. InHand(p) <= attested'
    BY <1>2, <2>3
  <2>6. QED
    BY <1>1, <1>2, <2>1, <2>2, <2>4, <2>5, WaitKeeps
<1>7. QED
  BY <1>4, <1>5, <1>6 DEF SubmitRepayProof, Refused

\* The proof of a repayment was sent: it counts, once.
LEMMA RepaymentCounts ==
    ASSUME Grounds, RepaidIsPaid, AmountsArePositive, NEW p \in Pollers, RepayProofSent(p)
    PROVE  Kept
<1> DEFINE l == LoanInHand(p)
           q == InHand(p)
           left == tracker[l].repayLeft - logs[q].amount
<1>1. p \in SourceEvents /\ p = "LoanRepaid" /\ polls[p].at = "sent" /\ "sent" \in Awaiting
  BY DEF RepayProofSent, At, SourceEvents, Awaiting
<1>2. /\ Handling(polls[p]) /\ tracker[l] # None /\ l \in LoanIds /\ l \in registeredLoans
      /\ txHash(p) \notin processedTxs /\ tracker[l] \in LoanInfo
      /\ q \in DOMAIN logs /\ q \in Nat /\ logs[q].contract = Auxiliary /\ logs[q].event = p
      /\ l = logs[q].loanId /\ polls[p].start <= q
      /\ q \in Told \/ l \in Late
  BY <1>1, LoanIsTracked
<1>3. tracker \in [LoanIds -> LoanInfo \cup {None}] /\ InfoIsRight(l, tracker[l], Finished)
      /\ polls[p] \in Polls(Nat) /\ TypeOK /\ IInv
  BY <1>2 DEF Grounds, TrackerInv, PollInv, IInv
<1>4. q \in Repayments(l)
  BY <1>1, <1>2 DEF Repayments
<1>5. logs[q].amount \in Nat
  <2>1. {q} \in SUBSET DOMAIN logs /\ q \in {q}
    BY <1>2
  <2>2. Amounts[q] \in Nat
    BY <1>3, <2>1, AmountsType
  <2>3. QED
    BY <1>2, <2>2 DEF Amounts
<1>6. q \notin Finished
  <2>1. polls[p].start \in Nat /\ ~(q < polls[p].start)
    BY <1>2, <1>3 DEF Polls
  <2>2. QED
    BY <1>1, <1>2, <2>1 DEF Finished, txHash
<1>7. tracker[l].repayLeft \in Int /\ left \in Int /\ IsCounted(l, tracker[l].repayLeft, Finished)
      /\ tracker[l].repaid \in BOOLEAN /\ (tracker[l].repaid => PaidInFull(l))
  BY <1>2, <1>3, <1>5 DEF LoanInfo, InfoIsRight
<1>8. IsCounted(l, left, Finished \cup {q})
  BY <1>2, <1>3, <1>4, <1>6, <1>7, CountsOneMore
<1>9. Finishes(p) /\ tracker' = [tracker EXCEPT ![l].repayLeft = left, ![l].repaid = @ \/ left <= 0]
  BY DEF RepayProofSent
<1>10. q \in Finished'
  <2>1. txHash(p) \in processedTxs'
    BY <1>9 DEF Finishes
  <2>2. QED
    BY <1>1, <1>2, <2>1 DEF Finished, txHash
<1> HIDE DEF l, left
<1>11. left <= 0 => PaidInFull(l)
  BY <1>2, <1>3, <1>7, <1>8, CountedInFull DEF IsCounted
<1>12. PICK info : info = [tracker[l] EXCEPT !.repayLeft = left, !.repaid = @ \/ left <= 0]
  OBVIOUS
<1>13. tracker' = [tracker EXCEPT ![l] = info]
  BY <1>2, <1>3, <1>9, <1>12
<1>14. /\ info \in LoanInfo /\ info.repayLeft = left
       /\ info.repaid = (tracker[l].repaid \/ left <= 0)
  BY <1>2, <1>7, <1>12 DEF LoanInfo
<1>15. InfoIsRight(l, info, Finished \cup {q})
  BY <1>2, <1>7, <1>8, <1>11, <1>14 DEF InfoIsRight
<1>16. TrackerMoves
  BY <1>2, <1>10, <1>13, <1>14, <1>15 DEF TrackerMoves
<1>17. QED
  BY <1>2, <1>9, <1>16, ReturnKeeps DEF Finishes

-----------------------------------------------------------------------------
(* The steps of the worker and of everybody else                           *)

\* A handler's step keeps what is known.
LEMMA HandleKeeps ==
    ASSUME Grounds, RepaidIsPaid, AmountsArePositive, CcQueue, NEW p \in Pollers, Handle(p)
    PROVE  Kept
  BY RegisteredKeeps, RegistrationKeeps, SourceEventKeeps, ProveKeeps, FundingKeeps,
     RepaidOrderKeeps, RepayProofKeeps, RepaymentCounts DEF Handle

\* A round starts, or polls read the head of their chain.
LEMMA RoundKeeps ==
    ASSUME Grounds, WorkerInv,
           StartRound \/ \E S \in Heads : ReadHead(S) \/ HeadError(S)
    PROVE  Kept
<1> USE DEF Grounds
<1>1. UNCHANGED tracker /\ processedTxs' \subseteq processedTxs
  BY DEF StartRound, ReadHead, HeadError
<1>2. /\ PollInv' /\ Finished \subseteq Finished'
      /\ \A p \in Pollers : polls'[p].at \notin Awaiting \/ polls'[p] = polls[p]
  BY RoundStep, HeadStep
<1>3. TrackerInv' /\ TrackerGrows
  BY <1>1, <1>2, TrackerStays DEF TrackerGrows
<1>4. PICK after : after = polls'
  OBVIOUS
<1>5. ASSUME NEW p \in Pollers
      PROVE  HandIsRight(p, after[p])'
  <2>1. PICK a : a = after[p]
    OBVIOUS
  <2>2. CASE a.at \notin Awaiting
    <3>1. HandIsRight(p, a)'
      BY <2>2 DEF HandIsRight
    <3>2. QED
      BY <2>1, <3>1
  <2>3. CASE a = polls[p]
    <3>1. PollIsRight(p, a) /\ HandIsRight(p, a)
      BY <2>3 DEF PollInv, HandInv
    <3>2. HandIsRight(p, a)'
      BY <1>1, <1>3, <3>1, HandStays
    <3>3. QED
      BY <2>1, <3>2
  <2>4. QED
    BY <1>2, <1>4, <2>1, <2>2, <2>3
<1>6. HandInv'
  BY <1>4, <1>5 DEF HandInv, HandIsRight
<1>7. QED
  BY <1>2, <1>3, <1>6 DEF Kept

\* Nothing but the tracker and the chains changes.
LEMMA OthersKeep ==
    ASSUME Grounds, UNCHANGED <<polls, processedTxs>>, TrackerMoves
    PROVE  Kept
<1> USE DEF Grounds
<1>1. PICK next : next = polls
  OBVIOUS
<1>2. /\ next \in [Pollers -> Polls(Nat)] /\ polls' = next
      /\ \A p \in Pollers : PollIsRight(p, next[p]) /\ HandIsRight(p, next[p])
      /\ Goal(next["LoanFunded"]) = Goal(next["LoanRepaid"])
      /\ next["LoanFunded"].at = "head" <=> next["LoanRepaid"].at = "head"
      /\ CacheIsBehind(processedTxs', next["LoanRepaid"])
  BY <1>1 DEF PollInv, HandInv, PollsAgree
<1>3. PollInv'
  BY <1>2, PollsNext
<1>4. Finished \subseteq Finished'
  BY DEF Finished
<1>5. TrackerInv' /\ TrackerGrows
  <2>1. CASE UNCHANGED tracker
    BY <1>4, <2>1, TrackerStays DEF TrackerGrows
  <2>2. ASSUME NEW l \in LoanIds, NEW info \in LoanInfo, NEW extra \in SUBSET Finished',
               tracker' = [tracker EXCEPT ![l] = info], InfoIsRight(l, info, Finished \cup extra)
        PROVE  TrackerInv' /\ TrackerGrows
    BY <1>4, <2>2, TrackerChanges DEF TrackerGrows
  <2>3. QED
    BY <2>1, <2>2 DEF TrackerMoves
<1>6. \A p \in Pollers : HandIsRight(p, next[p])'
  BY <1>2, <1>5, HandStays
<1>7. HandInv'
  BY <1>2, <1>6 DEF HandInv, HandIsRight
<1>8. QED
  BY <1>3, <1>5, <1>7 DEF Kept

\* A loan expires.
LEMMA ExpireKeeps ==
    ASSUME Grounds, ExpiringAreTracked, NEW l \in LoanIds, ExpireLoan(l)
    PROVE  Kept
<1>1. UNCHANGED <<polls, processedTxs>> /\ l \in expiring
  BY DEF ExpireLoan
<1>2. /\ tracker \in [LoanIds -> LoanInfo \cup {None}] /\ tracker[l] # None
      /\ tracker[l] \in LoanInfo
  BY <1>1 DEF Grounds, TrackerInv, ExpiringAreTracked
<1>3. CASE UNCHANGED tracker
  BY <1>1, <1>3, OthersKeep DEF TrackerMoves
<1>4. CASE tracker' = [tracker EXCEPT ![l].expired = TRUE]
  <2>1. PICK info : info = [tracker[l] EXCEPT !.expired = TRUE]
    OBVIOUS
  <2>2. /\ info \in LoanInfo /\ info.repayLeft = tracker[l].repayLeft
        /\ info.repaid = tracker[l].repaid
    BY <1>2, <2>1 DEF LoanInfo
  <2>3. tracker' = [tracker EXCEPT ![l] = info]
    BY <1>2, <1>4, <2>1
  <2>4. TrackerMoves
    BY <1>2, <2>2, <2>3, FlagsMove
  <2>5. QED
    BY <1>1, <2>4, OthersKeep
<1>5. QED
  BY <1>3, <1>4 DEF ExpireLoan

-----------------------------------------------------------------------------
(* The invariant and the theorem                                           *)

\* The invariant holds before the worker starts.
LEMMA CountInit == WorkerInit => CountInv
<1> SUFFICES ASSUME WorkerInit
             PROVE  CountInv
  OBVIOUS
<1> USE DEF WorkerInit
<1>1. AmountsArePositive
  BY DEF Init, AuxiliaryInit, AmountsArePositive
<1>2. ManagerIsSetUp
  BY DEF Init, NoOrder, ManagerIsSetUp
<1>3. CcQueue /\ ExpiringAreTracked
  BY DEF CcQueue, ExpiringAreTracked
<1>4. /\ PollFrom(0) \in Polls(Nat) /\ PollFrom(0).at = "head" /\ PollFrom(0).at \notin Awaiting
      /\ \A p : PollIsRight(p, PollFrom(0))
  BY MaxLogBlockRangeAssumption DEF PollFrom, PollIsRight, Polls, Waits, Reading, Handling, Awaiting
<1>5. /\ polls \in [Pollers -> Polls(Nat)] /\ \A p \in Pollers : polls[p] = PollFrom(0)
      /\ {"LoanFunded", "LoanRepaid"} \subseteq Pollers
  BY <1>4 DEF Pollers, SourceEvents
<1>6. PollInv
  BY <1>4, <1>5 DEF PollInv, PollsAgree, CacheIsBehind
<1>7. HandInv
  BY <1>4, <1>5 DEF HandInv, HandIsRight
<1>8. TrackerInv
  BY DEF TrackerInv, InfoIsRight
<1>9. QED
  BY <1>1, <1>2, <1>3, <1>6, <1>7, <1>8 DEF CountInv

\* A step takes the loans at their deadline from the tracker.
LEMMA ExpiringStep ==
    ASSUME [WorkerNext]_allVars
    PROVE  expiring' \subseteq expiring \cup loanExpiriesAt(emitted + 1)
<1>1. CASE UNCHANGED expiring
  BY <1>1
<1>2. CASE BlockStep
  BY <1>2 DEF BlockStep, EmitBlock, ExpireLoan
<1>3. ASSUME NEW p \in Pollers, Handle(p)
      PROVE  UNCHANGED expiring
  BY <1>3
     DEF Handle, OnRegistered, SubmitRegistration, OnSourceEvent, Prove, ReadFundedOrder,
         SubmitFundProof, FundProofSent, ReadRepaidOrder, SubmitRepayProof, RepayProofSent, blockVars
<1>4. CASE \/ StartRound
           \/ \E S \in Heads : ReadHead(S) \/ HeadError(S)
           \/ \E p \in Pollers : Query(p) \/ Throw(p)
  BY <1>1, <1>4 DEF StartRound, ReadHead, HeadError, Query, Throw, blockVars
<1>5. CASE MineOnSource \/ MineOnCreditcoin \/ Attest \/ UNCHANGED workerVars
  BY <1>1, <1>5 DEF MineOnSource, MineOnCreditcoin, Attest, workerVars, blockVars
<1>6. QED
  BY <1>1, <1>2, <1>3, <1>4, <1>5 DEF WorkerNext, PollingStep, allVars

\* Every step keeps the invariant.
LEMMA CountStep ==
    WorkerInv /\ RepaidIsPaid /\ CountInv /\ [WorkerNext]_allVars => CountInv'
<1> SUFFICES ASSUME WorkerInv, RepaidIsPaid, CountInv, [WorkerNext]_allVars
             PROVE  CountInv'
  OBVIOUS
<1> USE DEF CountInv
<1>1. [Next]_vars /\ IInv /\ IInv'
  BY WorkerInvStep DEF WorkerInv
<1>2. TellsOn
  BY ToldStays DEF TellsOn
<1>3. Grounds
  BY <1>1, <1>2 DEF Grounds
<1>4. Kept
  <2>1. CASE StartRound \/ \E S \in Heads : ReadHead(S) \/ HeadError(S)
    BY <1>3, <2>1, RoundKeeps
  <2>2. ASSUME NEW p \in Pollers, Query(p) \/ Handle(p) \/ Throw(p)
        PROVE  Kept
    BY <1>3, <2>2, QueryKeeps, HandleKeeps, ThrowKeeps
  <2>3. CASE UNCHANGED <<polls, processedTxs, tracker>>
    BY <1>3, <2>3, OthersKeep DEF TrackerMoves
  <2>4. CASE BlockStep
    BY <1>3, <2>3, <2>4, ExpireKeeps DEF BlockStep, EmitBlock
  <2>5. CASE MineOnSource \/ MineOnCreditcoin \/ Attest \/ UNCHANGED workerVars
    BY <2>3, <2>5 DEF MineOnSource, MineOnCreditcoin, Attest, workerVars
  <2>6. QED
    BY <2>1, <2>2, <2>4, <2>5 DEF WorkerNext, PollingStep, allVars
<1>5. AmountsArePositive' /\ ManagerIsSetUp' /\ CcQueue'
  BY <1>1, AmountsStep, SetUpStep, CcQueueStep
<1>6. ExpiringAreTracked'
  <2>1. ASSUME NEW l \in expiring'
        PROVE  l \in LoanIds /\ tracker[l] # None
    <3>1. l \in expiring \/ l \in loanExpiriesAt(emitted + 1)
      BY ExpiringStep
    <3>2. expiring \subseteq LoanIds
      BY <1>1 DEF CcQueue, Late, IInv, TypeOK
    <3>3. QED
      BY <3>1, <3>2 DEF loanExpiriesAt, ExpiringAreTracked
  <2>2. QED
    BY <1>4, <2>1 DEF Kept, TrackerGrows, ExpiringAreTracked
<1>7. QED
  BY <1>4, <1>5, <1>6 DEF Kept

\* The invariant contains the property.
LEMMA CountInvCounts == WorkerInv /\ CountInv => RepaymentsCountOnce
<1> SUFFICES ASSUME WorkerInv, CountInv, NEW l \in LoanIds, tracker[l] # None
             PROVE  /\ \/ orders[l].terms.repay - tracker[l].repayLeft <= Volume(Repayments(l) \cap Told)
                       \/ ccBlock > Deadline(l)
                    /\ tracker[l].repaid => repayLeft[l] = 0 /\ Repayments(l) # {}
  BY DEF RepaymentsCountOnce
<1>1. /\ l \in registeredLoans /\ IsCounted(l, tracker[l].repayLeft, Finished)
      /\ tracker[l].repaid => PaidInFull(l)
      /\ tracker[l] \in LoanInfo
  BY DEF CountInv, TrackerInv, InfoIsRight
<1>2. TypeOK /\ orders[l].terms \in Offers
  BY <1>1 DEF WorkerInv, IInv, LoansAreNumbered
<1>3. orders[l].terms.repay - tracker[l].repayLeft \in Int
  BY <1>1, <1>2, ManagerAssumption DEF LoanInfo
<1>4. /\ Volume(Repayments(l) \cap Finished \cap Told) <= Volume(Repayments(l) \cap Told)
      /\ Volume(Repayments(l) \cap Finished \cap Told) \in Nat
      /\ Volume(Repayments(l) \cap Told) \in Nat
  <2> DEFINE T == Repayments(l) \cap Told
             S == Repayments(l) \cap Finished \cap Told
  <2>1. T \in SUBSET DOMAIN logs /\ S \in SUBSET DOMAIN logs /\ S \in SUBSET T
    BY DEF Repayments
  <2> HIDE DEF S, T
  <2>2. /\ IsFiniteSet(T) /\ \A q \in T : Amounts[q] \in Nat
        /\ Volume(T) = SumFunctionOnSet(Amounts, T) /\ Volume(S) = SumFunctionOnSet(Amounts, S)
    BY <1>2, <2>1, AmountsType
  <2>3. Volume(S) <= Volume(T) /\ Volume(S) \in Nat /\ Volume(T) \in Nat
    BY <2>1, <2>2, SumOfPart
  <2>4. QED
    BY <2>3 DEF S, T
<1>5. l \in Late \/ orders[l].terms.repay - tracker[l].repayLeft <= Volume(Repayments(l) \cap Told)
  <2> DEFINE debt == orders[l].terms.repay - tracker[l].repayLeft
  <2>1. debt \in Int /\ (l \in Late \/ debt <= Volume(Repayments(l) \cap Finished \cap Told))
    BY <1>1, <1>3 DEF IsCounted
  <2> HIDE DEF debt
  <2>2. l \in Late \/ debt <= Volume(Repayments(l) \cap Told)
    BY <1>4, <2>1
  <2>3. QED
    BY <2>2 DEF debt
<1>6. QED
  BY <1>1, <1>5 DEF Late, PaidInFull

\* A repayment counts once, however often its event is delivered: until the deadline
\* the worker counts no more than it has told Creditcoin, and a loan that it calls
\* repaid has been paid in full on the source chain.
THEOREM RepaymentsAreCountedOnce == WorkerSpec => []RepaymentsCountOnce
<1>1. WorkerSpec => []RepaidIsPaid
  BY WorkerUsesLoanManager, RepaidAmountsArePaid, PTL DEF ImplementsLoanManager
<1>2. QED
  BY <1>1, WorkerInvInit, WorkerInvStep, CountInit, CountStep, CountInvCounts, PTL DEF WorkerSpec

=============================================================================
