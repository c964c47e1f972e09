---------------------- MODULE RemittanceCorridorProofs ----------------------
(***************************************************************************)
(* Proofs about the corridor, for every set of deposit contracts and       *)
(* tokens, every finite set of accounts, every number of transactions and  *)
(* every batch size: first the payments and their refinement, then what    *)
(* the amounts add up to.                                                  *)
(***************************************************************************)
EXTENDS RemittanceCorridor, SequenceTheorems, SumTheorems

-----------------------------------------------------------------------------
(* Sequences and counting                                                  *)

\* A function on 1..n is a sequence of its values.
LEMMA FunctionIsSeq ==
    ASSUME NEW S, NEW n \in Nat, NEW f \in [1 .. n -> S]
    PROVE  f \in Seq(S) /\ Len(f) = n
<1>1. f \in Seq(S)
  BY SeqDef
<1>2. QED
  BY <1>1, LenProperties

\* The steps of a transaction.
LEMMA TransactionType ==
    ASSUME NEW tx \in Transactions
    PROVE  /\ tx.sender \in Addresses
           /\ Len(tx.steps) \in Nat
           /\ DOMAIN tx.steps = 1 .. Len(tx.steps)
           /\ \A i \in 1 .. Len(tx.steps) : tx.steps[i] \in Step
<1>1. tx \in [sender : Addresses, steps : Seq(Step)]
  BY TransactionsAssumption
<1>2. tx.sender \in Addresses /\ tx.steps \in Seq(Step)
  BY <1>1
<1>3. QED
  BY <1>2, LenProperties, ElementOfSeq

\* What each kind of step carries.
LEMMA StepType ==
    ASSUME NEW step \in Step
    PROVE  /\ step.kind \in {"deposit", "observe", "RemittanceDeposited", "RateObserved"}
           /\ step.kind = "deposit" =>
                 /\ step.contract \in DepositContracts
                 /\ step.receiver \in Addresses \cup {ZeroAddress}
                 /\ step.amount \in Nat
           /\ step.kind = "observe" => step.contract \in DepositContracts
           /\ step.kind = "RemittanceDeposited" =>
                 step.log \in DepositLog /\ step.log.contract \in OtherContracts
           /\ step.kind = "RateObserved" =>
                 step.log \in RateLog /\ step.log.feed \in OtherContracts
BY DEF Step

\* The calls to a contract among the first n steps can be counted.
LEMMA CallsToCount ==
    ASSUME NEW tx \in Transactions, NEW c, NEW n \in Int
    PROVE  /\ IsFiniteSet(CallsTo(tx, c, n))
           /\ Cardinality(CallsTo(tx, c, n)) \in Nat
<1> DEFINE k == Len(tx.steps)
<1>1. k \in Nat /\ DOMAIN tx.steps = 1 .. k
  BY TransactionType
<1>2. CallsTo(tx, c, n) \subseteq 1 .. k
  BY <1>1 DEF CallsTo, Calls, At
<1> HIDE DEF k
<1>3. IsFiniteSet(1 .. k)
  BY <1>1, FS_Interval
<1>4. IsFiniteSet(CallsTo(tx, c, n))
  BY <1>2, <1>3, FS_Subset
<1>5. QED
  BY <1>4, FS_CardinalityType

\* A set of numbers that is not empty has its minimum in it.
LEMMA MinIsIn ==
    ASSUME NEW S \in SUBSET Nat, S # {}
    PROVE  Min(S) \in S
<1>1. PICK k \in S : \A j \in S : ~(j < k)
  BY LeastNumber
<1>2. \A j \in S : k =< j
  BY <1>1
<1>3. QED
  BY <1>1, <1>2 DEF Min

\* The first log of a kind is one of the logs of that kind.
LEMMA FirstLogType ==
    ASSUME NEW T, NEW logs \in Seq(T \cup {NoLog}), Emitted(logs) # {}
    PROVE  /\ \E i \in Emitted(logs) : FirstLog(logs) = logs[i]
           /\ FirstLog(logs) \in T
<1>1. DOMAIN logs \subseteq Nat
  BY LenProperties
<1>2. Emitted(logs) \in SUBSET Nat
  BY <1>1 DEF Emitted
<1>3. Min(Emitted(logs)) \in Emitted(logs)
  BY <1>2, MinIsIn
<1>4. \A i \in DOMAIN logs : logs[i] \in T \cup {NoLog}
  BY LenProperties, ElementOfSeq
<1>5. QED
  BY <1>3, <1>4 DEF FirstLog, Emitted

\* Appending keeps the earlier elements and adds the new one.
LEMMA AppendElements ==
    ASSUME NEW S, NEW s \in Seq(S), NEW e \in S
    PROVE  /\ Append(s, e) \in Seq(S)
           /\ Len(Append(s, e)) = Len(s) + 1
           /\ \A i \in 1 .. Len(s) : Append(s, e)[i] = s[i]
           /\ Append(s, e)[Len(s) + 1] = e
  OBVIOUS

-----------------------------------------------------------------------------
(* Types                                                                   *)

\* What a transaction that succeeds logs of deposits: each call of deposit is logged
\* where it is made, with a positive amount, and the other logs are of other contracts.
LEMMA DepositLogsType ==
    ASSUME TypeOK, NEW tx \in Transactions, Succeeds(tx)
    PROVE  /\ DepositLogs(tx) \in Seq(DepositLog \cup {NoLog})
           /\ DOMAIN DepositLogs(tx) = 1 .. Len(tx.steps)
           /\ Calls(tx) \subseteq 1 .. Len(tx.steps)
           /\ \A i \in Calls(tx) :
                 /\ i \in Emitted(DepositLogs(tx))
                 /\ tx.steps[i].contract \in DepositContracts
                 /\ DepositLogs(tx)[i].contract = tx.steps[i].contract
                 /\ tx.steps[i].amount \in Nat \ {0}
                 /\ DepositLogs(tx)[i].amount = tx.steps[i].amount
                 /\ DepositLogs(tx)[i].depositId =
                       depositCount[tx.steps[i].contract]
                         + Cardinality(CallsTo(tx, tx.steps[i].contract, i - 1))
           /\ \A i \in Emitted(DepositLogs(tx)) \ Calls(tx) :
                 DepositLogs(tx)[i].contract \in OtherContracts
<1> DEFINE n == Len(tx.steps)
           logs == DepositLogs(tx)
<1>1. /\ n \in Nat
      /\ tx.sender \in Addresses
      /\ DOMAIN tx.steps = 1 .. n
      /\ \A i \in 1 .. n : tx.steps[i] \in Step
  BY TransactionType
<1>2. DOMAIN logs = 1 .. n
  BY DEF DepositLogs
<1>3. Calls(tx) = {i \in 1 .. n : tx.steps[i].kind = "deposit"}
  BY <1>1 DEF Calls, At
<1>4. ASSUME NEW i \in Calls(tx)
      PROVE  /\ tx.steps[i].contract \in DepositContracts
             /\ tx.steps[i].amount \in Nat \ {0}
             /\ logs[i] \in DepositLog
             /\ logs[i].contract = tx.steps[i].contract
             /\ logs[i].amount = tx.steps[i].amount
             /\ logs[i].depositId = depositCount[tx.steps[i].contract]
                                      + Cardinality(CallsTo(tx, tx.steps[i].contract, i - 1))
  <2> DEFINE step == tx.steps[i]
             log == [contract |-> step.contract, sender |-> tx.sender,
                     receiver |-> step.receiver, amount |-> step.amount,
                     depositId |-> depositCount[step.contract]
                                      + Cardinality(CallsTo(tx, step.contract, i - 1))]
  <2>1. step \in Step /\ step.kind = "deposit" /\ i \in 1 .. n
    BY <1>1, <1>3
  <2>2. /\ step.contract \in DepositContracts
        /\ step.receiver \in Addresses \cup {ZeroAddress}
        /\ step.amount \in Nat
    BY <2>1, StepType
  <2>3. step.receiver \in Addresses /\ step.amount # 0
    BY <2>2 DEF Succeeds
  <2>4. logs[i] = log
    BY <2>1 DEF DepositLogs
  <2>5. i - 1 \in Int
    BY <2>1
  <2>6. Cardinality(CallsTo(tx, step.contract, i - 1)) \in Nat /\ depositCount[step.contract] \in Nat
    BY <2>2, <2>5, CallsToCount DEF TypeOK, DepositTypeOK
  <2>7. log \in DepositLog
    BY <1>1, <2>2, <2>3, <2>6 DEF DepositLog, Contracts
  <2>8. QED
    BY <2>2, <2>3, <2>4, <2>7
<1>5. ASSUME NEW i \in (1 .. n) \ Calls(tx)
      PROVE  logs[i] = NoLog \/ (logs[i] \in DepositLog /\ logs[i].contract \in OtherContracts)
  <2> DEFINE step == tx.steps[i]
  <2>1. step \in Step /\ step.kind # "deposit"
    BY <1>1, <1>3
  <2>2. logs[i] = IF step.kind = "RemittanceDeposited" THEN step.log ELSE NoLog
    BY <2>1 DEF DepositLogs
  <2>3. step.kind = "RemittanceDeposited" =>
           step.log \in DepositLog /\ step.log.contract \in OtherContracts
    BY <2>1, StepType
  <2>4. QED
    BY <2>2, <2>3
<1>6. logs \in Seq(DepositLog \cup {NoLog})
  <2>1. \A i \in 1 .. n : logs[i] \in DepositLog \cup {NoLog}
    BY <1>4, <1>5
  <2>2. logs \in [1 .. n -> DepositLog \cup {NoLog}]
    BY <2>1 DEF DepositLogs
  <2>3. QED
    BY <1>1, <2>2, FunctionIsSeq
<1>7. Calls(tx) \subseteq Emitted(logs)
  BY <1>2, <1>3, <1>4, NoLogAssumption DEF Emitted
<1>8. \A i \in Emitted(logs) \ Calls(tx) : logs[i].contract \in OtherContracts
  BY <1>2, <1>5 DEF Emitted
<1>9. QED
  BY <1>2, <1>3, <1>4, <1>6, <1>7, <1>8

\* And of rates: each call of deposit or observe logs the reading of its feed, which is
\* positive, and the other logs are of other contracts.
LEMMA RateLogsType ==
    ASSUME TypeOK, NEW tx \in Transactions, Succeeds(tx)
    PROVE  /\ RateLogs(tx) \in Seq(RateLog \cup {NoLog})
           /\ \A i \in Calls(tx) :
                 i \in Emitted(RateLogs(tx)) /\ RateLogs(tx)[i].feed = tx.steps[i].contract
           /\ \A i \in Emitted(RateLogs(tx)) :
                 \/ RateLogs(tx)[i].feed \in OtherContracts
                 \/ \E c \in DepositContracts :
                       /\ RateLogs(tx)[i] = Observed(c)
                       /\ Observed(c).answer > 0
                       /\ Observed(c).decimals \in FeedDecimals
<1> DEFINE n == Len(tx.steps)
           logs == RateLogs(tx)
           observing == {i \in 1 .. n : tx.steps[i].kind \in {"deposit", "observe"}}
<1>1. /\ n \in Nat
      /\ DOMAIN tx.steps = 1 .. n
      /\ \A i \in 1 .. n : tx.steps[i] \in Step
  BY TransactionType
<1>2. DOMAIN logs = 1 .. n
  BY DEF RateLogs
<1>3. observing = At(tx, {"deposit", "observe"}) /\ Calls(tx) \subseteq observing
  BY <1>1 DEF Calls, At
<1>4. ASSUME NEW i \in observing
      PROVE  /\ tx.steps[i].contract \in DepositContracts
             /\ logs[i] = Observed(tx.steps[i].contract)
             /\ logs[i] \in RateLog
             /\ logs[i].feed = tx.steps[i].contract
             /\ Observed(tx.steps[i].contract).answer > 0
             /\ Observed(tx.steps[i].contract).decimals \in FeedDecimals
  <2> DEFINE step == tx.steps[i]
             c == step.contract
  <2>1. step \in Step /\ step.kind \in {"deposit", "observe"} /\ i \in 1 .. n
    BY <1>1
  <2>2. c \in DepositContracts
    BY <2>1, StepType
  <2>3. logs[i] = Observed(c)
    BY <2>1 DEF RateLogs
  <2>4. feed[c] \in [answer : Int, decimals : FeedDecimals, stale : BOOLEAN]
    BY <2>2, ReadingsAssumption DEF TypeOK, DepositTypeOK
  <2>5. Observable(c)
    BY <1>3, <2>1 DEF Succeeds
  <2>6. Observed(c) \in RateLog /\ Observed(c).feed = c
    BY <2>2, <2>4, LogDecimalsAssumption DEF Observed, RateLog, Contracts
  <2>7. Observed(c).answer > 0 /\ Observed(c).decimals \in FeedDecimals
    BY <2>4, <2>5 DEF Observed, Observable
  <2>8. QED
    BY <2>2, <2>3, <2>6, <2>7
<1>5. ASSUME NEW i \in (1 .. n) \ observing
      PROVE  logs[i] = NoLog \/ (logs[i] \in RateLog /\ logs[i].feed \in OtherContracts)
  <2> DEFINE step == tx.steps[i]
  <2>1. step \in Step /\ step.kind \notin {"deposit", "observe"}
    BY <1>1
  <2>2. logs[i] = IF step.kind = "RateObserved" THEN step.log ELSE NoLog
    BY <2>1 DEF RateLogs
  <2>3. step.kind = "RateObserved" => step.log \in RateLog /\ step.log.feed \in OtherContracts
    BY <2>1, StepType
  <2>4. QED
    BY <2>2, <2>3
<1>6. logs \in Seq(RateLog \cup {NoLog})
  <2>1. \A i \in 1 .. n : logs[i] \in RateLog \cup {NoLog}
    BY <1>4, <1>5
  <2>2. logs \in [1 .. n -> RateLog \cup {NoLog}]
    BY <2>1 DEF RateLogs
  <2>3. QED
    BY <1>1, <2>2, FunctionIsSeq
<1>7. ASSUME NEW i \in Calls(tx)
      PROVE  i \in Emitted(logs) /\ logs[i].feed = tx.steps[i].contract
  <2>1. i \in observing
    BY <1>3
  <2>2. i \in 1 .. n /\ logs[i] \in RateLog /\ logs[i].feed = tx.steps[i].contract
    BY <1>4, <2>1
  <2>3. QED
    BY <1>2, <2>2, NoLogAssumption DEF Emitted
<1>8. ASSUME NEW i \in Emitted(logs)
      PROVE  \/ logs[i].feed \in OtherContracts
             \/ \E c \in DepositContracts : /\ logs[i] = Observed(c)
                                            /\ Observed(c).answer > 0
                                            /\ Observed(c).decimals \in FeedDecimals
  <2>1. i \in 1 .. n /\ logs[i] # NoLog
    BY <1>2 DEF Emitted
  <2>2. CASE i \in observing
    <3>1. /\ tx.steps[i].contract \in DepositContracts
          /\ logs[i] = Observed(tx.steps[i].contract)
          /\ Observed(tx.steps[i].contract).answer > 0
          /\ Observed(tx.steps[i].contract).decimals \in FeedDecimals
      BY <1>4, <2>2
    <3>2. QED
      BY <3>1
  <2>3. CASE i \notin observing
    BY <1>5, <2>1, <2>3
  <2>4. QED
    BY <2>2, <2>3
<1>9. QED
  BY <1>6, <1>7, <1>8

\* The receipt of a transaction that succeeds.
ReceiptOf(tx) == [status |-> TRUE, deposits |-> DepositLogs(tx), rates |-> RateLogs(tx)]

\* It is a receipt, and shows of the corridor's contracts what it should.
LEMMA DepositReceiptType ==
    ASSUME TypeOK, NEW tx \in Transactions, Succeeds(tx)
    PROVE  ReceiptOf(tx) \in Receipt /\ WellFormed(ReceiptOf(tx))
<1> DEFINE deposits == DepositLogs(tx)
           rates == RateLogs(tx)
<1>1. ReceiptOf(tx) \in Receipt
  BY DepositLogsType, RateLogsType DEF ReceiptOf, Receipt
<1>2. ASSUME NEW i \in Emitted(deposits), deposits[i].contract \in DepositContracts
      PROVE  deposits[i].amount > 0 /\ \E j \in Emitted(rates) : rates[j].feed = deposits[i].contract
  <2>1. i \in Calls(tx)
    BY <1>2, DepositLogsType, OtherContractsAssumption
  <2>2. deposits[i].amount > 0 /\ deposits[i].contract = tx.steps[i].contract
    BY <2>1, DepositLogsType
  <2>3. i \in Emitted(rates) /\ rates[i].feed = tx.steps[i].contract
    BY <2>1, RateLogsType
  <2>4. QED
    BY <2>2, <2>3
<1>3. ASSUME NEW j \in Emitted(rates), rates[j].feed \in DepositContracts
      PROVE  /\ rates[j] = Observed(rates[j].feed)
             /\ rates[j].answer > 0
             /\ rates[j].decimals \in FeedDecimals
  <2>1. PICK c \in DepositContracts : /\ rates[j] = Observed(c)
                                      /\ Observed(c).answer > 0
                                      /\ Observed(c).decimals \in FeedDecimals
    BY <1>3, RateLogsType, OtherContractsAssumption
  <2>2. Observed(c).feed = c
    BY DEF Observed
  <2>3. QED
    BY <2>1, <2>2
<1>4. ASSUME NEW j \in Emitted(rates), rates[j].feed \in DepositContracts,
             NEW k \in Emitted(rates), rates[k].feed = rates[j].feed
      PROVE  rates[k] = rates[j]
  <2>1. rates[j] = Observed(rates[j].feed) /\ rates[k] = Observed(rates[k].feed)
    BY <1>3, <1>4
  <2>2. QED
    BY <1>4, <2>1
<1>5. /\ ReceiptOf(tx).status
      /\ ReceiptOf(tx).deposits = deposits
      /\ ReceiptOf(tx).rates = rates
  BY DEF ReceiptOf
<1> HIDE DEF deposits, rates
<1>6. WellFormed(ReceiptOf(tx))
  BY <1>2, <1>3, <1>4, <1>5 DEF WellFormed
<1>7. QED
  BY <1>1, <1>6

\* So is what is left of one that reverts.
LEMMA RevertedReceiptType ==
    /\ RevertedReceipt \in Receipt /\ WellFormed(RevertedReceipt)
    /\ RevertedReceipt.deposits = <<>> /\ Emitted(RevertedReceipt.deposits) = {}
<1>1. RevertedReceipt \in Receipt
  BY EmptySeq DEF RevertedReceipt, Receipt
<1>2. RevertedReceipt.deposits = <<>> /\ RevertedReceipt.rates = <<>>
  BY DEF RevertedReceipt
<1>3. Emitted(<<>>) = {}
  BY DEF Emitted
<1>4. QED
  BY <1>1, <1>2, <1>3 DEF WellFormed

\* The receipts of the chain are receipts.
LEMMA ReceiptType ==
    ASSUME TypeOK, NEW q \in DOMAIN receipts
    PROVE  /\ receipts[q] \in Receipt
           /\ receipts[q].deposits \in Seq(DepositLog \cup {NoLog})
           /\ receipts[q].rates \in Seq(RateLog \cup {NoLog})
<1>1. receipts \in Seq(Receipt) /\ q \in 1 .. Len(receipts)
  BY LenProperties DEF TypeOK, ReceiptsTypeOK
<1>2. receipts[q] \in Receipt
  BY <1>1, ElementOfSeq
<1>3. QED
  BY <1>2 DEF Receipt

\* The logs the escrow reads are well typed, and are in the receipt.
LEMMA ReadLogsType ==
    ASSUME TypeOK, NEW q \in DOMAIN receipts,
           Emitted(receipts[q].deposits) # {}, Emitted(receipts[q].rates) # {}
    PROVE  /\ DepositOf(q) \in DepositLog
           /\ \E i \in Emitted(receipts[q].deposits) : DepositOf(q) = receipts[q].deposits[i]
           /\ RateOf(q) \in RateLog
           /\ \E i \in Emitted(receipts[q].rates) : RateOf(q) = receipts[q].rates[i]
BY ReceiptType, FirstLogType DEF DepositOf, RateOf

\* The payout is a number once the rate has passed its requires.
LEMMA PayoutType ==
    ASSUME NEW q, DepositOf(q) \in DepositLog, RateOf(q) \in RateLog,
           RateOf(q).answer > 0, RateOf(q).decimals <= MaxRateDecimals
    PROVE  /\ DepositOf(q).amount * RateOf(q).answer \in Nat
           /\ 10 ^ RateOf(q).decimals \in Nat \ {0}
           /\ Payout(q) \in Nat
<1> DEFINE value == DepositOf(q).amount * RateOf(q).answer
           scale == 10 ^ RateOf(q).decimals
<1>1. value \in Nat
  BY DEF DepositLog, RateLog
<1>2. scale \in Nat /\ scale > 0
  <2>1. RateOf(q).decimals \in LogDecimals
    BY DEF RateLog
  <2>2. scale \in Int
    <3>1. RateOf(q).decimals \in Nat
      BY <2>1, LogDecimalsAssumption
    <3>2. QED
      BY <3>1
  <2>3. scale > 0
    BY <2>1, RateDecimalsAssumption
  <2>4. QED
    BY <2>2, <2>3
<1>3. value \div scale \in Nat
  <2> HIDE DEF value, scale
  <2> QED BY <1>1, <1>2
<1>4. QED
  BY <1>1, <1>2, <1>3 DEF Payout

\* A transaction that can be released has well-typed logs, payout and TransferReleased
\* event.
LEMMA ReleaseEventType ==
    ASSUME TypeOK, NEW q \in AttestedQueries, Releasable(q)
    PROVE  /\ q \in DOMAIN receipts
           /\ DepositOf(q) \in DepositLog
           /\ RateOf(q) \in RateLog
           /\ Payout(q) \in Nat
           /\ TransferReleased(q) \in ReleaseEvent
<1>1. q \in DOMAIN receipts /\ q \in QueryIds
  BY LenProperties DEF TypeOK, ReceiptsTypeOK, AttestedQueries, QueryIds
<1>2. DepositOf(q) \in DepositLog /\ RateOf(q) \in RateLog
  BY <1>1, ReadLogsType DEF Releasable
<1>3. Payout(q) \in Nat
  BY <1>2, PayoutType DEF Releasable
<1>4. RateOf(q).decimals \in Nat /\ RateOf(q).answer \in Nat
  <2>1. RateOf(q).decimals \in LogDecimals /\ RateOf(q).answer \in Int
    BY <1>2 DEF RateLog
  <2>2. RateOf(q).answer > 0
    BY DEF Releasable
  <2>3. RateOf(q).decimals \in Nat
    BY <2>1, LogDecimalsAssumption
  <2>4. RateOf(q).answer \in Nat
    BY <2>1, <2>2
  <2>5. QED
    BY <2>3, <2>4
<1>5. QED
  BY <1>1, <1>2, <1>3, <1>4 DEF TransferReleased, ReleaseEvent, DepositLog

-----------------------------------------------------------------------------
(* The log of releases                                                     *)

\* What holds of a released transaction goes on holding as long as its receipt
\* stays and registered corridors keep their token.
LEMMA ReleasableStays ==
    ASSUME TypeOK, NEW q \in AttestedQueries, Releasable(q),
           receipts'[q] = receipts[q],
           \A c \in Contracts :
               corridors[c] # NoToken => corridors'[c] = corridors[c]
    PROVE  /\ Releasable(q)'
           /\ TransferReleased(q)' = TransferReleased(q)
           /\ TokenOf(q)' = TokenOf(q) /\ Payout(q)' = Payout(q)
<1>1. DepositOf(q)' = DepositOf(q) /\ RateOf(q)' = RateOf(q)
  BY DEF DepositOf, RateOf
<1>2. DepositOf(q).contract \in Contracts
  BY ReleaseEventType DEF DepositLog
<1>3. TokenOf(q)' = TokenOf(q)
  BY <1>1, <1>2 DEF TokenOf, Releasable
<1>4. Payout(q)' = Payout(q)
  BY <1>1 DEF Payout
<1>5. QED
  BY <1>1, <1>3, <1>4 DEF Releasable, TransferReleased, Fits

\* A step that releases nothing, keeps the attested receipts and repoints no
\* corridor leaves the log of releases as right as it was.
LEMMA LogStays ==
    ASSUME IInv,
           UNCHANGED <<released, processedQueries>>,
           AttestedQueries \subseteq AttestedQueries',
           \A q \in AttestedQueries : receipts'[q] = receipts[q],
           \A c \in Contracts :
               corridors[c] # NoToken => corridors'[c] = corridors[c]
    PROVE  PaidAtMostOnce' /\ ReleasesAreProved'
<1>1. PaidAtMostOnce'
  BY DEF IInv, PaidAtMostOnce
<1>2. ReleasesAreProved'
  <2> SUFFICES ASSUME NEW i \in DOMAIN released
               PROVE  /\ released[i].queryId \in AttestedQueries'
                      /\ Releasable(released[i].queryId)'
                      /\ released[i] = TransferReleased(released[i].queryId)'
    BY DEF ReleasesAreProved
  <2>1. /\ released[i].queryId \in AttestedQueries
        /\ Releasable(released[i].queryId)
        /\ released[i] = TransferReleased(released[i].queryId)
    BY DEF IInv, ReleasesAreProved
  <2>2. QED
    BY <2>1, ReleasableStays DEF IInv
<1>3. QED
  BY <1>1, <1>2

\* The common part of execute and executeBatch: releasing distinct, attested,
\* unprocessed transactions keeps the whole invariant.
LEMMA ReleaseKeepsIInv ==
    ASSUME IInv, NEW qs \in Seq(AttestedQueries),
           NotProcessed(qs), NoDuplicate(qs), Release(qs),
           UNCHANGED <<receipts, attested, depositVars>>
    PROVE  IInv'
<1> DEFINE m == Len(released)
           n == Len(qs)
           new == [i \in 1 .. n |-> TransferReleased(qs[i])]
<1>1. /\ n \in Nat /\ DOMAIN qs = 1 .. n
      /\ \A i \in 1 .. n : qs[i] \in AttestedQueries /\ Releasable(qs[i])
  BY LenProperties, ElementOfSeq DEF Release
<1>2. released \in Seq(ReleaseEvent) /\ m \in Nat /\ DOMAIN released = 1 .. m
  BY LenProperties DEF IInv, TypeOK, EscrowTypeOK
<1>3. new \in Seq(ReleaseEvent) /\ Len(new) = n
  <2>1. new \in [1 .. n -> ReleaseEvent]
    BY <1>1, ReleaseEventType DEF IInv
  <2>2. QED
    BY <1>1, <2>1, FunctionIsSeq
<1>4. /\ released' = released \o new
      /\ \A i \in 1 .. n : new[i] = TransferReleased(qs[i])
  BY DEF Release
<1> HIDE DEF m, n, new
<1>5. /\ released' \in Seq(ReleaseEvent)
      /\ DOMAIN released' = 1 .. m + n
      /\ \A i \in 1 .. m : released'[i] = released[i]
      /\ \A i \in m + 1 .. m + n : released'[i] = TransferReleased(qs[i - m])
  <2>1. Len(released) = m
    BY DEF m
  <2>2. /\ released' \in Seq(ReleaseEvent)
        /\ Len(released') = m + n
        /\ \A i \in 1 .. m + n :
              released'[i] = IF i <= m THEN released[i] ELSE new[i - m]
    BY <2>1, <1>4, <1>2, <1>3, ConcatProperties
  <2>3. DOMAIN released' = 1 .. m + n
    BY <2>2, LenProperties
  <2>4. ASSUME NEW i \in m + 1 .. m + n
        PROVE  released'[i] = TransferReleased(qs[i - m])
    <3>1. i \in 1 .. m + n /\ ~(i <= m) /\ i - m \in 1 .. n
      BY <1>1, <1>2
    <3>2. QED
      BY <1>4, <2>2, <3>1
  <2>5. QED
    BY <1>1, <1>2, <2>2, <2>3, <2>4
<1>6. \A i \in 1 .. m : released'[i].queryId \in processedQueries
  BY <1>2, <1>5 DEF IInv, PaidAtMostOnce
<1>7. ASSUME NEW i \in m + 1 .. m + n
      PROVE  released'[i].queryId = qs[i - m]
  <2>1. released'[i] = TransferReleased(qs[i - m])
    BY <1>5
  <2>2. QED
    BY <2>1 DEF TransferReleased
<1>8. Range(qs) = {qs[i] : i \in 1 .. n}
  BY <1>1 DEF Range
<1>9. processedQueries' = processedQueries \cup Range(qs)
  BY DEF Release
<1>10. TypeOK'
  <2>1. AttestedQueries \subseteq QueryIds
    BY DEF IInv, TypeOK, ReceiptsTypeOK, AttestedQueries, QueryIds
  <2>2. processedQueries' \subseteq QueryIds
    BY <1>1, <1>8, <1>9, <2>1 DEF IInv, TypeOK, EscrowTypeOK
  <2>3. EscrowTypeOK'
    BY <1>5, <2>2 DEF IInv, TypeOK, EscrowTypeOK, Release
  <2>4. QED
    BY <2>3 DEF IInv, TypeOK, ReceiptsTypeOK, DepositTypeOK, depositVars
<1>11. ReceiptsWellFormed' /\ CorridorsMintable'
  BY DEF IInv, ReceiptsWellFormed, CorridorsMintable, Release
<1>12. PaidAtMostOnce'
  <2>1. ASSUME NEW i \in 1 .. m + n, NEW j \in 1 .. m + n,
               released'[i].queryId = released'[j].queryId
        PROVE  i = j
    <3>1. CASE i <= m /\ j <= m
      BY <1>1, <1>2, <1>5, <2>1, <3>1 DEF IInv, PaidAtMostOnce
    <3>2. CASE i > m /\ j > m
      <4>1. i - m \in 1 .. n /\ j - m \in 1 .. n /\ qs[i - m] = qs[j - m]
        BY <1>1, <1>2, <1>7, <2>1, <3>2
      <4>2. i - m = j - m
        BY <1>1, <4>1 DEF NoDuplicate
      <4>3. QED
        BY <1>1, <1>2, <4>2
    <3>3. CASE i <= m /\ j > m
      <4>1. released'[i].queryId \in processedQueries
        BY <1>1, <1>2, <1>6, <3>3
      <4>2. released'[j].queryId \in Range(qs)
        BY <1>1, <1>2, <1>7, <1>8, <3>3
      <4>3. QED
        BY <2>1, <4>1, <4>2 DEF NotProcessed
    <3>4. CASE i > m /\ j <= m
      <4>1. released'[j].queryId \in processedQueries
        BY <1>1, <1>2, <1>6, <3>4
      <4>2. released'[i].queryId \in Range(qs)
        BY <1>1, <1>2, <1>7, <1>8, <3>4
      <4>3. QED
        BY <2>1, <4>1, <4>2 DEF NotProcessed
    <3>5. QED
      BY <1>1, <1>2, <3>1, <3>2, <3>3, <3>4
  <2>2. processedQueries' = {released'[i].queryId : i \in 1 .. m + n}
    <3>1. processedQueries = {released'[i].queryId : i \in 1 .. m}
      <4>1. processedQueries = {released[i].queryId : i \in 1 .. m}
        BY <1>2 DEF IInv, PaidAtMostOnce
      <4>2. \A i \in 1 .. m : released'[i].queryId = released[i].queryId
        BY <1>5
      <4>3. QED
        BY <4>1, <4>2
    <3>2. Range(qs) = {released'[i].queryId : i \in m + 1 .. m + n}
      <4>1. ASSUME NEW k \in 1 .. n
            PROVE  k + m \in m + 1 .. m + n /\ released'[k + m].queryId = qs[k]
        BY <1>1, <1>2, <1>7
      <4>2. ASSUME NEW i \in m + 1 .. m + n
            PROVE  i - m \in 1 .. n /\ released'[i].queryId = qs[i - m]
        BY <1>1, <1>2, <1>7
      <4>3. QED
        BY <1>8, <4>1, <4>2
    <3>3. 1 .. m + n = (1 .. m) \cup (m + 1 .. m + n)
      BY <1>1, <1>2
    <3>4. QED
      BY <1>9, <3>1, <3>2, <3>3
  <2>3. QED
    BY <1>5, <2>1, <2>2 DEF PaidAtMostOnce
<1>13. ReleasesAreProved'
  <2> SUFFICES ASSUME NEW i \in 1 .. m + n, NEW q, q = released'[i].queryId
               PROVE  /\ q \in AttestedQueries'
                      /\ Releasable(q)'
                      /\ released'[i] = TransferReleased(q)'
    BY <1>5 DEF ReleasesAreProved
  <2>1. q \in AttestedQueries /\ Releasable(q) /\ released'[i] = TransferReleased(q)
    <3>1. CASE i <= m
      <4>1. i \in DOMAIN released /\ released'[i] = released[i]
        BY <1>1, <1>2, <1>5, <3>1
      <4>2. QED
        BY <4>1 DEF IInv, ReleasesAreProved
    <3>2. CASE i > m
      <4>1. i - m \in 1 .. n /\ i \in m + 1 .. m + n
        BY <1>1, <1>2, <3>2
      <4>2. QED
        BY <1>1, <1>5, <1>7, <4>1
    <3>3. QED
      BY <1>1, <1>2, <3>1, <3>2
  <2>2. corridors' = corridors /\ AttestedQueries' = AttestedQueries
    BY DEF Release, AttestedQueries
  <2>3. Releasable(q)' /\ TransferReleased(q)' = TransferReleased(q)
    BY <2>1, <2>2, ReleasableStays DEF IInv
  <2>4. QED
    BY <2>1, <2>2, <2>3
<1>14. QED
  BY <1>10, <1>11, <1>12, <1>13 DEF IInv

-----------------------------------------------------------------------------
(* Every step preserves the invariant                                      *)

\* Adding a well-formed receipt to the source chain.
LEMMA NewReceiptKeepsIInv ==
    ASSUME IInv, NEW r \in Receipt,
           WellFormed(r),
           receipts' = Append(receipts, r), DepositTypeOK',
           UNCHANGED <<attested, escrowVars>>
    PROVE  IInv'
<1>1. /\ receipts \in Seq(Receipt)
      /\ attested \in 0 .. Len(receipts)
  BY DEF IInv, TypeOK, ReceiptsTypeOK
<1>2. /\ receipts' \in Seq(Receipt)
      /\ Len(receipts') = Len(receipts) + 1
      /\ \A q \in 1 .. Len(receipts) : receipts'[q] = receipts[q]
      /\ receipts'[Len(receipts) + 1] = r
  BY <1>1, AppendElements
<1>3. DOMAIN receipts = 1 .. Len(receipts) /\ Len(receipts) \in Nat
  BY <1>1, LenProperties
<1>4. DOMAIN receipts' = 1 .. Len(receipts) + 1
  BY <1>2, LenProperties
<1>5. TypeOK'
  BY <1>1, <1>2, <1>3
     DEF IInv, TypeOK, ReceiptsTypeOK, EscrowTypeOK, escrowVars
<1>6. ReceiptsWellFormed'
  <2> SUFFICES ASSUME NEW q \in 1 .. Len(receipts) + 1,
                      NEW receipt, receipt = receipts'[q]
               PROVE  WellFormed(receipt)
    BY <1>4 DEF ReceiptsWellFormed
  <2>1. CASE q = Len(receipts) + 1
    BY <1>2, <2>1
  <2>2. CASE q # Len(receipts) + 1
    <3>1. q \in 1 .. Len(receipts)
      BY <1>3, <2>2
    <3>2. QED
      BY <1>2, <1>3, <3>1 DEF IInv, ReceiptsWellFormed
  <2>3. QED
    BY <2>1, <2>2
<1>7. CorridorsMintable'
  BY DEF IInv, CorridorsMintable, escrowVars
<1>8. PaidAtMostOnce' /\ ReleasesAreProved'
  <2>1. \A q \in AttestedQueries : receipts'[q] = receipts[q]
    BY <1>1, <1>2, <1>3 DEF AttestedQueries
  <2>2. QED
    BY <2>1, LogStays DEF AttestedQueries, escrowVars
<1>9. QED
  BY <1>5, <1>6, <1>7, <1>8 DEF IInv

\* Feeds, deposits and reverted transactions.
LEMMA SourceStepKeepsIInv ==
    ASSUME IInv, SourceStep, UNCHANGED escrowVars
    PROVE  IInv'
<1>1. CASE \E c \in DepositContracts : FeedMoves(c) /\ UNCHANGED <<receipts, attested>>
  <2>1. DepositTypeOK'
    BY <1>1 DEF FeedMoves, IInv, TypeOK, DepositTypeOK
  <2>2. UNCHANGED <<receipts, attested>>
    BY <1>1
  <2>3. TypeOK' /\ ReceiptsWellFormed' /\ CorridorsMintable'
    BY <2>1, <2>2 DEF IInv, TypeOK, ReceiptsTypeOK, EscrowTypeOK, escrowVars,
                      ReceiptsWellFormed, CorridorsMintable
  <2>4. PaidAtMostOnce' /\ ReleasesAreProved'
    BY <2>2, LogStays DEF AttestedQueries, escrowVars
  <2>5. QED
    BY <2>3, <2>4 DEF IInv
<1>2. CASE \E tx \in Transactions : Deposit(tx)
  <2> PICK tx \in Transactions : Deposit(tx)
    BY <1>2
  <2>1. ReceiptOf(tx) \in Receipt /\ WellFormed(ReceiptOf(tx))
    BY DepositReceiptType DEF IInv, Deposit
  <2>2. DepositTypeOK'
    <3>1. Len(tx.steps) \in Int
      BY TransactionType
    <3>2. \A c \in DepositContracts :
             /\ depositCount[c] \in Nat
             /\ Cardinality(CallsTo(tx, c, Len(tx.steps))) \in Nat
      BY <3>1, CallsToCount DEF IInv, TypeOK, DepositTypeOK
    <3>3. depositCount' \in [DepositContracts -> Nat]
      BY <3>2 DEF Deposit
    <3>4. QED
      BY <3>3 DEF Deposit, IInv, TypeOK, DepositTypeOK
  <2>3. receipts' = Append(receipts, ReceiptOf(tx)) /\ attested' = attested
    BY DEF Deposit, ReceiptOf
  <2>4. QED
    BY <2>1, <2>2, <2>3, NewReceiptKeepsIInv DEF escrowVars
<1>3. CASE \E tx \in Transactions : DepositReverts(tx)
  <2>1. DepositTypeOK'
    BY <1>3 DEF DepositReverts, depositVars, IInv, TypeOK, DepositTypeOK
  <2>2. receipts' = Append(receipts, RevertedReceipt) /\ attested' = attested
    BY <1>3 DEF DepositReverts
  <2>3. QED
    BY <2>1, <2>2, RevertedReceiptType, NewReceiptKeepsIInv DEF escrowVars
<1>4. QED
  BY <1>1, <1>2, <1>3 DEF SourceStep

\* Attestation only adds to what can be proved.
LEMMA AttestKeepsIInv ==
    ASSUME IInv, Attest, UNCHANGED <<depositVars, escrowVars>>
    PROVE  IInv'
<1>1. TypeOK' /\ ReceiptsWellFormed' /\ CorridorsMintable'
  <2>1. attested' \in 0 .. Len(receipts')
    BY LenProperties DEF Attest, IInv, TypeOK, ReceiptsTypeOK
  <2>2. QED
    BY <2>1 DEF Attest, IInv, TypeOK, ReceiptsTypeOK, DepositTypeOK, EscrowTypeOK,
                depositVars, escrowVars, ReceiptsWellFormed, CorridorsMintable
<1>2. AttestedQueries \subseteq AttestedQueries'
  BY DEF Attest, AttestedQueries, IInv, TypeOK, ReceiptsTypeOK
<1>3. PaidAtMostOnce' /\ ReleasesAreProved'
  BY <1>2, LogStays DEF Attest, escrowVars
<1>4. QED
  BY <1>1, <1>3 DEF IInv

\* A call that passes the verifier has attested transactions only.
LEMMA VerifiedOne ==
    ASSUME NEW q, Verified(<<q>>)
    PROVE  q \in AttestedQueries
<1>1. 1 \in DOMAIN <<q>> /\ <<q>>[1] = q
  OBVIOUS
<1>2. QED
  BY <1>1 DEF Verified, Range

\* And so has a batch.
LEMMA VerifiedBatch ==
    ASSUME NEW qs \in Batches, Verified(qs)
    PROVE  \E n \in 0 .. MaxBatch : qs \in [1 .. n -> AttestedQueries]
<1>1. PICK n \in 0 .. MaxBatch : qs \in [1 .. n -> DOMAIN receipts]
  BY DEF Batches
<1>2. \A i \in 1 .. n : qs[i] \in AttestedQueries
  BY <1>1 DEF Verified, Range
<1>3. qs \in [1 .. n -> AttestedQueries]
  BY <1>1, <1>2
<1>4. QED
  BY <1>3

\* Registration, execution and batches.
LEMMA EscrowStepKeepsIInv ==
    ASSUME IInv, EscrowStep, UNCHANGED <<receipts, attested, depositVars>>
    PROVE  IInv'
<1>1. ASSUME NEW caller, NEW c \in DepositContracts, NEW t \in PayoutTokens,
             RegisterCorridor(caller, c, t)
      PROVE  IInv'
  <2>1. /\ corridors' \in [Contracts -> PayoutTokens \cup {NoToken}]
        /\ corridors'[c] = t
        /\ \A d \in Contracts \ {c} : corridors'[d] = corridors[d]
    BY <1>1 DEF RegisterCorridor, IInv, TypeOK, EscrowTypeOK, Contracts
  <2>2. TypeOK'
    BY <1>1, <2>1 DEF RegisterCorridor, IInv, TypeOK, ReceiptsTypeOK,
                      DepositTypeOK, EscrowTypeOK, depositVars
  <2>3. ReceiptsWellFormed' /\ CorridorsMintable'
    BY <1>1, <2>1 DEF RegisterCorridor, IInv, ReceiptsWellFormed, CorridorsMintable
  <2>4. \A d \in Contracts :
           corridors[d] # NoToken => corridors'[d] = corridors[d]
    BY <1>1, <2>1 DEF RegisterCorridor
  <2>5. PaidAtMostOnce' /\ ReleasesAreProved'
    BY <1>1, <2>4, LogStays DEF RegisterCorridor, AttestedQueries
  <2>6. QED
    BY <2>2, <2>3, <2>5 DEF IInv
<1>2. ASSUME NEW q \in DOMAIN receipts, Execute(q)
      PROVE  IInv'
  <2>1. <<q>> \in Seq(AttestedQueries) /\ NoDuplicate(<<q>>)
    BY <1>2, VerifiedOne DEF Execute, NoDuplicate
  <2>2. QED
    BY <1>2, <2>1, ReleaseKeepsIInv DEF Execute
<1>3. ASSUME NEW qs \in Batches, ExecuteBatch(qs)
      PROVE  IInv'
  <2>1. PICK n \in 0 .. MaxBatch : qs \in [1 .. n -> AttestedQueries]
    BY <1>3, VerifiedBatch DEF ExecuteBatch
  <2>2. n \in Nat
    BY MaxBatchAssumption
  <2>3. qs \in Seq(AttestedQueries)
    BY <2>1, <2>2, FunctionIsSeq
  <2>4. QED
    BY <1>3, <2>3, ReleaseKeepsIInv DEF ExecuteBatch
<1>4. CASE NextBlock
  <2>1. TypeOK' /\ ReceiptsWellFormed' /\ CorridorsMintable'
    BY <1>4 DEF NextBlock, IInv, TypeOK, ReceiptsTypeOK, DepositTypeOK,
                EscrowTypeOK, depositVars, ReceiptsWellFormed, CorridorsMintable
  <2>2. PaidAtMostOnce' /\ ReleasesAreProved'
    BY <1>4, LogStays DEF NextBlock, AttestedQueries
  <2>3. QED
    BY <2>1, <2>2 DEF IInv
<1>5. QED
  BY <1>1, <1>2, <1>3, <1>4 DEF EscrowStep

\* The initial state satisfies the invariant: nothing has happened.
LEMMA InitIInv == Init => IInv
<1> SUFFICES ASSUME Init PROVE IInv
  OBVIOUS
<1> USE DEF Init, ReceiptsInit, DepositInit, EscrowInit
<1>1. /\ receipts = <<>> /\ DOMAIN receipts = {}
      /\ released = <<>> /\ DOMAIN released = {}
  OBVIOUS
<1>2. TypeOK
  <2>1. ReceiptsTypeOK
    BY EmptySeq DEF ReceiptsTypeOK
  <2>2. DepositTypeOK
    BY ReadingsAssumption DEF DepositTypeOK
  <2>3. EscrowTypeOK
    BY EmptySeq DEF EscrowTypeOK
  <2>4. QED
    BY <2>1, <2>2, <2>3 DEF TypeOK
<1>3. ReceiptsWellFormed /\ CorridorsMintable
  BY <1>1 DEF ReceiptsWellFormed, CorridorsMintable
<1>4. PaidAtMostOnce /\ ReleasesAreProved
  BY <1>1 DEF PaidAtMostOnce, ReleasesAreProved
<1>5. QED
  BY <1>2, <1>3, <1>4 DEF IInv

\* Every step, and a stutter, preserves the invariant.
LEMMA NextIInv == IInv /\ [Next]_vars => IInv'
<1> SUFFICES ASSUME IInv, [Next]_vars PROVE IInv'
  OBVIOUS
<1>1. CASE Next
  BY <1>1, SourceStepKeepsIInv, AttestKeepsIInv, EscrowStepKeepsIInv DEF Next
<1>2. CASE UNCHANGED vars
  <2>1. UNCHANGED <<receipts, attested, depositVars, escrowVars>>
    BY <1>2 DEF vars
  <2>2. TypeOK' /\ ReceiptsWellFormed' /\ CorridorsMintable'
    BY <2>1 DEF IInv, TypeOK, ReceiptsTypeOK, DepositTypeOK, EscrowTypeOK, depositVars,
                escrowVars, ReceiptsWellFormed, CorridorsMintable
  <2>3. PaidAtMostOnce' /\ ReleasesAreProved'
    BY <2>1, LogStays DEF escrowVars, AttestedQueries
  <2>4. QED
    BY <2>2, <2>3 DEF IInv
<1>3. QED
  BY <1>1, <1>2

-----------------------------------------------------------------------------
(* The theorems                                                            *)

\* The inductive invariant holds in every reachable state.
THEOREM CorridorInvariant == Spec => []IInv
BY InitIInv, NextIInv, PTL DEF Spec

\* The control state of both chains always has its type.
THEOREM TypeCorrect == Spec => []TypeOK
<1>1. IInv => TypeOK
  BY DEF IInv
<1>2. QED
  BY <1>1, CorridorInvariant, PTL

\* No proved transaction is ever paid twice, however often and in whatever
\* batches it is submitted to execute and executeBatch.
THEOREM NoDoublePayment == Spec => []PaidAtMostOnce
<1>1. IInv => PaidAtMostOnce
  BY DEF IInv
<1>2. QED
  BY <1>1, CorridorInvariant, PTL

\* What the receipt of a deposit into a registered corridor shows: the deposit is the
\* corridor's own, and one positive rate of the corridor's feed goes with it.
LEMMA OwnRateIsShown ==
    ASSUME IInv, NEW q \in DOMAIN receipts,
           Emitted(receipts[q].deposits) # {}, TokenOf(q) # NoToken
    PROVE  /\ receipts[q].status
           /\ DepositOf(q) \in DepositLog /\ DepositOf(q).amount > 0
           /\ TokenOf(q) \in MinterTokens
           /\ Emitted(receipts[q].rates) # {}
           /\ \E rate \in OwnRates(q) :
                 /\ OwnRates(q) = {rate}
                 /\ rate.answer > 0
                 /\ rate.decimals \in FeedDecimals
                 /\ ~RateIsForeign(q) => RateOf(q) = rate
<1> DEFINE deposits == receipts[q].deposits
           rates == receipts[q].rates
           c == DepositOf(q).contract
<1>1. /\ deposits \in Seq(DepositLog \cup {NoLog})
      /\ rates \in Seq(RateLog \cup {NoLog})
      /\ WellFormed(receipts[q])
  BY ReceiptType DEF IInv, ReceiptsWellFormed
<1>2. DepositOf(q) \in DepositLog /\ \E i \in Emitted(deposits) : DepositOf(q) = deposits[i]
  BY <1>1, FirstLogType DEF DepositOf
<1>3. c \in DepositContracts /\ TokenOf(q) \in MinterTokens
  BY <1>2 DEF IInv, CorridorsMintable, TokenOf, DepositLog
<1>4. /\ receipts[q].status
      /\ DepositOf(q).amount > 0
      /\ \E j \in Emitted(rates) : rates[j].feed = c
  BY <1>1, <1>2, <1>3 DEF WellFormed
<1>5. PICK j \in Emitted(rates) : rates[j].feed = c
  BY <1>4
<1>6. /\ rates[j].answer > 0
      /\ rates[j].decimals \in FeedDecimals
      /\ \A k \in Emitted(rates) : rates[k].feed = c => rates[k] = rates[j]
  BY <1>1, <1>3, <1>5 DEF WellFormed
<1>7. OwnRates(q) = {rates[k] : k \in {l \in Emitted(rates) : rates[l].feed = c}}
  BY DEF OwnRates
<1>8. OwnRates(q) = {rates[j]}
  <2> HIDE DEF rates, c
  <2> QED BY <1>5, <1>6, <1>7
<1>9. ~RateIsForeign(q) => RateOf(q) = rates[j]
  <2>1. \E i \in Emitted(rates) : RateOf(q) = rates[i]
    BY <1>1, <1>5, FirstLogType DEF RateOf
  <2>2. QED
    BY <1>6, <2>1 DEF RateIsForeign
<1>10. QED
  BY <1>2, <1>3, <1>4, <1>5, <1>6, <1>8, <1>9

\* Every release is of an attested deposit into a registered corridor, whose feed showed
\* one rate in the same receipt; it is paid at that rate, unless another contract's rate
\* log comes first.
THEOREM OnlyAttestedDepositsPay == Spec => []PaidAsAttested
<1>1. IInv => PaidAsAttested
  <2> SUFFICES ASSUME IInv, NEW i \in DOMAIN released, NEW q, q = released[i].queryId
               PROVE  \E rate \in OwnRates(q) :
                         /\ OwnRates(q) = {rate}
                         /\ rate.answer > 0
                         /\ ~RateIsForeign(q) => /\ released[i].rate = rate.answer
                                                 /\ released[i].rateDecimals = rate.decimals
    BY DEF PaidAsAttested, IInv
  <2>1. q \in AttestedQueries /\ Releasable(q) /\ released[i] = TransferReleased(q)
    BY DEF IInv, ReleasesAreProved
  <2>2. q \in DOMAIN receipts
    BY <2>1, ReleaseEventType DEF IInv
  <2>3. Emitted(receipts[q].deposits) # {} /\ TokenOf(q) # NoToken
    BY <2>1 DEF Releasable
  <2>4. PICK rate \in OwnRates(q) : /\ OwnRates(q) = {rate}
                                    /\ rate.answer > 0
                                    /\ ~RateIsForeign(q) => RateOf(q) = rate
    BY <2>2, <2>3, OwnRateIsShown
  <2>5. released[i].rate = RateOf(q).answer /\ released[i].rateDecimals = RateOf(q).decimals
    BY <2>1 DEF TransferReleased
  <2>6. QED
    BY <2>4, <2>5
<1>2. QED
  BY <1>1, CorridorInvariant, PTL

\* Dividing a value that reaches the scale gives at least one.
LEMMA QuotientPositive ==
    ASSUME NEW value \in Nat, NEW scale \in Nat, scale > 0, value >= scale
    PROVE  value \div scale > 0
  OBVIOUS

\* What FairateDeposit and FairateRateFeed let through, RemittanceEscrow can release, if
\* their own logs come first and the arithmetic is within bounds.
THEOREM SourceGuardsSuffice == Spec => []DepositsAreReleasable
<1>1. IInv => DepositsAreReleasable
  <2> SUFFICES ASSUME IInv, NEW q \in AttestedQueries,
                      Emitted(receipts[q].deposits) # {}, TokenOf(q) # NoToken,
                      Emitted(receipts[q].rates) # {} => ~RateIsForeign(q),
                      ~RoundsToZero(q), Fits(q)
               PROVE  Releasable(q)
    BY DEF DepositsAreReleasable
  <2>1. q \in DOMAIN receipts
    BY LenProperties DEF IInv, TypeOK, ReceiptsTypeOK, AttestedQueries
  <2>2. /\ receipts[q].status
        /\ DepositOf(q) \in DepositLog /\ DepositOf(q).amount > 0
        /\ TokenOf(q) \in MinterTokens
        /\ Emitted(receipts[q].rates) # {}
        /\ RateOf(q).answer > 0 /\ RateOf(q).decimals \in FeedDecimals
    BY <2>1, OwnRateIsShown
  <2>3. RateOf(q) \in RateLog
    BY <2>1, <2>2, ReadLogsType DEF IInv
  <2>4. RateOf(q).decimals <= MaxRateDecimals
    BY <2>2, DecimalsAssumption
  <2> DEFINE value == DepositOf(q).amount * RateOf(q).answer
             scale == 10 ^ RateOf(q).decimals
  <2>5. value \in Nat /\ scale \in Nat \ {0}
    BY <2>2, <2>3, <2>4, PayoutType
  <2>6. value > 0
    BY <2>2, <2>3 DEF DepositLog, RateLog
  <2>7. value >= scale
    <3>1. ~(0 < value /\ value < scale)
      BY DEF RoundsToZero
    <3> HIDE DEF value, scale
    <3>2. QED
      BY <3>1, <2>5, <2>6
  <2>8. value \div scale > 0
    <3> HIDE DEF value, scale
    <3> QED BY <2>5, <2>7, QuotientPositive
  <2>9. QED
    BY <2>2, <2>4, <2>8 DEF Releasable, Payout
<1>2. QED
  BY <1>1, CorridorInvariant, PTL

\* registerCorridor is the only writer of corridors, and only of new entries.
THEOREM NoRepointing == Spec => CorridorsNeverRepointed
<1> DEFINE Kept == \A c \in Contracts :
                      corridors[c] # NoToken => corridors'[c] = corridors[c]
<1>1. IInv /\ [Next]_vars => Kept
  <2> SUFFICES ASSUME IInv, [Next]_vars PROVE Kept
    OBVIOUS
  <2>1. CASE EscrowStep
    <3>1. ASSUME NEW caller, NEW c \in DepositContracts, NEW t \in PayoutTokens,
                 RegisterCorridor(caller, c, t)
          PROVE  Kept
      BY <3>1 DEF RegisterCorridor, IInv, TypeOK, EscrowTypeOK
    <3>2. QED
      BY <2>1, <3>1 DEF EscrowStep, Execute, ExecuteBatch, Release, NextBlock
  <2>2. CASE UNCHANGED escrowVars
    BY <2>2 DEF escrowVars
  <2>3. QED
    BY <2>1, <2>2 DEF Next, vars
<1>2. QED
  BY <1>1, CorridorInvariant, PTL DEF Spec, CorridorsNeverRepointed

-----------------------------------------------------------------------------
(* The corridor implements the payout ledger                               *)

\* A settlement of distinct, attested, unprocessed transactions is one step of
\* the ledger: the payments it appends are owed, new and different.
LEMMA ReleaseIsSettle ==
    ASSUME IInv, NEW n \in 1 .. MaxBatch, NEW qs \in [1 .. n -> AttestedQueries],
           NotProcessed(qs), NoDuplicate(qs), Release(qs),
           UNCHANGED <<receipts, attested>>
    PROVE  Ledger!Settle
<1> DEFINE payments == [i \in 1 .. n |-> TransferReleased(qs[i])]
<1>1. n \in Nat /\ DOMAIN qs = 1 .. n /\ Len(qs) = n
  BY FunctionIsSeq, MaxBatchAssumption
<1>2. released' = released \o payments
  BY <1>1 DEF Release
<1>3. ASSUME NEW i \in 1 .. n
      PROVE  payments[i] \in Owed \ Range(released)
  <2>1. qs[i] \in AttestedQueries /\ Releasable(qs[i])
    BY <1>1 DEF Release
  <2>2. payments[i] \in Owed
    BY <2>1 DEF Owed
  <2>3. payments[i].queryId \notin processedQueries
    BY <1>1 DEF NotProcessed, Range, TransferReleased
  <2>4. \A k \in DOMAIN released : released[k].queryId \in processedQueries
    BY DEF IInv, PaidAtMostOnce
  <2>5. payments[i] \notin Range(released)
    BY <2>3, <2>4 DEF Range
  <2>6. QED
    BY <2>2, <2>5
<1>4. payments \in [1 .. n -> Owed \ Range(released)]
  BY <1>3
<1>5. IsInjective(payments)
  <2> SUFFICES ASSUME NEW i \in 1 .. n, NEW j \in 1 .. n, payments[i] = payments[j]
               PROVE  i = j
    BY DEF IsInjective
  <2>1. qs[i] = qs[j]
    <3>1. payments[i].queryId = qs[i] /\ payments[j].queryId = qs[j]
      BY DEF TransferReleased
    <3>2. QED
      BY <3>1
  <2>2. QED
    BY <1>1, <2>1 DEF NoDuplicate
<1>6. Owed' = Owed
  BY DEF Release, Owed, AttestedQueries, Releasable, TransferReleased, DepositOf,
         RateOf, TokenOf, Payout, Fits
<1>7. \E p \in [1 .. n -> Owed \ Range(released)] :
         IsInjective(p) /\ released' = released \o p
  <2> HIDE DEF payments
  <2> QED BY <1>2, <1>4, <1>5
<1>8. /\ Ledger!Range(released) = Range(released)
      /\ \A p : Ledger!IsInjective(p) <=> IsInjective(p)
  BY DEF Ledger!Range, Range, Ledger!IsInjective, IsInjective
<1>9. QED
  BY <1>6, <1>7, <1>8 DEF Ledger!Settle

\* What is owed stays owed while receipts stay and no corridor is repointed.
LEMMA OwedGrows ==
    ASSUME IInv, AttestedQueries \subseteq AttestedQueries',
           \A q \in AttestedQueries : receipts'[q] = receipts[q],
           \A c \in Contracts :
               corridors[c] # NoToken => corridors'[c] = corridors[c]
    PROVE  Owed \subseteq Owed'
<1> SUFFICES ASSUME NEW q \in AttestedQueries, Releasable(q)
             PROVE  TransferReleased(q) \in Owed'
  BY DEF Owed
<1>1. Releasable(q)' /\ TransferReleased(q)' = TransferReleased(q)
  BY ReleasableStays DEF IInv
<1>2. QED
  BY <1>1 DEF Owed

\* The corridor implements the abstract payout ledger: every deposit, attestation
\* and registration only adds to what is owed, every execute and executeBatch
\* settles distinct payments that are owed and were never made.
THEOREM CorridorImplementsLedger == Spec => ImplementsPayoutLedger
<1>1. Init => Ledger!Init
  BY DEF Init, ReceiptsInit, EscrowInit, Ledger!Init, Owed, AttestedQueries
<1>2. IInv /\ [Next]_vars => [Ledger!Next]_(Ledger!vars)
  <2> SUFFICES ASSUME IInv, [Next]_vars PROVE [Ledger!Next]_(Ledger!vars)
    OBVIOUS
  <2>1. ASSUME AttestedQueries \subseteq AttestedQueries',
               \A q \in AttestedQueries : receipts'[q] = receipts[q],
               \A c \in Contracts :
                   corridors[c] # NoToken => corridors'[c] = corridors[c],
               released' = released
        PROVE  Ledger!Accrue
    BY <2>1, OwedGrows DEF Ledger!Accrue
  <2>2. CASE SourceStep /\ UNCHANGED escrowVars
    <3>1. AttestedQueries' = AttestedQueries
      BY <2>2 DEF SourceStep, Deposit, DepositReverts, AttestedQueries
    <3>2. \/ receipts' = receipts
          \/ \E r : receipts' = Append(receipts, r)
      BY <2>2 DEF SourceStep, Deposit, DepositReverts
    <3>3. \A q \in AttestedQueries : receipts'[q] = receipts[q]
      <4>1. receipts \in Seq(Receipt) /\ AttestedQueries \subseteq 1 .. Len(receipts)
        BY LenProperties DEF IInv, TypeOK, ReceiptsTypeOK, AttestedQueries
      <4>2. ASSUME NEW r, receipts' = Append(receipts, r), NEW q \in 1 .. Len(receipts)
            PROVE  receipts'[q] = receipts[q]
        BY <4>1, <4>2
      <4>3. QED
        BY <3>2, <4>1, <4>2
    <3>4. QED
      BY <2>1, <2>2, <3>1, <3>3 DEF escrowVars, Ledger!Next
  <2>3. CASE Attest /\ UNCHANGED <<depositVars, escrowVars>>
    <3>1. AttestedQueries \subseteq AttestedQueries'
      BY <2>3 DEF Attest, AttestedQueries, IInv, TypeOK, ReceiptsTypeOK
    <3>2. QED
      BY <2>1, <2>3, <3>1 DEF Attest, escrowVars, Ledger!Next
  <2>4. CASE EscrowStep /\ UNCHANGED <<receipts, attested, depositVars>>
    <3>1. ASSUME NEW caller, NEW c \in DepositContracts, NEW t \in PayoutTokens,
                 RegisterCorridor(caller, c, t)
          PROVE  Ledger!Accrue
      <4>1. \A d \in Contracts :
               corridors[d] # NoToken => corridors'[d] = corridors[d]
        BY <3>1 DEF RegisterCorridor, IInv, TypeOK, EscrowTypeOK
      <4>2. QED
        BY <2>1, <2>4, <3>1, <4>1 DEF RegisterCorridor, AttestedQueries
    <3>2. ASSUME NEW q \in DOMAIN receipts, Execute(q)
          PROVE  Ledger!Settle
      <4>1. 1 \in 1 .. MaxBatch /\ <<q>> \in [1 .. 1 -> AttestedQueries]
        BY <3>2, VerifiedOne, MaxBatchAssumption DEF Execute
      <4>2. NoDuplicate(<<q>>)
        BY DEF NoDuplicate
      <4>3. QED
        BY <2>4, <3>2, <4>1, <4>2, ReleaseIsSettle DEF Execute
    <3>3. ASSUME NEW qs \in Batches, ExecuteBatch(qs)
          PROVE  Ledger!Settle
      <4>1. PICK n \in 0 .. MaxBatch : qs \in [1 .. n -> AttestedQueries]
        BY <3>3, VerifiedBatch DEF ExecuteBatch
      <4>2. n # 0
        <5>1. n \in Nat /\ qs \in Seq(AttestedQueries) /\ Len(qs) = n
          BY <4>1, FunctionIsSeq, MaxBatchAssumption
        <5>2. qs # <<>>
          BY <3>3 DEF ExecuteBatch
        <5>3. QED
          BY <5>1, <5>2, EmptySeq
      <4>3. n \in 1 .. MaxBatch
        BY <4>1, <4>2, MaxBatchAssumption
      <4>4. QED
        BY <2>4, <3>3, <4>1, <4>3, ReleaseIsSettle DEF ExecuteBatch
    <3>4. ASSUME NextBlock
          PROVE  Ledger!Accrue
      BY <2>1, <2>4, <3>4 DEF NextBlock, AttestedQueries
    <3>5. QED
      BY <2>4, <3>1, <3>2, <3>3, <3>4 DEF EscrowStep, Ledger!Next
  <2>5. CASE UNCHANGED vars
    BY <2>5 DEF vars, escrowVars, Ledger!vars, Owed, AttestedQueries, Releasable,
                TransferReleased, DepositOf, RateOf, TokenOf, Payout, Fits
  <2>6. QED
    BY <2>2, <2>3, <2>4, <2>5 DEF Next
<1>3. QED
  BY <1>1, <1>2, CorridorInvariant, PTL DEF Spec, ImplementsPayoutLedger, Ledger!Spec

-----------------------------------------------------------------------------
(* The sink                                                                *)

\* What the deposits in a receipt amount to is a number, and none is more than all of them.
LEMMA AmountInType ==
    ASSUME NEW logs \in Seq(DepositLog \cup {NoLog})
    PROVE  /\ AmountIn(logs) \in Nat
           /\ \A i \in Emitted(logs) :
                 logs[i].contract \in DepositContracts => logs[i].amount <= AmountIn(logs)
<1> DEFINE deposits == {i \in Emitted(logs) : logs[i].contract \in DepositContracts}
           amounts == [i \in deposits |-> logs[i].amount]
<1>1. IsFiniteSet(deposits)
  <2>1. DOMAIN logs = 1 .. Len(logs) /\ Len(logs) \in Nat
    BY LenProperties
  <2>2. IsFiniteSet(DOMAIN logs) /\ deposits \in SUBSET DOMAIN logs
    BY <2>1, FS_Interval DEF Emitted
  <2> HIDE DEF deposits
  <2>3. QED
    BY <2>2, FS_Subset
<1>2. \A i \in deposits : amounts[i] \in Nat /\ amounts[i] = logs[i].amount
  <2>1. \A i \in DOMAIN logs : logs[i] \in DepositLog \cup {NoLog}
    BY LenProperties, ElementOfSeq
  <2>2. \A i \in Emitted(logs) : logs[i] \in DepositLog
    BY <2>1 DEF Emitted
  <2>3. QED
    BY <2>2 DEF DepositLog
<1>3. AmountIn(logs) = SumFunctionOnSet(amounts, deposits)
  BY DEF AmountIn
<1>4. \A i \in Emitted(logs) : logs[i].contract \in DepositContracts => i \in deposits
  OBVIOUS
<1> HIDE DEF amounts, deposits
<1>5. AmountIn(logs) \in Nat
  BY <1>1, <1>2, <1>3, SumType
<1>6. \A i \in deposits : logs[i].amount <= AmountIn(logs)
  BY <1>1, <1>2, <1>3, SumBounds
<1>7. QED
  BY <1>4, <1>5, <1>6

\* The second half of PayoutsAreBacked.
SinkIsLocked ==
    sink = SumFunctionOnSet([q \in DOMAIN receipts |-> Locked(q)], DOMAIN receipts)

\* A new receipt adds its deposits to what the sink must hold.
LEMMA SinkGrows ==
    ASSUME IInv, SinkIsLocked, NEW r \in Receipt, receipts' = Append(receipts, r),
           sink' = sink + AmountIn(r.deposits)
    PROVE  SinkIsLocked'
<1> DEFINE n == Len(receipts)
           old == [q \in DOMAIN receipts |-> Locked(q)]
           new == [q \in DOMAIN receipts' |-> Locked(q)']
<1>1. receipts \in Seq(Receipt) /\ n \in Nat /\ DOMAIN receipts = 1 .. n
  BY LenProperties DEF IInv, TypeOK, ReceiptsTypeOK
<1>2. /\ receipts' \in Seq(Receipt)
      /\ Len(receipts') = n + 1
      /\ \A q \in 1 .. n : receipts'[q] = receipts[q]
      /\ receipts'[n + 1] = r
  BY <1>1, AppendElements
<1>3. DOMAIN receipts' = 1 .. n + 1
  BY <1>2, LenProperties
<1>4. ASSUME NEW q \in 1 .. n
      PROVE  old[q] \in Nat /\ new[q] = old[q]
  <2>1. receipts[q].deposits \in Seq(DepositLog \cup {NoLog})
    BY <1>1, ReceiptType DEF IInv
  <2>2. Locked(q) \in Nat
    BY <2>1, AmountInType DEF Locked
  <2>3. Locked(q)' = Locked(q)
    BY <1>2 DEF Locked
  <2>4. q \in DOMAIN receipts /\ q \in DOMAIN receipts'
    BY <1>1, <1>3
  <2>5. QED
    BY <2>2, <2>3, <2>4
<1>5. ASSUME NEW q, q = n + 1
      PROVE  new[q] = AmountIn(r.deposits) /\ AmountIn(r.deposits) \in Nat
  <2>1. q \in DOMAIN receipts' /\ receipts'[q] = r
    BY <1>1, <1>2, <1>3, <1>5
  <2>2. Locked(q)' = AmountIn(r.deposits)
    BY <2>1 DEF Locked
  <2>3. r.deposits \in Seq(DepositLog \cup {NoLog})
    BY DEF Receipt
  <2>4. AmountIn(r.deposits) \in Nat
    BY <2>3, AmountInType
  <2>5. QED
    BY <2>1, <2>2, <2>4
<1>6. sink = SumFunctionOnSet(old, 1 .. n)
  BY <1>1 DEF SinkIsLocked
<1>7. SumFunctionOnSet(new, DOMAIN receipts') = SumFunctionOnSet(old, 1 .. n) + AmountIn(r.deposits)
  <2> HIDE DEF old, new, n
  <2>0. IsFiniteSet(1 .. n)
    BY <1>1, FS_Interval
  <2>1. IsFiniteSet(1 .. n) /\ n + 1 \notin 1 .. n /\ 1 .. n + 1 = (1 .. n) \cup {n + 1}
    BY <1>1, <2>0
  <2>2. SumFunctionOnSet(new, 1 .. n) = SumFunctionOnSet(old, 1 .. n)
    BY <1>4, <2>1, SumSame
  <2>3. \A q \in (1 .. n) \cup {n + 1} : new[q] \in Nat
    BY <1>4, <1>5
  <2>4. SumFunctionOnSet(new, (1 .. n) \cup {n + 1}) = SumFunctionOnSet(new, 1 .. n) + new[n + 1]
    <3>1. PICK S : S = 1 .. n
      OBVIOUS
    <3>2. IsFiniteSet(S) /\ n + 1 \notin S /\ \A q \in S \cup {n + 1} : new[q] \in Nat
      BY <2>1, <2>3, <3>1
    <3>3. SumFunctionOnSet(new, S \cup {n + 1}) = SumFunctionOnSet(new, S) + new[n + 1]
      BY <3>2, SumAdd
    <3>4. QED
      BY <3>1, <3>3
  <2>5. QED
    BY <1>3, <1>5, <2>1, <2>2, <2>4
<1>8. SinkIsLocked' <=> sink' = SumFunctionOnSet(new, DOMAIN receipts')
  BY DEF SinkIsLocked
<1>9. QED
  BY <1>6, <1>7, <1>8

\* What a transaction's logs say it moved is what it moved.
LEMMA LoggedAmount ==
    ASSUME IInv, NEW tx \in Transactions, Succeeds(tx)
    PROVE  AmountIn(ReceiptOf(tx).deposits) = TotalAmount(tx)
<1> DEFINE calls == Calls(tx)
           logs == DepositLogs(tx)
           deposits == {i \in Emitted(logs) : logs[i].contract \in DepositContracts}
           logged == [i \in deposits |-> logs[i].amount]
           moved == [i \in calls |-> tx.steps[i].amount]
<1>1. TypeOK
  BY DEF IInv
<1>2. /\ calls \subseteq 1 .. Len(tx.steps)
      /\ \A i \in calls : /\ i \in Emitted(logs)
                          /\ logs[i].contract \in DepositContracts
                          /\ tx.steps[i].amount \in Nat
                          /\ logs[i].amount = tx.steps[i].amount
      /\ \A i \in Emitted(logs) \ calls : logs[i].contract \in OtherContracts
  BY <1>1, DepositLogsType
<1>3. deposits = calls
  BY <1>2, OtherContractsAssumption
<1>4. IsFiniteSet(calls)
  <2>1. IsFiniteSet(1 .. Len(tx.steps))
    BY TransactionType, FS_Interval
  <2> HIDE DEF calls
  <2>2. QED
    BY <1>2, <2>1, FS_Subset
<1>5. \A i \in calls : moved[i] \in Nat /\ logged[i] = moved[i]
  BY <1>2, <1>3
<1>6. /\ AmountIn(ReceiptOf(tx).deposits) = SumFunctionOnSet(logged, calls)
      /\ TotalAmount(tx) = SumFunctionOnSet(moved, calls)
  BY <1>3 DEF AmountIn, TotalAmount, ReceiptOf
<1>7. SumFunctionOnSet(logged, calls) = SumFunctionOnSet(moved, calls)
  <2> HIDE DEF logged, moved, calls
  <2> QED BY <1>4, <1>5, SumSame
<1>8. QED
  BY <1>6, <1>7

\* Every step keeps the sink equal to what the receipts say.
LEMMA StepKeepsSink ==
    ASSUME IInv, SinkIsLocked, [Next]_vars
    PROVE  SinkIsLocked'
<1>1. ASSUME receipts' = receipts, sink' = sink
      PROVE  SinkIsLocked'
  BY <1>1 DEF SinkIsLocked, Locked
<1>2. ASSUME NEW tx \in Transactions, Deposit(tx)
      PROVE  SinkIsLocked'
  <2>1. ReceiptOf(tx) \in Receipt
    BY <1>2, DepositReceiptType DEF IInv, Deposit
  <2>2. sink' = sink + AmountIn(ReceiptOf(tx).deposits)
    BY <1>2, LoggedAmount DEF Deposit
  <2>3. receipts' = Append(receipts, ReceiptOf(tx))
    BY <1>2 DEF Deposit, ReceiptOf
  <2>4. QED
    BY <2>1, <2>2, <2>3, SinkGrows
<1>3. ASSUME NEW tx \in Transactions, DepositReverts(tx)
      PROVE  SinkIsLocked'
  <2>1. RevertedReceipt \in Receipt /\ RevertedReceipt.deposits = <<>>
    BY RevertedReceiptType
  <2>2. AmountIn(<<>>) = 0
    BY SumOfNone DEF AmountIn, Emitted
  <2>3. sink \in Nat
    <3> DEFINE locked == [q \in DOMAIN receipts |-> Locked(q)]
    <3>1. ASSUME NEW q \in DOMAIN receipts
          PROVE  locked[q] \in Nat
      <4>1. receipts[q].deposits \in Seq(DepositLog \cup {NoLog})
        BY ReceiptType DEF IInv
      <4>2. QED
        BY <4>1, AmountInType DEF Locked
    <3>2. IsFiniteSet(DOMAIN receipts)
      BY LenProperties, FS_Interval DEF IInv, TypeOK, ReceiptsTypeOK
    <3>3. sink = SumFunctionOnSet(locked, DOMAIN receipts)
      BY DEF SinkIsLocked
    <3> HIDE DEF locked
    <3>4. QED
      BY <3>1, <3>2, <3>3, SumType
  <2>4. sink' = sink + AmountIn(RevertedReceipt.deposits)
    BY <1>3, <2>1, <2>2, <2>3 DEF DepositReverts, depositVars
  <2>5. QED
    BY <1>3, <2>1, <2>4, SinkGrows DEF DepositReverts
<1>4. CASE SourceStep
  BY <1>1, <1>2, <1>3, <1>4 DEF SourceStep, FeedMoves
<1>5. CASE ~SourceStep
  BY <1>1, <1>5 DEF Next, Attest, depositVars, vars
<1>6. QED
  BY <1>4, <1>5

\* Nothing is in the sink at first.
LEMMA InitSink == Init => SinkIsLocked
<1> SUFFICES ASSUME Init PROVE SinkIsLocked
  OBVIOUS
<1>1. DOMAIN receipts = {} /\ sink = 0
  BY DEF Init, ReceiptsInit, DepositInit
<1>2. QED
  BY <1>1, SumOfNone DEF SinkIsLocked

\* What was released is in the sink: each release stands for another transaction, and
\* the first deposit of a transaction is part of what it locked.
LEMMA ReleasedIsLocked == IInv /\ SinkIsLocked => PayoutsAreBacked
<1> SUFFICES ASSUME IInv, SinkIsLocked
             PROVE  SumFunctionOnSet(AmountsDeposited, DOMAIN released) <= sink
  BY DEF PayoutsAreBacked, SinkIsLocked
<1> DEFINE S == DOMAIN released
           query == [i \in S |-> released[i].queryId]
           paid == {query[i] : i \in S}
           first == [q \in DOMAIN receipts |-> DepositOf(q).amount]
           locked == [q \in DOMAIN receipts |-> Locked(q)]
<1>1. IsFiniteSet(S)
  BY LenProperties, FS_Interval DEF IInv, TypeOK, EscrowTypeOK
<1>2. \A i, j \in S : query[i] = query[j] => i = j
  BY DEF IInv, PaidAtMostOnce
<1>3. IsFiniteSet(DOMAIN receipts)
  BY LenProperties, FS_Interval DEF IInv, TypeOK, ReceiptsTypeOK
<1>4. ASSUME NEW q \in DOMAIN receipts
      PROVE  locked[q] \in Nat
  <2>1. receipts[q].deposits \in Seq(DepositLog \cup {NoLog})
    BY ReceiptType DEF IInv
  <2>2. Locked(q) \in Nat
    BY <2>1, AmountInType DEF Locked
  <2>3. QED
    BY <2>2
<1>5. ASSUME NEW i \in S
      PROVE  /\ query[i] \in DOMAIN receipts
             /\ AmountsDeposited[i] = first[query[i]]
             /\ first[query[i]] \in Nat
             /\ first[query[i]] <= locked[query[i]]
  <2> DEFINE q == query[i]
  <2>1. q \in AttestedQueries /\ Releasable(q) /\ released[i] = TransferReleased(q)
    BY DEF IInv, ReleasesAreProved
  <2>2. q \in DOMAIN receipts /\ DepositOf(q) \in DepositLog
    BY <2>1, ReleaseEventType DEF IInv
  <2>3. released[i].amountDeposited = DepositOf(q).amount
    <3>1. TransferReleased(q).amountDeposited = DepositOf(q).amount
      BY DEF TransferReleased
    <3>2. QED
      BY <2>1, <3>1
  <2>4. AmountsDeposited[i] = first[q] /\ first[q] = DepositOf(q).amount
    BY <2>2, <2>3 DEF AmountsDeposited
  <2>5. DepositOf(q).amount \in Nat
    BY <2>2 DEF DepositLog
  <2>6. DepositOf(q).amount <= Locked(q)
    <3>1. DepositOf(q).contract \in DepositContracts
      BY <2>1, <2>2 DEF Releasable, TokenOf, DepositLog, IInv, CorridorsMintable
    <3>2. \E j \in Emitted(receipts[q].deposits) : DepositOf(q) = receipts[q].deposits[j]
      BY <2>1, <2>2, ReadLogsType DEF IInv, Releasable
    <3>3. receipts[q].deposits \in Seq(DepositLog \cup {NoLog})
      BY <2>2, ReceiptType DEF IInv
    <3>4. QED
      BY <3>1, <3>2, <3>3, AmountInType DEF Locked
  <2>7. locked[q] = Locked(q)
    BY <2>2
  <2>8. QED
    BY <2>2, <2>4, <2>5, <2>6, <2>7
<1>6. paid \in SUBSET DOMAIN receipts
  BY <1>5
<1>7. /\ \A q \in DOMAIN receipts : locked[q] \in Nat
      /\ \A q \in paid : first[q] \in Nat /\ first[q] <= locked[q]
  BY <1>4, <1>5
<1>8. \A i \in S : AmountsDeposited[i] \in Nat /\ first[query[i]] = AmountsDeposited[i]
  BY <1>4, <1>5
<1>9. sink = SumFunctionOnSet(locked, DOMAIN receipts)
  BY DEF SinkIsLocked
<1> HIDE DEF S, query, first, locked
<1>10. /\ IsFiniteSet(paid)
       /\ SumFunctionOnSet(first, paid) = SumFunctionOnSet(AmountsDeposited, S)
  BY <1>1, <1>2, <1>8, SumReindexed
<1> HIDE DEF paid
<1>11. /\ SumFunctionOnSet(first, paid) <= SumFunctionOnSet(locked, paid)
       /\ SumFunctionOnSet(first, paid) \in Nat /\ SumFunctionOnSet(locked, paid) \in Nat
  <2>1. \A q \in paid : first[q] \in Nat /\ locked[q] \in Nat /\ first[q] <= locked[q]
    BY <1>6, <1>7
  <2>2. QED
    BY <1>10, <2>1, SumLess
<1>12. /\ SumFunctionOnSet(locked, paid) <= SumFunctionOnSet(locked, DOMAIN receipts)
       /\ SumFunctionOnSet(locked, DOMAIN receipts) \in Nat
  BY <1>3, <1>6, <1>7, SumOfPart
<1>13. SumFunctionOnSet(AmountsDeposited, S) <= sink
  BY <1>9, <1>10, <1>11, <1>12
<1>14. QED
  BY <1>13 DEF S

\* What left the payout side was locked on the source side first, however the two interleave.
THEOREM ValueIsConserved == Spec => []PayoutsAreBacked
<1>1. IInv /\ SinkIsLocked /\ [Next]_vars => SinkIsLocked'
  BY StepKeepsSink
<1>2. QED
  BY <1>1, InitSink, ReleasedIsLocked, CorridorInvariant, PTL DEF Spec

-----------------------------------------------------------------------------
(* What a step does to the accounts                                        *)

\* The receipts and the corridors that releases were made with are still there.
RecordKept ==
    /\ \A q \in AttestedQueries : receipts'[q] = receipts[q]
    /\ \A c \in Contracts :
          corridors[c] # NoToken => corridors'[c] = corridors[c]

\* A settlement of distinct, attested, unprocessed transactions.
Settles(qs) ==
    /\ qs \in Seq(AttestedQueries)
    /\ NotProcessed(qs) /\ NoDuplicate(qs)
    /\ Release(qs)
    /\ UNCHANGED <<receipts, attested>>

\* Accounts change by settlements only.
LEMMA StepSettlesOrNot ==
    ASSUME IInv, [Next]_vars
    PROVE  \/ \E qs : Settles(qs)
           \/ RecordKept /\ UNCHANGED <<processedQueries, released, balances, reputation>>
<1>1. CASE SourceStep /\ UNCHANGED escrowVars
  <2>1. receipts' = receipts \/ \E r : receipts' = Append(receipts, r)
    BY <1>1 DEF SourceStep, Deposit, DepositReverts
  <2>2. receipts \in Seq(Receipt) /\ AttestedQueries \subseteq 1 .. Len(receipts)
    BY LenProperties DEF IInv, TypeOK, ReceiptsTypeOK, AttestedQueries
  <2>3. ASSUME NEW r, receipts' = Append(receipts, r), NEW q \in 1 .. Len(receipts)
        PROVE  receipts'[q] = receipts[q]
    BY <2>2, <2>3
  <2>4. \A q \in AttestedQueries : receipts'[q] = receipts[q]
    BY <2>1, <2>2, <2>3
  <2>5. QED
    BY <1>1, <2>4 DEF RecordKept, escrowVars
<1>2. CASE Attest /\ UNCHANGED <<depositVars, escrowVars>>
  BY <1>2 DEF RecordKept, Attest, escrowVars
<1>3. CASE EscrowStep /\ UNCHANGED <<receipts, attested, depositVars>>
  <2>1. ASSUME NEW caller, NEW c \in DepositContracts, NEW t \in PayoutTokens,
               RegisterCorridor(caller, c, t)
        PROVE  RecordKept
    BY <1>3, <2>1 DEF RegisterCorridor, IInv, TypeOK, EscrowTypeOK, RecordKept
  <2>2. ASSUME NEW q \in DOMAIN receipts, Execute(q)
        PROVE  Settles(<<q>>)
    <3>1. <<q>> \in Seq(AttestedQueries) /\ NoDuplicate(<<q>>)
      BY <2>2, VerifiedOne DEF Execute, NoDuplicate
    <3>2. QED
      BY <1>3, <2>2, <3>1 DEF Execute, Settles
  <2>3. ASSUME NEW qs \in Batches, ExecuteBatch(qs)
        PROVE  Settles(qs)
    <3>1. PICK n \in 0 .. MaxBatch : qs \in [1 .. n -> AttestedQueries]
      BY <2>3, VerifiedBatch DEF ExecuteBatch
    <3>2. n \in Nat
      BY MaxBatchAssumption
    <3>3. qs \in Seq(AttestedQueries)
      BY <3>1, <3>2, FunctionIsSeq
    <3>4. QED
      BY <1>3, <2>3, <3>3 DEF ExecuteBatch, Settles
  <2>4. ASSUME NextBlock
        PROVE  RecordKept
    BY <1>3, <2>4 DEF NextBlock, RecordKept
  <2>5. QED
    BY <1>3, <2>1, <2>2, <2>3, <2>4 DEF EscrowStep, RegisterCorridor, NextBlock
<1>4. CASE UNCHANGED vars
  BY <1>4 DEF vars, escrowVars, RecordKept
<1>5. QED
  BY <1>1, <1>2, <1>3, <1>4 DEF Next

\* What is known of the transactions of a settlement.
LEMMA SettledQueries ==
    ASSUME IInv, NEW qs, Settles(qs)
    PROVE  /\ Len(qs) \in Nat /\ DOMAIN qs = 1 .. Len(qs) /\ IsFiniteSet(DOMAIN qs)
           /\ \A i \in DOMAIN qs :
                 /\ qs[i] \in AttestedQueries
                 /\ DepositOf(qs[i]) \in DepositLog
                 /\ Payout(qs[i]) \in Nat
           /\ \A i, j \in DOMAIN qs : qs[i] = qs[j] => i = j
<1>1. Len(qs) \in Nat /\ DOMAIN qs = 1 .. Len(qs)
  BY LenProperties DEF Settles
<1>2. IsFiniteSet(DOMAIN qs)
  BY <1>1, FS_Interval
<1>3. ASSUME NEW i \in DOMAIN qs
      PROVE  /\ qs[i] \in AttestedQueries
             /\ DepositOf(qs[i]) \in DepositLog
             /\ Payout(qs[i]) \in Nat
  <2>1. qs[i] \in AttestedQueries /\ Releasable(qs[i])
    BY <1>1, ElementOfSeq DEF Settles, Release
  <2>2. QED
    BY <2>1, ReleaseEventType DEF IInv
<1>4. ASSUME NEW i \in DOMAIN qs, NEW j \in DOMAIN qs, qs[i] = qs[j]
      PROVE  i = j
  BY <1>1, <1>4 DEF Settles, NoDuplicate
<1>5. QED
  BY <1>1, <1>2, <1>3, <1>4

-----------------------------------------------------------------------------
(* The supply                                                              *)

\* Balances are numbers.
BalancesType == balances \in [PayoutTokens -> [Addresses -> Nat]]

\* The processed transactions of a token, and what each pays out.
PaidIn(t) == {q \in processedQueries : TokenOf(q) = t}
PayoutsIn(t) == [q \in PaidIn(t) |-> Payout(q)]

\* SupplyMatchesPayouts for one token.
SupplyOf(t) == SumFunctionOnSet(balances[t], Addresses) = SumFunctionOnSet(PayoutsIn(t), PaidIn(t))

\* Finitely many transactions have been processed, and what they pay is a number.
LEMMA ProcessedQueries ==
    ASSUME IInv, NEW t
    PROVE  /\ IsFiniteSet(PaidIn(t))
           /\ \A q \in PaidIn(t) : q \in AttestedQueries /\ Releasable(q) /\ Payout(q) \in Nat
<1>1. ASSUME NEW q \in processedQueries
      PROVE  q \in AttestedQueries /\ Releasable(q)
  BY DEF IInv, PaidAtMostOnce, ReleasesAreProved
<1>2. ASSUME NEW q \in processedQueries
      PROVE  Payout(q) \in Nat
  <2>1. QED
    BY <1>1, ReleaseEventType DEF IInv
<1>3. IsFiniteSet(AttestedQueries)
  BY FS_Interval, LenProperties DEF AttestedQueries, IInv, TypeOK, ReceiptsTypeOK
<1>4. PaidIn(t) \in SUBSET AttestedQueries
  BY <1>1 DEF PaidIn
<1>5. IsFiniteSet(PaidIn(t))
  BY <1>3, <1>4, FS_Subset
<1>6. QED
  BY <1>1, <1>2, <1>5 DEF PaidIn

\* Without a settlement the supply and what it is compared with stay.
LEMMA SupplyStays ==
    ASSUME IInv, RecordKept, UNCHANGED <<processedQueries, balances>>, NEW t, SupplyOf(t)
    PROVE  SupplyOf(t)'
<1>1. ASSUME NEW q \in processedQueries
      PROVE  TokenOf(q)' = TokenOf(q) /\ Payout(q)' = Payout(q)
  <2>1. q \in AttestedQueries /\ Releasable(q)
    BY DEF IInv, PaidAtMostOnce, ReleasesAreProved
  <2>2. QED
    BY <2>1, ReleasableStays DEF IInv, RecordKept
<1>2. PaidIn(t)' = PaidIn(t)
  BY <1>1 DEF PaidIn
<1>3. PayoutsIn(t)' = PayoutsIn(t)
  <2>1. \A q \in PaidIn(t) : Payout(q)' = Payout(q)
    BY <1>1 DEF PaidIn
  <2>2. QED
    BY <1>2, <2>1 DEF PayoutsIn
<1>4. QED
  BY <1>2, <1>3 DEF SupplyOf

\* A settlement mints to the accounts together what its transactions pay out.
LEMMA SettlementMints ==
    ASSUME IInv, BalancesType, NEW qs, Settles(qs), NEW t \in PayoutTokens, SupplyOf(t)
    PROVE  SupplyOf(t)' /\ balances'[t] \in [Addresses -> Nat]
<1> DEFINE S == {i \in DOMAIN qs : TokenOf(qs[i]) = t}
           payouts == [i \in DOMAIN qs |-> Payout(qs[i])]
           key == [i \in DOMAIN qs |-> DepositOf(qs[i]).receiver]
           mints == [a \in Addresses |-> SumFunctionOnSet(payouts, {i \in S : key[i] = a})]
           old == PaidIn(t)
           new == {qs[i] : i \in S}
           after == [q \in PaidIn(t)' |-> Payout(q)']
           before == PayoutsIn(t)
<1>1. /\ IsFiniteSet(DOMAIN qs) /\ IsFiniteSet(S)
      /\ \A i \in S : key[i] \in Addresses /\ payouts[i] \in Nat
      /\ \A i, j \in S : qs[i] = qs[j] => i = j
  <2>1. IsFiniteSet(DOMAIN qs) /\ S \in SUBSET DOMAIN qs
    BY SettledQueries
  <2>2. IsFiniteSet(S)
    BY <2>1, FS_Subset
  <2>3. QED
    BY <2>1, <2>2, SettledQueries DEF DepositLog
<1>2. ASSUME NEW a \in Addresses
      PROVE  Minted(qs, t, a) = mints[a]
  <2>1. {i \in DOMAIN qs : TokenOf(qs[i]) = t /\ DepositOf(qs[i]).receiver = a}
           = {i \in S : key[i] = a}
    OBVIOUS
  <2>2. QED
    BY <2>1 DEF Minted
<1>3. ASSUME NEW a \in Addresses
      PROVE  mints[a] \in Nat
  <2> DEFINE T == {i \in S : key[i] = a}
  <2>1. IsFiniteSet(T)
    BY <1>1, FS_Subset
  <2>2. \A i \in T : payouts[i] \in Nat
    BY <1>1
  <2>3. mints[a] = SumFunctionOnSet(payouts, T)
    OBVIOUS
  <2> HIDE DEF T, payouts, mints
  <2>4. QED
    BY <2>1, <2>2, <2>3, SumType
<1>4. /\ balances[t] \in [Addresses -> Nat]
      /\ balances'[t] = [a \in Addresses |-> balances[t][a] + Minted(qs, t, a)]
  BY DEF BalancesType, Settles, Release
<1>5. \A a \in Addresses : /\ balances[t][a] \in Nat /\ mints[a] \in Nat
                           /\ balances'[t][a] = balances[t][a] + mints[a]
  BY <1>2, <1>3, <1>4
<1>6. SumFunctionOnSet(mints, Addresses) = SumFunctionOnSet(payouts, S)
  <2> HIDE DEF S, payouts, key
  <2> QED BY <1>1, AddressesAssumption, SumOfFibres
<1>7. SumFunctionOnSet(balances'[t], Addresses)
         = SumFunctionOnSet(balances[t], Addresses) + SumFunctionOnSet(mints, Addresses)
  <2> HIDE DEF mints
  <2> QED BY <1>5, AddressesAssumption, SumPlus
<1>8. PaidIn(t)' = old \cup new
  <2>1. processedQueries' = processedQueries \cup {qs[i] : i \in DOMAIN qs}
    BY DEF Settles, Release, Range
  <2>2. \A q : TokenOf(q)' = TokenOf(q)
    BY DEF Settles, Release, TokenOf, DepositOf
  <2>3. QED
    BY <2>1, <2>2 DEF PaidIn
<1>9. \A q : Payout(q)' = Payout(q)
  BY DEF Settles, Release, Payout, DepositOf, RateOf
<1>10. old \cap new = {}
  BY DEF PaidIn, Settles, NotProcessed, Range
<1>11. /\ IsFiniteSet(old)
       /\ \A q \in old : Payout(q) \in Nat /\ before[q] = Payout(q)
  BY ProcessedQueries DEF PayoutsIn
<1>12. /\ \A q \in old : before[q] \in Nat /\ after[q] = before[q]
       /\ \A i \in S : payouts[i] \in Nat /\ after[qs[i]] = payouts[i]
       /\ \A q \in old \cup new : after[q] \in Nat
  BY <1>1, <1>8, <1>9, <1>11
<1>13. SupplyOf(t)' <=> SumFunctionOnSet(balances'[t], Addresses) = SumFunctionOnSet(after, old \cup new)
  BY <1>8 DEF SupplyOf, PayoutsIn
<1>14. SumFunctionOnSet(balances[t], Addresses) = SumFunctionOnSet(before, old)
  BY DEF SupplyOf
<1> HIDE DEF old, before, after, payouts, S
<1>15. IsFiniteSet(new) /\ SumFunctionOnSet(after, new) = SumFunctionOnSet(payouts, S)
  BY <1>1, <1>12, SumReindexed
<1>16. SumFunctionOnSet(after, old) = SumFunctionOnSet(before, old)
  BY <1>11, <1>12, SumSame
<1> HIDE DEF new
<1>17. SumFunctionOnSet(after, old \cup new) = SumFunctionOnSet(after, old) + SumFunctionOnSet(after, new)
  BY <1>10, <1>11, <1>12, <1>15, SumDisjoint
<1>18. SupplyOf(t)'
  BY <1>6, <1>7, <1>13, <1>14, <1>15, <1>16, <1>17
<1>19. balances'[t] \in [Addresses -> Nat]
  <2>1. balances'[t] = [a \in Addresses |-> balances'[t][a]]
    BY <1>4
  <2> HIDE DEF mints
  <2>2. \A a \in Addresses : balances'[t][a] \in Nat
    BY <1>5
  <2>3. QED
    BY <2>1, <2>2
<1>20. QED
  BY <1>18, <1>19

\* The invariant of the accounts of one token.
SupplyInv == BalancesType /\ \A t \in PayoutTokens : SupplyOf(t)

\* Every step keeps the supply of every token equal to its payouts.
LEMMA StepKeepsSupply ==
    ASSUME IInv, SupplyInv, [Next]_vars
    PROVE  SupplyInv'
<1>1. ASSUME RecordKept, UNCHANGED <<processedQueries, released, balances, reputation>>
      PROVE  SupplyInv'
  BY <1>1, SupplyStays DEF SupplyInv, BalancesType
<1>2. ASSUME NEW qs, Settles(qs)
      PROVE  SupplyInv'
  <2>1. \A t \in PayoutTokens : SupplyOf(t)' /\ balances'[t] \in [Addresses -> Nat]
    BY <1>2, SettlementMints DEF SupplyInv
  <2>2. balances' = [t \in PayoutTokens |-> balances'[t]]
    BY <1>2 DEF Settles, Release
  <2>3. BalancesType'
    BY <2>1, <2>2 DEF BalancesType
  <2>4. QED
    BY <2>1, <2>3 DEF SupplyInv
<1>3. QED
  BY <1>1, <1>2, StepSettlesOrNot

\* There are no tokens at first.
LEMMA InitSupply == Init => SupplyInv
<1> SUFFICES ASSUME Init PROVE SupplyInv
  OBVIOUS
<1>1. balances = [t \in PayoutTokens |-> [a \in Addresses |-> 0]] /\ processedQueries = {}
  BY DEF Init, EscrowInit
<1>2. ASSUME NEW t \in PayoutTokens
      PROVE  SupplyOf(t)
  <2> DEFINE none == [a \in Addresses |-> 0]
  <2>1. balances[t] = none /\ PaidIn(t) = {}
    BY <1>1 DEF PaidIn
  <2>2. SumFunctionOnSet(none, Addresses) = 0
    <3>1. none \in [Addresses -> Nat] /\ \A a \in Addresses : none[a] = 0
      OBVIOUS
    <3> HIDE DEF none
    <3>2. QED
      BY <3>1, AddressesAssumption, SumOfZeros
  <2>3. QED
    BY <2>1, <2>2, SumOfNone DEF SupplyOf
<1>3. QED
  BY <1>1, <1>2 DEF SupplyInv, BalancesType

\* The README's promise, for every token and in every reachable state: the supply is the
\* sum of the payouts of the transactions that were proved and processed.
THEOREM SupplyIsAccountedFor == Spec => []SupplyMatchesPayouts
<1>1. IInv /\ SupplyInv /\ [Next]_vars => SupplyInv'
  BY StepKeepsSupply
<1>2. SupplyInv => SupplyMatchesPayouts
  BY DEF SupplyInv, SupplyOf, PaidIn, PayoutsIn, SupplyMatchesPayouts
<1>3. QED
  BY <1>1, <1>2, InitSupply, CorridorInvariant, PTL DEF Spec

-----------------------------------------------------------------------------
(* Credit records                                                          *)

\* The sum over two logs, one after the other, is the sum over each.
LEMMA SumOfTwoLogs ==
    ASSUME NEW m \in Nat, NEW S, IsFiniteSet(S), \A i \in S : i \in 1 .. m,
           NEW T, IsFiniteSet(T), \A i \in T : i \in Nat \ {0},
           NEW fun, NEW gun, NEW both,
           \A i \in S : fun[i] \in Nat /\ both[i] = fun[i],
           \A i \in T : gun[i] \in Nat /\ both[i + m] = gun[i]
    PROVE  /\ SumFunctionOnSet(both, S \cup {i + m : i \in T})
                 = SumFunctionOnSet(fun, S) + SumFunctionOnSet(gun, T)
           /\ IsFiniteSet(S \cup {i + m : i \in T})
<1> DEFINE index == [i \in T |-> i + m]
           later == {index[i] : i \in T}
<1>1. later = {i + m : i \in T}
  OBVIOUS
<1>2. \A i \in T : index[i] = i + m
  OBVIOUS
<1>3. \A x, y \in T : index[x] = index[y] => x = y
  OBVIOUS
<1>4. \A i \in T : gun[i] \in Nat /\ both[index[i]] = gun[i]
  BY <1>2
<1>5. S \cap later = {}
  BY <1>1
<1>6. \A i \in S \cup later : both[i] \in Nat
  BY <1>4
<1> HIDE DEF index
<1>7. IsFiniteSet(later) /\ SumFunctionOnSet(both, later) = SumFunctionOnSet(gun, T)
  BY <1>3, <1>4, SumReindexed
<1> HIDE DEF later
<1>8. SumFunctionOnSet(both, S) = SumFunctionOnSet(fun, S)
  BY SumSame
<1>9. SumFunctionOnSet(both, S \cup later) = SumFunctionOnSet(both, S) + SumFunctionOnSet(both, later)
  BY <1>5, <1>6, <1>7, SumDisjoint
<1>10. IsFiniteSet(S \cup later)
  BY <1>7, FS_Union
<1>11. QED
  BY <1>1, <1>7, <1>8, <1>9, <1>10

\* So is the count.
LEMMA CountOfTwoLogs ==
    ASSUME NEW m \in Nat, NEW S, IsFiniteSet(S), \A i \in S : i \in 1 .. m,
           NEW T, IsFiniteSet(T), \A i \in T : i \in Nat \ {0}
    PROVE  Cardinality(S \cup {i + m : i \in T}) = Cardinality(S) + Cardinality(T)
<1> DEFINE one == [i \in Nat |-> 1]
           all == S \cup {i + m : i \in T}
<1>1. /\ \A i \in S : one[i] = 1 /\ one[i] \in Nat
      /\ \A i \in T : one[i] = 1 /\ one[i] \in Nat /\ one[i + m] = 1
      /\ \A i \in all : one[i] = 1
  OBVIOUS
<1> HIDE DEF one
<1>2. /\ SumFunctionOnSet(one, all) = SumFunctionOnSet(one, S) + SumFunctionOnSet(one, T)
      /\ IsFiniteSet(all)
  BY <1>1, SumOfTwoLogs
<1> HIDE DEF all
<1>3. /\ SumFunctionOnSet(one, S) = Cardinality(S)
      /\ SumFunctionOnSet(one, T) = Cardinality(T)
      /\ SumFunctionOnSet(one, all) = Cardinality(all)
  BY <1>1, <1>2, SumOfOnes
<1>4. QED
  BY <1>2, <1>3 DEF all

\* ReputationMatchesReleases for one address.
RecordOf(a) ==
    LET r == reputation[a] IN
    /\ r.transfersSent = Cardinality(SentBy(a))
    /\ r.transfersReceived = Cardinality(ReceivedBy(a))
    /\ r.volumeSent = SumFunctionOnSet(AmountsPaid, SentBy(a))
    /\ r.volumeReceived = SumFunctionOnSet(AmountsPaid, ReceivedBy(a))
    /\ (r.firstSeenBlock # 0) <=> (SentBy(a) \cup ReceivedBy(a) # {})

\* The log after a settlement: the releases before it and one for each of its transactions.
LEMMA LogOfSettlement ==
    ASSUME IInv, NEW qs, Settles(qs)
    PROVE  LET m == Len(released)
               n == Len(qs)
           IN  /\ m \in Nat /\ n \in Nat
               /\ DOMAIN released = 1 .. m /\ DOMAIN qs = 1 .. n
               /\ DOMAIN released' = 1 .. m + n
               /\ \A i \in 1 .. m : released'[i] = released[i]
               /\ \A i \in 1 .. n : released'[i + m] = TransferReleased(qs[i])
               /\ \A i \in 1 .. m : released[i].amountPaid \in Nat
<1> DEFINE m == Len(released)
           n == Len(qs)
           new == [i \in 1 .. n |-> TransferReleased(qs[i])]
<1>1. released \in Seq(ReleaseEvent) /\ m \in Nat /\ DOMAIN released = 1 .. m
  BY LenProperties DEF IInv, TypeOK, EscrowTypeOK
<1>2. n \in Nat /\ DOMAIN qs = 1 .. n /\ \A i \in 1 .. n : qs[i] \in AttestedQueries /\ Releasable(qs[i])
  <2>1. n \in Nat /\ DOMAIN qs = 1 .. n
    BY SettledQueries
  <2>2. \A i \in 1 .. n : qs[i] \in AttestedQueries
    BY <2>1, SettledQueries
  <2>3. \A i \in 1 .. n : Releasable(qs[i])
    BY <2>1 DEF Settles, Release
  <2>4. QED
    BY <2>1, <2>2, <2>3
<1>3. new \in Seq(ReleaseEvent) /\ Len(new) = n
  <2>1. new \in [1 .. n -> ReleaseEvent]
    BY <1>2, ReleaseEventType DEF IInv
  <2>2. QED
    BY <1>2, <2>1, FunctionIsSeq
<1>4. /\ released' = released \o new
      /\ \A i \in 1 .. n : new[i] = TransferReleased(qs[i])
  BY DEF Settles, Release
<1>5. \A i \in 1 .. m : released[i].amountPaid \in Nat
  <2>1. \A i \in 1 .. m : released[i] \in ReleaseEvent
    BY <1>1, ElementOfSeq
  <2>2. QED
    BY <2>1 DEF ReleaseEvent
<1>6. Len(released) = m /\ Len(qs) = n
  OBVIOUS
<1> HIDE DEF m, n, new
<1>7. /\ released' \in Seq(ReleaseEvent)
      /\ Len(released') = m + n
      /\ \A i \in 1 .. m + n : released'[i] = IF i <= m THEN released[i] ELSE new[i - m]
  <2>1. /\ released \o new \in Seq(ReleaseEvent)
        /\ Len(released \o new) = Len(released) + Len(new)
        /\ \A i \in 1 .. Len(released) + Len(new) :
              (released \o new)[i] = IF i <= Len(released) THEN released[i]
                                     ELSE new[i - Len(released)]
    BY <1>1, <1>3, ConcatProperties, Zenon
  <2>2. Len(released) = m /\ Len(new) = n /\ released' = released \o new
    BY <1>3, <1>4, <1>6
  <2>3. QED
    BY <2>1, <2>2, Zenon
<1>8. DOMAIN released' = 1 .. m + n
  BY <1>7, LenProperties
<1>9. \A i \in 1 .. m : released'[i] = released[i]
  BY <1>1, <1>2, <1>7
<1>10. ASSUME NEW i \in 1 .. n
       PROVE  released'[i + m] = TransferReleased(qs[i])
  <2>1. i + m \in 1 .. m + n /\ ~(i + m <= m) /\ (i + m) - m = i
    BY <1>1, <1>2
  <2>2. released'[i + m] = new[(i + m) - m]
    BY <1>7, <2>1
  <2>3. QED
    BY <1>4, <2>1, <2>2
<1>11. QED
  BY <1>1, <1>2, <1>5, <1>6, <1>8, <1>9, <1>10

\* Where the entries of a settlement are in the log, and what they pay.
Moved(S, m) == {i + m : i \in S}
PayoutsOf(qs) == [i \in DOMAIN qs |-> Payout(qs[i])]

\* The releases that pick an account on one side, the sender's or the receiver's, and
\* what they paid, after a settlement.
LEMMA SideOfSettlement ==
    ASSUME IInv, NEW qs, Settles(qs),
           NEW before, NEW now, NEW after,
           before \subseteq DOMAIN released, now \subseteq DOMAIN qs,
           after = before \cup Moved(now, Len(released))
    PROVE  /\ IsFiniteSet(before) /\ IsFiniteSet(now)
           /\ Cardinality(after) = Cardinality(before) + Cardinality(now)
           /\ SumFunctionOnSet(AmountsPaid', after) =
                 SumFunctionOnSet(AmountsPaid, before)
                    + SumFunctionOnSet(PayoutsOf(qs), now)
<1> DEFINE m == Len(released)
           fun == AmountsPaid
           gun == [i \in DOMAIN qs |-> Payout(qs[i])]
           both == [i \in DOMAIN released' |-> released'[i].amountPaid]
<1>1. /\ m \in Nat /\ DOMAIN released = 1 .. m
      /\ Len(qs) \in Nat /\ DOMAIN qs = 1 .. Len(qs)
      /\ DOMAIN released' = 1 .. m + Len(qs)
      /\ \A i \in 1 .. m : released'[i] = released[i] /\ released[i].amountPaid \in Nat
      /\ \A i \in DOMAIN qs : released'[i + m] = TransferReleased(qs[i])
  BY LogOfSettlement
<1>2. IsFiniteSet(before) /\ IsFiniteSet(now)
  <2>1. m \in Int /\ Len(qs) \in Int /\ before \subseteq 1 .. m /\ now \subseteq 1 .. Len(qs)
    BY <1>1
  <2>2. IsFiniteSet(1 .. m) /\ IsFiniteSet(1 .. Len(qs))
    BY <2>1, FS_Interval
  <2>3. QED
    BY <2>1, <2>2, FS_Subset
<1>3. (\A i \in before : i \in 1 .. m) /\ (\A i \in now : i \in Nat \ {0})
  BY <1>1
<1>4. ASSUME NEW i \in before
      PROVE  fun[i] \in Nat /\ both[i] = fun[i]
  <2>1. i \in DOMAIN released /\ i \in DOMAIN released'
    BY <1>1, <1>3
  <2>2. QED
    BY <1>1, <2>1 DEF AmountsPaid
<1>5. ASSUME NEW i \in now
      PROVE  gun[i] \in Nat /\ both[i + m] = gun[i]
  <2>1. i \in DOMAIN qs /\ i + m \in DOMAIN released'
    BY <1>1, <1>3
  <2>2. released'[i + m].amountPaid = Payout(qs[i])
    <3>1. released'[i + m] = TransferReleased(qs[i])
      BY <1>1, <2>1
    <3>2. QED
      BY <3>1 DEF TransferReleased
  <2>3. Payout(qs[i]) \in Nat
    BY <2>1, SettledQueries
  <2>4. QED
    BY <2>1, <2>2, <2>3
<1>6. AmountsPaid' = both
  BY DEF AmountsPaid
<1>7. after = before \cup {i + m : i \in now}
  BY DEF Moved
<1> HIDE DEF m, fun, gun, both
<1>8. Cardinality(after) = Cardinality(before) + Cardinality(now)
  BY <1>1, <1>2, <1>3, <1>7, CountOfTwoLogs
<1>9. SumFunctionOnSet(both, after) = SumFunctionOnSet(fun, before) + SumFunctionOnSet(gun, now)
  BY <1>1, <1>2, <1>3, <1>4, <1>5, <1>7, SumOfTwoLogs
<1>10. QED
  BY <1>2, <1>6, <1>8, <1>9 DEF fun, gun, PayoutsOf

\* A settlement brings the record of an address up to date.
LEMMA SettlementRecords ==
    ASSUME IInv, ccBlock # 0, NEW qs, Settles(qs), NEW a \in Addresses, RecordOf(a)
    PROVE  RecordOf(a)'
<1> DEFINE m == Len(released)
           sent == {i \in DOMAIN qs : DepositOf(qs[i]).sender = a}
           got == {i \in DOMAIN qs : DepositOf(qs[i]).receiver = a}
           payouts == [i \in DOMAIN qs |-> Payout(qs[i])]
           r == reputation[a]
<1>1. /\ m \in Nat /\ DOMAIN released = 1 .. m
      /\ Len(qs) \in Nat /\ DOMAIN qs = 1 .. Len(qs)
      /\ DOMAIN released' = 1 .. m + Len(qs)
      /\ \A i \in 1 .. m : released'[i] = released[i]
      /\ \A i \in DOMAIN qs : released'[i + m] = TransferReleased(qs[i])
  BY LogOfSettlement
<1>2. ASSUME NEW i \in DOMAIN qs
      PROVE  /\ released'[i + m].sender = DepositOf(qs[i]).sender
             /\ released'[i + m].receiver = DepositOf(qs[i]).receiver
  <2>1. released'[i + m] = TransferReleased(qs[i])
    BY <1>1
  <2>2. QED
    BY <2>1 DEF TransferReleased
<1>3. DOMAIN released' = DOMAIN released \cup {i + m : i \in DOMAIN qs}
  <2>1. ASSUME NEW j \in 1 .. m + Len(qs), j \notin 1 .. m
        PROVE  \E i \in 1 .. Len(qs) : j = i + m
    <3>1. j - m \in 1 .. Len(qs) /\ j = (j - m) + m
      BY <1>1, <2>1
    <3>2. QED
      BY <3>1
  <2>2. \A i \in 1 .. Len(qs) : i + m \in 1 .. m + Len(qs)
    BY <1>1
  <2>3. 1 .. m \subseteq 1 .. m + Len(qs)
    BY <1>1
  <2>4. QED
    BY <1>1, <2>1, <2>2, <2>3
<1>4. SentBy(a)' = SentBy(a) \cup {i + m : i \in sent}
  <2>1. SentBy(a)' = {j \in DOMAIN released' : released'[j].sender = a}
    BY DEF SentBy
  <2>2. QED
    BY <1>1, <1>2, <1>3, <2>1 DEF SentBy
<1>5. ReceivedBy(a)' = ReceivedBy(a) \cup {i + m : i \in got}
  <2>1. ReceivedBy(a)' = {j \in DOMAIN released' : released'[j].receiver = a}
    BY DEF ReceivedBy
  <2>2. QED
    BY <1>1, <1>2, <1>3, <2>1 DEF ReceivedBy
<1>6. /\ SentBy(a) \subseteq DOMAIN released /\ sent \subseteq DOMAIN qs
      /\ ReceivedBy(a) \subseteq DOMAIN released /\ got \subseteq DOMAIN qs
  BY DEF SentBy, ReceivedBy
<1> DEFINE Sides(before, now, after) ==
              /\ Cardinality(after) = Cardinality(before) + Cardinality(now)
              /\ SumFunctionOnSet(AmountsPaid', after) =
                    SumFunctionOnSet(AmountsPaid, before) + SumFunctionOnSet(payouts, now)
<1>15. ASSUME NEW before, NEW now, NEW after,
              before \subseteq DOMAIN released, now \subseteq DOMAIN qs,
              after = before \cup {i + m : i \in now}
       PROVE  Sides(before, now, after)
  <2>1. after = before \cup Moved(now, Len(released)) /\ payouts = PayoutsOf(qs)
    BY <1>15 DEF Moved, PayoutsOf
  <2> HIDE DEF m, sent, got, r, payouts, Sides
  <2>2. /\ Cardinality(after) = Cardinality(before) + Cardinality(now)
        /\ SumFunctionOnSet(AmountsPaid', after) =
              SumFunctionOnSet(AmountsPaid, before) + SumFunctionOnSet(PayoutsOf(qs), now)
    BY <1>15, <2>1, SideOfSettlement
  <2>3. QED
    BY <2>1, <2>2 DEF Sides
<1>16. Sides(SentBy(a), sent, SentBy(a)') /\ Sides(ReceivedBy(a), got, ReceivedBy(a)')
  <2> HIDE DEF Sides, sent, got, m
  <2> QED BY <1>4, <1>5, <1>6, <1>15
<1>7. /\ Cardinality(SentBy(a)') = Cardinality(SentBy(a)) + Cardinality(sent)
      /\ SumFunctionOnSet(AmountsPaid', SentBy(a)') =
            SumFunctionOnSet(AmountsPaid, SentBy(a)) + SumFunctionOnSet(payouts, sent)
  BY <1>16
<1>8. /\ Cardinality(ReceivedBy(a)') = Cardinality(ReceivedBy(a)) + Cardinality(got)
      /\ SumFunctionOnSet(AmountsPaid', ReceivedBy(a)') =
            SumFunctionOnSet(AmountsPaid, ReceivedBy(a)) + SumFunctionOnSet(payouts, got)
  BY <1>16
<1>9. reputation'[a] =
        [transfersSent |-> r.transfersSent + Cardinality(sent),
         transfersReceived |-> r.transfersReceived + Cardinality(got),
         volumeSent |-> r.volumeSent + SumFunctionOnSet(payouts, sent),
         volumeReceived |-> r.volumeReceived + SumFunctionOnSet(payouts, got),
         firstSeenBlock |-> IF sent \cup got # {} /\ r.firstSeenBlock = 0
                            THEN ccBlock ELSE r.firstSeenBlock]
  BY DEF Settles, Release, Recorded
<1>10. (reputation'[a].firstSeenBlock # 0) <=> (SentBy(a)' \cup ReceivedBy(a)' # {})
  <2>1. (r.firstSeenBlock # 0) <=> (SentBy(a) \cup ReceivedBy(a) # {})
    BY DEF RecordOf
  <2>2. reputation'[a].firstSeenBlock =
           IF sent \cup got # {} /\ r.firstSeenBlock = 0 THEN ccBlock ELSE r.firstSeenBlock
    BY <1>9
  <2>3. SentBy(a)' \cup ReceivedBy(a)' # {} <=>
           SentBy(a) \cup ReceivedBy(a) # {} \/ sent \cup got # {}
    BY <1>4, <1>5
  <2> HIDE DEF sent, got, r
  <2>4. QED
    BY <2>1, <2>2, <2>3
<1>11. /\ reputation'[a].transfersSent = r.transfersSent + Cardinality(sent)
       /\ reputation'[a].transfersReceived = r.transfersReceived + Cardinality(got)
       /\ reputation'[a].volumeSent = r.volumeSent + SumFunctionOnSet(payouts, sent)
       /\ reputation'[a].volumeReceived = r.volumeReceived + SumFunctionOnSet(payouts, got)
  BY <1>9
<1>12. /\ r.transfersSent = Cardinality(SentBy(a))
       /\ r.transfersReceived = Cardinality(ReceivedBy(a))
       /\ r.volumeSent = SumFunctionOnSet(AmountsPaid, SentBy(a))
       /\ r.volumeReceived = SumFunctionOnSet(AmountsPaid, ReceivedBy(a))
  BY DEF RecordOf
<1>13. /\ reputation'[a].transfersSent = Cardinality(SentBy(a)')
       /\ reputation'[a].transfersReceived = Cardinality(ReceivedBy(a)')
       /\ reputation'[a].volumeSent = SumFunctionOnSet(AmountsPaid', SentBy(a)')
       /\ reputation'[a].volumeReceived = SumFunctionOnSet(AmountsPaid', ReceivedBy(a)')
  <2> HIDE DEF sent, got, payouts, r
  <2> QED BY <1>7, <1>8, <1>11, <1>12
<1>14. QED
  BY <1>10, <1>13 DEF RecordOf

\* Every step keeps the credit records right; blocks are counted from one.
RecordsInv == ccBlock \in Nat \ {0} /\ \A a \in Addresses : RecordOf(a)

\* Every step keeps what the records say.
LEMMA StepKeepsRecords ==
    ASSUME IInv, RecordsInv, [Next]_vars
    PROVE  RecordsInv'
<1>1. ccBlock' \in Nat \ {0}
  <2>1. ccBlock' = ccBlock \/ ccBlock' = ccBlock + 1
    BY DEF Next, EscrowStep, RegisterCorridor, Execute, ExecuteBatch, Release, NextBlock,
           vars, escrowVars
  <2>2. QED
    BY <2>1 DEF RecordsInv
<1>2. ASSUME UNCHANGED <<processedQueries, released, balances, reputation>>, NEW a \in Addresses
      PROVE  RecordOf(a)'
  BY <1>2 DEF RecordsInv, RecordOf, SentBy, ReceivedBy, AmountsPaid
<1>3. ASSUME NEW qs, Settles(qs), NEW a \in Addresses
      PROVE  RecordOf(a)'
  BY <1>3, SettlementRecords DEF RecordsInv
<1>4. QED
  BY <1>1, <1>2, <1>3, StepSettlesOrNot DEF RecordsInv

\* The records are empty at first.
LEMMA InitRecords == Init => RecordsInv
<1> SUFFICES ASSUME Init PROVE RecordsInv
  OBVIOUS
<1>1. /\ reputation = [a \in Addresses |-> NoReputation]
      /\ DOMAIN released = {} /\ ccBlock = 1
  BY DEF Init, EscrowInit
<1>2. ASSUME NEW a \in Addresses
      PROVE  RecordOf(a)
  <2>1. SentBy(a) = {} /\ ReceivedBy(a) = {} /\ reputation[a] = NoReputation
    BY <1>1 DEF SentBy, ReceivedBy
  <2>2. Cardinality({}) = 0 /\ SumFunctionOnSet(AmountsPaid, {}) = 0
    BY FS_EmptySet, SumOfNone
  <2>3. QED
    BY <2>1, <2>2 DEF RecordOf, NoReputation
<1>3. QED
  BY <1>1, <1>2 DEF RecordsInv

\* A credit record is never ahead of or behind the releases, whatever batches they came in
\* and when a sender is the receiver too.
THEOREM ReputationIsEarned == Spec => []ReputationMatchesReleases
<1>1. IInv /\ RecordsInv /\ [Next]_vars => RecordsInv'
  BY StepKeepsRecords
<1>2. RecordsInv => ReputationMatchesReleases
  BY DEF RecordsInv, RecordOf, ReputationMatchesReleases
<1>3. QED
  BY <1>1, <1>2, InitRecords, CorridorInvariant, PTL DEF Spec

-----------------------------------------------------------------------------
(* Deposit ids                                                             *)

\* The places of the calls to c, counted: the call that has i calls to c before it has
\* number i, so the calls have all the numbers below their count.
LEMMA CallsAreNumbered ==
    ASSUME NEW tx \in Transactions, NEW c, NEW n \in Nat
    PROVE  {Cardinality(CallsTo(tx, c, i - 1)) : i \in CallsTo(tx, c, n)}
              = 0 .. Cardinality(CallsTo(tx, c, n)) - 1
<1> DEFINE count(k) == Cardinality(CallsTo(tx, c, k))
           numbers(k) == {count(i - 1) : i \in CallsTo(tx, c, k)}
           Right(k) == numbers(k) = 0 .. count(k) - 1
           Bad == {k \in Nat : ~Right(k)}
<1>0. \A k : CallsTo(tx, c, k) = {i \in CallsTo(tx, c, k) : i \in Nat \ {0} /\ i <= k}
  <2>1. DOMAIN tx.steps \subseteq Nat \ {0}
    BY TransactionType
  <2>2. QED
    BY <2>1 DEF CallsTo, Calls, At
<1>1. Right(0)
  <2>1. CallsTo(tx, c, 0) = {}
    BY <1>0
  <2>2. count(0) = 0
    BY <2>1, FS_EmptySet
  <2>3. numbers(0) = {}
    BY <2>1
  <2>4. 0 .. count(0) - 1 = {}
    <3> HIDE DEF count
    <3> QED BY <2>2
  <2>5. QED
    <3> HIDE DEF count, numbers
    <3> QED BY <2>3, <2>4
<1>2. ASSUME NEW k \in Nat, k # 0, Right(k - 1)
      PROVE  Right(k)
  <2> DEFINE before == CallsTo(tx, c, k - 1)
  <2>1. IsFiniteSet(before) /\ k \notin before
    <3>1. k - 1 \in Int
      BY <1>2
    <3>2. IsFiniteSet(before)
      BY <3>1, CallsToCount
    <3>3. k \notin before
      BY <1>0, <1>2
    <3>4. QED
      BY <3>2, <3>3
  <2>2. Calls(tx) \subseteq Nat
    BY TransactionType DEF Calls, At
  <2>3. CASE k \in Calls(tx) /\ tx.steps[k].contract = c
    <3>1. CallsTo(tx, c, k) = before \cup {k}
      BY <1>2, <2>2, <2>3 DEF CallsTo
    <3>2. count(k) = count(k - 1) + 1 /\ count(k - 1) \in Nat
      BY <2>1, <3>1, FS_AddElement, FS_CardinalityType
    <3>3. numbers(k) = numbers(k - 1) \cup {count(k - 1)}
      BY <3>1
    <3>4. numbers(k - 1) = 0 .. count(k - 1) - 1
      BY <1>2
    <3> HIDE DEF count, numbers
    <3>5. numbers(k) = 0 .. count(k) - 1
      BY <3>2, <3>3, <3>4
    <3>6. QED
      BY <3>5
  <2>4. CASE ~(k \in Calls(tx) /\ tx.steps[k].contract = c)
    <3>1. CallsTo(tx, c, k) = before
      BY <1>2, <2>2, <2>4 DEF CallsTo
    <3>2. numbers(k) = numbers(k - 1) /\ count(k) = count(k - 1)
      BY <3>1
    <3> HIDE DEF count, numbers
    <3>3. QED
      BY <1>2, <3>2
  <2>5. QED
    BY <2>3, <2>4
<1> HIDE DEF Right
<1>3. Bad = {}
  <2> SUFFICES ASSUME Bad # {} PROVE FALSE
    OBVIOUS
  <2>1. PICK k \in Bad : \A j \in Bad : ~(j < k)
    BY LeastNumber
  <2>2. k \in Nat /\ ~Right(k)
    BY <2>1
  <2>3. k # 0
    BY <1>1, <2>2
  <2>4. k - 1 \in Nat /\ k - 1 < k
    BY <2>2, <2>3
  <2>5. Right(k - 1)
    BY <2>1, <2>4
  <2>6. QED
    BY <1>2, <2>2, <2>3, <2>5
<1>4. Right(n)
  BY <1>3
<1>5. QED
  BY <1>4 DEF Right

\* Where in the chain the deposits of a contract are logged, and the ids they have.
LogsOf(c) ==
    UNION {{<<q, i>> : i \in {j \in Emitted(receipts[q].deposits) :
                                 receipts[q].deposits[j].contract = c}} : q \in DOMAIN receipts}
IdOf(l) == receipts[l[1]].deposits[l[2]].depositId

\* DepositIdsAreDense for one contract.
DenseFor(c) ==
    /\ IsFiniteSet(LogsOf(c))
    /\ {IdOf(l) : l \in LogsOf(c)} = 0 .. depositCount[c] - 1
    /\ Cardinality(LogsOf(c)) = depositCount[c]

\* A deposit log is a place in a receipt.
LEMMA LogPlaces ==
    ASSUME NEW c, NEW l
    PROVE  l \in LogsOf(c) <=>
              \E q \in DOMAIN receipts : \E i \in Emitted(receipts[q].deposits) :
                 receipts[q].deposits[i].contract = c /\ l = <<q, i>>
BY DEF LogsOf

\* A receipt without deposits to c leaves its ids as they are.
LEMMA ReceiptWithoutCalls ==
    ASSUME IInv, NEW c \in DepositContracts, DenseFor(c), NEW r \in Receipt,
           Emitted(r.deposits) = {},
           receipts' = Append(receipts, r), depositCount'[c] = depositCount[c]
    PROVE  DenseFor(c)'
<1> DEFINE n == Len(receipts)
<1>1. receipts \in Seq(Receipt) /\ n \in Nat /\ DOMAIN receipts = 1 .. n
  BY LenProperties DEF IInv, TypeOK, ReceiptsTypeOK
<1>2. /\ \A q \in 1 .. n : receipts'[q] = receipts[q]
      /\ receipts'[n + 1] = r
      /\ DOMAIN receipts' = 1 .. n + 1
  BY <1>1, AppendElements, LenProperties
<1>3. Emitted(r.deposits) = {}
  OBVIOUS
<1>4. ASSUME NEW l
      PROVE  l \in LogsOf(c)' <=> l \in LogsOf(c)
  <2>1. l \in LogsOf(c)' <=>
           \E q \in DOMAIN receipts' : \E i \in Emitted(receipts'[q].deposits) :
              receipts'[q].deposits[i].contract = c /\ l = <<q, i>>
    BY DEF LogsOf
  <2>2. ASSUME NEW q \in DOMAIN receipts', NEW i \in Emitted(receipts'[q].deposits)
        PROVE  q \in 1 .. n
    BY <1>1, <1>2, <1>3
  <2>3. QED
    BY <1>1, <1>2, <2>1, <2>2, LogPlaces
<1>5. LogsOf(c)' = LogsOf(c)
  <2>1. LogsOf(c)' = {l \in LogsOf(c)' : TRUE} /\ LogsOf(c) = {l \in LogsOf(c) : TRUE}
    OBVIOUS
  <2>2. QED
    BY <1>4, <2>1
<1>6. \A l \in LogsOf(c) : IdOf(l)' = IdOf(l)
  BY <1>1, <1>2, LogPlaces DEF IdOf
<1>7. QED
  BY <1>5, <1>6 DEF DenseFor

\* The deposits of a transaction carry on the numbers of each contract it calls.
LEMMA ReceiptWithCalls ==
    ASSUME IInv, NEW c \in DepositContracts, DenseFor(c), NEW tx \in Transactions, Deposit(tx)
    PROVE  DenseFor(c)'
<1> DEFINE n == Len(receipts)
           k == Len(tx.steps)
           calls == CallsTo(tx, c, k)
           count == Cardinality(calls)
           d == depositCount[c]
           place == [i \in calls |-> <<n + 1, i>>]
           new == {place[i] : i \in calls}
           one == [i \in calls |-> 1]
           ones == [l \in new |-> 1]
           number == [i \in calls |-> Cardinality(CallsTo(tx, c, i - 1))]
<1>1. receipts \in Seq(Receipt) /\ n \in Nat /\ DOMAIN receipts = 1 .. n
  BY LenProperties DEF IInv, TypeOK, ReceiptsTypeOK
<1>2. ReceiptOf(tx) \in Receipt /\ receipts' = Append(receipts, ReceiptOf(tx))
  BY DepositReceiptType DEF IInv, Deposit, ReceiptOf
<1>3. /\ \A q \in 1 .. n : receipts'[q] = receipts[q]
      /\ receipts'[n + 1] = ReceiptOf(tx)
      /\ DOMAIN receipts' = 1 .. n + 1
  BY <1>1, <1>2, AppendElements, LenProperties
<1>4. /\ k \in Nat
      /\ \A i \in Calls(tx) :
            /\ i \in Emitted(DepositLogs(tx)) /\ i \in 1 .. k
            /\ DepositLogs(tx)[i].contract = tx.steps[i].contract
            /\ DepositLogs(tx)[i].depositId =
                  depositCount[tx.steps[i].contract]
                    + Cardinality(CallsTo(tx, tx.steps[i].contract, i - 1))
      /\ \A i \in Emitted(DepositLogs(tx)) \ Calls(tx) :
            DepositLogs(tx)[i].contract \in OtherContracts
  BY TransactionType, DepositLogsType DEF IInv, Deposit
<1>5. calls = {i \in Emitted(DepositLogs(tx)) : DepositLogs(tx)[i].contract = c}
  <2>1. calls = {i \in Calls(tx) : tx.steps[i].contract = c}
    <3>1. \A i \in Calls(tx) : i <= k
      BY <1>4
    <3>2. QED
      BY <3>1 DEF CallsTo
  <2>2. QED
    BY <1>4, <2>1, OtherContractsAssumption
<1>6. IsFiniteSet(calls) /\ count \in Nat
  BY <1>4, CallsToCount
<1>7. d \in Nat /\ depositCount'[c] = d + count
  BY DEF IInv, TypeOK, DepositTypeOK, Deposit
<1>8. receipts'[n + 1].deposits = DepositLogs(tx)
  BY <1>3 DEF ReceiptOf
<1>9. ASSUME NEW l
      PROVE  l \in LogsOf(c)' <=> l \in LogsOf(c) \cup new
  <2>1. l \in LogsOf(c)' <=>
           \E q \in DOMAIN receipts' : \E i \in Emitted(receipts'[q].deposits) :
              receipts'[q].deposits[i].contract = c /\ l = <<q, i>>
    BY DEF LogsOf
  <2>3. l \in new <=> \E i \in Emitted(receipts'[n + 1].deposits) :
                         receipts'[n + 1].deposits[i].contract = c /\ l = <<n + 1, i>>
    BY <1>5, <1>8
  <2>4. l \in LogsOf(c) <=>
           \E q \in 1 .. n : \E i \in Emitted(receipts'[q].deposits) :
              receipts'[q].deposits[i].contract = c /\ l = <<q, i>>
    BY <1>1, <1>3, LogPlaces
  <2>5. 1 .. n + 1 = (1 .. n) \cup {n + 1}
    BY <1>1
  <2> HIDE DEF new, n
  <2>6. QED
    BY <1>3, <2>1, <2>3, <2>4, <2>5
<1>10. LogsOf(c)' = LogsOf(c) \cup new
  <2>1. LogsOf(c)' = {l \in LogsOf(c)' : TRUE}
    OBVIOUS
  <2> HIDE DEF new
  <2>2. QED
    BY <1>9, <2>1
<1>11. LogsOf(c) \cap new = {}
  BY <1>1, LogPlaces
<1>12. IsFiniteSet(new) /\ Cardinality(new) = count
  <2>1. \A x, y \in calls : place[x] = place[y] => x = y
    OBVIOUS
  <2>2. \A i \in calls : one[i] = 1 /\ one[i] \in Nat /\ ones[place[i]] = one[i]
    OBVIOUS
  <2>3. \A l \in new : ones[l] = 1
    OBVIOUS
  <2> HIDE DEF calls, place, one, ones
  <2>4. IsFiniteSet(new) /\ SumFunctionOnSet(ones, new) = SumFunctionOnSet(one, calls)
    BY <1>6, <2>1, <2>2, SumReindexed
  <2> HIDE DEF new
  <2>5. SumFunctionOnSet(ones, new) = Cardinality(new) /\ SumFunctionOnSet(one, calls) = count
    BY <1>6, <2>2, <2>3, <2>4, SumOfOnes
  <2>6. QED
    BY <2>4, <2>5
<1>13. /\ IsFiniteSet(LogsOf(c)')
       /\ Cardinality(LogsOf(c)') = d + count
  <2>1. IsFiniteSet(LogsOf(c)) /\ Cardinality(LogsOf(c)) = d
    BY DEF DenseFor
  <2> HIDE DEF new, count, d
  <2>2. /\ IsFiniteSet(LogsOf(c) \cup new)
        /\ Cardinality(LogsOf(c) \cup new) =
              Cardinality(LogsOf(c)) + Cardinality(new) - Cardinality(LogsOf(c) \cap new)
    BY <1>12, <2>1, FS_Union
  <2>3. Cardinality(LogsOf(c) \cap new) = 0
    BY <1>11, FS_EmptySet
  <2>4. QED
    BY <1>6, <1>7, <1>10, <1>12, <2>1, <2>2, <2>3
<1>14. \A l \in LogsOf(c) : IdOf(l)' = IdOf(l)
  BY <1>1, <1>3, LogPlaces DEF IdOf
<1>15. ASSUME NEW i \in calls, NEW l, l = place[i]
       PROVE  IdOf(l)' = d + number[i]
  <2>1. l = <<n + 1, i>> /\ i \in Calls(tx) /\ tx.steps[i].contract = c
    BY <1>15 DEF CallsTo
  <2>2. IdOf(l)' = DepositLogs(tx)[i].depositId
    BY <1>8, <2>1 DEF IdOf
  <2>3. DepositLogs(tx)[i].depositId = d + number[i]
    BY <1>4, <2>1
  <2>4. QED
    BY <2>2, <2>3
<1>16. {number[i] : i \in calls} = 0 .. count - 1
  BY <1>4, CallsAreNumbered
<1>17. {IdOf(l)' : l \in LogsOf(c)'} = 0 .. (d + count) - 1
  <2>1. {IdOf(l) : l \in LogsOf(c)} = 0 .. d - 1
    BY DEF DenseFor
  <2>2. {IdOf(l)' : l \in LogsOf(c)} = 0 .. d - 1
    BY <1>14, <2>1
  <2>3. {IdOf(l)' : l \in new} = {d + number[i] : i \in calls}
    <3>1. /\ \A l \in new : \E i \in calls : l = place[i]
          /\ \A i \in calls : place[i] \in new
      OBVIOUS
    <3> HIDE DEF new, place, calls, number, d
    <3>2. \A l \in new : \E i \in calls : IdOf(l)' = d + number[i]
      BY <1>15, <3>1
    <3>3. \A i \in calls : \E l \in new : IdOf(l)' = d + number[i]
      BY <1>15, <3>1
    <3>4. QED
      BY <3>2, <3>3
  <2>4. {d + number[i] : i \in calls} = d .. (d + count) - 1
    <3> HIDE DEF calls, number, d, count
    <3>1. \A i \in calls : number[i] \in 0 .. count - 1
      BY <1>16
    <3>2. \A x \in 0 .. count - 1 : \E i \in calls : number[i] = x
      BY <1>16
    <3>3. \A i \in calls : d + number[i] \in d .. (d + count) - 1
      BY <1>6, <1>7, <3>1
    <3>4. ASSUME NEW y \in d .. (d + count) - 1
          PROVE  \E i \in calls : d + number[i] = y
      <4>1. y - d \in 0 .. count - 1
        BY <1>6, <1>7
      <4>2. PICK i \in calls : number[i] = y - d
        BY <3>2, <4>1
      <4>3. d + number[i] = y
        BY <1>7, <4>2
      <4>4. QED
        BY <4>3
    <3>5. QED
      BY <3>3, <3>4
  <2>5. {IdOf(l)' : l \in LogsOf(c)'} = {IdOf(l)' : l \in LogsOf(c)} \cup {IdOf(l)' : l \in new}
    BY <1>10
  <2>6. 0 .. (d + count) - 1 = (0 .. d - 1) \cup (d .. (d + count) - 1)
    BY <1>6, <1>7
  <2>7. QED
    BY <2>2, <2>3, <2>4, <2>5, <2>6
<1>18. QED
  BY <1>7, <1>13, <1>17 DEF DenseFor

\* The ids of every contract are dense.
DenseInv == \A c \in DepositContracts : DenseFor(c)

\* Every step keeps the ids dense.
LEMMA StepKeepsDense ==
    ASSUME IInv, DenseInv, [Next]_vars
    PROVE  DenseInv'
<1>1. ASSUME receipts' = receipts, depositCount' = depositCount
      PROVE  DenseInv'
  <2>1. \A c : LogsOf(c)' = LogsOf(c)
    BY <1>1 DEF LogsOf
  <2>2. \A l : IdOf(l)' = IdOf(l)
    BY <1>1 DEF IdOf
  <2>3. QED
    BY <1>1, <2>1, <2>2 DEF DenseInv, DenseFor
<1>2. ASSUME NEW tx \in Transactions, Deposit(tx)
      PROVE  DenseInv'
  BY <1>2, ReceiptWithCalls DEF DenseInv
<1>3. ASSUME NEW tx \in Transactions, DepositReverts(tx)
      PROVE  DenseInv'
  <2>1. RevertedReceipt \in Receipt /\ Emitted(RevertedReceipt.deposits) = {}
    BY RevertedReceiptType
  <2>2. depositCount' = depositCount /\ receipts' = Append(receipts, RevertedReceipt)
    BY <1>3 DEF DepositReverts, depositVars
  <2>3. QED
    BY <2>1, <2>2, ReceiptWithoutCalls DEF DenseInv
<1>4. CASE SourceStep
  BY <1>1, <1>2, <1>3, <1>4 DEF SourceStep, FeedMoves
<1>5. CASE ~SourceStep
  BY <1>1, <1>5 DEF Next, Attest, depositVars, vars
<1>6. QED
  BY <1>4, <1>5

\* No contract has given an id at first.
LEMMA InitDense == Init => DenseInv
<1> SUFFICES ASSUME Init, NEW c \in DepositContracts PROVE DenseFor(c)
  BY DEF DenseInv
<1>1. DOMAIN receipts = {} /\ depositCount[c] = 0
  BY DEF Init, ReceiptsInit, DepositInit
<1>2. LogsOf(c) = {}
  BY <1>1 DEF LogsOf
<1>3. IsFiniteSet({}) /\ Cardinality({}) = 0 /\ 0 .. 0 - 1 = {}
  BY FS_EmptySet
<1>4. QED
  BY <1>1, <1>2, <1>3 DEF DenseFor

\* The server may take depositCount for the next id: each contract has given out exactly
\* the ids below it, each once, whatever mix of calls the transactions are made of.
THEOREM IdsAreDense == Spec => []DepositIdsAreDense
<1>1. IInv /\ DenseInv /\ [Next]_vars => DenseInv'
  BY StepKeepsDense
<1>2. DenseInv => DepositIdsAreDense
  BY DEF DenseInv, DenseFor, LogsOf, IdOf, DepositIdsAreDense
<1>3. QED
  BY <1>1, <1>2, InitDense, CorridorInvariant, PTL DEF Spec

=============================================================================
