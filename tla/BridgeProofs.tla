---------------------------- MODULE BridgeProofs ----------------------------
(***************************************************************************)
(* Proofs about the bridge, for any holders, emitters and tokens, any      *)
(* number of transactions, workers that restart and runs of submit_query.  *)
(***************************************************************************)
EXTENDS BridgeWorker, SequenceTheorems, SumTheorems

-----------------------------------------------------------------------------
(* The contracts                                                           *)

\* A mint is a debt, and its query is processed.
MintsAreProcessed ==
    \A n \in DOMAIN tokensMinted :
        tokensMinted[n] \in Debts /\ tokensMinted[n].query \in processedQueries

\* No query has two mints.
MintsAreDistinct ==
    \A m, n \in DOMAIN tokensMinted : tokensMinted[m].query = tokensMinted[n].query => m = n

\* The inductive invariant of the minter.
MinterInvariant == MinterTypeOK /\ MintsAreProcessed /\ MintsAreDistinct

\* The payment for a mintable query is a well typed event.
LEMMA PaymentType ==
    ASSUME MinterTypeOK, NEW q \in 1 .. attested, Mintable(q)
    PROVE  Payment(q) \in TokensMinted /\ Payment(q).query = q
<1>1. q \in 1 .. Len(txs) /\ txs[q] \in Tx /\ q \in Nat
  BY DEF MinterTypeOK
<1>2. txs[q].logs \in Seq(BurnLog) /\ txs[q].logs # <<>> /\ txs[q].from \in Holders
  BY <1>1 DEF Tx, Mintable
<1>3. txs[q].logs[1] \in BurnLog
  BY <1>2
<1>4. txs[q].logs[1].emitter \in Emitters /\ txs[q].logs[1].amount \in Nat
  BY <1>3 DEF BurnLog
<1>5. wrappedTokens[txs[q].logs[1].emitter] \in Wrapped
  BY <1>4 DEF MinterTypeOK, Mintable
<1>6. QED
  BY <1>1, <1>2, <1>4, <1>5 DEF Payment, TokensMinted

\* What was mintable in an attested block stays so, and stays the same payment.
LEMMA DebtsStay ==
    ASSUME MinterTypeOK, [Next]_vars, NEW q \in 1 .. attested, Mintable(q)
    PROVE  Mintable(q)' /\ Payment(q)' = Payment(q) /\ q \in 1 .. attested'
<1>1. q \in 1 .. Len(txs) /\ txs \in Seq(Tx) /\ attested \in Nat
  BY DEF MinterTypeOK
<1>2. txs'[q] = txs[q] /\ q \in 1 .. attested'
  <2>1. CASE \E h \in Holders, logs \in Calls : Transact(h, logs)
    BY <1>1, <2>1 DEF Transact
  <2>2. CASE AttestBlock
    BY <1>1, <2>2 DEF AttestBlock
  <2>3. CASE UNCHANGED <<txs, attested>>
    BY <2>3
  <2>4. QED
    BY <2>1, <2>2, <2>3 DEF Next, vars, WrapOriginToken, Mint
<1>3. txs[q].logs[1].emitter \in Emitters
  <2>1. txs[q] \in Tx
    BY <1>1
  <2>2. txs[q].logs[1] \in BurnLog
    BY <2>1 DEF Tx, Mintable
  <2>3. QED
    BY <2>2 DEF BurnLog
<1>4. \A e \in Emitters : wrappedTokens[e] # None => wrappedTokens'[e] = wrappedTokens[e]
  <2>1. CASE \E origin \in Emitters, target \in Wrapped : WrapOriginToken(origin, target)
    BY <2>1 DEF WrapOriginToken, NotWrapped, MinterTypeOK
  <2>2. CASE UNCHANGED wrappedTokens
    BY <2>2
  <2>3. QED
    BY <2>1, <2>2 DEF Next, vars, Transact, AttestBlock, Mint, minterVars
<1>5. QED
  BY <1>2, <1>3, <1>4 DEF Mintable, Payment

\* No debt is withdrawn.
LEMMA DebtsGrow ==
    ASSUME MinterTypeOK, [Next]_vars
    PROVE  Debts \subseteq Debts'
<1> SUFFICES ASSUME NEW q \in 1 .. attested, Mintable(q)
             PROVE  Payment(q) \in Debts'
  BY DEF Debts
<1>1. Mintable(q)' /\ Payment(q)' = Payment(q) /\ q \in 1 .. attested'
  BY DebtsStay
<1>2. QED
  BY <1>1 DEF Debts

\* The invariant holds when the contracts are deployed.
LEMMA MinterInit == Init => MinterInvariant
<1> SUFFICES ASSUME Init
             PROVE  MinterInvariant
  OBVIOUS
<1>1. MinterTypeOK
  BY DEF Init, MinterTypeOK
<1>2. DOMAIN tokensMinted = {}
  BY DEF Init
<1>3. QED
  BY <1>1, <1>2 DEF MinterInvariant, MintsAreProcessed, MintsAreDistinct

\* Every step of the contracts keeps the invariant.
LEMMA MinterStep == MinterInvariant /\ [Next]_vars => MinterInvariant'
<1> SUFFICES ASSUME MinterInvariant, [Next]_vars
             PROVE  MinterInvariant'
  OBVIOUS
<1>1. MinterTypeOK /\ MintsAreProcessed /\ MintsAreDistinct
  BY DEF MinterInvariant
<1>2. Debts \subseteq Debts'
  BY <1>1, DebtsGrow
<1>3. ASSUME UNCHANGED <<processedQueries, tokensMinted>>, MinterTypeOK'
      PROVE  MinterInvariant'
  <2>1. MintsAreProcessed'
    BY <1>1, <1>2, <1>3 DEF MintsAreProcessed
  <2>2. MintsAreDistinct'
    BY <1>1, <1>3 DEF MintsAreDistinct
  <2>3. QED
    BY <1>3, <2>1, <2>2 DEF MinterInvariant
<1>4. ASSUME NEW h \in Holders, NEW logs \in Calls, Transact(h, logs)
      PROVE  UNCHANGED <<processedQueries, tokensMinted>> /\ MinterTypeOK'
  <2> DEFINE ok == Burns(logs) <= balances[h]
             tx == [from |-> h, ok |-> ok, logs |-> IF ok THEN logs ELSE <<>>]
  <2>1. txs' = Append(txs, tx) /\ UNCHANGED <<attested, minterVars>>
    BY <1>4 DEF Transact
  <2>2. tx \in Tx
    <3>1. ok \in BOOLEAN
      OBVIOUS
    <3>2. logs \in Seq(BurnLog)
      BY BurnMinterAssumption
    <3>3. QED
      BY <3>1, <3>2 DEF Tx
  <2> HIDE DEF tx
  <2>3. txs' \in Seq(Tx) /\ Len(txs') = Len(txs) + 1
    BY <1>1, <2>1, <2>2 DEF MinterTypeOK
  <2>4. QED
    BY <1>1, <2>1, <2>3 DEF MinterTypeOK, minterVars
<1>5. ASSUME AttestBlock
      PROVE  UNCHANGED <<processedQueries, tokensMinted>> /\ MinterTypeOK'
  BY <1>1, <1>5 DEF AttestBlock, MinterTypeOK, minterVars
<1>6. ASSUME NEW origin \in Emitters, NEW target \in Wrapped, WrapOriginToken(origin, target)
      PROVE  UNCHANGED <<processedQueries, tokensMinted>> /\ MinterTypeOK'
  BY <1>1, <1>6 DEF WrapOriginToken, MinterTypeOK
<1>7. ASSUME NEW q \in DOMAIN txs, Mint(q)
      PROVE  MinterInvariant'
  <2>1. /\ q \in 1 .. attested /\ q \notin processedQueries /\ Mintable(q)
        /\ processedQueries' = processedQueries \cup {q}
        /\ tokensMinted' = Append(tokensMinted, Payment(q))
        /\ UNCHANGED <<balances, txs, attested, wrappedTokens>>
    BY <1>1, <1>7 DEF Mint, CanMint, Provable, MinterTypeOK
  <2>2. Payment(q) \in TokensMinted /\ Payment(q).query = q
    BY <1>1, <2>1, PaymentType
  <2>3. /\ DOMAIN tokensMinted' = 1 .. Len(tokensMinted) + 1
        /\ Len(tokensMinted) \in Nat
        /\ DOMAIN tokensMinted = 1 .. Len(tokensMinted)
        /\ \A n \in 1 .. Len(tokensMinted) : tokensMinted'[n] = tokensMinted[n]
        /\ tokensMinted'[Len(tokensMinted) + 1] = Payment(q)
        /\ tokensMinted' \in Seq(TokensMinted)
    BY <1>1, <2>1, <2>2 DEF MinterTypeOK
  <2>4. MinterTypeOK'
    BY <1>1, <2>1, <2>3 DEF MinterTypeOK
  <2>5. Payment(q) \in Debts
    BY <2>1 DEF Debts
  <2>6. MintsAreProcessed'
    BY <1>1, <1>2, <2>1, <2>2, <2>3, <2>5 DEF MintsAreProcessed
  <2>7. MintsAreDistinct'
    <3>1. \A n \in 1 .. Len(tokensMinted) : tokensMinted[n].query # q
      BY <1>1, <2>1, <2>3 DEF MintsAreProcessed
    <3>2. SUFFICES ASSUME NEW m \in DOMAIN tokensMinted', NEW n \in DOMAIN tokensMinted',
                          tokensMinted'[m].query = tokensMinted'[n].query
                   PROVE  m = n
      BY DEF MintsAreDistinct
    <3>3. CASE m \in 1 .. Len(tokensMinted) /\ n \in 1 .. Len(tokensMinted)
      BY <1>1, <2>3, <3>2, <3>3 DEF MintsAreDistinct
    <3>4. CASE m = Len(tokensMinted) + 1 \/ n = Len(tokensMinted) + 1
      BY <2>2, <2>3, <3>1, <3>2, <3>4
    <3>5. QED
      BY <2>3, <3>3, <3>4
  <2>8. QED
    BY <2>4, <2>6, <2>7 DEF MinterInvariant
<1>8. ASSUME UNCHANGED vars
      PROVE  UNCHANGED <<processedQueries, tokensMinted>> /\ MinterTypeOK'
  BY <1>1, <1>8 DEF vars, minterVars, MinterTypeOK
<1>9. QED
  BY <1>3, <1>4, <1>5, <1>6, <1>7, <1>8 DEF Next

-----------------------------------------------------------------------------
(* The contracts under the worker and submit_query                         *)

\* The senders of proofs do to the contracts what anybody may do.
LEMMA SendersUseTheContracts == MinterTypeOK /\ [WorkerNext]_allVars => [Next]_vars
<1> SUFFICES ASSUME MinterTypeOK, [WorkerNext]_allVars
             PROVE  [Next]_vars
  OBVIOUS
<1>1. CASE WorkerStep \/ Restart \/ (\E q \in DOMAIN txs : StartQuery(q))
            \/ (\E i \in DOMAIN queries : QueryStep(i)) \/ UNCHANGED allVars
  BY <1>1 DEF WorkerStep, StartRound, ReadHead, Query, Throw, OnBurn, Prove, Submit,
              Restart, StartQuery, QueryStep, ProveQuery, SubmitQuery, QueryFails, allVars
<1>2. CASE MineProof
  <2>1. CASE UNCHANGED vars
    BY <2>1
  <2>2. CASE Mint(Head(ccTxs).tx)
    <3>1. Head(ccTxs).tx \in DOMAIN txs
      BY <2>2 DEF Mint, CanMint, Provable, MinterTypeOK
    <3>2. QED
      BY <2>2, <3>1 DEF Next
  <2>3. QED
    BY <1>2, <2>1, <2>2 DEF MineProof
<1>3. CASE Attest
  BY <1>3 DEF Attest, Next
<1>4. CASE Users /\ UNCHANGED <<workerVars, submitVars>>
  BY <1>4 DEF Users, Next
<1>5. QED
  BY <1>1, <1>2, <1>3, <1>4 DEF WorkerNext

\* No transaction is minted twice, whoever proves it, and every mint is that of an
\* attested burn whose emitter is wrapped: ASCMinter keeps what it promises under
\* any number of workers' restarts and runs of submit_query.
THEOREM MintsAreOfBurns == WorkerSpec => []MinterInvariant
<1>1. WorkerInit => MinterInvariant
  BY MinterInit DEF WorkerInit
<1>2. MinterInvariant /\ [WorkerNext]_allVars => MinterInvariant'
  BY MinterStep, SendersUseTheContracts DEF MinterInvariant
<1>3. QED
  BY <1>1, <1>2, PTL DEF WorkerSpec

\* The bridge implements the abstract payout ledger: every step adds to the debts,
\* or mints one debt that was not minted before.
THEOREM BridgeImplementsLedger == WorkerSpec => ImplementsPayoutLedger
<1>1. WorkerInit => Ledger!Init
  BY DEF WorkerInit, Init, Ledger!Init, Debts
<1>2. MinterInvariant /\ [WorkerNext]_allVars => [Ledger!Next]_(Ledger!vars)
  <2> SUFFICES ASSUME MinterInvariant, [Next]_vars
               PROVE  [Ledger!Next]_(Ledger!vars)
    BY SendersUseTheContracts DEF MinterInvariant
  <2>1. MinterTypeOK /\ MintsAreProcessed /\ Debts \subseteq Debts'
    BY DebtsGrow DEF MinterInvariant
  <2>2. CASE UNCHANGED tokensMinted
    BY <2>1, <2>2 DEF Ledger!Next, Ledger!Accrue
  <2>3. ASSUME NEW q \in DOMAIN txs, Mint(q)
        PROVE  Ledger!Settle
    <3> DEFINE payments == <<Payment(q)>>
    <3>1. /\ q \in 1 .. attested /\ q \notin processedQueries /\ Mintable(q)
          /\ tokensMinted' = tokensMinted \o payments
          /\ UNCHANGED <<txs, attested, wrappedTokens>>
      <4>1. q \in 1 .. attested /\ q \notin processedQueries /\ Mintable(q)
        BY <2>1, <2>3 DEF Mint, CanMint, Provable, MinterTypeOK
      <4>2. Payment(q) \in TokensMinted
        BY <2>1, <4>1, PaymentType
      <4>3. Append(tokensMinted, Payment(q)) = tokensMinted \o <<Payment(q)>>
        BY <2>1, <4>2, AppendIsConcat DEF MinterTypeOK
      <4>4. QED
        BY <2>3, <4>1, <4>3 DEF Mint
    <3>2. Payment(q) \in Debts /\ Payment(q).query = q
      BY <2>1, <3>1, PaymentType DEF Debts
    <3>3. \A n \in DOMAIN tokensMinted : tokensMinted[n].query # q
      BY <2>1, <3>1 DEF MintsAreProcessed
    <3>4. Payment(q) \notin Ledger!Range(tokensMinted)
      BY <3>2, <3>3 DEF Ledger!Range
    <3>5. payments \in [1 .. 1 -> Debts \ Ledger!Range(tokensMinted)]
      BY <3>2, <3>4
    <3>6. Ledger!IsInjective(payments)
      BY DEF Ledger!IsInjective
    <3>7. Debts' = Debts
      BY <3>1 DEF Debts, Mintable, Payment
    <3> HIDE DEF payments
    <3>8. \E p \in [1 .. 1 -> Debts \ Ledger!Range(tokensMinted)] :
             Ledger!IsInjective(p) /\ tokensMinted' = tokensMinted \o p
      BY <3>1, <3>5, <3>6
    <3>9. QED
      BY <3>7, <3>8 DEF Ledger!Settle
  <2>4. QED
    BY <2>2, <2>3 DEF Next, vars, minterVars, Transact, AttestBlock, WrapOriginToken,
                      Ledger!Next
<1>3. QED
  BY <1>1, <1>2, MintsAreOfBurns, PTL DEF WorkerSpec, ImplementsPayoutLedger, Ledger!Spec

-----------------------------------------------------------------------------
(* What is burnt and what is minted                                        *)

\* What each transaction of the source chain burns.
BurntIn(q) == Burns(txs[q].logs)

\* The holders' balances are what they started with less what the transactions burn.
BurnInv ==
    /\ balances \in [Holders -> 0 .. Supply]
    /\ SumFunctionOnSet(AmountsBurnt, Holders)
          = SumFunctionOnSet([q \in DOMAIN txs |-> BurntIn(q)], DOMAIN txs)

\* A transaction burns a number of tokens, and no burn of it more than all of them.
LEMMA BurnsType ==
    ASSUME NEW logs \in Seq(BurnLog)
    PROVE  /\ Burns(logs) \in Nat
           /\ \A i \in DOMAIN logs : logs[i].emitter = Token => logs[i].amount <= Burns(logs)
<1> DEFINE amounts == [i \in DOMAIN logs |-> IF logs[i].emitter = Token THEN logs[i].amount ELSE 0]
<1>1. IsFiniteSet(DOMAIN logs)
  <2>1. DOMAIN logs = 1 .. Len(logs) /\ Len(logs) \in Nat
    BY LenProperties
  <2>2. QED
    BY <2>1, FS_Interval
<1>2. ASSUME NEW i \in DOMAIN logs
      PROVE  amounts[i] \in Nat /\ (logs[i].emitter = Token => amounts[i] = logs[i].amount)
  <2>1. logs[i] \in BurnLog
    BY LenProperties, ElementOfSeq
  <2>2. logs[i].amount \in Nat
    BY <2>1 DEF BurnLog
  <2>3. QED
    BY <2>2
<1>3. Burns(logs) = SumFunctionOnSet(amounts, DOMAIN logs)
  BY DEF Burns
<1> HIDE DEF amounts
<1>4. QED
  BY <1>1, <1>2, <1>3, SumType, SumBounds

\* The transactions of the chain are transactions.
LEMMA TxType ==
    ASSUME MinterTypeOK, NEW q \in DOMAIN txs
    PROVE  txs[q] \in Tx /\ txs[q].logs \in Seq(BurnLog) /\ BurntIn(q) \in Nat
<1>1. txs \in Seq(Tx) /\ q \in 1 .. Len(txs)
  BY LenProperties DEF MinterTypeOK
<1>2. txs[q] \in Tx
  BY <1>1, ElementOfSeq
<1>3. txs[q].logs \in Seq(BurnLog)
  BY <1>2 DEF Tx
<1>4. QED
  BY <1>2, <1>3, BurnsType DEF BurntIn

\* A transaction burns what its logs say.
LEMMA TransactBurns ==
    ASSUME MinterTypeOK, BurnInv, NEW h \in Holders, NEW logs \in Calls, Transact(h, logs)
    PROVE  BurnInv'
<1> DEFINE n == Len(txs)
           ok == Burns(logs) <= balances[h]
           kept == IF ok THEN logs ELSE <<>>
           tx == [from |-> h, ok |-> ok, logs |-> kept]
           amount == Burns(kept)
           left == [x \in Holders |-> Supply - balances[x]]
           leftAfter == [x \in Holders |-> Supply - balances'[x]]
           burnt == [q \in DOMAIN txs |-> BurntIn(q)]
           burntAfter == [q \in DOMAIN txs' |-> BurntIn(q)']
<1>1. logs \in Seq(BurnLog) /\ kept \in Seq(BurnLog) /\ tx \in Tx
  <2>1. logs \in Seq(BurnLog)
    BY BurnMinterAssumption
  <2>2. kept \in Seq(BurnLog) /\ ok \in BOOLEAN
    BY <2>1
  <2> HIDE DEF kept, ok
  <2>3. tx \in Tx
    BY <2>2 DEF Tx
  <2>4. QED
    BY <2>1, <2>2, <2>3
<1>2. amount \in Nat /\ amount <= balances[h] /\ balances[h] \in 0 .. Supply /\ Supply \in Nat
  <2>1. balances[h] \in 0 .. Supply /\ Supply \in Nat
    BY BurnMinterAssumption DEF BurnInv
  <2>2. Burns(<<>>) = 0
    BY SumOfNone DEF Burns
  <2>3. Burns(logs) \in Nat
    BY <1>1, BurnsType
  <2>4. CASE ok
    BY <2>1, <2>3, <2>4
  <2>5. CASE ~ok
    BY <2>1, <2>2, <2>5
  <2>6. QED
    BY <2>4, <2>5
<1>3. ASSUME NEW x \in Holders
      PROVE  /\ balances[x] \in 0 .. Supply
             /\ balances'[x] = balances[x] - (IF x = h THEN amount ELSE 0)
  <2>1. balances \in [Holders -> 0 .. Supply]
    BY DEF BurnInv
  <2>2. CASE ok
    BY <1>2, <2>1, <2>2 DEF Transact
  <2>3. CASE ~ok
    <3>1. Burns(<<>>) = 0
      BY SumOfNone DEF Burns
    <3>2. balances' = balances
      BY <2>3 DEF Transact
    <3>3. QED
      BY <2>1, <2>3, <3>1, <3>2
  <2>4. QED
    BY <2>2, <2>3
<1>4. balances' \in [Holders -> 0 .. Supply]
  <2>1. balances' = [x \in Holders |-> balances'[x]]
    BY DEF Transact, BurnInv
  <2> HIDE DEF amount
  <2>2. \A x \in Holders : balances'[x] \in 0 .. Supply
    BY <1>2, <1>3
  <2>3. QED
    BY <2>1, <2>2
<1>5. txs' = Append(txs, tx)
  BY DEF Transact
<1>6. /\ txs \in Seq(Tx) /\ n \in Nat /\ DOMAIN txs = 1 .. n
      /\ DOMAIN txs' = 1 .. n + 1
      /\ \A q \in 1 .. n : txs'[q] = txs[q]
      /\ txs'[n + 1] = tx
  <2>1. txs \in Seq(Tx)
    BY DEF MinterTypeOK
  <2> HIDE DEF tx
  <2>2. QED
    BY <1>1, <1>5, <2>1
<1>7. ASSUME NEW q \in 1 .. n
      PROVE  burnt[q] \in Nat /\ burntAfter[q] = burnt[q]
  <2>1. BurntIn(q)' = BurntIn(q) /\ BurntIn(q) \in Nat
    BY <1>6, TxType DEF BurntIn
  <2>2. q \in DOMAIN txs /\ q \in DOMAIN txs'
    BY <1>6
  <2>3. QED
    BY <2>1, <2>2
<1>8. ASSUME NEW q, q = n + 1
      PROVE  burntAfter[q] = amount
  <2>1. q \in DOMAIN txs' /\ txs'[q] = tx
    BY <1>6, <1>8
  <2>2. BurntIn(q)' = Burns(kept)
    BY <2>1 DEF BurntIn
  <2>3. QED
    BY <2>1, <2>2
<1>9. Grows(left, leftAfter, Holders, h, amount)
  <2> HIDE DEF amount
  <2>1. \A x \in Holders : /\ left[x] = Supply - balances[x]
                           /\ leftAfter[x] = Supply - balances'[x]
    OBVIOUS
  <2> HIDE DEF left, leftAfter
  <2>2. QED
    BY <1>2, <1>3, <2>1 DEF Grows
<1>10. SumFunctionOnSet(left, Holders) = SumFunctionOnSet(burnt, 1 .. n)
  BY <1>6 DEF BurnInv, AmountsBurnt
<1>11. BurnInv' <=> /\ balances' \in [Holders -> 0 .. Supply]
                    /\ SumFunctionOnSet(leftAfter, Holders)
                          = SumFunctionOnSet(burntAfter, DOMAIN txs')
  BY DEF BurnInv, AmountsBurnt
<1> HIDE DEF left, leftAfter, burnt, burntAfter, amount, n
<1>12. SumFunctionOnSet(leftAfter, Holders) = SumFunctionOnSet(left, Holders) + amount
  BY <1>9, HoldersAssumption, SumGrows
<1>13. SumFunctionOnSet(burntAfter, 1 .. n + 1) = SumFunctionOnSet(burnt, 1 .. n) + amount
  <2>1. IsFiniteSet(1 .. n)
    BY <1>6, FS_Interval
  <2>2. n + 1 \notin 1 .. n /\ 1 .. n + 1 = (1 .. n) \cup {n + 1}
    BY <1>6
  <2>3. SumFunctionOnSet(burntAfter, 1 .. n) = SumFunctionOnSet(burnt, 1 .. n)
    BY <1>7, <2>1, SumSame
  <2>4. burntAfter[n + 1] = amount
    BY <1>8
  <2>5. \A q \in (1 .. n) \cup {n + 1} : burntAfter[q] \in Nat
    BY <1>2, <1>7, <2>4
  <2>6. SumFunctionOnSet(burntAfter, (1 .. n) \cup {n + 1})
           = SumFunctionOnSet(burntAfter, 1 .. n) + burntAfter[n + 1]
    BY <2>1, <2>2, <2>5, SumAdd
  <2>7. QED
    BY <2>2, <2>3, <2>4, <2>6
<1>14. QED
  BY <1>4, <1>6, <1>10, <1>11, <1>12, <1>13

\* Only transactions burn.
LEMMA StepKeepsBurns ==
    ASSUME MinterTypeOK, BurnInv, [Next]_vars
    PROVE  BurnInv'
<1>1. CASE \E h \in Holders, logs \in Calls : Transact(h, logs)
  BY <1>1, TransactBurns
<1>2. CASE UNCHANGED <<balances, txs>>
  BY <1>2 DEF BurnInv, AmountsBurnt, BurntIn
<1>3. QED
  BY <1>1, <1>2 DEF Next, vars, AttestBlock, WrapOriginToken, Mint

\* Nothing is burnt at first.
LEMMA InitBurns == Init => BurnInv
<1> SUFFICES ASSUME Init PROVE BurnInv
  OBVIOUS
<1>1. balances = [h \in Holders |-> Supply] /\ DOMAIN txs = {} /\ Supply \in Nat
  BY BurnMinterAssumption DEF Init
<1>2. balances \in [Holders -> 0 .. Supply]
  BY <1>1
<1>3. SumFunctionOnSet(AmountsBurnt, Holders) = 0
  <2>1. \A h \in Holders : AmountsBurnt[h] = 0
    BY <1>1 DEF AmountsBurnt
  <2>2. QED
    BY <2>1, HoldersAssumption, SumOfZeros
<1>4. QED
  BY <1>1, <1>2, <1>3, SumOfNone DEF BurnInv

\* A mint of a token that only the TestERC20 is mapped to is of a burn of the TestERC20,
\* and is part of what that burn's transaction burns.
LEMMA MintIsOfBurn ==
    ASSUME MinterInvariant, NEW w \in Wrapped, {e \in Emitters : wrappedTokens[e] = w} = {Token},
           NEW n \in MintsOf(w)
    PROVE  LET q == tokensMinted[n].query IN
           /\ q \in DOMAIN txs
           /\ tokensMinted[n].amount \in Nat
           /\ tokensMinted[n].amount <= BurntIn(q)
           /\ tokensMinted[n].amount = txs[q].logs[1].amount
<1>1. PICK q \in 1 .. attested : Mintable(q) /\ tokensMinted[n] = Payment(q)
  BY DEF MinterInvariant, MintsAreProcessed, MintsOf, Debts
<1>2. Payment(q) \in TokensMinted /\ Payment(q).query = q
  BY <1>1, PaymentType DEF MinterInvariant
<1>3. q \in DOMAIN txs
  BY LenProperties DEF MinterInvariant, MinterTypeOK
<1>4. txs[q].logs \in Seq(BurnLog) /\ txs[q].logs # <<>>
  BY <1>1, <1>3, TxType DEF MinterInvariant, Mintable
<1>5. 1 \in DOMAIN txs[q].logs /\ txs[q].logs[1] \in BurnLog
  BY <1>4
<1>6. wrappedTokens[txs[q].logs[1].emitter] = w /\ txs[q].logs[1].emitter \in Emitters
  BY <1>1, <1>5 DEF MintsOf, Payment, BurnLog
<1>7. txs[q].logs[1].emitter = Token
  BY <1>6
<1>8. tokensMinted[n].amount = txs[q].logs[1].amount
  BY <1>1 DEF Payment
<1>9. txs[q].logs[1].amount <= BurntIn(q)
  BY <1>4, <1>5, <1>7, BurnsType DEF BurntIn
<1>10. txs[q].logs[1].amount \in Nat
  BY <1>5 DEF BurnLog
<1>11. QED
  BY <1>1, <1>2, <1>3, <1>8, <1>9, <1>10

\* What was minted of a token is part of what the transactions burnt: each mint is of another
\* transaction.
LEMMA MintedIsBurnt == MinterInvariant /\ BurnInv => MintsAreBacked
<1> SUFFICES ASSUME MinterInvariant, BurnInv, NEW w \in Wrapped,
                    {e \in Emitters : wrappedTokens[e] = w} = {Token}
             PROVE  SumFunctionOnSet(AmountsMinted, MintsOf(w)) <= SumFunctionOnSet(AmountsBurnt, Holders)
  BY DEF MintsAreBacked
<1> DEFINE S == MintsOf(w)
           query == [n \in S |-> tokensMinted[n].query]
           proved == {query[n] : n \in S}
           first == [q \in DOMAIN txs |-> txs[q].logs[1].amount]
           burnt == [q \in DOMAIN txs |-> BurntIn(q)]
<1>1. IsFiniteSet(S)
  <2>1. DOMAIN tokensMinted = 1 .. Len(tokensMinted) /\ Len(tokensMinted) \in Nat
    BY LenProperties DEF MinterInvariant, MinterTypeOK
  <2>2. IsFiniteSet(1 .. Len(tokensMinted))
    BY <2>1, FS_Interval
  <2>3. S \subseteq DOMAIN tokensMinted
    BY DEF MintsOf
  <2>4. QED
    BY <2>1, <2>2, <2>3, FS_Subset
<1>2. IsFiniteSet(DOMAIN txs)
  <2>1. DOMAIN txs = 1 .. Len(txs) /\ Len(txs) \in Nat
    BY LenProperties DEF MinterInvariant, MinterTypeOK
  <2>2. QED
    BY <2>1, FS_Interval
<1>3. \A m, n \in S : query[m] = query[n] => m = n
  BY DEF MinterInvariant, MintsAreDistinct, MintsOf
<1>4. ASSUME NEW n \in S
      PROVE  /\ query[n] \in DOMAIN txs
             /\ AmountsMinted[n] \in Nat
             /\ first[query[n]] = AmountsMinted[n]
             /\ first[query[n]] <= burnt[query[n]]
  <2>1. n \in DOMAIN tokensMinted /\ AmountsMinted[n] = tokensMinted[n].amount
    BY DEF MintsOf, AmountsMinted
  <2>2. /\ query[n] \in DOMAIN txs
        /\ tokensMinted[n].amount \in Nat
        /\ tokensMinted[n].amount <= BurntIn(query[n])
        /\ tokensMinted[n].amount = txs[query[n]].logs[1].amount
    BY MintIsOfBurn
  <2>3. QED
    BY <2>1, <2>2
<1>5. \A q \in DOMAIN txs : burnt[q] \in Nat
  BY TxType DEF MinterInvariant
<1>6. proved \in SUBSET DOMAIN txs
  BY <1>4
<1>7. \A q \in proved : first[q] \in Nat /\ burnt[q] \in Nat /\ first[q] <= burnt[q]
  BY <1>4, <1>5
<1>8. SumFunctionOnSet(AmountsBurnt, Holders) = SumFunctionOnSet(burnt, DOMAIN txs)
  BY DEF BurnInv
<1>14. \A n \in S : AmountsMinted[n] \in Nat /\ first[query[n]] = AmountsMinted[n]
  BY <1>4
<1> HIDE DEF S, query, first, burnt
<1>9. /\ IsFiniteSet(proved)
      /\ SumFunctionOnSet(first, proved) = SumFunctionOnSet(AmountsMinted, S)
  BY <1>1, <1>3, <1>14, SumReindexed
<1> HIDE DEF proved
<1>10. /\ SumFunctionOnSet(first, proved) <= SumFunctionOnSet(burnt, proved)
       /\ SumFunctionOnSet(first, proved) \in Nat /\ SumFunctionOnSet(burnt, proved) \in Nat
  BY <1>7, <1>9, SumLess
<1>11. /\ SumFunctionOnSet(burnt, proved) <= SumFunctionOnSet(burnt, DOMAIN txs)
       /\ SumFunctionOnSet(burnt, DOMAIN txs) \in Nat
  BY <1>2, <1>5, <1>6, SumOfPart
<1>12. SumFunctionOnSet(AmountsMinted, S) <= SumFunctionOnSet(AmountsBurnt, Holders)
  BY <1>8, <1>9, <1>10, <1>11
<1>13. QED
  BY <1>12 DEF S

\* The bridge creates nothing: of a token that stands for the TestERC20 alone no more exists
\* than was burnt, whoever proves the burns, how often, and whatever other contracts emit.
THEOREM MintsStayBacked == WorkerSpec => []MintsAreBacked
<1>1. WorkerInit => BurnInv
  BY InitBurns DEF WorkerInit
<1>2. MinterInvariant /\ BurnInv /\ [WorkerNext]_allVars => BurnInv'
  BY StepKeepsBurns, SendersUseTheContracts DEF MinterInvariant
<1>3. QED
  BY <1>1, <1>2, MintedIsBurnt, MintsAreOfBurns, PTL DEF WorkerSpec

-----------------------------------------------------------------------------
(* The worker                                                              *)

\* A poll that is going through a chunk, and one that has events of it left.
Reading(p) == p.at \in {"chunk", "event", "proof", "submit"}
Handling(p) == p.at \in {"event", "proof", "submit"}

\* The state of a poll: it reads up to the head, and what it has to do is of its chunk.
PollIsRight(p) ==
    /\ p \in Polls(Nat)
    /\ Reading(p) \/ p.at \in {"head", "done"}
    /\ Reading(p) => p.start <= p.head
    /\ Handling(p) => p.todo # <<>> /\ p.todo \in Seq(p.start .. ChunkEnd(p))

\* What has been sent is behind the poll, or in the cache and up to the head.
SentIsBehind(p, cache, sent) ==
    \A i \in DOMAIN sent :
        \/ sent[i] < p.start
        \/ Reading(p) /\ sent[i] \in cache /\ sent[i] <= p.head

\* A transaction in hand is in the cache and was not sent.
InHandIsNew(p, cache, sent) ==
    p.at \in {"proof", "submit"} =>
        /\ Head(p.todo) \in cache
        /\ \A i \in DOMAIN sent : sent[i] # Head(p.todo)

\* The invariant of the worker: the cache is cleared only when all that was sent is behind.
SendingIsRight(p, cache, sent) ==
    /\ PollIsRight(p)
    /\ sent \in Seq(Nat)
    /\ SentIsBehind(p, cache, sent)
    /\ InHandIsNew(p, cache, sent)
    /\ IsInjective(sent)

WorkerInv == SendingIsRight(poll, processedBurnTxs, submitted)

\* A chunk is between the start and the head.
LEMMA ChunkEndBounds ==
    ASSUME NEW p, PollIsRight(p), Reading(p)
    PROVE  /\ p.start \in Nat /\ p.head \in Nat
           /\ ChunkEnd(p) \in Nat
           /\ p.start <= ChunkEnd(p) /\ ChunkEnd(p) <= p.head
<1>1. p.start \in Nat /\ p.head \in Nat /\ p.chunk \in Nat /\ p.chunk >= 1 /\ p.start <= p.head
  BY MaxLogBlockRangeAssumption DEF PollIsRight, Polls
<1>2. QED
  BY <1>1 DEF ChunkEnd

\* Going on to the next chunk, or returning, leaves what was sent behind.
LEMMA OnwardIsRight ==
    ASSUME NEW p, NEW cache, NEW sent, PollIsRight(p), Reading(p), SentIsBehind(p, cache, sent),
           sent \in Seq(Nat)
    PROVE  /\ PollIsRight(Onward(p))
           /\ SentIsBehind(Onward(p), cache, sent)
           /\ InHandIsNew(Onward(p), cache, sent)
<1> DEFINE next == ChunkEnd(p) + 1
<1>1. /\ p.start \in Nat /\ p.head \in Nat /\ next \in Nat
      /\ p.start < next
      /\ \A i \in DOMAIN sent : sent[i] \in Nat
  BY ChunkEndBounds, LenProperties, ElementOfSeq
<1> HIDE DEF next
<1>2. CASE next > p.head
  <2>1. Onward(p) = [at |-> "done", start |-> next, head |-> 0, chunk |-> MaxLogBlockRange,
                     todo |-> <<>>]
    BY <1>2 DEF Onward, PollFrom, next
  <2>2. PollIsRight(Onward(p))
    BY <1>1, <2>1, MaxLogBlockRangeAssumption DEF PollIsRight, Polls, Waits, Reading, Handling
  <2>3. SentIsBehind(Onward(p), cache, sent)
    BY <1>1, <1>2, <2>1 DEF SentIsBehind
  <2>4. QED
    BY <2>1, <2>2, <2>3 DEF InHandIsNew
<1>3. CASE ~(next > p.head)
  <2>1. Onward(p) = [at |-> "chunk", start |-> next, head |-> p.head, chunk |-> MaxLogBlockRange,
                     todo |-> <<>>]
    BY <1>3 DEF Onward, PollFrom, next
  <2>2. PollIsRight(Onward(p))
    BY <1>1, <1>3, <2>1, MaxLogBlockRangeAssumption DEF PollIsRight, Polls, Waits, Reading, Handling
  <2>3. SentIsBehind(Onward(p), cache, sent)
    BY <1>1, <2>1 DEF SentIsBehind, Reading
  <2>4. QED
    BY <2>1, <2>2, <2>3 DEF InHandIsNew
<1>4. QED
  BY <1>2, <1>3

\* So does going on to the next event.
LEMMA ReturnedIsRight ==
    ASSUME NEW p, NEW cache, NEW sent, PollIsRight(p), Handling(p), SentIsBehind(p, cache, sent),
           sent \in Seq(Nat)
    PROVE  /\ PollIsRight(Returned(p))
           /\ SentIsBehind(Returned(p), cache, sent)
           /\ InHandIsNew(Returned(p), cache, sent)
<1>1. Reading(p)
  BY DEF Handling, Reading
<1>2. CASE Len(p.todo) = 1
  BY <1>1, <1>2, OnwardIsRight DEF Returned
<1>3. CASE Len(p.todo) # 1
  <2> DEFINE r == [p EXCEPT !.at = "event", !.todo = Tail(@)]
  <2>1. Returned(p) = r
    BY <1>3 DEF Returned
  <2>2. p \in Polls(Nat) /\ p.todo \in Seq(p.start .. ChunkEnd(p)) /\ p.todo # <<>>
    BY DEF PollIsRight
  <2>3. Tail(p.todo) \in Seq(p.start .. ChunkEnd(p)) /\ Tail(p.todo) # <<>>
    <3>1. Len(Tail(p.todo)) = Len(p.todo) - 1 /\ Len(p.todo) \in Nat /\ Len(p.todo) # 0
      BY <2>2, EmptySeq, HeadTailProperties, LenProperties
    <3>2. Tail(p.todo) \in Seq(p.start .. ChunkEnd(p))
      BY <2>2, HeadTailProperties
    <3> DEFINE t == Tail(p.todo)
    <3>3. Len(t) # 0
      BY <1>3, <3>1
    <3> HIDE DEF t
    <3>4. t # <<>>
      BY <3>3
    <3>5. QED
      BY <3>2, <3>4 DEF t
  <2>4. Tail(p.todo) \in Seq(Nat)
    BY <2>2, HeadTailProperties DEF Polls
  <2>5. r \in Polls(Nat) /\ r.at = "event" /\ r.start = p.start /\ r.head = p.head
           /\ r.chunk = p.chunk /\ r.todo = Tail(p.todo)
    BY <2>2, <2>4 DEF Polls, Waits
  <2> HIDE DEF r
  <2>6. ChunkEnd(r) = ChunkEnd(p)
    BY <2>5 DEF ChunkEnd
  <2>7. PollIsRight(r)
    BY <1>1, <2>3, <2>5, <2>6 DEF PollIsRight, Reading, Handling
  <2>8. SentIsBehind(r, cache, sent)
    BY <1>1, <2>5 DEF SentIsBehind, Reading
  <2>9. QED
    BY <2>1, <2>5, <2>7, <2>8 DEF InHandIsNew
<1>4. QED
  BY <1>2, <1>3

\* A poll that waits for something else is about the same chunk.
LEMMA WaitingIsRight ==
    ASSUME NEW p, NEW cache, NEW sent, PollIsRight(p), Handling(p), SentIsBehind(p, cache, sent),
           NEW what \in {"proof", "submit"}
    PROVE  /\ PollIsRight(Waiting(p, what))
           /\ SentIsBehind(Waiting(p, what), cache, sent)
           /\ Waiting(p, what).todo = p.todo
<1> DEFINE w == Waiting(p, what)
<1>1. w \in Polls(Nat) /\ w.at = what /\ w.start = p.start /\ w.head = p.head
         /\ w.chunk = p.chunk /\ w.todo = p.todo
  BY DEF PollIsRight, Waiting, Polls, Waits
<1> HIDE DEF w
<1>2. ChunkEnd(w) = ChunkEnd(p)
  BY <1>1 DEF ChunkEnd
<1>3. PollIsRight(w) /\ SentIsBehind(w, cache, sent)
  BY <1>1, <1>2 DEF PollIsRight, SentIsBehind, Reading, Handling
<1>4. QED
  BY <1>1, <1>3 DEF w

\* The events of a chunk are transactions of it.
LEMMA EventsType ==
    ASSUME MinterTypeOK, NEW first \in Nat, NEW last \in Nat, first <= last
    PROVE  EventsBetween(first, last) \in Seq(first .. last)
<1> DEFINE n == last - first + 1
           events(q) == IF q \notin DOMAIN txs THEN <<>>
                        ELSE [j \in 1 .. Cardinality({k \in DOMAIN txs[q].logs :
                                                        txs[q].logs[k].emitter = Token}) |-> q]
           seqs == [i \in 1 .. n |-> events(first + i - 1)]
<1>1. n \in Nat
  OBVIOUS
<1>2. ASSUME NEW q \in first .. last
      PROVE  events(q) \in Seq(first .. last)
  <2>1. CASE q \notin DOMAIN txs
    BY <2>1
  <2>2. CASE q \in DOMAIN txs
    <3> DEFINE S == {k \in DOMAIN txs[q].logs : txs[q].logs[k].emitter = Token}
               c == Cardinality(S)
    <3>1. txs[q].logs \in Seq(BurnLog)
      BY <2>2, TxType
    <3>2. IsFiniteSet(DOMAIN txs[q].logs)
      BY <3>1, LenProperties, FS_Interval
    <3>3. c \in Nat
      BY <3>2, FS_Subset, FS_CardinalityType
    <3>4. events(q) = [j \in 1 .. c |-> q]
      BY <2>2
    <3> HIDE DEF c, events
    <3>5. QED
      BY <3>3, <3>4, SeqDef
  <2>3. QED
    BY <2>1, <2>2
<1>3. seqs \in [1 .. n -> Seq(first .. last)]
  <2>1. \A i \in 1 .. n : first + i - 1 \in first .. last
    OBVIOUS
  <2> HIDE DEF events, n
  <2>2. QED
    BY <1>2, <2>1
<1>4. EventsBetween(first, last) = FlattenSeq(seqs)
  BY DEF EventsBetween
<1> HIDE DEF seqs, n
<1>5. QED
  BY <1>1, <1>3, <1>4, FlattenType

\* A round starts, and may clear the cache, when everything sent is behind.
LEMMA StartRoundIsRight ==
    ASSUME WorkerInv, StartRound
    PROVE  WorkerInv'
<1>1. /\ poll' = PollFrom(poll.start)
      /\ submitted' = submitted
      /\ poll.at = "done"
  BY DEF StartRound
<1>2. /\ PollIsRight(poll)
      /\ submitted \in Seq(Nat)
      /\ SentIsBehind(poll, processedBurnTxs, submitted)
      /\ IsInjective(submitted)
  BY DEF WorkerInv, SendingIsRight
<1>3. poll.start \in Nat
  BY <1>2 DEF PollIsRight, Polls
<1>4. PollIsRight(poll')
  BY <1>1, <1>3, MaxLogBlockRangeAssumption
     DEF PollIsRight, PollFrom, Polls, Waits, Reading, Handling
<1>5. SentIsBehind(poll', processedBurnTxs', submitted')
  BY <1>1, <1>2 DEF SentIsBehind, PollFrom, Reading
<1>6. InHandIsNew(poll', processedBurnTxs', submitted')
  BY <1>1 DEF InHandIsNew, PollFrom
<1>7. QED
  BY <1>1, <1>2, <1>4, <1>5, <1>6 DEF WorkerInv, SendingIsRight

\* A restart forgets what was sent with the cache.
LEMMA RestartIsRight ==
    ASSUME MinterTypeOK, Restart
    PROVE  WorkerInv'
<1>1. poll' = PollFrom(Len(txs)) /\ submitted' = <<>> /\ Len(txs) \in Nat
  BY LenProperties DEF Restart, MinterTypeOK
<1>2. PollIsRight(poll')
  BY <1>1, MaxLogBlockRangeAssumption
     DEF PollIsRight, PollFrom, Polls, Waits, Reading, Handling
<1>3. SentIsBehind(poll', processedBurnTxs', submitted') /\ IsInjective(submitted')
  BY <1>1 DEF SentIsBehind, IsInjective
<1>4. InHandIsNew(poll', processedBurnTxs', submitted')
  BY <1>1 DEF InHandIsNew, PollFrom
<1>5. QED
  BY <1>1, <1>2, <1>3, <1>4 DEF WorkerInv, SendingIsRight

\* The head is read when everything sent is behind.
LEMMA ReadHeadIsRight ==
    ASSUME MinterTypeOK, WorkerInv, ReadHead
    PROVE  WorkerInv'
<1>1. /\ poll.at = "head"
      /\ poll' \in {HeadRead(poll, Len(txs)), HeadFailed(poll)}
      /\ submitted' = submitted /\ processedBurnTxs' = processedBurnTxs
      /\ Len(txs) \in Nat
  BY LenProperties DEF ReadHead, MinterTypeOK
<1>2. /\ poll \in Polls(Nat)
      /\ submitted \in Seq(Nat)
      /\ SentIsBehind(poll, processedBurnTxs, submitted)
      /\ IsInjective(submitted)
  BY DEF WorkerInv, SendingIsRight, PollIsRight
<1>3. CASE poll' = [poll EXCEPT !.at = "done"]
  <2>1. poll' \in Polls(Nat) /\ poll'.at = "done" /\ poll'.start = poll.start
    BY <1>2, <1>3 DEF Polls, Waits
  <2>2. PollIsRight(poll') /\ InHandIsNew(poll', processedBurnTxs', submitted')
    BY <2>1 DEF PollIsRight, InHandIsNew, Reading, Handling
  <2>3. SentIsBehind(poll', processedBurnTxs', submitted')
    BY <1>1, <1>2, <2>1 DEF SentIsBehind, Reading
  <2>4. QED
    BY <1>1, <1>2, <2>2, <2>3 DEF WorkerInv, SendingIsRight
<1>4. CASE /\ poll' = [poll EXCEPT !.at = "chunk", !.head = Len(txs)]
           /\ ~(Len(txs) < poll.start)
  <2>1. /\ poll' \in Polls(Nat) /\ poll'.at = "chunk" /\ poll'.start = poll.start
        /\ poll'.head = Len(txs)
    BY <1>1, <1>2, <1>4 DEF Polls, Waits
  <2>2. poll.start \in Nat
    BY <1>2 DEF Polls
  <2>3. PollIsRight(poll') /\ InHandIsNew(poll', processedBurnTxs', submitted')
    BY <1>1, <1>4, <2>1, <2>2 DEF PollIsRight, InHandIsNew, Reading, Handling
  <2>4. SentIsBehind(poll', processedBurnTxs', submitted')
    BY <1>1, <1>2, <2>1 DEF SentIsBehind, Reading
  <2>5. QED
    BY <1>1, <1>2, <2>3, <2>4 DEF WorkerInv, SendingIsRight
<1>5. QED
  BY <1>1, <1>3, <1>4 DEF HeadRead, HeadFailed

\* The events of a query are of the chunk it is for.
LEMMA QueryIsRight ==
    ASSUME MinterTypeOK, WorkerInv, Query
    PROVE  WorkerInv'
<1> DEFINE events == EventsBetween(poll.start, ChunkEnd(poll))
<1>1. /\ poll.at = "chunk"
      /\ poll' = Queried(poll, events)
      /\ submitted' = submitted /\ processedBurnTxs' = processedBurnTxs
  BY DEF Query
<1>2. /\ PollIsRight(poll) /\ Reading(poll)
      /\ submitted \in Seq(Nat)
      /\ SentIsBehind(poll, processedBurnTxs, submitted)
      /\ IsInjective(submitted)
  BY <1>1 DEF WorkerInv, SendingIsRight, Reading
<1>3. CASE events = <<>>
  <2>1. poll' = Onward(poll)
    BY <1>1, <1>3 DEF Queried
  <2>2. /\ PollIsRight(poll')
        /\ SentIsBehind(poll', processedBurnTxs', submitted')
        /\ InHandIsNew(poll', processedBurnTxs', submitted')
    BY <1>1, <1>2, <2>1, OnwardIsRight
  <2>3. QED
    BY <1>1, <1>2, <2>2 DEF WorkerInv, SendingIsRight
<1>4. CASE events # <<>>
  <2>1. events \in Seq(poll.start .. ChunkEnd(poll))
    BY <1>2, ChunkEndBounds, EventsType
  <2>2. events \in Seq(Nat)
    <3>1. poll.start \in Nat /\ ChunkEnd(poll) \in Nat
      BY <1>2, ChunkEndBounds
    <3>2. poll.start .. ChunkEnd(poll) \subseteq Nat
      BY <3>1
    <3> HIDE DEF events
    <3>3. QED
      BY <2>1, <3>2, SeqWider
  <2> HIDE DEF events
  <2>3. poll' = [poll EXCEPT !.at = "event", !.todo = events]
    BY <1>1, <1>4 DEF Queried
  <2>4. /\ poll' \in Polls(Nat) /\ poll'.at = "event" /\ poll'.start = poll.start
        /\ poll'.head = poll.head /\ poll'.chunk = poll.chunk /\ poll'.todo = events
    BY <1>2, <2>2, <2>3 DEF PollIsRight, Polls, Waits
  <2>5. ChunkEnd(poll') = ChunkEnd(poll)
    BY <2>4 DEF ChunkEnd
  <2>6. PollIsRight(poll')
    BY <1>2, <1>4, <2>1, <2>4, <2>5 DEF PollIsRight, Reading, Handling
  <2>7. SentIsBehind(poll', processedBurnTxs', submitted')
    BY <1>1, <1>2, <2>4 DEF SentIsBehind, Reading
  <2>8. InHandIsNew(poll', processedBurnTxs', submitted')
    BY <2>4 DEF InHandIsNew
  <2>9. QED
    BY <1>1, <1>2, <2>6, <2>7, <2>8 DEF WorkerInv, SendingIsRight
<1>5. QED
  BY <1>3, <1>4

\* A chunk that failed starts where it started, and the cache is kept.
LEMMA ThrowIsRight ==
    ASSUME WorkerInv, Throw
    PROVE  WorkerInv'
<1>1. /\ poll.at \in {"chunk", "proof"}
      /\ poll' = ChunkFailed(poll)
      /\ submitted' = submitted /\ processedBurnTxs' = processedBurnTxs
  BY DEF Throw
<1>2. /\ PollIsRight(poll) /\ Reading(poll)
      /\ submitted \in Seq(Nat)
      /\ SentIsBehind(poll, processedBurnTxs, submitted)
      /\ IsInjective(submitted)
  BY <1>1 DEF WorkerInv, SendingIsRight, Reading
<1>3. CASE ~(poll.chunk > 1)
  <2>1. poll' = Onward(poll)
    BY <1>1, <1>3 DEF ChunkFailed
  <2>2. /\ PollIsRight(poll')
        /\ SentIsBehind(poll', processedBurnTxs', submitted')
        /\ InHandIsNew(poll', processedBurnTxs', submitted')
    BY <1>1, <1>2, <2>1, OnwardIsRight
  <2>3. QED
    BY <1>1, <1>2, <2>2 DEF WorkerInv, SendingIsRight
<1>4. CASE poll.chunk > 1
  <2>1. poll' = [poll EXCEPT !.at = "chunk", !.chunk = poll.chunk \div 2, !.todo = <<>>]
    <3>1. poll \in Polls(Nat)
      BY <1>2 DEF PollIsRight
    <3>2. QED
      BY <1>1, <1>4, <3>1 DEF ChunkFailed, Polls
  <2>2. poll.chunk \div 2 \in 1 .. MaxLogBlockRange
    <3>1. poll.chunk \in 1 .. MaxLogBlockRange
      BY <1>2 DEF PollIsRight, Polls
    <3>2. QED
      BY <1>4, <3>1, MaxLogBlockRangeAssumption
  <2> DEFINE c == poll.chunk \div 2
  <2>3. /\ poll' \in Polls(Nat) /\ poll'.at = "chunk" /\ poll'.start = poll.start
        /\ poll'.head = poll.head
    <3>1. c \in 1 .. MaxLogBlockRange /\ poll' = [poll EXCEPT !.at = "chunk", !.chunk = c, !.todo = <<>>]
      BY <2>1, <2>2
    <3> HIDE DEF c
    <3>2. poll \in Polls(Nat)
      BY <1>2 DEF PollIsRight
    <3> DEFINE none == <<>>
    <3>3. none \in Seq(Nat) /\ poll' = [poll EXCEPT !.at = "chunk", !.chunk = c, !.todo = none]
      BY <3>1
    <3> HIDE DEF none
    <3>4. QED
      BY <3>1, <3>2, <3>3 DEF Polls, Waits
  <2>4. PollIsRight(poll') /\ InHandIsNew(poll', processedBurnTxs', submitted')
    BY <1>2, <2>3 DEF PollIsRight, InHandIsNew, Reading, Handling
  <2>5. SentIsBehind(poll', processedBurnTxs', submitted')
    BY <1>1, <1>2, <2>3 DEF SentIsBehind, Reading
  <2>6. QED
    BY <1>1, <1>2, <2>4, <2>5 DEF WorkerInv, SendingIsRight
<1>5. QED
  BY <1>3, <1>4

\* The first event of a poll is in its chunk.
LEMMA HeadInChunk ==
    ASSUME NEW p, PollIsRight(p), Handling(p)
    PROVE  /\ Head(p.todo) \in Nat
           /\ p.start <= Head(p.todo) /\ Head(p.todo) <= p.head
<1>1. p.todo \in Seq(p.start .. ChunkEnd(p)) /\ p.todo # <<>>
  BY DEF PollIsRight
<1>2. Head(p.todo) \in p.start .. ChunkEnd(p)
  BY <1>1, HeadTailProperties
<1>3. p.start \in Nat /\ p.head \in Nat /\ ChunkEnd(p) \in Nat /\ ChunkEnd(p) <= p.head
  BY ChunkEndBounds DEF Handling, Reading
<1>4. QED
  BY <1>2, <1>3

\* What the cache does not hold, and is not behind, was not sent.
LEMMA OnBurnIsRight ==
    ASSUME WorkerInv, OnBurn
    PROVE  WorkerInv'
<1> DEFINE q == Head(poll.todo)
<1>1. /\ poll.at = "event"
      /\ submitted' = submitted
      /\ IF q \in processedBurnTxs \/ txs[q].from # wallet
         THEN poll' = Returned(poll) /\ processedBurnTxs' = processedBurnTxs
         ELSE poll' = Waiting(poll, "proof") /\ processedBurnTxs' = processedBurnTxs \cup {q}
  BY DEF OnBurn, Remember
<1>2. /\ PollIsRight(poll) /\ Handling(poll) /\ Reading(poll)
      /\ submitted \in Seq(Nat)
      /\ SentIsBehind(poll, processedBurnTxs, submitted)
      /\ IsInjective(submitted)
  BY <1>1 DEF WorkerInv, SendingIsRight, Reading, Handling
<1> HIDE DEF q
<1>3. CASE q \in processedBurnTxs \/ txs[q].from # wallet
  <2>1. poll' = Returned(poll) /\ processedBurnTxs' = processedBurnTxs
    BY <1>1, <1>3
  <2>2. /\ PollIsRight(poll')
        /\ SentIsBehind(poll', processedBurnTxs', submitted')
        /\ InHandIsNew(poll', processedBurnTxs', submitted')
    BY <1>1, <1>2, <2>1, ReturnedIsRight
  <2>3. QED
    BY <1>1, <1>2, <2>2 DEF WorkerInv, SendingIsRight
<1>4. CASE q \notin processedBurnTxs /\ txs[q].from = wallet
  <2>1. poll' = Waiting(poll, "proof") /\ processedBurnTxs' = processedBurnTxs \cup {q}
    BY <1>1, <1>4
  <2>2. SentIsBehind(poll, processedBurnTxs', submitted)
    BY <1>2, <2>1 DEF SentIsBehind
  <2>3. /\ PollIsRight(poll')
        /\ SentIsBehind(poll', processedBurnTxs', submitted')
        /\ poll'.todo = poll.todo
    BY <1>1, <1>2, <2>1, <2>2, WaitingIsRight
  <2>4. \A i \in DOMAIN submitted : submitted[i] # q
    <3>1. q \in Nat /\ poll.start <= q /\ poll.start \in Nat
      BY <1>2, HeadInChunk, ChunkEndBounds DEF q
    <3>2. ASSUME NEW i \in DOMAIN submitted, submitted[i] = q PROVE FALSE
      BY <1>2, <1>4, <3>1, <3>2 DEF SentIsBehind
    <3>3. QED
      BY <3>2
  <2>5. InHandIsNew(poll', processedBurnTxs', submitted')
    BY <1>1, <2>1, <2>3, <2>4 DEF InHandIsNew, q
  <2>6. QED
    BY <1>1, <1>2, <2>3, <2>5 DEF WorkerInv, SendingIsRight
<1>5. QED
  BY <1>3, <1>4

\* A proof is of the transaction in hand.
LEMMA ProveIsRight ==
    ASSUME WorkerInv, Prove
    PROVE  WorkerInv'
<1>1. /\ poll.at = "proof"
      /\ poll' = Waiting(poll, "submit") \/ poll' = Returned(poll)
      /\ submitted' = submitted /\ processedBurnTxs' = processedBurnTxs
  BY DEF Prove
<1>2. /\ PollIsRight(poll) /\ Handling(poll)
      /\ submitted \in Seq(Nat)
      /\ SentIsBehind(poll, processedBurnTxs, submitted)
      /\ InHandIsNew(poll, processedBurnTxs, submitted)
      /\ IsInjective(submitted)
  BY <1>1 DEF WorkerInv, SendingIsRight, Handling
<1>3. CASE poll' = Returned(poll)
  <2>1. /\ PollIsRight(poll')
        /\ SentIsBehind(poll', processedBurnTxs', submitted')
        /\ InHandIsNew(poll', processedBurnTxs', submitted')
    BY <1>1, <1>2, <1>3, ReturnedIsRight
  <2>2. QED
    BY <1>1, <1>2, <2>1 DEF WorkerInv, SendingIsRight
<1>4. CASE poll' = Waiting(poll, "submit")
  <2>1. /\ PollIsRight(poll')
        /\ SentIsBehind(poll', processedBurnTxs', submitted')
        /\ poll'.todo = poll.todo
    BY <1>1, <1>2, <1>4, WaitingIsRight
  <2>2. InHandIsNew(poll', processedBurnTxs', submitted')
    BY <1>1, <1>2, <2>1 DEF InHandIsNew
  <2>3. QED
    BY <1>1, <1>2, <2>1, <2>2 DEF WorkerInv, SendingIsRight
<1>5. QED
  BY <1>1, <1>3, <1>4

\* The transaction that is sent was not sent, and is in the cache.
LEMMA SubmitIsRight ==
    ASSUME WorkerInv, Submit
    PROVE  WorkerInv'
<1> DEFINE q == Head(poll.todo)
<1>1. /\ poll.at = "submit"
      /\ poll' = Returned(poll)
      /\ submitted' = Append(submitted, q) \/ submitted' = submitted
      /\ processedBurnTxs' = processedBurnTxs
  BY DEF Submit
<1>2. /\ PollIsRight(poll) /\ Handling(poll) /\ Reading(poll)
      /\ submitted \in Seq(Nat)
      /\ SentIsBehind(poll, processedBurnTxs, submitted)
      /\ q \in processedBurnTxs
      /\ \A i \in DOMAIN submitted : submitted[i] # q
      /\ IsInjective(submitted)
  BY <1>1 DEF WorkerInv, SendingIsRight, InHandIsNew, Handling, Reading
<1>3. q \in Nat /\ q <= poll.head
  BY <1>2, HeadInChunk
<1> HIDE DEF q
<1>4. /\ submitted' \in Seq(Nat)
      /\ SentIsBehind(poll, processedBurnTxs, submitted')
      /\ IsInjective(submitted')
  <2>1. CASE submitted' = submitted
    BY <1>2, <2>1
  <2>2. CASE submitted' = Append(submitted, q)
    <3> DEFINE n == Len(submitted)
    <3>1. /\ submitted' \in Seq(Nat) /\ n \in Nat
          /\ DOMAIN submitted = 1 .. n /\ DOMAIN submitted' = 1 .. n + 1
          /\ \A i \in 1 .. n : submitted'[i] = submitted[i]
          /\ submitted'[n + 1] = q
      BY <1>2, <1>3, <2>2, AppendProperties, LenProperties
    <3> HIDE DEF n
    <3>2. \A i \in 1 .. n + 1 : i = n + 1 \/ i \in 1 .. n
      BY <3>1
    <3>3. SentIsBehind(poll, processedBurnTxs, submitted')
      BY <1>2, <1>3, <3>1, <3>2 DEF SentIsBehind
    <3>4. IsInjective(submitted')
      BY <1>2, <3>1, <3>2 DEF IsInjective
    <3>5. QED
      BY <3>1, <3>3, <3>4
  <2>3. QED
    BY <1>1, <2>1, <2>2
<1>5. /\ PollIsRight(poll')
      /\ SentIsBehind(poll', processedBurnTxs', submitted')
      /\ InHandIsNew(poll', processedBurnTxs', submitted')
  BY <1>1, <1>2, <1>4, ReturnedIsRight
<1>6. QED
  BY <1>4, <1>5 DEF WorkerInv, SendingIsRight

\* The worker sends no proof twice between two starts: SubmitsOnce of the handler in
\* bridge-offchain-worker/worker.ts, whose cache of processed burns is cleared.
THEOREM SendsOnce == WorkerSpec => []SubmitsOnce
<1>1. WorkerInit => WorkerInv
  <2> SUFFICES ASSUME WorkerInit PROVE WorkerInv
    OBVIOUS
  <2>1. poll = PollFrom(0) /\ submitted = <<>>
    BY DEF WorkerInit
  <2>2. PollIsRight(poll)
    BY <2>1, MaxLogBlockRangeAssumption
       DEF PollIsRight, PollFrom, Polls, Waits, Reading, Handling
  <2>3. /\ SentIsBehind(poll, processedBurnTxs, submitted) /\ IsInjective(submitted)
        /\ InHandIsNew(poll, processedBurnTxs, submitted)
    BY <2>1 DEF SentIsBehind, IsInjective, InHandIsNew, PollFrom
  <2>4. QED
    BY <2>1, <2>2, <2>3 DEF WorkerInv, SendingIsRight
<1>2. MinterTypeOK /\ WorkerInv /\ [WorkerNext]_allVars => WorkerInv'
  <2> SUFFICES ASSUME MinterTypeOK, WorkerInv, [WorkerNext]_allVars
               PROVE  WorkerInv'
    OBVIOUS
  <2>1. CASE WorkerStep
    BY <2>1, StartRoundIsRight, ReadHeadIsRight, QueryIsRight, ThrowIsRight, OnBurnIsRight,
       ProveIsRight, SubmitIsRight DEF WorkerStep
  <2>2. CASE Restart
    BY <2>2, RestartIsRight
  <2>3. CASE UNCHANGED workerVars
    BY <2>3 DEF WorkerInv, workerVars
  <2>4. CASE \E q \in DOMAIN txs : StartQuery(q)
    BY <2>3, <2>4 DEF StartQuery
  <2>5. CASE \E i \in DOMAIN queries : QueryStep(i)
    BY <2>3, <2>5 DEF QueryStep, ProveQuery, SubmitQuery, QueryFails
  <2>6. CASE MineProof \/ Attest \/ (Users /\ UNCHANGED <<workerVars, submitVars>>)
    BY <2>3, <2>6 DEF MineProof, Attest
  <2>7. CASE UNCHANGED allVars
    BY <2>3, <2>7 DEF allVars
  <2>8. QED
    BY <2>1, <2>2, <2>4, <2>5, <2>6, <2>7 DEF WorkerNext
<1>3. WorkerInv => SubmitsOnce
  BY DEF WorkerInv, SendingIsRight, SubmitsOnce
<1>4. MinterInvariant => MinterTypeOK
  BY DEF MinterInvariant
<1>5. QED
  BY <1>1, <1>2, <1>3, <1>4, MintsAreOfBurns, PTL DEF WorkerSpec

=============================================================================
