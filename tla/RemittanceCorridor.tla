------------------------- MODULE RemittanceCorridor -------------------------
(***************************************************************************)
(* The whole corridor: senders deposit on the source chain, attestation of *)
(* that chain advances, and anybody submits proved transactions to the     *)
(* escrow on Creditcoin, one at a time or in batches.  The two chains      *)
(* share nothing but the attested receipts, so a submission can come long  *)
(* after the deposit, twice, in another order, or together with others.    *)
(***************************************************************************)
EXTENDS FairateDeposit, RemittanceEscrow

\* decimals() is at most MAX_RATE_DECIMALS: it is 8 in both feeds of src/.
ASSUME DecimalsAssumption == \A d \in FeedDecimals : d <= MaxRateDecimals

ASSUME MaxBatchAssumption == MaxBatch \in Nat \ {0}

vars == <<receipts, attested, depositVars, escrowVars>>

Init ==
    /\ ReceiptsInit
    /\ DepositInit
    /\ EscrowInit

\* What a caller of executeBatch can try: transactions attested or not, again
\* and again.
Batches == UNION {[1 .. n -> DOMAIN receipts] : n \in 0 .. MaxBatch}

SourceStep ==
    \/ \E c \in DepositContracts : FeedMoves(c) /\ UNCHANGED <<receipts, attested>>
    \/ \E tx \in Transactions : Deposit(tx)
    \/ \E tx \in Transactions : DepositReverts(tx)

EscrowStep ==
    \/ \E caller \in Addresses \cup {Admin}, c \in DepositContracts,
          t \in PayoutTokens : RegisterCorridor(caller, c, t)
    \/ \E q \in DOMAIN receipts : Execute(q)
    \/ \E qs \in Batches : ExecuteBatch(qs)
    \/ NextBlock

Next ==
    \/ SourceStep /\ UNCHANGED escrowVars
    \/ Attest /\ UNCHANGED <<depositVars, escrowVars>>
    \/ EscrowStep /\ UNCHANGED <<receipts, attested, depositVars>>

Spec == Init /\ [][Next]_vars

-----------------------------------------------------------------------------

\* The control state of both chains has its type.  The accounts (stablecoin,
\* balances, credit records) are sums: the invariants below say which.
TypeOK == ReceiptsTypeOK /\ DepositTypeOK /\ EscrowTypeOK

\* The guard "Have I already paid for this one?": however a proved transaction
\* is submitted (alone, again, twice in a batch, in two batches), it appears
\* once in the TransferReleased log, and exactly the transactions marked
\* processed appear.
PaidAtMostOnce ==
    /\ \A i, j \in DOMAIN released :
          released[i].queryId = released[j].queryId => i = j
    /\ processedQueries = {released[i].queryId : i \in DOMAIN released}

\* Every entry of the TransferReleased log is of an attested transaction that
\* passes, now and ever after, each require of the release, and shows its first
\* deposit priced by its first rate log.
ReleasesAreProved ==
    \A i \in DOMAIN released :
        LET q == released[i].queryId IN
        /\ q \in AttestedQueries
        /\ Releasable(q)
        /\ released[i] = TransferReleased(q)

\* The rates in a receipt that the feed of its deposit contract emitted, and
\* whether the escrow reads another contract's: it does if that log is first.
OwnRates(q) ==
    LET rates == receipts[q].rates
    IN  {rates[j] : j \in {k \in Emitted(rates) : rates[k].feed = DepositOf(q).contract}}
RateIsForeign(q) == RateOf(q).feed # DepositOf(q).contract

\* Every payment is for an attested, successful deposit into a registered
\* corridor, with its parties, amount and id.  The feed of that corridor showed
\* one positive rate in the same transaction, however often it was asked, and the
\* payment is at that rate, whatever the feed reads since, unless a rate log of
\* another contract or feed comes first in the receipt.
PaidAsAttested ==
    /\ ReleasesAreProved
    /\ \A i \in DOMAIN released :
          LET q == released[i].queryId IN
          \E rate \in OwnRates(q) :
              /\ OwnRates(q) = {rate}
              /\ rate.answer > 0
              /\ ~RateIsForeign(q) => /\ released[i].rate = rate.answer
                                      /\ released[i].rateDecimals = rate.decimals

\* The README's "totalSupply() equals the sum of every payout the oracle has
\* verified, to the wei", per token: computed from the receipts of the processed
\* transactions, not from the escrow's log.
SupplyMatchesPayouts ==
    \A t \in PayoutTokens :
        LET paid == {q \in processedQueries : TokenOf(q) = t} IN
        SumFunctionOnSet(balances[t], Addresses) = SumFunctionOnSet([q \in paid |-> Payout(q)], paid)

\* What the deposits of a transaction moved, and what the releases say was moved.
AmountIn(logs) ==
    LET deposits == {i \in Emitted(logs) : logs[i].contract \in DepositContracts}
    IN  SumFunctionOnSet([i \in deposits |-> logs[i].amount], deposits)
Locked(q) == AmountIn(receipts[q].deposits)
AmountsDeposited == [i \in DOMAIN released |-> released[i].amountDeposited]

\* Value recreated on Creditcoin is locked on the source chain: what the released
\* deposits say they moved was moved to LOCK_SINK, by them, and all that moved
\* there is in the logs of FairateDeposit contracts, no event of another contract
\* standing for any of it.
PayoutsAreBacked ==
    /\ SumFunctionOnSet(AmountsDeposited, DOMAIN released) <= sink
    /\ sink = SumFunctionOnSet([q \in DOMAIN receipts |-> Locked(q)], DOMAIN receipts)

\* The releases from and to an account, and what they paid.
SentBy(a) == {i \in DOMAIN released : released[i].sender = a}
ReceivedBy(a) == {i \in DOMAIN released : released[i].receiver = a}
AmountsPaid == [i \in DOMAIN released |-> released[i].amountPaid]

\* The credit record of an address is what the released transfers say of it,
\* a transfer to oneself counting on both sides, and an address has been seen
\* exactly when it has a transfer.
ReputationMatchesReleases ==
    \A a \in Addresses :
        LET r == reputation[a] IN
        /\ r.transfersSent = Cardinality(SentBy(a))
        /\ r.transfersReceived = Cardinality(ReceivedBy(a))
        /\ r.volumeSent = SumFunctionOnSet(AmountsPaid, SentBy(a))
        /\ r.volumeReceived = SumFunctionOnSet(AmountsPaid, ReceivedBy(a))
        /\ (r.firstSeenBlock # 0) <=> (SentBy(a) \cup ReceivedBy(a) # {})

\* Deposit ids of a contract are 0, 1, 2, ... without a gap or a repetition, over
\* all its transactions, the reverted ones and the ones with several deposits
\* included; the server trusts depositCount for exactly this.
DepositIdsAreDense ==
    \A c \in DepositContracts :
        LET logs == UNION {{<<q, i>> : i \in {j \in Emitted(receipts[q].deposits) :
                                receipts[q].deposits[j].contract = c}} :
                           q \in DOMAIN receipts}
            idOf(l) == receipts[l[1]].deposits[l[2]].depositId
        IN  /\ {idOf(l) : l \in logs} = 0 .. depositCount[c] - 1
            /\ Cardinality(logs) = depositCount[c]

\* A deposit of a positive value at a positive rate, yet less than one unit of the
\* payout token: FairateDeposit accepts it, the escrow reverts with "Payout rounds
\* to zero".
RoundsToZero(q) ==
    LET value == DepositOf(q).amount * RateOf(q).answer
    IN  0 < value /\ value < 10 ^ RateOf(q).decimals

\* The guards of the two chains agree on what the corridor itself emits: an
\* attested transaction whose first deposit is into a registered corridor, and
\* whose first rate is of that corridor's feed, passes every require of the
\* release, unless it rounds to zero or its product overflows.  FairateDeposit
\* also accepts deposits that can never be paid because another contract's log
\* comes first, or another deposit does; those are not claimed here.
DepositsAreReleasable ==
    \A q \in AttestedQueries :
        /\ Emitted(receipts[q].deposits) # {}
        /\ TokenOf(q) # NoToken
        /\ (Emitted(receipts[q].rates) # {} => ~RateIsForeign(q))
        => Releasable(q) \/ RoundsToZero(q) \/ ~Fits(q)

\* "A corridor cannot be repointed once registered" (README): no step changes the
\* token of a registered corridor.
CorridorsNeverRepointed ==
    [][\A c \in Contracts :
          corridors[c] # NoToken => corridors'[c] = corridors[c]]_vars

-----------------------------------------------------------------------------

\* What a receipt shows of the corridor's own contracts: a deposit is of a
\* positive amount, in a transaction that succeeded, with a rate of its feed; a
\* feed's rates are positive, and one rate within a transaction.
WellFormed(receipt) ==
    /\ \A i \in Emitted(receipt.deposits) :
          LET log == receipt.deposits[i] IN
          log.contract \in DepositContracts =>
              /\ receipt.status
              /\ log.amount > 0
              /\ \E j \in Emitted(receipt.rates) : receipt.rates[j].feed = log.contract
    /\ \A j \in Emitted(receipt.rates) :
          LET log == receipt.rates[j] IN
          log.feed \in DepositContracts =>
              /\ log.answer > 0
              /\ log.decimals \in FeedDecimals
              /\ \A k \in Emitted(receipt.rates) :
                    receipt.rates[k].feed = log.feed => receipt.rates[k] = log

ReceiptsWellFormed == \A q \in DOMAIN receipts : WellFormed(receipts[q])

\* Only FairateDeposit contracts are registered, with tokens the escrow can mint.
CorridorsMintable ==
    \A c \in Contracts :
        corridors[c] # NoToken => c \in DepositContracts /\ corridors[c] \in MinterTokens

\* The inductive invariant of the corridor: each release preserves PaidAtMostOnce
\* because processedQueries is the log's set of query ids, and ReleasesAreProved
\* because receipts are only appended to and corridors never repointed.
IInv ==
    /\ TypeOK
    /\ ReceiptsWellFormed
    /\ CorridorsMintable
    /\ PaidAtMostOnce
    /\ ReleasesAreProved

-----------------------------------------------------------------------------

\* The payments the corridor owes: the first deposit of every attested
\* transaction whose contract is registered, if it pays out anything.
Owed == {TransferReleased(q) : q \in {p \in AttestedQueries : Releasable(p)}}

Ledger == INSTANCE PayoutLedger WITH
    owed <- Owed, ledger <- released, MaxSettlement <- MaxBatch

\* The corridor implements the payout ledger.
ImplementsPayoutLedger == Ledger!Spec

=============================================================================
