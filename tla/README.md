# Fairate: a TLA+ verification project

Fairate pays remittances across two chains. A sender locks stablecoin in a contract on Sepolia;
decentralised attestors attest Sepolia's blocks on Creditcoin; anybody proves the deposit to an
escrow on Creditcoin, which mints the payout. The repository also holds the two tutorials it grew
from: a token bridge and a loan flow on the same proving machinery.

This directory models that code in TLA+, model-checks it with TLC and proves the central results
with TLAPS. Paths below are relative to the repository.

## 1. Inventory

### Components

| Component | Source | State | Operations | What makes it correct |
| --- | --- | --- | --- | --- |
| Escrow | `fairate/contracts/sol/RemittanceEscrow.sol`, `FairateMintableToken.sol` | corridors, processed queries, balances, credit records, events | `registerCorridor`, `execute` (inherited), `executeBatch` | pays a deposit at most once, at the rate its receipt shows first; supply, credit records and events agree; corridors are never repointed |
| Deposit contract | `FairateDeposit.sol` | stablecoin in `LOCK_SINK`, `depositCount` | `deposit` | what it accepts can be paid, where its own logs come first; ids are dense |
| Rate feed | `FairateRateFeed.sol`, `FairateRatePublisher.sol`, `DemoAggregator.sol` | answer, time of publishing | `observe`, `peek`, `publish`, `setAnswer` | never prices by an answer older than 24 h |
| Publishing job | `fairate/scripts/publish_rate.ts`, `.github/workflows/publish-rate.yml` | none of its own | fetch, publish | keeps the feed alive; quotes do not go back |
| Settlement server | `fairate/server/api.ts` | `transfers` (in memory), `restoring`, `historyComplete` | deposit, track, settle-batch, detached `settle` and `settleBatch`, `backfill` | its list is true of the chains; one settlement per transfer; settlements end |
| Web interface | `fairate/web/src` | rows of transfers, selection, polls in flight | `refresh`, `onSend`, `settleBatch`, the effect on the rows | the screen catches up with the list; batches of what can be settled |
| Operator scripts | `fairate/scripts/*.ts` | none | one transaction each | – |
| Loan manager | `loan/contracts/sol/ASCLoanManager.sol` | orders, processed queries, source contract | `registerLoan`, two proved actions, `markLoanAsExpired` | funded means lent; repaid means paid; statuses move forward |
| Auxiliary loan contract | `loan/contracts/sol/AuxiliaryLoanContract.sol` | amounts left, flows, expired loans | `registerLoanFund`, `fundLoan`, `repayLoan`, … | tokens follow the terms |
| Loan worker | `loan/scripts/worker.ts` | tracker, expiry map, `processedTxs` | polls seven events, proves, expires | every funding and repayment is proved; every loan expires in time |
| Loan scripts | `loan/scripts/fund_loan.ts`, `repay_loan.ts`, `loan_proof.ts` | none; allowances on the chain | approve, pay, prove with three attempts | exit code 0 is true; payments made in turn do not collide; runs end |
| Bridge contracts | `bridge/contracts/sol` | wrapped tokens, processed queries | `wrapOriginToken`, `execute` | every burn minted at most once, as burnt |
| Bridge worker and `submit_query` | `bridge/bridge-offchain-worker/worker.ts`, `bridge/**/submit_query.ts` | `processedBurnTxs` | poll, prove, submit | a burn that is read is minted; none is submitted twice |
| Polling and proving | `shared/utils/index.ts` | block cursors | `pollEvents`, `generateProofFor` | no event lost |

Set-up and inspection scripts, generated ABIs, CI of the tutorials and the styling of the web
interface have no logic worth a model; `PROJECT.json` lists each part and why.

### How they interact

The two chains share no state. What passes from Sepolia to Creditcoin is the *receipt* of a
transaction in an attested block: the escrow, the loan manager and the minter read logs out of it.
Receipts can be presented late, twice, in any order, alone or in batches, by anybody. The server,
the workers and the scripts are conveniences outside of the trust: they watch one chain, ask a proof
service, and send transactions to the other. The web interface sees the chains only through the
server's list. The rate reaches the escrow inside of the deposit's receipt, because `FairateDeposit`
makes the feed emit it there. The escrow knows the logs it wants by signature and takes the first of
each; it compares the emitter of the deposit log with its corridors, and that of the rate log with
nothing.

### What is hard

* **Replays and order** of proofs, in single calls and in batches, against two separate guards (the
  one inherited from `ASCBase` and the one `executeBatch` repeats).
* **Agreement of guards across chains**: a deposit that the source accepts and the escrow can never
  pay locks money. A caller that is a contract decides what else is in the receipt: more deposits,
  readings of other feeds, events of its own with the same signatures.
* **Time**: a feed that ages, a schedule with late and missed runs; a loan deadline at which proofs
  and expiry are both accepted.
* **Awaits**: the server is one JavaScript process in which requests, settlements and the backfill
  interleave at every `await`, share record objects, and lose everything at a restart. The workers
  interleave polls and block handlers the same way, and the page its polls.
* **Partial knowledge**: log endpoints that prune, scans that throw, transactions whose fate is not
  known, replies that overtake each other.
* **Retries**: polls that read a range again after an error in the middle of it, scripts that prove
  again what an earlier attempt, another run or the worker has proved.

`PROJECT.json` lists every hazard at its line, with the properties that cover it.

## 2. Modules

```
CorridorReceipts            receipts of the source chain, attestation
 ├─ FairateDeposit          source side
 ├─ RemittanceEscrow        payout side
 └───┴─ RemittanceCorridor  both, and the properties ──refines──> PayoutLedger
          └─ RemittanceCorridorProofs
FairateRateFeed             the feed and its job in time
 └─ FairateRateFeedProofs

SettlementServer            fairate/server/api.ts ──refines──> TransferListings
 └─ SettlementServerProofs
TransferList                the list of transfers and how it changes
 ├─ TransferListings        what the server promises of it
 └─ WebPage                 fairate/web over that list
     └─ WebPageProofs

AuxiliaryLoan               source side of loans
 └─ LoanManager             Creditcoin side, and both together
     ├─ LoanManagerProofs
     ├─ LoanScripts         the scripts of lenders and borrowers
     ├─ LoanWorker          the worker ──refines──> LoanManager
     └─── LoanClientsProofs both of them
EventPolling                pollEvents of shared/utils, used by LoanWorker and BridgeWorker
BurnMinter                  burns and the minter ──refines──> PayoutLedger
 └─ BridgeWorker            the worker and submit_query
     └─ BridgeProofs

SumTheorems                 sums over finite sets and flattened sequences, for the proofs
```

An `MC…` module beside each gives TLC its constants. Operators marked *Mutant* are wrong versions
of the definition that follows them; nothing uses them in the specifications. They are the plausible
slips (a dropped guard, an off-by-one) that each property was tried against.

**CorridorReceipts, FairateDeposit, RemittanceEscrow, RemittanceCorridor.** A source transaction is a
sequence of steps: a call of `deposit`, a call of `observe` of some feed, or an event that another
contract emits with the signature of `RemittanceDeposited` or `RateObserved` (any parties and amount,
any answer, positive or not, any decimals). A wallet can send one call of `deposit`, a contract any
sequence. `Deposit` is a transaction that goes through and appends a receipt with its logs,
`DepositReverts` one that fails and leaves a receipt of status 0. A receipt keeps the logs of each of
the two signatures in order, each with its emitter, one place for each step (`NoLog` if the step emits
none), and `FirstLog` is what the escrow reads of them. The feed of a corridor is any sequence of
readings. `Attest` moves the attested prefix. A reverted call of the escrow changes nothing, so only
successful calls are steps: `Execute`, `ExecuteBatch` and `RegisterCorridor` have as guards every
`require` on their way, including those met while the entries are released (`Releasable`). A batch is
one step because a revert undoes all of it; that it does is the chain's doing, and no property claims
credit for it. The query id is the position of the transaction in the chain. Amounts, rates and payouts
are integers with the division of the code, so that rounding is exact. The checked arithmetic of
`uint256` is modelled where a foreign log can bring it about: the product (`Fits`), the supply of a
token and the volumes of a credit record (`TotalsFit`) revert beyond `MaxWord`.

**PayoutLedger** says what a corridor or bridge promises without chains: a growing set of debts, and
settlements that pay distinct unpaid debts, for ever. The corridor's `ImplementsPayoutLedger` maps
the debts to the releasable attested deposits and the ledger to the `TransferReleased` events; the
bridge's maps them to the mintable attested burns and the `TokensMinted` events, one to a settlement.

**FairateRateFeed** counts hours. Each scheduled run starts at its hour or later, fetches, and then
publishes or fails; the fetch and the publication are separate steps, since a newer quote can appear
between them. The provider posts a quote every midnight.

**SettlementServer** has one action per stretch of code between two awaits. Records are numbered
objects: `transfers` maps a deposit to the number of its record, while settlements hold numbers, so
that a record can drop out of the map and still be changed, as in the code. `tasks` are the running
`settle` (one record) and `settleBatch` (two or more) calls; a batch that repeats an id is possible.
`calls` are the transactions sent to the escrow: they outlive a crash, they may be mined long after
the server has given up on them, and revert if any of their deposits has been paid. A batch that
`postSettleBatch` refuses (no such record, one that cannot be settled) throws in a promise nobody
handles and ends the process, which is a step here. `scan` holds the locals of `backfill`; its field
`history` is no variable of the code but a record of what was on the chain at start-up, for the
properties. `Home` are the deposits of the server's own corridor; the others are of another corridor
of the same escrow, whose events look the same. The model merges the two chains into what the server
sees of them; RemittanceCorridor has the contracts in full.

**TransferList** is the list as its readers see it: a status for each transfer, and how it changes when
a record is stored, a batch accepted, a settlement ended, the server restarted. When that may happen it
does not say. **TransferListings** does, still without chains and records: it adds the requests under
way for each transfer, the transfer that the backfill visits, and the listed transfers of each
settlement. A transfer gets a record, in the place of any it has, only from a request or visit that
began when it was not listed, and each of those stores one or none; so two requests for one hash can put
a new record in place of a released one, as in the code, but once they have ended nothing can. A batch
takes transfers that are queued or failed, and a settlement ends for all those of its own that are still
listed, which are attesting until then; no two settlements share one. `ImplementsTransferListings` maps
a transfer to the status of the record that the list shows for it.

**WebPage** is the page over a TransferList that others change as well. An action is the code from
one await, or one render, to the next. `polls` are the calls of `refresh` in flight, answered and
applied in any order; `send` is the form with either wallet; `batch` the button. The effect that
prunes the selection runs after the render in which the rows changed, so that a click can come
before it (`effectDue`). `version` is no variable of the code: it counts the changes of the list, and
each row carries the version it was read at, so that the properties can say what is older. A batch
that the server refuses ends the server, as in SettlementServer.

**AuxiliaryLoan, LoanManager.** One action per external function. The log of an event is what the
other side can prove; other contracts can emit logs of the same signature. The owner of the
auxiliary contract acts as the worker does: funding by the terms of `LoanRegistered`, expiry once the
deadline has come. Expiry on the two chains are two independent steps, since the worker's second
transaction may never come.

**LoanScripts** runs `fund_loan.ts` and `repay_loan.ts`, each with the `loan_proof.ts` it calls, over
the two contracts. Any number of runs may overlap and any may be killed at any await (`Die`), in
which case what it sent is mined all the same. A wallet's transactions are mined in the order they
are sent. `Grant` is what is approved: all of the amount in one script, what is missing in the other.
An attempt of `loan_proof.ts` is generating, submitting and confirming; an error in it leads to
`Catch`, which reads the status and retries. `inTurn` is no variable of the code: it records that no
other run of the wallet overlapped this one, the case that the comments of the scripts speak of.

**EventPolling** is `pollEvents` as operators on the record of one poll: read the head, query a
chunk, hand its events to the handler one by one; an error halves the chunk and reads it again, and
an error in a single block skips the block. What the handler does is left to the worker.

**LoanWorker** is `worker.ts` between the two contracts, which keep their actions from LoanManager. An
action is the code from one `await` to the next, so the polls of a round and the handlers of the
blocks interleave freely. Three of the seven polls have handlers that act and are modelled; the
others only log. The polls of one provider share one answer of `getBlockNumber`, as ethers caches it
for calls made together. Transactions go to a queue per chain, in nonce order: registrations and
expiries are estimated first, so they are not sent if they would revert then, while proofs are sent
all the same (`computeGasLimit` swallows the error). They revert or not when mined. Every log of the
source chain is a block of its own; on Creditcoin the head is the block before `ccBlock`.
`ImplementsLoanManager` shows that the worker does nothing but what LoanManager lets the owner do,
which is what its assumptions on that owner rest on. `lossless` is no variable of the code: it
records whether a block was skipped or a transaction or proof refused, after which the code does not
try again, and the liveness properties are conditional on it. The mode `SKIP_FUND_REPAY_PROOF` and
restarts of the worker are left out.

**BurnMinter, BridgeWorker.** A source transaction has a caller, a status and a sequence of burn
logs, of the token or of another contract that emits the same event; it has several if the caller is
a contract. `Mint` reads the first log of that signature, as `_processMint` does, and mints what the
emitter is mapped to. The worker polls for burns of its own wallet through EventPolling, marks the
transaction as processed *before* it has a proof, and submits without waiting for the receipt; a
restart forgets its cache and starts at the current block. `queries` are runs of `submit_query`,
which proves one transaction by its hash and reports on the receipt. `submitted` and `lossless` are
history for the properties.

## 3. Runs

| Run | Bounds | Shows |
| --- | --- | --- |
| `corridor` | 2 corridors and another contract, 3 tokens (one the escrow cannot mint), 9 transactions (one to three deposits, a self-transfer, foreign deposit and rate logs before or after, another feed, none, reverting), 4 feed readings, 2 receipts, batches of 3, words of 60, 2 blocks | the safety properties of payouts, the refinement of PayoutLedger |
| `rate_feed` | 60 h, runs at 6, 18, 30, 42, 54 h, delays up to 13 h, three quotes | age of answer and quote are bounded as stated; quotes never go back |
| `server` | 2 identical deposits, 2 records by requests, 2 calls, batches of 2, 1 crash | settlements do not share records, events and records match, released is final, a complete list is complete |
| `server_live` | 1 deposit here, 1 in another corridor, 2 records by requests, 1 call, 1 crash, both with the same receiver and id but another payout, fairness | what is released is paid; settlements and the backfill end; the server implements TransferListings |
| `backfill_overwrite` | 2 deposits, 1 call, 1 crash | *violated*: a live record is replaced |
| `loan_contracts` | 2 loans in opposite directions, payments of 1 and 2, 3 logs, 3 blocks | what Creditcoin says of a loan is what was paid |
| `loan_worker` | 1 loan of 1, repaid in two parts of 1, 3 logs of which others may prove the last, 3 blocks, deadline 2 or 3 | repayments count once though events are delivered again; the worker implements LoanManager |
| `loan_worker_live` | 1 loan repaid in one payment of 2, 2 logs, 3 blocks, deadline 2, fairness | rounds of polling end; fundings and repayments are proved; loans expire |
| `loan_scripts` | 1 loan of 1 with a debt of 2, payments of 1 and 2, 2 runs, 2 logs that others may prove as well, 2 blocks, fairness | exit code 0 is true; fundings made in turn are covered; runs end |
| `repay_allowance` | as `loan_scripts` | *violated*: a repayment approves less than it pays |
| `bridge` | 2 holders with 2 tokens, 2 transactions of three kinds (one burn, two burns, a foreign burn before one), chunks of 2, cache of 1, 1 restart, 1 `submit_query`, fairness | mints are backed, no proof is sent twice, what is not given up is minted; the refinement |
| `web` | 2 transfers, 2 polls in flight, 1 click, 2 changes by others, fairness | what can make the screen go back; when a batch is refused; the screen catches up |

*Why the bounds are enough.* A double payment needs one receipt and two calls, a wrong duplicate check a
batch of three (the repeated entry, another between, so that comparing neighbours misses it),
disagreement over ids a transaction with two deposits into one contract, and overflow of a supply two
payouts at a foreign rate: all are there, and two receipts make every pair of the nine transactions. The
rate feed's interesting cases need two failures in a row and a delay longer than the period (13 > 12),
so that runs could overlap. Each race of the server is between two actors over one record, or one batch
of two over two records, and one crash; restarts clear all memory, so a second one starts from a state
of the first kind. In the loan model three logs let a loan be funded and repaid in two parts, the three
blocks come before, at and after both deadlines. For the worker, chunks of two blocks
(`MaxLogBlockRange`) are halved once and then skipped, and with `MaxProcessedTxs` = 2 the cache of
transactions is emptied while loans are live; the blocks again come before, at and after the deadline 2,
and the deadline 3 leaves a handled block before it. The scripts disturb each other in pairs: two
fundings, two repayments, or one of each, with the first killed at any await; the deadline is the second
of two blocks. The bridge's transactions are those in which the first log of the receipt is not the
event that the worker saw, with one round of polling repeated after an error, the cache emptied, and the
script proving what the worker proves. Two polls are what it takes for one to overtake the other. Bounds
live in the guards and are named: `MaxReceipts`, `MaxBatch`, `MaxBlock`, `Horizon`, `MaxRecords`,
`MaxCalls`, `MaxRestarts`, `MaxLogs`, `ProvedByOthers`, `OthersProve`, `MaxRuns`, `MaxTxs`,
`MaxQueries`, `MaxPolls`, `MaxClicks`, `MaxChanges`. A restart of the server counts against `MaxRecords`
like a request, to keep both of its lives within the same bound. Deadlock is not checked: every model
ends when its bounds are used up.

*What the properties of the passing runs mean* is in the comment before each. Some deserve a word.
`AgeIsBounded` and `PricedByRecentQuote` are the true forms of what the workflow file claims too simply.
`PaidAsAttested` says of every payment whose deposit it is and that the feed of that corridor showed one
rate in the same transaction; that the payment is at this rate it says only of receipts in which no
foreign rate log comes first. `DepositsAreReleasable` has the same condition, that the corridor's own
deposit and rate logs come first, and excepts payouts that round to zero or whose product overflows
(that a total overflows, because of what was paid before, is no matter of the receipt and not part of
`Releasable`). The first of these is a real way to lock an amount worth less than one unit, accepted by
the source and never payable; so is every receipt that the condition leaves out. `PayoutsAreBacked`
speaks of what deposits move to `LOCK_SINK`, an ordinary address to which anybody may send more.
`ReleasedIsTrue` is of every record the list calls released, deposits of another corridor included: the
transaction that it names made a payment, to that receiver, of the sum that is shown. The payment was
for this deposit, or for one of another corridor that has the same receiver and id, which is how far the
backfill's matching can be trusted. It does not say that what is paid is shown as released: a settlement
that loses to another one shows a paid transfer as failed. `ImplementsTransferListings` is per transfer:
every change of a listed status is by the rules above. `OnlyOvertakenRepliesGoBack` says how a row of
the page can go back, not that it cannot: the code lets it, and `ScreenCatchesUp` says that this does
not last.

*Violated properties* are statements of the repository's own comments that the code does not keep;
`PROJECT.json` quotes each with its line under "findings".

*Other claims that reading and modelling showed to be untrue*, and that are therefore no properties:

* `RemittanceEscrow.sol:211–212` ("it is the rate that was live on Sepolia at deposit time — attested,
  not supplied by whoever calls execute"), `FairateDeposit.sol:71–73` ("there is no window in which the
  two could disagree") and `FairateRateFeed.sol:53–54` ("a rate that cannot drift from the deposit it
  prices"): `_processRelease` takes the first log with the signature of `RateObserved` (213–217) and
  never compares its emitter. `observe` is external, of every feed, and any contract can emit that
  event, so in a transaction of a contract the rate can be another feed's or the caller's own. The run
  `corridor` has such receipts, and `PaidAsAttested` and `DepositsAreReleasable` hold because they
  except them (`RateIsForeign`); without the exceptions both are false. For the same reason
  `FairateDeposit` accepts deposits that can never be released: with a first rate log that is not
  positive or has more than 36 decimals (255–256), or a first deposit log of an unregistered contract
  (209). Choosing both logs by emitter, the corridor's contract and its feed, would make those
  exceptions unnecessary.
* `fairate/server/api.ts:122` calls the history complete, and it stays so when `backfill` throws
  (715–720).
* `backfill` matches releases to deposits by receiver and deposit id (238), which two corridors of one
  escrow can share: a deposit can be restored as released though it is not paid. `postTrack` adopts a
  deposit of another corridor (489), since `parseLogs` compares no address.
* `publish-rate.yml:14–16`: one missed run *can* take the corridor offline, when runs are late as well;
  and a feed that "can never mask a genuinely stale feed" (`api.ts:61–62`) does so while refreshes fail.
* `postDeposit` and `postTrack` store the rate of `peek` at the time of the answer, not the rate locked
  in the receipt (401, 494).
* A throw of `postSettleBatch`, or of the status route, ends the process instead of giving the 500 of
  702–705.
* `wallet.ts:124`, "a returning sender signs exactly one transaction": the approval is for exactly the
  amount, so there is nothing left for a return. `waitForChain` gives up silently after four seconds.
* `loan_proof.ts` reports failure though a partial repayment was mined, since only the status `Repaid`
  tells it otherwise.

### Fairness

`server_live` assumes weak fairness of three things. Each settlement goes on, except while its
transaction is neither mined nor reverted: every await before `tx.wait()` has a timeout or an error
path (`waitUntilHeightAttested` takes 1,200,000 ms), while `tx.wait()` has none, which is why the
condition is on the transaction. Creditcoin mines what it is sent. The backfill goes on: an RPC call
answers or rejects. Nothing is assumed of requests, wallets, releases by others or crashes.
Settlements are told apart by the record they work on, so that one settlement cannot starve another.

`loan_worker_live` assumes weak fairness of the polling loop and of the block handlers: each call
returns, throws or times out (`generateProofFor` waits at most 20 minutes for the attestation), and a
round has finitely many steps, so that fairness of the loop as a whole leaves no poll behind. Strong
fairness of `ReadHead`: `getBlockNumber` may fail any number of times but not for ever. Transactions
that are sent are mined, and the source chain is attested. No party has to pay, and no block has to be
made on Creditcoin.

The worker's properties are weaker than one would wish, because the code is. It is *not* true that every
repayment is proved: one read while Creditcoin does not yet call the loan funded is dropped, hence the
condition of `RepaymentsAreProved`. Nor that every loan expires: one whose registration is read after
its deadline block was handled stays as it is, hence the condition of `TrackedLoansExpire`, which also
lets a loan be that the worker calls repaid from the moment the proof was sent.

`loan_scripts` assumes weak fairness of each run by itself (they are processes of their own), of mining
by each wallet and on Creditcoin, and of attestation. Killing a run is never assumed, nor that an
attempt succeeds or fails.

`bridge` assumes weak fairness of the worker's loop, strong fairness of a `getBlockNumber` that answers,
mining and attestation. The condition of `BurnsAreMinted` is what the code gives: a burn is marked
before it is proved, so that one whose proof fails, or comes after the worker's restart, is never tried
again.

`web` assumes that the timer fires, that the browser applies answers and runs effects, and strong
fairness of answers: polls may fail any number of times but not all of them.

## 4. Proofs

All theorems hold for every choice of the constants, bounds included.

| Module | Theorem | States |
| --- | --- | --- |
| `RemittanceCorridorProofs` | `CorridorInvariant` | `Spec => []IInv` |
| | `TypeCorrect` | the type invariant |
| | `NoDoublePayment` | `PaidAtMostOnce` |
| | `OnlyAttestedDepositsPay` | `PaidAsAttested` |
| | `SourceGuardsSuffice` | `DepositsAreReleasable` |
| | `NoRepointing` | `CorridorsNeverRepointed` |
| | `ValueIsConserved` | `PayoutsAreBacked` |
| | `SupplyIsAccountedFor` | `SupplyMatchesPayouts` |
| | `ReputationIsEarned` | `ReputationMatchesReleases` |
| | `IdsAreDense` | `DepositIdsAreDense` |
| | `CorridorImplementsLedger` | `Spec => ImplementsPayoutLedger`, the refinement |
| `FairateRateFeedProofs` | `FeedTypeCorrect` | the type invariant |
| | `NewerQuotesOnly` | `QuotesDoNotGoBack` |
| | `RecentQuotesPrice` | `PricedByRecentQuote` |
| | `FailuresBoundAge` | `AgeIsBounded` |
| `SettlementServerProofs` | `Invariant` | `Spec => []IInv` |
| | `TypeCorrect` | `TypeOK`, with its bound on the number of records |
| | `OneSettlement` | `OneSettlementPerRecord` |
| | `EventsMap` | `EventsMapOneToOne` |
| | `CountCatches` | `CountCatchesPruning` |
| | `ReleasedFinal` | `ReleasedIsFinal` |
| | `ReleasedTrue` | `ReleasedIsTrue` |
| | `Implements` | `Spec => ImplementsTransferListings`, the refinement |
| `LoanManagerProofs` | `ManagerTypeCorrect` | the type invariant: nothing underflows |
| | `FundedLoansAreLent` | `FundedIsLent` |
| | `StatusesAdvance` | `StatusesMoveForward` |
| | `RepaidAmountsArePaid` | `RepaidIsPaid` |
| | `TokensAreFollowed` | `TokensFollowLoans` |
| `LoanClientsProofs` | `ScriptsUseLoanManager` | `ScriptsSpec => Spec` of LoanManager |
| | `FundingSuccessIsTrue` | the half of `SuccessIsTrue` about fundings |
| | `SuccessesAreTrue` | `SuccessIsTrue` |
| | `FundingsAreCovered` | `FundingIsCovered` |
| | `WorkerUsesLoanManager` | `WorkerSpec => ImplementsLoanManager` |
| | `WorkerFundsAreLent` | `FundedIsLent`, with the worker |
| | `RepaymentsAreCountedOnce` | `RepaymentsCountOnce` |
| `BridgeProofs` | `MintsAreOfBurns` | `[]MinterInvariant` |
| | `MintsStayBacked` | `MintsAreBacked` |
| | `SendsOnce` | `SubmitsOnce` |
| | `BridgeImplementsLedger` | `WorkerSpec => ImplementsPayoutLedger`, the refinement |
| `WebPageProofs` | `RefusalsAreOfStaleRows` | `RefusedOnlyIfStale` |
| | `OnlyLateRepliesGoBack` | `OnlyOvertakenRepliesGoBack` |

*Corridor.* `PaidAtMostOnce` and `PaidAsAttested` are not inductive alone. `IInv` adds that the
processed queries are exactly the query ids of the event log (inside of `PaidAtMostOnce`), that what is
released is attested, releasable still, and shown as its receipt says (`ReleasesAreProved`), what
receipts show of the corridor's own contracts (`ReceiptsWellFormed`: a deposit is of a successful
transaction with a rate of its feed; the rates of a feed are positive, and equal within a
transaction), that only deposit contracts are registered, with mintable tokens (`CorridorsMintable`), and
types. Nothing is assumed of foreign logs but their type. A release keeps it
(`ReleaseKeepsIInv`): its entries are attested, unprocessed and pairwise different, so the log's ids
stay unique. Every other step keeps what is already paid (`ReleasableStays`, `LogStays`): receipts are
only appended to, the attested prefix only grows, corridors are only registered once. The refinement
follows from `ReleaseIsSettle` (a release is a settlement: its payments are owed, unpaid and distinct)
and `OwedGrows` (any other step lets debts grow or stutters). `SourceGuardsSuffice` compares the two
chains' guards under the invariant.

*Sums.* A step that mints, records or moves an amount changes one value of a function, or adds one
element to a set, and so changes a sum by that amount. The sums are `SumFunctionOnSet` of the community
modules, defined by a recursive function over sets, and the library's induction theorems are out of
reach. `SumTheorems` proves what is needed another way: a sum of naturals is the number of its units
(`SumIsCount`, by the smallest subset of which that is not true), after which the library's theorems on
cardinality say how it changes with the set or the function. From these lemmas follow, each as an
invariant on top of `IInv`: what the sink holds (`SinkIsLocked`), from which `PayoutsAreBacked` follows
since distinct processed queries are distinct receipts; the supply of each token (`SupplyInv`, a batch
adding the payouts of its entries to the balances of their receivers); the credit records (`RecordsInv`,
where a transfer to oneself counts on both sides, and blocks are positive, since `firstSeenBlock` uses 0
for never); and the ids of each deposit contract (`DenseInv`: a transaction with several deposits adds as
many ids, in order). The same lemmas serve the loans, the worker, the bridge and the
server. `FlattenSeq`, by which both workers' queries collect events, is such a function over the
length of a sequence, and is treated alike (`FlattenType`).

*Rate feed.* The concurrency group lets one run end before the next fetches. `QuotesInOrder` says that at
most one run holds a quote, and that this quote is no older than the one published; then publishing
cannot go back. `PricedByRecentQuote` needs besides that runs end in time and that the feed has its
answer from a run of the quote's day (`QuotesAreOfTheDay`), and some arithmetic of midnights, which is
in lemmas of its own. For `AgeIsBounded`, `AnswerIsOfARun` says that the answer is of a run at most its
delay old, and that what has been published since is in the answer; so every scheduled run between that
one and now, except those still under way, has failed, and there is one to each period.

*Server.* `IInv` says how the objects that outlive an `await` belong together: a record is attesting
exactly if a settlement holds it, and no two hold the same (`TasksOwnRecords`); a settlement's
transaction pays the deposits of its records, each once (`CallsPayTheirRecords`); mined transactions
have their events (`MinedCallsReleased`); what the scan has read is there (`ScannedReleasesAreTrue`),
and what was there at start-up is listed or still to be visited (`ScanCoversHistory`), the count of the
contract being what makes a scan complete. `EventsMapOneToOne` is about the loop of `settleBatch` that
takes, for each event, the first record not yet taken of the same receiver and amount, or failing that
the first one. That every event finds one of its kind (`MatchedAlike`) is a counting argument: at the
first event that does not, all records of its kind have gone to earlier events, which are of the kind
too, so there would be fewer records than events of it. For `ReleasedIsTrue`, `IInv` keeps for each
released record an event of its transaction that is its own or shares its key with a foreign one, and a
payment of the sum shown; the ids of the server's own corridor are distinct, so that a key is shared
only with deposits of another one. `TypeOK` bounds the records by `RoomIsLeft`: a record is made by a
request that counts against the bound, or restores a deposit that the scan visits once. The refinement
to `TransferListings` rests on that a record keeps its deposit, that no two transfers are listed with
one record, that records are attesting exactly while one settlement holds them, which makes the
settlements of the abstract list disjoint, and on `ListedAreMined`: a deposit that is mined only now is
not listed, so that the request for it begins with an unlisted transfer. A stored record takes its
transfer out of the settlement of the old one (`StoresTransfer`); a settlement none of whose transfers
is listed any more does not show.

*Loan contracts.* The invariant `IInv` ties the two chains together: ids are given out in order
(`LoansAreNumbered`), flows carry the terms of their orders (`FlowsFollowOrders`), repayment is open
only for what is fully funded and only then are there logs (`RepayableIsFunded`), and Creditcoin calls
funded only what is repayable (`FundedIsRepayable`). `RegisterLoan` is the delicate step: it sets the
terms of an id, which must not have a flow yet, and that is what the numbering is for. `RepaidIsPaid` is
inductive with it: a proof adds the amount of its log to `repaidAmount` and its id to the processed
queries, a payment adds a log that is not processed. `TokensFollowLoans` adds up loans by and to an
account; `AccountBalances` is kept because a payment changes one loan, which is on one side of the
equation for the payer and on the other for the payee, or on both for a loan to oneself.

*Scripts and worker.* Both modules add processes to LoanManager, and both proofs show that every step
of the larger system is a step of LoanManager or leaves the contracts alone, so that its theorems carry
over. For the worker that needs an invariant, since LoanManager expires a loan on the source chain only
once its deadline has come, while the worker decides on a block number and sends a transaction that is
mined later: `OnlyDueExpire` says that what it is about to expire, or has sent, is due, and `DueGrows`
that what is due stays due.

Success of a funding follows from `StatusesAdvance`'s lemma: a loan that has left `Created` does not come
back, whatever happens between the read and the exit. Success of a repayment is more: that the proof of
*this* payment counts. `TurnsInv` has for it that the log of a run is of its own payment
(`RepaymentsAreLogged`), and that a run which exits with 0 has seen its own proof mined, or has read
`Repaid`; in the latter case the log is processed because, by `RepaidIsPaid`, the processed repayments make
up the debt already, and all that was paid is no more than that. `FundingIsCovered` needs the queues of the
wallets (`SourceQueues`: each transaction is of a run that waits for it or has died, no payment twice),
that a run in turn is alone with its queue (`TurnsAreAlone`), and that therefore nothing takes from the
balance and the allowance that it has read (`FundsAreThere`).

`RepaymentsCountOnce` is about the worker's own books, over all of its awaits, and rests on `CountInv`. It
says where an event is: a repayment is `Finished` when the poll is past its block or `processedTxs` has its
transaction, and one in hand is not (`HandInv`). That is so after an error too, when a chunk is read again
from a block before, since the poll reads up to its `Goal` whatever fails (`PollInv`), and since what the
cache remembers is behind that goal when a round ends and the cache may be emptied (`CacheIsBehind`). The
two polls of the source chain must agree on their goal for this, for the code starts both from the result
of the one. `TrackerInv` then says that what the tracker has taken off a debt is at most the volume of the
finished repayments, and, until the deadline, of those of them that Creditcoin has been told of. Told may
mean that the proof is still in the queue: if it reverts there, the same log has been proved by somebody
else, or the deadline is past (`RevertedIsTold`: an order that is repaid counts all that was paid, by
`RepaidIsPaid`). `repaid` is set when nothing is left, and then the payments make up the debt
(`CountedInFull`), or when Creditcoin says so (`RepaidIsPaidInFull`).

*Bridge.* `MinterInvariant`: every mint is a debt of a processed query, and no query has two. As debts
only grow (a transaction's receipt does not change and a wrapped token is not wrapped again), a mint is
one settlement of the ledger. `MintsAreBacked` compares, under it, the mints with the transactions they
are of, and those with the balances that they burnt (`BurnInv`). `SubmitsOnce` needs to know how the poll
and the cache go together (`WorkerInv`): what has been sent is behind the poll, or in the cache and not
beyond the head (`SentIsBehind`), so that a chunk read again after an error finds it there; a transaction
in hand is in the cache and new (`InHandIsNew`); and the cache is emptied only at the end of a round,
when all of it is behind.

*Web page.* `SelectionFollowsRows` (unless the effect is due, what is selected is queued on the screen)
and the same of the rows at the click give the first theorem. For the second, `RepliesInOrder` says that
a poll that has not been overtaken carries rows at least as new as the screen's.

*Assumptions*, each a named `ASSUME` that TLC evaluates in the runs: `ZeroAddress` is no account; there
are finitely many accounts, holders of tokens and deposits, over which sums are taken; decimals of logs
are naturals, those of the corridors' feeds at most `MAX_RATE_DECIMALS` (they are 8 in both), and powers
of ten up to it are positive, which the provers do not know; the other contracts are no
`FairateDeposit`, and `NoLog` is no log; readings and transactions have their types; `NoToken` is no
token; `MaxBatch` is positive; times are naturals, the length of a day, the period and the horizon
positive, no run is scheduled at midnight, and the schedule repeats with its period up to the horizon;
the deposits of the server's own corridor have different ids, its bound `MaxRecords` is a natural; loan
ids are positive, offers and payments have their types, the auxiliary contract is none of the others;
the lender and borrower of the scripts are two accounts; chunks of blocks are not empty; `None` is no
wrapped token, flow, contract, offer or record of the tracker; the bridge worker's wallet is a holder.

*Proved and not checked by a run of its own*: `CorridorsNeverRepointed`, the inductive invariants, and
the type invariants of the corridor, the feed and the loan contracts.

*Only model-checked*: liveness, which is out of the prover's reach. Every safety property that a run
checks and expects to hold is a theorem.

## 5. What is not modelled

The verifier precompile, the attestors, `ASCBase` and the decoders are external: the model has the
contract their callers rely on (a proof is accepted exactly for a transaction in an attested block;
logs are filtered by signature, in order). Also left out:

* gas, fees, and underpriced transactions; signatures (an offer is a set of terms both signed, and
  `register.ts` collects the signatures); allowances, except those of the loan scripts;
* of the server: the mint and approve of its funding wallet, the read-only routes and their caches,
  record fields for display (rate, error text, gas per transfer);
* of the page: the steps of the wallet that move no row, balances, the credit record (whose requests
  can overtake each other too, `App.tsx` 94–100), rendering;
* of the loan worker: the polls that only log, `LOAN_WORKER_SKIP_FUND_REPAY_PROOF`, and restarts, which
  forget everything;
* scripts that wait, print or check and change nothing: `wait_loan_status.ts`, `inspect.ts`,
  `check_setup.ts`, `env.ts`; the open mint of the test token;
* everything under "not_modelled" in `PROJECT.json`.

## 6. Plan

Done: the corridor with its refinement, the feed and the loan contracts, the server with its refinement,
polling with both workers, the loan scripts, the bridge, the page; and the proof of every safety property
the runs check. Left:

1. *Loan worker:* restarts, from which only loans that are registered later recover.
2. *Server:* the funding wallet (concurrent top-ups and approvals) and the cached routes.
