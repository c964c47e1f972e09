--------------------------- MODULE FairateDeposit ---------------------------
(***************************************************************************)
(* The source-chain half of the corridor: FairateDeposit.deposit, which    *)
(* locks the stablecoin and makes FairateRateFeed emit the rate into the   *)
(* same receipt, and the feeds the rate is read from.                      *)
(*                                                                         *)
(* A transaction is a sequence of steps: one call of deposit from a        *)
(* wallet; from a contract also several calls, calls of observe, which is  *)
(* external too, of any feed, and events with the same signatures that the *)
(* contract, or another one it calls, emits itself.  If one step reverts   *)
(* they all do, and the chain keeps a receipt with status 0 and no logs.   *)
(***************************************************************************)
EXTENDS CorridorReceipts, Functions

CONSTANTS
    Readings,       \* what a feed can answer: [answer, decimals, stale]
    Transactions,   \* what callers send: [sender, steps]
    InitialReading, \* the reading of a newly deployed feed
    InitialUSD,     \* stablecoin each account starts with
    MaxReceipts     \* bound: transactions on the source chain

ASSUME ReadingsAssumption ==
    /\ Readings \subseteq [answer : Int, decimals : FeedDecimals, stale : BOOLEAN]
    /\ InitialReading \in Readings

\* The steps of a transaction that the corridor can tell.
Step ==
         [kind : {"deposit"}, contract : DepositContracts,
          receiver : Addresses \cup {ZeroAddress}, amount : Nat]
    \cup [kind : {"observe"}, contract : DepositContracts]
    \cup [kind : {"RemittanceDeposited"},
          log : {l \in DepositLog : l.contract \in OtherContracts}]
    \cup [kind : {"RateObserved"},
          log : {l \in RateLog : l.feed \in OtherContracts}]

ASSUME TransactionsAssumption ==
    Transactions \subseteq [sender : Addresses, steps : Seq(Step)]

VARIABLES
    feed,           \* what each deposit contract's RATE_FEED reads now
    usd,            \* STABLECOIN balances
    sink,           \* what the deposits have moved to LOCK_SINK
    depositCount    \* FairateDeposit.depositCount

depositVars == <<feed, usd, sink, depositCount>>

DepositInit ==
    /\ feed = [c \in DepositContracts |-> InitialReading]
    /\ usd = [a \in Addresses |-> InitialUSD]
    /\ sink = 0
    /\ depositCount = [c \in DepositContracts |-> 0]

-----------------------------------------------------------------------------

\* The publisher or the operator posts a new answer, or the last one ages.
FeedMoves(c) ==
    /\ \E r \in Readings \ {feed[c]} : feed' = [feed EXCEPT ![c] = r]
    /\ UNCHANGED <<usd, sink, depositCount>>

\* Mutant: the sign of the answer is not looked at.
ObservableAnySign(c) == ~feed[c].stale

\* FairateRateFeed.observe does not revert.
Observable(c) == feed[c].answer > 0 /\ ~feed[c].stale

\* The steps of these kinds.
At(tx, kinds) == {i \in DOMAIN tx.steps : tx.steps[i].kind \in kinds}

Calls(tx) == At(tx, {"deposit"})

\* Mutant: only the last call of a transaction moves stablecoin.
LastAmount(tx) == IF Calls(tx) = {} THEN 0 ELSE tx.steps[Max(Calls(tx))].amount

TotalAmount(tx) == SumFunctionOnSet([i \in Calls(tx) |-> tx.steps[i].amount], Calls(tx))

\* No step of the transaction reverts.
Succeeds(tx) ==
    /\ \A i \in Calls(tx) :
          /\ tx.steps[i].receiver # ZeroAddress
          /\ tx.steps[i].amount # 0
    /\ \A i \in At(tx, {"deposit", "observe"}) : Observable(tx.steps[i].contract)
    /\ TotalAmount(tx) <= usd[tx.sender]

\* The calls of deposit of contract c among the first n steps.
CallsTo(tx, c, n) == {i \in Calls(tx) : i <= n /\ tx.steps[i].contract = c}

\* Mutant: calls of one transaction read the counter before any has raised it.
DepositLogsOneId(tx) ==
    [i \in 1 .. Len(tx.steps) |->
        LET step == tx.steps[i] IN
        CASE step.kind = "deposit" ->
            [contract |-> step.contract, sender |-> tx.sender,
             receiver |-> step.receiver, amount |-> step.amount,
             depositId |-> depositCount[step.contract]]
          [] step.kind = "RemittanceDeposited" -> step.log
          [] OTHER -> NoLog]

DepositLogs(tx) ==
    [i \in 1 .. Len(tx.steps) |->
        LET step == tx.steps[i] IN
        CASE step.kind = "deposit" ->
            [contract |-> step.contract, sender |-> tx.sender,
             receiver |-> step.receiver, amount |-> step.amount,
             depositId |-> depositCount[step.contract]
                              + Cardinality(CallsTo(tx, step.contract, i - 1))]
          [] step.kind = "RemittanceDeposited" -> step.log
          [] OTHER -> NoLog]

\* What observe emits: called by deposit, or on its own.
Observed(c) == [feed |-> c, answer |-> feed[c].answer, decimals |-> feed[c].decimals]

RateLogs(tx) ==
    [i \in 1 .. Len(tx.steps) |->
        LET step == tx.steps[i] IN
        CASE step.kind \in {"deposit", "observe"} -> Observed(step.contract)
          [] step.kind = "RateObserved" -> step.log
          [] OTHER -> NoLog]

\* A transaction whose steps all go through.
Deposit(tx) ==
    /\ Len(receipts) < MaxReceipts
    /\ Succeeds(tx)
    /\ usd' = [usd EXCEPT ![tx.sender] = @ - TotalAmount(tx)]
    /\ sink' = sink + TotalAmount(tx)
    /\ depositCount' = [c \in DepositContracts |->
          depositCount[c] + Cardinality(CallsTo(tx, c, Len(tx.steps)))]
    /\ receipts' = Append(receipts, [status |-> TRUE,
                                     deposits |-> DepositLogs(tx),
                                     rates |-> RateLogs(tx)])
    /\ UNCHANGED <<feed, attested>>

\* A transaction that reverts is still in a block.
DepositReverts(tx) ==
    /\ Len(receipts) < MaxReceipts
    /\ ~Succeeds(tx)
    /\ receipts' = Append(receipts, RevertedReceipt)
    /\ UNCHANGED <<depositVars, attested>>

-----------------------------------------------------------------------------

DepositTypeOK ==
    /\ feed \in [DepositContracts -> Readings]
    /\ depositCount \in [DepositContracts -> Nat]

=============================================================================
