-------------------------- MODULE RemittanceEscrow --------------------------
(***************************************************************************)
(* The payout half of the corridor, on Creditcoin: the RemittanceEscrow    *)
(* contract with what it inherits from ASCBase (the query-id replay guard  *)
(* and the single-transaction entry point), the native verifier it asks,   *)
(* and the payout tokens it mints.                                         *)
(*                                                                         *)
(* A call that reverts leaves no state behind, so only calls that go       *)
(* through are steps.  Their guards are the conjunction of every require   *)
(* and revert on their way, the checked arithmetic of uint256 included.    *)
(***************************************************************************)
EXTENDS CorridorReceipts, Functions

CONSTANTS
    PayoutTokens,       \* FairateMintableToken contracts on Creditcoin
    MinterTokens,       \* those deployed with this escrow as their minter
    NoToken,            \* corridors[c] of an unregistered contract
    Admin,              \* the account that deployed the escrow
    MaxRateDecimals,    \* MAX_RATE_DECIMALS
    MaxWord,            \* type(uint256).max
    MaxBatch,           \* bound: entries of one executeBatch call
    MaxBlock            \* bound: Creditcoin blocks

ASSUME TokensAssumption ==
    MinterTokens \subseteq PayoutTokens /\ NoToken \notin PayoutTokens

\* The second conjunct is arithmetic; stated because the provers do not know it.
ASSUME RateDecimalsAssumption ==
    /\ MaxRateDecimals \in Nat
    /\ \A d \in LogDecimals : d <= MaxRateDecimals => 10 ^ d > 0

VARIABLES
    corridors,          \* source contract -> payout token
    processedQueries,   \* ASCBase.processedQueries
    balances,           \* balanceOf, per payout token
    reputation,         \* credit record per address
    released,           \* the TransferReleased events, in order
    ccBlock             \* block.number on Creditcoin

escrowVars == <<corridors, processedQueries, balances, reputation, released,
                ccBlock>>

NoReputation == [transfersSent |-> 0, transfersReceived |-> 0,
                 volumeSent |-> 0, volumeReceived |-> 0, firstSeenBlock |-> 0]

EscrowInit ==
    /\ corridors = [c \in Contracts |-> NoToken]
    /\ processedQueries = {}
    /\ balances = [t \in PayoutTokens |-> [a \in Addresses |-> 0]]
    /\ reputation = [a \in Addresses |-> NoReputation]
    /\ released = <<>>
    /\ ccBlock = 1

-----------------------------------------------------------------------------

RegisterCorridor(caller, c, t) ==
    /\ caller = Admin
    /\ corridors[c] = NoToken
    /\ t \in MinterTokens
    /\ corridors' = [corridors EXCEPT ![c] = t]
    /\ UNCHANGED <<processedQueries, balances, reputation, released, ccBlock>>

\* The escrow reads the first log of each signature.  The emitter of the deposit
\* log must be registered; the emitter of the rate log is not looked at.
DepositOf(q) == FirstLog(receipts[q].deposits)
RateOf(q) == FirstLog(receipts[q].rates)

TokenOf(q) == corridors[DepositOf(q).contract]

\* amount * rate does not overflow.
Fits(q) == DepositOf(q).amount * RateOf(q).answer <= MaxWord

Payout(q) == (DepositOf(q).amount * RateOf(q).answer) \div 10 ^ RateOf(q).decimals

\* The requires of _processRelease, and of the decoders it calls.
Releasable(q) ==
    /\ receipts[q].status
    /\ Emitted(receipts[q].deposits) # {}
    /\ TokenOf(q) # NoToken
    /\ Emitted(receipts[q].rates) # {}
    /\ RateOf(q).answer > 0
    /\ RateOf(q).decimals <= MaxRateDecimals
    /\ Fits(q)
    /\ Payout(q) > 0
    /\ TokenOf(q) \in MinterTokens

TransferReleased(q) ==
    [sender |-> DepositOf(q).sender, receiver |-> DepositOf(q).receiver,
     amountDeposited |-> DepositOf(q).amount, amountPaid |-> Payout(q),
     rate |-> RateOf(q).answer, rateDecimals |-> RateOf(q).decimals,
     depositId |-> DepositOf(q).depositId, queryId |-> q]

\* Mutant: a batch is paid as its first entry.
MintedFirst(qs, t, a) ==
    IF TokenOf(qs[1]) = t /\ DepositOf(qs[1]).receiver = a THEN Payout(qs[1]) ELSE 0

\* What the entries qs mint to account a in token t.
Minted(qs, t, a) ==
    LET theirs == {i \in DOMAIN qs : TokenOf(qs[i]) = t /\ DepositOf(qs[i]).receiver = a}
    IN  SumFunctionOnSet([i \in DOMAIN qs |-> Payout(qs[i])], theirs)

\* Mutant: a transfer to oneself counts as sent only.
RecordedOneSide(qs, a) ==
    LET sent == {i \in DOMAIN qs : DepositOf(qs[i]).sender = a}
        got  == {i \in DOMAIN qs : DepositOf(qs[i]).receiver = a} \ sent
        volume(S) == SumFunctionOnSet([i \in DOMAIN qs |-> Payout(qs[i])], S)
        r == reputation[a]
    IN  [transfersSent |-> r.transfersSent + Cardinality(sent),
         transfersReceived |-> r.transfersReceived + Cardinality(got),
         volumeSent |-> r.volumeSent + volume(sent),
         volumeReceived |-> r.volumeReceived + volume(got),
         firstSeenBlock |-> IF sent \cup got # {} /\ r.firstSeenBlock = 0
                            THEN ccBlock ELSE r.firstSeenBlock]

\* _recordReputation over the entries qs, in the current block.
Recorded(qs, a) ==
    LET sent == {i \in DOMAIN qs : DepositOf(qs[i]).sender = a}
        got  == {i \in DOMAIN qs : DepositOf(qs[i]).receiver = a}
        volume(S) == SumFunctionOnSet([i \in DOMAIN qs |-> Payout(qs[i])], S)
        r == reputation[a]
    IN  [transfersSent |-> r.transfersSent + Cardinality(sent),
         transfersReceived |-> r.transfersReceived + Cardinality(got),
         volumeSent |-> r.volumeSent + volume(sent),
         volumeReceived |-> r.volumeReceived + volume(got),
         firstSeenBlock |-> IF sent \cup got # {} /\ r.firstSeenBlock = 0
                            THEN ccBlock ELSE r.firstSeenBlock]

\* The totals that mint and _recordReputation add to do not overflow.
TotalsFit(bal, rep) ==
    /\ \A t \in PayoutTokens : SumFunctionOnSet(bal[t], Addresses) <= MaxWord
    /\ \A a \in Addresses : rep[a].volumeSent <= MaxWord /\ rep[a].volumeReceived <= MaxWord

\* Mark the entries processed and release each of them.
Release(qs) ==
    /\ \A i \in DOMAIN qs : Releasable(qs[i])
    /\ processedQueries' = processedQueries \cup Range(qs)
    /\ balances' = [t \in PayoutTokens |->
                       [a \in Addresses |-> balances[t][a] + Minted(qs, t, a)]]
    /\ reputation' = [a \in Addresses |-> Recorded(qs, a)]
    /\ TotalsFit(balances', reputation')
    /\ released' = released \o [i \in 1 .. Len(qs) |-> TransferReleased(qs[i])]
    /\ UNCHANGED <<corridors, ccBlock>>

\* Mutant: the proof is not verified.
NotVerified(qs) == TRUE

\* The verifier precompile accepts proofs of transactions in attested blocks
\* (external to src/).
Verified(qs) == Range(qs) \subseteq AttestedQueries

\* Mutant: the replay guard is gone.
Unguarded(qs) == TRUE

\* require(!processedQueries[queryId]) for every entry of a call.
NotProcessed(qs) == Range(qs) \cap processedQueries = {}

\* Mutant: an entry is compared with its neighbour only.
NoNeighbour(qs) == \A i \in DOMAIN qs : i > 1 => qs[i - 1] # qs[i]

\* The loop over j < i: no entry repeats an earlier one.
NoDuplicate(qs) == \A i \in DOMAIN qs : \A j \in 1 .. i - 1 : qs[j] # qs[i]

\* ASCBase.execute, external to src/, up to _processAndEmitEvent.
Execute(q) ==
    /\ NotProcessed(<<q>>)
    /\ Verified(<<q>>)
    /\ Release(<<q>>)

ExecuteBatch(qs) ==
    /\ qs # <<>>
    /\ NotProcessed(qs)
    /\ NoDuplicate(qs)
    /\ Verified(qs)
    /\ Release(qs)

\* Creditcoin produces a block.
NextBlock ==
    /\ ccBlock < MaxBlock
    /\ ccBlock' = ccBlock + 1
    /\ UNCHANGED <<corridors, processedQueries, balances, reputation, released>>

-----------------------------------------------------------------------------

ReleaseEvent ==
    [sender : Addresses, receiver : Addresses, amountDeposited : Nat,
     amountPaid : Nat, rate : Nat, rateDecimals : Nat, depositId : Nat,
     queryId : QueryIds]

EscrowTypeOK ==
    /\ corridors \in [Contracts -> PayoutTokens \cup {NoToken}]
    /\ processedQueries \subseteq QueryIds
    /\ released \in Seq(ReleaseEvent)
    /\ ccBlock \in Nat

=============================================================================
