----------------------------- MODULE BurnMinter -----------------------------
(***************************************************************************)
(* The two contracts of the bridge: TestERC20 on the source chain, whose   *)
(* holders burn tokens by sending them to a sink, and ASCMinter, which     *)
(* mints for a proved burn the token its emitter is mapped to.             *)
(*                                                                         *)
(* A transaction of the source chain is its caller, its status and its     *)
(* logs of TokensBurnedForBridging, several if the caller is a contract.   *)
(* Other contracts emit that event too.  Each transaction is a block.      *)
(***************************************************************************)
EXTENDS Integers, Sequences, FiniteSets, Functions

CONSTANTS
    Holders,        \* callers of the source chain
    Token,          \* the TestERC20
    Others,         \* other contracts of the source chain
    Wrapped,        \* ASCMintableTokens the minter has the role for
    None,           \* address(0)
    Supply,         \* TestERC20 tokens each holder starts with
    Calls,          \* what a transaction may emit: sequences of logs
    MaxTxs          \* bound: transactions of the source chain

Emitters == {Token} \cup Others
BurnLog == [emitter : Emitters, amount : Nat]

\* Holders are addresses, of 160 bits.
ASSUME HoldersAssumption == IsFiniteSet(Holders)

ASSUME BurnMinterAssumption ==
    /\ None \notin Wrapped
    /\ Supply \in Nat
    /\ Calls \subseteq Seq(BurnLog)

VARIABLES
    balances,           \* balanceOf of TestERC20
    txs,                \* the source chain: [from, ok, logs]
    attested,           \* how many transactions are in attested blocks
    wrappedTokens,      \* of the minter
    processedQueries,   \* ASCBase.processedQueries
    tokensMinted        \* the TokensMinted events: [query, token, to, amount]

minterVars == <<wrappedTokens, processedQueries, tokensMinted>>
vars == <<balances, txs, attested, minterVars>>

Init ==
    /\ balances = [h \in Holders |-> Supply]
    /\ txs = <<>>
    /\ attested = 0
    /\ wrappedTokens = [e \in Emitters |-> None]
    /\ processedQueries = {}
    /\ tokensMinted = <<>>

-----------------------------------------------------------------------------

\* The amount a sequence of logs burns.
Burns(logs) ==
    SumFunctionOnSet([i \in DOMAIN logs |->
        IF logs[i].emitter = Token THEN logs[i].amount ELSE 0], DOMAIN logs)

\* A transaction of holder h that calls burn; it reverts as a whole when the
\* tokens do not suffice.
Transact(h, logs) ==
    LET ok == Burns(logs) <= balances[h] IN
    /\ Len(txs) < MaxTxs
    /\ txs' = Append(txs, [from |-> h, ok |-> ok, logs |-> IF ok THEN logs ELSE <<>>])
    /\ balances' = IF ok THEN [balances EXCEPT ![h] = @ - Burns(logs)] ELSE balances
    /\ UNCHANGED <<attested, minterVars>>

\* Attestors attest the source chain in block order (external to src/).
AttestBlock ==
    /\ attested < Len(txs)
    /\ attested' = attested + 1
    /\ UNCHANGED <<balances, txs, minterVars>>

\* An origin is wrapped once.
NotWrapped(origin) == wrappedTokens[origin] = None

\* wrapOriginToken, called by the owner of the target.
WrapOriginToken(origin, target) ==
    /\ NotWrapped(origin)
    /\ wrappedTokens' = [wrappedTokens EXCEPT ![origin] = target]
    /\ UNCHANGED <<balances, txs, attested, processedQueries, tokensMinted>>

\* What a proof of transaction q mints: its first burn log, whoever emitted it.
Payment(q) ==
    LET log == txs[q].logs[1] IN
    [query |-> q, token |-> wrappedTokens[log.emitter], to |-> txs[q].from, amount |-> log.amount]

\* The requires of _processMint.
Mintable(q) ==
    /\ txs[q].ok
    /\ txs[q].logs # <<>>
    /\ wrappedTokens[txs[q].logs[1].emitter] # None

\* Mutant: the minter does not look whether a query has been processed.
InAttestedBlock(q) == q \in 1 .. attested

\* ASCBase.execute, external to src/, up to _processAndEmitEvent.
Provable(q) == q \in 1 .. attested /\ q \notin processedQueries

CanMint(q) == Provable(q) /\ Mintable(q)

\* execute with the action Mint.
Mint(q) ==
    /\ CanMint(q)
    /\ processedQueries' = processedQueries \cup {q}
    /\ tokensMinted' = Append(tokensMinted, Payment(q))
    /\ UNCHANGED <<balances, txs, attested, wrappedTokens>>

Next ==
    \/ \E h \in Holders, logs \in Calls : Transact(h, logs)
    \/ AttestBlock
    \/ \E origin \in Emitters, target \in Wrapped : WrapOriginToken(origin, target)
    \/ \E q \in DOMAIN txs : Mint(q)

Spec == Init /\ [][Next]_vars

-----------------------------------------------------------------------------

Tx == [from : Holders, ok : BOOLEAN, logs : Seq(BurnLog)]
TokensMinted == [query : Nat, token : Wrapped, to : Holders, amount : Nat]

\* The state of the minter and of the source chain it reads has its type.
MinterTypeOK ==
    /\ txs \in Seq(Tx)
    /\ attested \in 0 .. Len(txs)
    /\ wrappedTokens \in [Emitters -> Wrapped \cup {None}]
    /\ processedQueries \subseteq 1 .. attested
    /\ tokensMinted \in Seq(TokensMinted)

\* A burn is a debt once its block is attested and its emitter is wrapped, and it
\* stays the same debt: the minter pays such debts, one at a time, each once.
Debts == {Payment(q) : q \in {p \in 1 .. attested : Mintable(p)}}
Ledger == INSTANCE PayoutLedger WITH owed <- Debts, ledger <- tokensMinted, MaxSettlement <- 1
ImplementsPayoutLedger == Ledger!Spec

\* What was minted of a token, and what the holders have burnt.
MintsOf(w) == {n \in DOMAIN tokensMinted : tokensMinted[n].token = w}
AmountsMinted == [n \in DOMAIN tokensMinted |-> tokensMinted[n].amount]
AmountsBurnt == [h \in Holders |-> Supply - balances[h]]

\* The minting of a token that only the TestERC20 is mapped to never exceeds what
\* its holders have burnt.
MintsAreBacked ==
    \A w \in Wrapped :
        {e \in Emitters : wrappedTokens[e] = w} = {Token} =>
            SumFunctionOnSet(AmountsMinted, MintsOf(w)) <= SumFunctionOnSet(AmountsBurnt, Holders)

=============================================================================
