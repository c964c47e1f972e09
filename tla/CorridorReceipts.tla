-------------------------- MODULE CorridorReceipts --------------------------
(***************************************************************************)
(* What the two halves of the Fairate corridor share: the transactions of  *)
(* the source chain (Sepolia) as their receipts show them, and how far the *)
(* attestation of that chain has advanced on Creditcoin.  FairateDeposit   *)
(* appends receipts, RemittanceEscrow reads the attested ones.             *)
(*                                                                         *)
(* A receipt keeps the status and the two kinds of log that the escrow     *)
(* filters by event signature.  A signature says nothing of the emitter:   *)
(* any contract that a transaction calls can emit an event of that form.   *)
(* The logs of a kind are a sequence with one place for each step of the   *)
(* transaction: the log that step emitted, or NoLog.                       *)
(***************************************************************************)
EXTENDS Integers, Sequences, FiniteSets, FiniteSetsExt

CONSTANTS
    DepositContracts,   \* the FairateDeposit contracts on the source chain
    OtherContracts,     \* other contracts there that emit the same events
    Addresses,          \* accounts, the same key on both chains
    ZeroAddress,        \* address(0)
    FeedDecimals,       \* decimals() of the feeds the corridors read
    LogDecimals,        \* what a log can say decimals are: any uint8
    NoLog               \* what a step without a log of a kind emits

ASSUME ZeroAddressAssumption == ZeroAddress \notin Addresses

\* Addresses have 160 bits.
ASSUME AddressesAssumption == IsFiniteSet(Addresses)

ASSUME OtherContractsAssumption == DepositContracts \cap OtherContracts = {}

ASSUME LogDecimalsAssumption ==
    FeedDecimals \subseteq LogDecimals /\ LogDecimals \subseteq Nat

VARIABLES
    receipts,           \* receipts of the source chain, in chain order
    attested            \* how many of them are in attested blocks

Contracts == DepositContracts \cup OtherContracts

\* event RemittanceDeposited
DepositLog == [contract : Contracts, sender : Addresses, receiver : Addresses,
               amount : Nat, depositId : Nat]

\* event RateObserved.  The feed of a deposit contract goes by the name of that
\* contract.  A log that does not decode is like one with an answer of 0.
RateLog == [feed : Contracts, answer : Int, decimals : LogDecimals]

ASSUME NoLogAssumption == NoLog \notin DepositLog \cup RateLog

Receipt == [status : BOOLEAN, deposits : Seq(DepositLog \cup {NoLog}),
            rates : Seq(RateLog \cup {NoLog})]

\* What is left of a transaction that reverted.
RevertedReceipt == [status |-> FALSE, deposits |-> <<>>, rates |-> <<>>]

\* getLogsByEventSignature: where the logs of one kind are, and the first of them.
Emitted(logs) == {i \in DOMAIN logs : logs[i] # NoLog}
FirstLog(logs) == logs[Min(Emitted(logs))]

\* The position of a transaction in the chain: the (chainKey, height, position
\* in the block) that ASCBase hashes into the query id.
QueryIds == Nat \ {0}

AttestedQueries == 1 .. attested

ReceiptsInit ==
    /\ receipts = <<>>
    /\ attested = 0

\* Attestors attest the source chain in block order (external to src/).
Attest ==
    /\ attested < Len(receipts)
    /\ attested' = attested + 1
    /\ UNCHANGED receipts

ReceiptsTypeOK ==
    /\ receipts \in Seq(Receipt)
    /\ attested \in 0 .. Len(receipts)

=============================================================================
