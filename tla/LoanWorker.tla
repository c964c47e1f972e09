----------------------------- MODULE LoanWorker -----------------------------
(***************************************************************************)
(* loan/scripts/worker.ts, the process that carries loans between the two  *)
(* contracts of LoanManager: it polls both chains for events, registers    *)
(* the funding of new loans, proves fundings and repayments, and expires   *)
(* loans at their deadline.                                                *)
(*                                                                         *)
(* An action is the code from one await to the next.  The polls of a round *)
(* run concurrently, and so do the handlers of Creditcoin's blocks; the    *)
(* next round starts when every poll has returned.  The four polls that    *)
(* only log events are left out.  A transaction waits in the queue of its  *)
(* chain, in nonce order, until it is mined or reverts there.  Each log of *)
(* the source chain is a block of its own.  A transaction executes in      *)
(* block ccBlock, so the latest block is the one before.                   *)
(***************************************************************************)
EXTENDS LoanManager, EventPolling, SequencesExt

CONSTANTS
    MaxProcessedTxs,        \* MAX_PROCESSED_TXS
    ProvedByOthers          \* bound: logs that loan_proof.ts, or anybody, proves

VARIABLES
    registeredAt,   \* the block of the LoanRegistered event of a loan
    emitted,        \* the last block that the 'block' handler was called for
    tracker,        \* loanTracker, None for a loan the worker does not know
    expiring,       \* loans that running calls of the 'block' handler go through
    processedTxs,   \* the transactions of <<event name, loan or log>>
    polls,
    sourceTxs,      \* sent to the source chain and not mined: [kind, id]
    ccTxs,          \* sent to Creditcoin and not mined: [kind, id]
    lossless        \* history: no block skipped, no transaction or proof refused

chainVars == <<vars, registeredAt>>
blockVars == <<emitted, expiring>>
workerVars == <<blockVars, tracker, processedTxs, polls, sourceTxs, ccTxs, lossless>>
allVars == <<chainVars, workerVars>>

\* What loanTracker holds of a loan, which is never mistaken for nothing.
LoanInfo == [repayLeft : Int, funded : BOOLEAN, repaid : BOOLEAN, expired : BOOLEAN]

ASSUME TrackerAssumption == None \notin LoanInfo

SourceEvents == {"LoanFunded", "LoanRepaid"}
Pollers == SourceEvents \cup {"LoanRegistered"}

WorkerInit ==
    /\ Init
    /\ registeredAt = [l \in LoanIds |-> 0]
    /\ emitted = 0
    /\ tracker = [l \in LoanIds |-> None]
    /\ expiring = {}
    /\ processedTxs = {}
    /\ polls = [p \in Pollers |-> PollFrom(0)]
    /\ sourceTxs = <<>>
    /\ ccTxs = <<>>
    /\ lossless = TRUE

-----------------------------------------------------------------------------
(* The polling loop.                                                       *)

\* The events of poller p between two blocks, in order.
EventsBetween(p, first, last) ==
    LET Seen(n) ==
            IF p = "LoanRegistered" THEN registeredAt[n] \in first .. last
            ELSE n \in first .. last /\ logs[n].contract = Auxiliary /\ logs[n].event = p
        count == IF p = "LoanRegistered" THEN Cardinality(registeredLoans) ELSE Len(logs)
    IN  FlattenSeq([n \in 1 .. count |-> IF Seen(n) THEN <<n>> ELSE <<>>])

\* The event a handler has in hand, its transaction, and its loan.
InHand(p) == Head(polls[p].todo)
txHash(p) == <<p, InHand(p)>>
LoanInHand(p) == IF p = "LoanRegistered" THEN InHand(p) ELSE logs[InHand(p)].loanId

At(p, what) == polls[p].at = what
Moves(p, poll) == polls' = [polls EXCEPT ![p] = poll]

\* Mutant: the next round reads the source chain from the block of Creditcoin.
SwappedResults ==
    [p \in Pollers |-> PollFrom(IF p = "LoanRegistered" THEN polls["LoanFunded"].start
                                ELSE polls["LoanRegistered"].start)]

\* Of the results, those of LoanRegistered and of LoanFunded are used.
NextCursors ==
    [p \in Pollers |-> PollFrom(IF p = "LoanRegistered" THEN polls["LoanRegistered"].start
                                ELSE polls["LoanFunded"].start)]

\* Every poll has returned: the next round, after the cache is trimmed.
StartRound ==
    /\ \A p \in Pollers : At(p, "done")
    /\ polls' = NextCursors
    /\ processedTxs' = IF Cardinality(processedTxs) > MaxProcessedTxs THEN {} ELSE processedTxs
    /\ UNCHANGED <<chainVars, blockVars, tracker, sourceTxs, ccTxs, lossless>>

\* The provider answers getBlockNumber once for the polls that start together.
OfChain(S) == \A p \in S : At(p, "head")

Latest(S) == IF S = SourceEvents THEN Len(logs) ELSE ccBlock - 1

ReadHead(S) ==
    /\ OfChain(S)
    /\ polls' = [p \in Pollers |-> IF p \in S THEN HeadRead(polls[p], Latest(S)) ELSE polls[p]]
    /\ UNCHANGED <<chainVars, blockVars, tracker, processedTxs, sourceTxs, ccTxs, lossless>>

HeadError(S) ==
    /\ OfChain(S)
    /\ polls' = [p \in Pollers |-> IF p \in S THEN HeadFailed(polls[p]) ELSE polls[p]]
    /\ UNCHANGED <<chainVars, blockVars, tracker, processedTxs, sourceTxs, ccTxs, lossless>>

Query(p) ==
    /\ At(p, "chunk")
    /\ Moves(p, Queried(polls[p], EventsBetween(p, polls[p].start, ChunkEnd(polls[p]))))
    /\ UNCHANGED <<chainVars, blockVars, tracker, processedTxs, sourceTxs, ccTxs, lossless>>

\* A query fails, a read of the order fails, the wait for the attestation times
\* out: what is thrown outside of a handler's own try block.
Throw(p) ==
    /\ \/ At(p, "chunk")
       \/ p \in SourceEvents /\ \E what \in {"order", "proof", "submit"} : At(p, what)
    /\ Moves(p, ChunkFailed(polls[p]))
    /\ lossless' = (lossless /\ ~Skips(polls[p]))
    /\ UNCHANGED <<chainVars, blockVars, tracker, processedTxs, sourceTxs, ccTxs>>

\* The handler returns and leaves everything as it is.
Leaves(p) ==
    /\ Moves(p, Returned(polls[p]))
    /\ UNCHANGED <<tracker, processedTxs>>

\* Mutant: the transaction is not remembered.
Forgets(p) == Moves(p, Returned(polls[p])) /\ UNCHANGED processedTxs

\* The handler marks the transaction as processed and returns.
Finishes(p) ==
    /\ Moves(p, Returned(polls[p]))
    /\ processedTxs' = processedTxs \cup {txHash(p)}

\* The handler sends a transaction and goes on, or the sending fails.
Refused(p) ==
    /\ Leaves(p)
    /\ lossless' = FALSE
    /\ UNCHANGED <<sourceTxs, ccTxs>>

-----------------------------------------------------------------------------
(* The handlers, up to their first await, and from each await to the next. *)

NewLoanInfo(l) ==
    [repayLeft |-> orders[l].terms.repay, funded |-> FALSE, repaid |-> FALSE, expired |-> FALSE]

\* 5. LoanRegistered; loanExpiriesAt is the deadlines of the loans in the tracker.
OnRegistered(p) ==
    LET l == LoanInHand(p) IN
    /\ At(p, "event") /\ p = "LoanRegistered"
    /\ IF txHash(p) \in processedTxs
       THEN Leaves(p)
       ELSE /\ tracker' = [tracker EXCEPT ![l] = NewLoanInfo(l)]
            /\ Moves(p, Waiting(polls[p], "submit"))
            /\ UNCHANGED processedTxs
    /\ UNCHANGED <<chainVars, blockVars, sourceTxs, ccTxs, lossless>>

\* registerLoanFund is estimated before it is sent, so it is refused if it would
\* revert now.
SubmitRegistration(p) ==
    LET l == LoanInHand(p) IN
    /\ At(p, "submit") /\ p = "LoanRegistered"
    /\ \/ /\ CanWorkerRegister(l)
          /\ sourceTxs' = Append(sourceTxs, [kind |-> "register", id |-> l])
          /\ Finishes(p)
          /\ UNCHANGED <<tracker, ccTxs, lossless>>
       \/ Refused(p)
    /\ UNCHANGED <<chainVars, blockVars>>

\* 6. and 7. LoanFunded and LoanRepaid.
OnSourceEvent(p) ==
    LET info == tracker[LoanInHand(p)] IN
    /\ At(p, "event") /\ p \in SourceEvents
    /\ IF \/ txHash(p) \in processedTxs
          \/ info = None
          \/ p = "LoanFunded" /\ (info.expired \/ info.repaid \/ info.funded)
       THEN Leaves(p)
       ELSE Moves(p, Waiting(polls[p], "order")) /\ UNCHANGED <<tracker, processedTxs>>
    /\ UNCHANGED <<chainVars, blockVars, sourceTxs, ccTxs, lossless>>

HasBeenFunded(status) == status \in {"Funded", "PartlyRepaid", "Repaid"}
Repayable(status) == status \in {"Funded", "PartlyRepaid"}

\* getLoanOrder, before the proof of a funding is generated and before it is sent.
ReadFundedOrder(p) ==
    LET l == LoanInHand(p)
        status == orders[l].status
    IN  /\ At(p, "order") /\ p = "LoanFunded"
        /\ IF status # "Created"
           THEN /\ tracker' = [tracker EXCEPT ![l].funded = HasBeenFunded(status)]
                /\ Finishes(p)
           ELSE Moves(p, Waiting(polls[p], "proof")) /\ UNCHANGED <<tracker, processedTxs>>
        /\ UNCHANGED <<chainVars, blockVars, sourceTxs, ccTxs, lossless>>

\* generateProofFor returns: the block is attested and the proof service has the
\* proof, or has not.
Prove(p) ==
    /\ At(p, "proof")
    /\ InHand(p) <= attested
    /\ \/ /\ Moves(p, Waiting(polls[p], "submit"))
          /\ UNCHANGED <<tracker, processedTxs, sourceTxs, ccTxs, lossless>>
       \/ Refused(p)
    /\ UNCHANGED <<chainVars, blockVars>>

\* Sent even if the estimate says that it reverts: computeGasLimit swallows that.
SendProof(p, kind) ==
    /\ ccTxs' = Append(ccTxs, [kind |-> kind, id |-> InHand(p)])
    /\ Moves(p, Waiting(polls[p], "sent"))
    /\ UNCHANGED <<tracker, processedTxs, sourceTxs, lossless>>

SubmitFundProof(p) ==
    LET l == LoanInHand(p)
        status == orders[l].status
    IN  /\ At(p, "submit") /\ p = "LoanFunded"
        /\ IF status # "Created"
           THEN /\ tracker' = [tracker EXCEPT ![l].funded = HasBeenFunded(status)]
                /\ Finishes(p)
                /\ UNCHANGED <<sourceTxs, ccTxs, lossless>>
           ELSE SendProof(p, "fund") \/ Refused(p)
        /\ UNCHANGED <<chainVars, blockVars>>

\* Two seconds after the proof was sent, mined or not.
FundProofSent(p) ==
    /\ At(p, "sent") /\ p = "LoanFunded"
    /\ tracker' = [tracker EXCEPT ![LoanInHand(p)].funded = TRUE]
    /\ Finishes(p)
    /\ UNCHANGED <<chainVars, blockVars, sourceTxs, ccTxs, lossless>>

ReadRepaidOrder(p) ==
    LET l == LoanInHand(p)
        info == tracker[l]
        status == orders[l].status
        funded == info.funded \/ HasBeenFunded(status)
    IN  /\ At(p, "order") /\ p = "LoanRepaid"
        /\ IF info.expired \/ info.repaid
           THEN Leaves(p)
           ELSE /\ tracker' = [tracker EXCEPT ![l].funded = funded,
                                              ![l].repaid = funded /\ status = "Repaid"]
                /\ IF funded /\ status = "Repaid" THEN Finishes(p)
                   ELSE /\ Moves(p, IF funded /\ Repayable(status)
                                    THEN Waiting(polls[p], "proof") ELSE Returned(polls[p]))
                        /\ UNCHANGED processedTxs
        /\ UNCHANGED <<chainVars, blockVars, sourceTxs, ccTxs, lossless>>

SubmitRepayProof(p) ==
    LET l == LoanInHand(p)
        status == orders[l].status
    IN  /\ At(p, "submit") /\ p = "LoanRepaid"
        /\ \/ /\ status = "Repaid"
              /\ tracker' = [tracker EXCEPT ![l].repaid = TRUE]
              /\ Finishes(p)
              /\ UNCHANGED <<sourceTxs, ccTxs, lossless>>
           \/ /\ status \in {"Created", "Expired"}
              /\ Leaves(p)
              /\ UNCHANGED <<sourceTxs, ccTxs, lossless>>
           \/ Repayable(status) /\ (SendProof(p, "repay") \/ Refused(p))
        /\ UNCHANGED <<chainVars, blockVars>>

RepayProofSent(p) ==
    LET l == LoanInHand(p)
        left == tracker[l].repayLeft - logs[InHand(p)].amount
    IN  /\ At(p, "sent") /\ p = "LoanRepaid"
        /\ tracker' = [tracker EXCEPT ![l].repayLeft = left,
                                      ![l].repaid = @ \/ left <= 0]
        /\ Finishes(p)
        /\ UNCHANGED <<chainVars, blockVars, sourceTxs, ccTxs, lossless>>

Handle(p) ==
    \/ OnRegistered(p) \/ SubmitRegistration(p)
    \/ OnSourceEvent(p) \/ Prove(p)
    \/ ReadFundedOrder(p) \/ SubmitFundProof(p) \/ FundProofSent(p)
    \/ ReadRepaidOrder(p) \/ SubmitRepayProof(p) \/ RepayProofSent(p)

-----------------------------------------------------------------------------
(* The 'block' handler.                                                    *)

\* Mutant: all that are due at this block or later.
ExpiriesFrom(block) == {l \in LoanIds : tracker[l] # None /\ Deadline(l) >= block}

loanExpiriesAt(block) == {l \in LoanIds : tracker[l] # None /\ Deadline(l) = block}

\* The provider emits every block number, in order.
EmitBlock ==
    /\ emitted < ccBlock - 1
    /\ emitted' = emitted + 1
    /\ expiring' = expiring \cup loanExpiriesAt(emitted + 1)
    /\ UNCHANGED <<chainVars, tracker, processedTxs, polls, sourceTxs, ccTxs, lossless>>

\* Mutant: loans that were never funded do not expire.
FundedAndUnpaid(l) == tracker[l].funded /\ ~tracker[l].repaid /\ ~tracker[l].expired

Unpaid(l) == ~tracker[l].repaid /\ ~tracker[l].expired

\* Both contracts are told, the source chain first; an error there leaves out
\* the other one.  Creditcoin's call is estimated, the source's cannot revert.
ExpireLoan(l) ==
    LET tx == [kind |-> "expire", id |-> l] IN
    /\ l \in expiring
    /\ expiring' = expiring \ {l}
    /\ IF Unpaid(l)
       THEN /\ tracker' = [tracker EXCEPT ![l].expired = TRUE]
            /\ \/ UNCHANGED <<sourceTxs, ccTxs>> /\ lossless' = FALSE
               \/ /\ sourceTxs' = Append(sourceTxs, tx)
                  /\ \/ UNCHANGED ccTxs /\ lossless' = (lossless /\ ~Expirable(l))
                     \/ Expirable(l) /\ ccTxs' = Append(ccTxs, tx) /\ UNCHANGED lossless
       ELSE UNCHANGED <<tracker, sourceTxs, ccTxs, lossless>>
    /\ UNCHANGED <<chainVars, emitted, processedTxs, polls>>

-----------------------------------------------------------------------------
(* The chains and everybody else.                                          *)

MineOnSource ==
    LET tx == Head(sourceTxs) IN
    /\ sourceTxs # <<>>
    /\ sourceTxs' = Tail(sourceTxs)
    /\ \/ tx.kind = "register" /\ WorkerRegisters(tx.id)
       \/ tx.kind = "register" /\ ~CanWorkerRegister(tx.id) /\ UNCHANGED auxiliaryVars
       \/ tx.kind = "expire" /\ ExpireOnSource(tx.id)
    /\ UNCHANGED <<managerVars, registeredAt, blockVars, tracker, processedTxs, polls,
                   ccTxs, lossless>>

\* What Creditcoin requires of a transaction.
Executes(tx) ==
    CASE tx.kind = "fund" -> CanMarkLoanAsFunded(tx.id)
      [] tx.kind = "repay" -> CanNoteLoanRepayment(tx.id)
      [] tx.kind = "expire" -> Expirable(tx.id)

MineOnCreditcoin ==
    LET tx == Head(ccTxs) IN
    /\ ccTxs # <<>>
    /\ ccTxs' = Tail(ccTxs)
    /\ \/ tx.kind = "fund" /\ MarkLoanAsFunded(tx.id)
       \/ tx.kind = "repay" /\ NoteLoanRepayment(tx.id)
       \/ tx.kind = "expire" /\ MarkLoanAsExpired(tx.id)
       \/ ~Executes(tx) /\ UNCHANGED managerVars
    /\ UNCHANGED <<auxiliaryVars, registeredAt, blockVars, tracker, processedTxs, polls,
                   sourceTxs, lossless>>

\* The token is authorized and the contract registered before there are loans.
SetUp ==
    \/ ~authorized /\ Authorize(TRUE) /\ UNCHANGED managerVars
    \/ authorized /\ sourceLoanContract = None
         /\ RegisterSourceLoanContract(Auxiliary) /\ UNCHANGED auxiliaryVars

\* Parties register, fund and repay loans; anybody may prove a log.
Parties ==
    \/ SetUp /\ UNCHANGED registeredAt
    \/ /\ sourceLoanContract # None
       /\ \E offer \in Offers : RegisterLoan(offer)
       /\ registeredAt' = [registeredAt EXCEPT ![nextLoanId] = ccBlock]
       /\ UNCHANGED auxiliaryVars
    \/ /\ \E l \in LoanIds, amount \in Payments : FundLoan(l, amount) \/ RepayLoan(l, amount)
       /\ UNCHANGED <<managerVars, registeredAt>>
    \/ /\ \E q \in DOMAIN logs \cap ProvedByOthers : MarkLoanAsFunded(q) \/ NoteLoanRepayment(q)
       /\ UNCHANGED <<auxiliaryVars, registeredAt>>

Attest == AttestLog /\ UNCHANGED <<managerVars, registeredAt, workerVars>>

Heads == {SourceEvents, {"LoanRegistered"}}

\* What the loop of polls does, and what the handlers of blocks do.
PollingStep ==
    \/ StartRound
    \/ \E S \in Heads : ReadHead(S) \/ HeadError(S)
    \/ \E p \in Pollers : Query(p) \/ Handle(p) \/ Throw(p)

BlockStep == EmitBlock \/ \E l \in LoanIds : ExpireLoan(l)

WorkerNext ==
    \/ PollingStep
    \/ BlockStep
    \/ MineOnSource \/ MineOnCreditcoin
    \/ Parties /\ UNCHANGED workerVars
    \/ Attest
    \/ NextBlock /\ UNCHANGED <<auxiliaryVars, registeredAt, workerVars>>

WorkerSpec == WorkerInit /\ [][WorkerNext]_allVars

\* The process runs on: its calls return or time out, and a round has finitely
\* many steps, so no poll starves another.  getBlockNumber does not fail for
\* ever, sent transactions are mined, and the source chain is attested.
FairSpec ==
    /\ WorkerSpec
    /\ WF_allVars(PollingStep) /\ WF_allVars(BlockStep)
    /\ \A S \in Heads : SF_allVars(ReadHead(S))
    /\ WF_allVars(MineOnSource) /\ WF_allVars(MineOnCreditcoin)
    /\ WF_allVars(Attest)

-----------------------------------------------------------------------------

\* What LoanManager takes the worker to do is what it does: it registers the
\* funding of a loan on the terms of its order, and never expires one before its
\* deadline, on either chain.
ImplementsLoanManager == Spec

\* The repayments Creditcoin has been told of, or is about to be.
Told == processedQueries \cup {tx.id : tx \in {t \in Range(ccTxs) : t.kind = "repay"}}

\* A repayment counts once, also when its event is delivered again after an
\* error: until the deadline the worker counts no more than Creditcoin is told,
\* and a loan it calls repaid has been paid in full on the source chain.
RepaymentsCountOnce ==
    \A l \in LoanIds :
        tracker[l] # None =>
            /\ \/ orders[l].terms.repay - tracker[l].repayLeft <= Volume(Repayments(l) \cap Told)
               \/ ccBlock > Deadline(l)
            /\ tracker[l].repaid => repayLeft[l] = 0 /\ Repayments(l) # {}

\* "Skip a bad block instead of retrying forever on the same range": whatever
\* fails, and however often, every round of polling ends.
RoundsEnd == []<>(\A p \in Pollers : At(p, "done"))

\* If nothing is lost for good, a loan that is funded on the source chain is
\* funded on Creditcoin, unless its deadline comes first.
FundingsAreProved ==
    \A l \in LoanIds :
        l \in repayable
            ~> orders[l].status # "Created" \/ ccBlock > Deadline(l) \/ ~lossless

\* If nothing is lost for good, a repayment that a coming round reads, of a loan
\* Creditcoin already calls funded, is proved unless the deadline comes first.
RepaymentsAreProved ==
    \A q \in 2 .. MaxLogs :       \* the first log is of a funding
        LET made == q \in DOMAIN logs /\ logs[q].event = "LoanRepaid"
            coming == \A p \in SourceEvents : At(p, "done") /\ polls[p].start <= q
        IN  (made /\ Repayable(orders[logs[q].loanId].status) /\ coming)
                ~> \/ q \in processedQueries \/ ~lossless
                   \/ made /\ ccBlock > Deadline(logs[q].loanId)

\* If nothing is lost for good, a loan that is in the tracker when its deadline
\* block is handled, and not paid, expires on both chains.  It counts as paid as
\* soon as the proofs of its repayments are sent.
TrackedLoansExpire ==
    \A l \in LoanIds :
        tracker[l] # None /\ emitted < Deadline(l) /\ ccBlock > Deadline(l)
            ~> \/ orders[l].status = "Expired" /\ l \in expiredLoans
               \/ orders[l].status = "Repaid"
               \/ tracker[l] # None /\ tracker[l].repaid
               \/ ~lossless

=============================================================================
