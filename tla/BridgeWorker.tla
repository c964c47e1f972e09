---------------------------- MODULE BridgeWorker ----------------------------
(***************************************************************************)
(* The two ways a burn gets to the minter of BurnMinter: the worker of     *)
(* bridge-offchain-worker/worker.ts, which polls the source chain for      *)
(* burns of its own wallet, and the script submit_query, which proves one  *)
(* transaction by its hash.                                                *)
(*                                                                         *)
(* An action is the code from one await to the next.  The worker's other   *)
(* poll only logs TokensMinted and is left out.  Both send from one wallet *)
(* and do not wait for each other; transactions are mined in the order     *)
(* they are sent.                                                          *)
(***************************************************************************)
EXTENDS BurnMinter, EventPolling, SequencesExt

CONSTANTS
    wallet,             \* the holder whose burns the worker proves
    MaxProcessedTxs,    \* MAX_PROCESSED_TXS
    MaxRestarts,        \* bound: restarts of the worker
    MaxQueries          \* bound: runs of submit_query

ASSUME WorkerAssumption == wallet \in Holders

VARIABLES
    restarts,           \* how often the worker has been restarted
    poll,               \* the poll for TokensBurnedForBridging
    processedBurnTxs,
    queries,            \* runs of submit_query: [tx, at]
    ccTxs,              \* proofs sent to Creditcoin and not mined: [tx, query]
    submitted,          \* history: what the worker has sent since its start
    lossless            \* history: no burn was given up

workerVars == <<restarts, poll, processedBurnTxs, submitted, lossless>>
submitVars == <<queries, ccTxs>>
allVars == <<vars, workerVars, submitVars>>

Worker == 0     \* the sender of a proof that is no run of submit_query

WorkerInit ==
    /\ Init
    /\ restarts = 0
    /\ poll = PollFrom(0)
    /\ processedBurnTxs = {}
    /\ queries = <<>>
    /\ ccTxs = <<>>
    /\ submitted = <<>>
    /\ lossless = TRUE

-----------------------------------------------------------------------------

\* The worker stops, or its process dies, and is started again: it reads from the
\* latest block on.
Restart ==
    /\ restarts < MaxRestarts
    /\ restarts' = restarts + 1
    /\ poll' = PollFrom(Len(txs))
    /\ processedBurnTxs' = {}
    /\ submitted' = <<>>
    /\ lossless' = FALSE
    /\ UNCHANGED <<vars, submitVars>>

\* The poll has returned: the next round, after the cache is trimmed.
StartRound ==
    /\ poll.at = "done"
    /\ poll' = PollFrom(poll.start)
    /\ processedBurnTxs' =
          IF Cardinality(processedBurnTxs) > MaxProcessedTxs THEN {} ELSE processedBurnTxs
    /\ UNCHANGED <<vars, restarts, submitted, lossless, submitVars>>

ReadHead ==
    /\ poll.at = "head"
    /\ poll' \in {HeadRead(poll, Len(txs)), HeadFailed(poll)}
    /\ UNCHANGED <<vars, restarts, processedBurnTxs, submitted, lossless, submitVars>>

\* The burns of the token between two blocks, one event for each log.
EventsBetween(first, last) ==
    FlattenSeq([i \in 1 .. last - first + 1 |->
        LET q == first + i - 1 IN
        IF q \notin DOMAIN txs THEN <<>>
        ELSE [j \in 1 .. Cardinality({k \in DOMAIN txs[q].logs : txs[q].logs[k].emitter = Token})
                 |-> q]])

Query ==
    /\ poll.at = "chunk"
    /\ poll' = Queried(poll, EventsBetween(poll.start, ChunkEnd(poll)))
    /\ UNCHANGED <<vars, restarts, processedBurnTxs, submitted, lossless, submitVars>>

\* The query fails, or the proof of a burn: its block is not attested in time, or
\* the proof service does not answer.  The burn is marked by then.
Throw ==
    /\ poll.at \in {"chunk", "proof"}
    /\ poll' = ChunkFailed(poll)
    /\ lossless' = (lossless /\ poll.at = "chunk" /\ ~Skips(poll))
    /\ UNCHANGED <<vars, restarts, processedBurnTxs, submitted, submitVars>>

\* Mutant: the transaction is not remembered.
Forget(q) == UNCHANGED processedBurnTxs

Remember(q) == processedBurnTxs' = processedBurnTxs \cup {q}

\* The handler up to its await: only new transactions, only of this wallet.
OnBurn ==
    LET q == Head(poll.todo) IN
    /\ poll.at = "event"
    /\ IF q \in processedBurnTxs \/ txs[q].from # wallet
       THEN poll' = Returned(poll) /\ UNCHANGED processedBurnTxs
       ELSE poll' = Waiting(poll, "proof") /\ Remember(q)
    /\ UNCHANGED <<vars, restarts, submitted, lossless, submitVars>>

\* generateProofFor returns, with a proof or with success = false.
Prove ==
    /\ poll.at = "proof"
    /\ Head(poll.todo) <= attested
    /\ \/ poll' = Waiting(poll, "submit") /\ UNCHANGED lossless
       \/ poll' = Returned(poll) /\ lossless' = FALSE
    /\ UNCHANGED <<vars, restarts, processedBurnTxs, submitted, submitVars>>

\* The proof is sent, whatever the estimate says, and the handler returns; an
\* error of the submission is caught there.
Submit ==
    LET q == Head(poll.todo) IN
    /\ poll.at = "submit"
    /\ poll' = Returned(poll)
    /\ \/ /\ ccTxs' = Append(ccTxs, [tx |-> q, query |-> Worker])
          /\ submitted' = Append(submitted, q)
          /\ UNCHANGED lossless
       \/ /\ lossless' = FALSE
          /\ UNCHANGED <<ccTxs, submitted>>
    /\ UNCHANGED <<vars, restarts, processedBurnTxs, queries>>

WorkerStep == StartRound \/ ReadHead \/ Query \/ Throw \/ OnBurn \/ Prove \/ Submit

-----------------------------------------------------------------------------
(* runBridgeSubmitQuery, by hand, for any transaction.                     *)

Moves(i, at) == queries' = [queries EXCEPT ![i].at = at]

StartQuery(q) ==
    /\ Len(queries) < MaxQueries
    /\ queries' = Append(queries, [tx |-> q, at |-> "proof"])
    /\ UNCHANGED <<vars, workerVars, ccTxs>>

ProveQuery(i) ==
    /\ queries[i].at = "proof"
    /\ queries[i].tx <= attested
    /\ Moves(i, "submit")
    /\ UNCHANGED <<vars, workerVars, ccTxs>>

SubmitQuery(i) ==
    /\ queries[i].at = "submit"
    /\ Moves(i, "sent")
    /\ ccTxs' = Append(ccTxs, [tx |-> queries[i].tx, query |-> i])
    /\ UNCHANGED <<vars, workerVars>>

\* The script fails or is stopped, whatever it is waiting for.
QueryFails(i) ==
    /\ queries[i].at \in {"proof", "submit", "sent"}
    /\ Moves(i, "failed")
    /\ UNCHANGED <<vars, workerVars, ccTxs>>

QueryStep(i) == ProveQuery(i) \/ SubmitQuery(i) \/ QueryFails(i)

-----------------------------------------------------------------------------

\* What the sender learns: only submit_query waits for the receipt.
Learns(tx, at) ==
    IF tx.query # Worker /\ queries[tx.query].at = "sent"
    THEN Moves(tx.query, at) ELSE UNCHANGED queries

MineProof ==
    LET tx == Head(ccTxs) IN
    /\ ccTxs # <<>>
    /\ ccTxs' = Tail(ccTxs)
    /\ \/ Mint(tx.tx) /\ Learns(tx, "minted")
       \/ ~CanMint(tx.tx) /\ UNCHANGED vars /\ Learns(tx, "failed")
    /\ UNCHANGED workerVars

Attest == AttestBlock /\ UNCHANGED <<workerVars, submitVars>>

Users ==
    \/ \E h \in Holders, logs \in Calls : Transact(h, logs)
    \/ \E origin \in Emitters, target \in Wrapped : WrapOriginToken(origin, target)

WorkerNext ==
    \/ WorkerStep
    \/ Restart
    \/ \E q \in DOMAIN txs : StartQuery(q)
    \/ \E i \in DOMAIN queries : QueryStep(i)
    \/ MineProof
    \/ Attest
    \/ Users /\ UNCHANGED <<workerVars, submitVars>>

WorkerSpec == WorkerInit /\ [][WorkerNext]_allVars

\* The worker runs on, getBlockNumber does not fail for ever, blocks are
\* attested, and what is sent is mined.
FairSpec ==
    /\ WorkerSpec
    /\ WF_allVars(WorkerStep)
    /\ SF_allVars(ReadHead /\ poll' = HeadRead(poll, Len(txs)))
    /\ WF_allVars(MineProof)
    /\ WF_allVars(Attest)

-----------------------------------------------------------------------------

\* Since its start the worker has sent no proof twice, although events are
\* delivered again after an error, a transaction has several events, and the
\* cache is cleared.
SubmitsOnce == IsInjective(submitted)

\* A burn of the wallet whose emitter is wrapped and that a coming round reads is
\* minted, unless the worker gives up a burn: it does when a proof fails or comes
\* late, when the submission fails, or when it is restarted.
BurnsAreMinted ==
    \A q \in 1 .. MaxTxs :
        LET burnt == q \in DOMAIN txs /\ Mintable(q) /\ txs[q].from = wallet
                                      /\ txs[q].logs[1].emitter = Token
        IN  burnt /\ poll.at = "done" /\ poll.start <= q
                ~> ~lossless \/ q \in processedQueries

=============================================================================
