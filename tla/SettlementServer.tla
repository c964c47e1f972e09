-------------------------- MODULE SettlementServer --------------------------
(***************************************************************************)
(* fairate/server/api.ts: the in-memory list of transfers, the request     *)
(* handlers that add to it, the detached settlements that change it, and   *)
(* the backfill that rebuilds it from chain logs after a restart.          *)
(*                                                                         *)
(* JavaScript runs one thing at a time and switches only at an await, so   *)
(* an action is the code from one await to the next.  A record is an       *)
(* object: the map, a running settlement and a batch can hold the same     *)
(* one, and the map can stop holding one that a settlement still changes.  *)
(* Objects are therefore numbered, and `transfers` maps to their numbers.  *)
(*                                                                         *)
(* The two chains appear as far as the server sees them: which deposits    *)
(* are mined, the TransferReleased events, and transactions sent to the    *)
(* escrow that are not mined yet.  RemittanceCorridor models the contracts *)
(* in full.                                                                *)
(***************************************************************************)
EXTENDS Integers, Sequences, FiniteSets, SequencesExt

CONSTANTS
    Deposits,       \* deposit transactions of all corridors of the escrow
    Home,           \* those into the deposit contract of this server's config
    Receiver, Amount, DepositId, Height, Payout,    \* functions of a deposit
    MaxRecords,     \* bound: records that requests make in one life
    MaxCalls,       \* bound: transactions this server sends to the escrow
    MaxBatch,       \* bound: ids in one settle-batch request
    MaxRestarts     \* bound: crashes of the server

\* A contract numbers its own deposits, so two of Home differ in DepositId.
ASSUME DepositsAssumption ==
    /\ Home \subseteq Deposits /\ IsFiniteSet(Deposits)
    /\ \A f \in {Amount, DepositId, Height, Payout} : f \in [Deposits -> Nat]
    /\ \A d, e \in Home : DepositId[d] = DepositId[e] => d = e

ASSUME RecordsAssumption == MaxRecords \in Nat

VARIABLES
    mined,          \* deposits mined on the source chain
    released,       \* TransferReleased events: [deposit, tx], in order
    calls,          \* execute and executeBatch transactions this server sent
    records,        \* record objects: [deposit, status, paid, releaseTx]
    transfers,      \* the Map: deposit -> number of its record, None if absent
    requests,       \* handlers past their first await: how many, by their input
    tasks,          \* running settle and settleBatch calls
    scan,           \* the backfill: its local variables and historyComplete
    restarts

chain == <<mined, released, calls>>
memory == <<records, transfers, requests, tasks, scan>>
vars == <<chain, memory, restarts>>

None == 0

\* What a deposit or track handler goes by: the transaction, and body.queue.
Inputs == Deposits \X BOOLEAN

ReleasedOnChain(d) == \E i \in DOMAIN released : released[i].deposit = d

\* `history` is no variable of the code: the deposits of this corridor that were
\* there when the process started, which the backfill should restore.
NewScan == [pc |-> "heads", sourceRead |-> FALSE, payoutRead |-> FALSE,
            deposits |-> <<>>, releases |-> <<>>, historyComplete |-> TRUE,
            history |-> mined \cap Home]

\* Mutant: restoring ends only if backfill() resolves.
RestoringUnlessResolved == scan.pc # "done"

\* True from the start until backfill() has settled, well or badly.
restoring == scan.pc \notin {"done", "threw"}

Init ==
    /\ mined = {} /\ released = <<>> /\ calls = <<>>
    /\ records = <<>>
    /\ transfers = [d \in Deposits |-> None]
    /\ requests = [r \in Inputs |-> 0]
    /\ tasks = {}
    /\ scan = NewScan
    /\ restarts = 0

\* The process dies and starts again: the memory is gone, the chains and the
\* transactions already sent are not.
Restart ==
    /\ restarts < MaxRestarts
    /\ restarts' = restarts + 1
    /\ records' = <<>>
    /\ transfers' = [d \in Deposits |-> None]
    /\ requests' = [r \in Inputs |-> 0]
    /\ tasks' = {}
    /\ scan' = NewScan
    /\ UNCHANGED chain

-----------------------------------------------------------------------------
(* The chains                                                              *)

\* A deposit is mined, in height order.
Mine(d) ==
    /\ d \notin mined
    /\ \A e \in mined : Height[e] <= Height[d]
    /\ mined' = mined \cup {d}

\* Somebody else's wallet makes the deposit.
WalletDeposit(d) ==
    /\ Mine(d)
    /\ UNCHANGED <<released, calls, memory, restarts>>

\* Anybody may release: scripts/release.ts, another server.
ReleaseByOthers(d) ==
    /\ d \in mined
    /\ ~ReleasedOnChain(d)
    /\ released' = Append(released, [deposit |-> d, tx |-> None])
    /\ UNCHANGED <<mined, calls, memory, restarts>>

\* The escrow's verdict on a transaction this server sent: executeBatch (and
\* execute, for one) reverts as a whole if any deposit has been released.
MineCall(i) ==
    LET paid == calls[i].deposits IN
    /\ calls[i].state = "sent"
    /\ IF \E k \in DOMAIN paid : ReleasedOnChain(paid[k])
       THEN /\ calls' = [calls EXCEPT ![i].state = "reverted"]
            /\ UNCHANGED released
       ELSE /\ calls' = [calls EXCEPT ![i].state = "mined"]
            /\ released' = released \o
                   [k \in DOMAIN paid |-> [deposit |-> paid[k], tx |-> i]]
    /\ UNCHANGED <<mined, memory, restarts>>

-----------------------------------------------------------------------------
(* Requests                                                                *)

NewRecord(d, status) ==
    [deposit |-> d, status |-> status, paid |-> None, releaseTx |-> None]

\* Mutant: the status that the handler writes, as if settle started later.
StatusBeforeSettle(queue) == IF queue THEN "queued" ELSE "deposited"

\* The status a record has when its handler answers.
FirstStatus(queue) == IF queue THEN "queued" ELSE "attesting"

\* The bound on records, those of handlers still waiting included.
RoomForRequest ==
    Len(records) + SumFunctionOnSet(requests, Inputs) + restarts < MaxRecords

Await(r) == requests' = [requests EXCEPT ![r] = @ + 1]

\* postDeposit up to the mined deposit; rateFeed.peek() is still awaited.
PostDeposit(d, queue) ==
    /\ RoomForRequest
    /\ d \in Home
    /\ Mine(d)
    /\ Await(<<d, queue>>)
    /\ UNCHANGED <<released, calls, records, transfers, tasks, scan, restarts>>

\* Mutant: the list is not looked at.
PostTrackAgain(d, queue) ==
    /\ RoomForRequest
    /\ Await(<<d, queue>>)
    /\ UNCHANGED <<chain, records, transfers, tasks, scan, restarts>>

\* postTrack up to its first await: a known deposit is answered from the list.
PostTrack(d, queue) ==
    /\ RoomForRequest
    /\ transfers[d] = None
    /\ Await(<<d, queue>>)
    /\ UNCHANGED <<chain, records, transfers, tasks, scan, restarts>>

\* The rest of both handlers, run when the receipt and the rate are there: the
\* record is stored, and unless it is queued `void settle(record)` runs up to
\* its first await, which marks it attesting.  parseLogs goes by the event, not
\* by the contract that emitted it, so a deposit of any corridor will do.
StoreRecord(d, queue) ==
    /\ requests[<<d, queue>>] > 0
    /\ d \in mined
    /\ requests' = [requests EXCEPT ![<<d, queue>>] = @ - 1]
    /\ records' = Append(records, NewRecord(d, FirstStatus(queue)))
    /\ transfers' = [transfers EXCEPT ![d] = Len(records) + 1]
    /\ tasks' = IF queue THEN tasks
                ELSE tasks \cup {[records |-> <<Len(records) + 1>>, call |-> None]}
    /\ UNCHANGED <<chain, scan, restarts>>

\* The handler throws: no receipt in time, no rate.
RequestFails(d, queue) ==
    /\ requests[<<d, queue>>] > 0
    /\ requests' = [requests EXCEPT ![<<d, queue>>] = @ - 1]
    /\ UNCHANGED <<chain, records, transfers, tasks, scan, restarts>>

\* Mutant: the status of a listed deposit is not looked at.
Listed(d) == transfers[d] # None

\* Mutant: only transfers that are being settled are turned away.
NotAttesting(d) == transfers[d] # None /\ records[transfers[d]].status # "attesting"

\* postSettleBatch accepts the id.
Settleable(d) ==
    /\ transfers[d] # None
    /\ records[transfers[d]].status \in {"queued", "failed"}

\* postSettleBatch checks every id and settleBatch marks the records, with no
\* await in between.  The caller may repeat an id.
PostSettleBatch(ids) ==
    /\ Len(ids) >= 2
    /\ \A i \in DOMAIN ids : Settleable(ids[i])
    /\ LET objects == [i \in DOMAIN ids |-> transfers[ids[i]]] IN
       /\ records' = [o \in DOMAIN records |->
                         IF o \in Range(objects)
                         THEN [records[o] EXCEPT !.status = "attesting"]
                         ELSE records[o]]
       /\ tasks' = tasks \cup {[records |-> objects, call |-> None]}
    /\ UNCHANGED <<chain, transfers, requests, scan, restarts>>

\* postSettleBatch turns the request down.  It is no async function: what it throws
\* leaves the listener of the request uncaught, and that ends the process.
RefuseBatch ==
    /\ ~\A d \in Deposits : Settleable(d)
    /\ Restart

-----------------------------------------------------------------------------
(* Settlements: settle(record) has one record, settleBatch two or more     *)

DepositsOf(t) == [i \in DOMAIN t.records |-> records[t.records[i]].deposit]

\* The deposits S by height, those of one block in any order: how proofs and logs
\* come back.
ByHeight(S) ==
    {f \in SetToSeqs(S) : \A i, j \in DOMAIN f : i < j => Height[f[i]] <= Height[f[j]]}

\* The proofs are there, one per deposit, and the transaction is sent.
SendCall(t) ==
    /\ t.call = None
    /\ Len(calls) < MaxCalls
    /\ \E entries \in ByHeight(Range(DepositsOf(t))) :
          /\ Len(entries) = Len(t.records)
          /\ calls' = Append(calls, [deposits |-> entries, state |-> "sent"])
    /\ tasks' = (tasks \ {t}) \cup {[t EXCEPT !.call = Len(calls) + 1]}
    /\ UNCHANGED <<mined, released, records, transfers, requests, scan, restarts>>

SameTransfer(d, e) == Receiver[d] = Receiver[e] /\ Amount[d] = Amount[e]

\* Where the record that an event is matched to stands, of those still pending:
\* the first of that receiver and amount, or else the first of all.
MatchOf(d, objects, pending) ==
    LET same == {i \in pending : SameTransfer(records[objects[i]].deposit, d)}
    IN  Min(IF same # {} THEN same ELSE pending)

\* Mutant: a matched record is not consumed.
MatchedWithoutConsuming(events, objects) ==
    [k \in DOMAIN events |-> objects[MatchOf(events[k], objects, DOMAIN objects)]]

\* The records matched to the events of a transaction: each event takes one that
\* the events before it have left.
Matched(events, objects) ==
    LET Left(m, k) == DOMAIN objects \ {m[j] : j \in 1 .. k - 1}
        taken == CHOOSE m \in [DOMAIN events -> DOMAIN objects] :
                     \A k \in DOMAIN events : m[k] = MatchOf(events[k], objects, Left(m, k))
    IN  [k \in DOMAIN events |-> objects[taken[k]]]

\* Mutant: the receipt is not waited for.
Sent(i) == calls[i].state # "reverted"

\* tx.wait() resolves for transaction i.
Succeeded(i) == calls[i].state = "mined"

\* tx.wait() resolves: the records take status, transaction and payout.  There
\* is an event for each, so that none is left pending.
Confirm(t) ==
    /\ t.call # None
    /\ Succeeded(t.call)
    /\ LET events == calls[t.call].deposits
           match == Matched(events, t.records)
           paid(o) == Payout[events[CHOOSE k \in DOMAIN match : match[k] = o]]
       IN  records' = [o \in DOMAIN records |->
               IF o \in Range(match)
               THEN [records[o] EXCEPT !.status = "released", !.paid = paid(o),
                                       !.releaseTx = t.call]
               ELSE records[o]]
    /\ tasks' = tasks \ {t}
    /\ UNCHANGED <<chain, transfers, requests, scan, restarts>>

\* Mutant: the catch block logs the error and leaves the records.
FailSilently(t) ==
    /\ tasks' = tasks \ {t}
    /\ UNCHANGED <<chain, records, transfers, requests, scan, restarts>>

\* The catch block: no proof in time, a count of proofs that differs, a gas
\* estimate or a transaction that reverts, or no answer from the node although
\* the transaction was sent, or even mined.
Fail(t) ==
    /\ records' = [o \in DOMAIN records |->
                      IF o \in Range(t.records) /\ records[o].status # "released"
                      THEN [records[o] EXCEPT !.status = "failed"]
                      ELSE records[o]]
    /\ tasks' = tasks \ {t}
    /\ UNCHANGED <<chain, transfers, requests, scan, restarts>>

-----------------------------------------------------------------------------
(* Backfill                                                                *)

\* The source head, and with it the deposit logs the scan will find: those of
\* this corridor, or only the ones that a pruning endpoint still has.
ReadSourceHead ==
    /\ scan.pc = "heads"
    /\ ~scan.sourceRead
    /\ \E found \in SUBSET (mined \cap Home) : \E logs \in ByHeight(found) :
          scan' = [scan EXCEPT !.deposits = logs, !.sourceRead = TRUE]
    /\ UNCHANGED <<chain, records, transfers, requests, tasks, restarts>>

\* The payout head, and with it the TransferReleased events of the escrow, of
\* whichever corridor.
ReadPayoutHead ==
    /\ scan.pc = "heads"
    /\ ~scan.payoutRead
    /\ scan' = [scan EXCEPT !.releases = released, !.payoutRead = TRUE]
    /\ UNCHANGED <<chain, records, transfers, requests, tasks, restarts>>

\* Mutant: only an empty scan counts as short.
ScanFoundNothing == scan.deposits = <<>>

\* depositCount, read after the scans, is more than the scan has found.
ScanFellShort == Len(scan.deposits) < Cardinality(mined \cap Home)

CheckCount ==
    /\ scan.pc = "heads"
    /\ scan.sourceRead /\ scan.payoutRead
    /\ scan' = [scan EXCEPT !.pc = "loop", !.historyComplete = ~ScanFellShort]
    /\ UNCHANGED <<chain, records, transfers, requests, tasks, restarts>>

\* Releases that share receiver and deposit id with d; the last one is used.
KeyMatches(d) ==
    {i \in DOMAIN scan.releases :
        /\ Receiver[scan.releases[i].deposit] = Receiver[d]
        /\ DepositId[scan.releases[i].deposit] = DepositId[d]}

\* The head of the loop: a deposit already listed is skipped, for any other the
\* block, and the rate of an unreleased one, are awaited.
VisitDeposit ==
    /\ scan.pc = "loop"
    /\ scan.deposits # <<>>
    /\ scan' = IF transfers[Head(scan.deposits)] # None
               THEN [scan EXCEPT !.deposits = Tail(@)]
               ELSE [scan EXCEPT !.pc = "block"]
    /\ UNCHANGED <<chain, records, transfers, requests, tasks, restarts>>

\* What the logs say of a deposit.
RestoredRecord(d) ==
    LET matches == KeyMatches(d)
        last == scan.releases[CHOOSE i \in matches : \A j \in matches : j <= i]
    IN  IF matches = {} THEN NewRecord(d, "queued")
        ELSE [deposit |-> d, status |-> "released",
              paid |-> Payout[last.deposit], releaseTx |-> last.tx]

\* The rest of the loop body: the restored record is stored.
RestoreDeposit ==
    LET d == Head(scan.deposits) IN
    /\ scan.pc = "block"
    /\ records' = Append(records, RestoredRecord(d))
    /\ transfers' = [transfers EXCEPT ![d] = Len(records) + 1]
    /\ scan' = [scan EXCEPT !.pc = "loop", !.deposits = Tail(@)]
    /\ UNCHANGED <<chain, requests, tasks, restarts>>

BackfillDone ==
    /\ scan.pc = "loop"
    /\ scan.deposits = <<>>
    /\ scan' = [scan EXCEPT !.pc = "done", !.releases = <<>>]
    /\ UNCHANGED <<chain, records, transfers, requests, tasks, restarts>>

\* An await of backfill() rejects (a log scan over its budget, a provider
\* error): the error is logged, restoring ends.
BackfillThrows ==
    /\ restoring
    /\ scan' = [scan EXCEPT !.pc = "threw", !.deposits = <<>>, !.releases = <<>>]
    /\ UNCHANGED <<chain, records, transfers, requests, tasks, restarts>>

-----------------------------------------------------------------------------

Batches == UNION {[1 .. n -> Deposits] : n \in 2 .. MaxBatch}

ChainStep ==
    \/ \E d \in Deposits : WalletDeposit(d) \/ ReleaseByOthers(d)
    \/ \E i \in DOMAIN calls : MineCall(i)

RequestStep ==
    \/ \E d \in Deposits, queue \in BOOLEAN :
          \/ PostDeposit(d, queue)
          \/ PostTrack(d, queue)
          \/ StoreRecord(d, queue)
          \/ RequestFails(d, queue)
    \/ \E ids \in Batches : PostSettleBatch(ids)
    \/ RefuseBatch

TaskStep(t) == SendCall(t) \/ Confirm(t) \/ Fail(t)

BackfillStep ==
    \/ ReadSourceHead
    \/ ReadPayoutHead
    \/ CheckCount
    \/ VisitDeposit
    \/ RestoreDeposit
    \/ BackfillDone
    \/ BackfillThrows

Next ==
    \/ ChainStep
    \/ RequestStep
    \/ \E t \in tasks : TaskStep(t)
    \/ BackfillStep
    \/ Restart

Spec == Init /\ [][Next]_vars

\* Numbers that a record object can have.
Objects == 1 .. MaxRecords + Cardinality(Home)

\* The settlement of record o goes on, unless it waits for its transaction:
\* tx.wait() has no timeout, every await before it has one.
SettlementStep(o) ==
    \E t \in tasks :
        /\ o \in Range(t.records)
        /\ t.call = None \/ calls[t.call].state # "sent"
        /\ TaskStep(t)

\* Each settlement and the backfill go on, and Creditcoin mines what it is sent.
FairSpec ==
    /\ Spec
    /\ \A o \in Objects : WF_vars(SettlementStep(o))
    /\ \A i \in 1 .. MaxCalls : WF_vars(i \in DOMAIN calls /\ MineCall(i))
    /\ WF_vars(BackfillStep)

-----------------------------------------------------------------------------

\* A handler answers only after settle has run to its first await, so the fifth
\* status of the source, "deposited", is never seen.
Statuses == {"queued", "attesting", "released", "failed"}

\* The state of the server and of the chains has its type.
TypeOK ==
    /\ mined \subseteq Deposits
    /\ released \in Seq([deposit : Deposits, tx : Nat])
    /\ calls \in Seq([deposits : Seq(Deposits), state : {"sent", "mined", "reverted"}])
    /\ records \in Seq([deposit : Deposits, status : Statuses, paid : Nat, releaseTx : Nat])
    /\ DOMAIN records \subseteq Objects
    /\ transfers \in [Deposits -> {None} \cup DOMAIN records]
    /\ requests \in [Inputs -> Nat]
    /\ \A t \in tasks : t.records \in Seq(DOMAIN records) /\ t.call \in 0 .. Len(calls)
    /\ scan.pc \in {"heads", "loop", "block", "done", "threw"}

\* What the list calls released has been paid: the transaction that it names has
\* released the deposit, and the payout shown is one that this transaction made to
\* the receiver, whether settle, settleBatch or the backfill says so, in this or a
\* later life.  The backfill goes by receiver and deposit id, which a deposit of
\* another corridor can share: then it may be that one which has been released.
ReleasedIsTrue ==
    \A o \in DOMAIN records :
        records[o].status = "released" =>
            LET d == records[o].deposit
                ofTx == {i \in DOMAIN released : released[i].tx = records[o].releaseTx}
                deposits == {released[i].deposit : i \in ofTx}
            IN  /\ \E e \in deposits :
                      e = d \/ (e \notin Home /\ Receiver[e] = Receiver[d] /\ DepositId[e] = DepositId[d])
                /\ \E e \in deposits : Receiver[e] = Receiver[d] /\ Payout[e] = records[o].paid

\* A record is attesting exactly while one settlement works on it, and never do
\* two work on the same record: batch requests, retries of failed transfers
\* and detached settlements never share one.
OneSettlementPerRecord ==
    \A o \in DOMAIN records :
        LET owners == {t \in tasks : o \in Range(t.records)}
        IN  Cardinality(owners) = IF records[o].status = "attesting" THEN 1 ELSE 0

\* No settlement, retry or batch takes a record back from released, or changes
\* what it says of the payout.
ReleasedIsFinal ==
    [][\A o \in DOMAIN records \cap DOMAIN records' :
          records[o].status = "released" /\ restarts' = restarts
              => records'[o] = records[o]]_vars

\* "so two identical transfers in one batch still map one-to-one": whatever the
\* order of the ids and of the proofs, the events of a transaction, once it is
\* mined, are matched to all the records of its settlement, each once, and each
\* to a record of the same receiver and amount.
EventsMapOneToOne ==
    \A t \in tasks :
        t.call # None =>
            LET events == calls[t.call].deposits
                match == Matched(events, t.records)
            IN  /\ IsInjective(match)
                /\ Range(match) = Range(t.records)
                /\ \A k \in DOMAIN events :
                       SameTransfer(events[k], records[match[k]].deposit)

\* When the backfill has run to its end, a list that claims to be complete has
\* every deposit there was when the server started, whatever the log endpoint
\* pruned, and whatever came in meanwhile.
CountCatchesPruning ==
    scan.pc = "done" /\ scan.historyComplete =>
        \A d \in scan.history : transfers[d] # None

\* The list of the server keeps the promise of TransferListings, whatever interleaves:
\* a listed transfer gets another record only from a request or a visit of the
\* backfill that began when it was not listed; otherwise it moves from queued or
\* failed to attesting and from there, with all others that its settlement shows,
\* to released or failed.
StatusOf(d) == IF transfers[d] = None THEN "unlisted" ELSE records[transfers[d]].status
RequestsOf(d) == requests[<<d, TRUE>>] + requests[<<d, FALSE>>]
ListedOf(t) == {d \in Deposits : transfers[d] \in Range(t.records)}
Shown == INSTANCE TransferListings WITH
    list <- [d \in Deposits |-> StatusOf(d)],
    requested <- [d \in Deposits |-> RequestsOf(d)],
    restoring <- IF scan.pc = "block" THEN {Head(scan.deposits)} ELSE {},
    settlements <- {ListedOf(t) : t \in tasks} \ {{}}
ImplementsTransferListings == Shown!Spec

\* A settlement always ends: an attesting record becomes released or failed, or
\* the server restarts.
SettlementsEnd ==
    \A o \in Objects :
        (o \in DOMAIN records /\ records[o].status = "attesting")
            ~> (o \in DOMAIN records => records[o].status # "attesting")

\* The backfill ends, so that the interface stops saying "restoring".
RestoringEnds == restoring ~> ~restoring

-----------------------------------------------------------------------------
(* What a comment of api.ts says and the code does not do                  *)

\* "a live deposit beat the backfill to it": a step of the backfill never puts
\* another record in the place of one that is listed.
BackfillKeepsLiveRecords ==
    [][scan' # scan /\ restarts' = restarts =>
          \A d \in Deposits : transfers[d] # None => transfers'[d] = transfers[d]]_vars

=============================================================================
