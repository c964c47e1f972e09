-------------------------- MODULE TransferListings --------------------------
(***************************************************************************)
(* What the settlement server promises of its list, without chains and     *)
(* records.  A transfer gets a record, in the place of any it has, only    *)
(* from a request or a visit of the backfill that began in this life of    *)
(* the server, when the transfer was not listed; each stores one, or none. *)
(* So once those that began then have ended, a transfer goes only from     *)
(* queued or failed to attesting and from there to an outcome, and         *)
(* released is final.  The transfers that are attesting belong each to one *)
(* settlement, which ends for all of its own, and for no other.            *)
(***************************************************************************)
EXTENDS TransferList, Integers

VARIABLES
    requested,      \* how many requests are under way for each transfer
    restoring,      \* the transfer that the backfill visits, if it does
    settlements     \* the transfers of each settlement, those listed

pending == <<requested, restoring>>
listings == <<list, pending, settlements>>

NoRequests == [d \in Deposits |-> 0]

Init ==
    /\ list = [d \in Deposits |-> Unlisted]
    /\ requested = NoRequests
    /\ restoring = {}
    /\ settlements = {}

BeginRequest(d) ==
    /\ list[d] = Unlisted
    /\ requested' = [requested EXCEPT ![d] = @ + 1]
    /\ UNCHANGED <<list, restoring, settlements>>

EndRequest(d) ==
    /\ requested[d] > 0
    /\ requested' = [requested EXCEPT ![d] = @ - 1]
    /\ UNCHANGED restoring

BeginVisit(d) ==
    /\ list[d] = Unlisted
    /\ restoring = {}
    /\ restoring' = {d}
    /\ UNCHANGED <<list, requested, settlements>>

EndVisit(d) ==
    /\ restoring = {d}
    /\ restoring' = {}
    /\ UNCHANGED requested

\* The new record of d is in the list; a settlement of the old one no longer shows.
Store(d, status) ==
    /\ Becomes({d}, status)
    /\ settlements' = ({S \ {d} : S \in settlements}
                          \cup {S \in {{d}} : status = "attesting"}) \ {{}}

RequestStores(d) ==
    /\ EndRequest(d)
    /\ \E status \in {"queued", "attesting"} : Store(d, status)

VisitStores(d) ==
    /\ EndVisit(d)
    /\ \E status \in {"queued", "released"} : Store(d, status)

StoresNothing(d) ==
    /\ EndRequest(d) \/ EndVisit(d)
    /\ UNCHANGED <<list, settlements>>

BatchStarts(S) ==
    /\ StartBatch(S)
    /\ settlements' = settlements \cup {S}
    /\ UNCHANGED pending

SettlementEnds(S) ==
    /\ EndSettlement(S)
    /\ settlements' = settlements \ {S}
    /\ UNCHANGED pending

Crash ==
    /\ LoseList
    /\ requested' = NoRequests
    /\ restoring' = {}
    /\ settlements' = {}

Next ==
    \/ \E d \in Deposits :
          \/ BeginRequest(d) \/ BeginVisit(d)
          \/ RequestStores(d) \/ VisitStores(d) \/ StoresNothing(d)
    \/ \E S \in (SUBSET Deposits) \ {{}} : BatchStarts(S)
    \/ \E S \in settlements : SettlementEnds(S)
    \/ Crash

Spec == Init /\ [][Next]_listings

=============================================================================
