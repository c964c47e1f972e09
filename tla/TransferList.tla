---------------------------- MODULE TransferList ----------------------------
(***************************************************************************)
(* The list that the settlement server shows: a status for each transfer,  *)
(* and the ways in which it changes.  Of when a transfer is listed, and of *)
(* which settlements are under way, the list shows nothing; that part of   *)
(* the server's promise is in TransferListings.                            *)
(***************************************************************************)

CONSTANT Deposits       \* the deposit transactions that transfers go by

VARIABLE list           \* the status of each transfer

Unlisted == "unlisted"
FirstStatuses == {"queued", "attesting", "released"}
Outcomes == {"released", "failed"}
Statuses == {Unlisted} \cup FirstStatuses \cup Outcomes

\* The transfers S take a status together.
Becomes(S, status) == list' = [d \in Deposits |-> IF d \in S THEN status ELSE list[d]]

\* A record of the transfer is stored, whatever the list has had of it.
List(d) == \E status \in FirstStatuses : Becomes({d}, status)

\* A batch is accepted.
StartBatch(S) ==
    /\ \A d \in S : list[d] \in {"queued", "failed"}
    /\ Becomes(S, "attesting")

\* A settlement ends, and for all transfers S that it shows in the same way.
EndSettlement(S) ==
    /\ \A d \in S : list[d] = "attesting"
    /\ \E outcome \in Outcomes : Becomes(S, outcome)

\* The server crashes.
LoseList == Becomes(Deposits, Unlisted)

=============================================================================
