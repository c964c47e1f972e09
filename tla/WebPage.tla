------------------------------ MODULE WebPage ------------------------------
(***************************************************************************)
(* The page of fairate/web over the list of the settlement server: the     *)
(* polls of App.tsx, which overlap and whose replies come in any order,    *)
(* the send form, which pays by the browser's wallet or by the server's,   *)
(* and the selection of queued transfers that are settled together.        *)
(*                                                                         *)
(* The server is a TransferList, which SettlementServer is shown to        *)
(* implement; other pages, scripts and settlements change it at any time.  *)
(* An action of the page is the code from one await, or one render, to the *)
(* next.  What the wallet steps do to balances is left out: LoanScripts    *)
(* has the same top-up.                                                    *)
(***************************************************************************)
EXTENDS TransferList, Integers, FiniteSets, SequencesExt

CONSTANTS
    MaxPolls,       \* bound: polls in flight
    MaxClicks,      \* bound: submissions of the form and of batches
    MaxChanges      \* bound: changes of the list, while others change it

ASSUME PageAssumption == {MaxPolls, MaxClicks, MaxChanges} \subseteq Nat

VARIABLES
    mined,          \* deposits mined on the source chain
    version,        \* history: how often the list has changed
    transfers,      \* the rows of the page: [status, version]
    effectDue,      \* the effect on [transfers] has still to run
    selected,
    polls,          \* refresh() in flight, in the order they start: [at, rows, standing]
    send,           \* the run of onSend and of its handler, idle if there is none
    batch,          \* the run of settleBatch, idle if there is none
    clicks

server == <<list, mined, version>>
screen == <<transfers, effectDue, selected>>
vars == <<server, screen, polls, send, batch, clicks>>

Rows == [d \in Deposits |-> [status |-> list[d], version |-> version]]
NoRows == [d \in Deposits |-> [status |-> Unlisted, version |-> 0]]

Asked == [at |-> "asked", rows |-> NoRows, standing |-> "current"]
NoSend == [at |-> "idle"]
NoBatch == [at |-> "idle"]

busy == send.at # "idle"
batching == batch.at # "idle"

\* The page is opened, and refreshed for the first time, at any time of the server.
Init ==
    /\ mined \in SUBSET Deposits
    /\ list \in [Deposits -> Statuses]
    /\ \A d \in Deposits \ mined : list[d] = Unlisted
    /\ version = 0
    /\ transfers = NoRows
    /\ effectDue = FALSE
    /\ selected = {}
    /\ polls = <<Asked>>
    /\ send = NoSend
    /\ batch = NoBatch
    /\ clicks = 0

-----------------------------------------------------------------------------
(* The server, for others than this page                                   *)

Changes == version' = version + 1

OthersChangeTheList ==
    /\ version < MaxChanges
    /\ Changes
    /\ \/ \E d \in mined : List(d)
       \/ \E S \in SUBSET Deposits : S # {} /\ (StartBatch(S) \/ EndSettlement(S))
    /\ UNCHANGED <<mined, screen, polls, send, batch, clicks>>

\* The process ends, and with it the list and the handler of a send, that of
\* postDeposit from its first step on.
ServerCrashes ==
    LET handled == send.at = "asked" \/ (send.at = "depositing" /\ ~send.wallet) IN
    /\ Changes
    /\ LoseList
    /\ send' = IF handled THEN NoSend ELSE send

OthersCrashTheServer ==
    /\ version < MaxChanges
    /\ ServerCrashes
    /\ UNCHANGED <<mined, screen, polls, batch, clicks>>

-----------------------------------------------------------------------------
(* refresh()                                                               *)

\* A reply is applied: what is still in flight has been overtaken.
Overtaken(flight) == [i \in DOMAIN flight |-> [flight[i] EXCEPT !.standing = "overtaken"]]

\* `void refresh()`: one more request, up to the bound.
Refreshed(flight) == IF Len(flight) < MaxPolls THEN Append(flight, Asked) ELSE flight

\* The timer, every POLL_MS.
Poll ==
    /\ Len(polls) < MaxPolls
    /\ polls' = Refreshed(polls)
    /\ UNCHANGED <<server, screen, send, batch, clicks>>

\* GET /api/transfers, answered without an await; Promise.all may have to wait
\* for the other two routes.
AnswerPoll(i) ==
    /\ polls[i].at = "asked"
    /\ polls' = [polls EXCEPT ![i].at = "answered", ![i].rows = Rows]
    /\ UNCHANGED <<server, screen, send, batch, clicks>>

\* Mutant: rows the reply does not have are kept.
Merged(rows) ==
    [d \in Deposits |-> IF rows[d].status = Unlisted THEN transfers[d] ELSE rows[d]]

\* setTransfers of the reply.
Replaced(rows) == rows

ApplyPoll(i) ==
    /\ polls[i].at = "answered"
    /\ transfers' = Replaced(polls[i].rows)
    /\ effectDue' = TRUE
    /\ polls' = Overtaken(RemoveAt(polls, i))
    /\ UNCHANGED <<server, selected, send, batch, clicks>>

\* One of the three routes does not answer: the rows stay, and it is as if this
\* one had not answered.
PollFails(i) ==
    /\ polls[i].at = "asked"
    /\ polls' = RemoveAt(polls, i)
    /\ UNCHANGED <<server, screen, send, batch, clicks>>

-----------------------------------------------------------------------------
(* SendForm, onSend and depositWithWallet                                  *)

Click == clicks < MaxClicks /\ clicks' = clicks + 1

\* submit: for a new deposit d, signed by the browser's wallet or the server's.
Submit(d, wallet, queue) ==
    /\ ~busy
    /\ Click
    /\ d \notin mined
    /\ send' = [at |-> IF wallet THEN "wallet" ELSE "depositing", deposit |-> d,
                wallet |-> wallet, queue |-> queue, reply |-> NoRows[d]]
    /\ UNCHANGED <<server, screen, polls, batch>>

\* depositWithWallet up to its deposit: the network is switched, and tokens are
\* minted and approved unless the balance and the allowance suffice.
WalletStep ==
    /\ send.at = "wallet"
    /\ send' = [send EXCEPT !.at = "depositing"]
    /\ UNCHANGED <<server, screen, polls, batch, clicks>>

\* The deposit is mined.  The handler of the server, postDeposit or postTrack,
\* goes on to its last await.
DepositMined ==
    /\ send.at = "depositing"
    /\ mined' = mined \cup {send.deposit}
    /\ send' = [send EXCEPT !.at = "asked"]
    /\ UNCHANGED <<list, version, screen, polls, batch, clicks>>

\* The handler lists the deposit, unless postTrack finds that it is listed, and
\* answers with the record.
AnswerSend ==
    LET d == send.deposit IN
    /\ send.at = "asked"
    /\ IF send.wallet /\ list[d] # Unlisted
       THEN UNCHANGED <<list, version>>
       ELSE Becomes({d}, IF send.queue THEN "queued" ELSE "attesting") /\ Changes
    /\ send' = [send EXCEPT !.at = "answered", !.reply = Rows'[d]]
    /\ UNCHANGED <<mined, screen, polls, batch, clicks>>

\* Mutant: the rows of the moment are not spread into the new list.
InsertedAlone(d, row) == [NoRows EXCEPT ![d] = row]

\* The updater function of setTransfers works on the rows of the moment.
Inserted(d, row) == [transfers EXCEPT ![d] = row]

ApplySend ==
    /\ send.at = "answered"
    /\ transfers' = Inserted(send.deposit, send.reply)
    /\ effectDue' = TRUE
    /\ polls' = Refreshed(Overtaken(polls))
    /\ send' = NoSend
    /\ UNCHANGED <<server, selected, batch, clicks>>

\* The user rejects, the wallet is on another network, the server or a chain does
\* not answer: the form shows the error, even if the deposit was sent and is mined.
SendFails ==
    /\ busy
    /\ send' = NoSend
    /\ \/ UNCHANGED mined
       \/ send.at = "depositing" /\ mined' = mined \cup {send.deposit}
    /\ UNCHANGED <<list, version, screen, polls, batch, clicks>>

-----------------------------------------------------------------------------
(* The selection, settleBatch and the effect on [transfers]                *)

Queued == {d \in Deposits : transfers[d].status = "queued"}

\* Mutant: the selection is left as it is.
KeptSelection == selected

\* Selections of rows that are no longer queued are dropped.
StillQueued == selected \cap Queued

RunEffect ==
    /\ effectDue
    /\ effectDue' = FALSE
    /\ selected' = StillQueued
    /\ UNCHANGED <<server, transfers, polls, send, batch, clicks>>

\* Only rows shown as queued can be clicked.
ToggleSelect(d) ==
    /\ d \in Queued
    /\ selected' = (selected \ {d}) \cup ({d} \ selected)
    /\ UNCHANGED <<server, transfers, effectDue, polls, send, batch, clicks>>

\* The button is there while a row is queued, and works for two selected rows.
SettleBatch ==
    /\ ~batching
    /\ Queued # {}
    /\ Cardinality(selected) >= 2
    /\ Click
    /\ batch' = [at |-> "asked", ids |-> selected, effectDue |-> effectDue,
                 seen |-> [d \in selected |-> transfers[d].status]]
    /\ UNCHANGED <<server, screen, polls, send>>

\* postSettleBatch accepts, or throws outside a promise, which ends the server.
AnswerBatch ==
    /\ batch.at = "asked"
    /\ \/ /\ StartBatch(batch.ids)
          /\ Changes
          /\ batch' = [batch EXCEPT !.at = "accepted"]
          /\ UNCHANGED send
       \/ /\ ~\A d \in batch.ids : list[d] \in {"queued", "failed"}
          /\ ServerCrashes
          /\ batch' = [batch EXCEPT !.at = "refused"]
    /\ UNCHANGED <<mined, screen, polls, clicks>>

BatchAccepted ==
    /\ batch.at = "accepted"
    /\ batch' = NoBatch
    /\ selected' = {}
    /\ polls' = Refreshed(polls)
    /\ UNCHANGED <<server, transfers, effectDue, send, clicks>>

\* No answer, or an error.
BatchFails ==
    /\ batching
    /\ batch' = NoBatch
    /\ UNCHANGED <<server, screen, polls, send, clicks>>

-----------------------------------------------------------------------------

PollStep == Poll \/ \E i \in DOMAIN polls : AnswerPoll(i) \/ ApplyPoll(i) \/ PollFails(i)
SendStep == WalletStep \/ DepositMined \/ AnswerSend \/ ApplySend \/ SendFails
BatchStep == AnswerBatch \/ BatchAccepted \/ BatchFails

Next ==
    \/ OthersChangeTheList
    \/ OthersCrashTheServer
    \/ PollStep
    \/ \E d \in Deposits, wallet, queue \in BOOLEAN : Submit(d, wallet, queue)
    \/ SendStep
    \/ RunEffect
    \/ \E d \in Deposits : ToggleSelect(d)
    \/ SettleBatch
    \/ BatchStep

Spec == Init /\ [][Next]_vars

\* The timer runs, not all polls fail, and the browser runs its effects.
FairSpec ==
    /\ Spec
    /\ WF_vars(Poll)
    /\ SF_vars(\E i \in DOMAIN polls : AnswerPoll(i))
    /\ WF_vars(\E i \in DOMAIN polls : ApplyPoll(i))
    /\ WF_vars(RunEffect)

-----------------------------------------------------------------------------

Row == [status : Statuses, version : Nat]
Request == [at : {"asked", "answered"}, rows : [Deposits -> Row],
            standing : {"current", "overtaken"}]
SendRun == [at : {"wallet", "depositing", "asked", "answered"}, deposit : Deposits,
            wallet : BOOLEAN, queue : BOOLEAN, reply : Row]

\* The state of the server, of the screen and of what is in flight has its type.
TypeOK ==
    /\ list \in [Deposits -> Statuses] /\ mined \subseteq Deposits /\ version \in Nat
    /\ transfers \in [Deposits -> Row]
    /\ polls \in Seq(Request)
    /\ send \in SendRun \cup {NoSend}

\* The screen goes back to an older state of a transfer only by the reply of a
\* poll that another reply has overtaken, or by the answer to the form, and then
\* only for the transfer it sent: never because rows are dropped or mixed.
OnlyOvertakenRepliesGoBack ==
    [][\A d \in Deposits :
          transfers'[d].version < transfers[d].version =>
              \/ \E i \in DOMAIN polls :
                    polls[i].standing = "overtaken" /\ transfers' = polls[i].rows
              \/ send.at = "answered" /\ send.deposit = d]_vars

\* A batch is refused, which ends the server, only if the status of a selected
\* transfer has changed since the page showed it, or the selection had still to
\* be brought up to date.
RefusedOnlyIfStale ==
    [][batch.at = "asked" /\ batch'.at = "refused" =>
          batch.effectDue \/ \E d \in batch.ids : list[d] # batch.seen[d]]_vars

\* Whatever the order of the replies, once the list has stopped changing (the
\* bounds see to it) the page shows it, and has selected only what it can settle.
ScreenCatchesUp ==
    <>[](/\ \A d \in Deposits : transfers[d].status = list[d]
         /\ selected \subseteq {d \in Deposits : list[d] = "queued"})

=============================================================================
