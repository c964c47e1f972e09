--------------------------- MODULE WebPageProofs ---------------------------
(***************************************************************************)
(* Proofs about the page, for any number of transfers, polls in flight,    *)
(* clicks and changes of the list by others.                               *)
(***************************************************************************)
EXTENDS WebPage, SequenceTheorems, TLAPS

-----------------------------------------------------------------------------
(* The selection                                                           *)

\* A selected row is queued on the screen, once the effect has run.
SelectionFollowsRows == effectDue \/ selected \subseteq Queued

\* So were the rows of a batch when the button was clicked.
BatchFollowsRows ==
    /\ "at" \in DOMAIN batch
    /\ batch.at = "asked" =>
          batch.effectDue = TRUE \/ \A d \in batch.ids : batch.seen[d] = "queued"

\* Every step of the page keeps both.
LEMMA SelectionStep ==
    ASSUME SelectionFollowsRows, BatchFollowsRows, [Next]_vars
    PROVE  SelectionFollowsRows' /\ BatchFollowsRows'
<1>1. CASE UNCHANGED <<screen, batch>>
  BY <1>1 DEF screen, SelectionFollowsRows, BatchFollowsRows, Queued
<1>2. CASE UNCHANGED batch /\ effectDue'
  BY <1>2 DEF SelectionFollowsRows, BatchFollowsRows
<1>3. CASE RunEffect
  BY <1>3 DEF RunEffect, StillQueued, SelectionFollowsRows, BatchFollowsRows, Queued
<1>4. ASSUME NEW d \in Deposits, ToggleSelect(d)
      PROVE  SelectionFollowsRows' /\ BatchFollowsRows'
  BY <1>4 DEF ToggleSelect, SelectionFollowsRows, BatchFollowsRows, Queued
<1>5. CASE SettleBatch
  <2>1. batch' = [at |-> "asked", ids |-> selected, effectDue |-> effectDue,
                  seen |-> [d \in selected |-> transfers[d].status]]
    BY <1>5 DEF SettleBatch
  <2>2. SelectionFollowsRows'
    BY <1>5 DEF SettleBatch, screen, SelectionFollowsRows, Queued
  <2>3. ASSUME batch'.effectDue # TRUE, NEW d \in selected
        PROVE  transfers[d].status = "queued"
    BY <2>1, <2>3 DEF SelectionFollowsRows, Queued
  <2>4. BatchFollowsRows'
    BY <2>1, <2>3 DEF BatchFollowsRows
  <2>5. QED
    BY <2>2, <2>4
<1>6. CASE AnswerBatch
  <2>1. \/ batch' = [batch EXCEPT !.at = "accepted"]
        \/ batch' = [batch EXCEPT !.at = "refused"]
    BY <1>6 DEF AnswerBatch
  <2>2. "at" \in DOMAIN batch' /\ batch'.at # "asked"
    BY <2>1 DEF BatchFollowsRows
  <2>3. UNCHANGED screen
    BY <1>6 DEF AnswerBatch
  <2>4. QED
    BY <2>2, <2>3 DEF screen, SelectionFollowsRows, BatchFollowsRows, Queued
<1>7. CASE BatchAccepted \/ BatchFails
  BY <1>7 DEF BatchAccepted, BatchFails, NoBatch, screen, SelectionFollowsRows,
              BatchFollowsRows, Queued
<1>8. QED
  BY <1>1, <1>2, <1>3, <1>4, <1>5, <1>6, <1>7
     DEF Next, OthersChangeTheList, OthersCrashTheServer, PollStep, Poll, AnswerPoll,
         ApplyPoll, PollFails, Submit, SendStep, WalletStep, DepositMined, AnswerSend,
         ApplySend, SendFails, BatchStep, vars

\* A batch that the server refuses was asked for on rows that have changed since:
\* the page itself never selects what it does not show as queued.
THEOREM RefusalsAreOfStaleRows == Spec => RefusedOnlyIfStale
<1>1. Init => SelectionFollowsRows /\ BatchFollowsRows
  BY DEF Init, SelectionFollowsRows, BatchFollowsRows, NoBatch
<1>2. ASSUME BatchFollowsRows, [Next]_vars, batch.at = "asked", batch'.at = "refused"
      PROVE  batch.effectDue \/ \E d \in batch.ids : list[d] # batch.seen[d]
  <2>1. \/ UNCHANGED batch
        \/ SettleBatch \/ AnswerBatch \/ BatchAccepted \/ BatchFails
    BY <1>2 DEF Next, OthersChangeTheList, OthersCrashTheServer, PollStep, Poll,
                AnswerPoll, ApplyPoll, PollFails, Submit, SendStep, WalletStep,
                DepositMined, AnswerSend, ApplySend, SendFails, RunEffect, ToggleSelect,
                BatchStep, vars
  <2>2. AnswerBatch
    BY <1>2, <2>1 DEF SettleBatch, BatchAccepted, BatchFails, NoBatch
  <2>3. \/ batch' = [batch EXCEPT !.at = "accepted"]
        \/ ~\A d \in batch.ids : list[d] \in {"queued", "failed"}
    BY <2>2 DEF AnswerBatch
  <2>4. ~\A d \in batch.ids : list[d] \in {"queued", "failed"}
    BY <1>2, <2>3 DEF BatchFollowsRows
  <2>5. QED
    BY <1>2, <2>4 DEF BatchFollowsRows
<1>3. SelectionFollowsRows /\ BatchFollowsRows /\ [Next]_vars
         => SelectionFollowsRows' /\ BatchFollowsRows'
  BY SelectionStep
<1>4. BatchFollowsRows /\ [Next]_vars
         => [batch.at = "asked" /\ batch'.at = "refused" =>
               batch.effectDue \/ \E d \in batch.ids : list[d] # batch.seen[d]]_vars
  BY <1>2
<1>5. QED
  BY <1>1, <1>3, <1>4, PTL DEF Spec, RefusedOnlyIfStale

-----------------------------------------------------------------------------
(* The order of replies                                                    *)

\* No row is from the future, and the reply to a poll that nothing has overtaken is
\* not older than what the page shows.
RepliesInOrder ==
    /\ \A d \in Deposits : transfers[d].version <= version
    /\ send.at = "answered" => send.reply.version <= version
    /\ \A i \in DOMAIN polls : polls[i].at = "answered" =>
          \A d \in Deposits :
              /\ polls[i].rows[d].version <= version
              /\ polls[i].standing = "overtaken" \/ transfers[d].version <= polls[i].rows[d].version

\* Removing a request leaves the others.
LEMMA RemoveAtType ==
    ASSUME NEW S, NEW s \in Seq(S), NEW i \in DOMAIN s
    PROVE  /\ RemoveAt(s, i) \in Seq(S)
           /\ \A j \in DOMAIN RemoveAt(s, i) : \E k \in DOMAIN s : RemoveAt(s, i)[j] = s[k]
<1> DEFINE a == SubSeq(s, 1, i - 1)
           b == SubSeq(s, i + 1, Len(s))
<1>1. Len(s) \in Nat /\ DOMAIN s = 1 .. Len(s) /\ \A k \in 1 .. Len(s) : s[k] \in S
  OBVIOUS
<1>2. a \in Seq(S) /\ Len(a) = i - 1 /\ \A k \in 1 .. i - 1 : a[k] = s[k]
  BY <1>1, SubSeqProperties
<1>3. b \in Seq(S) /\ Len(b) = Len(s) - i /\ \A k \in 1 .. Len(s) - i : b[k] = s[i + k]
  BY <1>1, SubSeqProperties
<1> HIDE DEF a, b
<1>4. /\ a \o b \in Seq(S)
      /\ DOMAIN (a \o b) = 1 .. Len(s) - 1
      /\ \A j \in 1 .. Len(s) - 1 : (a \o b)[j] = IF j <= i - 1 THEN a[j] ELSE b[j - (i - 1)]
  <2>1. Len(a) + Len(b) = Len(s) - 1
    BY <1>1, <1>2, <1>3
  <2>2. /\ a \o b \in Seq(S) /\ Len(a \o b) = Len(a) + Len(b)
        /\ \A j \in 1 .. Len(a) + Len(b) :
              (a \o b)[j] = IF j <= Len(a) THEN a[j] ELSE b[j - Len(a)]
    BY <1>2, <1>3, ConcatProperties, Zenon
  <2>3. DOMAIN (a \o b) = 1 .. Len(s) - 1
    BY <2>1, <2>2, LenProperties
  <2>4. QED
    BY <1>2, <2>1, <2>2, <2>3
<1>5. ASSUME NEW j \in 1 .. Len(s) - 1
      PROVE  \E k \in DOMAIN s : (a \o b)[j] = s[k]
  <2>1. CASE j <= i - 1
    <3>1. j \in 1 .. i - 1
      BY <1>1, <2>1
    <3>2. (a \o b)[j] = s[j]
      BY <1>2, <1>4, <2>1, <3>1
    <3>3. QED
      BY <1>1, <3>2
  <2>2. CASE ~(j <= i - 1)
    <3>1. j - (i - 1) \in 1 .. Len(s) - i /\ i + (j - (i - 1)) = j + 1
      BY <1>1, <2>2
    <3>2. (a \o b)[j] = s[j + 1]
      BY <1>3, <1>4, <2>2, <3>1
    <3>3. QED
      BY <1>1, <3>2
  <2>3. QED
    BY <2>1, <2>2
<1>6. RemoveAt(s, i) = a \o b
  BY DEF RemoveAt, a, b
<1>7. QED
  BY <1>4, <1>5, <1>6

\* Overtaking changes nothing but the flag, refreshing adds a request without answer.
LEMMA OvertakenType ==
    ASSUME NEW flight \in Seq(Request)
    PROVE  /\ Overtaken(flight) \in Seq(Request)
           /\ DOMAIN Overtaken(flight) = DOMAIN flight
           /\ \A i \in DOMAIN flight :
                 /\ Overtaken(flight)[i].at = flight[i].at
                 /\ Overtaken(flight)[i].rows = flight[i].rows
                 /\ Overtaken(flight)[i].standing = "overtaken"
<1>1. DOMAIN flight = 1 .. Len(flight) /\ Len(flight) \in Nat
  OBVIOUS
<1>2. \A i \in 1 .. Len(flight) : [flight[i] EXCEPT !.standing = "overtaken"] \in Request
  <2> SUFFICES ASSUME NEW p \in Request
               PROVE  [p EXCEPT !.standing = "overtaken"] \in Request
    BY <1>1
  <2> QED BY DEF Request
<1>3. Overtaken(flight) = [i \in 1 .. Len(flight) |-> [flight[i] EXCEPT !.standing = "overtaken"]]
  BY <1>1 DEF Overtaken
<1>4. Overtaken(flight) \in [1 .. Len(flight) -> Request]
  BY <1>2, <1>3
<1>5. ASSUME NEW i \in 1 .. Len(flight)
      PROVE  /\ Overtaken(flight)[i].at = flight[i].at
             /\ Overtaken(flight)[i].rows = flight[i].rows
             /\ Overtaken(flight)[i].standing = "overtaken"
  <2>1. flight[i] \in Request
    BY <1>1
  <2>2. Overtaken(flight)[i] = [flight[i] EXCEPT !.standing = "overtaken"]
    BY <1>3
  <2>3. QED
    BY <2>1, <2>2 DEF Request
<1>6. QED
  BY <1>1, <1>3, <1>4, <1>5

\* What a refresh leaves in flight has its type.
LEMMA RefreshedType ==
    ASSUME NEW flight \in Seq(Request)
    PROVE  /\ Refreshed(flight) \in Seq(Request)
           /\ \A i \in DOMAIN Refreshed(flight) :
                 \/ i \in DOMAIN flight /\ Refreshed(flight)[i] = flight[i]
                 \/ Refreshed(flight)[i].at = "asked"
<1>1. Asked \in Request
  BY DEF Asked, Request, NoRows, Row, Unlisted, Statuses
<1>2. Asked.at = "asked"
  BY DEF Asked
<1>3. /\ Append(flight, Asked) \in Seq(Request)
      /\ DOMAIN Append(flight, Asked) = 1 .. Len(flight) + 1
      /\ \A i \in 1 .. Len(flight) : Append(flight, Asked)[i] = flight[i]
      /\ Append(flight, Asked)[Len(flight) + 1] = Asked
      /\ DOMAIN flight = 1 .. Len(flight) /\ Len(flight) \in Nat
  BY <1>1
<1>4. QED
  BY <1>2, <1>3 DEF Refreshed

\* A handler that goes on, with or without the record of its deposit.
LEMMA SendType ==
    ASSUME NEW s \in SendRun, NEW at \in {"depositing", "asked", "answered"}, NEW row \in Row
    PROVE  /\ [s EXCEPT !.at = at] \in SendRun
           /\ [s EXCEPT !.at = at].at = at
           /\ [s EXCEPT !.at = at, !.reply = row] \in SendRun
           /\ [s EXCEPT !.at = at, !.reply = row].reply = row
  BY DEF SendRun

\* Every step of the page and of the server keeps the types.
LEMMA TypeStep == TypeOK /\ [Next]_vars => TypeOK'
<1> SUFFICES ASSUME TypeOK, [Next]_vars
             PROVE  TypeOK'
  OBVIOUS
<1> USE DEF TypeOK
<1>1. ASSUME NEW S, NEW status \in Statuses, Becomes(S, status)
      PROVE  list' \in [Deposits -> Statuses]
  BY <1>1 DEF Becomes
<1>2. Unlisted \in Statuses /\ FirstStatuses \cup Outcomes \cup {"queued", "attesting"} \subseteq Statuses
  BY DEF Statuses, FirstStatuses, Outcomes
<1>3. NoRows \in [Deposits -> Row] /\ Rows \in [Deposits -> Row] /\ Asked \in Request
  BY <1>2 DEF NoRows, Rows, Row, Asked, Request
<1>4. ASSUME Changes
      PROVE  version' \in Nat
  BY <1>4 DEF Changes
<1>5. ASSUME ServerCrashes
      PROVE  list' \in [Deposits -> Statuses] /\ version' \in Nat
             /\ send' \in SendRun \cup {NoSend}
  <2>1. list' \in [Deposits -> Statuses]
    BY <1>1, <1>2, <1>5 DEF ServerCrashes, LoseList
  <2>2. QED
    BY <1>4, <1>5, <2>1 DEF ServerCrashes
<1>6. CASE OthersChangeTheList
  <2>1. list' \in [Deposits -> Statuses]
    BY <1>1, <1>2, <1>6 DEF OthersChangeTheList, List, StartBatch, EndSettlement
  <2>2. QED
    BY <1>4, <1>6, <2>1 DEF OthersChangeTheList, screen
<1>7. CASE OthersCrashTheServer
  BY <1>5, <1>7 DEF OthersCrashTheServer, screen
<1>8. CASE Poll
  BY <1>8, RefreshedType DEF Poll, server, screen
<1>9. ASSUME NEW i \in DOMAIN polls, AnswerPoll(i)
      PROVE  TypeOK'
  <2>1. polls[i] \in Request /\ i \in 1 .. Len(polls)
    OBVIOUS
  <2>2. [polls[i] EXCEPT !.at = "answered", !.rows = Rows] \in Request
    BY <1>3, <2>1 DEF Request
  <2>3. polls' = [polls EXCEPT ![i] = [polls[i] EXCEPT !.at = "answered", !.rows = Rows]]
    BY <1>9, <2>1 DEF AnswerPoll
  <2>4. polls' \in Seq(Request)
    BY <2>1, <2>2, <2>3, ExceptSeq
  <2>5. QED
    BY <1>9, <2>4 DEF AnswerPoll, server, screen
<1>10. ASSUME NEW i \in DOMAIN polls, ApplyPoll(i)
       PROVE  TypeOK'
  <2>1. polls[i] \in Request /\ polls[i].rows \in [Deposits -> Row]
    <3>1. polls[i] \in Request
      OBVIOUS
    <3>2. QED
      BY <3>1 DEF Request
  <2>2. QED
    BY <1>10, <2>1, RemoveAtType, OvertakenType DEF ApplyPoll, Replaced, server
<1>11. ASSUME NEW i \in DOMAIN polls, PollFails(i)
       PROVE  TypeOK'
  BY <1>11, RemoveAtType DEF PollFails, server, screen
<1>12. ASSUME NEW d \in Deposits, NEW wallet \in BOOLEAN, NEW queue \in BOOLEAN,
              Submit(d, wallet, queue)
       PROVE  TypeOK'
  <2> DEFINE at == IF wallet THEN "wallet" ELSE "depositing"
  <2>1. at \in {"wallet", "depositing"} /\ NoRows[d] \in Row
    BY <1>3
  <2>2. send' = [at |-> at, deposit |-> d, wallet |-> wallet, queue |-> queue,
                 reply |-> NoRows[d]]
    BY <1>12 DEF Submit
  <2> HIDE DEF at
  <2>3. send' \in SendRun
    BY <2>1, <2>2 DEF SendRun
  <2>4. QED
    BY <1>12, <2>3 DEF Submit, server, screen
<1>13. ASSUME send.at # "idle"
       PROVE  send \in SendRun
  BY <1>13 DEF NoSend
<1>14. CASE WalletStep
  BY <1>13, <1>14, SendType DEF WalletStep, server, screen, SendRun
<1>15. CASE DepositMined
  BY <1>13, <1>15, SendType DEF DepositMined, screen, SendRun
<1>16. CASE AnswerSend
  <2>1. send \in SendRun /\ send.deposit \in Deposits
    BY <1>13, <1>16 DEF AnswerSend, SendRun
  <2>2. list' \in [Deposits -> Statuses] /\ version' \in Nat
    BY <1>1, <1>2, <1>4, <1>16 DEF AnswerSend
  <2>3. Rows'[send.deposit] \in Row
    BY <2>1, <2>2 DEF Rows, Row
  <2>4. send' = [send EXCEPT !.at = "answered", !.reply = Rows'[send.deposit]]
    BY <1>16 DEF AnswerSend
  <2>5. send' \in SendRun
    BY <2>1, <2>3, <2>4, SendType
  <2>6. QED
    BY <1>16, <2>2, <2>5 DEF AnswerSend, screen
<1>17. CASE ApplySend
  <2>1. send.deposit \in Deposits /\ send.reply \in Row
    BY <1>13, <1>17 DEF ApplySend, SendRun
  <2>2. transfers' \in [Deposits -> Row]
    BY <1>17, <2>1 DEF ApplySend, Inserted
  <2>3. polls' \in Seq(Request)
    BY <1>17, OvertakenType, RefreshedType DEF ApplySend
  <2>4. QED
    BY <1>17, <2>2, <2>3 DEF ApplySend, server
<1>18. CASE SendFails
  BY <1>13, <1>18 DEF SendFails, busy, screen, SendRun
<1>19. CASE RunEffect \/ (\E d \in Deposits : ToggleSelect(d)) \/ SettleBatch \/ BatchFails
  BY <1>19 DEF RunEffect, ToggleSelect, SettleBatch, BatchFails, server, screen
<1>20. CASE AnswerBatch
  <2>1. CASE ServerCrashes
    BY <1>5, <1>20, <2>1 DEF AnswerBatch, screen
  <2>2. CASE StartBatch(batch.ids) /\ Changes /\ UNCHANGED send
    BY <1>1, <1>2, <1>4, <1>20, <2>2 DEF AnswerBatch, StartBatch, screen
  <2>3. QED
    BY <1>20, <2>1, <2>2 DEF AnswerBatch
<1>21. CASE BatchAccepted
  BY <1>21, RefreshedType DEF BatchAccepted, server
<1>22. CASE UNCHANGED vars
  BY <1>22 DEF vars, server, screen
<1>23. QED
  BY <1>6, <1>7, <1>8, <1>9, <1>10, <1>11, <1>12, <1>14, <1>15, <1>16, <1>17, <1>18,
     <1>19, <1>20, <1>21, <1>22 DEF Next, PollStep, SendStep, BatchStep

\* Every step of the page and of the server keeps the order.
LEMMA OrderStep == TypeOK /\ RepliesInOrder /\ [Next]_vars => RepliesInOrder'
<1> SUFFICES ASSUME TypeOK, RepliesInOrder, [Next]_vars
             PROVE  RepliesInOrder'
  OBVIOUS
<1> USE DEF RepliesInOrder
<1>1. /\ version \in Nat /\ transfers \in [Deposits -> Row] /\ polls \in Seq(Request)
      /\ \A d \in Deposits : transfers[d].version \in Nat
      /\ \A i \in DOMAIN polls : \A d \in Deposits : polls[i].rows[d].version \in Nat
  <2>1. TypeOK /\ \A i \in DOMAIN polls : polls[i] \in Request
    BY DEF TypeOK
  <2>2. \A i \in DOMAIN polls : polls[i].rows \in [Deposits -> Row]
    BY <2>1 DEF Request
  <2>3. QED
    BY <2>1, <2>2 DEF TypeOK, Row
<1>2. send.at = "answered" => send \in SendRun /\ send.deposit \in Deposits
                              /\ send.reply.version \in Nat
  BY DEF TypeOK, NoSend, SendRun, Row
<1>3. \A d \in Deposits : Rows[d].version = version
  BY DEF Rows
<1>4. ASSUME Changes
      PROVE  version' = version + 1
  BY <1>4 DEF Changes
<1>5. ASSUME UNCHANGED <<transfers, polls>>, version' \in {version, version + 1},
             send' \in {send, NoSend} \/ send'.at # "answered"
      PROVE  RepliesInOrder'
  BY <1>1, <1>2, <1>5 DEF NoSend
<1>6. ASSUME UNCHANGED <<transfers, version, send>>,
             \A j \in DOMAIN polls' :
                \/ polls'[j].at # "answered"
                \/ \E k \in DOMAIN polls : polls'[j] = polls[k]
      PROVE  RepliesInOrder'
  BY <1>1, <1>2, <1>6
<1>7. CASE OthersChangeTheList
  BY <1>4, <1>5, <1>7 DEF OthersChangeTheList, screen
<1>8. CASE OthersCrashTheServer
  BY <1>4, <1>5, <1>8 DEF OthersCrashTheServer, ServerCrashes, screen
<1>9. CASE Poll \/ BatchAccepted
  BY <1>1, <1>6, <1>9, RefreshedType DEF Poll, BatchAccepted, server, screen
<1>10. ASSUME NEW i \in DOMAIN polls, AnswerPoll(i)
       PROVE  RepliesInOrder'
  <2>1. polls' = [polls EXCEPT ![i].at = "answered", ![i].rows = Rows]
        /\ UNCHANGED <<transfers, version, send>>
    BY <1>10 DEF AnswerPoll, server, screen
  <2>2. polls[i] \in Request /\ DOMAIN polls' = DOMAIN polls
        /\ \A j \in DOMAIN polls : j # i => polls'[j] = polls[j]
    BY <1>1, <2>1
  <2>3. polls'[i].rows = Rows
    BY <2>1, <2>2 DEF Request
  <2>4. QED
    BY <1>1, <1>2, <1>3, <2>1, <2>2, <2>3
<1>11. ASSUME NEW i \in DOMAIN polls, ApplyPoll(i)
       PROVE  RepliesInOrder'
  <2>1. /\ polls[i].at = "answered" /\ transfers' = polls[i].rows
        /\ polls' = Overtaken(RemoveAt(polls, i)) /\ UNCHANGED <<version, send>>
    BY <1>11 DEF ApplyPoll, Replaced, server
  <2>2. ASSUME NEW j \in DOMAIN polls'
        PROVE  \E k \in DOMAIN polls :
                  /\ polls'[j].at = polls[k].at /\ polls'[j].rows = polls[k].rows
                  /\ polls'[j].standing = "overtaken"
    <3> DEFINE others == RemoveAt(polls, i)
    <3>1. /\ others \in Seq(Request)
          /\ \A n \in DOMAIN others : \E k \in DOMAIN polls : others[n] = polls[k]
      BY <1>1, RemoveAtType
    <3> HIDE DEF others
    <3>2. polls' = Overtaken(others)
      BY <2>1 DEF others
    <3>3. /\ j \in DOMAIN others /\ polls'[j].at = others[j].at
          /\ polls'[j].rows = others[j].rows /\ polls'[j].standing = "overtaken"
      BY <3>1, <3>2, OvertakenType
    <3>4. QED
      BY <3>1, <3>3
  <2>3. QED
    BY <1>1, <1>2, <2>1, <2>2
<1>12. ASSUME NEW i \in DOMAIN polls, PollFails(i)
       PROVE  RepliesInOrder'
  BY <1>1, <1>6, <1>12, RemoveAtType DEF PollFails, server, screen
<1>13. ASSUME NEW d \in Deposits, NEW wallet \in BOOLEAN, NEW queue \in BOOLEAN,
              Submit(d, wallet, queue)
       PROVE  RepliesInOrder'
  <2>1. send'.at # "answered"
    BY <1>13 DEF Submit
  <2>2. QED
    BY <1>5, <1>13, <2>1 DEF Submit, server, screen
<1>14. CASE WalletStep \/ DepositMined
  <2>1. send \in SendRun
    BY <1>14 DEF WalletStep, DepositMined, TypeOK, NoSend
  <2>2. send'.at # "answered"
    BY <1>14, <2>1, SendType DEF WalletStep, DepositMined, SendRun
  <2>3. QED
    BY <1>5, <1>14, <2>2 DEF WalletStep, DepositMined, server, screen
<1>15. CASE AnswerSend
  <2>1. send \in SendRun /\ send.deposit \in Deposits
    BY <1>15 DEF AnswerSend, TypeOK, NoSend, SendRun
  <2>2. version' \in {version, version + 1} /\ UNCHANGED <<transfers, polls>>
    BY <1>4, <1>15 DEF AnswerSend, screen
  <2>3. send' = [send EXCEPT !.at = "answered", !.reply = Rows'[send.deposit]]
    BY <1>15 DEF AnswerSend
  <2>4. send'.reply = Rows'[send.deposit]
    BY <2>1, <2>3 DEF SendRun
  <2>5. send'.reply.version = version'
    BY <2>1, <2>4 DEF Rows
  <2>6. QED
    BY <1>1, <2>2, <2>5
<1>16. CASE ApplySend
  <2>1. /\ send.at = "answered" /\ send' = NoSend /\ UNCHANGED version
        /\ transfers' = [transfers EXCEPT ![send.deposit] = send.reply]
        /\ polls' = Refreshed(Overtaken(polls))
    BY <1>16 DEF ApplySend, Inserted, server
  <2>2. \A d \in Deposits : transfers'[d].version <= version
    BY <1>1, <1>2, <2>1
  <2>3. ASSUME NEW j \in DOMAIN polls', polls'[j].at # "asked"
        PROVE  \E k \in DOMAIN polls :
                  /\ polls'[j].at = polls[k].at /\ polls'[j].rows = polls[k].rows
                  /\ polls'[j].standing = "overtaken"
    <3> DEFINE old == Overtaken(polls)
    <3>1. /\ old \in Seq(Request) /\ DOMAIN old = DOMAIN polls
          /\ \A k \in DOMAIN polls : /\ old[k].at = polls[k].at
                                     /\ old[k].rows = polls[k].rows
                                     /\ old[k].standing = "overtaken"
      BY <1>1, OvertakenType
    <3> HIDE DEF old
    <3>2. polls' = Refreshed(old)
      BY <2>1 DEF old
    <3>3. j \in DOMAIN old /\ polls'[j] = old[j]
      BY <2>3, <3>1, <3>2, RefreshedType
    <3>4. QED
      BY <3>1, <3>3
  <2>4. QED
    BY <1>1, <2>1, <2>2, <2>3 DEF NoSend
<1>17. CASE SendFails
  BY <1>5, <1>17 DEF SendFails, screen
<1>18. CASE RunEffect \/ (\E d \in Deposits : ToggleSelect(d)) \/ SettleBatch \/ BatchFails
  BY <1>5, <1>18 DEF RunEffect, ToggleSelect, SettleBatch, BatchFails, server, screen
<1>19. CASE AnswerBatch
  BY <1>4, <1>5, <1>19 DEF AnswerBatch, ServerCrashes, screen
<1>20. CASE UNCHANGED vars
  BY <1>5, <1>20 DEF vars, server, screen
<1>21. QED
  BY <1>7, <1>8, <1>9, <1>10, <1>11, <1>12, <1>13, <1>14, <1>15, <1>16, <1>17, <1>18,
     <1>19, <1>20 DEF Next, PollStep, SendStep, BatchStep

-----------------------------------------------------------------------------

\* The page starts typed and in order.
LEMMA PageInit == Init => TypeOK /\ RepliesInOrder
<1> SUFFICES ASSUME Init
             PROVE  TypeOK /\ RepliesInOrder
  OBVIOUS
<1>1. NoRows \in [Deposits -> Row] /\ \A d \in Deposits : NoRows[d].version = 0
  BY DEF NoRows, Row, Statuses
<1>2. Asked \in Request /\ Asked.at = "asked"
  BY <1>1 DEF Asked, Request
<1>3. polls = <<Asked>> /\ polls \in Seq(Request) /\ \A i \in DOMAIN polls : polls[i] = Asked
  BY <1>2 DEF Init
<1>4. TypeOK
  BY <1>1, <1>3 DEF Init, TypeOK
<1>5. RepliesInOrder
  BY <1>1, <1>2, <1>3 DEF Init, RepliesInOrder, NoSend
<1>6. QED
  BY <1>4, <1>5

\* Rows always have their type, and what is in flight and not overtaken is never
\* older than the screen.
LEMMA PageInvariant == Spec => [](TypeOK /\ RepliesInOrder)
<1>1. TypeOK /\ RepliesInOrder /\ [Next]_vars => (TypeOK /\ RepliesInOrder)'
  BY TypeStep, OrderStep
<1>2. QED
  BY <1>1, PageInit, PTL DEF Spec

\* However many polls overlap and in whatever order they are answered, the screen
\* goes back to an older state only by a reply that another one has overtaken, and
\* by the form for the transfer it has sent.
THEOREM OnlyLateRepliesGoBack == Spec => OnlyOvertakenRepliesGoBack
<1>1. ASSUME TypeOK, RepliesInOrder, [Next]_vars, NEW d \in Deposits,
             transfers'[d].version < transfers[d].version
      PROVE  \/ \E i \in DOMAIN polls :
                   polls[i].standing = "overtaken" /\ transfers' = polls[i].rows
             \/ send.at = "answered" /\ send.deposit = d
  <2>1. transfers[d].version \in Nat
    BY <1>1 DEF TypeOK, Row
  <2>2. transfers' # transfers
    BY <1>1, <2>1
  <2>3. ASSUME NEW i \in DOMAIN polls, ApplyPoll(i)
        PROVE  polls[i].standing = "overtaken" /\ transfers' = polls[i].rows
    <3>1. polls[i].at = "answered" /\ transfers' = polls[i].rows
      BY <2>3 DEF ApplyPoll, Replaced
    <3>2. polls[i] \in Request
      BY <1>1 DEF TypeOK
    <3>3. polls[i].rows[d].version \in Nat
      BY <3>2 DEF Request, Row
    <3>4. ~(transfers[d].version <= polls[i].rows[d].version)
      BY <1>1, <2>1, <3>1, <3>3
    <3>5. QED
      BY <1>1, <3>1, <3>4 DEF RepliesInOrder
  <2>4. CASE ApplySend
    <3>1. send.at = "answered" /\ transfers' = [transfers EXCEPT ![send.deposit] = send.reply]
      BY <2>4 DEF ApplySend, Inserted
    <3>2. transfers'[d] # transfers[d]
      BY <1>1, <2>1
    <3>3. send.deposit = d
      BY <1>1, <3>1, <3>2 DEF TypeOK
    <3>4. QED
      BY <3>1, <3>3
  <2>5. (\E i \in DOMAIN polls : ApplyPoll(i)) \/ ApplySend
    BY <1>1, <2>2
       DEF Next, OthersChangeTheList, OthersCrashTheServer, PollStep, Poll, AnswerPoll,
           PollFails, Submit, SendStep, WalletStep, DepositMined, AnswerSend, SendFails,
           RunEffect, ToggleSelect, SettleBatch, BatchStep, AnswerBatch, BatchAccepted,
           BatchFails, server, screen, vars
  <2>6. QED
    BY <2>3, <2>4, <2>5
<1>2. TypeOK /\ RepliesInOrder /\ [Next]_vars
         => [\A d \in Deposits : transfers'[d].version < transfers[d].version =>
               \/ \E i \in DOMAIN polls :
                     polls[i].standing = "overtaken" /\ transfers' = polls[i].rows
               \/ send.at = "answered" /\ send.deposit = d]_vars
  BY <1>1
<1>3. QED
  BY <1>2, PageInvariant, PTL DEF Spec, OnlyOvertakenRepliesGoBack

=============================================================================
