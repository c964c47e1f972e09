-------------------------- MODULE FairateRateFeed --------------------------
(***************************************************************************)
(* The USD/NGN feed in time: FairateRatePublisher, the contract that holds *)
(* the answer, FairateRateFeed, which refuses an answer older than         *)
(* MAX_STALENESS, and the scheduled job (publish-rate.yml running          *)
(* scripts/publish_rate.ts) that fetches a quote and publishes it.         *)
(*                                                                         *)
(* Time is counted in hours from a midnight before the deployment.  A run  *)
(* is named by the hour it is scheduled for; it starts then or later, may  *)
(* fail, and has ended MaxDelay hours after its schedule.  FairateDeposit  *)
(* abstracts all this to a feed whose readings change at any time.         *)
(***************************************************************************)
EXTENDS Integers, FiniteSets

CONSTANTS
    MaxStaleness,   \* MAX_STALENESS
    Day,            \* hours after which the provider has a new quote
    Period,         \* hours between two scheduled runs
    Runs,           \* the hours of the schedule
    MaxDelay,       \* hours after which a run has ended
    Rates,          \* what the provider can quote, usable or not
    Horizon         \* bound: hours

\* The runs of publish-rate.yml are at 6 and 18 hours: none is at midnight.
ASSUME ScheduleAssumption ==
    /\ {MaxStaleness, MaxDelay} \subseteq Nat
    /\ {Day, Period, Horizon} \subseteq Nat \ {0}
    /\ Runs \subseteq 1 .. Horizon
    /\ \A s \in Runs : s % Day # 0 /\ (s + Period <= Horizon => s + Period \in Runs)
    /\ Rates \subseteq Int

VARIABLES
    now,        \* block.timestamp on the source chain, in hours
    quote,      \* what the FX provider answers: [rate, updatedAt]
    published,  \* _answer, _publishedAt, sourceUpdatedAt of the publisher
    runs        \* where each run is, and the quote it goes by

vars == <<now, quote, published, runs>>

\* The constructor of the publisher leaves answer and time at 0.
Init ==
    /\ now = 1
    /\ quote \in [rate : Rates, updatedAt : {0}]
    /\ published = [answer |-> 0, publishedAt |-> 0, sourceUpdatedAt |-> 0]
    /\ runs = [s \in Runs |-> [state |-> "pending", quote |-> quote]]

-----------------------------------------------------------------------------

Ended(s) == runs[s].state \in {"published", "failed"}

\* The hour of the latest midnight.
Midnight == now - (now % Day)

\* An hour passes.  In the first hour of a day the provider, external to src/,
\* posts its quote; a run that has come to its last hour ends in it.
Tick ==
    /\ now < Horizon
    /\ quote.updatedAt = Midnight
    /\ \A s \in Runs : now >= s + MaxDelay => Ended(s)
    /\ now' = now + 1
    /\ UNCHANGED <<quote, published, runs>>

Refresh ==
    /\ quote.updatedAt # Midnight
    /\ quote' \in [rate : Rates, updatedAt : {Midnight}]
    /\ UNCHANGED <<now, published, runs>>

\* Mutant: no concurrency group.
NotAlone(s) == TRUE

\* The concurrency group of the workflow: a run waits for the one before it.
Alone(s) == \A r \in Runs : runs[r].state = "fetched" => r = s

\* fetchLiveRate, which throws unless the rate is usable.
Fetch(s) ==
    /\ now >= s
    /\ runs[s].state = "pending"
    /\ Alone(s)
    /\ quote.rate > 0
    /\ runs' = [runs EXCEPT ![s] = [state |-> "fetched", quote |-> quote]]
    /\ UNCHANGED <<now, quote, published>>

\* The run has no usable rate, is dropped or times out, or cannot get its
\* transaction through.
RunFails(s) ==
    /\ now >= s
    /\ ~Ended(s)
    /\ runs' = [runs EXCEPT ![s].state = "failed"]
    /\ UNCHANGED <<now, quote, published>>

\* Mutant: the answer is as old as the quote.
AnswerOfQuoteTime(q) ==
    [answer |-> q.rate, publishedAt |-> q.updatedAt, sourceUpdatedAt |-> q.updatedAt]

\* What publish stores of a quote: the time of the answer is that of the block.
Answer(q) ==
    [answer |-> q.rate, publishedAt |-> now, sourceUpdatedAt |-> q.updatedAt]

\* FairateRatePublisher.publish, called by the run with its quote.
Publish(s) ==
    /\ runs[s].state = "fetched"
    /\ runs[s].quote.rate > 0
    /\ published' = Answer(runs[s].quote)
    /\ runs' = [runs EXCEPT ![s].state = "published"]
    /\ UNCHANGED <<now, quote>>

Age == now - published.publishedAt

\* Mutant: no limit to the age.
ObservableAtAnyAge == published.answer > 0 /\ published.publishedAt # 0

\* FairateRateFeed.observe, and with it a deposit, does not revert.
Observable ==
    /\ published.answer > 0
    /\ published.publishedAt # 0
    /\ Age <= MaxStaleness

Next ==
    \/ Tick
    \/ Refresh
    \/ \E s \in Runs : Fetch(s) \/ RunFails(s) \/ Publish(s)

Spec == Init /\ [][Next]_vars

-----------------------------------------------------------------------------

\* The state of the feed, the provider and the job has its type.
TypeOK ==
    /\ now \in 1 .. Horizon
    /\ quote \in [rate : Rates, updatedAt : 0 .. now]
    /\ published \in [answer : Nat, publishedAt : 0 .. now, sourceUpdatedAt : 0 .. now]
    /\ runs \in [Runs -> [state : {"pending", "fetched", "published", "failed"},
                          quote : [rate : Rates, updatedAt : 0 .. now]]]

Failed == {s \in Runs : runs[s].state = "failed"}

\* Failed runs later than the one that published the answer.
FailedSince == {s \in Failed : s > published.publishedAt - MaxDelay}

\* "the on-chain rate is never more than ~12h old", made exact: the age is a
\* period, and one more for each run that has failed since, and on top of it the
\* delay of a run.
AgeIsBounded ==
    published.publishedAt # 0 =>
        Age <= Period * (1 + Cardinality(FailedSince)) + MaxDelay

\* Publishing resets the staleness clock whatever the age of the quote, so the
\* limit of 24 hours is not the age of the rate a deposit is priced at: counted
\* from the midnight of the quote, that is the limit after the latest run of a
\* day, however late it was.
PricedByRecentQuote ==
    Observable =>
        \E s \in Runs :
            now - published.sourceUpdatedAt <= (s % Day) + MaxDelay + MaxStaleness

\* An older quote never replaces a newer one, though the contract does not
\* compare them: runs do not overlap.
QuotesDoNotGoBack ==
    [][published'.sourceUpdatedAt >= published.sourceUpdatedAt]_vars

=============================================================================
