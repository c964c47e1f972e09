----------------------- MODULE FairateRateFeedProofs -----------------------
(***************************************************************************)
(* Proofs about the rate feed and its publishing job, for every schedule,  *)
(* every delay, every set of quotes and every length of a day.             *)
(***************************************************************************)
EXTENDS FairateRateFeed, SumTheorems

-----------------------------------------------------------------------------
(* Midnights                                                               *)

\* The midnight before hour n is an hour no later than n.
LEMMA MidnightIsPast ==
    ASSUME NEW n \in Nat, NEW d \in Nat \ {0}
    PROVE  n - (n % d) \in 0 .. n
<1>1. n % d \in 0 .. d - 1 /\ n % d <= n
  OBVIOUS
<1>2. QED
  BY <1>1

\* The midnight before a later hour is no earlier.
LEMMA MidnightsAdvance ==
    ASSUME NEW n \in Nat, NEW m \in Nat, n <= m, NEW d \in Nat \ {0}
    PROVE  n - (n % d) <= m - (m % d)
<1> DEFINE q == n \div d
           p == m \div d
           s == n % d
           t == m % d
<1>1. q \in Nat /\ p \in Nat /\ s \in 0 .. d - 1 /\ t \in 0 .. d - 1
  OBVIOUS
<1>2. n = d * q + s /\ m = d * p + t
  OBVIOUS
<1> HIDE DEF q, p, s, t
<1>3. q <= p
  <2>1. SUFFICES ASSUME q >= p + 1
                 PROVE  FALSE
    BY <1>1
  <2>2. d * q >= d * (p + 1)
    BY <1>1, <2>1
  <2>3. d * q >= d * p + d
    BY <1>1, <2>2
  <2>4. QED
    BY <1>1, <1>2, <2>3
<1>4. d * q <= d * p
  BY <1>1, <1>3
<1>5. QED
  BY <1>1, <1>2, <1>4 DEF s, t

\* An hour that is no midnight has the midnight of the hour before it.
LEMMA MidnightStays ==
    ASSUME NEW n \in Nat, NEW d \in Nat \ {0}, (n + 1) % d # 0
    PROVE  (n + 1) - ((n + 1) % d) <= n - (n % d)
<1> DEFINE q == n \div d
           p == (n + 1) \div d
           s == n % d
           t == (n + 1) % d
<1>1. q \in Nat /\ p \in Nat /\ s \in 0 .. d - 1 /\ t \in 1 .. d - 1
  OBVIOUS
<1>2. n = d * q + s /\ n + 1 = d * p + t
  OBVIOUS
<1> HIDE DEF q, p, s, t
<1>3. p <= q
  <2>1. SUFFICES ASSUME p >= q + 1
                 PROVE  FALSE
    BY <1>1
  <2>2. d * p >= d * (q + 1)
    BY <1>1, <2>1
  <2>3. d * p >= d * q + d
    BY <1>1, <2>2
  <2>4. QED
    BY <1>1, <1>2, <2>3
<1>4. d * p <= d * q
  BY <1>1, <1>3
<1>5. QED
  BY <1>1, <1>2, <1>4 DEF s, t

-----------------------------------------------------------------------------
(* Types and the order of quotes                                           *)

\* What the job goes by is never newer than what the provider has, what the feed
\* has never newer than what a run under way would publish, and runs under way
\* do not overlap.
QuotesInOrder ==
    /\ quote.updatedAt <= Midnight
    /\ published.sourceUpdatedAt <= quote.updatedAt
    /\ \A s \in Runs :
          runs[s].state = "fetched" =>
              /\ published.sourceUpdatedAt <= runs[s].quote.updatedAt
              /\ runs[s].quote.updatedAt <= quote.updatedAt
              /\ \A r \in Runs : runs[r].state = "fetched" => r = s

\* The inductive invariant of the job.
JobInvariant == TypeOK /\ QuotesInOrder

Quote == [rate : Rates, updatedAt : 0 .. now]
Run == [state : {"pending", "fetched", "published", "failed"}, quote : Quote]

\* The invariant holds when the contracts are deployed.
LEMMA JobInit == Init => JobInvariant
<1> SUFFICES ASSUME Init
             PROVE  JobInvariant
  OBVIOUS
<1>1. now = 1 /\ Horizon \in Nat \ {0} /\ Day \in Nat \ {0}
  BY ScheduleAssumption DEF Init
<1>2. Midnight \in 0 .. 1
  BY <1>1, MidnightIsPast DEF Midnight
<1>3. quote \in Quote /\ quote.updatedAt = 0
  BY <1>1 DEF Init, Quote
<1>4. \A s \in Runs : runs[s].state = "pending"
  BY DEF Init
<1>5. TypeOK
  BY <1>1, <1>3 DEF Init, TypeOK, Quote
<1>6. QuotesInOrder
  BY <1>2, <1>3, <1>4 DEF Init, QuotesInOrder
<1>7. QED
  BY <1>5, <1>6 DEF JobInvariant

\* The time, the quotes, the answer and the runs keep their type, and quotes stay
\* in order, however runs start, fail and publish.
LEMMA JobStep == JobInvariant /\ [Next]_vars => JobInvariant'
<1> SUFFICES ASSUME JobInvariant, [Next]_vars
             PROVE  JobInvariant'
  OBVIOUS
<1>1. /\ now \in 1 .. Horizon /\ now \in Nat
      /\ quote \in Quote
      /\ published \in [answer : Nat, publishedAt : 0 .. now, sourceUpdatedAt : 0 .. now]
      /\ runs \in [Runs -> Run]
      /\ Day \in Nat \ {0} /\ Rates \subseteq Int
  BY ScheduleAssumption DEF JobInvariant, TypeOK, Quote, Run
<1>2. Midnight \in 0 .. now
  BY <1>1, MidnightIsPast DEF Midnight
<1>3. CASE Tick
  <2>1. now' = now + 1 /\ now' \in 1 .. Horizon /\ UNCHANGED <<quote, published, runs>>
    BY <1>1, <1>3, ScheduleAssumption DEF Tick
  <2>2. Midnight <= Midnight' /\ Midnight' \in Nat
    <3>1. Midnight <= Midnight'
      <4>1. now' \in Nat /\ now <= now'
        BY <1>1, <2>1
      <4>2. QED
        BY <1>1, <4>1, MidnightsAdvance DEF Midnight
    <3>2. Midnight' \in 0 .. now'
      BY <1>1, <2>1, MidnightIsPast DEF Midnight
    <3>3. QED
      BY <3>1, <3>2, <2>1, <1>1
  <2>3. 0 .. now \subseteq 0 .. now'
    BY <1>1, <2>1
  <2>4. TypeOK'
    BY <1>1, <2>1, <2>3 DEF TypeOK, Quote, Run
  <2>5. QuotesInOrder'
    BY <1>1, <1>2, <2>1, <2>2 DEF JobInvariant, QuotesInOrder, Quote
  <2>6. QED
    BY <2>4, <2>5 DEF JobInvariant
<1>4. CASE Refresh
  <2>1. quote' \in Quote /\ quote'.updatedAt = Midnight /\ UNCHANGED <<now, published, runs>>
    BY <1>2, <1>4 DEF Refresh, Quote
  <2>2. TypeOK'
    BY <1>1, <2>1 DEF TypeOK, Quote, Run
  <2>3. Midnight' = Midnight
    BY <2>1 DEF Midnight
  <2>4. QuotesInOrder'
    BY <1>1, <1>2, <2>1, <2>3 DEF JobInvariant, QuotesInOrder, Quote, Run
  <2>5. QED
    BY <2>2, <2>4 DEF JobInvariant
<1>5. ASSUME NEW s \in Runs, Fetch(s)
      PROVE  JobInvariant'
  <2>1. /\ UNCHANGED <<now, quote, published>>
        /\ runs' = [runs EXCEPT ![s] = [state |-> "fetched", quote |-> quote]]
        /\ \A r \in Runs : runs[r].state = "fetched" => r = s
    BY <1>5 DEF Fetch, Alone
  <2>2. runs' \in [Runs -> Run]
    BY <1>1, <2>1 DEF Run
  <2>3. TypeOK'
    BY <1>1, <2>1, <2>2 DEF TypeOK, Quote, Run
  <2>4. Midnight' = Midnight
    BY <2>1 DEF Midnight
  <2>5. \A r \in Runs : runs'[r].state = "fetched" => r = s /\ runs'[r].quote = quote
    BY <1>1, <2>1
  <2>6. QuotesInOrder'
    BY <1>1, <1>2, <2>1, <2>4, <2>5 DEF JobInvariant, QuotesInOrder, Quote
  <2>7. QED
    BY <2>3, <2>6 DEF JobInvariant
<1>6. ASSUME NEW s \in Runs, RunFails(s)
      PROVE  JobInvariant'
  <2>1. /\ UNCHANGED <<now, quote, published>>
        /\ runs' = [runs EXCEPT ![s].state = "failed"]
    BY <1>6 DEF RunFails
  <2>2. runs' \in [Runs -> Run]
    BY <1>1, <2>1 DEF Run
  <2>3. \A r \in Runs : runs'[r].state = "fetched" => runs'[r] = runs[r]
    BY <1>1, <2>1 DEF Run
  <2>4. TypeOK'
    BY <1>1, <2>1, <2>2 DEF TypeOK, Quote, Run
  <2>5. QuotesInOrder'
    BY <2>1, <2>3 DEF JobInvariant, QuotesInOrder, Midnight
  <2>6. QED
    BY <2>4, <2>5 DEF JobInvariant
<1>7. ASSUME NEW s \in Runs, Publish(s)
      PROVE  JobInvariant'
  <2>1. /\ UNCHANGED <<now, quote>>
        /\ runs[s].state = "fetched" /\ runs[s].quote.rate > 0
        /\ published' = Answer(runs[s].quote)
        /\ runs' = [runs EXCEPT ![s].state = "published"]
    BY <1>7 DEF Publish
  <2>2. runs[s].quote \in Quote
    BY <1>1 DEF Run
  <2>3. published' \in [answer : Nat, publishedAt : 0 .. now, sourceUpdatedAt : 0 .. now]
    BY <1>1, <2>1, <2>2 DEF Answer, Quote
  <2>4. runs' \in [Runs -> Run]
    BY <1>1, <2>1 DEF Run
  <2>5. \A r \in Runs : runs'[r].state # "fetched"
    BY <1>1, <2>1 DEF JobInvariant, QuotesInOrder, Run
  <2>6. TypeOK'
    BY <1>1, <2>1, <2>3, <2>4 DEF TypeOK, Quote, Run
  <2>7. published'.sourceUpdatedAt <= quote.updatedAt
    BY <2>1 DEF JobInvariant, QuotesInOrder, Answer
  <2>8. QuotesInOrder'
    BY <2>1, <2>5, <2>7 DEF JobInvariant, QuotesInOrder, Midnight
  <2>9. QED
    BY <2>6, <2>8 DEF JobInvariant
<1>8. CASE UNCHANGED vars
  BY <1>8 DEF vars, JobInvariant, TypeOK, QuotesInOrder, Midnight
<1>9. QED
  BY <1>3, <1>4, <1>5, <1>6, <1>7, <1>8 DEF Next

\* The invariant of the job holds in every state.
LEMMA JobAlways == Spec => []JobInvariant
  BY JobInit, JobStep, PTL DEF Spec

\* The state of the feed, the provider and the job always has its type: the answer
\* is positive or not there, and no time is in the future.
THEOREM FeedTypeCorrect == Spec => []TypeOK
  BY JobAlways, PTL DEF JobInvariant

\* An older quote never replaces a newer one in the feed, whatever runs are late
\* or fail, because one run has ended before the next one fetches.
THEOREM NewerQuotesOnly == Spec => QuotesDoNotGoBack
<1>1. JobInvariant /\ [Next]_vars
          => [published'.sourceUpdatedAt >= published.sourceUpdatedAt]_vars
  <2> SUFFICES ASSUME JobInvariant, Next
               PROVE  published'.sourceUpdatedAt >= published.sourceUpdatedAt
    OBVIOUS
  <2>1. published.sourceUpdatedAt \in Int
    BY DEF JobInvariant, TypeOK
  <2>2. ASSUME NEW s \in Runs, Publish(s)
        PROVE  published'.sourceUpdatedAt >= published.sourceUpdatedAt
    <3>1. published'.sourceUpdatedAt = runs[s].quote.updatedAt
      BY <2>2 DEF Publish, Answer
    <3>2. published.sourceUpdatedAt <= runs[s].quote.updatedAt
      BY <2>2 DEF Publish, JobInvariant, QuotesInOrder
    <3>3. runs[s].quote.updatedAt \in Int
      BY DEF JobInvariant, TypeOK
    <3>4. QED
      BY <2>1, <3>1, <3>2, <3>3
  <2>3. CASE UNCHANGED published
    BY <2>1, <2>3
  <2>4. QED
    BY <2>2, <2>3 DEF Next, Tick, Refresh, Fetch, RunFails
<1>2. QED
  BY <1>1, JobAlways, PTL DEF Spec, QuotesDoNotGoBack

-----------------------------------------------------------------------------
(* How old a rate can be                                                   *)

Midnights(h) == h - (h % Day)

\* From the hour of a run on, the provider has the quote of its day, and so has
\* the run; it ends in time; and the feed has its answer from such a run.
QuotesAreOfTheDay ==
    /\ \A s \in Runs :
          /\ now >= s => quote.updatedAt >= Midnights(s)
          /\ ~Ended(s) => now <= s + MaxDelay
          /\ runs[s].state = "fetched" => runs[s].quote.updatedAt >= Midnights(s)
    /\ published.publishedAt # 0 =>
          \E s \in Runs :
              /\ published.publishedAt <= s + MaxDelay
              /\ published.sourceUpdatedAt >= Midnights(s)

\* No run is scheduled at a midnight.
LEMMA RunHours ==
    ASSUME NEW s \in Runs
    PROVE  /\ s \in Nat \ {0} /\ s % Day # 0
           /\ Midnights(s) \in 0 .. s /\ s % Day \in Int
           /\ MaxDelay \in Nat /\ Day \in Nat \ {0}
<1>1. s \in Nat \ {0} /\ s % Day # 0 /\ MaxDelay \in Nat /\ Day \in Nat \ {0}
  BY ScheduleAssumption
<1>2. QED
  BY <1>1, MidnightIsPast DEF Midnights

\* The provider has the quote of the day from the first hour on.
LEMMA QuoteInit == Init => QuotesAreOfTheDay
<1> SUFFICES ASSUME Init
             PROVE  QuotesAreOfTheDay
  OBVIOUS
<1>1. ASSUME NEW s \in Runs
      PROVE  /\ now >= s => quote.updatedAt >= Midnights(s)
             /\ now <= s + MaxDelay
             /\ runs[s].state # "fetched"
  <2>1. now = 1 /\ quote.updatedAt = 0 /\ runs[s].state = "pending"
    BY DEF Init
  <2>2. CASE s = 1
    <3>1. Midnights(1) <= Midnights(0)
      <4>1. (0 + 1) % Day # 0
        BY <2>2, RunHours
      <4>2. QED
        BY <4>1, RunHours, MidnightStays DEF Midnights
    <3>2. Midnights(0) \in 0 .. 0
      BY RunHours, MidnightIsPast DEF Midnights
    <3>3. QED
      BY <2>1, <2>2, <3>1, <3>2, RunHours
  <2>3. QED
    BY <2>1, <2>2, RunHours
<1>2. published.publishedAt = 0
  BY DEF Init
<1>3. QED
  BY <1>1, <1>2 DEF QuotesAreOfTheDay

\* Whatever run fails, is late or publishes, the invariant is kept.
LEMMA QuoteStep ==
    JobInvariant /\ QuotesAreOfTheDay /\ [Next]_vars => QuotesAreOfTheDay'
<1> SUFFICES ASSUME JobInvariant, QuotesAreOfTheDay, [Next]_vars
             PROVE  QuotesAreOfTheDay'
  OBVIOUS
<1>1. /\ now \in Nat
      /\ quote \in Quote
      /\ published \in [answer : Nat, publishedAt : 0 .. now, sourceUpdatedAt : 0 .. now]
      /\ runs \in [Runs -> Run]
      /\ Day \in Nat \ {0} /\ MaxDelay \in Nat
  BY ScheduleAssumption DEF JobInvariant, TypeOK, Quote, Run
<1>2. CASE Tick
  <2>1. now' = now + 1 /\ UNCHANGED <<quote, published, runs>> /\ quote.updatedAt = Midnights(now)
    BY <1>2 DEF Tick, Midnight, Midnights
  <2>2. ASSUME NEW s \in Runs, now' >= s
        PROVE  quote.updatedAt >= Midnights(s)
    <3>1. CASE now >= s
      BY <3>1 DEF QuotesAreOfTheDay
    <3>2. CASE now < s
      <4>1. s = now + 1
        BY <1>1, <2>1, <2>2, <3>2, RunHours
      <4>2. Midnights(now + 1) <= Midnights(now)
        BY <1>1, <4>1, RunHours, MidnightStays DEF Midnights
      <4>3. QED
        BY <2>1, <4>1, <4>2
    <3>3. QED
      BY <1>1, <3>1, <3>2, RunHours
  <2>3. ASSUME NEW s \in Runs, ~Ended(s)
        PROVE  now' <= s + MaxDelay
    <3>1. ~(now >= s + MaxDelay)
      BY <1>2, <2>3 DEF Tick
    <3>2. QED
      BY <1>1, <2>1, <3>1, RunHours
  <2>4. QED
    BY <2>1, <2>2, <2>3 DEF QuotesAreOfTheDay, Ended
<1>3. CASE Refresh
  <2>1. quote'.updatedAt = Midnights(now) /\ UNCHANGED <<now, published, runs>>
    BY <1>3 DEF Refresh, Midnight, Midnights
  <2>2. ASSUME NEW s \in Runs, now >= s
        PROVE  Midnights(now) >= Midnights(s)
    <3>1. Midnights(s) <= Midnights(now)
      BY <1>1, <2>2, RunHours, MidnightsAdvance DEF Midnights
    <3>2. Midnights(now) \in 0 .. now
      BY <1>1, MidnightIsPast DEF Midnights
    <3>3. QED
      BY <3>1, <3>2, RunHours
  <2>3. QED
    BY <2>1, <2>2 DEF QuotesAreOfTheDay, Ended
<1>4. ASSUME NEW r \in Runs, Fetch(r)
      PROVE  QuotesAreOfTheDay'
  <2>1. /\ now >= r /\ runs[r].state = "pending"
        /\ UNCHANGED <<now, quote, published>>
        /\ runs' = [runs EXCEPT ![r] = [state |-> "fetched", quote |-> quote]]
    BY <1>4 DEF Fetch
  <2>2. runs'[r].quote.updatedAt >= Midnights(r) /\ runs'[r].quote = quote
    BY <1>1, <2>1 DEF QuotesAreOfTheDay
  <2>3. ASSUME NEW s \in Runs, ~Ended(s)'
        PROVE  ~Ended(s)
    BY <1>1, <2>1, <2>3 DEF Ended
  <2>4. ASSUME NEW s \in Runs, runs'[s].state = "fetched"
        PROVE  runs'[s].quote.updatedAt >= Midnights(s)
    BY <1>1, <2>1, <2>2, <2>4 DEF QuotesAreOfTheDay
  <2>5. QED
    BY <2>1, <2>3, <2>4 DEF QuotesAreOfTheDay
<1>5. ASSUME NEW r \in Runs, RunFails(r)
      PROVE  QuotesAreOfTheDay'
  <2>1. UNCHANGED <<now, quote, published>> /\ runs' = [runs EXCEPT ![r].state = "failed"]
    BY <1>5 DEF RunFails
  <2>2. \A s \in Runs : ~Ended(s)' => runs'[s] = runs[s] /\ ~Ended(s)
    BY <1>1, <2>1 DEF Ended, Run
  <2>3. \A s \in Runs : runs'[s].state = "fetched" => runs'[s] = runs[s]
    BY <1>1, <2>1 DEF Run
  <2>4. QED
    BY <2>1, <2>2, <2>3 DEF QuotesAreOfTheDay
<1>6. ASSUME NEW r \in Runs, Publish(r)
      PROVE  QuotesAreOfTheDay'
  <2>1. /\ UNCHANGED <<now, quote>>
        /\ runs[r].state = "fetched"
        /\ published' = Answer(runs[r].quote)
        /\ runs' = [runs EXCEPT ![r].state = "published"]
    BY <1>6 DEF Publish
  <2>2. /\ published'.publishedAt <= r + MaxDelay
        /\ published'.sourceUpdatedAt >= Midnights(r)
    BY <2>1 DEF QuotesAreOfTheDay, Ended, Answer
  <2>3. \A s \in Runs : ~Ended(s)' => runs'[s] = runs[s] /\ ~Ended(s)
    BY <1>1, <2>1 DEF Ended, Run
  <2>4. \A s \in Runs : runs'[s].state = "fetched" => runs'[s] = runs[s]
    BY <1>1, <2>1 DEF Run
  <2>5. QED
    BY <2>1, <2>2, <2>3, <2>4 DEF QuotesAreOfTheDay
<1>7. CASE UNCHANGED vars
  BY <1>7 DEF vars, QuotesAreOfTheDay, Ended
<1>8. QED
  BY <1>2, <1>3, <1>4, <1>5, <1>6, <1>7 DEF Next

\* A deposit is priced by a quote that is no older than the limit of the feed, the
\* delay of a run and the hours from midnight to the run allow, for every schedule
\* without runs at midnight.
THEOREM RecentQuotesPrice == Spec => []PricedByRecentQuote
<1>1. JobInvariant /\ QuotesAreOfTheDay => PricedByRecentQuote
  <2> SUFFICES ASSUME JobInvariant, QuotesAreOfTheDay, Observable
               PROVE  \E s \in Runs : now - published.sourceUpdatedAt
                                          <= (s % Day) + MaxDelay + MaxStaleness
    BY DEF PricedByRecentQuote
  <2>1. now \in Nat /\ published.publishedAt \in Nat /\ published.sourceUpdatedAt \in Nat
    BY DEF JobInvariant, TypeOK
  <2>2. published.publishedAt # 0 /\ now - published.publishedAt <= MaxStaleness
    BY DEF Observable, Age
  <2>3. PICK s \in Runs : /\ published.publishedAt <= s + MaxDelay
                          /\ published.sourceUpdatedAt >= Midnights(s)
    BY <2>2 DEF QuotesAreOfTheDay
  <2>4. MaxStaleness \in Nat
    BY ScheduleAssumption
  <2>5. now - published.sourceUpdatedAt <= (s % Day) + MaxDelay + MaxStaleness
    BY <2>1, <2>2, <2>3, <2>4, RunHours DEF Midnights
  <2>6. QED
    BY <2>5
<1>2. Spec => []QuotesAreOfTheDay
  BY JobAlways, QuoteInit, QuoteStep, PTL DEF Spec
<1>3. QED
  BY <1>1, <1>2, JobAlways, PTL

-----------------------------------------------------------------------------
(* The age of the answer                                                   *)

PublishedRuns == {s \in Runs : runs[s].state = "published"}

\* A run that has published did so by the time of the answer, and the answer is of a
\* run that had not passed its delay, as no run does.
AnswerIsOfARun ==
    /\ \A s \in Runs :
          /\ ~Ended(s) => now <= s + MaxDelay
          /\ runs[s].state = "fetched" => s <= now
          /\ runs[s].state = "published" => s <= published.publishedAt
    /\ published.publishedAt # 0 =>
          \E s \in PublishedRuns : published.publishedAt <= s + MaxDelay

\* No run is under way when the contracts are deployed.
LEMMA AnswerInit == Init => AnswerIsOfARun
<1> SUFFICES ASSUME Init
             PROVE  AnswerIsOfARun
  OBVIOUS
<1>1. now = 1 /\ published.publishedAt = 0 /\ \A s \in Runs : runs[s].state = "pending"
  BY DEF Init
<1>2. QED
  BY <1>1, RunHours DEF AnswerIsOfARun

\* A run publishes within its delay, and each answer is later than the one before.
LEMMA AnswerStep == JobInvariant /\ AnswerIsOfARun /\ [Next]_vars => AnswerIsOfARun'
<1> SUFFICES ASSUME JobInvariant, AnswerIsOfARun, [Next]_vars
             PROVE  AnswerIsOfARun'
  OBVIOUS
<1>1. /\ now \in Nat /\ now # 0
      /\ published.publishedAt \in 0 .. now
      /\ runs \in [Runs -> Run]
      /\ MaxDelay \in Nat /\ Runs \subseteq Nat
  BY ScheduleAssumption DEF JobInvariant, TypeOK, Quote, Run
<1>2. ASSUME UNCHANGED <<published, runs>>, now' = now \/ Tick
      PROVE  AnswerIsOfARun'
  <2>1. ASSUME NEW s \in Runs
        PROVE  /\ ~Ended(s)' => now' <= s + MaxDelay
               /\ runs'[s].state = "fetched" => s <= now'
               /\ runs'[s].state = "published" => s <= published'.publishedAt
    <3>1. runs'[s] = runs[s] /\ (Ended(s)' <=> Ended(s)) /\ published' = published
      BY <1>2 DEF Ended
    <3>2. s \in Nat /\ (now' = now \/ (now' = now + 1 /\ (now >= s + MaxDelay => Ended(s))))
      BY <1>1, <1>2 DEF Tick
    <3>3. QED
      BY <1>1, <3>1, <3>2 DEF AnswerIsOfARun
  <2>2. QED
    BY <1>2, <2>1 DEF AnswerIsOfARun, PublishedRuns
<1>3. ASSUME NEW s \in Runs, NEW new \in Run, runs' = [runs EXCEPT ![s] = new],
             new.state \in {"fetched", "failed"}, s <= now, ~Ended(s), UNCHANGED <<now, published>>
      PROVE  AnswerIsOfARun'
  <2>1. ASSUME NEW r \in Runs
        PROVE  /\ ~Ended(r)' => ~Ended(r)
               /\ runs'[r].state = "fetched" => runs[r].state = "fetched" \/ r = s
               /\ runs'[r].state = "published" <=> runs[r].state = "published"
    <3>1. runs'[r] = IF r = s THEN new ELSE runs[r]
      BY <1>1, <1>3
    <3>2. QED
      BY <1>3, <3>1 DEF Ended
  <2>2. PublishedRuns' = PublishedRuns
    BY <2>1 DEF PublishedRuns
  <2>3. QED
    BY <1>3, <2>1, <2>2 DEF AnswerIsOfARun
<1>4. ASSUME NEW s \in Runs, Fetch(s)
      PROVE  AnswerIsOfARun'
  <2> DEFINE new == [state |-> "fetched", quote |-> quote]
  <2>1. new \in Run /\ runs' = [runs EXCEPT ![s] = new] /\ new.state = "fetched"
    BY <1>4 DEF Fetch, Run, JobInvariant, TypeOK, Quote
  <2> HIDE DEF new
  <2>2. s <= now /\ ~Ended(s) /\ UNCHANGED <<now, published>>
    BY <1>1, <1>4 DEF Fetch, Ended
  <2>3. QED
    BY <1>3, <2>1, <2>2
<1>5. ASSUME NEW s \in Runs, RunFails(s)
      PROVE  AnswerIsOfARun'
  <2> DEFINE new == [runs[s] EXCEPT !.state = "failed"]
  <2>1. new \in Run /\ runs' = [runs EXCEPT ![s] = new] /\ new.state = "failed"
    BY <1>1, <1>5 DEF RunFails, Run
  <2> HIDE DEF new
  <2>2. s <= now /\ ~Ended(s) /\ UNCHANGED <<now, published>>
    BY <1>1, <1>5 DEF RunFails
  <2>3. QED
    BY <1>3, <2>1, <2>2
<1>6. ASSUME NEW s \in Runs, Publish(s)
      PROVE  AnswerIsOfARun'
  <2>1. /\ now' = now /\ published'.publishedAt = now
        /\ runs' = [runs EXCEPT ![s].state = "published"]
        /\ runs[s].state = "fetched"
    BY <1>6 DEF Publish, Answer
  <2>2. s <= now /\ now <= s + MaxDelay
    BY <2>1 DEF AnswerIsOfARun, Ended
  <2>3. ASSUME NEW r \in Runs
        PROVE  runs'[r].state = IF r = s THEN "published" ELSE runs[r].state
    BY <1>1, <2>1 DEF Run
  <2>4. s \in PublishedRuns'
    BY <2>3 DEF PublishedRuns
  <2>5. ASSUME NEW r \in Runs
        PROVE  /\ ~Ended(r)' => now' <= r + MaxDelay
               /\ runs'[r].state = "fetched" => r <= now'
               /\ runs'[r].state = "published" => r <= published'.publishedAt
    <3>1. runs[r].state = "published" => r <= now
      BY <1>1 DEF AnswerIsOfARun
    <3>2. ~Ended(r)' => ~Ended(r)
      BY <2>3 DEF Ended
    <3>3. QED
      BY <2>1, <2>2, <2>3, <3>1, <3>2 DEF AnswerIsOfARun
  <2>6. QED
    BY <2>1, <2>2, <2>4, <2>5 DEF AnswerIsOfARun
<1>7. CASE Tick
  BY <1>2, <1>7 DEF Tick
<1>8. CASE Refresh
  BY <1>2, <1>8 DEF Refresh
<1>9. CASE UNCHANGED vars
  BY <1>2, <1>9 DEF vars
<1>10. QED
  BY <1>4, <1>5, <1>6, <1>7, <1>8, <1>9 DEF Next

\* The schedule goes on, a period at a time.
LEMMA ScheduleGoesOn ==
    ASSUME NEW s \in Runs, NEW k \in Nat, s + k * Period <= Horizon
    PROVE  s + k * Period \in Runs
<1> DEFINE Bad == {j \in Nat : s + j * Period <= Horizon /\ s + j * Period \notin Runs}
<1>1. s \in Nat /\ Period \in Nat /\ Horizon \in Nat
  BY ScheduleAssumption
<1>2. Bad = {}
  <2> SUFFICES ASSUME Bad # {} PROVE FALSE
    OBVIOUS
  <2>1. Bad \in SUBSET Nat
    OBVIOUS
  <2>2. PICK j \in Bad : \A i \in Bad : ~(i < j)
    BY <2>1, LeastNumber
  <2>3. j \in Nat /\ s + j * Period <= Horizon /\ s + j * Period \notin Runs
    BY <2>2
  <2>4. j # 0
    <3>1. j = 0 => s + j * Period = s
      BY <1>1
    <3>2. QED
      BY <2>3, <3>1
  <2> DEFINE i == j - 1
             before == s + i * Period
  <2>5. i \in Nat /\ i < j /\ j = i + 1
    BY <2>3, <2>4
  <2> HIDE DEF i
  <2>6. before \in Nat /\ s + j * Period = before + Period
    BY <1>1, <2>3, <2>5
  <2>7. before <= Horizon
    BY <1>1, <2>3, <2>6
  <2>8. before \in Runs
    BY <2>2, <2>5, <2>7
  <2> HIDE DEF before
  <2>9. before + Period \in Runs
    <3>1. before + Period <= Horizon
      BY <2>3, <2>6
    <3>2. QED
      BY <2>8, <3>1, ScheduleAssumption
  <2>10. QED
    BY <2>3, <2>6, <2>9
<1>3. QED
  BY <1>2

\* A set of runs that is not empty has a latest run.
LEMMA LatestRun ==
    ASSUME NEW S \in SUBSET Runs, S # {}
    PROVE  \E s \in S : \A r \in S : r <= s
<1> DEFINE Left == {Horizon - s : s \in S}
<1>1. Horizon \in Nat /\ S \subseteq 1 .. Horizon
  BY ScheduleAssumption
<1>2. Left \in SUBSET Nat /\ Left # {}
  <2>1. \A r \in S : Horizon - r \in Nat
    BY <1>1
  <2>2. Left # {}
    OBVIOUS
  <2>3. QED
    BY <2>1, <2>2
<1>3. PICK n \in Left : \A m \in Left : ~(m < n)
  BY <1>2, LeastNumber
<1>4. PICK s \in S : n = Horizon - s
  BY <1>3
<1>5. ASSUME NEW r \in S PROVE r <= s
  <2>1. ~(Horizon - r < n) /\ r \in 1 .. Horizon /\ s \in 1 .. Horizon
    BY <1>1, <1>3
  <2>2. QED
    BY <1>1, <1>4, <2>1
<1>6. QED
  BY <1>5

\* The answer is no older than a period for each run that has failed since, one more,
\* and the delay of a run: the runs after the latest that published have all failed,
\* and each of them counts once.
LEMMA FailuresExplainAge == JobInvariant /\ AnswerIsOfARun => AgeIsBounded
<1> SUFFICES ASSUME JobInvariant, AnswerIsOfARun, published.publishedAt # 0,
                    ~(Age <= Period * (1 + Cardinality(FailedSince)) + MaxDelay)
             PROVE  FALSE
  BY DEF AgeIsBounded
<1> DEFINE at == published.publishedAt
           n == Cardinality(FailedSince)
<1>1. /\ at \in Nat /\ now \in Nat /\ now <= Horizon /\ Horizon \in Nat
      /\ Period \in Nat \ {0} /\ MaxDelay \in Nat /\ Runs \subseteq 1 .. Horizon
      /\ runs \in [Runs -> Run]
  BY ScheduleAssumption DEF JobInvariant, TypeOK, Run, Quote
<1>2. IsFiniteSet(FailedSince) /\ n \in Nat
  <2>1. IsFiniteSet(1 .. Horizon)
    BY <1>1, FS_Interval
  <2>2. FailedSince \in SUBSET (1 .. Horizon)
    BY <1>1 DEF FailedSince, Failed
  <2>3. QED
    BY <2>1, <2>2, FS_Subset, FS_CardinalityType
<1>3. PICK p \in PublishedRuns : at <= p + MaxDelay
  BY DEF AnswerIsOfARun
<1>4. PICK s \in PublishedRuns : \A r \in PublishedRuns : r <= s
  <2>1. PublishedRuns \in SUBSET Runs /\ PublishedRuns # {}
    BY <1>3 DEF PublishedRuns
  <2>2. QED
    BY <2>1, LatestRun
<1>5. s \in Runs /\ s \in Nat /\ s <= at /\ at <= s + MaxDelay
  <2>1. p \in Nat /\ s \in Nat /\ p <= s /\ s \in Runs /\ runs[s].state = "published"
    BY <1>1, <1>3, <1>4 DEF PublishedRuns
  <2>2. QED
    BY <1>1, <1>3, <2>1 DEF AnswerIsOfARun
<1>6. now - at > Period * (1 + n) + MaxDelay
  <2>1. Age = now - at
    BY DEF Age
  <2>2. Period * (1 + n) \in Nat
    BY <1>1, <1>2
  <2>3. QED
    BY <1>1, <2>1, <2>2
<1> HIDE DEF n, at
<1>7. ASSUME NEW k \in 1 .. n + 1
      PROVE  s + k * Period \in FailedSince
  <2> DEFINE r == s + k * Period
  <2>1. k * Period >= 1 /\ k * Period <= Period * (1 + n) /\ k * Period \in Nat
    <3>1. k \in Nat /\ k >= 1 /\ k <= 1 + n
      BY <1>2
    <3>2. k * Period >= 1 * Period
      BY <1>1, <3>1
    <3>3. k * Period <= (1 + n) * Period
      BY <1>1, <1>2, <3>1
    <3>4. k * Period \in Nat /\ (1 + n) * Period = Period * (1 + n)
      BY <1>1, <1>2, <3>1
    <3>5. QED
      BY <1>1, <3>2, <3>3, <3>4
  <2>2. Period * (1 + n) \in Nat
    BY <1>1, <1>2
  <2>3. r \in Nat /\ r > s /\ r + MaxDelay < now /\ r > at - MaxDelay
    BY <1>1, <1>5, <1>6, <2>1, <2>2
  <2>4. r \in Runs
    <3>1. r <= Horizon
      BY <1>1, <2>3
    <3>2. QED
      BY <1>5, <3>1, ScheduleGoesOn
  <2> HIDE DEF r
  <2>5. Ended(r)
    BY <1>1, <2>3, <2>4 DEF AnswerIsOfARun
  <2>6. runs[r].state # "published"
    BY <1>4, <1>5, <2>3, <2>4 DEF PublishedRuns
  <2>7. r \in FailedSince
    BY <2>3, <2>4, <2>5, <2>6 DEF FailedSince, Failed, Ended, at
  <2>8. QED
    BY <2>7 DEF r
<1> DEFINE later == [k \in 1 .. n + 1 |-> s + k * Period]
<1>8. later \in Injection(1 .. n + 1, FailedSince)
  <2>1. later \in [1 .. n + 1 -> FailedSince]
    BY <1>7
  <2>2. ASSUME NEW j \in 1 .. n + 1, NEW k \in 1 .. n + 1, j < k
        PROVE  later[j] # later[k]
    <3>1. j \in Nat /\ k \in Nat /\ j * Period \in Nat /\ k * Period \in Nat
      BY <1>1, <1>2
    <3>2. k * Period >= (j + 1) * Period
      BY <1>1, <2>2, <3>1
    <3>3. (j + 1) * Period = j * Period + Period
      BY <1>1, <3>1
    <3>4. QED
      BY <1>1, <1>5, <3>1, <3>2, <3>3
  <2> HIDE DEF later
  <2>3. ASSUME NEW j \in 1 .. n + 1, NEW k \in 1 .. n + 1, later[j] = later[k]
        PROVE  j = k
    <3>1. j \in Nat /\ k \in Nat
      BY <1>2
    <3>2. QED
      BY <2>2, <2>3, <3>1
  <2>4. QED
    BY <2>1, <2>3 DEF Injection, IsInjective
<1> HIDE DEF later
<1>9. Cardinality(1 .. n + 1) <= n
  BY <1>2, <1>8, FS_Injection DEF n
<1>10. Cardinality(1 .. n + 1) = n + 1
  <2>1. 1 \in Int /\ n + 1 \in Int /\ ~(1 > n + 1) /\ (n + 1) - 1 + 1 = n + 1
    BY <1>2
  <2>2. QED
    BY <2>1, FS_Interval
<1>11. QED
  BY <1>2, <1>9, <1>10

\* "The on-chain rate is never more than ~12h old", made exact for every schedule:
\* only failed runs of publish-rate.yml make the answer older than a period and a delay.
THEOREM FailuresBoundAge == Spec => []AgeIsBounded
<1>1. Spec => []AnswerIsOfARun
  BY JobAlways, AnswerInit, AnswerStep, PTL DEF Spec
<1>2. QED
  BY <1>1, JobAlways, FailuresExplainAge, PTL

=============================================================================
