----------------------- MODULE SettlementServerProofs -----------------------
(***************************************************************************)
(* Proofs about the settlement server, for every set of deposits and       *)
(* corridors, any number of records, batches of any size, transactions     *)
(* and restarts.                                                           *)
(***************************************************************************)
EXTENDS SettlementServer, SumTheorems, SequenceTheorems

Record == [deposit : Deposits, status : Statuses, paid : Nat, releaseTx : Nat]
Release == [deposit : Deposits, tx : Nat]
Call == [deposits : Seq(Deposits), state : {"sent", "mined", "reverted"}]
Task(objects, n) == [records : Seq(objects), call : 0 .. n]
Scan == [pc : {"heads", "loop", "block", "done", "threw"},
         sourceRead : BOOLEAN, payoutRead : BOOLEAN, historyComplete : BOOLEAN,
         deposits : Seq(Deposits), releases : Seq(Release), history : SUBSET Deposits]

\* The types, without the bound on the number of records.
TypesHold ==
    /\ mined \subseteq Deposits
    /\ released \in Seq(Release)
    /\ calls \in Seq(Call)
    /\ records \in Seq(Record)
    /\ transfers \in [Deposits -> {None} \cup DOMAIN records]
    /\ requests \in [Inputs -> Nat]
    /\ tasks \subseteq Task(DOMAIN records, Len(calls))
    /\ scan \in Scan
    /\ restarts \in Nat

\* A record is in the list under its own deposit.
ListedByDeposit == \A d \in Deposits : transfers[d] # None => records[transfers[d]].deposit = d

\* The records that a settlement works on are attesting, they are some, and no
\* other settlement works on one of them.
TasksOwnRecords ==
    /\ \A o \in DOMAIN records :
          records[o].status = "attesting" <=> \E t \in tasks : o \in Range(t.records)
    /\ \A t, u \in tasks : \A o \in Range(t.records) : o \in Range(u.records) => t = u
    /\ \A t \in tasks : t.records # <<>>

\* A transaction pays the deposits of its settlement's records, each once.
CallsPayTheirRecords ==
    \A t \in tasks :
        t.call # None =>
            /\ IsInjective(calls[t.call].deposits)
            /\ Len(calls[t.call].deposits) = Len(t.records)
            /\ Range(calls[t.call].deposits) = Range(DepositsOf(t))

\* There is an event for each deposit that a mined transaction pays.
MinedCallsReleased ==
    \A i \in DOMAIN calls :
        calls[i].state = "mined" =>
            \A d \in Range(calls[i].deposits) : [deposit |-> d, tx |-> i] \in Range(released)

\* The backfill has read events that are there.
ScannedReleasesAreTrue == Range(scan.releases) \subseteq Range(released)

\* What the backfill still has to visit are deposits of the corridor, each once;
\* those that were there at the start are listed or still to be visited, if the
\* scan was complete, and listed at the end.
ScanCoversHistory ==
    /\ scan.history \subseteq mined \cap Home
    /\ Range(scan.deposits) \subseteq mined \cap Home
    /\ IsInjective(scan.deposits)
    /\ scan.pc = "block" => scan.deposits # <<>>
    /\ scan.pc \in {"loop", "block", "done"} /\ scan.historyComplete =>
          \A d \in scan.history :
              transfers[d] # None \/ (scan.pc # "done" /\ d \in Range(scan.deposits))

\* The inductive invariant.
IInv ==
    /\ TypesHold
    /\ ListedByDeposit
    /\ TasksOwnRecords
    /\ CallsPayTheirRecords
    /\ MinedCallsReleased
    /\ ScannedReleasesAreTrue
    /\ ScanCoversHistory

-----------------------------------------------------------------------------
(* Numbers, sequences and counting                                         *)

\* A set of natural numbers has a least one.
LEMMA LeastExists ==
    ASSUME NEW S \in SUBSET Nat, S # {}
    PROVE  \E m \in S : \A n \in S : m <= n
<1>1. IsWellFoundedOn({ss \in Nat \X Nat : ss[1] < ss[2]}, Nat)
  BY NatLessThanWellFounded DEF OpToRel
<1>2. PICK m \in S : \A n \in S : ~(<<n, m>> \in {ss \in Nat \X Nat : ss[1] < ss[2]})
  BY <1>1, WFMin
<1>3. ASSUME NEW n \in S
      PROVE  m <= n
  <2>1. m \in Nat /\ n \in Nat
    OBVIOUS
  <2>2. ~(n < m)
    BY <1>2, <2>1
  <2>3. QED
    BY <2>1, <2>2
<1>4. QED
  BY <1>3

\* A set of numbers up to n has a greatest one.
LEMMA GreatestExists ==
    ASSUME NEW n \in Nat, NEW S \in SUBSET (1 .. n), S # {}
    PROVE  \E m \in S : \A k \in S : k <= m
<1> DEFINE below == {n - k : k \in S}
<1>1. PICK x \in below : \A y \in below : x <= y
  <2>1. \A k \in S : n - k \in Nat
    OBVIOUS
  <2>2. below \in SUBSET Nat
    BY <2>1
  <2>3. below # {}
    OBVIOUS
  <2> HIDE DEF below
  <2>4. QED
    BY <2>2, <2>3, LeastExists
<1>2. PICK m \in S : x = n - m
  OBVIOUS
<1>3. ASSUME NEW k \in S
      PROVE  k <= m
  <2>1. n - k \in below
    OBVIOUS
  <2>2. n - m <= n - k
    BY <1>1, <1>2, <2>1
  <2>3. k \in Int /\ m \in Int
    OBVIOUS
  <2>4. QED
    BY <2>2, <2>3
<1>4. QED
  BY <1>3

\* The positions and the elements of a sequence.
LEMMA SeqElements ==
    ASSUME NEW S, NEW s \in Seq(S)
    PROVE  /\ Len(s) \in Nat
           /\ DOMAIN s = 1 .. Len(s)
           /\ \A i \in 1 .. Len(s) : s[i] \in S
           /\ Range(s) \subseteq S
  BY LenProperties, ElementOfSeq, RangeOfSeq

\* A function on 1..n is a sequence of its values.
LEMMA FunctionIsSeq ==
    ASSUME NEW S, NEW n \in Nat, NEW f \in [1 .. n -> S]
    PROVE  f \in Seq(S) /\ Len(f) = n
<1>1. f \in Seq(S)
  BY SeqDef
<1>2. QED
  BY <1>1, LenProperties

\* Appending keeps the earlier elements and adds the new one.
LEMMA AppendElements ==
    ASSUME NEW S, NEW s \in Seq(S), NEW e \in S
    PROVE  /\ Append(s, e) \in Seq(S)
           /\ DOMAIN Append(s, e) = 1 .. Len(s) + 1
           /\ DOMAIN s = 1 .. Len(s) /\ Len(s) \in Nat
           /\ \A i \in 1 .. Len(s) : Append(s, e)[i] = s[i]
           /\ Append(s, e)[Len(s) + 1] = e
  BY AppendProperties, LenProperties

\* The first of a sequence without repetitions, and the rest.
LEMMA HeadAndRest ==
    ASSUME NEW S, NEW s \in Seq(S), s # <<>>, IsInjective(s)
    PROVE  /\ Head(s) \in Range(s)
           /\ Tail(s) \in Seq(S)
           /\ Range(Tail(s)) = Range(s) \ {Head(s)}
           /\ IsInjective(Tail(s))
<1> DEFINE n == Len(s)
<1>1. n \in Nat \ {0} /\ DOMAIN s = 1 .. n
  BY EmptySeq, LenProperties
<1>2. /\ Tail(s) \in Seq(S)
      /\ DOMAIN Tail(s) = 1 .. n - 1
      /\ \A i \in 1 .. n - 1 : Tail(s)[i] = s[i + 1]
  BY HeadTailProperties, LenProperties
<1>3. Head(s) = s[1]
  OBVIOUS
<1>4. Head(s) \in Range(s)
  BY <1>1, <1>3 DEF Range
<1>5. IsInjective(Tail(s))
  BY <1>1, <1>2 DEF IsInjective
<1>6. Range(Tail(s)) = Range(s) \ {Head(s)}
  <2>1. ASSUME NEW x \in Range(Tail(s))
        PROVE  x \in Range(s) \ {Head(s)}
    <3>1. PICK i \in 1 .. n - 1 : x = s[i + 1]
      BY <1>2 DEF Range
    <3>2. i + 1 \in DOMAIN s /\ i + 1 # 1
      BY <1>1
    <3>3. QED
      BY <1>1, <1>3, <3>1, <3>2 DEF Range, IsInjective
  <2>2. ASSUME NEW x \in Range(s), x # Head(s)
        PROVE  x \in Range(Tail(s))
    <3>1. PICK i \in 1 .. n : x = s[i]
      BY <1>1 DEF Range
    <3>2. i - 1 \in 1 .. n - 1 /\ Tail(s)[i - 1] = x
      BY <1>1, <1>2, <1>3, <2>2, <3>1
    <3>3. QED
      BY <1>2, <3>2 DEF Range
  <2>3. QED
    BY <2>1, <2>2
<1>7. QED
  BY <1>2, <1>4, <1>5, <1>6

\* A sequence without repetitions is as long as the set of its elements is large.
LEMMA LengthOfDistinct ==
    ASSUME NEW S, NEW s \in Seq(S), IsInjective(s)
    PROVE  IsFiniteSet(Range(s)) /\ Cardinality(Range(s)) = Len(s)
<1>1. DOMAIN s = 1 .. Len(s) /\ Len(s) \in Nat
  BY LenProperties
<1>2. IsFiniteSet(1 .. Len(s)) /\ Cardinality(1 .. Len(s)) = Len(s)
  BY <1>1, FS_Interval
<1>3. s \in Surjection(1 .. Len(s), Range(s))
  <2>1. s \in [1 .. Len(s) -> S]
    BY LenProperties
  <2>2. QED
    BY <2>1, Fun_RangeProperties
<1>4. s \in Injection(1 .. Len(s), Range(s))
  BY <1>1, <1>3 DEF IsInjective, Injection, Surjection
<1>5. QED
  BY <1>2, <1>3, <1>4, FS_Surjection

\* A sequence of S, in the order ByHeight asks for, has each deposit once.
LEMMA ByHeightIsDistinct ==
    ASSUME NEW S \in SUBSET Deposits, NEW f \in ByHeight(S)
    PROVE  /\ f \in Seq(Deposits)
           /\ IsInjective(f)
           /\ Range(f) = S
<1> DEFINE n == Cardinality(S)
<1>1. IsFiniteSet(S) /\ n \in Nat
  BY DepositsAssumption, FS_Subset, FS_CardinalityType
<1>2. f \in [1 .. n -> S] /\ \A i, j \in 1 .. n : i # j => f[i] # f[j]
  BY DEF ByHeight, SetToSeqs
<1>3. f \in Seq(Deposits)
  BY <1>1, <1>2, FunctionIsSeq
<1>4. IsInjective(f)
  BY <1>2 DEF IsInjective
<1>5. f \in Injection(1 .. n, S)
  BY <1>2 DEF Injection, IsInjective
<1>6. f \in Surjection(1 .. n, S)
  <2>1. Cardinality(1 .. n) = n
    BY <1>1, FS_Interval
  <2>2. QED
    BY <1>1, <1>5, <2>1, FS_Injection
<1>7. Range(f) = S
  BY <1>6, Fun_SurjectionProperties
<1>8. QED
  BY <1>3, <1>4, <1>7

-----------------------------------------------------------------------------
(* The matching of events and records                                      *)

\* The pending record an event is matched to is one of them, and one of the same
\* receiver and amount if there is any.
LEMMA MatchOfIsPending ==
    ASSUME NEW d, NEW objects, NEW pending \in SUBSET Nat, pending # {}
    PROVE  /\ MatchOf(d, objects, pending) \in pending
           /\ \A i \in pending :
                 SameTransfer(records[objects[i]].deposit, d) =>
                     SameTransfer(records[objects[MatchOf(d, objects, pending)]].deposit, d)
<1> DEFINE same == {i \in pending : SameTransfer(records[objects[i]].deposit, d)}
           from == IF same # {} THEN same ELSE pending
<1>1. from \in SUBSET Nat /\ from # {} /\ from \subseteq pending
  OBVIOUS
<1>2. MatchOf(d, objects, pending) = CHOOSE x \in from : \A y \in from : x <= y
  BY DEF MatchOf, Min
<1>3. \E x \in from : \A y \in from : x <= y
  <2> HIDE DEF from
  <2> QED
  BY <1>1, LeastExists
<1>4. MatchOf(d, objects, pending) \in from
  <2> HIDE DEF from
  <2> QED
  BY <1>2, <1>3
<1>5. QED
  BY <1>1, <1>4

\* What is left for the k-th event.
LeftFor(m, n, k) == (1 .. n) \ {m[j] : j \in 1 .. k - 1}

\* m says which of n records each of the first k events takes.
Takes(m, events, objects, n, k) ==
    \A i \in 1 .. k : m[i] = MatchOf(events[i], objects, LeftFor(m, n, i))

\* As long as there are no more events than records, some record is left.
LEMMA SomeAreLeft ==
    ASSUME NEW n \in Nat, NEW k \in 1 .. n, NEW m
    PROVE  LeftFor(m, n, k) \in SUBSET Nat /\ LeftFor(m, n, k) # {}
<1> DEFINE g == [j \in 1 .. k - 1 |-> m[j]]
<1>1. SUFFICES ASSUME LeftFor(m, n, k) = {} PROVE FALSE
  BY DEF LeftFor
<1>2. 1 .. n \subseteq Range(g)
  BY <1>1 DEF LeftFor, Range
<1>3. g \in Surjection(1 .. k - 1, Range(g))
  BY DEF Range, Surjection
<1>4. IsFiniteSet(1 .. k - 1) /\ Cardinality(1 .. k - 1) = k - 1
  BY FS_Interval
<1>5. IsFiniteSet(Range(g)) /\ Cardinality(Range(g)) <= k - 1
  <2> HIDE DEF g
  <2> QED
  BY <1>3, <1>4, FS_Surjection
<1>6. Cardinality(1 .. n) <= Cardinality(Range(g)) /\ Cardinality(1 .. n) = n
  BY <1>2, <1>5, FS_Subset, FS_Interval
<1>7. Cardinality(Range(g)) \in Nat
  BY <1>5, FS_CardinalityType
<1>8. QED
  BY <1>5, <1>6, <1>7

\* Matching the events of a transaction one after the other is well defined.
LEMMA MatchingExists ==
    ASSUME NEW n \in Nat, NEW events, NEW objects
    PROVE  \E m \in [1 .. n -> 1 .. n] : Takes(m, events, objects, n, n)
<1> DEFINE Possible(k) == \E m \in [1 .. k -> 1 .. n] : Takes(m, events, objects, n, k)
           Bad == {k \in 0 .. n : ~Possible(k)}
<1>1. Bad = {}
  <2>1. SUFFICES ASSUME Bad # {} PROVE FALSE
    OBVIOUS
  <2>2. PICK k \in Bad : \A j \in Bad : k <= j
    <3>1. Bad \in SUBSET Nat
      OBVIOUS
    <3> HIDE DEF Bad
    <3>2. QED
      BY <2>1, <3>1, LeastExists
  <2>3. k # 0
    <3>1. [i \in 1 .. 0 |-> 1] \in [1 .. 0 -> 1 .. n]
      OBVIOUS
    <3>2. Takes([i \in 1 .. 0 |-> 1], events, objects, n, 0)
      BY DEF Takes
    <3>3. Possible(0)
      BY <3>1, <3>2
    <3>4. QED
      BY <3>3
  <2>4. k - 1 \in 0 .. n /\ k \in 1 .. n /\ k - 1 \notin Bad
    <3> HIDE DEF Possible
    <3>1. k \in 1 .. n
      BY <2>3
    <3>2. ~(k <= k - 1)
      BY <3>1
    <3>3. QED
      BY <2>2, <3>1, <3>2
  <2>5. PICK m \in [1 .. k - 1 -> 1 .. n] : Takes(m, events, objects, n, k - 1)
    BY <2>4
  <2> DEFINE next == MatchOf(events[k], objects, LeftFor(m, n, k))
             m2 == [i \in 1 .. k |-> IF i = k THEN next ELSE m[i]]
  <2>6. next \in 1 .. n
    <3>1. next \in LeftFor(m, n, k)
      BY <2>4, SomeAreLeft, MatchOfIsPending
    <3>2. QED
      BY <3>1 DEF LeftFor
  <2>7. m2 \in [1 .. k -> 1 .. n]
    BY <2>4, <2>5, <2>6
  <2>8. ASSUME NEW i \in 1 .. k
        PROVE  m2[i] = MatchOf(events[i], objects, LeftFor(m2, n, i))
    <3>1. \A j \in 1 .. i - 1 : m2[j] = m[j]
      BY <2>4, <2>8
    <3>2. LeftFor(m2, n, i) = LeftFor(m, n, i)
      <4> HIDE DEF m2
      <4> QED
      BY <3>1 DEF LeftFor
    <3>3. CASE i = k
      BY <3>2, <3>3
    <3>4. CASE i # k
      <4>1. i \in 1 .. k - 1 /\ m2[i] = m[i]
        BY <2>4, <2>8, <3>4
      <4>2. QED
        BY <2>5, <3>2, <4>1 DEF Takes
    <3>5. QED
      BY <3>3, <3>4
  <2>9. Takes(m2, events, objects, n, k)
    BY <2>8 DEF Takes
  <2>10. QED
    BY <2>2, <2>7, <2>9
<1>2. Possible(n)
  <2> HIDE DEF Possible
  <2>1. n \in 0 .. n
    OBVIOUS
  <2>2. QED
    BY <1>1, <2>1
<1>3. QED
  BY <1>2

\* m numbers n things anew.
Renumbers(m, n) ==
    /\ \A i, j \in 1 .. n : m[i] = m[j] => i = j
    /\ \A p \in 1 .. n : \E k \in 1 .. n : m[k] = p

\* No record is taken twice, so that all are taken.
LEMMA TakenOnce ==
    ASSUME NEW n \in Nat, NEW events, NEW objects,
           NEW m \in [1 .. n -> 1 .. n], Takes(m, events, objects, n, n)
    PROVE  Renumbers(m, n)
<1>1. \A k \in 1 .. n : m[k] \in LeftFor(m, n, k)
  BY SomeAreLeft, MatchOfIsPending DEF Takes
<1>2. \A i, j \in 1 .. n : i < j => m[i] # m[j]
  BY <1>1 DEF LeftFor
<1>3. \A i, j \in 1 .. n : m[i] = m[j] => i = j
  BY <1>2
<1>4. m \in Injection(1 .. n, 1 .. n)
  BY <1>3 DEF Injection, IsInjective
<1>5. m \in Surjection(1 .. n, 1 .. n)
  BY <1>4, FS_Interval, FS_Injection
<1>6. QED
  BY <1>3, <1>5 DEF Surjection, Renumbers

\* The records that the events are matched to, by the definition of Matched.
LEMMA MatchedTakes ==
    ASSUME NEW n \in Nat, NEW events, NEW objects,
           DOMAIN events = 1 .. n, DOMAIN objects = 1 .. n
    PROVE  \E m \in [1 .. n -> 1 .. n] :
               /\ Takes(m, events, objects, n, n)
               /\ Matched(events, objects) = [k \in 1 .. n |-> objects[m[k]]]
<1> DEFINE P(m) == \A k \in 1 .. n :
                      m[k] = MatchOf(events[k], objects,
                                     (1 .. n) \ {m[j] : j \in 1 .. k - 1})
           taken == CHOOSE m \in [1 .. n -> 1 .. n] : P(m)
<1>1. Matched(events, objects) = [k \in 1 .. n |-> objects[taken[k]]]
  BY DEF Matched
<1>2. \A m : P(m) <=> Takes(m, events, objects, n, n)
  BY DEF Takes, LeftFor
<1>3. \E m \in [1 .. n -> 1 .. n] : P(m)
  BY <1>2, MatchingExists
<1>4. taken \in [1 .. n -> 1 .. n] /\ P(taken)
  <2> HIDE DEF P
  <2> QED
  BY <1>3
<1>5. QED
  <2> HIDE DEF P, taken
  <2> QED
  BY <1>1, <1>2, <1>4

\* Each of n events is of the deposit of one of n records, and no two are of the same.
HaveRecords(events, objects, n) ==
    /\ \A i, j \in 1 .. n : events[i] = events[j] => i = j
    /\ \A j \in 1 .. n : \E i \in 1 .. n : records[objects[i]].deposit = events[j]

\* If the records have the deposits of the events, each event is matched to a record
\* of its receiver and amount.  Take the first event that is not: all records of its
\* kind have been taken by earlier events, and these are of its kind too, so that
\* there are fewer records than events of the kind.
LEMMA MatchedAlike ==
    ASSUME NEW n \in Nat, NEW events, NEW objects,
           NEW m \in [1 .. n -> 1 .. n], Takes(m, events, objects, n, n),
           HaveRecords(events, objects, n)
    PROVE  \A k \in 1 .. n : SameTransfer(events[k], records[objects[m[k]]].deposit)
<1> DEFINE dep(i) == records[objects[i]].deposit
           Bad == {k \in 1 .. n : ~SameTransfer(events[k], dep(m[k]))}
<1>1. SUFFICES ASSUME Bad # {} PROVE FALSE
  OBVIOUS
<1>2. PICK k \in Bad : \A j \in Bad : k <= j
  <2>1. Bad \in SUBSET Nat
    OBVIOUS
  <2> HIDE DEF Bad
  <2>2. QED
    BY <1>1, <2>1, LeastExists
<1> DEFINE eventsAlike == {j \in 1 .. n : SameTransfer(events[j], events[k])}
           recordsAlike == {i \in 1 .. n : SameTransfer(dep(i), events[k])}
           earlier == {j \in eventsAlike : j < k}
<1>3. k \in 1 .. n /\ ~SameTransfer(events[k], dep(m[k]))
  BY <1>2
<1>4. \A j \in 1 .. n : j < k => SameTransfer(events[j], dep(m[j]))
  <2>1. ASSUME NEW j \in 1 .. n, j < k, ~SameTransfer(events[j], dep(m[j]))
        PROVE  FALSE
    <3>1. j \in Bad
      BY <2>1
    <3>2. k <= j
      BY <1>2, <3>1
    <3>3. QED
      BY <1>3, <2>1, <3>2
  <2>2. QED
    BY <2>1
<1> HIDE DEF Bad
<1>5. \A i \in recordsAlike : \E j \in earlier : m[j] = i
  <2>1. SUFFICES ASSUME NEW i \in recordsAlike PROVE \E j \in earlier : m[j] = i
    OBVIOUS
  <2> DEFINE left == LeftFor(m, n, k)
  <2>2. left \in SUBSET Nat /\ left # {} /\ m[k] = MatchOf(events[k], objects, left)
    <3>1. LeftFor(m, n, k) \in SUBSET Nat /\ LeftFor(m, n, k) # {}
      BY <1>3, SomeAreLeft
    <3>2. m[k] = MatchOf(events[k], objects, LeftFor(m, n, k))
      BY <1>3 DEF Takes
    <3>3. QED
      BY <3>1, <3>2
  <2>3. i \notin left
    <3>1. SUFFICES ASSUME i \in left PROVE FALSE
      OBVIOUS
    <3>2. SameTransfer(dep(m[k]), events[k])
      <4>1. SameTransfer(records[objects[i]].deposit, events[k])
        OBVIOUS
      <4> HIDE DEF left, recordsAlike, eventsAlike, earlier
      <4>2. SameTransfer(records[objects[MatchOf(events[k], objects, left)]].deposit, events[k])
        BY <2>2, <3>1, <4>1, MatchOfIsPending
      <4>3. QED
        BY <2>2, <4>2
    <3>3. QED
      BY <1>3, <3>2 DEF SameTransfer
  <2>4. PICK j \in 1 .. k - 1 : m[j] = i
    BY <2>3 DEF LeftFor
  <2>5. j \in 1 .. n /\ j < k
    BY <1>3
  <2>6. SameTransfer(events[j], dep(i)) /\ SameTransfer(dep(i), events[k])
    BY <1>4, <2>4, <2>5
  <2>7. QED
    BY <2>4, <2>5, <2>6 DEF SameTransfer
<1>6. /\ IsFiniteSet(eventsAlike) /\ IsFiniteSet(earlier) /\ IsFiniteSet(recordsAlike)
      /\ Cardinality(earlier) <= Cardinality(eventsAlike)
      /\ Cardinality(earlier) = Cardinality(eventsAlike) => earlier = eventsAlike
  <2>1. IsFiniteSet(1 .. n)
    BY FS_Interval
  <2>2. IsFiniteSet(eventsAlike) /\ IsFiniteSet(recordsAlike)
    BY <2>1, FS_Subset
  <2>3. earlier \in SUBSET eventsAlike
    OBVIOUS
  <2>4. QED
    BY <2>2, <2>3, FS_Subset
<1>7. Cardinality(recordsAlike) <= Cardinality(earlier)
  <2> DEFINE taken == [j \in earlier |-> m[j]]
  <2>1. taken \in [earlier -> recordsAlike]
    BY <1>4 DEF SameTransfer
  <2>2. taken \in Surjection(earlier, recordsAlike)
    BY <1>5, <2>1 DEF Surjection
  <2> HIDE DEF taken, earlier, recordsAlike
  <2>3. QED
    BY <1>6, <2>2, FS_Surjection
<1>8. Cardinality(eventsAlike) <= Cardinality(recordsAlike)
  <2> DEFINE place == [j \in eventsAlike |-> CHOOSE i \in 1 .. n : dep(i) = events[j]]
  <2>1. \A j \in eventsAlike : place[j] \in 1 .. n /\ dep(place[j]) = events[j]
    <3>1. \A j \in eventsAlike : \E i \in 1 .. n : dep(i) = events[j]
      BY DEF HaveRecords
    <3> HIDE DEF dep, eventsAlike
    <3>2. QED
      BY <3>1
  <2> HIDE DEF dep
  <2>2. \A j \in eventsAlike : place[j] \in recordsAlike
    BY <2>1
  <2>3. place \in [eventsAlike -> recordsAlike]
    <3> HIDE DEF eventsAlike, recordsAlike
    <3> QED
    BY <2>2
  <2> HIDE DEF place
  <2>4. \A i, j \in eventsAlike : place[i] = place[j] => i = j
    <3>1. SUFFICES ASSUME NEW i \in eventsAlike, NEW j \in eventsAlike, place[i] = place[j]
                   PROVE  i = j
      OBVIOUS
    <3>2. events[i] = events[j]
      BY <2>1, <3>1
    <3>3. i \in 1 .. n /\ j \in 1 .. n
      OBVIOUS
    <3>4. QED
      BY <3>2, <3>3 DEF HaveRecords
  <2>5. place \in Injection(eventsAlike, recordsAlike)
    BY <2>3, <2>4 DEF Injection, IsInjective
  <2> HIDE DEF eventsAlike, recordsAlike
  <2>6. QED
    BY <1>6, <2>5, FS_Injection
<1>9. k \in eventsAlike /\ k \notin earlier
  BY <1>3 DEF SameTransfer
<1>10. /\ Cardinality(earlier) \in Nat /\ Cardinality(eventsAlike) \in Nat
       /\ Cardinality(recordsAlike) \in Nat
  <2> HIDE DEF earlier, eventsAlike, recordsAlike
  <2> QED
  BY <1>6, FS_CardinalityType
<1> HIDE DEF earlier, eventsAlike, recordsAlike
<1>11. QED
  BY <1>6, <1>7, <1>8, <1>9, <1>10

-----------------------------------------------------------------------------
(* What the invariant says of a settlement with a transaction              *)

\* The records of a settlement, as the objects they are.
LEMMA TaskObjects ==
    ASSUME TypesHold, NEW t \in tasks
    PROVE  /\ t.records \in Seq(DOMAIN records)
           /\ t.call \in 0 .. Len(calls)
           /\ Len(t.records) \in Nat
           /\ DOMAIN t.records = 1 .. Len(t.records)
           /\ Range(t.records) \subseteq DOMAIN records
           /\ \A i \in 1 .. Len(t.records) : t.records[i] \in DOMAIN records
<1>1. t.records \in Seq(DOMAIN records) /\ t.call \in 0 .. Len(calls)
  BY DEF TypesHold, Task
<1>2. QED
  BY <1>1, SeqElements

\* The deposits of a settlement, and that they stay with its records.
LEMMA DepositsOfTask ==
    ASSUME TypesHold, NEW t \in tasks
    PROVE  /\ DepositsOf(t) = [i \in 1 .. Len(t.records) |-> records[t.records[i]].deposit]
           /\ Range(DepositsOf(t)) = {records[o].deposit : o \in Range(t.records)}
           /\ Range(DepositsOf(t)) \in SUBSET Deposits
<1>1. /\ DOMAIN t.records = 1 .. Len(t.records)
      /\ \A i \in 1 .. Len(t.records) : t.records[i] \in DOMAIN records
  BY TaskObjects
<1>2. DepositsOf(t) = [i \in 1 .. Len(t.records) |-> records[t.records[i]].deposit]
  BY <1>1 DEF DepositsOf
<1>3. Range(DepositsOf(t)) = {records[o].deposit : o \in Range(t.records)}
  BY <1>1, <1>2 DEF Range
<1>4. \A o \in DOMAIN records : records[o].deposit \in Deposits
  <2>1. \A o \in DOMAIN records : records[o] \in Record
    BY SeqElements DEF TypesHold
  <2>2. QED
    BY <2>1 DEF Record
<1>5. \A i \in 1 .. Len(t.records) : records[t.records[i]].deposit \in Deposits
  BY <1>1, <1>4
<1>6. Range(DepositsOf(t)) \in SUBSET Deposits
  BY <1>2, <1>5 DEF Range
<1>7. QED
  BY <1>2, <1>3, <1>6

\* The transaction of a settlement.
LEMMA TaskCall ==
    ASSUME TypesHold, NEW t \in tasks, t.call # None
    PROVE  /\ t.call \in DOMAIN calls
           /\ calls[t.call] \in Call
           /\ calls[t.call].deposits \in Seq(Deposits)
           /\ DOMAIN calls[t.call].deposits = 1 .. Len(calls[t.call].deposits)
           /\ Len(calls[t.call].deposits) \in Nat
<1>1. calls \in Seq(Call) /\ t.call \in 1 .. Len(calls)
  BY TaskObjects DEF TypesHold, None
<1>2. t.call \in DOMAIN calls /\ calls[t.call] \in Call
  BY <1>1, SeqElements
<1>3. calls[t.call].deposits \in Seq(Deposits)
  BY <1>2 DEF Call
<1>4. QED
  BY <1>2, <1>3, SeqElements

\* The events of a settlement's transaction are matched to all its records, each
\* once, and each to a record of the same receiver and amount.
LEMMA MatchIsOneToOne ==
    ASSUME IInv, NEW t \in tasks, t.call # None
    PROVE  LET events == calls[t.call].deposits
               match == Matched(events, t.records)
           IN  /\ DOMAIN match = DOMAIN events
               /\ IsInjective(match)
               /\ Range(match) = Range(t.records)
               /\ \A k \in DOMAIN events :
                      SameTransfer(events[k], records[match[k]].deposit)
<1> DEFINE events == calls[t.call].deposits
           objects == t.records
           match == Matched(events, objects)
           n == Len(objects)
           D == [i \in 1 .. n |-> records[objects[i]].deposit]
<1>1. n \in Nat /\ DOMAIN objects = 1 .. n
  BY TaskObjects DEF IInv
<1>2. /\ DOMAIN events = 1 .. n /\ events \in Seq(Deposits) /\ IsInjective(events)
      /\ Range(events) = Range(D)
  <2>1. DepositsOf(t) = D
    BY <1>1 DEF DepositsOf
  <2>2. QED
    BY <1>1, <2>1, TaskCall DEF IInv, CallsPayTheirRecords
<1>3. \A i, j \in 1 .. n : events[i] = events[j] => i = j
  BY <1>2 DEF IsInjective
<1>4. \A j \in 1 .. n : \E i \in 1 .. n : records[objects[i]].deposit = events[j]
  <2>1. \A j \in 1 .. n : events[j] \in Range(D)
    BY <1>2 DEF Range
  <2>2. QED
    BY <2>1 DEF Range
<1>5. \A i, j \in 1 .. n : objects[i] = objects[j] => i = j
  <2>1. D \in Surjection(1 .. n, Range(events))
    BY <1>2 DEF Range, Surjection
  <2>2. Cardinality(Range(events)) = n
    <3>1. Len(events) = n
      BY <1>1, <1>2, LenProperties
    <3> HIDE DEF events
    <3>2. QED
      BY <1>2, <3>1, LengthOfDistinct
  <2>3. D \in Injection(1 .. n, Range(events))
    <3>1. IsFiniteSet(1 .. n) /\ Cardinality(1 .. n) = n
      BY <1>1, FS_Interval
    <3> HIDE DEF D, events, n
    <3>2. QED
      BY <2>1, <2>2, <3>1, FS_Surjection
  <2>4. \A i, j \in 1 .. n : D[i] = D[j] => i = j
    <3> HIDE DEF D
    <3> QED
    BY <2>3, Fun_InjectionProperties
  <2>5. QED
    BY <2>4
<1> HIDE DEF n, D, events, objects, match
<1>6. PICK m \in [1 .. n -> 1 .. n] :
          Takes(m, events, objects, n, n) /\ match = [k \in 1 .. n |-> objects[m[k]]]
  BY <1>1, <1>2, MatchedTakes DEF match
<1>7. /\ \A i, j \in 1 .. n : m[i] = m[j] => i = j
      /\ \A p \in 1 .. n : \E k \in 1 .. n : m[k] = p
  <2>1. n \in Nat /\ Takes(m, events, objects, n, n)
    BY <1>1, <1>6
  <2>2. Renumbers(m, n)
    BY <2>1, TakenOnce
  <2>3. QED
    BY <2>2 DEF Renumbers
<1>8. DOMAIN match = DOMAIN events
  BY <1>2, <1>6
<1>9. IsInjective(match)
  <2>1. ASSUME NEW i \in 1 .. n, NEW j \in 1 .. n, match[i] = match[j]
        PROVE  i = j
    <3>1. m[i] \in 1 .. n /\ m[j] \in 1 .. n /\ objects[m[i]] = objects[m[j]]
      BY <1>6, <2>1
    <3>2. m[i] = m[j]
      BY <1>5, <3>1
    <3>3. QED
      BY <1>7, <3>2
  <2>2. DOMAIN match = 1 .. n
    BY <1>6
  <2>3. QED
    BY <2>1, <2>2 DEF IsInjective
<1>10. Range(match) = Range(objects)
  <2>1. /\ DOMAIN match = 1 .. n /\ DOMAIN objects = 1 .. n
        /\ \A k \in 1 .. n : m[k] \in 1 .. n /\ match[k] = objects[m[k]]
    BY <1>1, <1>6
  <2>2. Range(match) = {match[k] : k \in 1 .. n} /\ Range(objects) = {objects[p] : p \in 1 .. n}
    BY <2>1 DEF Range
  <2>3. \A p \in 1 .. n : \E k \in 1 .. n : objects[p] = match[k]
    BY <1>7, <2>1
  <2>4. QED
    BY <2>1, <2>2, <2>3
<1>11. \A k \in 1 .. n : SameTransfer(events[k], records[objects[m[k]]].deposit)
  <2>1. HaveRecords(events, objects, n)
    BY <1>3, <1>4 DEF HaveRecords
  <2>2. n \in Nat /\ Takes(m, events, objects, n, n)
    BY <1>1, <1>6
  <2>3. QED
    BY <2>1, <2>2, MatchedAlike
<1>12. QED
  BY <1>2, <1>6, <1>8, <1>9, <1>10, <1>11 DEF match, events, objects

-----------------------------------------------------------------------------
(* Every step keeps the types                                              *)

\* Records rewritten in place are records.
LEMMA RewrittenRecords ==
    ASSUME TypesHold, NEW R, DOMAIN R = DOMAIN records, R = [o \in DOMAIN records |-> R[o]],
           \A o \in DOMAIN records : R[o] \in Record
    PROVE  R \in Seq(Record)
<1>1. DOMAIN records = 1 .. Len(records) /\ Len(records) \in Nat
  BY SeqElements DEF TypesHold
<1>2. R \in [1 .. Len(records) -> Record]
  BY <1>1
<1>3. QED
  BY <1>1, <1>2, FunctionIsSeq

\* A step that rewrites records and leaves the rest alone keeps the types.
LEMMA RewriteTypes ==
    ASSUME TypesHold, records' \in Seq(Record), DOMAIN records' = DOMAIN records,
           tasks' \subseteq Task(DOMAIN records, Len(calls)),
           UNCHANGED <<chain, transfers, requests, scan, restarts>>
    PROVE  TypesHold'
  BY DEF TypesHold, chain

\* The process starts again.
LEMMA RestartTypes ==
    ASSUME TypesHold, Restart
    PROVE  TypesHold'
<1>1. /\ mined' = mined /\ released' = released /\ calls' = calls
      /\ records' = <<>> /\ transfers' = [d \in Deposits |-> None]
      /\ requests' = [r \in Inputs |-> 0] /\ tasks' = {} /\ scan' = NewScan
      /\ restarts' = restarts + 1
  BY DEF Restart, chain
<1>2. /\ <<>> \in Seq(Record) /\ <<>> \in Seq(Deposits) /\ <<>> \in Seq(Release)
  BY EmptySeq
<1>3. NewScan \in Scan
  BY <1>2 DEF NewScan, Scan, TypesHold
<1>4. scan' \in Scan
  BY <1>1, <1>3
<1>5. QED
  BY <1>1, <1>2, <1>4 DEF TypesHold

\* A record is added under its deposit.
LEMMA AddedRecordTypes ==
    ASSUME TypesHold, NEW d \in Deposits, NEW r \in Record,
           records' = Append(records, r),
           transfers' = [transfers EXCEPT ![d] = Len(records) + 1]
    PROVE  /\ records' \in Seq(Record)
           /\ DOMAIN records = 1 .. Len(records) /\ Len(records) \in Nat
           /\ DOMAIN records' = 1 .. Len(records) + 1
           /\ \A o \in DOMAIN records : records'[o] = records[o]
           /\ records'[Len(records) + 1] = r
           /\ transfers' \in [Deposits -> {None} \cup DOMAIN records']
<1>1. records \in Seq(Record) /\ transfers \in [Deposits -> {None} \cup DOMAIN records]
  BY DEF TypesHold
<1>2. /\ Append(records, r) \in Seq(Record)
      /\ DOMAIN Append(records, r) = 1 .. Len(records) + 1
      /\ DOMAIN records = 1 .. Len(records) /\ Len(records) \in Nat
      /\ \A i \in 1 .. Len(records) : Append(records, r)[i] = records[i]
      /\ Append(records, r)[Len(records) + 1] = r
  BY <1>1, AppendElements
<1>3. DOMAIN records \subseteq DOMAIN records' /\ Len(records) + 1 \in DOMAIN records'
  BY <1>2
<1>4. transfers' \in [Deposits -> {None} \cup DOMAIN records']
  <2> DEFINE old == DOMAIN records
             new == DOMAIN records'
             o == Len(records) + 1
  <2>1. transfers \in [Deposits -> {None} \cup old] /\ old \subseteq new /\ o \in new
    BY <1>1, <1>3
  <2>2. transfers' = [transfers EXCEPT ![d] = o]
    OBVIOUS
  <2> HIDE DEF old, new, o
  <2>3. transfers' \in [Deposits -> {None} \cup new]
    BY <2>1, <2>2
  <2>4. QED
    BY <2>3 DEF new
<1>5. QED
  BY <1>2, <1>4

\* Tasks with more records to choose from, and more transactions, are tasks.
LEMMA MoreForTasks ==
    ASSUME NEW S, NEW T, S \subseteq T, NEW n \in Nat, NEW m \in Nat, n <= m
    PROVE  Task(S, n) \subseteq Task(T, m)
<1>1. SUFFICES ASSUME NEW u \in Task(S, n) PROVE u \in Task(T, m)
  OBVIOUS
<1>2. u \in [records : Seq(S), call : 0 .. n]
  BY DEF Task
<1>3. u.records \in Seq(T)
  BY <1>2, SeqMonotonic
<1>4. u.call \in 0 .. m
  BY <1>2
<1>5. u \in [records : Seq(T), call : 0 .. m]
  BY <1>2, <1>3, <1>4
<1>6. QED
  BY <1>5 DEF Task

\* The record that the backfill makes of a deposit.
LEMMA RestoredRecordType ==
    ASSUME TypesHold, NEW d \in Deposits
    PROVE  /\ RestoredRecord(d) \in Record
           /\ RestoredRecord(d).deposit = d
           /\ RestoredRecord(d).status \in {"queued", "released"}
           /\ RestoredRecord(d).status = "released" =>
                 \E i \in KeyMatches(d) :
                     /\ RestoredRecord(d).releaseTx = scan.releases[i].tx
                     /\ RestoredRecord(d).paid = Payout[scan.releases[i].deposit]
<1> DEFINE matches == KeyMatches(d)
           i == CHOOSE x \in matches : \A j \in matches : j <= x
           last == scan.releases[i]
<1>1. CASE matches = {}
  BY <1>1 DEF RestoredRecord, NewRecord, Record, Statuses, None
<1>2. CASE matches # {}
  <2>1. scan.releases \in Seq(Release)
    BY DEF TypesHold, Scan
  <2>2. /\ DOMAIN scan.releases = 1 .. Len(scan.releases) /\ Len(scan.releases) \in Nat
        /\ \A j \in 1 .. Len(scan.releases) : scan.releases[j] \in Release
    BY <2>1, SeqElements
  <2>3. matches \subseteq 1 .. Len(scan.releases)
    BY <2>2 DEF KeyMatches
  <2>4. \E x \in matches : \A j \in matches : j <= x
    <3> HIDE DEF matches
    <3> QED
    BY <1>2, <2>2, <2>3, GreatestExists
  <2>5. i \in matches
    <3> HIDE DEF matches
    <3> QED
    BY <2>4
  <2>6. last \in Release
    BY <2>2, <2>3, <2>5
  <2>7. RestoredRecord(d) = [deposit |-> d, status |-> "released",
                             paid |-> Payout[last.deposit], releaseTx |-> last.tx]
    BY <1>2 DEF RestoredRecord
  <2> HIDE DEF matches, i
  <2>8. Payout[last.deposit] \in Nat /\ last.tx \in Nat
    BY <2>6, DepositsAssumption DEF Release
  <2>9. /\ RestoredRecord(d).releaseTx = scan.releases[i].tx
        /\ RestoredRecord(d).paid = Payout[scan.releases[i].deposit]
    BY <2>7
  <2>10. QED
    BY <2>5, <2>7, <2>8, <2>9 DEF Record, Statuses, matches
<1>3. QED
  BY <1>1, <1>2

\* A mined transaction keeps the types and adds its events.
LEMMA MineCallTypes ==
    ASSUME TypesHold, NEW i \in DOMAIN calls, MineCall(i)
    PROVE  /\ TypesHold'
           /\ DOMAIN calls' = DOMAIN calls /\ Len(calls') = Len(calls)
           /\ \A j \in DOMAIN calls : calls'[j].deposits = calls[j].deposits
           /\ \A j \in DOMAIN calls : j # i => calls'[j] = calls[j]
           /\ Range(released) \subseteq Range(released')
           /\ calls'[i].state = "mined" =>
                 \A d \in Range(calls[i].deposits) : [deposit |-> d, tx |-> i] \in Range(released')
<1> DEFINE paid == calls[i].deposits
           events == [k \in DOMAIN paid |-> [deposit |-> paid[k], tx |-> i]]
<1>1. /\ calls \in Seq(Call) /\ released \in Seq(Release)
      /\ DOMAIN calls = 1 .. Len(calls) /\ Len(calls) \in Nat /\ i \in 1 .. Len(calls)
      /\ calls[i] \in Call /\ paid \in Seq(Deposits)
  <2>1. calls \in Seq(Call) /\ released \in Seq(Release)
    BY DEF TypesHold
  <2>2. DOMAIN calls = 1 .. Len(calls) /\ Len(calls) \in Nat /\ calls[i] \in Call
    BY <2>1, SeqElements
  <2>3. QED
    BY <2>1, <2>2 DEF Call
<1>2. events \in Seq(Release) /\ DOMAIN events = DOMAIN paid
  <2>1. DOMAIN paid = 1 .. Len(paid) /\ Len(paid) \in Nat /\ \A k \in 1 .. Len(paid) : paid[k] \in Deposits
    BY <1>1, SeqElements
  <2>2. events \in [1 .. Len(paid) -> Release]
    BY <1>1, <2>1 DEF Release
  <2> HIDE DEF events
  <2>3. QED
    BY <2>1, <2>2, FunctionIsSeq
<1>3. ASSUME NEW s \in {"mined", "reverted"}, calls' = [calls EXCEPT ![i].state = s]
      PROVE  /\ calls' \in Seq(Call)
             /\ DOMAIN calls' = DOMAIN calls /\ Len(calls') = Len(calls)
             /\ \A j \in DOMAIN calls : calls'[j].deposits = calls[j].deposits
             /\ \A j \in DOMAIN calls : j # i => calls'[j] = calls[j]
             /\ calls'[i].state = s
  <2> DEFINE c == [calls[i] EXCEPT !.state = s]
  <2>1. c \in Call /\ c.deposits = calls[i].deposits /\ c.state = s
    BY <1>1 DEF Call
  <2>2. calls' = [calls EXCEPT ![i] = c]
    BY <1>3
  <2> HIDE DEF c
  <2>3. calls' \in Seq(Call) /\ Len(calls') = Len(calls)
    BY <1>1, <2>1, <2>2, ExceptSeq
  <2>4. QED
    BY <1>1, <2>1, <2>2, <2>3
<1>4. UNCHANGED <<mined, records, transfers, requests, tasks, scan, restarts>>
  BY DEF MineCall, memory
<1>5. ASSUME calls' \in Seq(Call), Len(calls') = Len(calls), released' \in Seq(Release)
      PROVE  TypesHold'
  BY <1>4, <1>5 DEF TypesHold
<1>6. CASE calls' = [calls EXCEPT ![i].state = "reverted"] /\ UNCHANGED released
  <2>1. calls' \in Seq(Call) /\ Len(calls') = Len(calls) /\ released' \in Seq(Release)
    BY <1>1, <1>3, <1>6
  <2>2. TypesHold'
    BY <1>5, <2>1
  <2>3. QED
    BY <1>3, <1>6, <2>2
<1>7. CASE calls' = [calls EXCEPT ![i].state = "mined"] /\ released' = released \o events
  <2>1. released' \in Seq(Release) /\ Range(released') = Range(released) \cup Range(events)
    BY <1>1, <1>2, <1>7, ConcatProperties, RangeConcatenation
  <2>2. \A d \in Range(paid) : [deposit |-> d, tx |-> i] \in Range(events)
    BY DEF Range
  <2> HIDE DEF events
  <2>3. TypesHold'
    BY <1>3, <1>5, <1>7, <2>1
  <2>4. QED
    BY <1>3, <1>7, <2>1, <2>2, <2>3
<1>8. QED
  BY <1>6, <1>7 DEF MineCall

\* The tasks that a request or a transaction adds are tasks.
LEMMA SendCallTypes ==
    ASSUME TypesHold, NEW t \in tasks, NEW entries \in Seq(Deposits),
           calls' = Append(calls, [deposits |-> entries, state |-> "sent"]),
           tasks' = (tasks \ {t}) \cup {[t EXCEPT !.call = Len(calls) + 1]},
           UNCHANGED <<mined, released, records, transfers, requests, scan, restarts>>
    PROVE  /\ TypesHold'
           /\ DOMAIN calls = 1 .. Len(calls) /\ Len(calls) \in Nat
           /\ DOMAIN calls' = 1 .. Len(calls) + 1
           /\ \A i \in DOMAIN calls : calls'[i] = calls[i]
           /\ calls'[Len(calls) + 1] = [deposits |-> entries, state |-> "sent"]
           /\ \E u : /\ u = [t EXCEPT !.call = Len(calls) + 1]
                     /\ u.records = t.records /\ u.call = Len(calls) + 1
<1> DEFINE c == [deposits |-> entries, state |-> "sent"]
           u == [t EXCEPT !.call = Len(calls) + 1]
<1>1. c \in Call /\ calls \in Seq(Call)
  BY DEF Call, TypesHold
<1>2. /\ calls' \in Seq(Call) /\ DOMAIN calls' = 1 .. Len(calls) + 1
      /\ DOMAIN calls = 1 .. Len(calls) /\ Len(calls) \in Nat
      /\ \A i \in 1 .. Len(calls) : calls'[i] = calls[i]
      /\ calls'[Len(calls) + 1] = c
  <2> HIDE DEF c
  <2>1. calls' = Append(calls, c)
    BY DEF c
  <2>2. QED
    BY <1>1, <2>1, AppendElements
<1>3. Len(calls') = Len(calls) + 1
  <2>1. Len(calls') \in Nat /\ DOMAIN calls' = 1 .. Len(calls')
    BY <1>2, LenProperties
  <2>2. QED
    BY <1>2, <2>1
<1>4. t \in [records : Seq(DOMAIN records), call : 0 .. Len(calls)]
  BY DEF TypesHold, Task
<1>5. u.records = t.records /\ u.call = Len(calls) + 1
  BY <1>4
<1>6. u \in Task(DOMAIN records, Len(calls'))
  <2>1. Len(calls) + 1 \in 0 .. Len(calls')
    BY <1>2, <1>3
  <2>2. QED
    BY <1>4, <2>1 DEF Task
<1>7. tasks \subseteq Task(DOMAIN records, Len(calls'))
  <2>1. Len(calls') \in Nat /\ Len(calls) <= Len(calls')
    BY <1>2, <1>3
  <2>2. QED
    BY <1>2, <2>1, MoreForTasks DEF TypesHold
<1>8. tasks' \subseteq Task(DOMAIN records', Len(calls'))
  <2> HIDE DEF u
  <2> QED
  BY <1>6, <1>7 DEF u
<1>9. TypesHold'
  BY <1>2, <1>8 DEF TypesHold
<1>10. QED
  BY <1>2, <1>5, <1>9

\* The lists that a batch and the end of a settlement rewrite.
LEMMA PostSettleBatchTypes ==
    ASSUME TypesHold, NEW ids \in Batches, PostSettleBatch(ids)
    PROVE  /\ TypesHold'
           /\ DOMAIN records' = DOMAIN records
           /\ \A o \in DOMAIN records : records'[o].deposit = records[o].deposit
<1> DEFINE objects == [i \in DOMAIN ids |-> transfers[ids[i]]]
           R == [o \in DOMAIN records |->
                    IF o \in Range(objects)
                    THEN [records[o] EXCEPT !.status = "attesting"]
                    ELSE records[o]]
<1>1. records' = R
  BY DEF PostSettleBatch
<1>2. \A o \in DOMAIN records : records[o] \in Record
  BY SeqElements DEF TypesHold
<1>3. \A o \in DOMAIN records : R[o] \in Record /\ R[o].deposit = records[o].deposit
  BY <1>2 DEF Record, Statuses
<1>4. R \in Seq(Record)
  BY <1>3, RewrittenRecords
<1>5. PICK n \in 2 .. MaxBatch : ids \in [1 .. n -> Deposits]
  BY DEF Batches
<1>6. objects \in Seq(DOMAIN records)
  <2>1. \A i \in 1 .. n : transfers[ids[i]] \in DOMAIN records
    BY <1>5 DEF PostSettleBatch, Settleable, TypesHold
  <2>2. objects \in [1 .. n -> DOMAIN records]
    BY <1>5, <2>1
  <2>3. n \in Nat
    OBVIOUS
  <2> HIDE DEF objects
  <2>4. QED
    BY <2>2, <2>3, FunctionIsSeq
<1>7. Len(calls) \in Nat
  BY LenProperties DEF TypesHold
<1>8. tasks' = tasks \cup {[records |-> objects, call |-> None]}
  BY DEF PostSettleBatch
<1>9. UNCHANGED <<chain, transfers, requests, scan, restarts>>
  BY DEF PostSettleBatch
<1> HIDE DEF objects, R
<1>10. [records |-> objects, call |-> None] \in Task(DOMAIN records, Len(calls))
  BY <1>6, <1>7 DEF Task, None
<1>11. tasks' \subseteq Task(DOMAIN records, Len(calls))
  BY <1>8, <1>10 DEF TypesHold
<1>12. DOMAIN records' = DOMAIN records
  BY <1>1 DEF R
<1>13. TypesHold'
  BY <1>1, <1>4, <1>9, <1>11, <1>12, RewriteTypes
<1>14. QED
  BY <1>1, <1>3, <1>12, <1>13

\* The end of a settlement: its records are released by its transaction.
LEMMA ConfirmRewrites ==
    ASSUME IInv, NEW t \in tasks, Confirm(t)
    PROVE  /\ TypesHold'
           /\ DOMAIN records' = DOMAIN records
           /\ \A o \in DOMAIN records : records'[o].deposit = records[o].deposit
           /\ \A o \in Range(t.records) :
                 records'[o].status = "released" /\ records'[o].releaseTx = t.call
           /\ \A o \in Range(t.records) : \E e \in Range(calls[t.call].deposits) :
                 Receiver[e] = Receiver[records[o].deposit] /\ records'[o].paid = Payout[e]
           /\ \A o \in DOMAIN records \ Range(t.records) : records'[o] = records[o]
<1> DEFINE events == calls[t.call].deposits
           match == Matched(events, t.records)
           paid(o) == Payout[events[CHOOSE k \in DOMAIN match : match[k] = o]]
           R == [o \in DOMAIN records |->
                    IF o \in Range(match)
                    THEN [records[o] EXCEPT !.status = "released", !.paid = paid(o),
                                            !.releaseTx = t.call]
                    ELSE records[o]]
<1>1. records' = R /\ t.call # None
  BY DEF Confirm
<1>2. /\ TypesHold
      /\ DOMAIN match = DOMAIN events
      /\ Range(match) = Range(t.records)
      /\ \A k \in DOMAIN events : SameTransfer(events[k], records[match[k]].deposit)
  BY <1>1, MatchIsOneToOne DEF IInv
<1>3. /\ events \in Seq(Deposits) /\ t.call \in Nat
      /\ Range(t.records) \subseteq DOMAIN records
  <2>1. Range(t.records) \subseteq DOMAIN records /\ t.call \in 0 .. Len(calls)
    BY <1>2, TaskObjects
  <2>2. Len(calls) \in Nat
    BY <1>2, LenProperties DEF TypesHold
  <2>3. events \in Seq(Deposits)
    BY <1>1, <1>2, TaskCall
  <2> HIDE DEF events
  <2>4. QED
    BY <2>1, <2>2, <2>3
<1>4. \A o \in DOMAIN records : records[o] \in Record
  BY <1>2, SeqElements DEF TypesHold
<1>5. ASSUME NEW o \in Range(match)
      PROVE  /\ paid(o) \in Nat
             /\ \E e \in Range(events) :
                   Receiver[e] = Receiver[records[o].deposit] /\ paid(o) = Payout[e]
  <2> DEFINE k == CHOOSE j \in DOMAIN match : match[j] = o
  <2>2. k \in DOMAIN events /\ match[k] = o
    <3>1. \E j \in DOMAIN match : match[j] = o
      BY <1>5 DEF Range
    <3> HIDE DEF match
    <3>2. k \in DOMAIN match /\ match[k] = o
      BY <3>1
    <3>3. QED
      BY <1>2, <3>2 DEF match
  <2>3. events[k] \in Deposits
    <3> HIDE DEF k, events
    <3> QED
    BY <1>3, <2>2, SeqElements
  <2>4. Payout[events[k]] \in Nat
    <3> HIDE DEF k, events
    <3> QED
    BY <2>3, DepositsAssumption
  <2>5. events[k] \in Range(events) /\ Receiver[events[k]] = Receiver[records[o].deposit]
    <3>1. SameTransfer(events[k], records[match[k]].deposit)
      BY <1>2, <2>2
    <3> HIDE DEF k, events, match
    <3>2. QED
      BY <2>2, <3>1 DEF SameTransfer, Range
  <2>6. paid(o) = Payout[events[k]]
    OBVIOUS
  <2> HIDE DEF k, events, paid
  <2>7. QED
    BY <2>4, <2>5, <2>6
<1> HIDE DEF match, paid, events
<1>6. \A o \in DOMAIN records : R[o] \in Record /\ R[o].deposit = records[o].deposit
  BY <1>3, <1>4, <1>5 DEF Record, Statuses
<1>7. \A o \in Range(t.records) : R[o].status = "released" /\ R[o].releaseTx = t.call
  BY <1>2, <1>3, <1>4 DEF Record
<1>8. \A o \in DOMAIN records \ Range(t.records) : R[o] = records[o]
  BY <1>2
<1>9. R \in Seq(Record) /\ DOMAIN R = DOMAIN records
  BY <1>2, <1>6, RewrittenRecords
<1>10. tasks' \subseteq tasks /\ UNCHANGED <<chain, transfers, requests, scan, restarts>>
  BY DEF Confirm
<1>11. \A o \in Range(t.records) : \E e \in Range(events) :
           Receiver[e] = Receiver[records[o].deposit] /\ R[o].paid = Payout[e]
  <2>1. \A o \in Range(t.records) : R[o].paid = paid(o)
    BY <1>2, <1>3, <1>4 DEF Record
  <2> HIDE DEF R
  <2>2. QED
    BY <1>2, <1>5, <2>1
<1> HIDE DEF R
<1>12. TypesHold'
  BY <1>1, <1>2, <1>9, <1>10, RewriteTypes DEF TypesHold
<1>13. \A o \in Range(t.records) : \E e \in Range(calls[t.call].deposits) :
           Receiver[e] = Receiver[records[o].deposit] /\ records'[o].paid = Payout[e]
  BY <1>1, <1>11 DEF events
<1>14. QED
  BY <1>1, <1>6, <1>7, <1>8, <1>9, <1>12, <1>13

\* A settlement that fails: its records have failed.
LEMMA FailRewrites ==
    ASSUME IInv, NEW t \in tasks, Fail(t)
    PROVE  /\ TypesHold'
           /\ DOMAIN records' = DOMAIN records
           /\ \A o \in DOMAIN records : records'[o].deposit = records[o].deposit
           /\ \A o \in Range(t.records) : records'[o].status = "failed"
           /\ \A o \in DOMAIN records \ Range(t.records) : records'[o] = records[o]
<1> DEFINE R == [o \in DOMAIN records |->
                    IF o \in Range(t.records) /\ records[o].status # "released"
                    THEN [records[o] EXCEPT !.status = "failed"]
                    ELSE records[o]]
<1>1. records' = R
  BY DEF Fail
<1>2. TypesHold /\ Range(t.records) \subseteq DOMAIN records
  BY TaskObjects DEF IInv
<1>3. \A o \in Range(t.records) : records[o].status = "attesting"
  BY <1>2 DEF IInv, TasksOwnRecords
<1>4. \A o \in DOMAIN records : records[o] \in Record
  BY <1>2, SeqElements DEF TypesHold
<1>5. \A o \in DOMAIN records : R[o] \in Record /\ R[o].deposit = records[o].deposit
  BY <1>4 DEF Record, Statuses
<1>6. \A o \in Range(t.records) : R[o].status = "failed"
  BY <1>2, <1>3, <1>4 DEF Record
<1>7. \A o \in DOMAIN records \ Range(t.records) : R[o] = records[o]
  OBVIOUS
<1>8. R \in Seq(Record) /\ DOMAIN R = DOMAIN records
  BY <1>2, <1>5, RewrittenRecords
<1>9. tasks' \subseteq tasks /\ UNCHANGED <<chain, transfers, requests, scan, restarts>>
  BY DEF Fail
<1> HIDE DEF R
<1>10. TypesHold'
  BY <1>1, <1>2, <1>8, <1>9, RewriteTypes DEF TypesHold
<1>11. QED
  BY <1>1, <1>5, <1>6, <1>7, <1>8, <1>10

\* A request or the backfill adds a record.
LEMMA StoreRecordTypes ==
    ASSUME TypesHold, NEW d \in Deposits, NEW queue \in BOOLEAN, StoreRecord(d, queue)
    PROVE  TypesHold'
<1> DEFINE r == NewRecord(d, FirstStatus(queue))
           t == [records |-> <<Len(records) + 1>>, call |-> None]
<1>1. r \in Record
  BY DEF NewRecord, FirstStatus, Record, Statuses, None
<1>2. /\ records' \in Seq(Record) /\ Len(records) \in Nat
      /\ DOMAIN records = 1 .. Len(records)
      /\ DOMAIN records' = 1 .. Len(records) + 1
      /\ transfers' \in [Deposits -> {None} \cup DOMAIN records']
  <2>1. /\ records' = Append(records, r)
        /\ transfers' = [transfers EXCEPT ![d] = Len(records) + 1]
    BY DEF StoreRecord
  <2> HIDE DEF r
  <2>2. QED
    BY <1>1, <2>1, AddedRecordTypes
<1>3. Len(calls) \in Nat
  BY LenProperties DEF TypesHold
<1>4. t \in Task(DOMAIN records', Len(calls))
  BY <1>2, <1>3 DEF Task, None
<1>5. tasks \subseteq Task(DOMAIN records', Len(calls))
  BY <1>2, <1>3, MoreForTasks DEF TypesHold
<1>6. tasks' \subseteq tasks \cup {t}
  BY DEF StoreRecord
<1>7. requests' \in [Inputs -> Nat]
  <2>1. <<d, queue>> \in Inputs
    BY DEF Inputs
  <2>2. requests \in [Inputs -> Nat] /\ requests[<<d, queue>>] > 0
    BY DEF StoreRecord, TypesHold
  <2>3. requests' = [requests EXCEPT ![<<d, queue>>] = @ - 1]
    BY DEF StoreRecord
  <2>4. QED
    BY <2>1, <2>2, <2>3
<1>8. UNCHANGED <<mined, released, calls, scan, restarts>>
  BY DEF StoreRecord, chain
<1> HIDE DEF r, t
<1>9. QED
  BY <1>2, <1>4, <1>5, <1>6, <1>7, <1>8 DEF TypesHold

\* A deposit that a scan finds is recorded, or left out, in its type.
LEMMA RestoreDepositTypes ==
    ASSUME TypesHold, ScanCoversHistory, RestoreDeposit
    PROVE  /\ TypesHold'
           /\ Head(scan.deposits) \in Deposits
           /\ scan' = [scan EXCEPT !.pc = "loop", !.deposits = Tail(@)]
           /\ DOMAIN records = 1 .. Len(records) /\ Len(records) \in Nat
           /\ DOMAIN records' = 1 .. Len(records) + 1
           /\ \A o \in DOMAIN records : records'[o] = records[o]
           /\ records'[Len(records) + 1] = RestoredRecord(Head(scan.deposits))
<1> DEFINE d == Head(scan.deposits)
<1>1. scan.deposits \in Seq(Deposits) /\ scan.deposits # <<>>
  BY DEF TypesHold, Scan, ScanCoversHistory, RestoreDeposit
<1>2. d \in Deposits /\ Tail(scan.deposits) \in Seq(Deposits)
  BY <1>1, HeadTailProperties
<1>3. /\ records' = Append(records, RestoredRecord(d))
      /\ transfers' = [transfers EXCEPT ![d] = Len(records) + 1]
      /\ scan' = [scan EXCEPT !.pc = "loop", !.deposits = Tail(@)]
      /\ UNCHANGED <<mined, released, calls, requests, tasks, restarts>>
  BY DEF RestoreDeposit, chain
<1> HIDE DEF d
<1>4. /\ records' \in Seq(Record)
      /\ DOMAIN records = 1 .. Len(records) /\ Len(records) \in Nat
      /\ DOMAIN records' = 1 .. Len(records) + 1
      /\ \A o \in DOMAIN records : records'[o] = records[o]
      /\ records'[Len(records) + 1] = RestoredRecord(d)
      /\ transfers' \in [Deposits -> {None} \cup DOMAIN records']
  BY <1>2, <1>3, RestoredRecordType, AddedRecordTypes
<1>5. tasks \subseteq Task(DOMAIN records', Len(calls))
  <2>1. Len(calls) \in Nat
    BY LenProperties DEF TypesHold
  <2>2. QED
    BY <1>4, <2>1, MoreForTasks DEF TypesHold
<1>6. scan' \in Scan
  BY <1>2, <1>3 DEF TypesHold, Scan
<1>7. TypesHold'
  BY <1>3, <1>4, <1>5, <1>6 DEF TypesHold
<1>8. QED
  BY <1>2, <1>3, <1>4, <1>7 DEF d

\* A step of the backfill that stores nothing.
LEMMA ScanTypes ==
    ASSUME TypesHold,
           \/ ReadSourceHead \/ ReadPayoutHead \/ CheckCount
           \/ VisitDeposit \/ BackfillDone \/ BackfillThrows
    PROVE  /\ TypesHold'
           /\ UNCHANGED <<mined, released, calls, records, transfers, requests, tasks, restarts>>
<1>1. scan \in Scan /\ scan.deposits \in Seq(Deposits)
  BY DEF TypesHold, Scan
<1>2. UNCHANGED <<mined, released, calls, records, transfers, requests, tasks, restarts>>
  BY DEF ReadSourceHead, ReadPayoutHead, CheckCount, VisitDeposit, BackfillDone,
         BackfillThrows, chain
<1>3. ASSUME ReadSourceHead PROVE scan' \in Scan
  <2>1. PICK found \in SUBSET (mined \cap Home) : \E logs \in ByHeight(found) :
            scan' = [scan EXCEPT !.deposits = logs, !.sourceRead = TRUE]
    BY <1>3 DEF ReadSourceHead
  <2>2. PICK logs \in ByHeight(found) :
            scan' = [scan EXCEPT !.deposits = logs, !.sourceRead = TRUE]
    BY <2>1
  <2>3. logs \in Seq(Deposits)
    BY ByHeightIsDistinct DEF TypesHold
  <2>4. QED
    BY <1>1, <2>2, <2>3 DEF Scan
<1>4. ASSUME ReadPayoutHead PROVE scan' \in Scan
  <2>1. scan' = [scan EXCEPT !.releases = released, !.payoutRead = TRUE]
    BY <1>4 DEF ReadPayoutHead
  <2>2. QED
    BY <1>1, <2>1 DEF Scan, TypesHold
<1>5. ASSUME CheckCount PROVE scan' \in Scan
  <2>1. PICK b \in BOOLEAN : scan' = [scan EXCEPT !.pc = "loop", !.historyComplete = b]
    BY <1>5 DEF CheckCount
  <2>2. QED
    BY <1>1, <2>1 DEF Scan
<1>6. ASSUME VisitDeposit PROVE scan' \in Scan
  <2>1. Tail(scan.deposits) \in Seq(Deposits)
    BY <1>1, <1>6, HeadTailProperties DEF VisitDeposit
  <2>2. \/ scan' = [scan EXCEPT !.deposits = Tail(@)]
        \/ scan' = [scan EXCEPT !.pc = "block"]
    BY <1>6 DEF VisitDeposit
  <2>3. QED
    BY <1>1, <2>1, <2>2 DEF Scan
<1>7. ASSUME BackfillDone \/ BackfillThrows PROVE scan' \in Scan
  <2>1. <<>> \in Seq(Deposits) /\ <<>> \in Seq(Release)
    BY EmptySeq
  <2>2. \/ scan' = [scan EXCEPT !.pc = "done", !.releases = <<>>]
        \/ scan' = [scan EXCEPT !.pc = "threw", !.deposits = <<>>, !.releases = <<>>]
    BY <1>7 DEF BackfillDone, BackfillThrows
  <2>3. QED
    BY <1>1, <2>1, <2>2 DEF Scan
<1>8. scan' \in Scan
  BY <1>1, <1>3, <1>4, <1>5, <1>6, <1>7, <1>2 DEF TypesHold
<1>9. QED
  BY <1>2, <1>8 DEF TypesHold

\* Every step keeps the types.
LEMMA TypesStep ==
    ASSUME IInv, [Next]_vars
    PROVE  TypesHold'
<1>1. TypesHold
  BY DEF IInv
<1>2. CASE UNCHANGED vars
  BY <1>1, <1>2 DEF vars, chain, memory, TypesHold
<1>3. ASSUME NEW d \in Deposits, WalletDeposit(d) \/ ReleaseByOthers(d)
      PROVE  TypesHold'
  <2>1. CASE WalletDeposit(d)
    BY <1>1, <2>1 DEF WalletDeposit, Mine, memory, TypesHold
  <2>2. CASE ReleaseByOthers(d)
    <3>1. [deposit |-> d, tx |-> None] \in Release
      BY DEF Release, None
    <3>2. released' = Append(released, [deposit |-> d, tx |-> None])
      BY <2>2 DEF ReleaseByOthers
    <3>3. released' \in Seq(Release)
      BY <1>1, <3>1, <3>2, AppendProperties DEF TypesHold
    <3>4. UNCHANGED <<mined, calls, records, transfers, requests, tasks, scan, restarts>>
      BY <2>2 DEF ReleaseByOthers, memory
    <3>5. QED
      BY <1>1, <3>3, <3>4 DEF TypesHold
  <2>3. QED
    BY <1>3, <2>1, <2>2
<1>4. ASSUME NEW i \in DOMAIN calls, MineCall(i)
      PROVE  TypesHold'
  BY <1>1, <1>4, MineCallTypes
<1>5. ASSUME NEW d \in Deposits, NEW queue \in BOOLEAN,
             PostDeposit(d, queue) \/ PostTrack(d, queue) \/ RequestFails(d, queue)
      PROVE  TypesHold'
  <2> DEFINE r == <<d, queue>>
  <2>1. r \in Inputs /\ requests \in [Inputs -> Nat]
    BY <1>1 DEF Inputs, TypesHold
  <2>2. /\ mined' = mined \/ mined' = mined \cup {d}
        /\ UNCHANGED <<released, calls, records, transfers, tasks, scan, restarts>>
        /\ \/ requests' = [requests EXCEPT ![r] = @ + 1]
           \/ requests[r] > 0 /\ requests' = [requests EXCEPT ![r] = @ - 1]
    BY <1>5 DEF PostDeposit, PostTrack, RequestFails, Mine, Await, chain
  <2> HIDE DEF r
  <2>3. requests' \in [Inputs -> Nat]
    BY <2>1, <2>2
  <2>4. mined' \subseteq Deposits
    BY <1>1, <2>2 DEF TypesHold
  <2>5. QED
    BY <1>1, <2>2, <2>3, <2>4 DEF TypesHold
<1>6. ASSUME NEW d \in Deposits, NEW queue \in BOOLEAN, StoreRecord(d, queue)
      PROVE  TypesHold'
  BY <1>1, <1>6, StoreRecordTypes
<1>7. ASSUME NEW ids \in Batches, PostSettleBatch(ids)
      PROVE  TypesHold'
  BY <1>1, <1>7, PostSettleBatchTypes
<1>8. CASE RefuseBatch \/ Restart
  BY <1>1, <1>8, RestartTypes DEF RefuseBatch
<1>9. ASSUME NEW t \in tasks, SendCall(t)
      PROVE  TypesHold'
  <2>1. PICK entries \in ByHeight(Range(DepositsOf(t))) :
            calls' = Append(calls, [deposits |-> entries, state |-> "sent"])
    BY <1>9 DEF SendCall
  <2>2. Range(DepositsOf(t)) \in SUBSET Deposits
    BY <1>1, DepositsOfTask
  <2>3. entries \in Seq(Deposits)
    BY <2>2, ByHeightIsDistinct
  <2>4. /\ tasks' = (tasks \ {t}) \cup {[t EXCEPT !.call = Len(calls) + 1]}
        /\ UNCHANGED <<mined, released, records, transfers, requests, scan, restarts>>
    BY <1>9 DEF SendCall
  <2>5. QED
    BY <1>1, <2>1, <2>3, <2>4, SendCallTypes
<1>10. ASSUME NEW t \in tasks, Confirm(t) \/ Fail(t)
       PROVE  TypesHold'
  BY <1>10, ConfirmRewrites, FailRewrites
<1>11. CASE BackfillStep
  BY <1>1, <1>11, ScanTypes, RestoreDepositTypes DEF BackfillStep, IInv
<1>12. QED
  BY <1>2, <1>3, <1>4, <1>5, <1>6, <1>7, <1>8, <1>9, <1>10, <1>11
     DEF Next, ChainStep, RequestStep, TaskStep

-----------------------------------------------------------------------------
(* Every step keeps the list and the settlements in agreement              *)

\* The transactions of settlements are as they should be, after a step that sends
\* none and leaves the deposits of records and of transactions alone.
LEMMA CallsPayKept ==
    ASSUME TypesHold, CallsPayTheirRecords,
           \A u \in tasks' : u \in tasks \/ u.call = None,
           \A i \in DOMAIN calls : calls'[i].deposits = calls[i].deposits,
           \A o \in DOMAIN records : records'[o].deposit = records[o].deposit
    PROVE  CallsPayTheirRecords'
<1>1. ASSUME NEW u \in tasks', u.call # None
      PROVE  /\ u \in tasks
             /\ calls'[u.call].deposits = calls[u.call].deposits
             /\ DepositsOf(u)' = DepositsOf(u)
  <2>1. u \in tasks
    BY <1>1
  <2>2. u.call \in DOMAIN calls
    BY <1>1, <2>1, TaskCall
  <2>3. /\ DOMAIN u.records = 1 .. Len(u.records)
        /\ \A i \in 1 .. Len(u.records) : u.records[i] \in DOMAIN records
    BY <2>1, TaskObjects
  <2>4. DepositsOf(u)' = DepositsOf(u)
    BY <2>3 DEF DepositsOf
  <2>5. QED
    BY <2>1, <2>2, <2>4
<1>2. QED
  BY <1>1 DEF CallsPayTheirRecords

\* A settlement starts: its records become its own, none of them has an owner.
LEMMA StartedTask ==
    ASSUME TypesHold, TasksOwnRecords, NEW objects, objects # <<>>,
           DOMAIN records \subseteq DOMAIN records',
           Range(objects) \subseteq DOMAIN records',
           tasks' = tasks \cup {[records |-> objects, call |-> None]},
           \A o \in Range(objects) :
              /\ records'[o].status = "attesting"
              /\ o \in DOMAIN records => records[o].status # "attesting",
           \A o \in DOMAIN records' \ Range(objects) :
              o \in DOMAIN records /\ records'[o].status = records[o].status
    PROVE  TasksOwnRecords'
<1> DEFINE s == [records |-> objects, call |-> None]
<1>1. s.records = objects /\ tasks' = tasks \cup {s}
  OBVIOUS
<1> HIDE DEF s
<1>2. \A t \in tasks : \A o \in Range(t.records) :
         o \in DOMAIN records /\ records[o].status = "attesting" /\ o \notin Range(objects)
  <2>1. \A t \in tasks : Range(t.records) \subseteq DOMAIN records
    BY TaskObjects
  <2>2. QED
    BY <2>1 DEF TasksOwnRecords
<1>3. ASSUME NEW o \in DOMAIN records'
      PROVE  records'[o].status = "attesting" <=> \E t \in tasks' : o \in Range(t.records)
  <2>1. CASE o \in Range(objects)
    BY <1>1, <2>1
  <2>2. CASE o \notin Range(objects)
    <3>1. o \in DOMAIN records /\ records'[o].status = records[o].status
      BY <2>2
    <3>2. records[o].status = "attesting" <=> \E t \in tasks : o \in Range(t.records)
      BY <3>1 DEF TasksOwnRecords
    <3>3. QED
      BY <1>1, <2>2, <3>1, <3>2
  <2>3. QED
    BY <2>1, <2>2
<1>4. ASSUME NEW t \in tasks', NEW u \in tasks',
             NEW o \in Range(t.records), o \in Range(u.records)
      PROVE  t = u
  BY <1>1, <1>2, <1>4 DEF TasksOwnRecords
<1>5. \A t \in tasks' : t.records # <<>>
  BY <1>1 DEF TasksOwnRecords
<1>6. QED
  BY <1>3, <1>4, <1>5 DEF TasksOwnRecords

\* A settlement ends: its records have another status, the others do not change.
LEMMA EndedTask ==
    ASSUME TypesHold, TasksOwnRecords, NEW t \in tasks,
           DOMAIN records' = DOMAIN records, tasks' = tasks \ {t},
           \A o \in Range(t.records) : records'[o].status # "attesting",
           \A o \in DOMAIN records \ Range(t.records) : records'[o] = records[o]
    PROVE  TasksOwnRecords'
<1>1. ASSUME NEW o \in DOMAIN records'
      PROVE  records'[o].status = "attesting" <=> \E u \in tasks' : o \in Range(u.records)
  <2>1. CASE o \in Range(t.records)
    BY <2>1 DEF TasksOwnRecords
  <2>2. CASE o \notin Range(t.records)
    BY <1>1, <2>2 DEF TasksOwnRecords
  <2>3. QED
    BY <2>1, <2>2
<1>2. QED
  BY <1>1 DEF TasksOwnRecords

\* The list keeps to the deposits of records when none is added.
LEMMA ListedKept ==
    ASSUME TypesHold, ListedByDeposit, UNCHANGED transfers,
           \A o \in DOMAIN records : records'[o].deposit = records[o].deposit
    PROVE  ListedByDeposit'
<1>1. \A d \in Deposits : transfers[d] # None => transfers[d] \in DOMAIN records
  BY DEF TypesHold
<1>2. QED
  BY <1>1 DEF ListedByDeposit

\* The list and the settlements agree.
Agreement == ListedByDeposit /\ TasksOwnRecords /\ CallsPayTheirRecords

\* A record is added, and a settlement of it starts unless it is queued.
LEMMA StoreRecordAgrees ==
    ASSUME IInv, NEW d \in Deposits, NEW queue \in BOOLEAN, StoreRecord(d, queue)
    PROVE  Agreement'
<1> DEFINE r == NewRecord(d, FirstStatus(queue))
           n == Len(records) + 1
<1>1. TypesHold /\ Agreement
  BY DEF IInv, Agreement
<1>2. /\ records' = Append(records, r) /\ transfers' = [transfers EXCEPT ![d] = n]
      /\ tasks' = IF queue THEN tasks ELSE tasks \cup {[records |-> <<n>>, call |-> None]}
      /\ UNCHANGED calls
  BY DEF StoreRecord, chain
<1>3. r \in Record /\ r.deposit = d /\ r.status = FirstStatus(queue)
  BY DEF NewRecord, FirstStatus, Record, Statuses, None
<1> HIDE DEF r
<1>4. /\ DOMAIN records = 1 .. Len(records) /\ Len(records) \in Nat
      /\ DOMAIN records' = 1 .. Len(records) + 1
      /\ \A o \in DOMAIN records : records'[o] = records[o]
      /\ records'[n] = r
  BY <1>1, <1>2, <1>3, AddedRecordTypes
<1>5. ListedByDeposit'
  <2>1. ASSUME NEW e \in Deposits, transfers'[e] # None
        PROVE  records'[transfers'[e]].deposit = e
    <3>1. transfers \in [Deposits -> {None} \cup DOMAIN records]
      BY <1>1 DEF TypesHold
    <3>2. CASE e = d
      BY <1>2, <1>3, <1>4, <3>1, <3>2
    <3>3. CASE e # d
      <4>1. transfers'[e] = transfers[e] /\ transfers[e] \in DOMAIN records
        BY <1>2, <2>1, <3>1, <3>3
      <4>2. QED
        BY <1>1, <1>4, <2>1, <4>1 DEF Agreement, ListedByDeposit
    <3>4. QED
      BY <3>2, <3>3
  <2>2. QED
    BY <2>1 DEF ListedByDeposit
<1>6. CallsPayTheirRecords'
  <2>1. \A u \in tasks' : u \in tasks \/ u.call = None
    BY <1>2
  <2>2. QED
    BY <1>1, <1>2, <1>4, <2>1, CallsPayKept DEF Agreement
<1>7. TasksOwnRecords'
  <2>1. CASE queue
    <3>1. tasks' = tasks /\ records'[n].status = "queued"
      BY <1>2, <1>3, <1>4, <2>1 DEF FirstStatus
    <3>2. \A t \in tasks : Range(t.records) \subseteq DOMAIN records
      BY <1>1, TaskObjects
    <3>3. n \notin DOMAIN records
      BY <1>4
    <3>4. ASSUME NEW o \in DOMAIN records'
          PROVE  records'[o].status = "attesting" <=> \E t \in tasks' : o \in Range(t.records)
      <4>1. CASE o = n
        BY <3>1, <3>2, <3>3, <4>1
      <4>2. CASE o # n
        <5>1. o \in DOMAIN records /\ records'[o] = records[o]
          BY <1>4, <4>2
        <5>2. QED
          BY <1>1, <3>1, <5>1 DEF Agreement, TasksOwnRecords
      <4>3. QED
        BY <4>1, <4>2
    <3>5. QED
      BY <1>1, <3>1, <3>4 DEF Agreement, TasksOwnRecords
  <2>2. CASE ~queue
    <3> DEFINE objects == <<n>>
    <3>1. objects # <<>> /\ Range(objects) = {n}
      BY DEF Range
    <3>2. tasks' = tasks \cup {[records |-> objects, call |-> None]}
      BY <1>2, <2>2
    <3>3. records'[n].status = "attesting" /\ n \in DOMAIN records' /\ n \notin DOMAIN records
      BY <1>3, <1>4, <2>2 DEF FirstStatus
    <3>4. DOMAIN records \subseteq DOMAIN records' /\ \A o \in DOMAIN records' : o = n \/ o \in DOMAIN records
      BY <1>4
    <3> HIDE DEF objects, n
    <3>5. QED
      BY <1>1, <1>4, <3>1, <3>2, <3>3, <3>4, StartedTask DEF Agreement
  <2>3. QED
    BY <2>1, <2>2
<1>8. QED
  BY <1>5, <1>6, <1>7 DEF Agreement

\* A batch is accepted: its records were queued or had failed, so nobody owned them.
LEMMA PostSettleBatchAgrees ==
    ASSUME IInv, NEW ids \in Batches, PostSettleBatch(ids)
    PROVE  Agreement'
<1> DEFINE objects == [i \in DOMAIN ids |-> transfers[ids[i]]]
<1>1. TypesHold /\ Agreement
  BY DEF IInv, Agreement
<1>2. /\ TypesHold' /\ DOMAIN records' = DOMAIN records
      /\ \A o \in DOMAIN records : records'[o].deposit = records[o].deposit
  BY <1>1, PostSettleBatchTypes
<1>3. /\ records' = [o \in DOMAIN records |->
                        IF o \in Range(objects)
                        THEN [records[o] EXCEPT !.status = "attesting"]
                        ELSE records[o]]
      /\ tasks' = tasks \cup {[records |-> objects, call |-> None]}
      /\ UNCHANGED <<calls, transfers>>
  BY DEF PostSettleBatch, chain
<1>4. PICK n \in 2 .. MaxBatch : ids \in [1 .. n -> Deposits]
  BY DEF Batches
<1>5. \A i \in 1 .. n :
         /\ transfers[ids[i]] \in DOMAIN records
         /\ records[transfers[ids[i]]].status \in {"queued", "failed"}
  BY <1>1, <1>4 DEF PostSettleBatch, Settleable, TypesHold
<1>6. \A o \in Range(objects) :
         o \in DOMAIN records /\ records[o].status \in {"queued", "failed"}
  BY <1>4, <1>5 DEF Range
<1>7. \A o \in DOMAIN records : records[o] \in Record
  BY <1>1, SeqElements DEF TypesHold
<1>8. objects # <<>>
  <2>1. 1 \in DOMAIN objects
    BY <1>4
  <2>2. QED
    BY <2>1
<1> HIDE DEF objects
<1>9. \A o \in Range(objects) :
         records'[o].status = "attesting" /\ records[o].status # "attesting"
  BY <1>3, <1>6, <1>7 DEF Record
<1>10. TasksOwnRecords'
  <2>1. \A o \in DOMAIN records' \ Range(objects) :
           o \in DOMAIN records /\ records'[o].status = records[o].status
    BY <1>2, <1>3
  <2>2. Range(objects) \subseteq DOMAIN records'
    BY <1>2, <1>6
  <2>3. QED
    BY <1>1, <1>2, <1>3, <1>8, <1>9, <2>1, <2>2, StartedTask DEF Agreement
<1>11. CallsPayTheirRecords'
  BY <1>1, <1>2, <1>3, CallsPayKept DEF Agreement
<1>12. ListedByDeposit'
  BY <1>1, <1>2, <1>3, ListedKept DEF Agreement
<1>13. QED
  BY <1>10, <1>11, <1>12 DEF Agreement

\* A transaction is sent for the records of a settlement.
LEMMA SendCallAgrees ==
    ASSUME IInv, NEW t \in tasks, SendCall(t)
    PROVE  Agreement'
<1>1. TypesHold /\ Agreement
  BY DEF IInv, Agreement
<1>2. PICK entries \in ByHeight(Range(DepositsOf(t))) :
          /\ Len(entries) = Len(t.records)
          /\ calls' = Append(calls, [deposits |-> entries, state |-> "sent"])
  BY DEF SendCall
<1>3. /\ tasks' = (tasks \ {t}) \cup {[t EXCEPT !.call = Len(calls) + 1]}
      /\ UNCHANGED <<mined, released, records, transfers, requests, scan, restarts>>
  BY DEF SendCall
<1>4. /\ entries \in Seq(Deposits) /\ IsInjective(entries)
      /\ Range(entries) = Range(DepositsOf(t))
  BY <1>1, DepositsOfTask, ByHeightIsDistinct
<1>5. /\ DOMAIN calls = 1 .. Len(calls) /\ Len(calls) \in Nat
      /\ \A i \in DOMAIN calls : calls'[i] = calls[i]
      /\ calls'[Len(calls) + 1] = [deposits |-> entries, state |-> "sent"]
      /\ \E u : /\ u = [t EXCEPT !.call = Len(calls) + 1]
                /\ u.records = t.records /\ u.call = Len(calls) + 1
  BY <1>1, <1>2, <1>3, <1>4, SendCallTypes
<1>6. PICK u : /\ tasks' = (tasks \ {t}) \cup {u}
               /\ u.records = t.records /\ u.call = Len(calls) + 1
  BY <1>3, <1>5
<1>7. ListedByDeposit'
  BY <1>1, <1>3 DEF Agreement, ListedByDeposit
<1>8. TasksOwnRecords'
  <2>1. ASSUME NEW o \in DOMAIN records'
        PROVE  records'[o].status = "attesting" <=> \E v \in tasks' : o \in Range(v.records)
    BY <1>1, <1>3, <1>6 DEF Agreement, TasksOwnRecords
  <2>2. ASSUME NEW v \in tasks', NEW w \in tasks',
               NEW o \in Range(v.records), o \in Range(w.records)
        PROVE  v = w
    BY <1>1, <1>6, <2>2 DEF Agreement, TasksOwnRecords
  <2>3. \A v \in tasks' : v.records # <<>>
    BY <1>1, <1>6 DEF Agreement, TasksOwnRecords
  <2>4. QED
    BY <2>1, <2>2, <2>3 DEF TasksOwnRecords
<1>9. CallsPayTheirRecords'
  <2>1. SUFFICES ASSUME NEW v \in tasks', v.call # None
                 PROVE  /\ IsInjective(calls'[v.call].deposits)
                        /\ Len(calls'[v.call].deposits) = Len(v.records)
                        /\ Range(calls'[v.call].deposits) = Range(DepositsOf(v)')
    BY DEF CallsPayTheirRecords
  <2>2. CASE v = u
    <3>1. calls'[v.call].deposits = entries
      BY <1>5, <1>6, <2>2
    <3>2. DepositsOf(v)' = DepositsOf(t)
      BY <1>3, <1>6, <2>2 DEF DepositsOf
    <3>3. Len(v.records) = Len(t.records)
      BY <1>6, <2>2
    <3>4. QED
      BY <1>2, <1>4, <3>1, <3>2, <3>3
  <2>3. CASE v \in tasks
    <3>1. v.call \in DOMAIN calls
      BY <1>1, <2>1, <2>3, TaskCall
    <3>2. calls'[v.call] = calls[v.call]
      BY <1>5, <3>1
    <3>3. DepositsOf(v)' = DepositsOf(v)
      BY <1>3 DEF DepositsOf
    <3>4. QED
      BY <1>1, <2>1, <2>3, <3>2, <3>3 DEF Agreement, CallsPayTheirRecords
  <2>4. QED
    BY <1>6, <2>2, <2>3
<1>10. QED
  BY <1>7, <1>8, <1>9 DEF Agreement

\* The backfill adds a record that nobody settles.
LEMMA RestoreDepositAgrees ==
    ASSUME IInv, RestoreDeposit
    PROVE  Agreement'
<1> DEFINE d == Head(scan.deposits)
           n == Len(records) + 1
<1>1. TypesHold /\ Agreement /\ ScanCoversHistory
  BY DEF IInv, Agreement
<1>2. /\ d \in Deposits
      /\ DOMAIN records = 1 .. Len(records) /\ Len(records) \in Nat
      /\ DOMAIN records' = 1 .. n
      /\ \A o \in DOMAIN records : records'[o] = records[o]
      /\ records'[n] = RestoredRecord(d)
  BY <1>1, RestoreDepositTypes
<1>3. /\ transfers' = [transfers EXCEPT ![d] = n]
      /\ UNCHANGED <<calls, tasks>>
  BY DEF RestoreDeposit, chain
<1>4. RestoredRecord(d).deposit = d /\ RestoredRecord(d).status # "attesting"
  <2>1. RestoredRecord(d).deposit = d /\ RestoredRecord(d).status \in {"queued", "released"}
    BY <1>1, <1>2, RestoredRecordType
  <2>2. QED
    BY <2>1
<1> HIDE DEF d
<1>5. ListedByDeposit'
  <2>1. ASSUME NEW e \in Deposits, transfers'[e] # None
        PROVE  records'[transfers'[e]].deposit = e
    <3>1. transfers \in [Deposits -> {None} \cup DOMAIN records]
      BY <1>1 DEF TypesHold
    <3>2. CASE e = d
      BY <1>2, <1>3, <1>4, <3>1, <3>2
    <3>3. CASE e # d
      <4>1. transfers'[e] = transfers[e] /\ transfers[e] \in DOMAIN records
        BY <1>3, <2>1, <3>1, <3>3
      <4>2. QED
        BY <1>1, <1>2, <2>1, <4>1 DEF Agreement, ListedByDeposit
    <3>4. QED
      BY <3>2, <3>3
  <2>2. QED
    BY <2>1 DEF ListedByDeposit
<1>6. CallsPayTheirRecords'
  BY <1>1, <1>2, <1>3, CallsPayKept DEF Agreement
<1>7. TasksOwnRecords'
  <2>1. \A t \in tasks : Range(t.records) \subseteq DOMAIN records
    BY <1>1, TaskObjects
  <2>2. n \notin DOMAIN records
    BY <1>2
  <2>3. ASSUME NEW o \in DOMAIN records'
        PROVE  records'[o].status = "attesting" <=> \E t \in tasks' : o \in Range(t.records)
    <3>1. CASE o = n
      BY <1>2, <1>3, <1>4, <2>1, <2>2, <3>1
    <3>2. CASE o # n
      <4>1. o \in DOMAIN records /\ records'[o] = records[o]
        BY <1>2, <3>2
      <4>2. QED
        BY <1>1, <1>3, <4>1 DEF Agreement, TasksOwnRecords
    <3>3. QED
      BY <3>1, <3>2
  <2>4. QED
    BY <1>1, <1>3, <2>3 DEF Agreement, TasksOwnRecords
<1>8. QED
  BY <1>5, <1>6, <1>7 DEF Agreement

\* The list and the settlements agree after every step.
LEMMA AgreementStep ==
    ASSUME IInv, [Next]_vars
    PROVE  Agreement'
<1>1. TypesHold /\ Agreement
  BY DEF IInv, Agreement
<1>2. ASSUME UNCHANGED <<records, transfers, tasks>>, DOMAIN calls' = DOMAIN calls,
             \A i \in DOMAIN calls : calls'[i].deposits = calls[i].deposits
      PROVE  Agreement'
  <2>1. CallsPayTheirRecords'
    BY <1>1, <1>2, CallsPayKept DEF Agreement
  <2>2. ListedByDeposit' /\ TasksOwnRecords'
    BY <1>1, <1>2 DEF Agreement, ListedByDeposit, TasksOwnRecords
  <2>3. QED
    BY <2>1, <2>2 DEF Agreement
<1>3. CASE UNCHANGED <<calls, records, transfers, tasks>>
  BY <1>2, <1>3
<1>4. ASSUME NEW i \in DOMAIN calls, MineCall(i)
      PROVE  Agreement'
  <2>1. UNCHANGED <<records, transfers, tasks>>
    BY <1>4 DEF MineCall, memory
  <2>2. QED
    BY <1>1, <1>2, <1>4, <2>1, MineCallTypes
<1>5. CASE Restart
  <2>1. records' = <<>> /\ tasks' = {} /\ transfers' = [d \in Deposits |-> None]
    BY <1>5 DEF Restart
  <2>2. DOMAIN records' = {}
    BY <2>1
  <2>3. QED
    BY <2>1, <2>2
       DEF Agreement, ListedByDeposit, TasksOwnRecords, CallsPayTheirRecords
<1>6. ASSUME NEW t \in tasks, Confirm(t) \/ Fail(t)
      PROVE  Agreement'
  <2>1. /\ DOMAIN records' = DOMAIN records
        /\ \A o \in DOMAIN records : records'[o].deposit = records[o].deposit
        /\ \A o \in Range(t.records) : records'[o].status # "attesting"
        /\ \A o \in DOMAIN records \ Range(t.records) : records'[o] = records[o]
    <3>1. CASE Confirm(t)
      BY <3>1, ConfirmRewrites
    <3>2. CASE Fail(t)
      BY <3>2, FailRewrites
    <3>3. QED
      BY <1>6, <3>1, <3>2
  <2>2. tasks' = tasks \ {t} /\ UNCHANGED <<calls, transfers>>
    BY <1>6 DEF Confirm, Fail, chain
  <2>3. TasksOwnRecords'
    BY <1>1, <2>1, <2>2, EndedTask DEF Agreement
  <2>4. CallsPayTheirRecords'
    BY <1>1, <2>1, <2>2, CallsPayKept DEF Agreement
  <2>5. ListedByDeposit'
    BY <1>1, <2>1, <2>2, ListedKept DEF Agreement
  <2>6. QED
    BY <2>3, <2>4, <2>5 DEF Agreement
<1>7. CASE \E d \in Deposits : WalletDeposit(d) \/ ReleaseByOthers(d)
  BY <1>3, <1>7 DEF WalletDeposit, ReleaseByOthers, memory
<1>8. CASE \E d \in Deposits, queue \in BOOLEAN :
              PostDeposit(d, queue) \/ PostTrack(d, queue) \/ RequestFails(d, queue)
  BY <1>3, <1>8 DEF PostDeposit, PostTrack, RequestFails, chain
<1>9. CASE BackfillStep
  <2>1. CASE RestoreDeposit
    BY <2>1, RestoreDepositAgrees
  <2>2. CASE ~RestoreDeposit
    BY <1>1, <1>3, <1>9, <2>2, ScanTypes DEF BackfillStep
  <2>3. QED
    BY <2>1, <2>2
<1>10. CASE UNCHANGED vars
  BY <1>3, <1>10 DEF vars, chain, memory
<1>11. QED
  BY <1>4, <1>5, <1>6, <1>7, <1>8, <1>9, <1>10,
     StoreRecordAgrees, PostSettleBatchAgrees, SendCallAgrees
     DEF Next, ChainStep, RequestStep, TaskStep, RefuseBatch

-----------------------------------------------------------------------------
(* Every step keeps what is known of the chains                            *)

\* Nothing on the chains goes away.
LEMMA ChainsGrow ==
    ASSUME IInv, [Next]_vars
    PROVE  mined \subseteq mined' /\ Range(released) \subseteq Range(released')
<1>1. TypesHold
  BY DEF IInv
<1>2. ASSUME NEW d \in Deposits, ReleaseByOthers(d)
      PROVE  Range(released) \subseteq Range(released') /\ UNCHANGED mined
  <2> DEFINE event == [deposit |-> d, tx |-> None]
  <2>1. event \in Release /\ released \in Seq(Release)
    BY <1>1 DEF Release, None, TypesHold
  <2>2. released' = Append(released, event)
    BY <1>2 DEF ReleaseByOthers
  <2> HIDE DEF event
  <2>3. /\ DOMAIN released = 1 .. Len(released) /\ Len(released) \in Nat
        /\ DOMAIN released' = 1 .. Len(released) + 1
        /\ \A i \in 1 .. Len(released) : released'[i] = released[i]
    BY <2>1, <2>2, AppendElements
  <2>4. \A i \in DOMAIN released : i \in DOMAIN released' /\ released'[i] = released[i]
    BY <2>3
  <2>5. Range(released) \subseteq Range(released')
    BY <2>4 DEF Range
  <2>6. QED
    BY <1>2, <2>5 DEF ReleaseByOthers
<1>3. ASSUME NEW i \in DOMAIN calls, MineCall(i)
      PROVE  Range(released) \subseteq Range(released') /\ UNCHANGED mined
  BY <1>1, <1>3, MineCallTypes DEF MineCall
<1>4. CASE BackfillStep
  BY <1>1, <1>4, ScanTypes DEF BackfillStep, RestoreDeposit, chain
<1>5. QED
  BY <1>2, <1>3, <1>4
     DEF Next, ChainStep, RequestStep, TaskStep, RefuseBatch, Restart, WalletDeposit,
         PostDeposit, PostTrack, StoreRecord, RequestFails, PostSettleBatch, Mine,
         SendCall, Confirm, Fail, vars, chain, memory

\* Nothing leaves the list unless the process starts again.
LEMMA ListedStay ==
    ASSUME IInv, [Next]_vars
    PROVE  Restart \/ \A d \in Deposits : transfers[d] # None => transfers'[d] # None
<1>1. TypesHold
  BY DEF IInv
<1>2. transfers \in [Deposits -> {None} \cup DOMAIN records] /\ Len(records) \in Nat
  BY <1>1, LenProperties DEF TypesHold
<1>3. ASSUME NEW e, transfers' = [transfers EXCEPT ![e] = Len(records) + 1]
      PROVE  \A d \in Deposits : transfers[d] # None => transfers'[d] # None
  BY <1>2, <1>3 DEF None
<1>4. CASE RestoreDeposit
  BY <1>3, <1>4 DEF RestoreDeposit
<1>5. CASE BackfillStep /\ ~RestoreDeposit
  BY <1>1, <1>5, ScanTypes DEF BackfillStep
<1>6. ASSUME NEW d \in Deposits, NEW queue \in BOOLEAN, StoreRecord(d, queue)
      PROVE  \A e \in Deposits : transfers[e] # None => transfers'[e] # None
  BY <1>3, <1>6 DEF StoreRecord
<1>7. QED
  BY <1>4, <1>5, <1>6
     DEF Next, ChainStep, RequestStep, TaskStep, RefuseBatch, WalletDeposit, ReleaseByOthers,
         MineCall, PostDeposit, PostTrack, RequestFails, PostSettleBatch,
         SendCall, Confirm, Fail, vars, chain, memory

\* Every step keeps what is said of mined calls.
LEMMA MinedCallsReleasedStep ==
    ASSUME IInv, [Next]_vars
    PROVE  MinedCallsReleased'
<1>1. TypesHold /\ MinedCallsReleased
  BY DEF IInv
<1>2. Range(released) \subseteq Range(released')
  BY ChainsGrow
<1>3. CASE UNCHANGED calls
  BY <1>1, <1>2, <1>3 DEF MinedCallsReleased
<1>4. ASSUME NEW i \in DOMAIN calls, MineCall(i)
      PROVE  MinedCallsReleased'
  <2>1. /\ DOMAIN calls' = DOMAIN calls
        /\ \A j \in DOMAIN calls : calls'[j].deposits = calls[j].deposits
        /\ \A j \in DOMAIN calls : j # i => calls'[j] = calls[j]
        /\ calls'[i].state = "mined" =>
              \A d \in Range(calls[i].deposits) : [deposit |-> d, tx |-> i] \in Range(released')
    BY <1>1, <1>4, MineCallTypes
  <2>2. ASSUME NEW j \in DOMAIN calls', calls'[j].state = "mined",
               NEW d \in Range(calls'[j].deposits)
        PROVE  [deposit |-> d, tx |-> j] \in Range(released')
    <3>1. CASE j = i
      BY <2>1, <2>2, <3>1
    <3>2. CASE j # i
      BY <1>1, <1>2, <2>1, <2>2, <3>2 DEF MinedCallsReleased
    <3>3. QED
      BY <3>1, <3>2
  <2>3. QED
    BY <2>2 DEF MinedCallsReleased
<1>5. ASSUME NEW t \in tasks, SendCall(t)
      PROVE  MinedCallsReleased'
  <2>1. PICK entries \in ByHeight(Range(DepositsOf(t))) :
            calls' = Append(calls, [deposits |-> entries, state |-> "sent"])
    BY <1>5 DEF SendCall
  <2>2. /\ tasks' = (tasks \ {t}) \cup {[t EXCEPT !.call = Len(calls) + 1]}
        /\ UNCHANGED <<mined, released, records, transfers, requests, scan, restarts>>
    BY <1>5 DEF SendCall
  <2>3. entries \in Seq(Deposits)
    BY <1>1, DepositsOfTask, ByHeightIsDistinct
  <2>4. /\ DOMAIN calls = 1 .. Len(calls) /\ Len(calls) \in Nat
        /\ DOMAIN calls' = 1 .. Len(calls) + 1
        /\ \A i \in DOMAIN calls : calls'[i] = calls[i]
        /\ calls'[Len(calls) + 1] = [deposits |-> entries, state |-> "sent"]
    BY <1>1, <2>1, <2>2, <2>3, SendCallTypes
  <2>5. \A i \in DOMAIN calls' : calls'[i].state = "mined" => i \in DOMAIN calls
    BY <2>4
  <2>6. QED
    BY <1>1, <1>2, <2>4, <2>5 DEF MinedCallsReleased
<1>6. CASE BackfillStep
  BY <1>1, <1>3, <1>6, ScanTypes DEF BackfillStep, RestoreDeposit, chain
<1>7. QED
  BY <1>3, <1>4, <1>5, <1>6
     DEF Next, ChainStep, RequestStep, TaskStep, RefuseBatch, Restart, WalletDeposit,
         ReleaseByOthers, PostDeposit, PostTrack, StoreRecord, RequestFails,
         PostSettleBatch, Confirm, Fail, vars, chain, memory

\* Every step keeps what is said of the releases a scan has read.
LEMMA ScannedReleasesStep ==
    ASSUME IInv, [Next]_vars
    PROVE  ScannedReleasesAreTrue'
<1>1. TypesHold /\ ScannedReleasesAreTrue /\ scan \in Scan
  BY DEF IInv, TypesHold
<1>2. Range(released) \subseteq Range(released')
  BY ChainsGrow
<1>3. CASE scan'.releases = scan.releases
  BY <1>1, <1>2, <1>3 DEF ScannedReleasesAreTrue
<1>4. CASE scan'.releases = <<>>
  <2>1. Range(scan'.releases) = {}
    BY <1>4 DEF Range
  <2>2. QED
    BY <2>1 DEF ScannedReleasesAreTrue
<1>5. CASE ReadPayoutHead
  <2>1. scan' = [scan EXCEPT !.releases = released, !.payoutRead = TRUE] /\ released' = released
    BY <1>5 DEF ReadPayoutHead, chain
  <2>2. scan'.releases = released'
    BY <1>1, <2>1 DEF Scan
  <2>3. QED
    BY <2>2 DEF ScannedReleasesAreTrue
<1>6. CASE ReadSourceHead
  <2>1. PICK found \in SUBSET (mined \cap Home) : \E logs \in ByHeight(found) :
            scan' = [scan EXCEPT !.deposits = logs, !.sourceRead = TRUE]
    BY <1>6 DEF ReadSourceHead
  <2>2. scan'.releases = scan.releases
    BY <1>1, <2>1 DEF Scan
  <2>3. QED
    BY <1>3, <2>2
<1>7. CASE CheckCount \/ VisitDeposit \/ RestoreDeposit
  <2>1. \/ \E b : scan' = [scan EXCEPT !.pc = "loop", !.historyComplete = b]
        \/ scan' = [scan EXCEPT !.deposits = Tail(@)]
        \/ scan' = [scan EXCEPT !.pc = "block"]
        \/ scan' = [scan EXCEPT !.pc = "loop", !.deposits = Tail(@)]
    BY <1>7 DEF CheckCount, VisitDeposit, RestoreDeposit
  <2>2. scan'.releases = scan.releases
    BY <1>1, <2>1 DEF Scan
  <2>3. QED
    BY <1>3, <2>2
<1>8. CASE BackfillDone \/ BackfillThrows
  <2>1. scan'.releases = <<>>
    BY <1>1, <1>8 DEF BackfillDone, BackfillThrows, Scan
  <2>2. QED
    BY <1>4, <2>1
<1>9. CASE Restart
  <2>1. scan'.releases = <<>>
    BY <1>9 DEF Restart, NewScan
  <2>2. QED
    BY <1>4, <2>1
<1>10. CASE UNCHANGED scan
  BY <1>3, <1>10
<1>11. QED
  BY <1>5, <1>6, <1>7, <1>8, <1>9, <1>10
     DEF Next, ChainStep, RequestStep, TaskStep, RefuseBatch, WalletDeposit, BackfillStep,
         ReleaseByOthers, MineCall, PostDeposit, PostTrack, StoreRecord, RequestFails,
         PostSettleBatch, SendCall, Confirm, Fail, vars, chain, memory

\* Every step keeps what is said of the deposits a scan has read.
LEMMA ScanCoversHistoryStep ==
    ASSUME IInv, [Next]_vars
    PROVE  ScanCoversHistory'
<1>1. TypesHold /\ ScanCoversHistory /\ scan \in Scan /\ scan.deposits \in Seq(Deposits)
  BY DEF IInv, TypesHold, Scan
<1>2. mined \cap Home \subseteq mined' \cap Home
  BY ChainsGrow
<1>3. Restart \/ \A d \in Deposits : transfers[d] # None => transfers'[d] # None
  BY ListedStay
<1>4. scan.history \subseteq Deposits
  BY <1>1 DEF Scan
<1>5. CASE UNCHANGED scan /\ ~Restart
  BY <1>1, <1>2, <1>3, <1>4, <1>5 DEF ScanCoversHistory
<1>6. CASE Restart
  <2>1. scan' = NewScan /\ mined' = mined
    BY <1>6 DEF Restart, chain
  <2>2. /\ scan'.history = mined \cap Home /\ scan'.deposits = <<>> /\ scan'.pc = "heads"
    BY <2>1 DEF NewScan
  <2>3. IsInjective(<<>>) /\ Range(<<>>) = {}
    BY DEF IsInjective, Range
  <2>4. QED
    BY <2>1, <2>2, <2>3 DEF ScanCoversHistory
<1>7. CASE ReadSourceHead
  <2>1. PICK found \in SUBSET (mined \cap Home) : \E logs \in ByHeight(found) :
            scan' = [scan EXCEPT !.deposits = logs, !.sourceRead = TRUE]
    BY <1>7 DEF ReadSourceHead
  <2>2. PICK logs \in ByHeight(found) :
            scan' = [scan EXCEPT !.deposits = logs, !.sourceRead = TRUE]
    BY <2>1
  <2>3. IsInjective(logs) /\ Range(logs) = found
    BY <1>1, ByHeightIsDistinct DEF TypesHold
  <2>4. /\ scan'.deposits = logs /\ scan'.history = scan.history
        /\ scan'.pc = "heads" /\ mined' = mined
    BY <1>1, <1>7, <2>2 DEF Scan, ReadSourceHead, chain
  <2>5. QED
    BY <1>1, <2>3, <2>4 DEF ScanCoversHistory
<1>8. CASE ReadPayoutHead
  <2>1. /\ scan'.deposits = scan.deposits /\ scan'.history = scan.history
        /\ scan'.pc = "heads" /\ mined' = mined
    BY <1>1, <1>8 DEF Scan, ReadPayoutHead, chain
  <2>2. QED
    BY <1>1, <2>1 DEF ScanCoversHistory
<1>9. CASE CheckCount
  <2>1. /\ scan'.deposits = scan.deposits /\ scan'.history = scan.history
        /\ scan'.pc = "loop" /\ scan'.historyComplete = ~ScanFellShort
        /\ mined' = mined
    BY <1>1, <1>9 DEF Scan, CheckCount, chain
  <2>2. ~ScanFellShort => Range(scan.deposits) = mined \cap Home
    <3>1. IsFiniteSet(mined \cap Home)
      BY <1>1, DepositsAssumption, FS_Subset DEF TypesHold
    <3>2. /\ Cardinality(Range(scan.deposits)) = Len(scan.deposits)
          /\ Range(scan.deposits) \in SUBSET (mined \cap Home)
      BY <1>1, LengthOfDistinct DEF ScanCoversHistory
    <3>3. /\ Cardinality(Range(scan.deposits)) <= Cardinality(mined \cap Home)
          /\ Cardinality(Range(scan.deposits)) = Cardinality(mined \cap Home) =>
                Range(scan.deposits) = mined \cap Home
      BY <3>1, <3>2, FS_Subset
    <3>4. Cardinality(mined \cap Home) \in Nat /\ Len(scan.deposits) \in Nat
      BY <1>1, <3>1, FS_CardinalityType, LenProperties
    <3>5. QED
      BY <3>2, <3>3, <3>4 DEF ScanFellShort
  <2>3. QED
    BY <1>1, <2>1, <2>2 DEF ScanCoversHistory
<1>10. ASSUME scan.deposits # <<>>
       PROVE  /\ Head(scan.deposits) \in Range(scan.deposits)
              /\ Range(Tail(scan.deposits)) = Range(scan.deposits) \ {Head(scan.deposits)}
              /\ IsInjective(Tail(scan.deposits))
  BY <1>1, <1>10, HeadAndRest DEF ScanCoversHistory
<1>11. CASE VisitDeposit
  <2>1. scan.deposits # <<>> /\ scan.pc = "loop" /\ mined' = mined /\ transfers' = transfers
    BY <1>11 DEF VisitDeposit, chain
  <2>2. CASE transfers[Head(scan.deposits)] # None
    <3>1. /\ scan'.deposits = Tail(scan.deposits) /\ scan'.history = scan.history
          /\ scan'.pc = "loop" /\ scan'.historyComplete = scan.historyComplete
      BY <1>1, <1>11, <2>1, <2>2 DEF Scan, VisitDeposit
    <3>2. QED
      BY <1>1, <1>10, <2>1, <2>2, <3>1 DEF ScanCoversHistory
  <2>3. CASE transfers[Head(scan.deposits)] = None
    <3>1. /\ scan'.deposits = scan.deposits /\ scan'.history = scan.history
          /\ scan'.pc = "block" /\ scan'.historyComplete = scan.historyComplete
      BY <1>1, <1>11, <2>1, <2>3 DEF Scan, VisitDeposit
    <3>2. QED
      BY <1>1, <2>1, <3>1 DEF ScanCoversHistory
  <2>4. QED
    BY <2>2, <2>3
<1>12. CASE RestoreDeposit
  <2> DEFINE d == Head(scan.deposits)
  <2>1. /\ scan.pc = "block" /\ scan.deposits # <<>> /\ mined' = mined
        /\ transfers' = [transfers EXCEPT ![d] = Len(records) + 1]
        /\ scan' = [scan EXCEPT !.pc = "loop", !.deposits = Tail(@)]
    BY <1>1, <1>12 DEF RestoreDeposit, ScanCoversHistory, chain
  <2>2. /\ scan'.deposits = Tail(scan.deposits) /\ scan'.history = scan.history
        /\ scan'.pc = "loop" /\ scan'.historyComplete = scan.historyComplete
    BY <1>1, <2>1 DEF Scan
  <2>3. d \in Range(scan.deposits) /\ Range(scan.deposits) \subseteq Deposits
    BY <1>1, <1>10, <2>1, SeqElements
  <2>4. /\ transfers'[d] # None
        /\ \A e \in Deposits : transfers[e] # None => transfers'[e] # None
    <3>1. transfers \in [Deposits -> {None} \cup DOMAIN records] /\ Len(records) \in Nat
      BY <1>1, LenProperties DEF TypesHold
    <3> HIDE DEF d
    <3>2. QED
      BY <2>1, <2>3, <3>1 DEF None
  <2> HIDE DEF d
  <2>5. \A e \in scan.history : e = d \/ e \in Deposits
    BY <1>4
  <2>6. Range(Tail(scan.deposits)) = Range(scan.deposits) \ {d} /\ IsInjective(Tail(scan.deposits))
    BY <1>10, <2>1 DEF d
  <2>7. QED
    BY <1>1, <2>1, <2>2, <2>4, <2>5, <2>6 DEF ScanCoversHistory
<1>13. CASE BackfillDone
  <2>1. /\ scan'.deposits = scan.deposits /\ scan'.history = scan.history
        /\ scan'.pc = "done" /\ scan'.historyComplete = scan.historyComplete
        /\ mined' = mined /\ transfers' = transfers /\ scan.deposits = <<>> /\ scan.pc = "loop"
    BY <1>1, <1>13 DEF Scan, BackfillDone, chain
  <2>2. Range(scan.deposits) = {}
    BY <2>1 DEF Range
  <2>3. QED
    BY <1>1, <2>1, <2>2 DEF ScanCoversHistory
<1>14. CASE BackfillThrows
  <2>1. /\ scan'.deposits = <<>> /\ scan'.history = scan.history
        /\ scan'.pc = "threw" /\ mined' = mined
    BY <1>1, <1>14 DEF Scan, BackfillThrows, chain
  <2>2. IsInjective(<<>>) /\ Range(<<>>) = {}
    BY DEF IsInjective, Range
  <2>3. QED
    BY <1>1, <2>1, <2>2 DEF ScanCoversHistory
<1>15. CASE ~Restart /\ ~BackfillStep
  <2>1. UNCHANGED scan
    BY <1>15
       DEF Next, ChainStep, RequestStep, TaskStep, RefuseBatch, WalletDeposit,
           ReleaseByOthers, MineCall, PostDeposit, PostTrack, StoreRecord, RequestFails,
           PostSettleBatch, SendCall, Confirm, Fail, vars, chain, memory
  <2>2. QED
    BY <1>5, <1>15, <2>1
<1>16. QED
  BY <1>6, <1>7, <1>8, <1>9, <1>11, <1>12, <1>13, <1>14, <1>15 DEF BackfillStep

-----------------------------------------------------------------------------
(* The invariant                                                           *)

\* The invariant holds when the chains start.
LEMMA InvariantInit ==
    ASSUME Init
    PROVE  IInv
<1>1. /\ mined = {} /\ released = <<>> /\ calls = <<>> /\ records = <<>>
      /\ transfers = [d \in Deposits |-> None] /\ requests = [r \in Inputs |-> 0]
      /\ tasks = {} /\ scan = NewScan /\ restarts = 0
  BY DEF Init
<1>2. /\ <<>> \in Seq(Release) /\ <<>> \in Seq(Call) /\ <<>> \in Seq(Record)
      /\ <<>> \in Seq(Deposits)
  BY EmptySeq
<1>3. /\ scan.history = {} /\ scan.deposits = <<>> /\ scan.releases = <<>>
      /\ scan.pc = "heads"
  BY <1>1 DEF NewScan
<1>4. TypesHold
  <2>1. scan \in Scan
    BY <1>1, <1>2 DEF NewScan, Scan
  <2>2. QED
    BY <1>1, <1>2, <2>1 DEF TypesHold
<1>5. DOMAIN records = {} /\ DOMAIN calls = {} /\ Range(<<>>) = {} /\ IsInjective(<<>>)
  BY <1>1 DEF Range, IsInjective
<1>6. ListedByDeposit /\ TasksOwnRecords /\ CallsPayTheirRecords /\ MinedCallsReleased
  BY <1>1, <1>5
     DEF ListedByDeposit, TasksOwnRecords, CallsPayTheirRecords, MinedCallsReleased
<1>7. ScannedReleasesAreTrue /\ ScanCoversHistory
  BY <1>3, <1>5 DEF ScannedReleasesAreTrue, ScanCoversHistory
<1>8. QED
  BY <1>4, <1>6, <1>7 DEF IInv

\* Every step keeps the invariant.
LEMMA InvariantStep ==
    ASSUME IInv, [Next]_vars
    PROVE  IInv'
<1>1. TypesHold'
  BY TypesStep
<1>2. Agreement'
  BY AgreementStep
<1>3. MinedCallsReleased' /\ ScannedReleasesAreTrue' /\ ScanCoversHistory'
  BY MinedCallsReleasedStep, ScannedReleasesStep, ScanCoversHistoryStep
<1>4. QED
  BY <1>1, <1>2, <1>3 DEF IInv, Agreement

\* The inductive invariant holds of every state of the server.
THEOREM Invariant == Spec => []IInv
<1>1. Init => IInv
  BY InvariantInit
<1>2. IInv /\ [Next]_vars => IInv'
  BY InvariantStep
<1>3. QED
  BY <1>1, <1>2, PTL DEF Spec


-----------------------------------------------------------------------------
(* One settlement per record, one record per event, a count that tells     *)

\* OneSettlementPerRecord: no two settlements, batches or retries ever work on one
\* record, and a record is attesting exactly while one does.
THEOREM OneSettlement == Spec => []OneSettlementPerRecord
<1>1. IInv => OneSettlementPerRecord
  <2>1. SUFFICES ASSUME IInv, NEW o \in DOMAIN records
                 PROVE  Cardinality({t \in tasks : o \in Range(t.records)}) =
                            IF records[o].status = "attesting" THEN 1 ELSE 0
    BY DEF OneSettlementPerRecord
  <2> DEFINE owners == {t \in tasks : o \in Range(t.records)}
  <2>2. CASE records[o].status = "attesting"
    <3>1. PICK t \in tasks : o \in Range(t.records)
      BY <2>1, <2>2 DEF IInv, TasksOwnRecords
    <3>2. owners = {t}
      BY <2>1, <3>1 DEF IInv, TasksOwnRecords
    <3>3. Cardinality({t}) = 1
      BY FS_Singleton
    <3>4. QED
      BY <2>2, <3>2, <3>3
  <2>3. CASE records[o].status # "attesting"
    <3>1. owners = {}
      BY <2>1, <2>3 DEF IInv, TasksOwnRecords
    <3>2. QED
      BY <2>3, <3>1, FS_EmptySet
  <2>4. QED
    BY <2>2, <2>3
<1>2. QED
  BY <1>1, Invariant, PTL

\* EventsMapOneToOne: the events of a settlement's transaction are matched to its
\* records one to one, each to a record of its receiver and amount.
THEOREM EventsMap == Spec => []EventsMapOneToOne
<1>1. IInv => EventsMapOneToOne
  BY MatchIsOneToOne DEF EventsMapOneToOne
<1>2. QED
  BY <1>1, Invariant, PTL

\* CountCatchesPruning: a list that claims to be complete has every deposit that was
\* there when the process started.
THEOREM CountCatches == Spec => []CountCatchesPruning
<1>1. IInv => CountCatchesPruning
  BY DEF IInv, ScanCoversHistory, CountCatchesPruning
<1>2. QED
  BY <1>1, Invariant, PTL

-----------------------------------------------------------------------------
(* What is released                                                        *)

\* In a step that is no restart, a released record stays as it is; and a record gets
\* released when its settlement confirms it or the backfill restores it so.
ReleasedKept ==
    /\ DOMAIN records \subseteq DOMAIN records'
    /\ \A o \in DOMAIN records : records[o].status = "released" => records'[o] = records[o]
    /\ \A o \in DOMAIN records' :
          records'[o].status = "released" =>
              \/ o \in DOMAIN records /\ records'[o] = records[o]
              \/ \E t \in tasks : Confirm(t) /\ o \in Range(t.records)
              \/ RestoreDeposit /\ o = Len(records) + 1

\* A step that is no restart keeps what is released.
LEMMA ReleasedStep ==
    ASSUME IInv, [Next]_vars
    PROVE  Restart \/ ReleasedKept
<1>1. TypesHold /\ TasksOwnRecords
  BY DEF IInv
<1>2. CASE UNCHANGED records
  BY <1>2 DEF ReleasedKept
<1>3. ASSUME NEW ids \in Batches, PostSettleBatch(ids)
      PROVE  ReleasedKept
  <2> DEFINE objects == [i \in DOMAIN ids |-> transfers[ids[i]]]
  <2>1. records' = [o \in DOMAIN records |->
                       IF o \in Range(objects)
                       THEN [records[o] EXCEPT !.status = "attesting"]
                       ELSE records[o]]
    BY <1>3 DEF PostSettleBatch
  <2>2. \A o \in Range(objects) : records[o].status # "released"
    BY <1>3 DEF Range, PostSettleBatch, Settleable
  <2>3. \A o \in DOMAIN records : records[o] \in Record
    BY <1>1, SeqElements DEF TypesHold
  <2> HIDE DEF objects
  <2>4. \A o \in DOMAIN records : o \in Range(objects) => records'[o].status = "attesting"
    BY <2>1, <2>3 DEF Record
  <2>5. DOMAIN records' = DOMAIN records
    BY <2>1
  <2>6. \A o \in DOMAIN records : o \notin Range(objects) => records'[o] = records[o]
    BY <2>1
  <2>7. QED
    BY <2>2, <2>4, <2>5, <2>6 DEF ReleasedKept
<1>4. ASSUME NEW d \in Deposits, NEW queue \in BOOLEAN, StoreRecord(d, queue)
      PROVE  ReleasedKept
  <2> DEFINE r == NewRecord(d, FirstStatus(queue))
  <2>1. /\ records' = Append(records, r)
        /\ transfers' = [transfers EXCEPT ![d] = Len(records) + 1]
    BY <1>4 DEF StoreRecord
  <2>2. r \in Record /\ r.status # "released"
    BY DEF NewRecord, FirstStatus, Record, Statuses, None
  <2> HIDE DEF r
  <2>3. /\ DOMAIN records = 1 .. Len(records) /\ Len(records) \in Nat
        /\ DOMAIN records' = 1 .. Len(records) + 1
        /\ \A o \in DOMAIN records : records'[o] = records[o]
        /\ records'[Len(records) + 1] = r
    BY <1>1, <2>1, <2>2, AddedRecordTypes
  <2>4. QED
    BY <2>2, <2>3 DEF ReleasedKept
<1>5. ASSUME NEW t \in tasks, Confirm(t)
      PROVE  ReleasedKept
  <2>1. /\ DOMAIN records' = DOMAIN records
        /\ \A o \in DOMAIN records \ Range(t.records) : records'[o] = records[o]
    BY <1>5, ConfirmRewrites
  <2>2. \A o \in DOMAIN records : o \in Range(t.records) => records[o].status # "released"
    BY <1>1 DEF TasksOwnRecords
  <2>3. QED
    BY <1>5, <2>1, <2>2 DEF ReleasedKept
<1>6. ASSUME NEW t \in tasks, Fail(t)
      PROVE  ReleasedKept
  <2>1. /\ DOMAIN records' = DOMAIN records
        /\ \A o \in Range(t.records) : records'[o].status = "failed"
        /\ \A o \in DOMAIN records \ Range(t.records) : records'[o] = records[o]
    BY <1>6, FailRewrites
  <2>2. \A o \in DOMAIN records : o \in Range(t.records) => records[o].status # "released"
    BY <1>1 DEF TasksOwnRecords
  <2>3. QED
    BY <2>1, <2>2 DEF ReleasedKept
<1>7. CASE RestoreDeposit
  <2>1. /\ DOMAIN records = 1 .. Len(records) /\ Len(records) \in Nat
        /\ DOMAIN records' = 1 .. Len(records) + 1
        /\ \A o \in DOMAIN records : records'[o] = records[o]
    BY <1>7, RestoreDepositTypes DEF IInv
  <2>2. QED
    BY <1>7, <2>1 DEF ReleasedKept
<1>8. CASE BackfillStep /\ ~RestoreDeposit
  BY <1>1, <1>2, <1>8, ScanTypes DEF BackfillStep
<1>9. QED
  BY <1>2, <1>3, <1>4, <1>5, <1>6, <1>7, <1>8
     DEF Next, ChainStep, RequestStep, TaskStep, RefuseBatch, WalletDeposit, ReleaseByOthers,
         MineCall, PostDeposit, PostTrack, RequestFails, SendCall, vars, chain, memory

\* ReleasedIsFinal: no step but a restart takes a record back from released, or changes
\* what it says of the payout.
THEOREM ReleasedFinal == Spec => ReleasedIsFinal
<1>1. ASSUME IInv, [Next]_vars
      PROVE  [\A o \in DOMAIN records \cap DOMAIN records' :
                 records[o].status = "released" /\ restarts' = restarts
                     => records'[o] = records[o]]_vars
  <2>1. Restart => restarts' # restarts
    BY <1>1 DEF Restart, IInv, TypesHold
  <2>2. QED
    BY <1>1, <2>1, ReleasedStep DEF ReleasedKept
<1>2. QED
  BY <1>1, Invariant, PTL DEF Spec, ReleasedIsFinal

\* A transaction has released a deposit.
HasEvent(e, tx) == [deposit |-> e, tx |-> tx] \in Range(released)

\* What the backfill takes for the same deposit.
TakenFor(e, d) ==
    e = d \/ (e \notin Home /\ Receiver[e] = Receiver[d] /\ DepositId[e] = DepositId[d])

\* A record names a transaction that released its deposit and paid what it says.
PaidAsNamed(o) ==
    /\ \E e \in Deposits :
          HasEvent(e, records[o].releaseTx) /\ TakenFor(e, records[o].deposit)
    /\ \E e \in Deposits :
          /\ HasEvent(e, records[o].releaseTx)
          /\ Receiver[e] = Receiver[records[o].deposit]
          /\ Payout[e] = records[o].paid

\* Every step keeps that released records name their transaction and payout.
LEMMA ReleasedTrueStep ==
    ASSUME IInv, [Next]_vars,
           \A o \in DOMAIN records : records[o].status = "released" => PaidAsNamed(o)
    PROVE  \A o \in DOMAIN records' : records'[o].status = "released" => PaidAsNamed(o)'
<1>1. TypesHold /\ MinedCallsReleased /\ ScannedReleasesAreTrue /\ ScanCoversHistory
  BY DEF IInv
<1>2. Range(released) \subseteq Range(released')
  BY ChainsGrow
<1>3. CASE Restart
  <2>1. DOMAIN records' = {}
    BY <1>3 DEF Restart
  <2>2. QED
    BY <2>1
<1>4. CASE ReleasedKept
  <2>1. SUFFICES ASSUME NEW o \in DOMAIN records', records'[o].status = "released"
                 PROVE  PaidAsNamed(o)'
    OBVIOUS
  <2>2. ASSUME NEW r, r = records'[o],
               NEW e \in Deposits, HasEvent(e, r.releaseTx), TakenFor(e, r.deposit),
               NEW f \in Deposits, HasEvent(f, r.releaseTx),
               Receiver[f] = Receiver[r.deposit], Payout[f] = r.paid
        PROVE  PaidAsNamed(o)'
    BY <1>2, <2>2 DEF PaidAsNamed, HasEvent
  <2>3. CASE o \in DOMAIN records /\ records'[o] = records[o]
    <3>1. PaidAsNamed(o)
      BY <2>1, <2>3
    <3>2. QED
      BY <2>2, <2>3, <3>1 DEF PaidAsNamed
  <2>4. ASSUME NEW t \in tasks, Confirm(t), o \in Range(t.records)
        PROVE  PaidAsNamed(o)'
    <3>1. t.call # None /\ calls[t.call].state = "mined"
      BY <2>4 DEF Confirm, Succeeded
    <3>2. /\ t.call \in DOMAIN calls /\ o \in DOMAIN records
          /\ \A e \in Range(calls[t.call].deposits) : e \in Deposits
      <4>1. t.call \in DOMAIN calls /\ calls[t.call].deposits \in Seq(Deposits)
        BY <1>1, <3>1, TaskCall
      <4>2. \A e \in Range(calls[t.call].deposits) : e \in Deposits
        BY <4>1, SeqElements
      <4>3. QED
        BY <1>1, <2>4, <4>1, <4>2, TaskObjects
    <3>3. /\ records'[o].releaseTx = t.call
          /\ records'[o].deposit = records[o].deposit
          /\ \E e \in Range(calls[t.call].deposits) :
                 Receiver[e] = Receiver[records[o].deposit] /\ records'[o].paid = Payout[e]
      BY <2>4, <3>2, ConfirmRewrites
    <3>4. records[o].deposit \in Range(calls[t.call].deposits)
      <4>1. records[o].deposit \in Range(DepositsOf(t))
        BY <1>1, <2>4, DepositsOfTask
      <4>2. QED
        BY <3>1, <4>1 DEF IInv, CallsPayTheirRecords
    <3>5. \A e \in Range(calls[t.call].deposits) : HasEvent(e, t.call)
      BY <1>1, <3>1, <3>2 DEF MinedCallsReleased, HasEvent
    <3>6. TakenFor(records[o].deposit, records[o].deposit)
      BY DEF TakenFor
    <3>7. QED
      BY <2>2, <3>2, <3>3, <3>4, <3>5, <3>6
  <2>5. CASE RestoreDeposit /\ o = Len(records) + 1
    <3> DEFINE d == Head(scan.deposits)
    <3>1. d \in Deposits /\ records'[o] = RestoredRecord(d)
      BY <1>1, <2>5, RestoreDepositTypes
    <3>2. d \in Home
      <4>1. scan.deposits \in Seq(Deposits) /\ scan.deposits # <<>>
        BY <1>1, <2>5 DEF TypesHold, Scan, ScanCoversHistory, RestoreDeposit
      <4>2. d \in Range(scan.deposits)
        BY <1>1, <4>1, HeadAndRest DEF ScanCoversHistory
      <4>3. QED
        BY <1>1, <4>2 DEF ScanCoversHistory
    <3> HIDE DEF d
    <3>3. RestoredRecord(d).deposit = d
      BY <1>1, <3>1, RestoredRecordType
    <3>4. PICK i \in KeyMatches(d) :
              /\ RestoredRecord(d).releaseTx = scan.releases[i].tx
              /\ RestoredRecord(d).paid = Payout[scan.releases[i].deposit]
      BY <1>1, <2>1, <3>1, RestoredRecordType
    <3>5. scan.releases[i] \in Range(scan.releases) /\ scan.releases[i] \in Release
      <4>1. scan.releases \in Seq(Release) /\ i \in DOMAIN scan.releases
        BY <1>1 DEF TypesHold, Scan, KeyMatches
      <4>2. QED
        BY <4>1, SeqElements DEF Range
    <3>6. PICK e \in Deposits : e = scan.releases[i].deposit
      BY <3>5 DEF Release
    <3>7. Receiver[e] = Receiver[d] /\ DepositId[e] = DepositId[d]
      BY <3>6 DEF KeyMatches
    <3>8. TakenFor(e, d)
      BY <3>2, <3>7, DepositsAssumption DEF TakenFor
    <3>9. HasEvent(e, scan.releases[i].tx)
      <4>1. scan.releases[i] = [deposit |-> e, tx |-> scan.releases[i].tx]
        BY <3>5, <3>6 DEF Release
      <4>2. QED
        BY <1>1, <3>5, <4>1 DEF ScannedReleasesAreTrue, HasEvent
    <3>10. QED
      BY <2>2, <3>1, <3>3, <3>4, <3>6, <3>7, <3>8, <3>9
  <2>6. QED
    BY <1>4, <2>1, <2>3, <2>4, <2>5 DEF ReleasedKept
<1>5. QED
  BY <1>3, <1>4, ReleasedStep

\* ReleasedIsTrue: what the list calls released has been paid, by the transaction it
\* names and as much as it says; where the backfill takes a deposit of another corridor
\* for it, that one has been.
THEOREM ReleasedTrue == Spec => []ReleasedIsTrue
<1> DEFINE True == \A o \in DOMAIN records : records[o].status = "released" => PaidAsNamed(o)
<1>1. Init => IInv /\ True
  <2>1. Init => DOMAIN records = {}
    BY DEF Init
  <2>2. QED
    BY <2>1, InvariantInit
<1>2. IInv /\ True /\ [Next]_vars => IInv' /\ True'
  BY InvariantStep, ReleasedTrueStep
<1>3. True => ReleasedIsTrue
  <2>1. SUFFICES ASSUME True, NEW o \in DOMAIN records, records[o].status = "released"
                 PROVE  LET d == records[o].deposit
                            ofTx == {i \in DOMAIN released : released[i].tx = records[o].releaseTx}
                            deposits == {released[i].deposit : i \in ofTx}
                        IN  /\ \E e \in deposits : TakenFor(e, d)
                            /\ \E e \in deposits :
                                  Receiver[e] = Receiver[d] /\ Payout[e] = records[o].paid
    BY DEF ReleasedIsTrue, TakenFor
  <2> DEFINE ofTx == {i \in DOMAIN released : released[i].tx = records[o].releaseTx}
             deposits == {released[i].deposit : i \in ofTx}
  <2>2. \A e \in Deposits : HasEvent(e, records[o].releaseTx) => e \in deposits
    BY DEF HasEvent, Range
  <2>3. PaidAsNamed(o)
    BY <2>1
  <2> HIDE DEF deposits
  <2>4. /\ \E e \in deposits : TakenFor(e, records[o].deposit)
        /\ \E e \in deposits :
              Receiver[e] = Receiver[records[o].deposit] /\ Payout[e] = records[o].paid
    BY <2>2, <2>3 DEF PaidAsNamed
  <2>5. QED
    BY <2>4 DEF deposits
<1> HIDE DEF True
<1>4. Spec => [](IInv /\ True)
  BY <1>1, <1>2, PTL DEF Spec
<1>5. QED
  BY <1>3, <1>4, PTL

-----------------------------------------------------------------------------
(* The list that is shown                                                  *)

\* What the mapping puts for the variables of TransferListings.
ShownList == [d \in Deposits |-> StatusOf(d)]
ShownRequests == [d \in Deposits |-> RequestsOf(d)]
Visited == IF scan.pc = "block" THEN {Head(scan.deposits)} ELSE {}
ShownSettlements == {ListedOf(t) : t \in tasks} \ {{}}

\* A listed deposit is mined.
ListedAreMined == \A d \in Deposits : transfers[d] # None => d \in mined

LEMMA ListedAreMinedStep ==
    ASSUME IInv, ListedAreMined, [Next]_vars
    PROVE  ListedAreMined'
<1>1. TypesHold /\ ScanCoversHistory /\ mined \subseteq mined'
  BY ChainsGrow DEF IInv
<1>2. transfers \in [Deposits -> {None} \cup DOMAIN records]
  BY <1>1 DEF TypesHold
<1>3. ASSUME NEW e, NEW n, e \in mined, transfers' = [transfers EXCEPT ![e] = n]
      PROVE  ListedAreMined'
  BY <1>1, <1>2, <1>3 DEF ListedAreMined
<1>4. CASE RestoreDeposit
  <2>1. scan.deposits \in Seq(Deposits) /\ scan.deposits # <<>>
    BY <1>1, <1>4 DEF TypesHold, Scan, ScanCoversHistory, RestoreDeposit
  <2>2. Head(scan.deposits) \in Range(scan.deposits)
    BY <1>1, <2>1, HeadAndRest DEF ScanCoversHistory
  <2>3. Head(scan.deposits) \in mined
    BY <1>1, <2>2 DEF ScanCoversHistory
  <2>4. QED
    BY <1>3, <1>4, <2>3 DEF RestoreDeposit
<1>5. ASSUME NEW d \in Deposits, NEW queue \in BOOLEAN, StoreRecord(d, queue)
      PROVE  ListedAreMined'
  BY <1>3, <1>5 DEF StoreRecord
<1>6. CASE Restart
  BY <1>6 DEF Restart, ListedAreMined
<1>7. CASE UNCHANGED transfers
  BY <1>1, <1>7 DEF ListedAreMined
<1>8. CASE BackfillStep /\ ~RestoreDeposit
  BY <1>1, <1>7, <1>8, ScanTypes DEF BackfillStep
<1>9. QED
  BY <1>4, <1>5, <1>6, <1>7, <1>8
     DEF Next, ChainStep, RequestStep, TaskStep, RefuseBatch, WalletDeposit, ReleaseByOthers,
         MineCall, PostDeposit, PostTrack, RequestFails, PostSettleBatch,
         SendCall, Confirm, Fail, vars, chain, memory

\* The transfers S, and no others, have taken a status.
Take(S, status) ==
    \A d \in Deposits : StatusOf(d)' = IF d \in S THEN status ELSE StatusOf(d)

\* A transfer that takes a status becomes it in the list.
LEMMA TakeIsBecomes ==
    ASSUME NEW S, NEW status, Take(S, status)
    PROVE  Shown!Becomes(S, status)
  BY DEF Take, Shown!Becomes

\* What each part of the mapping depends on.
LEMMA SameList ==
    ASSUME UNCHANGED <<records, transfers>>
    PROVE  ShownList' = ShownList
  BY DEF ShownList, StatusOf

LEMMA SameRequests ==
    ASSUME requests' = requests
    PROVE  ShownRequests' = ShownRequests
  BY DEF ShownRequests, RequestsOf

LEMMA SameSettlements ==
    ASSUME UNCHANGED <<tasks, transfers>>
    PROVE  ShownSettlements' = ShownSettlements
  BY DEF ShownSettlements, ListedOf

\* A listed transfer has a record, and one of its own.
LEMMA RecordOfListed ==
    ASSUME IInv
    PROVE  /\ transfers \in [Deposits -> {None} \cup DOMAIN records]
           /\ None \notin DOMAIN records
           /\ \A d, e \in Deposits : transfers[d] # None /\ transfers[d] = transfers[e] => d = e
<1>1. transfers \in [Deposits -> {None} \cup DOMAIN records] /\ DOMAIN records = 1 .. Len(records)
  BY LenProperties DEF IInv, TypesHold
<1>2. \A d \in Deposits : transfers[d] # None => records[transfers[d]].deposit = d
  BY DEF IInv, ListedByDeposit
<1>3. QED
  BY <1>1, <1>2 DEF None

\* A request that begins, or ends, changes the count of its deposit by one.
LEMMA RequestsCount ==
    ASSUME IInv, NEW d \in Deposits, NEW queue \in BOOLEAN, NEW k \in {1, -1},
           requests' = [requests EXCEPT ![<<d, queue>>] = @ + k]
    PROVE  /\ ShownRequests' = [ShownRequests EXCEPT ![d] = @ + k]
           /\ requests[<<d, queue>>] > 0 => ShownRequests[d] > 0
<1>1. requests \in [Inputs -> Nat]
  BY DEF IInv, TypesHold
<1>2. \A e \in Deposits : \A b \in BOOLEAN : <<e, b>> \in Inputs
  BY DEF Inputs
<1>3. \A e \in Deposits : \A b \in BOOLEAN :
          /\ requests[<<e, b>>] \in Nat
          /\ requests'[<<e, b>>] = IF e = d /\ b = queue THEN requests[<<e, b>>] + k
                                   ELSE requests[<<e, b>>]
  BY <1>1, <1>2
<1>4. \A e \in Deposits : RequestsOf(e)' = IF e = d THEN RequestsOf(e) + k ELSE RequestsOf(e)
  <2>1. ASSUME NEW e \in Deposits
        PROVE  RequestsOf(e)' = IF e = d THEN RequestsOf(e) + k ELSE RequestsOf(e)
    <3>1. PICK x \in Nat, y \in Nat : x = requests[<<e, TRUE>>] /\ y = requests[<<e, FALSE>>]
      BY <1>3
    <3>2. RequestsOf(e) = x + y
      BY <3>1, Zenon DEF RequestsOf
    <3>3. CASE e # d
      <4>1. /\ requests'[<<e, TRUE>>] = x
            /\ requests'[<<e, FALSE>>] = y
        BY <1>3, <3>1, <3>3
      <4>2. RequestsOf(e)' = x + y
        BY <4>1, Zenon DEF RequestsOf
      <4>3. QED
        BY <3>2, <3>3, <4>2
    <3>4. CASE e = d /\ queue = TRUE
      <4>1. /\ requests'[<<e, TRUE>>] = x + k
            /\ requests'[<<e, FALSE>>] = y
        BY <1>3, <3>1, <3>4
      <4>2. RequestsOf(e)' = (x + k) + y
        BY <4>1, Zenon DEF RequestsOf
      <4>3. QED
        BY <3>2, <3>4, <4>2
    <3>5. CASE e = d /\ queue = FALSE
      <4>1. /\ requests'[<<e, TRUE>>] = x
            /\ requests'[<<e, FALSE>>] = y + k
        BY <1>3, <3>1, <3>5
      <4>2. RequestsOf(e)' = x + (y + k)
        BY <4>1, Zenon DEF RequestsOf
      <4>3. QED
        BY <3>2, <3>5, <4>2
    <3>6. queue = TRUE \/ queue = FALSE
      OBVIOUS
    <3>7. QED
      BY <3>3, <3>4, <3>5, <3>6
  <2>2. QED
    BY <2>1
<1>5. requests[<<d, queue>>] > 0 => RequestsOf(d) > 0
  <2>1. PICK x \in Nat, y \in Nat : x = requests[<<d, TRUE>>] /\ y = requests[<<d, FALSE>>]
    BY <1>3
  <2>2. RequestsOf(d) = x + y
    BY <2>1, Zenon DEF RequestsOf
  <2>3. queue = TRUE \/ queue = FALSE
    OBVIOUS
  <2>4. requests[<<d, queue>>] = x \/ requests[<<d, queue>>] = y
    BY <2>1, <2>3, Zenon
  <2>5. QED
    BY <2>2, <2>4
<1>6. QED
  BY <1>4, <1>5 DEF ShownRequests

\* A new record of d takes the place of the old, with a settlement if it is attesting.
LEMMA StoresTransfer ==
    ASSUME IInv, NEW d \in Deposits, NEW r \in Record, NEW status, status = r.status,
           records' = Append(records, r),
           transfers' = [transfers EXCEPT ![d] = Len(records) + 1],
           tasks' = tasks \cup {t \in {[records |-> <<Len(records) + 1>>, call |-> None]} :
                                    status = "attesting"}
    PROVE  Shown!Store(d, status)
<1> DEFINE n == Len(records) + 1
           started == [records |-> <<n>>, call |-> None]
           Now(t) == {e \in Deposits : transfers'[e] \in Range(t.records)}
<1>1. /\ Len(records) \in Nat /\ DOMAIN records = 1 .. Len(records)
      /\ \A o \in DOMAIN records : records'[o] = records[o]
      /\ records'[n] = r
  BY AddedRecordTypes DEF IInv
<1>2. transfers \in [Deposits -> {None} \cup DOMAIN records]
  BY RecordOfListed
<1>3. n # None /\ n \notin DOMAIN records
  BY <1>1 DEF None
<1>4. /\ transfers' = [transfers EXCEPT ![d] = n]
      /\ tasks' = tasks \cup {t \in {started} : status = "attesting"}
  OBVIOUS
<1>5. \A t \in tasks : Range(t.records) \subseteq DOMAIN records
  BY TaskObjects DEF IInv
<1>6. Range(started.records) = {n}
  BY DEF Range
<1> HIDE DEF n
<1>7. ASSUME NEW e \in Deposits
      PROVE  StatusOf(e)' = IF e \in {d} THEN status ELSE StatusOf(e)
  <2>1. CASE e = d
    BY <1>1, <1>2, <1>3, <1>4, <2>1 DEF StatusOf
  <2>2. CASE e # d
    <3>1. transfers'[e] = transfers[e] /\ transfers[e] \in {None} \cup DOMAIN records
      BY <1>2, <1>4, <2>2
    <3>2. QED
      BY <1>1, <2>2, <3>1 DEF StatusOf
  <2>3. QED
    BY <2>1, <2>2
<1>8. Shown!Becomes({d}, status)
  BY <1>7, TakeIsBecomes DEF Take
<1>9. \A t \in tasks : Now(t) = ListedOf(t) \ {d}
  <2>1. ASSUME NEW t \in tasks, NEW e \in Deposits
        PROVE  transfers'[e] \in Range(t.records) <=> transfers[e] \in Range(t.records) /\ e # d
    BY <1>2, <1>3, <1>4, <1>5
  <2>2. QED
    BY <2>1 DEF ListedOf
<1>10. Now(started) = {d}
  <2>1. \A e \in Deposits : transfers'[e] \in {n} <=> e = d
    BY <1>2, <1>3, <1>4
  <2>2. QED
    BY <1>6, <2>1
<1>11. ShownSettlements' = {Now(t) : t \in tasks'} \ {{}}
  BY DEF ShownSettlements, ListedOf
<1> HIDE DEF started, Now
<1>12. {Now(t) : t \in tasks'} = {ListedOf(t) \ {d} : t \in tasks} \cup {S \in {{d}} : status = "attesting"}
  <2>1. /\ status = "attesting" => tasks' = tasks \cup {started}
        /\ status # "attesting" => tasks' = tasks
    BY <1>4
  <2>2. {Now(t) : t \in tasks} = {ListedOf(t) \ {d} : t \in tasks}
    BY <1>9
  <2>3. {Now(t) : t \in tasks \cup {started}} = {Now(t) : t \in tasks} \cup {{d}}
    BY <1>10
  <2>4. QED
    BY <2>1, <2>2, <2>3
<1>13. {ListedOf(t) \ {d} : t \in tasks} \ {{}} = {S \ {d} : S \in ShownSettlements} \ {{}}
  <2>1. \A t \in tasks : ListedOf(t) \ {d} # {} => ListedOf(t) \in ShownSettlements
    BY DEF ShownSettlements
  <2>2. \A S \in ShownSettlements : \E t \in tasks : S = ListedOf(t)
    BY DEF ShownSettlements
  <2>3. QED
    BY <2>1, <2>2
<1>14. ShownSettlements' = ({S \ {d} : S \in ShownSettlements}
                               \cup {S \in {{d}} : status = "attesting"}) \ {{}}
  BY <1>11, <1>12, <1>13
<1>15. QED
  BY <1>8, <1>14 DEF Shown!Store, ShownSettlements

\* A batch is accepted.
LEMMA StartsBatch ==
    ASSUME IInv, NEW ids \in Batches, PostSettleBatch(ids)
    PROVE  \E S \in (SUBSET Deposits) \ {{}} :
              Shown!StartBatch(S) /\ ShownSettlements' = ShownSettlements \cup {S}
<1> DEFINE objects == [i \in DOMAIN ids |-> transfers[ids[i]]]
           started == [records |-> objects, call |-> None]
<1>1. PICK k \in 2 .. MaxBatch : ids \in [1 .. k -> Deposits]
  BY DEF Batches
<1>2. Range(ids) \in (SUBSET Deposits) \ {{}}
  <2>1. Range(ids) \subseteq Deposits /\ 1 \in DOMAIN ids
    BY <1>1 DEF Range
  <2>2. ids[1] \in Range(ids)
    BY <2>1 DEF Range
  <2>3. QED
    BY <2>1, <2>2
<1>3. /\ transfers \in [Deposits -> {None} \cup DOMAIN records]
      /\ None \notin DOMAIN records
      /\ \A d, e \in Deposits : transfers[d] # None /\ transfers[d] = transfers[e] => d = e
  BY RecordOfListed
<1>4. \A d \in Range(ids) : transfers[d] # None /\ records[transfers[d]].status \in {"queued", "failed"}
  BY DEF PostSettleBatch, Settleable, Range
<1>5. /\ records' = [o \in DOMAIN records |->
                        IF o \in Range(objects)
                        THEN [records[o] EXCEPT !.status = "attesting"]
                        ELSE records[o]]
      /\ transfers' = transfers
      /\ tasks' = tasks \cup {started}
  BY DEF PostSettleBatch
<1>6. \A d \in Deposits : transfers[d] \in Range(objects) <=> d \in Range(ids)
  <2>1. Range(objects) = {transfers[d] : d \in Range(ids)}
    BY DEF Range
  <2> HIDE DEF objects
  <2>2. QED
    BY <1>2, <1>3, <1>4, <2>1
<1>7. \A o \in DOMAIN records : records[o] \in Record
  BY SeqElements DEF IInv, TypesHold
<1> HIDE DEF objects
<1>8. ASSUME NEW d \in Deposits
      PROVE  StatusOf(d)' = IF d \in Range(ids) THEN "attesting" ELSE StatusOf(d)
  <2>1. CASE transfers[d] = None
    BY <1>4, <1>5, <2>1 DEF StatusOf
  <2>2. CASE transfers[d] # None
    <3>1. transfers[d] \in DOMAIN records
      BY <1>3, <2>2
    <3>2. records'[transfers[d]].status = IF d \in Range(ids) THEN "attesting"
                                          ELSE records[transfers[d]].status
      BY <1>5, <1>6, <1>7, <2>2, <3>1 DEF Record
    <3>3. QED
      BY <1>5, <2>2, <3>2 DEF StatusOf
  <2>3. QED
    BY <2>1, <2>2
<1>9. Take(Range(ids), "attesting")
  BY <1>8 DEF Take
<1>10. Shown!Becomes(Range(ids), "attesting")
  BY <1>9, TakeIsBecomes
<1>11. \A d \in Range(ids) : [e \in Deposits |-> StatusOf(e)][d] \in {"queued", "failed"}
  BY <1>2, <1>4 DEF StatusOf
<1>12. ListedOf(started) = Range(ids)
  BY <1>2, <1>6 DEF ListedOf
<1>13. ShownSettlements' = {ListedOf(t) : t \in tasks \cup {started}} \ {{}}
  BY <1>5 DEF ShownSettlements, ListedOf
<1> HIDE DEF started
<1>14. ShownSettlements' = ShownSettlements \cup {Range(ids)}
  BY <1>2, <1>12, <1>13 DEF ShownSettlements
<1>15. Shown!StartBatch(Range(ids))
  BY <1>10, <1>11 DEF Shown!StartBatch
<1>16. QED
  BY <1>2, <1>14, <1>15

\* The settlement t ends, for all its transfers that the list still shows.
LEMMA EndsSettlement ==
    ASSUME IInv, NEW t \in tasks, NEW outcome \in Shown!Outcomes,
           transfers' = transfers, tasks' = tasks \ {t},
           \A o \in Range(t.records) : records'[o].status = outcome,
           \A o \in DOMAIN records \ Range(t.records) : records'[o] = records[o]
    PROVE  \/ ShownList' = ShownList /\ ShownSettlements' = ShownSettlements
           \/ \E S \in ShownSettlements :
                 Shown!EndSettlement(S) /\ ShownSettlements' = ShownSettlements \ {S}
<1> DEFINE S == ListedOf(t)
<1>1. Range(t.records) \subseteq DOMAIN records
  BY TaskObjects DEF IInv
<1>2. transfers \in [Deposits -> {None} \cup DOMAIN records] /\ None \notin DOMAIN records
  BY RecordOfListed
<1>3. \A d \in S : d \in Deposits /\ transfers[d] \in Range(t.records)
  BY DEF ListedOf
<1>4. \A d \in S : transfers[d] # None /\ records[transfers[d]].status = "attesting"
  BY <1>1, <1>2, <1>3 DEF IInv, TasksOwnRecords
<1>5. ASSUME NEW d \in Deposits
      PROVE  StatusOf(d)' = IF d \in S THEN outcome ELSE StatusOf(d)
  <2>1. CASE d \in S
    BY <1>3, <1>4, <2>1 DEF StatusOf
  <2>2. CASE d \notin S
    BY <1>2, <2>2 DEF StatusOf, ListedOf
  <2>3. QED
    BY <2>1, <2>2
<1>6. ShownSettlements' = {ListedOf(u) : u \in tasks \ {t}} \ {{}}
  BY DEF ShownSettlements, ListedOf
<1>7. CASE S = {}
  <2>1. ShownList' = ShownList
    BY <1>5, <1>7 DEF ShownList
  <2>2. ShownSettlements' = ShownSettlements
    <3> HIDE DEF S
    <3>1. S = ListedOf(t)
      BY DEF S
    <3>2. QED
      BY <1>6, <1>7, <3>1 DEF ShownSettlements
  <2>3. QED
    BY <2>1, <2>2
<1>8. CASE S # {}
  <2>1. \A u \in tasks \ {t} : ListedOf(u) # S
    <3>1. PICK d \in S : TRUE
      BY <1>8
    <3>2. ASSUME NEW u \in tasks \ {t}, ListedOf(u) = S
          PROVE  FALSE
      <4>1. transfers[d] \in Range(t.records) /\ transfers[d] \in Range(u.records)
        BY <1>3, <3>1, <3>2 DEF ListedOf
      <4>2. QED
        BY <3>2, <4>1 DEF IInv, TasksOwnRecords
    <3>3. QED
      BY <3>2
  <2>2. Take(S, outcome)
    BY <1>5 DEF Take
  <2>3. \A d \in S : [e \in Deposits |-> StatusOf(e)][d] = "attesting"
    BY <1>3, <1>4 DEF StatusOf
  <2>4. S \in ShownSettlements
    BY <1>8 DEF ShownSettlements
  <2>5. S = ListedOf(t)
    OBVIOUS
  <2> HIDE DEF S
  <2>6. Shown!Becomes(S, outcome)
    BY <2>2, TakeIsBecomes
  <2>7. Shown!EndSettlement(S)
    BY <2>3, <2>6 DEF Shown!EndSettlement
  <2>8. ShownSettlements' = ShownSettlements \ {S}
    BY <1>6, <1>8, <2>1, <2>5 DEF ShownSettlements
  <2>9. QED
    BY <2>4, <2>7, <2>8
<1>9. QED
  BY <1>7, <1>8

\* A settlement that sends its transaction is the same settlement in the list.
LEMMA SendsCall ==
    ASSUME IInv, NEW t \in tasks, SendCall(t)
    PROVE  ShownSettlements' = ShownSettlements
<1>1. PICK u : u.records = t.records /\ tasks' = (tasks \ {t}) \cup {u} /\ transfers' = transfers
  <2> DEFINE u == [t EXCEPT !.call = Len(calls) + 1]
  <2>1. t \in Task(DOMAIN records, Len(calls))
    BY DEF IInv, TypesHold
  <2>2. u.records = t.records
    BY <2>1 DEF Task
  <2>3. tasks' = (tasks \ {t}) \cup {u} /\ transfers' = transfers
    BY DEF SendCall
  <2> HIDE DEF u
  <2>4. QED
    BY <2>2, <2>3
<1>2. ListedOf(u) = ListedOf(t)
  BY <1>1 DEF ListedOf
<1>3. ShownSettlements' = {ListedOf(v) : v \in (tasks \ {t}) \cup {u}} \ {{}}
  BY <1>1 DEF ShownSettlements, ListedOf
<1>4. QED
  BY <1>2, <1>3 DEF ShownSettlements

\* A crash empties the list.
LEMMA Crashes ==
    ASSUME Restart
    PROVE  Shown!Crash
<1>1. Take(Deposits, Shown!Unlisted)
  BY DEF Restart, Take, StatusOf, Shown!Unlisted
<1>2. Shown!LoseList
  BY <1>1, TakeIsBecomes DEF Shown!LoseList
<1>3. \A d \in Deposits : RequestsOf(d)' = 0
  <2>1. \A d \in Deposits : <<d, TRUE>> \in Inputs /\ <<d, FALSE>> \in Inputs
    BY DEF Inputs
  <2>2. \A d \in Deposits : requests'[<<d, TRUE>>] = 0 /\ requests'[<<d, FALSE>>] = 0
    BY <2>1 DEF Restart
  <2>3. \A d \in Deposits : RequestsOf(d)' = 0 + 0
    BY <2>2, Zenon DEF RequestsOf
  <2>4. QED
    BY <2>3
<1>4. Visited' = {}
  BY DEF Restart, Visited, NewScan
<1>5. ShownSettlements' = {}
  BY DEF Restart, ShownSettlements
<1>6. QED
  BY <1>2, <1>3, <1>4, <1>5
     DEF Shown!Crash, Shown!NoRequests, Visited, ShownSettlements

\* A handler starts to wait for the receipt of a deposit not listed.
LEMMA BeginsRequest ==
    ASSUME IInv, NEW d \in Deposits, NEW queue \in BOOLEAN, transfers[d] = None,
           Await(<<d, queue>>), UNCHANGED <<records, transfers, tasks, scan>>
    PROVE  Shown!BeginRequest(d)
<1>1. ShownRequests' = [ShownRequests EXCEPT ![d] = @ + 1]
  BY RequestsCount DEF Await
<1>2. ShownList' = ShownList /\ ShownSettlements' = ShownSettlements /\ Visited' = Visited
  BY SameList, SameSettlements DEF Visited
<1>3. StatusOf(d) = Shown!Unlisted
  BY DEF StatusOf, Shown!Unlisted
<1>4. QED
  BY <1>1, <1>2, <1>3
     DEF Shown!BeginRequest, ShownRequests, ShownList, ShownSettlements, Visited

\* A handler stores its record.
LEMMA RequestStores ==
    ASSUME IInv, NEW d \in Deposits, NEW queue \in BOOLEAN, StoreRecord(d, queue)
    PROVE  Shown!RequestStores(d)
<1> DEFINE r == NewRecord(d, FirstStatus(queue))
<1>1. r \in Record /\ r.status = FirstStatus(queue) /\ FirstStatus(queue) \in {"queued", "attesting"}
  BY DEF NewRecord, FirstStatus, Record, Statuses, None
<1>2. /\ records' = Append(records, r)
      /\ transfers' = [transfers EXCEPT ![d] = Len(records) + 1]
      /\ tasks' = tasks \cup {t \in {[records |-> <<Len(records) + 1>>, call |-> None]} :
                                  FirstStatus(queue) = "attesting"}
      /\ scan' = scan
  BY DEF StoreRecord, FirstStatus
<1> HIDE DEF r
<1>3. Shown!Store(d, FirstStatus(queue))
  BY <1>1, <1>2, StoresTransfer
<1>4. /\ requests' = [requests EXCEPT ![<<d, queue>>] = @ + -1]
      /\ requests[<<d, queue>>] > 0
  <2>1. requests \in [Inputs -> Nat] /\ <<d, queue>> \in Inputs
    BY DEF IInv, TypesHold, Inputs
  <2>2. QED
    BY <2>1 DEF StoreRecord
<1>5. ShownRequests' = [ShownRequests EXCEPT ![d] = @ + -1] /\ ShownRequests[d] > 0
  BY <1>4, RequestsCount
<1>6. ShownRequests' = [ShownRequests EXCEPT ![d] = @ - 1]
  <2>1. ShownRequests[d] \in Int
    <3>1. requests[<<d, TRUE>>] \in Nat /\ requests[<<d, FALSE>>] \in Nat
      BY DEF IInv, TypesHold, Inputs
    <3>2. QED
      BY <3>1 DEF ShownRequests, RequestsOf
  <2>2. QED
    BY <1>5, <2>1
<1>7. Shown!EndRequest(d)
  BY <1>2, <1>5, <1>6 DEF Shown!EndRequest, ShownRequests
<1>8. QED
  BY <1>1, <1>3, <1>7 DEF Shown!RequestStores

\* A handler throws.
LEMMA RequestThrows ==
    ASSUME IInv, NEW d \in Deposits, NEW queue \in BOOLEAN, RequestFails(d, queue)
    PROVE  Shown!StoresNothing(d)
<1>1. UNCHANGED <<records, transfers, tasks, scan>>
  BY DEF RequestFails
<1>2. /\ requests' = [requests EXCEPT ![<<d, queue>>] = @ + -1]
      /\ requests[<<d, queue>>] > 0
  <2>1. requests \in [Inputs -> Nat] /\ <<d, queue>> \in Inputs
    BY DEF IInv, TypesHold, Inputs
  <2>2. QED
    BY <2>1 DEF RequestFails
<1>3. ShownRequests' = [ShownRequests EXCEPT ![d] = @ + -1] /\ ShownRequests[d] > 0
  BY <1>2, RequestsCount
<1>4. ShownRequests' = [ShownRequests EXCEPT ![d] = @ - 1]
  <2>1. ShownRequests[d] \in Int
    <3>1. requests[<<d, TRUE>>] \in Nat /\ requests[<<d, FALSE>>] \in Nat
      BY DEF IInv, TypesHold, Inputs
    <3>2. QED
      BY <3>1 DEF ShownRequests, RequestsOf
  <2>2. QED
    BY <1>3, <2>1
<1>5. Shown!EndRequest(d)
  BY <1>1, <1>3, <1>4 DEF Shown!EndRequest, ShownRequests
<1>6. ShownList' = ShownList /\ ShownSettlements' = ShownSettlements
  BY <1>1, SameList, SameSettlements
<1>7. QED
  BY <1>5, <1>6 DEF Shown!StoresNothing, ShownList, ShownSettlements

\* The backfill stores a record of the deposit that it visits.
LEMMA VisitStores ==
    ASSUME IInv, RestoreDeposit
    PROVE  \E d \in Deposits : Shown!VisitStores(d)
<1> DEFINE d == Head(scan.deposits)
           r == RestoredRecord(d)
<1>1. TypesHold /\ ScanCoversHistory /\ scan \in Scan
  BY DEF IInv, TypesHold
<1>2. d \in Deposits /\ scan' = [scan EXCEPT !.pc = "loop", !.deposits = Tail(@)]
  BY <1>1, RestoreDepositTypes
<1>3. /\ records' = Append(records, r)
      /\ transfers' = [transfers EXCEPT ![d] = Len(records) + 1]
      /\ requests' = requests /\ tasks' = tasks
      /\ scan.pc = "block"
  BY DEF RestoreDeposit
<1>4. r \in Record /\ r.status \in {"queued", "released"}
  BY <1>1, <1>2, RestoredRecordType
<1>5. Visited = {d} /\ Visited' = {}
  BY <1>1, <1>2, <1>3 DEF Visited, Scan
<1> HIDE DEF d, r
<1>6. PICK status : status = r.status
  OBVIOUS
<1>7. tasks' = tasks \cup {t \in {[records |-> <<Len(records) + 1>>, call |-> None]} :
                               status = "attesting"}
  BY <1>3, <1>4, <1>6
<1>8. Shown!Store(d, status)
  BY <1>2, <1>3, <1>4, <1>6, <1>7, StoresTransfer
<1>9. ShownRequests' = ShownRequests
  BY <1>3, SameRequests
<1>10. Shown!EndVisit(d)
  BY <1>5, <1>9 DEF Shown!EndVisit, ShownRequests, Visited
<1>11. QED
  BY <1>2, <1>4, <1>6, <1>8, <1>10 DEF Shown!VisitStores

\* The other steps of the backfill begin a visit, give one up, or show nothing.
LEMMA ScanVisits ==
    ASSUME IInv, BackfillStep, ~RestoreDeposit
    PROVE  \/ \E d \in Deposits : Shown!BeginVisit(d) \/ Shown!StoresNothing(d)
           \/ UNCHANGED <<ShownList, ShownRequests, Visited, ShownSettlements>>
<1>1. TypesHold /\ ScanCoversHistory /\ scan \in Scan /\ scan.deposits \in Seq(Deposits)
  BY DEF IInv, TypesHold, Scan
<1>2. UNCHANGED <<records, transfers, requests, tasks>>
  BY <1>1, ScanTypes DEF BackfillStep
<1>3. UNCHANGED <<ShownList, ShownRequests, ShownSettlements>>
  BY <1>2, SameList, SameRequests, SameSettlements
<1>4. scan.deposits # <<>> => Head(scan.deposits) \in Deposits
  BY <1>1, HeadTailProperties
<1>5. CASE ReadSourceHead \/ ReadPayoutHead \/ CheckCount \/ BackfillDone
  <2>1. scan.pc # "block" /\ scan'.pc # "block"
    BY <1>1, <1>5 DEF Scan, ReadSourceHead, ReadPayoutHead, CheckCount, BackfillDone
  <2>2. QED
    BY <1>3, <2>1 DEF Visited
<1>6. CASE VisitDeposit
  <2> DEFINE d == Head(scan.deposits)
  <2>1. scan.pc = "loop" /\ d \in Deposits
    BY <1>4, <1>6 DEF VisitDeposit
  <2>2. CASE transfers[d] # None
    <3>1. scan'.pc = "loop"
      BY <1>1, <1>6, <2>1, <2>2 DEF VisitDeposit, Scan
    <3>2. QED
      BY <1>3, <2>1, <3>1 DEF Visited
  <2>3. CASE transfers[d] = None
    <3>1. scan'.pc = "block" /\ scan'.deposits = scan.deposits
      BY <1>1, <1>6, <2>3 DEF VisitDeposit, Scan
    <3>2. Visited = {} /\ Visited' = {d}
      BY <2>1, <3>1 DEF Visited
    <3>3. StatusOf(d) = Shown!Unlisted
      BY <2>3 DEF StatusOf, Shown!Unlisted
    <3> HIDE DEF d
    <3>4. Shown!BeginVisit(d)
      BY <1>3, <2>1, <3>2, <3>3
         DEF Shown!BeginVisit, ShownList, ShownRequests, ShownSettlements, Visited
    <3>5. QED
      BY <2>1, <3>4
  <2>4. QED
    BY <2>2, <2>3
<1>7. CASE BackfillThrows
  <2>1. Visited' = {}
    BY <1>1, <1>7 DEF BackfillThrows, Scan, Visited
  <2>2. CASE scan.pc # "block"
    BY <1>3, <2>1, <2>2 DEF Visited
  <2>3. CASE scan.pc = "block"
    <3>1. PICK d \in Deposits : d = Head(scan.deposits)
      BY <1>1, <1>4, <2>3 DEF ScanCoversHistory
    <3>2. Visited = {d}
      BY <2>3, <3>1 DEF Visited
    <3>3. Shown!StoresNothing(d)
      BY <1>3, <2>1, <3>2
         DEF Shown!StoresNothing, Shown!EndVisit, ShownList, ShownRequests,
             ShownSettlements, Visited
    <3>4. QED
      BY <3>3
  <2>4. QED
    BY <2>2, <2>3
<1>8. QED
  BY <1>5, <1>6, <1>7 DEF BackfillStep

\* Nothing of this shows: the chains, and a transaction that is sent.
LEMMA NothingShown ==
    ASSUME IInv,
           \/ UNCHANGED memory
           \/ \E t \in tasks : SendCall(t)
    PROVE  UNCHANGED <<ShownList, ShownRequests, Visited, ShownSettlements>>
<1>1. UNCHANGED <<records, transfers, requests, scan>>
  BY DEF memory, SendCall
<1>2. UNCHANGED <<ShownList, ShownRequests, Visited>>
  BY <1>1, SameList, SameRequests DEF Visited
<1>3. ShownSettlements' = ShownSettlements
  BY SendsCall, SameSettlements DEF memory
<1>4. QED
  BY <1>2, <1>3

\* Every step of the server is one of the list, or shows nothing.
LEMMA ListStep ==
    ASSUME IInv, ListedAreMined, [Next]_vars
    PROVE  Shown!Next \/ UNCHANGED <<ShownList, ShownRequests, Visited, ShownSettlements>>
<1>1. CASE UNCHANGED memory \/ \E t \in tasks : SendCall(t)
  BY <1>1, NothingShown
<1>2. ASSUME NEW d \in Deposits, NEW queue \in BOOLEAN,
             PostDeposit(d, queue) \/ PostTrack(d, queue)
      PROVE  Shown!Next
  <2>1. transfers[d] = None
    BY <1>2 DEF PostDeposit, PostTrack, Mine, ListedAreMined
  <2>2. Await(<<d, queue>>) /\ UNCHANGED <<records, transfers, tasks, scan>>
    BY <1>2 DEF PostDeposit, PostTrack
  <2>3. Shown!BeginRequest(d)
    BY <2>1, <2>2, BeginsRequest
  <2>4. QED
    BY <2>3 DEF Shown!Next
<1>3. ASSUME NEW d \in Deposits, NEW queue \in BOOLEAN, StoreRecord(d, queue)
      PROVE  Shown!Next
  BY <1>3, RequestStores DEF Shown!Next
<1>4. ASSUME NEW d \in Deposits, NEW queue \in BOOLEAN, RequestFails(d, queue)
      PROVE  Shown!Next
  BY <1>4, RequestThrows DEF Shown!Next
<1>5. ASSUME NEW ids \in Batches, PostSettleBatch(ids)
      PROVE  Shown!Next
  <2>1. PICK S \in (SUBSET Deposits) \ {{}} :
            Shown!StartBatch(S) /\ ShownSettlements' = ShownSettlements \cup {S}
    BY <1>5, StartsBatch
  <2>2. ShownRequests' = ShownRequests /\ Visited' = Visited
    BY <1>5, SameRequests DEF PostSettleBatch, Visited
  <2>3. Shown!BatchStarts(S)
    BY <2>1, <2>2 DEF Shown!BatchStarts, Shown!pending, ShownRequests, Visited, ShownSettlements
  <2>4. QED
    BY <2>3 DEF Shown!Next
<1>6. ASSUME NEW t \in tasks, Confirm(t) \/ Fail(t)
      PROVE  Shown!Next \/ UNCHANGED <<ShownList, ShownRequests, Visited, ShownSettlements>>
  <2>1. transfers' = transfers /\ tasks' = tasks \ {t} /\ requests' = requests /\ scan' = scan
    BY <1>6 DEF Confirm, Fail
  <2>2. PICK outcome \in {"released", "failed"} :
            /\ \A o \in Range(t.records) : records'[o].status = outcome
            /\ \A o \in DOMAIN records \ Range(t.records) : records'[o] = records[o]
    BY <1>6, ConfirmRewrites, FailRewrites
  <2>3. outcome \in Shown!Outcomes
    BY DEF Shown!Outcomes
  <2>4. ShownRequests' = ShownRequests /\ Visited' = Visited
    BY <2>1, SameRequests DEF Visited
  <2>5. \/ ShownList' = ShownList /\ ShownSettlements' = ShownSettlements
        \/ \E S \in ShownSettlements :
              Shown!EndSettlement(S) /\ ShownSettlements' = ShownSettlements \ {S}
    BY <2>1, <2>2, <2>3, EndsSettlement
  <2>6. ASSUME NEW S \in ShownSettlements,
               Shown!EndSettlement(S) /\ ShownSettlements' = ShownSettlements \ {S}
        PROVE  Shown!Next
    <3>1. Shown!SettlementEnds(S)
      BY <2>4, <2>6 DEF Shown!SettlementEnds, Shown!pending, ShownRequests, Visited, ShownSettlements
    <3>2. QED
      BY <3>1 DEF Shown!Next, ShownSettlements
  <2>7. QED
    BY <2>4, <2>5, <2>6
<1>7. CASE Restart
  BY <1>7, Crashes DEF Shown!Next
<1>8. CASE RestoreDeposit
  BY <1>8, VisitStores DEF Shown!Next
<1>9. CASE BackfillStep /\ ~RestoreDeposit
  BY <1>9, ScanVisits DEF Shown!Next
<1>10. QED
  BY <1>1, <1>2, <1>3, <1>4, <1>5, <1>6, <1>7, <1>8, <1>9
     DEF Next, ChainStep, RequestStep, TaskStep, RefuseBatch, WalletDeposit, ReleaseByOthers,
         MineCall, vars, memory

\* ImplementsTransferListings: a listed transfer gets another record only from what
\* began when it was not listed, and settlements end for all that they show.
THEOREM Implements == Spec => ImplementsTransferListings
<1>1. Init => ListedAreMined /\ Shown!Init
  <2> SUFFICES ASSUME Init PROVE ListedAreMined /\ Shown!Init
    OBVIOUS
  <2>1. ListedAreMined /\ \A d \in Deposits : StatusOf(d) = "unlisted"
    BY DEF Init, ListedAreMined, StatusOf
  <2>2. \A d \in Deposits : <<d, TRUE>> \in Inputs /\ <<d, FALSE>> \in Inputs
    BY DEF Inputs
  <2>3. \A d \in Deposits : requests[<<d, TRUE>>] = 0 /\ requests[<<d, FALSE>>] = 0
    BY <2>2 DEF Init
  <2>4. \A d \in Deposits : RequestsOf(d) = 0 + 0
    BY <2>3, Zenon DEF RequestsOf
  <2>5. scan.pc # "block" /\ tasks = {}
    BY DEF Init, NewScan
  <2>6. QED
    BY <2>1, <2>4, <2>5 DEF Shown!Init, Shown!NoRequests, Shown!Unlisted
<1>2. IInv /\ ListedAreMined /\ [Next]_vars => ListedAreMined'
  BY ListedAreMinedStep
<1>3. IInv /\ ListedAreMined /\ [Next]_vars => [Shown!Next]_(Shown!listings)
  BY ListStep DEF Shown!listings, Shown!pending, ShownList, ShownRequests, Visited, ShownSettlements
<1>4. QED
  BY <1>1, <1>2, <1>3, Invariant, PTL DEF Spec, ImplementsTransferListings, Shown!Spec

-----------------------------------------------------------------------------
(* The number of records                                                   *)

\* The handlers that still wait, each of which may store a record.
Waiting == SumFunctionOnSet(requests, Inputs)

\* Each record is one that a request made or will make, or one that a scan restored,
\* and a scan restores a deposit of this corridor at most once.
RoomIsLeft ==
    /\ Len(records) + Waiting + Len(scan.deposits) <= MaxRecords + Cardinality(Home)
    /\ scan.pc = "heads" => Len(records) + Waiting <= MaxRecords

\* The terms of that bound are numbers.
LEMMA RoomTypes ==
    ASSUME IInv
    PROVE  /\ IsFiniteSet(Inputs) /\ IsFiniteSet(Home) /\ Cardinality(Home) \in Nat
           /\ Len(records) \in Nat /\ Waiting \in Nat /\ restarts \in Nat
           /\ scan.deposits \in Seq(Deposits) /\ Len(scan.deposits) \in Nat
           /\ Len(scan.deposits) <= Cardinality(Home)
<1>1. TypesHold /\ ScanCoversHistory
  BY DEF IInv
<1>2. IsFiniteSet(Home) /\ Cardinality(Home) \in Nat
  BY DepositsAssumption, FS_Subset, FS_CardinalityType
<1>3. IsFiniteSet(Inputs)
  <2>1. BOOLEAN = {TRUE} \cup {FALSE}
    OBVIOUS
  <2>2. IsFiniteSet({TRUE}) /\ IsFiniteSet({FALSE})
    BY FS_Singleton
  <2>3. IsFiniteSet(BOOLEAN)
    BY <2>1, <2>2, FS_Union
  <2>4. QED
    BY <2>3, DepositsAssumption, FS_Product DEF Inputs
<1>4. Waiting \in Nat
  <2>1. \A r \in Inputs : requests[r] \in Nat
    BY <1>1 DEF TypesHold
  <2>2. QED
    BY <1>3, <2>1, SumType DEF Waiting
<1>5. scan.deposits \in Seq(Deposits) /\ Len(records) \in Nat /\ restarts \in Nat
  BY <1>1, LenProperties DEF TypesHold, Scan
<1>6. Len(scan.deposits) \in Nat /\ Len(scan.deposits) <= Cardinality(Home)
  <2>1. IsInjective(scan.deposits) /\ Range(scan.deposits) \subseteq Home
    BY <1>1 DEF ScanCoversHistory
  <2>2. IsFiniteSet(Range(scan.deposits)) /\ Cardinality(Range(scan.deposits)) = Len(scan.deposits)
    BY <1>5, <2>1, LengthOfDistinct
  <2>3. Cardinality(Range(scan.deposits)) <= Cardinality(Home)
    BY <1>2, <2>1, FS_Subset
  <2>4. QED
    BY <1>5, <2>2, <2>3, LenProperties
<1>7. QED
  BY <1>2, <1>3, <1>4, <1>5, <1>6

\* One handler more that waits, or one less.
LEMMA WaitingCounts ==
    ASSUME IInv, NEW r \in Inputs
    PROVE  /\ requests' = [requests EXCEPT ![r] = @ + 1] => Waiting' = Waiting + 1
           /\ requests[r] > 0 /\ requests' = [requests EXCEPT ![r] = @ - 1] => Waiting = Waiting' + 1
<1>1. requests \in [Inputs -> Nat] /\ IsFiniteSet(Inputs)
  BY RoomTypes DEF IInv, TypesHold
<1>2. ASSUME requests' = [requests EXCEPT ![r] = @ + 1]
      PROVE  Waiting' = Waiting + 1
  <2>1. Grows(requests, requests', Inputs, r, 1)
    BY <1>1, <1>2 DEF Grows
  <2>2. SumFunctionOnSet(requests', Inputs) = SumFunctionOnSet(requests, Inputs) + 1
    BY <1>1, <2>1, SumGrows
  <2>3. QED
    BY <2>2 DEF Waiting, Inputs
<1>3. ASSUME requests[r] > 0, requests' = [requests EXCEPT ![r] = @ - 1]
      PROVE  Waiting = Waiting' + 1
  <2>1. Grows(requests', requests, Inputs, r, 1)
    BY <1>1, <1>3 DEF Grows
  <2>2. SumFunctionOnSet(requests, Inputs) = SumFunctionOnSet(requests', Inputs) + 1
    BY <1>1, <2>1, SumGrows
  <2>3. QED
    BY <2>2 DEF Waiting, Inputs
<1>4. QED
  BY <1>2, <1>3

\* Every step leaves room.
LEMMA RoomStep ==
    ASSUME IInv, RoomIsLeft, [Next]_vars
    PROVE  RoomIsLeft'
<1>1. IInv' /\ TypesHold /\ TypesHold'
  BY InvariantStep DEF IInv
<1>2. /\ Cardinality(Home) \in Nat /\ Len(records) \in Nat /\ Waiting \in Nat /\ restarts \in Nat
      /\ Len(scan.deposits) \in Nat /\ Len(scan.deposits) <= Cardinality(Home)
  BY RoomTypes
<1>3. /\ Len(records') \in Nat /\ Waiting' \in Nat /\ Len(scan'.deposits) \in Nat
      /\ Len(scan'.deposits) <= Cardinality(Home)
  <2>1. (IInv => /\ Len(records) \in Nat /\ Waiting \in Nat /\ Len(scan.deposits) \in Nat
                 /\ Len(scan.deposits) <= Cardinality(Home))'
    BY RoomTypes, PTL
  <2>2. QED
    BY <1>1, <2>1
<1>4. PICK n \in Nat, w \in Nat, m \in Nat : n = Len(records) /\ w = Waiting /\ m = Len(scan.deposits)
  BY <1>2
<1>5. PICK n1 \in Nat, w1 \in Nat, m1 \in Nat :
         n1 = Len(records') /\ w1 = Waiting' /\ m1 = Len(scan'.deposits)
  BY <1>3
<1>6. PICK home \in Nat, max \in Nat : home = Cardinality(Home) /\ max = MaxRecords
  BY <1>2, RecordsAssumption
<1>7. /\ n + w + m <= max + home /\ m <= home /\ m1 <= home
      /\ scan.pc = "heads" => n + w <= max
  BY <1>2, <1>3, <1>4, <1>5, <1>6 DEF RoomIsLeft
<1>8. ASSUME n1 + w1 + m1 <= max + home, scan'.pc = "heads" => n1 + w1 <= max
      PROVE  RoomIsLeft'
  BY <1>5, <1>6, <1>8 DEF RoomIsLeft
<1>9. ASSUME n1 = n, w1 = w, scan' = scan
      PROVE  RoomIsLeft'
  BY <1>4, <1>5, <1>7, <1>8, <1>9
<1>10. UNCHANGED requests => w1 = w
  BY <1>4, <1>5 DEF Waiting, Inputs
<1>11. ASSUME NEW d \in Deposits, NEW queue \in BOOLEAN, PostDeposit(d, queue) \/ PostTrack(d, queue)
       PROVE  RoomIsLeft'
  <2>1. <<d, queue>> \in Inputs
    BY DEF Inputs
  <2>2. /\ Len(records) + Waiting + restarts < MaxRecords /\ UNCHANGED <<records, scan>>
        /\ requests' = [requests EXCEPT ![<<d, queue>>] = @ + 1]
    BY <1>11 DEF PostDeposit, PostTrack, RoomForRequest, Await, Waiting
  <2>3. w1 = w + 1
    BY <1>4, <1>5, <2>1, <2>2, WaitingCounts
  <2>4. n1 = n /\ m1 = m /\ n + w < max
    BY <1>2, <1>4, <1>5, <1>6, <2>2
  <2>5. QED
    BY <1>7, <1>8, <2>3, <2>4
<1>12. ASSUME NEW d \in Deposits, NEW queue \in BOOLEAN, StoreRecord(d, queue) \/ RequestFails(d, queue)
       PROVE  RoomIsLeft'
  <2>1. <<d, queue>> \in Inputs
    BY DEF Inputs
  <2>2. /\ requests[<<d, queue>>] > 0 /\ UNCHANGED scan
        /\ requests' = [requests EXCEPT ![<<d, queue>>] = @ - 1]
        /\ records' = records \/ \E record : records' = Append(records, record)
    BY <1>12 DEF StoreRecord, RequestFails
  <2>3. w = w1 + 1
    BY <1>4, <1>5, <2>1, <2>2, WaitingCounts
  <2>4. n1 = n \/ n1 = n + 1
    BY <1>1, <1>4, <1>5, <2>2 DEF TypesHold
  <2>5. m1 = m /\ scan' = scan
    BY <1>4, <1>5, <2>2
  <2>6. QED
    BY <1>7, <1>8, <2>3, <2>4, <2>5
<1>13. CASE Restart
  <2>1. /\ records' = <<>> /\ scan'.deposits = <<>> /\ requests' = [r \in Inputs |-> 0]
    BY <1>13 DEF Restart, NewScan
  <2>2. w1 = 0
    <3>1. SumFunctionOnSet(requests', Inputs) = 0
      BY <2>1, RoomTypes, SumOfZeros
    <3>2. QED
      BY <1>5, <3>1 DEF Waiting, Inputs
  <2>3. n1 = 0 /\ m1 = 0
    BY <1>5, <2>1
  <2>4. QED
    BY <1>8, <2>2, <2>3
<1>14. ASSUME NEW ids \in Batches, PostSettleBatch(ids)
       PROVE  RoomIsLeft'
  <2>1. UNCHANGED <<requests, scan>> /\ DOMAIN records' = DOMAIN records
    BY <1>14 DEF PostSettleBatch
  <2>2. n1 = n
    BY <1>1, <1>4, <1>5, <2>1, LenProperties DEF TypesHold
  <2>3. QED
    BY <1>9, <1>10, <2>1, <2>2
<1>15. ASSUME NEW t \in tasks, TaskStep(t)
       PROVE  RoomIsLeft'
  <2>1. UNCHANGED <<requests, scan>> /\ DOMAIN records' = DOMAIN records
    BY <1>15 DEF TaskStep, SendCall, Confirm, Fail
  <2>2. n1 = n
    BY <1>1, <1>4, <1>5, <2>1, LenProperties DEF TypesHold
  <2>3. QED
    BY <1>9, <1>10, <2>1, <2>2
<1>16. CASE RestoreDeposit
  <2>1. /\ UNCHANGED requests /\ scan'.pc = "loop" /\ scan'.deposits = Tail(scan.deposits)
        /\ scan.deposits # <<>> /\ scan.deposits \in Seq(Deposits)
    BY <1>1, <1>16 DEF RestoreDeposit, IInv, ScanCoversHistory, TypesHold, Scan
  <2>2. n1 = n + 1
    <3>1. DOMAIN records' = 1 .. Len(records) + 1
      BY <1>1, <1>16, RestoreDepositTypes DEF IInv
    <3>2. records' \in Seq(Record)
      BY <1>1 DEF TypesHold
    <3>3. DOMAIN records' = 1 .. Len(records')
      BY <3>2, LenProperties
    <3>4. QED
      BY <1>4, <1>5, <3>1, <3>3
  <2>3. m1 = m - 1
    BY <1>4, <1>5, <2>1, HeadTailProperties
  <2>4. QED
    BY <1>7, <1>8, <1>10, <2>1, <2>2, <2>3
<1>17. CASE ReadSourceHead \/ ReadPayoutHead \/ CheckCount
  <2>1. UNCHANGED <<requests, records>> /\ scan.pc = "heads"
    BY <1>17 DEF ReadSourceHead, ReadPayoutHead, CheckCount
  <2>2. n1 = n /\ w1 = w
    BY <1>4, <1>5, <1>10, <2>1
  <2>3. QED
    BY <1>7, <1>8, <2>1, <2>2
<1>18. CASE VisitDeposit \/ BackfillDone \/ BackfillThrows
  <2>1. /\ UNCHANGED <<requests, records>> /\ scan'.pc # "heads"
        /\ \/ scan'.deposits = scan.deposits \/ scan'.deposits = <<>>
           \/ scan.deposits # <<>> /\ scan'.deposits = Tail(scan.deposits)
    BY <1>1, <1>18 DEF VisitDeposit, BackfillDone, BackfillThrows, TypesHold, Scan
  <2>2. m1 <= m
    <3>1. scan.deposits \in Seq(Deposits)
      BY RoomTypes
    <3>2. scan.deposits # <<>> => Len(Tail(scan.deposits)) = Len(scan.deposits) - 1
      BY <3>1, HeadTailProperties
    <3>3. CASE scan'.deposits = <<>>
      BY <1>4, <1>5, <3>3
    <3>4. CASE scan.deposits # <<>> /\ scan'.deposits = Tail(scan.deposits)
      <4>1. Len(Tail(scan.deposits)) = Len(scan.deposits) - 1
        BY <3>2, <3>4
      <4>2. m1 = m - 1
        BY <1>4, <1>5, <3>4, <4>1
      <4>3. QED
        BY <4>2
    <3>5. CASE scan'.deposits = scan.deposits
      BY <1>4, <1>5, <3>5
    <3>6. QED
      BY <2>1, <3>3, <3>4, <3>5
  <2>3. n1 = n /\ w1 = w
    BY <1>4, <1>5, <1>10, <2>1
  <2>4. QED
    BY <1>7, <1>8, <2>1, <2>2, <2>3
<1>19. CASE ChainStep \/ UNCHANGED vars
  <2>1. UNCHANGED <<records, requests, scan>>
    BY <1>19 DEF ChainStep, WalletDeposit, ReleaseByOthers, MineCall, memory, vars
  <2>2. QED
    BY <1>4, <1>5, <1>9, <1>10, <2>1
<1>20. QED
  BY <1>11, <1>12, <1>13, <1>14, <1>15, <1>16, <1>17, <1>18, <1>19
     DEF Next, RequestStep, BackfillStep, RefuseBatch

\* TypeOK: the state of the server has its type, and there are never more records than
\* requests can make in one life and a scan can restore.
THEOREM TypeCorrect == Spec => []TypeOK
<1>1. Init => RoomIsLeft
  <2>1. SUFFICES ASSUME Init PROVE RoomIsLeft
    OBVIOUS
  <2>2. IInv /\ records = <<>> /\ scan.deposits = <<>> /\ requests = [r \in Inputs |-> 0]
    BY <2>1, InvariantInit DEF Init, NewScan
  <2>3. Waiting = 0
    BY <2>2, RoomTypes, SumOfZeros DEF Waiting
  <2>4. QED
    BY <2>2, <2>3, RoomTypes, RecordsAssumption DEF RoomIsLeft
<1>2. IInv /\ RoomIsLeft => TypeOK
  <2>1. SUFFICES ASSUME IInv, RoomIsLeft PROVE TypeOK
    OBVIOUS
  <2>2. TypesHold /\ tasks \subseteq Task(DOMAIN records, Len(calls))
    BY <2>1 DEF IInv, TypesHold
  <2>3. DOMAIN records \subseteq Objects
    <3>1. Len(records) <= MaxRecords + Cardinality(Home)
      BY <2>1, RoomTypes, RecordsAssumption DEF RoomIsLeft
    <3>2. DOMAIN records = 1 .. Len(records) /\ Len(records) \in Nat
      BY <2>2, LenProperties DEF TypesHold
    <3>3. MaxRecords + Cardinality(Home) \in Nat
      BY <2>1, RoomTypes, RecordsAssumption
    <3>4. QED
      BY <3>1, <3>2, <3>3 DEF Objects
  <2>4. \A t \in tasks : t.records \in Seq(DOMAIN records) /\ t.call \in 0 .. Len(calls)
    BY <2>2 DEF Task
  <2>5. QED
    BY <2>2, <2>3, <2>4 DEF TypesHold, TypeOK, Scan, Record, Release, Call
<1>3. QED
  BY <1>1, <1>2, Invariant, RoomStep, PTL DEF Spec

===========
