---------------------------- MODULE SumTheorems ----------------------------
(***************************************************************************)
(* What the proofs about totals need to know of SumFunctionOnSet, the      *)
(* community modules' sum of a function over a finite set: that it is the  *)
(* number of units the function's values count, hence how it changes when  *)
(* the set or the function does; and of FlattenSeq, what a flattened       *)
(* sequence is made of.  Inductions go by a least counterexample.          *)
(***************************************************************************)
EXTENDS Integers, Functions, SequencesExt, FiniteSetTheorems, FunctionTheorems, SequenceTheorems,
        WellFoundedInduction, TLAPS

\* A set of numbers that is not empty has a least one.
LEMMA LeastNumber ==
    ASSUME NEW Bad \in SUBSET Nat, Bad # {}
    PROVE  \E k \in Bad : \A j \in Bad : ~(j < k)
<1> DEFINE less == OpToRel(<, Nat)
<1>1. IsWellFoundedOn(less, Nat)
  BY NatLessThanWellFounded DEF OpToRel
<1>2. \A j, k \in Nat : j < k => <<j, k>> \in less
  BY DEF OpToRel
<1> HIDE DEF less
<1>3. \E k \in Bad : \A j \in Bad : ~(<<j, k>> \in less)
  BY <1>1, WFMin
<1>4. QED
  BY <1>2, <1>3

\* As many things as fun adds up over S: fun[x] of them for each x.
Units(fun, S) == {u \in S \X (Nat \ {0}) : u[2] <= fun[u[1]]}

\* The units of one more element come in addition.
LEMMA UnitsAdd ==
    ASSUME NEW S, NEW x, x \notin S, NEW fun, fun[x] \in Nat, IsFiniteSet(Units(fun, S))
    PROVE  /\ IsFiniteSet(Units(fun, S \cup {x}))
           /\ Cardinality(Units(fun, S \cup {x})) = Cardinality(Units(fun, S)) + fun[x]
<1> DEFINE n == fun[x]
           own == {u \in {x} \X (Nat \ {0}) : u[2] <= n}
           number == [i \in 1 .. n |-> <<x, i>>]
<1>1. Units(fun, S \cup {x}) = Units(fun, S) \cup own
  BY DEF Units
<1>2. Units(fun, S) \cap own = {}
  BY DEF Units
<1>3. number \in Bijection(1 .. n, own)
  <2>1. number \in [1 .. n -> own]
    OBVIOUS
  <2>2. \A i, j \in 1 .. n : number[i] = number[j] => i = j
    OBVIOUS
  <2>3. \A u \in own : \E i \in 1 .. n : number[i] = u
    <3>1. SUFFICES ASSUME NEW u \in own PROVE \E i \in 1 .. n : number[i] = u
      OBVIOUS
    <3>2. u[2] \in 1 .. n /\ u = <<x, u[2]>>
      OBVIOUS
    <3>3. QED
      BY <3>2
  <2> HIDE DEF number, own
  <2>4. QED
    BY <2>1, <2>2, <2>3 DEF Bijection, Injection, Surjection, IsInjective
<1>4. IsFiniteSet(1 .. n) /\ Cardinality(1 .. n) = n
  BY FS_Interval
<1> HIDE DEF own, number, n
<1>5. IsFiniteSet(own) /\ Cardinality(own) = n
  BY <1>3, <1>4, FS_Bijection DEF ExistsBijection
<1>6. IsFiniteSet({})  /\ Cardinality({}) = 0
  BY FS_EmptySet
<1>7. /\ IsFiniteSet(Units(fun, S) \cup own)
      /\ Cardinality(Units(fun, S) \cup own) =
            Cardinality(Units(fun, S)) + Cardinality(own) - Cardinality(Units(fun, S) \cap own)
  BY <1>5, FS_Union
<1>8. Cardinality(Units(fun, S)) \in Nat
  BY FS_CardinalityType
<1>9. n \in Nat
  BY DEF n
<1>10. Cardinality(Units(fun, S \cup {x})) = Cardinality(Units(fun, S)) + n
  <2>1. Cardinality(Units(fun, S) \cap own) = 0
    BY <1>2, <1>6
  <2>2. Cardinality(Units(fun, S) \cup own) = Cardinality(Units(fun, S)) + n - 0
    BY <1>5, <1>7, <2>1
  <2>3. Cardinality(Units(fun, S)) + n - 0 = Cardinality(Units(fun, S)) + n
    BY <1>8, <1>9
  <2>4. QED
    BY <1>1, <2>2, <2>3
<1>11. QED
  BY <1>1, <1>7, <1>10 DEF n

\* What holds of the empty set, and of a set if it holds without one of its elements, for
\* any of them, holds of all finite sets: Bad is where it fails.
LEMMA SmallestBad ==
    ASSUME NEW S, IsFiniteSet(S), NEW Bad \in SUBSET (SUBSET S), Bad # {}
    PROVE  \E s \in Bad : \A x \in s : s \ {x} \notin Bad
<1>1. PICK s \in Bad : \A t \in SUBSET S : <<t, s>> \in StrictSubsetOrdering(S) => t \notin Bad
  <2>1. \E s \in Bad : \A t \in Bad : ~(<<t, s>> \in StrictSubsetOrdering(S))
    <3> DEFINE R == StrictSubsetOrdering(S)
    <3>1. IsWellFoundedOn(R, SUBSET S)
      BY FS_StrictSubsetOrderingWellFounded, FS_FiniteSubsetsOfFinite
    <3> HIDE DEF R
    <3>2. \E s \in Bad : \A t \in Bad : ~(<<t, s>> \in R)
      BY <3>1, WFMin
    <3>3. QED
      BY <3>2 DEF R
  <2>2. QED
    BY <2>1
<1>2. ASSUME NEW x \in s
      PROVE  s \ {x} \notin Bad
  <2>1. <<s \ {x}, s>> \in StrictSubsetOrdering(S) /\ s \ {x} \in SUBSET S
    BY <1>2 DEF StrictSubsetOrdering
  <2>2. QED
    BY <1>1, <2>1
<1>3. QED
  BY <1>2

\* The recursion of the library's sum.
Adds(fun, S, f) ==
    f = [s \in SUBSET S |-> IF s = {} THEN 0
                            ELSE LET x == CHOOSE x \in s : TRUE IN fun[x] + f[s \ {x}]]

\* The library's sum counts the units.
LEMMA SumIsCount ==
    ASSUME NEW S, IsFiniteSet(S), NEW fun, \A x \in S : fun[x] \in Nat
    PROVE  /\ IsFiniteSet(Units(fun, S))
           /\ SumFunctionOnSet(fun, S) = Cardinality(Units(fun, S))
<1>1. Units(fun, {}) = {}
  BY DEF Units
<1>2. \A s \in SUBSET S : IsFiniteSet(Units(fun, s))
  <2> DEFINE Bad == {s \in SUBSET S : ~IsFiniteSet(Units(fun, s))}
  <2>1. SUFFICES ASSUME Bad # {} PROVE FALSE
    OBVIOUS
  <2>2. PICK s \in Bad : \A x \in s : s \ {x} \notin Bad
    <3> HIDE DEF Bad
    <3>1. Bad \in SUBSET (SUBSET S)
      BY DEF Bad
    <3>2. QED
      BY <2>1, <3>1, SmallestBad
  <2>3. s # {}
    BY <1>1, FS_EmptySet
  <2>4. PICK x \in s : TRUE
    BY <2>3
  <2>5. IsFiniteSet(Units(fun, s \ {x}))
    BY <2>2, <2>4
  <2>6. x \notin s \ {x} /\ fun[x] \in Nat /\ (s \ {x}) \cup {x} = s
    BY <2>4
  <2>7. IsFiniteSet(Units(fun, s))
    BY <2>5, <2>6, UnitsAdd
  <2>8. QED
    BY <2>7
<1>3. \A s \in SUBSET S : \A x \in s :
         Cardinality(Units(fun, s)) = fun[x] + Cardinality(Units(fun, s \ {x}))
  <2>1. SUFFICES ASSUME NEW s \in SUBSET S, NEW x \in s
                 PROVE  Cardinality(Units(fun, s)) = fun[x] + Cardinality(Units(fun, s \ {x}))
    OBVIOUS
  <2>2. x \notin s \ {x} /\ fun[x] \in Nat /\ (s \ {x}) \cup {x} = s /\ s \ {x} \in SUBSET S
    OBVIOUS
  <2>3. IsFiniteSet(Units(fun, s \ {x}))
    BY <1>2, <2>2
  <2>4. Cardinality(Units(fun, s)) = Cardinality(Units(fun, s \ {x})) + fun[x]
    BY <2>2, <2>3, UnitsAdd
  <2>5. Cardinality(Units(fun, s \ {x})) \in Nat
    BY <2>3, FS_CardinalityType
  <2>6. QED
    BY <2>2, <2>4, <2>5
<1> DEFINE count == [s \in SUBSET S |-> Cardinality(Units(fun, s))]
           sum == CHOOSE f : Adds(fun, S, f)
<1>4. Adds(fun, S, count)
  <2>1. ASSUME NEW s \in SUBSET S
        PROVE  count[s] = IF s = {} THEN 0
                          ELSE LET x == CHOOSE x \in s : TRUE IN fun[x] + count[s \ {x}]
    <3>1. CASE s = {}
      BY <1>1, <3>1, FS_EmptySet
    <3>2. CASE s # {}
      <4> DEFINE x == CHOOSE x \in s : TRUE
      <4>1. x \in s
        BY <3>2
      <4>2. s \ {x} \in SUBSET S
        OBVIOUS
      <4> HIDE DEF x
      <4>3. count[s] = fun[x] + count[s \ {x}]
        BY <1>3, <4>1, <4>2
      <4>4. QED
        BY <3>2, <4>3 DEF x
    <3>3. QED
      BY <3>1, <3>2
  <2>2. count = [s \in SUBSET S |-> count[s]]
    OBVIOUS
  <2> HIDE DEF count
  <2>3. QED
    BY <2>1, <2>2 DEF Adds
<1>5. Adds(fun, S, sum)
  <2> HIDE DEF count
  <2> QED
  BY <1>4
<1> HIDE DEF sum, count
<1>6. \A s \in SUBSET S : sum[s] = count[s]
  <2> DEFINE Bad == {s \in SUBSET S : sum[s] # count[s]}
  <2>1. SUFFICES ASSUME Bad # {} PROVE FALSE
    OBVIOUS
  <2>2. PICK s \in Bad : \A x \in s : s \ {x} \notin Bad
    <3> HIDE DEF Bad
    <3>1. Bad \in SUBSET (SUBSET S)
      BY DEF Bad
    <3>2. QED
      BY <2>1, <3>1, SmallestBad
  <2>3. s \in SUBSET S /\ sum[s] # count[s]
    OBVIOUS
  <2>4. CASE s = {}
    BY <1>4, <1>5, <2>3, <2>4 DEF Adds
  <2>5. CASE s # {}
    <3> DEFINE x == CHOOSE x \in s : TRUE
    <3>1. x \in s
      BY <2>5
    <3> HIDE DEF x
    <3>2. sum[s \ {x}] = count[s \ {x}]
      BY <2>2, <3>1
    <3>3. /\ sum[s] = fun[x] + sum[s \ {x}]
          /\ count[s] = fun[x] + count[s \ {x}]
      BY <1>4, <1>5, <2>3, <2>5 DEF Adds, x
    <3>4. QED
      BY <2>3, <3>2, <3>3
  <2>6. QED
    BY <2>4, <2>5
<1>7. SumFunctionOnSet(fun, S) = sum[S]
  BY DEF SumFunctionOnSet, FoldFunctionOnSet, MapThenFoldSet, Adds, sum
<1>8. QED
  BY <1>2, <1>6, <1>7 DEF count

\* Nothing adds up to zero.
LEMMA SumOfNone ==
    ASSUME NEW fun
    PROVE  SumFunctionOnSet(fun, {}) = 0
<1>1. Units(fun, {}) = {}
  BY DEF Units
<1>2. QED
  BY <1>1, FS_EmptySet, SumIsCount

\* A sum of numbers is a number.
LEMMA SumType ==
    ASSUME NEW S, IsFiniteSet(S), NEW fun, \A x \in S : fun[x] \in Nat
    PROVE  SumFunctionOnSet(fun, S) \in Nat
  BY SumIsCount, FS_CardinalityType

\* One more element adds its own value.
LEMMA SumAdd ==
    ASSUME NEW S, IsFiniteSet(S), NEW x, x \notin S, NEW fun,
           \A y \in S \cup {x} : fun[y] \in Nat
    PROVE  /\ SumFunctionOnSet(fun, S \cup {x}) = SumFunctionOnSet(fun, S) + fun[x]
           /\ SumFunctionOnSet(fun, S) \in Nat
<1>1. IsFiniteSet(S \cup {x})
  BY FS_AddElement
<1>2. \A y \in S : fun[y] \in Nat
  OBVIOUS
<1>3. /\ IsFiniteSet(Units(fun, S))
      /\ SumFunctionOnSet(fun, S) = Cardinality(Units(fun, S))
  BY <1>2, SumIsCount
<1>4. SumFunctionOnSet(fun, S \cup {x}) = Cardinality(Units(fun, S \cup {x}))
  BY <1>1, SumIsCount
<1>5. QED
  BY <1>3, <1>4, UnitsAdd, FS_CardinalityType

\* The values outside of the set do not matter.
LEMMA SumSame ==
    ASSUME NEW S, IsFiniteSet(S), NEW fun, NEW gun,
           \A x \in S : fun[x] \in Nat /\ gun[x] = fun[x]
    PROVE  SumFunctionOnSet(gun, S) = SumFunctionOnSet(fun, S)
<1>1. Units(gun, S) = Units(fun, S)
  BY DEF Units
<1>2. /\ \A x \in S : fun[x] \in Nat
      /\ \A x \in S : gun[x] \in Nat
  OBVIOUS
<1>3. QED
  BY <1>1, <1>2, SumIsCount

\* A part of the set has no larger sum.
LEMMA SumOfPart ==
    ASSUME NEW S, IsFiniteSet(S), NEW T \in SUBSET S, NEW fun, \A x \in S : fun[x] \in Nat
    PROVE  /\ SumFunctionOnSet(fun, T) <= SumFunctionOnSet(fun, S)
           /\ SumFunctionOnSet(fun, T) \in Nat
           /\ SumFunctionOnSet(fun, S) \in Nat
<1>1. IsFiniteSet(T) /\ \A x \in T : fun[x] \in Nat
  BY FS_Subset
<1>2. Units(fun, T) \subseteq Units(fun, S)
  BY DEF Units
<1>3. /\ IsFiniteSet(Units(fun, S))
      /\ SumFunctionOnSet(fun, S) = Cardinality(Units(fun, S))
      /\ SumFunctionOnSet(fun, T) = Cardinality(Units(fun, T))
  BY <1>1, SumIsCount
<1>4. Cardinality(Units(fun, T)) <= Cardinality(Units(fun, S))
  BY <1>2, <1>3, FS_Subset
<1>5. QED
  BY <1>1, <1>3, <1>4, SumType

\* gun is fun, but for what is added to it at x.
Grows(fun, gun, S, x, more) ==
    /\ more \in Nat
    /\ \A y \in S : fun[y] \in Nat /\ gun[y] = fun[y] + (IF y = x THEN more ELSE 0)

\* When the function grows at one place, so does the sum if the place is in the set.
LEMMA SumGrows ==
    ASSUME NEW S, IsFiniteSet(S), NEW x, NEW more, NEW fun, NEW gun, Grows(fun, gun, S, x, more)
    PROVE  /\ SumFunctionOnSet(gun, S) = SumFunctionOnSet(fun, S) + (IF x \in S THEN more ELSE 0)
           /\ SumFunctionOnSet(fun, S) \in Nat
<1> USE DEF Grows
<1>1. SumFunctionOnSet(fun, S) \in Nat
  BY SumType
<1>2. CASE x \notin S
  <2>1. \A y \in S : gun[y] = fun[y]
    BY <1>2
  <2>2. SumFunctionOnSet(gun, S) = SumFunctionOnSet(fun, S)
    BY <2>1, SumSame
  <2>3. QED
    BY <1>1, <1>2, <2>2
<1>3. CASE x \in S
  <2> DEFINE rest == S \ {x}
  <2>1. rest \cup {x} = S /\ x \notin rest /\ IsFiniteSet(rest)
    BY <1>3, FS_Subset
  <2>2. \A y \in rest : fun[y] \in Nat /\ gun[y] = fun[y]
    OBVIOUS
  <2>3. \A y \in S : gun[y] \in Nat
    OBVIOUS
  <2>4. gun[x] = fun[x] + more /\ fun[x] \in Nat
    BY <1>3
  <2> HIDE DEF rest
  <2>5. SumFunctionOnSet(gun, rest) = SumFunctionOnSet(fun, rest)
    BY <2>1, <2>2, SumSame
  <2>6. /\ SumFunctionOnSet(fun, S) = SumFunctionOnSet(fun, rest) + fun[x]
        /\ SumFunctionOnSet(fun, rest) \in Nat
    BY <2>1, SumAdd
  <2>7. SumFunctionOnSet(gun, S) = SumFunctionOnSet(gun, rest) + gun[x]
    BY <2>1, <2>3, SumAdd
  <2>8. QED
    BY <1>1, <1>3, <2>4, <2>5, <2>6, <2>7
<1>4. QED
  BY <1>2, <1>3

\* An element of no value changes nothing.
LEMMA SumAddNothing ==
    ASSUME NEW S, IsFiniteSet(S), NEW x, x \notin S, NEW T, T = S \/ T = S \cup {x},
           NEW fun, NEW gun, \A y \in S : fun[y] \in Nat, \A y \in S : gun[y] = fun[y],
           x \in T => gun[x] = 0
    PROVE  /\ SumFunctionOnSet(gun, T) = SumFunctionOnSet(fun, S)
           /\ SumFunctionOnSet(fun, S) \in Nat
<1>1. SumFunctionOnSet(gun, S) = SumFunctionOnSet(fun, S) /\ SumFunctionOnSet(fun, S) \in Nat
  BY SumSame, SumType
<1>2. CASE T = S \cup {x}
  <2>1. gun[x] = 0 /\ \A y \in S \cup {x} : gun[y] \in Nat
    BY <1>2
  <2>2. SumFunctionOnSet(gun, T) = SumFunctionOnSet(gun, S) + gun[x]
    BY <1>2, <2>1, SumAdd
  <2>3. QED
    BY <1>1, <2>1, <2>2
<1>3. QED
  BY <1>1, <1>2

\* A larger function has no smaller sum.
LEMMA SumLess ==
    ASSUME NEW S, IsFiniteSet(S), NEW fun, NEW gun,
           \A x \in S : fun[x] \in Nat /\ gun[x] \in Nat /\ fun[x] <= gun[x]
    PROVE  /\ SumFunctionOnSet(fun, S) <= SumFunctionOnSet(gun, S)
           /\ SumFunctionOnSet(fun, S) \in Nat /\ SumFunctionOnSet(gun, S) \in Nat
<1>1. Units(fun, S) \subseteq Units(gun, S)
  <2> SUFFICES ASSUME NEW u \in Units(fun, S)
               PROVE  u \in Units(gun, S)
    OBVIOUS
  <2>1. u \in S \X (Nat \ {0}) /\ u[1] \in S /\ u[2] \in Nat /\ u[2] <= fun[u[1]]
    BY DEF Units
  <2>2. fun[u[1]] \in Nat /\ gun[u[1]] \in Nat /\ fun[u[1]] <= gun[u[1]]
    BY <2>1
  <2>3. u[2] <= gun[u[1]]
    BY <2>1, <2>2
  <2>4. QED
    BY <2>1, <2>3 DEF Units
<1>2. /\ IsFiniteSet(Units(gun, S))
      /\ SumFunctionOnSet(gun, S) = Cardinality(Units(gun, S))
      /\ SumFunctionOnSet(fun, S) = Cardinality(Units(fun, S))
  BY SumIsCount
<1>3. Cardinality(Units(fun, S)) <= Cardinality(Units(gun, S))
  BY <1>1, <1>2, FS_Subset
<1>4. SumFunctionOnSet(fun, S) \in Nat /\ SumFunctionOnSet(gun, S) \in Nat
  BY SumType
<1>5. QED
  BY <1>2, <1>3, <1>4

\* The sum over two disjoint sets is that over the one and that over the other.
LEMMA SumDisjoint ==
    ASSUME NEW S, IsFiniteSet(S), NEW T, IsFiniteSet(T), S \cap T = {},
           NEW fun, \A x \in S \cup T : fun[x] \in Nat
    PROVE  /\ SumFunctionOnSet(fun, S \cup T) = SumFunctionOnSet(fun, S) + SumFunctionOnSet(fun, T)
           /\ SumFunctionOnSet(fun, S) \in Nat /\ SumFunctionOnSet(fun, T) \in Nat
<1>1. IsFiniteSet(S \cup T)
  BY FS_Union
<1>2. /\ Units(fun, S \cup T) = Units(fun, S) \cup Units(fun, T)
      /\ Units(fun, S) \cap Units(fun, T) = {}
  BY DEF Units
<1>3. /\ \A x \in S : fun[x] \in Nat
      /\ \A x \in T : fun[x] \in Nat
  OBVIOUS
<1>4. /\ IsFiniteSet(Units(fun, S)) /\ SumFunctionOnSet(fun, S) = Cardinality(Units(fun, S))
      /\ IsFiniteSet(Units(fun, T)) /\ SumFunctionOnSet(fun, T) = Cardinality(Units(fun, T))
      /\ SumFunctionOnSet(fun, S \cup T) = Cardinality(Units(fun, S \cup T))
  BY <1>1, <1>3, SumIsCount
<1>5. Cardinality(Units(fun, S) \cup Units(fun, T)) =
         Cardinality(Units(fun, S)) + Cardinality(Units(fun, T))
            - Cardinality(Units(fun, S) \cap Units(fun, T))
  BY <1>4, FS_Union
<1>6. Cardinality(Units(fun, S) \cap Units(fun, T)) = 0
  BY <1>2, FS_EmptySet
<1>7. Cardinality(Units(fun, S)) \in Nat /\ Cardinality(Units(fun, T)) \in Nat
  BY <1>4, FS_CardinalityType
<1>8. Cardinality(Units(fun, S \cup T)) = Cardinality(Units(fun, S)) + Cardinality(Units(fun, T)) - 0
  BY <1>2, <1>5, <1>6
<1>9. QED
  BY <1>4, <1>7, <1>8

\* The sum of a constant one counts the elements.
LEMMA SumOfOnes ==
    ASSUME NEW S, IsFiniteSet(S), NEW fun, \A x \in S : fun[x] = 1
    PROVE  SumFunctionOnSet(fun, S) = Cardinality(S)
<1> DEFINE number == [x \in S |-> <<x, 1>>]
<1>1. number \in Bijection(S, Units(fun, S))
  <2>1. \A x \in S : <<x, 1>> \in Units(fun, S)
    BY DEF Units
  <2>2. \A u \in Units(fun, S) : u[1] \in S /\ u = <<u[1], 1>>
    <3> SUFFICES ASSUME NEW u \in Units(fun, S)
                 PROVE  u[1] \in S /\ u = <<u[1], 1>>
      OBVIOUS
    <3>1. u \in S \X (Nat \ {0}) /\ u[1] \in S /\ u[2] \in Nat \ {0} /\ u[2] <= fun[u[1]]
          /\ u = <<u[1], u[2]>>
      BY DEF Units
    <3>2. fun[u[1]] = 1
      BY <3>1
    <3>3. u[2] = 1
      BY <3>1, <3>2
    <3>4. QED
      BY <3>1, <3>3
  <2>3. number \in [S -> Units(fun, S)]
    BY <2>1
  <2>4. \A x, y \in S : number[x] = number[y] => x = y
    OBVIOUS
  <2>5. \A u \in Units(fun, S) : \E x \in S : number[x] = u
    BY <2>2
  <2> HIDE DEF number
  <2>6. QED
    BY <2>3, <2>4, <2>5 DEF Bijection, Injection, Surjection, IsInjective
<1> HIDE DEF number
<1>2. Cardinality(Units(fun, S)) = Cardinality(S)
  BY <1>1, FS_Bijection DEF ExistsBijection
<1>3. \A x \in S : fun[x] \in Nat
  OBVIOUS
<1>4. QED
  BY <1>2, <1>3, SumIsCount

\* The sum of two functions is the sum of their sums.
LEMMA SumPlus ==
    ASSUME NEW S, IsFiniteSet(S), NEW fun, NEW gun, NEW both,
           \A x \in S : fun[x] \in Nat /\ gun[x] \in Nat /\ both[x] = fun[x] + gun[x]
    PROVE  SumFunctionOnSet(both, S) = SumFunctionOnSet(fun, S) + SumFunctionOnSet(gun, S)
<1> DEFINE Right(s) == SumFunctionOnSet(both, s) = SumFunctionOnSet(fun, s) + SumFunctionOnSet(gun, s)
           Bad == {s \in SUBSET S : ~Right(s)}
<1>1. SUFFICES ASSUME Bad # {}
               PROVE  FALSE
  OBVIOUS
<1>2. PICK s \in Bad : \A x \in s : s \ {x} \notin Bad
  <2> HIDE DEF Bad
  <2>1. Bad \in SUBSET (SUBSET S)
    BY DEF Bad
  <2>2. QED
    BY <1>1, <2>1, SmallestBad
<1>3. s \in SUBSET S /\ ~Right(s)
  OBVIOUS
<1>4. Right({})
  BY SumOfNone
<1>5. PICK x \in s : Right(s \ {x})
  <2>1. s # {}
    BY <1>3, <1>4
  <2>2. PICK x \in s : TRUE
    BY <2>1
  <2>3. s \ {x} \in SUBSET S /\ s \ {x} \notin Bad
    BY <1>2
  <2>4. QED
    BY <2>3
<1> DEFINE rest == s \ {x}
<1>6. /\ rest \cup {x} = s /\ x \notin rest /\ IsFiniteSet(rest)
      /\ \A y \in s : fun[y] \in Nat /\ gun[y] \in Nat /\ both[y] \in Nat
      /\ both[x] = fun[x] + gun[x] /\ fun[x] \in Nat /\ gun[x] \in Nat
  <2>1. rest \subseteq S /\ s \subseteq S
    BY <1>3
  <2>2. IsFiniteSet(rest)
    BY <2>1, FS_Subset
  <2>3. QED
    BY <2>1, <2>2
<1> HIDE DEF rest, Bad
<1>7. /\ SumFunctionOnSet(fun, s) = SumFunctionOnSet(fun, rest) + fun[x]
      /\ SumFunctionOnSet(fun, rest) \in Nat
  BY <1>6, SumAdd
<1>8. /\ SumFunctionOnSet(gun, s) = SumFunctionOnSet(gun, rest) + gun[x]
      /\ SumFunctionOnSet(gun, rest) \in Nat
  BY <1>6, SumAdd
<1>9. /\ SumFunctionOnSet(both, s) = SumFunctionOnSet(both, rest) + both[x]
  BY <1>6, SumAdd
<1>10. SumFunctionOnSet(both, rest) = SumFunctionOnSet(fun, rest) + SumFunctionOnSet(gun, rest)
  BY <1>5 DEF rest
<1>11. Right(s)
  BY <1>6, <1>7, <1>8, <1>9, <1>10
<1>12. QED
  BY <1>3, <1>11

\* A sum can be taken over another index, if each of its elements has its own.
LEMMA SumReindexed ==
    ASSUME NEW S, IsFiniteSet(S), NEW index, \A x, y \in S : index[x] = index[y] => x = y,
           NEW fun, NEW gun, \A x \in S : fun[x] \in Nat /\ gun[index[x]] = fun[x]
    PROVE  /\ IsFiniteSet({index[x] : x \in S})
           /\ SumFunctionOnSet(gun, {index[x] : x \in S}) = SumFunctionOnSet(fun, S)
<1> DEFINE Image(s) == {index[x] : x \in s}
           Right(s) == SumFunctionOnSet(gun, Image(s)) = SumFunctionOnSet(fun, s)
           Bad == {s \in SUBSET S : ~Right(s)}
<1>0. \A s \in SUBSET S : IsFiniteSet(Image(s))
  <2> SUFFICES ASSUME NEW s \in SUBSET S
               PROVE  IsFiniteSet(Image(s))
    OBVIOUS
  <2>1. IsFiniteSet(s)
    BY FS_Subset
  <2> DEFINE onto == [x \in s |-> index[x]]
  <2>2. onto \in [s -> Image(s)] /\ \A y \in Image(s) : \E x \in s : onto[x] = y
    OBVIOUS
  <2> HIDE DEF onto, Image
  <2>3. onto \in Surjection(s, Image(s))
    BY <2>2 DEF Surjection
  <2>4. QED
    BY <2>1, <2>3, FS_Surjection DEF ExistsSurjection
<1>1. SUFFICES ASSUME Bad # {}
               PROVE  FALSE
  BY <1>0
<1>2. PICK s \in Bad : \A x \in s : s \ {x} \notin Bad
  <2> HIDE DEF Bad
  <2>1. Bad \in SUBSET (SUBSET S)
    BY DEF Bad
  <2>2. QED
    BY <1>1, <2>1, SmallestBad
<1>3. s \in SUBSET S /\ ~Right(s)
  OBVIOUS
<1>4. Right({})
  <2>1. Image({}) = {}
    OBVIOUS
  <2>2. QED
    BY <2>1, SumOfNone
<1>5. PICK x \in s : Right(s \ {x})
  <2>1. s # {}
    BY <1>3, <1>4
  <2>2. PICK x \in s : TRUE
    BY <2>1
  <2>3. s \ {x} \in SUBSET S /\ s \ {x} \notin Bad
    BY <1>2
  <2>4. QED
    BY <2>3
<1> DEFINE rest == s \ {x}
<1>6. /\ rest \cup {x} = s /\ x \notin rest /\ IsFiniteSet(rest) /\ rest \in SUBSET S
      /\ \A y \in s : fun[y] \in Nat /\ gun[index[y]] = fun[y]
  <2>1. rest \subseteq S /\ s \subseteq S
    BY <1>3
  <2>2. IsFiniteSet(rest)
    BY <2>1, FS_Subset
  <2>3. QED
    BY <2>1, <2>2
<1>7. /\ Image(s) = Image(rest) \cup {index[x]} /\ index[x] \notin Image(rest)
      /\ IsFiniteSet(Image(rest))
      /\ \A z \in Image(rest) \cup {index[x]} : gun[z] \in Nat
  <2>1. \A y \in rest : y \in S /\ y # x
    BY <1>6
  <2>2. x \in S
    BY <1>3
  <2>3. index[x] \notin Image(rest)
    BY <2>1, <2>2
  <2>4. Image(s) = Image(rest) \cup {index[x]}
    OBVIOUS
  <2>5. \A z \in Image(s) : gun[z] \in Nat
    BY <1>6
  <2>6. QED
    BY <1>0, <1>6, <2>3, <2>4, <2>5
<1>8. SumFunctionOnSet(gun, Image(rest)) = SumFunctionOnSet(fun, rest)
  BY <1>5
<1> HIDE DEF rest, Bad
<1>9. /\ SumFunctionOnSet(fun, s) = SumFunctionOnSet(fun, rest) + fun[x]
      /\ SumFunctionOnSet(fun, rest) \in Nat
  <2>1. \A y \in rest \cup {x} : fun[y] \in Nat
    BY <1>6
  <2>2. rest \cup {x} = s /\ x \notin rest /\ IsFiniteSet(rest)
    BY <1>6
  <2>3. QED
    BY <2>1, <2>2, SumAdd
<1>10. SumFunctionOnSet(gun, Image(s)) = SumFunctionOnSet(gun, Image(rest)) + gun[index[x]]
  <2> DEFINE old == Image(rest)
             new == index[x]
  <2>1. /\ Image(s) = old \cup {new} /\ new \notin old /\ IsFiniteSet(old)
        /\ \A z \in old \cup {new} : gun[z] \in Nat
    BY <1>7
  <2> HIDE DEF old, new, Image
  <2>2. SumFunctionOnSet(gun, old \cup {new}) = SumFunctionOnSet(gun, old) + gun[new]
    BY <2>1, SumAdd
  <2>3. QED
    BY <2>1, <2>2 DEF old, new
<1>11. gun[index[x]] = fun[x]
  BY <1>6
<1>12. QED
  BY <1>3, <1>8, <1>9, <1>10, <1>11

\* What the elements with each value of a key sum up to makes the sum of all.
LEMMA SumOfFibres ==
    ASSUME NEW S, IsFiniteSet(S), NEW K, IsFiniteSet(K), NEW key, \A x \in S : key[x] \in K,
           NEW fun, \A x \in S : fun[x] \in Nat
    PROVE  SumFunctionOnSet([k \in K |-> SumFunctionOnSet(fun, {x \in S : key[x] = k})], K)
              = SumFunctionOnSet(fun, S)
<1> DEFINE Fibre(s, k) == {x \in s : key[x] = k}
           Fibres(s) == [k \in K |-> SumFunctionOnSet(fun, Fibre(s, k))]
           Right(s) == SumFunctionOnSet(Fibres(s), K) = SumFunctionOnSet(fun, s)
           Bad == {s \in SUBSET S : ~Right(s)}
<1>1. SUFFICES ASSUME Bad # {}
               PROVE  FALSE
  OBVIOUS
<1>2. PICK s \in Bad : \A x \in s : s \ {x} \notin Bad
  <2> HIDE DEF Bad
  <2>1. Bad \in SUBSET (SUBSET S)
    BY DEF Bad
  <2>2. QED
    BY <1>1, <2>1, SmallestBad
<1>3. s \in SUBSET S /\ ~Right(s)
  OBVIOUS
<1>4. Right({})
  <2>1. \A k \in K : Fibres({})[k] = 0
    <3>1. \A k \in K : Fibre({}, k) = {}
      OBVIOUS
    <3>2. QED
      BY <3>1, SumOfNone
  <2> HIDE DEF Fibres
  <2>2. SumFunctionOnSet(Fibres({}), K) = 0
    <3>1. Units(Fibres({}), K) = {}
      BY <2>1 DEF Units
    <3>2. QED
      BY <2>1, <3>1, SumIsCount, FS_EmptySet
  <2>3. QED
    BY <2>2, SumOfNone
<1>5. PICK x \in s : Right(s \ {x})
  <2>1. s # {}
    BY <1>3, <1>4
  <2>2. PICK x \in s : TRUE
    BY <2>1
  <2>3. s \ {x} \in SUBSET S /\ s \ {x} \notin Bad
    BY <1>2
  <2>4. QED
    BY <2>3
<1> DEFINE rest == s \ {x}
<1>6. /\ rest \cup {x} = s /\ x \notin rest /\ IsFiniteSet(rest) /\ rest \in SUBSET S
      /\ \A y \in s : fun[y] \in Nat
      /\ fun[x] \in Nat /\ key[x] \in K
  <2>1. rest \subseteq S /\ s \subseteq S
    BY <1>3
  <2>2. IsFiniteSet(rest)
    BY <2>1, FS_Subset
  <2>3. QED
    BY <2>1, <2>2
<1>7. SumFunctionOnSet(Fibres(rest), K) = SumFunctionOnSet(fun, rest)
  BY <1>5
<1> HIDE DEF rest, Bad
<1>8. Grows(Fibres(rest), Fibres(s), K, key[x], fun[x])
  <2>1. ASSUME NEW k \in K
        PROVE  /\ SumFunctionOnSet(fun, Fibre(rest, k)) \in Nat
               /\ SumFunctionOnSet(fun, Fibre(s, k)) =
                     SumFunctionOnSet(fun, Fibre(rest, k)) + (IF k = key[x] THEN fun[x] ELSE 0)
    <3>1. IsFiniteSet(Fibre(rest, k)) /\ \A y \in Fibre(rest, k) : y \in s /\ fun[y] \in Nat
      BY <1>6, FS_Subset
    <3>2. SumFunctionOnSet(fun, Fibre(rest, k)) \in Nat
      BY <3>1, SumType
    <3>3. CASE k = key[x]
      <4>1. Fibre(s, k) = Fibre(rest, k) \cup {x} /\ x \notin Fibre(rest, k)
        BY <1>6, <3>3
      <4>2. \A y \in Fibre(rest, k) \cup {x} : fun[y] \in Nat
        BY <1>6, <3>1
      <4> HIDE DEF Fibre
      <4>3. SumFunctionOnSet(fun, Fibre(s, k)) = SumFunctionOnSet(fun, Fibre(rest, k)) + fun[x]
        BY <3>1, <4>1, <4>2, SumAdd
      <4>4. QED
        BY <3>2, <3>3, <4>3
    <3>4. CASE k # key[x]
      <4>1. Fibre(s, k) = Fibre(rest, k)
        BY <1>6, <3>4
      <4>2. QED
        BY <3>2, <3>4, <4>1
    <3>5. QED
      BY <3>3, <3>4
  <2> HIDE DEF Fibre
  <2>2. QED
    BY <1>6, <2>1 DEF Grows
<1> HIDE DEF Fibres
<1>9. /\ SumFunctionOnSet(Fibres(s), K) = SumFunctionOnSet(Fibres(rest), K) + fun[x]
  BY <1>6, <1>8, SumGrows
<1>10. SumFunctionOnSet(fun, s) = SumFunctionOnSet(fun, rest) + fun[x]
  BY <1>6, SumAdd
<1>11. QED
  BY <1>3, <1>7, <1>9, <1>10

\* No value is larger than the sum it is part of.
LEMMA SumBounds ==
    ASSUME NEW S, IsFiniteSet(S), NEW fun, \A x \in S : fun[x] \in Nat, NEW y \in S
    PROVE  fun[y] <= SumFunctionOnSet(fun, S)
<1>1. {y} \in SUBSET S /\ {y} = {} \cup {y}
  OBVIOUS
<1>2. SumFunctionOnSet(fun, {}) = 0 /\ IsFiniteSet({})
  BY SumOfNone, FS_EmptySet
<1>3. SumFunctionOnSet(fun, {} \cup {y}) = SumFunctionOnSet(fun, {}) + fun[y]
  BY <1>2, SumAdd
<1>4. SumFunctionOnSet(fun, {y}) <= SumFunctionOnSet(fun, S)
  BY <1>1, SumOfPart
<1>5. SumFunctionOnSet(fun, {y}) = 0 + fun[y]
  BY <1>1, <1>2, <1>3
<1>6. QED
  BY <1>4, <1>5

\* A sum of zeros is zero.
LEMMA SumOfZeros ==
    ASSUME NEW S, IsFiniteSet(S), NEW fun, \A x \in S : fun[x] = 0
    PROVE  SumFunctionOnSet(fun, S) = 0
<1>1. IsFiniteSet(Units(fun, S)) /\ SumFunctionOnSet(fun, S) = Cardinality(Units(fun, S))
  BY SumIsCount
<1>2. Units(fun, S) = {}
  BY DEF Units
<1>3. QED
  BY <1>1, <1>2, FS_EmptySet

-----------------------------------------------------------------------------
(* Flattened sequences                                                     *)

\* A sequence of elements of a set is one of elements of a larger set.
LEMMA SeqWider ==
    ASSUME NEW S, NEW T, S \subseteq T, NEW s \in Seq(S)
    PROVE  s \in Seq(T)
<1>1. Len(s) \in Nat /\ s \in [1 .. Len(s) -> S]
  BY LenProperties
<1> DEFINE n == Len(s)
<1> HIDE DEF n
<1>2. n \in Nat /\ s \in [1 .. n -> T]
  BY <1>1 DEF n
<1>3. QED
  BY <1>2, SeqDef

\* The recursion of the library's FlattenSeq.
Flattens(seqs, n, f) ==
    f = [i \in 1 .. n |-> IF i = 1 THEN seqs[i] ELSE f[i - 1] \o seqs[i]]

\* It has a solution, of sequences, for every number of sequences.
LEMMA FlattensSome ==
    ASSUME NEW S, NEW n \in Nat, NEW seqs \in [1 .. n -> Seq(S)]
    PROVE  \E f \in [1 .. n -> Seq(S)] : Flattens(seqs, n, f)
<1> DEFINE Right(k) == \E f \in [1 .. k -> Seq(S)] : Flattens(seqs, k, f)
           Bad == {k \in 0 .. n : ~Right(k)}
<1>1. Right(0)
  <2> DEFINE f == [i \in 1 .. 0 |-> <<>>]
  <2>1. f \in [1 .. 0 -> Seq(S)]
    OBVIOUS
  <2>2. Flattens(seqs, 0, f)
    BY DEF Flattens
  <2>3. QED
    BY <2>1, <2>2
<1>2. ASSUME NEW k \in 1 .. n, Right(k - 1)
      PROVE  Right(k)
  <2>1. PICK f \in [1 .. k - 1 -> Seq(S)] : Flattens(seqs, k - 1, f)
    BY <1>2
  <2>2. \A i \in 1 .. k - 1 : f[i] = IF i = 1 THEN seqs[i] ELSE f[i - 1] \o seqs[i]
    BY <2>1 DEF Flattens
  <2> DEFINE last == IF k = 1 THEN seqs[k] ELSE f[k - 1] \o seqs[k]
             g == [i \in 1 .. k |-> IF i = k THEN last ELSE f[i]]
  <2>3. last \in Seq(S)
    <3>1. seqs[k] \in Seq(S)
      OBVIOUS
    <3>2. CASE k = 1
      BY <3>1, <3>2
    <3>3. CASE k # 1
      <4>1. f[k - 1] \in Seq(S)
        BY <3>3
      <4>2. f[k - 1] \o seqs[k] \in Seq(S)
        BY <3>1, <4>1, ConcatProperties
      <4>3. QED
        BY <3>3, <4>2
    <3>4. QED
      BY <3>2, <3>3
  <2>4. g \in [1 .. k -> Seq(S)]
    <3>1. \A i \in 1 .. k : i = k \/ i \in 1 .. k - 1
      OBVIOUS
    <3> HIDE DEF last
    <3>2. QED
      BY <2>3, <3>1
  <2>5. \A i \in 1 .. k : g[i] = IF i = 1 THEN seqs[i] ELSE g[i - 1] \o seqs[i]
    <3>1. ASSUME NEW i \in 1 .. k - 1
          PROVE  /\ g[i] = f[i]
                 /\ i # 1 => g[i - 1] = f[i - 1]
      <4>1. i # k /\ i \in 1 .. k /\ (i # 1 => i - 1 \in 1 .. k /\ i - 1 # k)
        OBVIOUS
      <4>2. QED
        BY <4>1
    <3>2. ASSUME NEW i \in 1 .. k - 1
          PROVE  g[i] = IF i = 1 THEN seqs[i] ELSE g[i - 1] \o seqs[i]
      <4> HIDE DEF g
      <4>1. QED
        BY <2>2, <3>1
    <3>3. g[k] = IF k = 1 THEN seqs[k] ELSE g[k - 1] \o seqs[k]
      <4>1. g[k] = last
        OBVIOUS
      <4>2. k # 1 => g[k - 1] = f[k - 1]
        <5>1. k # 1 => k - 1 \in 1 .. k /\ k - 1 # k
          OBVIOUS
        <5>2. QED
          BY <5>1
      <4> HIDE DEF g
      <4>3. QED
        BY <4>1, <4>2
    <3>4. \A i \in 1 .. k : i = k \/ i \in 1 .. k - 1
      OBVIOUS
    <3> HIDE DEF g
    <3>5. QED
      BY <3>2, <3>3, <3>4
  <2>6. Flattens(seqs, k, g)
    <3>1. g = [i \in 1 .. k |-> g[i]]
      OBVIOUS
    <3> HIDE DEF g
    <3>2. QED
      BY <2>5, <3>1 DEF Flattens
  <2> HIDE DEF g
  <2>7. QED
    BY <2>4, <2>6
<1> HIDE DEF Right
<1>3. Bad = {}
  <2> SUFFICES ASSUME Bad # {} PROVE FALSE
    OBVIOUS
  <2>0. Bad \in SUBSET Nat
    OBVIOUS
  <2>1. PICK k \in Bad : \A j \in Bad : ~(j < k)
    BY <2>0, LeastNumber
  <2>2. k \in 0 .. n /\ ~Right(k) /\ k # 0
    BY <1>1, <2>1
  <2>3. k \in 1 .. n /\ k - 1 \in 0 .. n /\ k - 1 < k
    BY <2>2
  <2>4. Right(k - 1)
    BY <2>1, <2>3
  <2>5. QED
    BY <1>2, <2>2, <2>3, <2>4
<1>4. Right(n)
  BY <1>3
<1>5. QED
  BY <1>4 DEF Right

\* A flattened sequence has elements of the sequences it is made of.
LEMMA FlattenType ==
    ASSUME NEW S, NEW n \in Nat, NEW seqs \in [1 .. n -> Seq(S)]
    PROVE  FlattenSeq(seqs) \in Seq(S)
<1>1. Len(seqs) = n /\ seqs \in Seq(Seq(S))
  BY SeqDef, LenProperties
<1>2. CASE n = 0
  <2>1. seqs = <<>>
    BY <1>1, <1>2, EmptySeq
  <2>2. FlattenSeq(seqs) = <<>>
    BY <1>1, <1>2, <2>1 DEF FlattenSeq
  <2>3. QED
    BY <2>2
<1>3. CASE n # 0
  <2> DEFINE f == CHOOSE f : Flattens(seqs, n, f)
             Bad == {i \in 1 .. n : f[i] \notin Seq(S)}
  <2>1. Flattens(seqs, n, f)
    <3>1. \E g : Flattens(seqs, n, g)
      BY FlattensSome
    <3>2. QED
      BY <3>1
  <2>2. FlattenSeq(seqs) = f[n]
    <3>1. FlattenSeq(seqs) = (CHOOSE g : Flattens(seqs, n, g))[n]
      BY <1>1, <1>3 DEF FlattenSeq, Flattens
    <3>2. QED
      BY <3>1
  <2> HIDE DEF f
  <2>3. \A i \in 1 .. n : f[i] = IF i = 1 THEN seqs[i] ELSE f[i - 1] \o seqs[i]
    BY <2>1 DEF Flattens
  <2>4. Bad = {}
    <3> SUFFICES ASSUME Bad # {} PROVE FALSE
      OBVIOUS
    <3>1. Bad \in SUBSET Nat
      OBVIOUS
    <3>2. PICK k \in Bad : \A j \in Bad : ~(j < k)
      BY <3>1, LeastNumber
    <3>3. k \in 1 .. n /\ f[k] \notin Seq(S) /\ seqs[k] \in Seq(S)
      BY <3>2
    <3>4. k # 1
      BY <2>3, <3>3
    <3>5. k - 1 \in 1 .. n /\ k - 1 < k
      BY <3>3, <3>4
    <3>6. f[k - 1] \in Seq(S)
      BY <3>2, <3>5
    <3>7. f[k - 1] \o seqs[k] \in Seq(S)
      BY <3>3, <3>6, ConcatProperties
    <3>8. QED
      BY <2>3, <3>3, <3>4, <3>7
  <2>5. QED
    BY <1>3, <2>2, <2>4
<1>4. QED
  BY <1>2, <1>3

=============================================================================
