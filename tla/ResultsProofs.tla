---------------------------- MODULE ResultsProofs ----------------------------
(***************************************************************************)
(* Proofs about Results, for any MTIs, latencies and rows: sums over finite *)
(* sets, least and greatest times, times in their order, and from these    *)
(* the figures of GetStressTestResults.                                    *)
(***************************************************************************)
EXTENDS Results, FiniteSetTheorems, TLAPS

-----------------------------------------------------------------------------
(* Induction over finite sets, from their being well-founded: what is false *)
(* of some subset is false of one and true of it less any of its elements. *)

\* Among some subsets of a finite set there is one that is not among them when an
\* element is removed.
LEMMA SmallestSubset ==
  ASSUME NEW S, IsFiniteSet(S), NEW B \in SUBSET (SUBSET S), B # {}
  PROVE  \E T \in B : \A x \in T : T \ {x} \notin B
<1>1. FiniteSubsetsOf(S) = SUBSET S
  BY FS_FiniteSubsetsOfFinite
<1>2. IsWellFoundedOn(StrictSubsetOrdering(S), FiniteSubsetsOf(S))
  BY FS_StrictSubsetOrderingWellFounded
<1>3. B \subseteq FiniteSubsetsOf(S)
  BY <1>1
<1>4. PICK T \in B : \A U \in B : ~ (<<U, T>> \in StrictSubsetOrdering(S))
  <2> HIDE DEF StrictSubsetOrdering, FiniteSubsetsOf
  <2> QED BY <1>2, <1>3, WFMin
<1>5. ASSUME NEW x \in T, T \ {x} \in B PROVE FALSE
  <2>1. <<T \ {x}, T>> \in StrictSubsetOrdering(S)
    BY <1>5 DEF StrictSubsetOrdering
  <2> QED BY <1>4, <1>5, <2>1
<1> QED BY <1>5

\* A sum over a set is whatever is 0 for no element and grows by the value of each
\* element that is added.
LEMMA SumIs ==
  ASSUME NEW S, IsFiniteSet(S), NEW f \in [S -> Nat], NEW g \in [SUBSET S -> Nat],
         g[{}] = 0, \A T \in SUBSET S : \A x \in T : g[T] = f[x] + g[T \ {x}]
  PROVE  SumFunction(f) = g[S]
<1> DEFINE rec(h) == [s \in SUBSET S |->
                        IF s = {} THEN 0 ELSE f[CHOOSE x \in s : TRUE] + h[s \ {CHOOSE x \in s : TRUE}]]
           h == CHOOSE i : i = rec(i)
<1>1. SumFunction(f) = h[S]
  BY DEF SumFunction, SumFunctionOnSet, FoldFunctionOnSet, MapThenFoldSet
<1>2. g = rec(g)
  <2>1. ASSUME NEW s \in SUBSET S PROVE g[s] = rec(g)[s]
    <3>1. CASE s = {}
      BY <3>1
    <3>2. CASE s # {}
      <4>1. (CHOOSE x \in s : TRUE) \in s
        BY <3>2
      <4> QED BY <3>2, <4>1
    <3> QED BY <3>1, <3>2
  <2> QED BY <2>1
<1>3. h = rec(h)
  <2> HIDE DEF rec
  <2> QED BY <1>2
<1>4. \A s \in SUBSET S : h[s] = IF s = {} THEN 0 ELSE f[CHOOSE x \in s : TRUE] + h[s \ {CHOOSE x \in s : TRUE}]
  <2> HIDE DEF h
  <2>1. \A s \in SUBSET S : rec(h)[s] = IF s = {} THEN 0 ELSE f[CHOOSE x \in s : TRUE] + h[s \ {CHOOSE x \in s : TRUE}]
    OBVIOUS
  <2> HIDE DEF rec
  <2> QED BY <1>3, <2>1
<1> HIDE DEF rec, h
<1> DEFINE B == {s \in SUBSET S : h[s] # g[s]}
<1>5. ASSUME B # {} PROVE FALSE
  <2>1. PICK s \in B : \A x \in s : s \ {x} \notin B
    BY <1>5, SmallestSubset
  <2>2. s # {} /\ s \in SUBSET S
    BY <1>4, <2>1
  <2>3. PICK x \in s : x = CHOOSE y \in s : TRUE
    BY <2>2
  <2>4. h[s \ {x}] = g[s \ {x}]
    BY <2>1, <2>2
  <2>5. h[s] = f[x] + h[s \ {x}]
    BY <1>4, <2>2, <2>3
  <2> QED BY <2>1, <2>2, <2>4, <2>5
<1> QED BY <1>1, <1>5

\* The numbers of elements of each kind sum up to the number of elements.
LEMMA CountParts ==
  ASSUME NEW R, IsFiniteSet(R), NEW I, IsFiniteSet(I), NEW kind \in [R -> I]
  PROVE  SumFunction([i \in I |-> Cardinality({r \in R : kind[r] = i})]) = Cardinality(R)
<1> DEFINE Some(M) == {r \in R : kind[r] \in M}
           f == [i \in I |-> Cardinality({r \in R : kind[r] = i})]
           g == [M \in SUBSET I |-> Cardinality(Some(M))]
<1>1. \A Q \in SUBSET R : IsFiniteSet(Q) /\ Cardinality(Q) \in Nat
  BY FS_Subset, FS_CardinalityType
<1>2. f \in [I -> Nat] /\ g \in [SUBSET I -> Nat]
  BY <1>1
<1>3. g[{}] = 0
  <2>1. Some({}) = {}
    OBVIOUS
  <2> QED BY <2>1, FS_EmptySet
<1>4. ASSUME NEW M \in SUBSET I, NEW i \in M PROVE g[M] = f[i] + g[M \ {i}]
  <2> DEFINE A == {r \in R : kind[r] = i}
             C == Some(M \ {i})
  <2>1. Some(M) = A \cup C /\ A \cap C = {}
    OBVIOUS
  <2>2. A \in SUBSET R /\ C \in SUBSET R
    OBVIOUS
  <2>3. g[M] = Cardinality(Some(M)) /\ f[i] = Cardinality(A) /\ g[M \ {i}] = Cardinality(C)
    OBVIOUS
  <2> HIDE DEF A, C, f, g, Some
  <2>4. Cardinality(A \cup C) = Cardinality(A) + Cardinality(C) - Cardinality(A \cap C)
    BY <1>1, <2>2, FS_Union
  <2>5. Cardinality(A \cap C) = 0 /\ Cardinality(A) \in Nat /\ Cardinality(C) \in Nat
    BY <1>1, <2>1, <2>2, FS_EmptySet
  <2> QED BY <2>1, <2>3, <2>4, <2>5
<1>5. g[I] = Cardinality(R)
  <2>1. Some(I) = R
    OBVIOUS
  <2> QED BY <2>1
<1> HIDE DEF f, g
<1>6. SumFunction(f) = g[I]
  BY <1>2, <1>3, <1>4, SumIs
<1> QED BY <1>5, <1>6 DEF f

\* A sum counted out: as many pairs for each element as its value
Units(f) == {p \in (DOMAIN f) \X Nat : 1 <= p[2] /\ p[2] <= f[p[1]]}

LEMMA SumCounted ==
  ASSUME NEW S, IsFiniteSet(S), NEW f \in [S -> Nat]
  PROVE  IsFiniteSet(Units(f)) /\ SumFunction(f) = Cardinality(Units(f))
<1> DEFINE Of(x) == {x} \X (1 .. f[x])
           U(T) == {p \in T \X Nat : 1 <= p[2] /\ p[2] <= f[p[1]]}
<1>1. ASSUME NEW x \in S PROVE IsFiniteSet(Of(x)) /\ Cardinality(Of(x)) = f[x]
  <2> DEFINE A == {x}
             B == 1 .. f[x]
  <2>1. IsFiniteSet(B) /\ Cardinality(B) = f[x] /\ f[x] \in Nat
    BY FS_Interval
  <2>2. IsFiniteSet(A) /\ Cardinality(A) = 1
    BY FS_Singleton
  <2>3. Of(x) = A \X B
    OBVIOUS
  <2> HIDE DEF A, B, Of
  <2>4. IsFiniteSet(A \X B) /\ Cardinality(A \X B) = Cardinality(A) * Cardinality(B)
    BY <2>1, <2>2, FS_Product
  <2> QED BY <2>1, <2>2, <2>3, <2>4
<1>2. ASSUME NEW T \in SUBSET S, NEW x \in T PROVE U(T) = Of(x) \cup U(T \ {x}) /\ Of(x) \cap U(T \ {x}) = {}
  <2>1. \A k \in 1 .. f[x] : k \in Nat /\ 1 <= k /\ k <= f[x]
    OBVIOUS
  <2>2. Of(x) \subseteq U(T)
    <3> SUFFICES ASSUME NEW p \in Of(x) PROVE p \in U(T)
      OBVIOUS
    <3>1. PICK k \in 1 .. f[x] : p = <<x, k>>
      OBVIOUS
    <3>2. p[1] = x /\ p[2] = k
      BY <3>1
    <3>3. k \in Nat /\ 1 <= k /\ k <= f[x]
      BY <2>1
    <3>4. p \in T \X Nat
      BY <3>1, <3>3
    <3> QED BY <3>2, <3>3, <3>4
  <2>3. U(T \ {x}) \subseteq U(T)
    OBVIOUS
  <2>4. ASSUME NEW p \in U(T) PROVE p \in Of(x) \/ p \in U(T \ {x})
    <3>1. CASE p[1] = x
      <4>1. p = <<x, p[2]>> /\ p[2] \in 1 .. f[x]
        BY <3>1
      <4> QED BY <4>1
    <3>2. CASE p[1] # x
      BY <3>2
    <3> QED BY <3>1, <3>2
  <2>5. Of(x) \cap U(T \ {x}) = {}
    OBVIOUS
  <2> HIDE DEF U, Of
  <2> QED BY <2>2, <2>3, <2>4, <2>5
<1>3. U({}) = {}
  OBVIOUS
<1> HIDE DEF U, Of
<1>4. \A T \in SUBSET S : IsFiniteSet(U(T))
  <2> DEFINE B == {T \in SUBSET S : ~ IsFiniteSet(U(T))}
  <2>1. ASSUME B # {} PROVE FALSE
    <3>1. PICK T \in B : \A x \in T : T \ {x} \notin B
      BY <2>1, SmallestSubset
    <3>2. T \in SUBSET S /\ T # {}
      BY <1>3, <3>1, FS_EmptySet
    <3>3. PICK x \in T : TRUE
      BY <3>2
    <3>4. IsFiniteSet(U(T \ {x})) /\ IsFiniteSet(Of(x))
      BY <1>1, <3>1, <3>2
    <3>5. IsFiniteSet(Of(x) \cup U(T \ {x}))
      BY <3>4, FS_Union
    <3> QED BY <1>2, <3>1, <3>2, <3>5
  <2> QED BY <2>1
<1> DEFINE g == [T \in SUBSET S |-> Cardinality(U(T))]
<1>5. g \in [SUBSET S -> Nat] /\ g[{}] = 0 /\ g[S] = Cardinality(U(S))
  BY <1>3, <1>4, FS_CardinalityType, FS_EmptySet
<1>6. ASSUME NEW T \in SUBSET S, NEW x \in T PROVE g[T] = f[x] + g[T \ {x}]
  <2>1. g[T] = Cardinality(U(T)) /\ g[T \ {x}] = Cardinality(U(T \ {x})) /\ g[T \ {x}] \in Nat
    BY <1>5
  <2>2. Cardinality(Of(x) \cup U(T \ {x})) =
          Cardinality(Of(x)) + Cardinality(U(T \ {x})) - Cardinality(Of(x) \cap U(T \ {x}))
    BY <1>1, <1>4, FS_Union
  <2>3. Cardinality(Of(x) \cap U(T \ {x})) = 0
    BY <1>2, FS_EmptySet
  <2>4. Cardinality(Of(x)) = f[x] /\ f[x] \in Nat
    BY <1>1
  <2> HIDE DEF g
  <2>5. U(T) = Of(x) \cup U(T \ {x})
    BY <1>2
  <2>6. Cardinality(U(T)) = Cardinality(Of(x)) + Cardinality(U(T \ {x})) - 0
    BY <2>2, <2>3, <2>5
  <2> QED BY <2>1, <2>4, <2>6
<1> HIDE DEF g
<1>7. SumFunction(f) = g[S]
  BY <1>5, <1>6, SumIs
<1>8. Units(f) = U(S)
  <2>1. DOMAIN f = S
    OBVIOUS
  <2> QED BY <2>1 DEF Units, U
<1> QED BY <1>4, <1>5, <1>7, <1>8

\* A sum of values that are no greater is no greater.
LEMMA SumGrows ==
  ASSUME NEW S, IsFiniteSet(S), NEW f \in [S -> Nat], NEW g \in [S -> Nat], \A x \in S : f[x] <= g[x]
  PROVE  SumFunction(f) <= SumFunction(g)
<1>1. Units(f) \subseteq Units(g)
  <2> SUFFICES ASSUME NEW p \in Units(f) PROVE p \in Units(g)
    OBVIOUS
  <2>1. p \in S \X Nat /\ 1 <= p[2] /\ p[2] <= f[p[1]]
    BY DEF Units
  <2>2. p[1] \in S /\ p[2] \in Nat
    BY <2>1
  <2>3. f[p[1]] \in Nat /\ g[p[1]] \in Nat /\ f[p[1]] <= g[p[1]]
    BY <2>2
  <2> QED BY <2>1, <2>2, <2>3 DEF Units
<1>2. IsFiniteSet(Units(g)) /\ SumFunction(f) = Cardinality(Units(f)) /\ SumFunction(g) = Cardinality(Units(g))
  BY SumCounted
<1> QED BY <1>1, <1>2, FS_Subset

-----------------------------------------------------------------------------
(* Least and greatest                                                      *)

\* A set of numbers that is not empty has a least one, and only one.
LEMMA LeastIs ==
  ASSUME NEW S \in SUBSET Nat, S # {}
  PROVE  /\ Min(S) \in S /\ \A y \in S : Min(S) <= y
         /\ \A m \in S : (\A y \in S : m <= y) => Min(S) = m
<1>1. PICK x \in S : \A y \in S : ~ (<<y, x>> \in OpToRel(<, Nat))
  BY NatLessThanWellFounded, WFMin
<1>2. \A y \in S : x <= y
  <2> SUFFICES ASSUME NEW y \in S, ~ (x <= y) PROVE FALSE
    OBVIOUS
  <2>1. x \in Nat /\ y \in Nat /\ y < x
    OBVIOUS
  <2>2. <<y, x>> \in OpToRel(<, Nat)
    BY <2>1 DEF OpToRel
  <2> QED BY <1>1, <2>2
<1>3. Min(S) \in S /\ \A y \in S : Min(S) <= y
  BY <1>2 DEF Min
<1>4. ASSUME NEW m \in S, \A y \in S : m <= y PROVE Min(S) = m
  <2> DEFINE best == Min(S)
  <2>1. best \in Nat /\ m \in Nat /\ best <= m /\ m <= best
    BY <1>3, <1>4
  <2> HIDE DEF best
  <2>2. best = m
    BY <2>1
  <2> QED BY <2>2 DEF best
<1>5. \A y \in S : Min(S) <= y
  <2> DEFINE best == Min(S)
  <2>1. best \in S /\ \A y \in S : best <= y
    BY <1>3
  <2> HIDE DEF best
  <2>2. \A y \in S : best <= y
    BY <2>1
  <2> QED BY <2>2 DEF best
<1> QED BY <1>3, <1>4, <1>5

\* So has a finite one a greatest.
LEMMA GreatestIs ==
  ASSUME NEW S \in SUBSET Nat, IsFiniteSet(S), S # {}
  PROVE  /\ Max(S) \in S /\ \A y \in S : y <= Max(S)
         /\ \A m \in S : (\A y \in S : y <= m) => Max(S) = m
<1> DEFINE Has(T) == \E m \in T : \A y \in T : y <= m
           B == {T \in SUBSET S : T # {} /\ ~ Has(T)}
<1>1. ASSUME B # {} PROVE FALSE
  <2>1. PICK T \in B : \A x \in T : T \ {x} \notin B
    BY <1>1, SmallestSubset
  <2>2. T \in SUBSET S /\ T # {} /\ ~ Has(T)
    BY <2>1
  <2>3. PICK x \in T : TRUE
    BY <2>2
  <2>4. T \ {x} = {} \/ Has(T \ {x})
    BY <2>1, <2>2
  <2>5. CASE T \ {x} = {}
    BY <2>2, <2>3, <2>5
  <2>6. CASE Has(T \ {x})
    <3>1. PICK m \in T \ {x} : \A y \in T \ {x} : y <= m
      BY <2>6
    <3>2. x \in Nat /\ m \in Nat /\ T \subseteq Nat
      BY <2>2, <2>3, <3>1
    <3>3. CASE x <= m
      BY <2>2, <3>1, <3>3
    <3>4. CASE m <= x
      <4>1. ASSUME NEW y \in T PROVE y <= x
        <5>1. y = x \/ y <= m
          BY <3>1
        <5> QED BY <3>2, <3>4, <5>1
      <4> QED BY <2>2, <2>3, <4>1
    <3> QED BY <3>2, <3>3, <3>4
  <2> QED BY <2>4, <2>5, <2>6
<1>2. \E m \in S : \A y \in S : m >= y
  <2>1. Has(S)
    BY <1>1
  <2> QED BY <2>1
<1>3. Max(S) \in S /\ \A y \in S : Max(S) >= y
  BY <1>2 DEF Max
<1>4. ASSUME NEW m \in S, \A y \in S : y <= m PROVE Max(S) = m
  <2> DEFINE best == Max(S)
  <2>1. best \in Nat /\ m \in Nat /\ best <= m /\ m <= best
    BY <1>3, <1>4
  <2> HIDE DEF best
  <2>2. best = m
    BY <2>1
  <2> QED BY <2>2 DEF best
<1>5. \A y \in S : y <= Max(S)
  <2> DEFINE best == Max(S)
  <2>1. best \in S /\ \A y \in S : best >= y
    BY <1>3
  <2> HIDE DEF best
  <2>2. \A y \in S : y <= best
    BY <2>1
  <2> QED BY <2>2 DEF best
<1> QED BY <1>3, <1>4, <1>5

-----------------------------------------------------------------------------
(* The combination of the groups                                           *)

Row == [id : Nat, mti : MTIs, time : Latency \cup {NoTime}]

\* What reads of the log give
Rows == {rows \in SUBSET Row : IsFiniteSet(rows)}

\* Parts of what was read are such too, and times are numbers.
LEMMA RowsParts ==
  ASSUME NEW rows \in Rows
  PROVE  /\ \A mti \in MTIs : OfMTI(rows, mti) \in Rows
         /\ HasTime(rows) \in Rows /\ \A row \in HasTime(rows) : row.time \in Nat
         /\ Times(rows) \subseteq Nat /\ IsFiniteSet(Times(rows))
         /\ Times(rows) = {} <=> HasTime(rows) = {}
         /\ Cardinality(rows) \in Nat /\ Answered(rows) \in Nat
         /\ Answered(rows) = 0 <=> HasTime(rows) = {}
<1>1. \A part \in SUBSET rows : part \in Rows /\ IsFiniteSet(part) /\ Cardinality(part) \in Nat
  BY FS_Subset, FS_CardinalityType DEF Rows
<1>2. HasTime(rows) \in SUBSET rows /\ rows \in SUBSET Row
  BY DEF HasTime, Rows
<1>3. \A row \in HasTime(rows) : row.time \in Nat
  BY <1>2, ResultsAssumption DEF HasTime, Row, ResultsAssumption
<1>4. IsFiniteSet(Times(rows))
  <2> DEFINE f == [row \in HasTime(rows) |-> row.time]
  <2>1. f \in Surjection(HasTime(rows), Times(rows))
    BY DEF Surjection, Times
  <2> QED BY <1>1, <1>2, <2>1, FS_Surjection
<1>5. Times(rows) \subseteq Nat /\ (Times(rows) = {} <=> HasTime(rows) = {})
  BY <1>3 DEF Times
<1>6. \A mti \in MTIs : OfMTI(rows, mti) \in SUBSET rows
  BY DEF OfMTI
<1>7. Answered(rows) \in Nat /\ (Answered(rows) = 0 <=> HasTime(rows) = {})
  BY <1>1, <1>2, FS_EmptySet DEF Answered
<1> QED BY <1>1, <1>2, <1>3, <1>4, <1>5, <1>6, <1>7

\* What a summary says of each group
LEMMA GroupIs ==
  ASSUME NEW rows \in Rows, NEW mti \in MTIs
  PROVE  LET part == OfMTI(rows, mti)
         IN  /\ Groups(rows)[mti].logged = Cardinality(part)
             /\ Groups(rows)[mti].answered = Answered(part)
             /\ Groups(rows)[mti].sum = SumFunction([row \in HasTime(part) |-> row.time])
             /\ Groups(rows)[mti].min = IF HasTime(part) = {} THEN 0 ELSE Min(Times(part))
             /\ Groups(rows)[mti].max = IF HasTime(part) = {} THEN 0 ELSE Max(Times(part))
<1>1. Groups(rows)[mti] = Summary(OfMTI(rows, mti))
  BY DEF Groups
<1> QED BY <1>1 DEF Summary

\* The counts of the groups add up to those of all rows.
LEMMA CountsCombined ==
  ASSUME NEW rows \in Rows
  PROVE  /\ SumFunction([mti \in MTIs |-> Groups(rows)[mti].logged]) = Cardinality(rows)
         /\ SumFunction([mti \in MTIs |-> Groups(rows)[mti].answered]) = Answered(rows)
<1>0. IsFiniteSet(MTIs)
  BY ResultsAssumption DEF ResultsAssumption
<1>1. ASSUME NEW R \in Rows
      PROVE  SumFunction([mti \in MTIs |-> Cardinality(OfMTI(R, mti))]) = Cardinality(R)
  <2> DEFINE kind == [row \in R |-> row.mti]
  <2>1. kind \in [R -> MTIs] /\ IsFiniteSet(R)
    BY DEF Rows, Row
  <2>2. \A mti \in MTIs : OfMTI(R, mti) = {row \in R : kind[row] = mti}
    BY DEF OfMTI
  <2> HIDE DEF kind
  <2>3. SumFunction([mti \in MTIs |-> Cardinality({row \in R : kind[row] = mti})]) = Cardinality(R)
    BY <1>0, <2>1, CountParts
  <2>4. [mti \in MTIs |-> Cardinality(OfMTI(R, mti))] =
        [mti \in MTIs |-> Cardinality({row \in R : kind[row] = mti})]
    BY <2>2
  <2> QED BY <2>3, <2>4
<1>2. [mti \in MTIs |-> Groups(rows)[mti].logged] = [mti \in MTIs |-> Cardinality(OfMTI(rows, mti))]
  BY GroupIs
<1>3. [mti \in MTIs |-> Groups(rows)[mti].answered] = [mti \in MTIs |-> Cardinality(OfMTI(HasTime(rows), mti))]
  <2>1. \A mti \in MTIs : HasTime(OfMTI(rows, mti)) = OfMTI(HasTime(rows), mti)
    BY DEF HasTime, OfMTI
  <2> QED BY <2>1, GroupIs DEF Answered
<1>4. HasTime(rows) \in Rows
  BY RowsParts
<1> QED BY <1>1, <1>2, <1>3, <1>4 DEF Answered

\* So do the sums of the times.
LEMMA SumsCombined ==
  ASSUME NEW rows \in Rows
  PROVE  SumFunction([mti \in MTIs |-> Groups(rows)[mti].sum]) = SumFunction([row \in HasTime(rows) |-> row.time])
<1> DEFINE Timed(R) == [row \in HasTime(R) |-> row.time]
           all == Units(Timed(rows))
           kind == [p \in all |-> p[1].mti]
<1>0. IsFiniteSet(MTIs)
  BY ResultsAssumption DEF ResultsAssumption
<1>1. ASSUME NEW R \in Rows
      PROVE  IsFiniteSet(Units(Timed(R))) /\ SumFunction(Timed(R)) = Cardinality(Units(Timed(R)))
  <2>1. Timed(R) \in [HasTime(R) -> Nat] /\ IsFiniteSet(HasTime(R))
    BY RowsParts DEF Rows
  <2> HIDE DEF Timed
  <2> QED BY <2>1, SumCounted
<1>2. ASSUME NEW mti \in MTIs
      PROVE  Units(Timed(OfMTI(rows, mti))) = {p \in all : kind[p] = mti}
  BY DEF Units, HasTime, OfMTI
<1>3. kind \in [all -> MTIs]
  <2>1. \A p \in all : p[1] \in rows
    BY DEF Units, HasTime
  <2> QED BY <2>1 DEF Rows, Row
<1>4. [mti \in MTIs |-> Groups(rows)[mti].sum] = [mti \in MTIs |-> Cardinality({p \in all : kind[p] = mti})]
  <2>1. \A mti \in MTIs : Groups(rows)[mti].sum = SumFunction(Timed(OfMTI(rows, mti)))
    BY GroupIs
  <2>2. \A mti \in MTIs : OfMTI(rows, mti) \in Rows
    BY RowsParts
  <2> HIDE DEF Timed, all, kind
  <2> QED BY <1>1, <1>2, <2>1, <2>2
<1>5. SumFunction([mti \in MTIs |-> Cardinality({p \in all : kind[p] = mti})]) = Cardinality(all)
  <2>1. IsFiniteSet(all)
    BY <1>1
  <2> HIDE DEF all, kind
  <2> QED BY <1>0, <1>3, <2>1, CountParts
<1> HIDE DEF kind
<1> QED BY <1>1, <1>4, <1>5

\* A time is one of its group's, and a group with answers has its least and greatest times.
LEMMA TimesOfGroups ==
  ASSUME NEW rows \in Rows
  PROVE  /\ \A t \in Times(rows) : \E mti \in MTIs : t \in Times(OfMTI(rows, mti))
         /\ \A mti \in MTIs : Times(OfMTI(rows, mti)) \subseteq Times(rows)
         /\ \A mti \in MTIs : HasTime(OfMTI(rows, mti)) # {} =>
              /\ Min(Times(OfMTI(rows, mti))) \in Times(OfMTI(rows, mti))
              /\ Max(Times(OfMTI(rows, mti))) \in Times(OfMTI(rows, mti))
              /\ \A t \in Times(OfMTI(rows, mti)) :
                   Min(Times(OfMTI(rows, mti))) <= t /\ t <= Max(Times(OfMTI(rows, mti)))
<1>1. rows \subseteq Row
  BY DEF Rows
<1>2. ASSUME NEW t \in Times(rows) PROVE \E mti \in MTIs : t \in Times(OfMTI(rows, mti))
  <2>1. PICK row \in HasTime(rows) : row.time = t
    BY DEF Times
  <2>2. row \in HasTime(OfMTI(rows, row.mti)) /\ row.mti \in MTIs
    BY <1>1, <2>1 DEF HasTime, OfMTI, Row
  <2> QED BY <2>1, <2>2 DEF Times
<1>3. \A mti \in MTIs : Times(OfMTI(rows, mti)) \subseteq Times(rows)
  BY DEF Times, HasTime, OfMTI
<1>4. ASSUME NEW mti \in MTIs, HasTime(OfMTI(rows, mti)) # {}
      PROVE  LET T == Times(OfMTI(rows, mti))
             IN  Min(T) \in T /\ Max(T) \in T /\ \A t \in T : Min(T) <= t /\ t <= Max(T)
  <2> DEFINE T == Times(OfMTI(rows, mti))
  <2>1. T \in SUBSET Nat /\ T # {} /\ IsFiniteSet(T)
    BY <1>4, RowsParts
  <2> HIDE DEF T
  <2>2. Min(T) \in T /\ Max(T) \in T /\ \A t \in T : Min(T) <= t /\ t <= Max(T)
    BY <2>1, LeastIs, GreatestIs
  <2> QED BY <2>2 DEF T
<1> QED BY <1>2, <1>3, <1>4

\* The least of the groups' least times is the least of all; groups without answers are
\* left out.
LEMMA LeastCombined ==
  ASSUME NEW rows \in Rows
  PROVE  Least(Groups(rows)) = IF HasTime(rows) = {} THEN 0 ELSE Min(Times(rows))
<1> DEFINE T(mti) == Times(OfMTI(rows, mti))
           answered == {mti \in MTIs : Groups(rows)[mti].answered > 0}
           mins == {Groups(rows)[mti].min : mti \in answered}
<1>1. \A mti \in MTIs : mti \in answered <=> HasTime(OfMTI(rows, mti)) # {}
  <2> SUFFICES ASSUME NEW mti \in MTIs PROVE mti \in answered <=> HasTime(OfMTI(rows, mti)) # {}
    OBVIOUS
  <2>1. OfMTI(rows, mti) \in Rows
    BY RowsParts
  <2>2. Groups(rows)[mti].answered = Answered(OfMTI(rows, mti))
    BY GroupIs
  <2>3. /\ Answered(OfMTI(rows, mti)) \in Nat
        /\ Answered(OfMTI(rows, mti)) = 0 <=> HasTime(OfMTI(rows, mti)) = {}
    BY <2>1, RowsParts
  <2> QED BY <2>2, <2>3
<1>2. \A mti \in answered : Groups(rows)[mti].min = Min(T(mti)) /\ T(mti) # {}
  <2>1. ASSUME NEW mti \in answered PROVE Groups(rows)[mti].min = Min(T(mti)) /\ T(mti) # {}
    <3>1. mti \in MTIs /\ HasTime(OfMTI(rows, mti)) # {}
      BY <1>1, <2>1
    <3>2. OfMTI(rows, mti) \in Rows
      BY <3>1, RowsParts
    <3>3. T(mti) # {}
      BY <3>1, <3>2, RowsParts
    <3> QED BY <3>1, <3>3, GroupIs
  <2> QED BY <2>1
<1>3. CASE HasTime(rows) = {}
  <2>1. answered = {}
    <3>1. Times(rows) = {}
      BY <1>3, RowsParts
    <3> QED BY <1>2, <3>1, TimesOfGroups
  <2> QED BY <1>3, <2>1 DEF Least
<1>4. CASE HasTime(rows) # {}
  <2>1. Times(rows) \in SUBSET Nat /\ Times(rows) # {}
    BY <1>4, RowsParts
  <2>2. PICK least \in Times(rows) : least = Min(Times(rows)) /\ \A t \in Times(rows) : least <= t
    BY <2>1, LeastIs
  <2>3. \A mti \in answered : Min(T(mti)) \in T(mti) /\ T(mti) \subseteq Times(rows) /\ \A t \in T(mti) : Min(T(mti)) <= t
    BY <1>1, TimesOfGroups
  <2>4. mins \subseteq Times(rows)
    BY <1>2, <2>3
  <2>5. least \in mins
    <3>1. PICK mti \in MTIs : least \in T(mti)
      BY <2>2, TimesOfGroups
    <3>2. mti \in answered
      <4>1. OfMTI(rows, mti) \in Rows
        BY RowsParts
      <4>2. HasTime(OfMTI(rows, mti)) # {}
        BY <3>1, <4>1, RowsParts
      <4> QED BY <1>1, <4>2
    <3>3. Min(T(mti)) <= least /\ least <= Min(T(mti)) /\ Min(T(mti)) \in Times(rows)
      BY <2>2, <2>3, <3>1, <3>2
    <3> DEFINE own == Min(T(mti))
    <3>4. own \in Nat /\ least \in Nat
      BY <2>1, <3>3
    <3>5. own \in mins
      BY <1>2, <3>2
    <3> HIDE DEF own, T, mins
    <3>6. own = least
      BY <3>3, <3>4 DEF own
    <3> QED BY <3>5, <3>6
  <2>6. Min(mins) = least
    <3>1. mins \in SUBSET Nat /\ mins # {}
      BY <2>1, <2>4, <2>5
    <3> HIDE DEF mins
    <3> QED BY <2>2, <2>4, <2>5, <3>1, LeastIs
  <2>7. answered # {}
    BY <2>5
  <2> QED BY <1>4, <2>2, <2>6, <2>7 DEF Least
<1> QED BY <1>3, <1>4

\* The greatest, too; a group without answers has 0.
LEMMA GreatestCombined ==
  ASSUME NEW rows \in Rows
  PROVE  Max({0} \cup {Groups(rows)[mti].max : mti \in MTIs}) =
           IF HasTime(rows) = {} THEN 0 ELSE Max(Times(rows))
<1> DEFINE T(mti) == Times(OfMTI(rows, mti))
           maxs == {0} \cup {Groups(rows)[mti].max : mti \in MTIs}
<1>1. ASSUME NEW mti \in MTIs
      PROVE  \/ T(mti) = {} /\ Groups(rows)[mti].max = 0
             \/ /\ T(mti) # {} /\ Groups(rows)[mti].max = Max(T(mti))
                /\ Max(T(mti)) \in T(mti) /\ \A t \in T(mti) : t <= Max(T(mti))
  <2>1. OfMTI(rows, mti) \in Rows
    BY RowsParts
  <2>2. T(mti) = {} <=> HasTime(OfMTI(rows, mti)) = {}
    BY <2>1, RowsParts
  <2>3. Groups(rows)[mti].max = IF HasTime(OfMTI(rows, mti)) = {} THEN 0 ELSE Max(T(mti))
    BY GroupIs
  <2>4. HasTime(OfMTI(rows, mti)) # {} => Max(T(mti)) \in T(mti) /\ \A t \in T(mti) : t <= Max(T(mti))
    BY TimesOfGroups
  <2> HIDE DEF T
  <2> QED BY <2>2, <2>3, <2>4
<1>2. \A mti \in MTIs : T(mti) \subseteq Times(rows)
  BY TimesOfGroups
<1>3. maxs \subseteq {0} \cup Times(rows)
  BY <1>1, <1>2
<1>4. {0} \cup Times(rows) \in SUBSET Nat /\ IsFiniteSet({0} \cup Times(rows))
  <2>1. Times(rows) \subseteq Nat /\ IsFiniteSet(Times(rows))
    BY RowsParts
  <2>2. IsFiniteSet({0})
    BY FS_Singleton
  <2>3. IsFiniteSet({0} \cup Times(rows))
    BY <2>1, <2>2, FS_Union, Zenon
  <2> QED BY <2>1, <2>3
<1>5. maxs \in SUBSET Nat /\ IsFiniteSet(maxs) /\ maxs # {} /\ 0 \in maxs
  BY <1>3, <1>4, FS_Subset
<1>6. CASE HasTime(rows) = {}
  <2>1. Times(rows) = {}
    BY <1>6, RowsParts
  <2>2. \A y \in maxs : y = 0
    BY <1>3, <2>1
  <2> HIDE DEF maxs
  <2>3. Max(maxs) = 0
    BY <1>5, <2>2, GreatestIs
  <2> QED BY <1>6, <2>3 DEF maxs
<1>7. CASE HasTime(rows) # {}
  <2>1. Times(rows) \in SUBSET Nat /\ Times(rows) # {} /\ IsFiniteSet(Times(rows))
    BY <1>7, RowsParts
  <2>2. PICK most \in Times(rows) : most = Max(Times(rows)) /\ \A t \in Times(rows) : t <= most
    BY <2>1, GreatestIs
  <2>3. most \in maxs
    <3>1. PICK mti \in MTIs : most \in T(mti)
      BY <2>2, TimesOfGroups
    <3> DEFINE own == Max(T(mti))
    <3>2. Groups(rows)[mti].max = own /\ own \in T(mti) /\ most <= own
      BY <1>1, <3>1
    <3>3. own \in Times(rows)
      BY <1>2, <3>2
    <3>4. own \in Nat /\ most \in Nat /\ own <= most
      BY <2>1, <2>2, <3>3
    <3>5. own \in maxs
      BY <3>2
    <3> HIDE DEF own, T, maxs
    <3>6. own = most
      BY <3>2, <3>4
    <3> QED BY <3>5, <3>6
  <2>4. \A y \in maxs : y <= most
    <3>1. \A y \in maxs : y = 0 \/ y \in Times(rows)
      BY <1>3
    <3>2. most \in Nat
      BY <2>1
    <3>3. 0 <= most
      BY <3>2
    <3> HIDE DEF maxs
    <3> QED BY <2>2, <3>1, <3>3
  <2> HIDE DEF maxs
  <2>5. Max(maxs) = most
    BY <1>5, <2>3, <2>4, GreatestIs
  <2> QED BY <1>7, <2>2, <2>5 DEF maxs
<1> QED BY <1>6, <1>7

\* Combining the groups gives the summary of all the rows.
LEMMA CombinedIs == ASSUME NEW rows \in Rows PROVE Combined(Groups(rows)) = Summary(rows)
<1>1. /\ SumFunction([mti \in MTIs |-> Groups(rows)[mti].logged]) = Cardinality(rows)
      /\ SumFunction([mti \in MTIs |-> Groups(rows)[mti].answered]) = Answered(rows)
  BY CountsCombined
<1>2. SumFunction([mti \in MTIs |-> Groups(rows)[mti].sum]) = SumFunction([row \in HasTime(rows) |-> row.time])
  BY SumsCombined
<1>3. Least(Groups(rows)) = IF HasTime(rows) = {} THEN 0 ELSE Min(Times(rows))
  BY LeastCombined
<1>4. Max({0} \cup {Groups(rows)[mti].max : mti \in MTIs}) = IF HasTime(rows) = {} THEN 0 ELSE Max(Times(rows))
  BY GreatestCombined
<1> QED BY <1>1, <1>2, <1>3, <1>4 DEF Combined, Summary

-----------------------------------------------------------------------------
(* Times in their order and percentiles                                    *)

InTimeOrder(s) == \A i, j \in DOMAIN s : i < j => s[i].time <= s[j].time

\* Rows can be put in the order of their times: the last is one with the greatest time.
LEMMA OrderExists ==
  ASSUME NEW R, IsFiniteSet(R), \A row \in R : row.time \in Nat
  PROVE  \E s \in SetToSeqs(R) : InTimeOrder(s)
<1> DEFINE Has(T) == \E s \in SetToSeqs(T) : InTimeOrder(s)
           B == {T \in SUBSET R : ~ Has(T)}
<1>1. ASSUME NEW T \in SUBSET R, T # {} PROVE \E row \in T : \A other \in T : other.time <= row.time
  <2> DEFINE times == {row.time : row \in T}
             f == [row \in T |-> row.time]
  <2>1. f \in Surjection(T, times)
    BY DEF Surjection
  <2>2. IsFiniteSet(T)
    BY FS_Subset
  <2>3. times \in SUBSET Nat /\ times # {} /\ IsFiniteSet(times)
    BY <1>1, <2>1, <2>2, FS_Surjection
  <2>4. \E m \in times : \A y \in times : y <= m
    <3> HIDE DEF times
    <3> QED BY <2>3, GreatestIs
  <2> QED BY <2>4
<1>2. Has({})
  <2> DEFINE s == [i \in 1 .. 0 |-> 0]
  <2>1. 1 .. 0 = {} /\ Cardinality({}) = 0
    BY FS_EmptySet
  <2>2. s \in [1 .. 0 -> {}] /\ DOMAIN s = {}
    BY <2>1
  <2>3. s \in SetToSeqs({}) /\ InTimeOrder(s)
    BY <2>1, <2>2 DEF SetToSeqs, InTimeOrder
  <2> QED BY <2>3
<1>3. ASSUME NEW T \in SUBSET R, NEW last \in T, \A other \in T : other.time <= last.time, Has(T \ {last})
      PROVE  Has(T)
  <2> DEFINE n == Cardinality(T)
  <2>1. IsFiniteSet(T) /\ n \in Nat
    BY FS_Subset, FS_CardinalityType
  <2>2. Cardinality(T \ {last}) = n - 1
    BY <2>1, FS_RemoveElement
  <2>3. n # 0
    BY <2>1, FS_EmptySet
  <2>4. PICK s \in SetToSeqs(T \ {last}) : InTimeOrder(s)
    BY <1>3
  <2>5. s \in [1 .. n - 1 -> T \ {last}] /\ \A i, j \in 1 .. n - 1 : i # j => s[i] # s[j]
    BY <2>2, <2>4 DEF SetToSeqs
  <2> DEFINE q == [i \in 1 .. n |-> IF i = n THEN last ELSE s[i]]
  <2> HIDE DEF n
  <2>6. \A i \in 1 .. n : i # n => i \in 1 .. n - 1
    BY <2>1
  <2>7. q \in [1 .. n -> T]
    BY <2>5, <2>6
  <2>8. \A i, j \in 1 .. n : i # j => q[i] # q[j]
    BY <2>5, <2>6
  <2>9. \A i, j \in 1 .. n : i < j => q[i].time <= q[j].time
    <3> SUFFICES ASSUME NEW i \in 1 .. n, NEW j \in 1 .. n, i < j PROVE q[i].time <= q[j].time
      OBVIOUS
    <3>1. i # n /\ i \in 1 .. n - 1 /\ q[i] = s[i] /\ s[i] \in T
      BY <2>1, <2>5, <2>6
    <3>2. CASE j = n
      BY <1>3, <3>1, <3>2
    <3>3. CASE j # n
      <4>1. j \in 1 .. n - 1 /\ q[j] = s[j] /\ DOMAIN s = 1 .. n - 1
        BY <2>5, <2>6, <3>3
      <4> QED BY <2>4, <3>1, <4>1 DEF InTimeOrder
    <3> QED BY <3>2, <3>3
  <2>10. q \in SetToSeqs(T)
    BY <2>7, <2>8 DEF SetToSeqs, n
  <2>11. InTimeOrder(q)
    <3>1. DOMAIN q = 1 .. n
      OBVIOUS
    <3> HIDE DEF q
    <3> QED BY <2>9, <3>1 DEF InTimeOrder
  <2> QED BY <2>10, <2>11
<1> HIDE DEF Has
<1>4. ASSUME B # {} PROVE FALSE
  <2>1. PICK T \in B : \A x \in T : T \ {x} \notin B
    BY <1>4, SmallestSubset
  <2>2. T \in SUBSET R /\ T # {} /\ ~ Has(T)
    BY <1>2, <2>1
  <2>3. PICK last \in T : \A other \in T : other.time <= last.time
    BY <1>1, <2>2
  <2>4. Has(T \ {last})
    BY <2>1, <2>2
  <2> QED BY <1>3, <2>2, <2>3, <2>4
<1>5. Has(R)
  BY <1>4
<1> QED BY <1>5 DEF Has

\* The sorted times: those of all rows that have one, each once, in order
LEMMA SortedIs ==
  ASSUME NEW rows \in Rows
  PROVE  /\ Len(Sorted(rows)) = Answered(rows) /\ DOMAIN Sorted(rows) = 1 .. Answered(rows)
         /\ \E s \in Bijection(1 .. Answered(rows), HasTime(rows)) :
              /\ \A i \in 1 .. Answered(rows) : Sorted(rows)[i] = s[i].time
              /\ \A i, j \in 1 .. Answered(rows) : i < j => s[i].time <= s[j].time
<1> DEFINE n == Answered(rows)
           s == CHOOSE q \in SetToSeqs(HasTime(rows)) : \A i, j \in DOMAIN q : i < j => q[i].time <= q[j].time
<1>1. IsFiniteSet(HasTime(rows)) /\ n \in Nat /\ \A row \in HasTime(rows) : row.time \in Nat
  BY RowsParts DEF Rows
<1>2. \E q \in SetToSeqs(HasTime(rows)) : \A i, j \in DOMAIN q : i < j => q[i].time <= q[j].time
  BY <1>1, OrderExists DEF InTimeOrder
<1>3. s \in SetToSeqs(HasTime(rows)) /\ \A i, j \in DOMAIN s : i < j => s[i].time <= s[j].time
  BY <1>2
<1>4. Sorted(rows) = [i \in 1 .. Len(s) |-> s[i].time]
  BY DEF Sorted
<1> HIDE DEF s
<1>5. s \in [1 .. n -> HasTime(rows)] /\ \A i, j \in 1 .. n : i # j => s[i] # s[j]
  BY <1>3 DEF SetToSeqs, Answered
<1>6. DOMAIN s = 1 .. n /\ Len(s) = n
  <2>1. s \in Seq(HasTime(rows))
    BY <1>1, <1>5
  <2> QED BY <1>1, <1>5, <2>1
<1>7. s \in Bijection(1 .. n, HasTime(rows))
  <2>1. s \in Injection(1 .. n, HasTime(rows))
    BY <1>5 DEF Injection, IsInjective
  <2>2. Cardinality(1 .. n) = Cardinality(HasTime(rows))
    BY <1>1, FS_Interval DEF Answered
  <2>3. s \in Surjection(1 .. n, HasTime(rows))
    BY <1>1, <2>1, <2>2, FS_Injection
  <2> QED BY <2>1, <2>3 DEF Bijection
<1>8. Len(Sorted(rows)) = n /\ DOMAIN Sorted(rows) = 1 .. n /\ \A i \in 1 .. n : Sorted(rows)[i] = s[i].time
  <2>1. Sorted(rows) \in Seq(Nat)
    <3>1. \A i \in 1 .. n : s[i].time \in Nat
      BY <1>1, <1>5
    <3> QED BY <1>1, <1>4, <1>6, <3>1
  <2> QED BY <1>1, <1>4, <1>6, <2>1
<1> QED BY <1>3, <1>6, <1>7, <1>8

\* The rank of a percentile is the least that reaches it.
LEMMA RankIs ==
  ASSUME NEW p \in 1 .. 100, NEW n \in Nat \ {0}
  PROVE  /\ Rank(p, n) \in 1 .. n /\ 100 * Rank(p, n) >= p * n
         /\ Rank(p, n) = 1 \/ 100 * (Rank(p, n) - 1) < p * n
<1> DEFINE a == p * n
           k == (a + 99) \div 100
<1>1. a \in Nat /\ 1 <= a /\ a <= 100 * n
  <2>1. a \in Nat
    OBVIOUS
  <2>2. p * n <= 100 * n /\ 1 * n <= p * n
    OBVIOUS
  <2> QED BY <2>1, <2>2
<1> HIDE DEF a
<1>2. k \in Nat /\ 1 <= k /\ k <= n /\ 100 * k >= a /\ 100 * (k - 1) < a
  BY <1>1
<1>3. Rank(p, n) = k
  <2>1. {1, k} \in SUBSET Nat /\ IsFiniteSet({1, k}) /\ {1, k} # {}
    <3>1. IsFiniteSet({1} \cup {k})
      <4>1. IsFiniteSet({1})
        BY FS_Singleton
      <4> QED BY <4>1, FS_AddElement
    <3>2. {1, k} = {1} \cup {k}
      OBVIOUS
    <3> QED BY <1>2, <3>1, <3>2
  <2>2. Rank(p, n) = Max({1, k})
    BY DEF Rank, a
  <2> HIDE DEF k
  <2>3. Max({1, k}) = k
    BY <1>2, <2>1, GreatestIs
  <2> QED BY <2>2, <2>3
<1> QED BY <1>1, <1>2, <1>3 DEF a

\* The rows with times up to t
UpTo(rows, t) == {row \in HasTime(rows) : row.time <= t}

\* The percentile picked by its rank is the least time that as many per cent are not above.
LEMMA PercentileIs ==
  ASSUME NEW rows \in Rows, NEW p \in Percents
  PROVE  percentile(Sorted(rows), p) = NearestRank(rows, p)
<1> DEFINE n == Answered(rows)
           sorted == Sorted(rows)
           enough == {t \in Times(rows) : 100 * Cardinality(UpTo(rows, t)) >= p * n}
<1>1. NearestRank(rows, p) = IF enough = {} THEN 0 ELSE Min(enough)
  BY DEF NearestRank, UpTo, Answered
<1>2. p \in 1 .. 100
  BY DEF Percents
<1>3. /\ n \in Nat /\ (n = 0 <=> HasTime(rows) = {}) /\ (Times(rows) = {} <=> HasTime(rows) = {})
      /\ Times(rows) \subseteq Nat /\ IsFiniteSet(HasTime(rows))
  BY RowsParts DEF Rows
<1>4. Len(sorted) = n /\ DOMAIN sorted = 1 .. n
  BY SortedIs
<1>5. CASE n = 0
  <2>1. enough = {}
    BY <1>3, <1>5
  <2>2. sorted = <<>>
    BY <1>4, <1>5 DEF Sorted
  <2> QED BY <1>1, <2>1, <2>2 DEF percentile
<1>6. CASE n # 0
  <2> DEFINE k == Rank(p, n)
  <2>1. k \in 1 .. n /\ 100 * k >= p * n /\ (k = 1 \/ 100 * (k - 1) < p * n)
    BY <1>2, <1>3, <1>6, RankIs
  <2>2. sorted # <<>>
    BY <1>3, <1>4, <1>6
  <2>3. percentile(sorted, p) = sorted[k]
    BY <1>4, <2>2 DEF percentile
  <2>4. PICK s \in Bijection(1 .. n, HasTime(rows)) :
          /\ \A i \in 1 .. n : sorted[i] = s[i].time
          /\ \A i, j \in 1 .. n : i < j => s[i].time <= s[j].time
    BY SortedIs
  <2>5. /\ s \in [1 .. n -> HasTime(rows)] /\ \A i, j \in 1 .. n : s[i] = s[j] => i = j
        /\ \A row \in HasTime(rows) : \E i \in 1 .. n : s[i] = row
    BY <2>4 DEF Bijection, Injection, IsInjective, Surjection
  <2>6. \A row \in HasTime(rows) : row.time \in Nat
    BY RowsParts
  <2> HIDE DEF n, sorted, k
  <2>0. n \in Nat /\ p \in Nat /\ k \in Nat /\ p * n \in Nat
    <3>1. n \in Nat
      BY <1>3
    <3>2. k \in Nat
      BY <2>1, <3>1
    <3>3. p \in Nat
      BY <1>2
    <3> QED BY <3>1, <3>2, <3>3
  <2> DEFINE v == s[k].time
             below == 1 .. k - 1
  <2>7. v \in Times(rows) /\ v \in Nat /\ sorted[k] = v
    BY <2>1, <2>4, <2>5, <2>6 DEF Times
  <2>8. \A t \in Nat : IsFiniteSet(UpTo(rows, t)) /\ Cardinality(UpTo(rows, t)) \in Nat
    BY <1>3, FS_Subset, FS_CardinalityType DEF UpTo
  <2>9. Cardinality(UpTo(rows, v)) >= k
    <3> DEFINE f == [i \in 1 .. k |-> s[i]]
    <3>1. \A i \in 1 .. k : i \in 1 .. n /\ (i < k \/ i = k)
      BY <1>3, <2>1
    <3>2. \A i \in 1 .. k : s[i] \in UpTo(rows, v)
      <4> SUFFICES ASSUME NEW i \in 1 .. k PROVE s[i] \in UpTo(rows, v)
        OBVIOUS
      <4>1. s[i] \in HasTime(rows)
        BY <2>5, <3>1
      <4>2. s[i].time <= v
        BY <2>1, <2>4, <2>7, <3>1
      <4> QED BY <4>1, <4>2 DEF UpTo
    <3>3. f \in Injection(1 .. k, UpTo(rows, v))
      BY <2>5, <3>1, <3>2 DEF Injection, IsInjective
    <3>4. Cardinality(1 .. k) = k /\ k \in Nat
      BY <2>1, FS_Interval
    <3>5. Cardinality(1 .. k) <= Cardinality(UpTo(rows, v))
      BY <2>7, <2>8, <3>3, FS_Injection
    <3> QED BY <2>7, <2>8, <3>4, <3>5
  <2>10. v \in enough
    <3> DEFINE c == Cardinality(UpTo(rows, v))
    <3>1. c \in Nat /\ k \in Nat /\ p * n \in Nat /\ c >= k
      BY <2>0, <2>7, <2>8, <2>9
    <3> HIDE DEF c
    <3>2. 100 * c >= p * n
      BY <2>1, <3>1
    <3> QED BY <2>7, <3>2 DEF c
  <2>11. ASSUME NEW t \in enough PROVE v <= t
    <3>1. t \in Times(rows) /\ t \in Nat /\ 100 * Cardinality(UpTo(rows, t)) >= p * n
      BY <1>3, <2>11
    <3>2. SUFFICES ASSUME t < v PROVE FALSE
      BY <2>7, <3>1
    <3> DEFINE image == {s[i] : i \in below}
               f == [i \in below |-> s[i]]
    <3>3. UpTo(rows, t) \subseteq image
      <4> SUFFICES ASSUME NEW row \in UpTo(rows, t) PROVE row \in image
        OBVIOUS
      <4>1. row \in HasTime(rows) /\ row.time <= t /\ row.time \in Nat
        BY <2>6 DEF UpTo
      <4>2. PICK i \in 1 .. n : s[i] = row
        BY <2>5, <4>1
      <4>3. ~ (k < i) /\ i # k
        <5>1. s[i].time < v
          BY <2>7, <3>1, <3>2, <4>1, <4>2
        <5>2. k < i => v <= s[i].time
          BY <2>1, <2>4
        <5> QED BY <2>7, <4>1, <4>2, <5>1, <5>2
      <4>4. i \in below
        BY <1>3, <2>1, <4>3
      <4> QED BY <4>2, <4>4
    <3>4. f \in Surjection(below, image)
      BY DEF Surjection
    <3>5. IsFiniteSet(below) /\ Cardinality(below) = k - 1
      <4>1. k - 1 \in Nat
        BY <2>0, <2>1
      <4> QED BY <4>1, FS_Interval
    <3> HIDE DEF image
    <3>6. IsFiniteSet(image) /\ Cardinality(image) <= k - 1 /\ Cardinality(image) \in Nat
      BY <3>4, <3>5, FS_Surjection, FS_CardinalityType
    <3>7. Cardinality(UpTo(rows, t)) <= k - 1
      <4>1. Cardinality(UpTo(rows, t)) <= Cardinality(image)
        BY <3>3, <3>6, FS_Subset
      <4> QED BY <2>1, <2>8, <3>1, <3>6, <4>1
    <3>8. Cardinality(UpTo(rows, t)) # 0
      <4>1. UpTo(rows, t) # {}
        BY <2>6, <3>1 DEF UpTo, Times
      <4> QED BY <2>8, <3>1, <4>1, FS_EmptySet
    <3>9. 100 * (k - 1) < p * n
      BY <2>1, <2>8, <3>1, <3>7, <3>8
    <3> DEFINE c == Cardinality(UpTo(rows, t))
    <3>10. c \in Nat /\ c <= k - 1 /\ 100 * c >= p * n /\ k \in Nat /\ p * n \in Nat
      BY <1>2, <1>3, <2>1, <2>8, <3>1, <3>7
    <3> HIDE DEF c
    <3> QED BY <3>9, <3>10
  <2>12. enough \in SUBSET Nat /\ enough # {}
    BY <1>3, <2>10
  <2> HIDE DEF enough, v
  <2>13. Min(enough) = v
    BY <2>10, <2>11, <2>12, LeastIs
  <2> QED BY <1>1, <2>3, <2>7, <2>12, <2>13 DEF sorted
<1> QED BY <1>5, <1>6

-----------------------------------------------------------------------------
(* The two queries and the commits between them                            *)

TypeInv ==
  /\ table \in Rows /\ logged \in Nat
  /\ query \in {"idle", "latencies"} /\ changed \in BOOLEAN

\* Until something is committed, what the first query found is there.
Unchanged ==
  /\ query = "idle" => ~ changed
  /\ query = "latencies" /\ ~ changed => groups = Groups(table)

\* The rows that had a time when they were counted still have one.
StillThere ==
  query = "latencies" =>
    \A mti \in MTIs : /\ groups[mti].answered \in Nat
                      /\ groups[mti].answered <= Answered(OfMTI(table, mti))

IInv == TypeInv /\ Unchanged /\ StillThere

LEMMA InvInit == Init => IInv
<1> SUFFICES ASSUME Init PROVE IInv
  OBVIOUS
<1>1. table \in Rows
  BY FS_EmptySet DEF Init, Rows
<1> QED BY <1>1 DEF Init, IInv, TypeInv, Unchanged, StillThere

\* The log stays one, and no row with a time leaves it.
LEMMA CommitKeeps ==
  ASSUME TypeInv, Commit
  PROVE  /\ table' \in Rows /\ logged' \in Nat
         /\ \A mti \in MTIs : HasTime(OfMTI(table, mti)) \subseteq HasTime(OfMTI(table', mti))
<1>0. table \subseteq Row /\ IsFiniteSet(table) /\ logged \in Nat
  BY DEF TypeInv, Rows
<1>1. CASE \E mti \in MTIs : Insert(mti)
  <2>1. PICK mti \in MTIs : Insert(mti)
    BY <1>1
  <2> DEFINE new == [id |-> logged', mti |-> mti, time |-> NoTime]
  <2>2. PICK row \in Row : table' = table \cup {row}
    <3>1. logged' \in Nat /\ table' = table \cup {new}
      BY <1>0, <2>1 DEF Insert
    <3>2. new \in Row
      BY <3>1 DEF Row
    <3> QED BY <3>1, <3>2
  <2>3. IsFiniteSet(table')
    BY <1>0, <2>2, FS_AddElement
  <2>4. logged' \in Nat
    BY <1>0, <2>1 DEF Insert
  <2> QED BY <1>0, <2>2, <2>3, <2>4 DEF Rows, HasTime, OfMTI
<1>2. CASE \E row \in table : DeleteRequestLog(row)
  <2>1. PICK row \in table : Unanswered(row) /\ table' = table \ {row} /\ logged' = logged
    BY <1>2 DEF DeleteRequestLog
  <2>2. IsFiniteSet(table')
    BY <1>0, <2>1, FS_Subset
  <2> QED BY <1>0, <2>1, <2>2 DEF Unanswered, Rows, HasTime, OfMTI
<1>3. CASE \E row \in table : \E time \in Latency : UpdateResponseTime(row, time)
  <2>1. PICK row \in table, time \in Latency : UpdateResponseTime(row, time)
    BY <1>3
  <2> DEFINE new == [row EXCEPT !.time = time]
  <2>2. Unanswered(row) /\ table' = (table \ {row}) \cup {new} /\ logged' = logged
    BY <2>1 DEF UpdateResponseTime
  <2>3. new \in Row
    BY <1>0 DEF Row
  <2> HIDE DEF new
  <2>4. IsFiniteSet(table \ {row})
    BY <1>0, FS_Subset
  <2>5. IsFiniteSet(table')
    BY <2>2, <2>4, FS_AddElement
  <2> QED BY <1>0, <2>2, <2>3, <2>5 DEF Unanswered, Rows, HasTime, OfMTI
<1> QED BY <1>1, <1>2, <1>3 DEF Commit

LEMMA InvStep == IInv /\ [Next]_vars => IInv'
<1> SUFFICES ASSUME IInv, [Next]_vars PROVE IInv'
  OBVIOUS
<1> USE DEF IInv
<1>1. CASE Commit
  <2>1. /\ table' \in Rows /\ logged' \in Nat
        /\ \A mti \in MTIs : HasTime(OfMTI(table, mti)) \subseteq HasTime(OfMTI(table', mti))
    BY <1>1, CommitKeeps
  <2>2. query' = query /\ groups' = groups /\ changed' = (query # "idle")
    BY <1>1 DEF Commit
  <2>3. \A mti \in MTIs : /\ Answered(OfMTI(table, mti)) \in Nat /\ Answered(OfMTI(table', mti)) \in Nat
                          /\ Answered(OfMTI(table, mti)) <= Answered(OfMTI(table', mti))
    <3> SUFFICES ASSUME NEW mti \in MTIs
                 PROVE  /\ Answered(OfMTI(table, mti)) \in Nat /\ Answered(OfMTI(table', mti)) \in Nat
                        /\ Answered(OfMTI(table, mti)) <= Answered(OfMTI(table', mti))
      OBVIOUS
    <3>1. OfMTI(table, mti) \in Rows /\ OfMTI(table', mti) \in Rows
      BY <2>1, RowsParts DEF TypeInv
    <3>2. Answered(OfMTI(table, mti)) \in Nat /\ Answered(OfMTI(table', mti)) \in Nat
      BY <3>1, RowsParts
    <3>3. IsFiniteSet(HasTime(OfMTI(table', mti)))
      BY <3>1, RowsParts DEF Rows
    <3>4. Cardinality(HasTime(OfMTI(table, mti))) <= Cardinality(HasTime(OfMTI(table', mti)))
      BY <2>1, <3>3, FS_Subset
    <3> QED BY <3>2, <3>4 DEF Answered
  <2>4. TypeInv' /\ Unchanged'
    BY <2>1, <2>2 DEF TypeInv, Unchanged
  <2>5. StillThere'
    BY <2>2, <2>3 DEF StillThere
  <2> QED BY <2>4, <2>5
<1>2. CASE CountGroups
  <2>1. /\ query = "idle" /\ query' = "latencies" /\ groups' = Groups(table)
        /\ table' = table /\ logged' = logged /\ changed' = changed
    BY <1>2 DEF CountGroups
  <2>2. \A mti \in MTIs : Groups(table)[mti].answered = Answered(OfMTI(table, mti))
    BY GroupIs DEF TypeInv
  <2>3. \A mti \in MTIs : Answered(OfMTI(table, mti)) \in Nat
    BY RowsParts DEF TypeInv
  <2>4. TypeInv' /\ Unchanged'
    BY <2>1 DEF TypeInv, Unchanged
  <2>5. StillThere'
    BY <2>1, <2>2, <2>3 DEF StillThere
  <2> QED BY <2>4, <2>5
<1>3. CASE ReadLatencies
  BY <1>3 DEF ReadLatencies, TypeInv, Unchanged, StillThere
<1>4. CASE UNCHANGED vars
  BY <1>4 DEF vars, TypeInv, Unchanged, StillThere
<1> QED BY <1>1, <1>2, <1>3, <1>4 DEF Next

LEMMA InvHolds == Spec => []IInv
<1>1. Init => IInv
  BY InvInit
<1>2. IInv /\ [Next]_vars => IInv'
  BY InvStep
<1> QED BY <1>1, <1>2, PTL DEF Spec

\* The figures of a reply made without a commit between its two queries are those of one
\* table: counts, sum, least and greatest of all rows, and true nearest ranks.
THEOREM FiguresOfOneMoment == Spec => []OneMoment
<1>1. IInv => OneMoment
  <2> SUFFICES ASSUME IInv, query = "latencies", ~ changed
               PROVE  /\ Reply.overall = Summary(table)
                      /\ \A p \in Percents :
                           /\ Reply.latencies.at[p] = NearestRank(table, p)
                           /\ \A mti \in MTIs :
                                Reply.latenciesByMTI[mti].at[p] = NearestRank(OfMTI(table, mti), p)
    BY DEF OneMoment
  <2>1. table \in Rows /\ groups = Groups(table)
    BY DEF IInv, TypeInv, Unchanged
  <2>2. Reply.overall = Combined(groups)
    BY DEF Reply, results
  <2>3. Reply.latencies = Latencies(table) /\ \A mti \in MTIs : Reply.latenciesByMTI[mti] = Latencies(OfMTI(table, mti))
    BY DEF Reply, results
  <2>4. \A rows \in Rows : \A p \in Percents : Latencies(rows).at[p] = NearestRank(rows, p)
    BY PercentileIs DEF Latencies
  <2>5. \A mti \in MTIs : OfMTI(table, mti) \in Rows
    BY <2>1, RowsParts
  <2> QED BY <2>1, <2>2, <2>3, <2>4, <2>5, CombinedIs
<1> QED BY <1>1, InvHolds, PTL

\* Whatever is committed between the queries, a reply has the time of every answer it
\* counts, overall and for each MTI: a row with a time is neither updated nor deleted.
THEOREM CountedWithTimes == Spec => []CountedHaveTimes
<1>1. IInv => CountedHaveTimes
  <2> SUFFICES ASSUME IInv, query = "latencies"
               PROVE  /\ Reply.overall.answered <= Reply.latencies.read
                      /\ \A mti \in MTIs : Reply.byMTI[mti].answered <= Reply.latenciesByMTI[mti].read
    BY DEF CountedHaveTimes
  <2>0. table \in Rows /\ IsFiniteSet(MTIs)
    BY ResultsAssumption DEF IInv, TypeInv, ResultsAssumption
  <2>1. \A mti \in MTIs : /\ OfMTI(table, mti) \in Rows /\ Answered(OfMTI(table, mti)) \in Nat
                          /\ Groups(table)[mti].answered = Answered(OfMTI(table, mti))
                          /\ groups[mti].answered \in Nat
                          /\ groups[mti].answered <= Answered(OfMTI(table, mti))
    <3>1. \A mti \in MTIs : OfMTI(table, mti) \in Rows
      BY <2>0, RowsParts
    <3>2. \A mti \in MTIs : Answered(OfMTI(table, mti)) \in Nat
      BY <3>1, RowsParts
    <3>3. \A mti \in MTIs : Groups(table)[mti].answered = Answered(OfMTI(table, mti))
      BY <2>0, GroupIs
    <3> QED BY <3>1, <3>2, <3>3 DEF IInv, StillThere
  <2>2. \A rows \in Rows : Latencies(rows).read = Answered(rows)
    BY SortedIs DEF Latencies
  <2>3. Reply.overall.answered <= Reply.latencies.read
    <3> DEFINE f == [mti \in MTIs |-> groups[mti].answered]
               g == [mti \in MTIs |-> Groups(table)[mti].answered]
    <3>1. f \in [MTIs -> Nat] /\ g \in [MTIs -> Nat] /\ \A mti \in MTIs : f[mti] <= g[mti]
      BY <2>1
    <3>2. SumFunction(g) = Answered(table)
      BY <2>0, CountsCombined
    <3>3. Reply.overall.answered = SumFunction(f) /\ Reply.latencies = Latencies(table)
      BY DEF Reply, results, Combined
    <3> HIDE DEF f, g
    <3>4. SumFunction(f) <= SumFunction(g)
      BY <2>0, <3>1, SumGrows
    <3> QED BY <2>0, <2>2, <3>2, <3>3, <3>4
  <2>4. \A mti \in MTIs : Reply.byMTI[mti] = groups[mti] /\ Reply.latenciesByMTI[mti] = Latencies(OfMTI(table, mti))
    BY DEF Reply, results
  <2> QED BY <2>1, <2>2, <2>3, <2>4
<1> QED BY <1>1, InvHolds, PTL
=============================================================================
