----------------------------- MODULE FiniteLemmas -----------------------------
(***************************************************************************)
(* Lemmas about finite sets and sequences: sums of numbers, as the         *)
(* community modules define them, one element at a time; steps that are    *)
(* repeated; numbers in order; sequences put one after the other.  The     *)
(* library's theorems on induction take an operator as a parameter; here   *)
(* induction is on sets, by way of minimal elements.                       *)
(***************************************************************************)
EXTENDS SequencesExt, FiniteSetTheorems, SequenceTheorems, TLAPS

-----------------------------------------------------------------------------
(* Induction.                                                              *)

\* A set of subsets of a finite set that has a subset as soon as it has all those of
\* one element less has every subset.
LEMMA SubsetInduction ==
    ASSUME NEW S, IsFiniteSet(S), NEW P,
           \A s \in SUBSET S : (\A x \in s : s \ {x} \in P) => s \in P
    PROVE  \A s \in SUBSET S : s \in P
<1> DEFINE T == (SUBSET S) \ P
           R == StrictSubsetOrdering(S)
<1> SUFFICES ASSUME T # {} PROVE FALSE
    OBVIOUS
<1>1. IsWellFoundedOn(R, SUBSET S)
    <2>1. FiniteSubsetsOf(S) = SUBSET S
        BY FS_FiniteSubsetsOfFinite
    <2>2. IsWellFoundedOn(R, FiniteSubsetsOf(S))
        BY FS_StrictSubsetOrderingWellFounded
    <2>3. QED BY <2>1, <2>2
<1>2. PICK s \in T : \A t \in T : <<t, s>> \notin R
    <2>1. T \subseteq SUBSET S
        OBVIOUS
    <2> HIDE DEF T, R
    <2>2. QED BY <1>1, <2>1, WFMin
<1>3. ASSUME NEW x \in s PROVE s \ {x} \in P
    <2>1. s \ {x} \in SUBSET S /\ s \ {x} \subseteq s /\ s \ {x} # s
        BY <1>2
    <2>2. <<s \ {x}, s>> \in R
        BY <2>1 DEF StrictSubsetOrdering
    <2>3. QED BY <1>2, <2>1, <2>2
<1>4. QED BY <1>2, <1>3

\* A set that has 0 and with every number the next has every number.
LEMMA NumberInduction ==
    ASSUME NEW P, 0 \in P, \A n \in Nat : n \in P => n + 1 \in P
    PROVE  \A n \in Nat : n \in P
<1> SUFFICES ASSUME NEW n \in Nat, n \notin P PROVE FALSE
    OBVIOUS
<1> DEFINE S == 0 .. n
           Q == {s \in SUBSET S : \A k \in Nat : s = 0 .. k => k \in P}
<1>1. IsFiniteSet(S)
    BY FS_Interval
<1>2. ASSUME NEW s \in SUBSET S, \A x \in s : s \ {x} \in Q PROVE s \in Q
    <2> SUFFICES ASSUME NEW k \in Nat, s = 0 .. k PROVE k \in P
        OBVIOUS
    <2>1. CASE k = 0
        BY <2>1
    <2>2. CASE k # 0
        <3>1. k \in s /\ s \ {k} = 0 .. k - 1 /\ k - 1 \in Nat
            BY <2>2
        <3>2. k - 1 \in P
            BY <1>2, <3>1
        <3>3. QED BY <3>1, <3>2
    <2>3. QED BY <2>1, <2>2
<1> HIDE DEF Q
<1>3. \A s \in SUBSET S : s \in Q
    <2> HIDE DEF S
    <2>1. QED BY <1>1, <1>2, SubsetInduction
<1>4. QED BY <1>3 DEF Q

-----------------------------------------------------------------------------
(* The recursion behind a sum.                                             *)

\* Any element of a set.
Some(s) == CHOOSE x \in s : TRUE

\* g obeys the recursion of a sum over f at subset s.
Sums(f, g, s) == g[s] = IF s = {} THEN 0 ELSE f[Some(s)] + g[s \ {Some(s)}]

\* At every subset.
IsSum(f, S, g) ==
    g = [s \in SUBSET S |-> IF s = {} THEN 0 ELSE f[Some(s)] + g[s \ {Some(s)}]]

\* An element of a set.
LEMMA SomeElement == ASSUME NEW s, s # {} PROVE Some(s) \in s
BY DEF Some

\* There is a function that obeys it everywhere.
LEMMA SumExists ==
    ASSUME NEW S, IsFiniteSet(S), NEW f
    PROVE  \E g : IsSum(f, S, g)
<1> DEFINE UpTo(g, n) == \A s \in SUBSET S : Cardinality(s) <= n => Sums(f, g, s)
           N == {n \in Nat : \E g : UpTo(g, n)}
<1>1. \A s \in SUBSET S : IsFiniteSet(s) /\ Cardinality(s) \in Nat
    BY FS_Subset, FS_CardinalityType
<1>2. 0 \in N
    <2> DEFINE g == [s \in SUBSET S |-> 0]
    <2>1. ASSUME NEW s \in SUBSET S, Cardinality(s) <= 0 PROVE s = {}
        BY <1>1, <2>1, FS_EmptySet
    <2>2. UpTo(g, 0)
        BY <2>1 DEF Sums
    <2>3. QED BY <2>2
<1>3. ASSUME NEW n \in Nat, n \in N PROVE n + 1 \in N
    <2>1. PICK g : UpTo(g, n)
        BY <1>3
    <2> DEFINE h == [s \in SUBSET S |-> IF s = {} THEN 0 ELSE f[Some(s)] + g[s \ {Some(s)}]]
    <2>2. ASSUME NEW s \in SUBSET S, Cardinality(s) <= n PROVE h[s] = g[s]
        BY <2>1, <2>2 DEF Sums
    <2>3. ASSUME NEW s \in SUBSET S, Cardinality(s) <= n + 1 PROVE Sums(f, h, s)
        <3>1. CASE s = {}
            BY <3>1 DEF Sums
        <3>2. CASE s # {}
            <4>1. s \ {Some(s)} \in SUBSET S /\ Cardinality(s \ {Some(s)}) <= n
                BY <1>1, <2>3, <3>2, SomeElement, FS_RemoveElement
            <4>2. h[s \ {Some(s)}] = g[s \ {Some(s)}]
                BY <2>2, <4>1
            <4>3. QED BY <3>2, <4>2 DEF Sums
        <3>3. QED BY <3>1, <3>2
    <2>4. UpTo(h, n + 1)
        BY <2>3
    <2> HIDE DEF h, UpTo
    <2>5. QED BY <2>4
<1> HIDE DEF N
<1>4. Cardinality(S) \in N
    BY <1>1, <1>2, <1>3, NumberInduction
<1>5. PICK g : UpTo(g, Cardinality(S))
    BY <1>4 DEF N
<1>6. \A s \in SUBSET S : Sums(f, g, s)
    BY <1>5, FS_Subset
<1> DEFINE h == [s \in SUBSET S |-> g[s]]
           step(k, s) == IF s = {} THEN 0 ELSE f[Some(s)] + k[s \ {Some(s)}]
<1>7. \A s \in SUBSET S : h[s] = step(h, s)
    BY <1>6 DEF Sums
<1>8. IsSum(f, S, h)
    BY <1>7 DEF IsSum
<1> HIDE DEF h
<1>9. QED BY <1>8

\* So it is what the sum is computed by.
LEMMA SumIs ==
    ASSUME NEW S, IsFiniteSet(S), NEW f
    PROVE  \E g : SumFunctionOnSet(f, S) = g[S] /\ \A s \in SUBSET S : Sums(f, g, s)
<1> DEFINE iter == CHOOSE g : IsSum(f, S, g)
<1>1. IsSum(f, S, iter)
    BY SumExists
<1>2. SumFunctionOnSet(f, S) = iter[S]
    BY DEF SumFunctionOnSet, FoldFunctionOnSet, MapThenFoldSet, Some, IsSum
<1> HIDE DEF iter
<1>3. \A s \in SUBSET S : Sums(f, iter, s)
    BY <1>1 DEF Sums, IsSum
<1>4. QED BY <1>2, <1>3

\* Two functions that obey it for the same numbers are one.
LEMMA SumsAgree ==
    ASSUME NEW S, IsFiniteSet(S), NEW f, NEW h, \A x \in S : f[x] = h[x],
           NEW g, \A s \in SUBSET S : Sums(f, g, s),
           NEW k, \A s \in SUBSET S : Sums(h, k, s)
    PROVE  g[S] = k[S]
<1> DEFINE P == {s \in SUBSET S : g[s] = k[s]}
<1>1. ASSUME NEW s \in SUBSET S, \A x \in s : s \ {x} \in P PROVE s \in P
    <2>1. CASE s = {}
        BY <2>1 DEF Sums
    <2>2. CASE s # {}
        <3>1. Some(s) \in s
            BY <2>2, SomeElement
        <3>2. g[s \ {Some(s)}] = k[s \ {Some(s)}] /\ f[Some(s)] = h[Some(s)]
            BY <1>1, <3>1
        <3>3. QED BY <2>2, <3>2 DEF Sums
    <2>3. QED BY <2>1, <2>2
<1> HIDE DEF P
<1>2. \A s \in SUBSET S : s \in P
    BY <1>1, SubsetInduction
<1>3. QED BY <1>2 DEF P

\* A sum of numbers is a number.
LEMMA SumsType ==
    ASSUME NEW S, IsFiniteSet(S), NEW T \in {Nat, Int}, NEW f, \A x \in S : f[x] \in T,
           NEW g, \A s \in SUBSET S : Sums(f, g, s)
    PROVE  \A s \in SUBSET S : g[s] \in T
<1> DEFINE P == {s \in SUBSET S : g[s] \in T}
<1>1. ASSUME NEW s \in SUBSET S, \A x \in s : s \ {x} \in P PROVE s \in P
    <2>1. CASE s = {}
        BY <2>1 DEF Sums
    <2>2. CASE s # {}
        <3>1. Some(s) \in s
            BY <2>2, SomeElement
        <3>2. g[s \ {Some(s)}] \in T /\ f[Some(s)] \in T
            BY <1>1, <3>1
        <3>3. QED BY <2>2, <3>2 DEF Sums
    <2>3. QED BY <2>1, <2>2
<1> HIDE DEF P
<1>2. \A s \in SUBSET S : s \in P
    BY <1>1, SubsetInduction
<1>3. QED BY <1>2 DEF P

\* Any element may come first.
LEMMA SumsInAnyOrder ==
    ASSUME NEW S, IsFiniteSet(S), NEW f, \A x \in S : f[x] \in Int,
           NEW g, \A s \in SUBSET S : Sums(f, g, s)
    PROVE  \A x \in S : g[S] = f[x] + g[S \ {x}]
<1>1. \A s \in SUBSET S : g[s] \in Int
    BY SumsType
<1> DEFINE P == {s \in SUBSET S : \A x \in s : g[s] = f[x] + g[s \ {x}]}
<1>2. ASSUME NEW s \in SUBSET S, \A x \in s : s \ {x} \in P PROVE s \in P
    <2> SUFFICES ASSUME NEW x \in s PROVE g[s] = f[x] + g[s \ {x}]
        OBVIOUS
    <2> DEFINE y == Some(s)
    <2>1. y \in s /\ g[s] = f[y] + g[s \ {y}]
        BY SomeElement DEF Sums
    <2> HIDE DEF y
    <2>2. CASE x = y
        BY <2>1, <2>2
    <2>3. CASE x # y
        <3>1. /\ g[s \ {y}] = f[x] + g[(s \ {y}) \ {x}]
              /\ g[s \ {x}] = f[y] + g[(s \ {x}) \ {y}]
            BY <1>2, <2>1, <2>3
        <3>2. g[(s \ {y}) \ {x}] = g[(s \ {x}) \ {y}]
            <4>1. (s \ {y}) \ {x} = (s \ {x}) \ {y}
                OBVIOUS
            <4>2. QED BY <4>1
        <3>3. g[(s \ {x}) \ {y}] \in Int /\ f[x] \in Int /\ f[y] \in Int
            BY <1>1, <2>1
        <3>4. QED BY <2>1, <3>1, <3>2, <3>3
    <2>4. QED BY <2>2, <2>3
<1> HIDE DEF P
<1>3. \A s \in SUBSET S : s \in P
    BY <1>2, SubsetInduction
<1>4. QED BY <1>3 DEF P

-----------------------------------------------------------------------------
(* What a sum is.                                                          *)

\* The sum of nothing.
LEMMA SumOfNone == ASSUME NEW f PROVE SumFunctionOnSet(f, {}) = 0
BY SumIs, FS_EmptySet DEF Sums

\* A sum of numbers is a number.
LEMMA SumType ==
    ASSUME NEW S, IsFiniteSet(S), NEW T \in {Nat, Int}, NEW f, \A x \in S : f[x] \in T
    PROVE  SumFunctionOnSet(f, S) \in T
BY SumIs, SumsType

\* Functions with the same values on a set have the same sum on it.
LEMMA SumOfSame ==
    ASSUME NEW S, IsFiniteSet(S), NEW f, NEW h, \A x \in S : f[x] = h[x]
    PROVE  SumFunctionOnSet(f, S) = SumFunctionOnSet(h, S)
<1>1. PICK g : SumFunctionOnSet(f, S) = g[S] /\ \A s \in SUBSET S : Sums(f, g, s)
    BY SumIs
<1>2. PICK k : SumFunctionOnSet(h, S) = k[S] /\ \A s \in SUBSET S : Sums(h, k, s)
    BY SumIs
<1>3. QED BY <1>1, <1>2, SumsAgree

\* One element is taken out of the sum.
LEMMA SumWithout ==
    ASSUME NEW S, IsFiniteSet(S), NEW f, \A x \in S : f[x] \in Int, NEW x \in S
    PROVE  SumFunctionOnSet(f, S) = f[x] + SumFunctionOnSet(f, S \ {x})
<1>1. PICK g : SumFunctionOnSet(f, S) = g[S] /\ \A s \in SUBSET S : Sums(f, g, s)
    BY SumIs
<1>2. IsFiniteSet(S \ {x})
    BY FS_RemoveElement
<1>3. PICK k : /\ SumFunctionOnSet(f, S \ {x}) = k[S \ {x}]
               /\ \A s \in SUBSET (S \ {x}) : Sums(f, k, s)
    BY <1>2, SumIs
<1>4. g[S] = f[x] + g[S \ {x}]
    BY <1>1, SumsInAnyOrder
<1>5. g[S \ {x}] = k[S \ {x}]
    BY <1>1, <1>2, <1>3, SumsAgree
<1>6. QED BY <1>1, <1>3, <1>4, <1>5

\* One element has another value.
LEMMA SumChanges ==
    ASSUME NEW S, IsFiniteSet(S), NEW f, \A x \in S : f[x] \in Int, NEW x \in S,
           NEW h, h[x] \in Int, \A y \in S \ {x} : h[y] = f[y]
    PROVE  /\ SumFunctionOnSet(f, S) \in Int
           /\ SumFunctionOnSet(h, S) = SumFunctionOnSet(f, S) + (h[x] - f[x])
<1>1. IsFiniteSet(S \ {x})
    BY FS_RemoveElement
<1>2. SumFunctionOnSet(h, S \ {x}) = SumFunctionOnSet(f, S \ {x})
    BY <1>1, SumOfSame
<1>3. SumFunctionOnSet(f, S) = f[x] + SumFunctionOnSet(f, S \ {x})
    BY SumWithout
<1>4. SumFunctionOnSet(h, S) = h[x] + SumFunctionOnSet(h, S \ {x})
    BY SumWithout
<1>5. SumFunctionOnSet(f, S \ {x}) \in Int
    BY <1>1, SumType
<1>6. QED BY <1>2, <1>3, <1>4, <1>5

\* An element is added that counts for nothing.
LEMMA SumGrows ==
    ASSUME NEW S, IsFiniteSet(S), NEW f, \A x \in S : f[x] \in Int, NEW x, x \notin S,
           NEW h, h[x] = 0, \A y \in S : h[y] = f[y]
    PROVE  SumFunctionOnSet(h, S \cup {x}) = SumFunctionOnSet(f, S)
<1>1. IsFiniteSet(S \cup {x}) /\ (S \cup {x}) \ {x} = S
    BY FS_AddElement
<1>2. SumFunctionOnSet(h, S \cup {x}) = h[x] + SumFunctionOnSet(h, S)
    <2>1. \A y \in S \cup {x} : h[y] \in Int
        OBVIOUS
    <2>2. QED BY <1>1, <2>1, SumWithout
<1>3. SumFunctionOnSet(h, S) = SumFunctionOnSet(f, S)
    BY SumOfSame
<1>4. SumFunctionOnSet(f, S) \in Int
    BY SumType
<1>5. QED BY <1>2, <1>3, <1>4

\* A finite set of numbers that is not empty has a smallest one.
LEMMA SmallestOfSet ==
    ASSUME NEW S, IsFiniteSet(S), S \subseteq Int, S # {}
    PROVE  Min(S) \in S /\ \A y \in S : Min(S) <= y
<1> DEFINE P == {s \in SUBSET S : s # {} => \E x \in s : \A y \in s : x <= y}
<1>1. ASSUME NEW s \in SUBSET S, \A x \in s : s \ {x} \in P PROVE s \in P
    <2> SUFFICES ASSUME NEW x \in s PROVE \E m \in s : \A y \in s : m <= y
        OBVIOUS
    <2>1. CASE s \ {x} = {}
        <3>1. \A y \in s : y = x
            BY <2>1
        <3>2. QED BY <3>1
    <2>2. CASE s \ {x} # {}
        <3>1. PICK m \in s \ {x} : \A y \in s \ {x} : m <= y
            BY <1>1, <2>2
        <3>2. CASE m <= x
            BY <3>1, <3>2
        <3>3. CASE x <= m
            BY <3>1, <3>3
        <3>4. QED BY <3>2, <3>3
    <2>3. QED BY <2>1, <2>2
<1> HIDE DEF P
<1>2. S \in P
    BY <1>1, SubsetInduction
<1>3. \E x \in S : \A y \in S : x <= y
    BY <1>2 DEF P
<1>4. QED BY <1>3 DEF Min

-----------------------------------------------------------------------------
(* Counting the elements of a set that comes in parts.                     *)

\* The sizes of parts without common elements add up to that of their union.
LEMMA SumOfParts ==
    ASSUME NEW S, IsFiniteSet(S), NEW part, \A x \in S : IsFiniteSet(part[x]),
           \A x, y \in S : x # y => part[x] \cap part[y] = {},
           NEW f, \A x \in S : f[x] = Cardinality(part[x])
    PROVE  /\ IsFiniteSet(UNION {part[x] : x \in S})
           /\ Cardinality(UNION {part[x] : x \in S}) = SumFunctionOnSet(f, S)
<1> DEFINE Parts(s) == UNION {part[x] : x \in s}
           P == {s \in SUBSET S : /\ IsFiniteSet(Parts(s))
                                  /\ Cardinality(Parts(s)) = SumFunctionOnSet(f, s)}
<1>1. \A x \in S : f[x] \in Int
    BY FS_CardinalityType
<1>2. ASSUME NEW s \in SUBSET S, \A x \in s : s \ {x} \in P PROVE s \in P
    <2>1. IsFiniteSet(s)
        BY FS_Subset
    <2>2. CASE s = {}
        <3>1. Parts(s) = {}
            BY <2>2
        <3>2. IsFiniteSet(Parts(s)) /\ Cardinality(Parts(s)) = 0
            BY <3>1, FS_EmptySet
        <3>3. SumFunctionOnSet(f, s) = 0
            BY <2>2, SumOfNone
        <3>4. QED BY <3>2, <3>3
    <2>3. CASE s # {}
        <3>1. PICK x \in s : TRUE
            BY <2>3
        <3>2. IsFiniteSet(Parts(s \ {x})) /\ Cardinality(Parts(s \ {x})) = SumFunctionOnSet(f, s \ {x})
            BY <1>2, <3>1
        <3>3. Parts(s) = Parts(s \ {x}) \cup part[x] /\ Parts(s \ {x}) \cap part[x] = {}
            BY <3>1
        <3>4. IsFiniteSet(part[x]) /\ Cardinality(part[x]) = f[x]
            BY <3>1
        <3> DEFINE A == Parts(s \ {x})
                   B == part[x]
        <3> HIDE DEF Parts
        <3>5. /\ IsFiniteSet(Parts(s))
              /\ Cardinality(Parts(s)) = Cardinality(Parts(s \ {x})) + f[x] - Cardinality({})
            <4>1. IsFiniteSet(A) /\ IsFiniteSet(B) /\ A \cap B = {} /\ Parts(s) = A \cup B
                  /\ Cardinality(B) = f[x]
                BY <3>2, <3>3, <3>4
            <4> HIDE DEF A, B
            <4>2. IsFiniteSet(A \cup B) /\ Cardinality(A \cup B) = Cardinality(A) + Cardinality(B) - Cardinality(A \cap B)
                BY <4>1, FS_Union
            <4>3. /\ IsFiniteSet(Parts(s))
                  /\ Cardinality(Parts(s)) = Cardinality(A) + f[x] - Cardinality({})
                BY <4>1, <4>2
            <4>4. QED BY <4>3 DEF A
        <3>6. Cardinality({}) = 0
            BY FS_EmptySet
        <3>7. SumFunctionOnSet(f, s) = f[x] + SumFunctionOnSet(f, s \ {x})
            BY <1>1, <2>1, <3>1, SumWithout
        <3>8. Cardinality(Parts(s \ {x})) \in Nat /\ f[x] \in Int
            BY <1>1, <3>1, <3>2, FS_CardinalityType
        <3>9. QED BY <3>2, <3>5, <3>6, <3>7, <3>8
    <2>4. QED BY <2>2, <2>3
<1> HIDE DEF P
<1>3. S \in P
    BY <1>2, SubsetInduction
<1>4. QED BY <1>3 DEF P

\* As many ones as a set has elements.
LEMMA SumOfOnes ==
    ASSUME NEW S, IsFiniteSet(S), NEW f, \A x \in S : f[x] = 1
    PROVE  SumFunctionOnSet(f, S) = Cardinality(S)
<1> DEFINE part == [x \in S |-> {x}]
<1>1. \A x \in S : part[x] = {x} /\ IsFiniteSet(part[x]) /\ f[x] = Cardinality(part[x])
    BY FS_Singleton
<1>2. \A x, y \in S : x # y => part[x] \cap part[y] = {}
    OBVIOUS
<1>3. UNION {part[x] : x \in S} = S
    BY <1>1
<1> HIDE DEF part
<1>4. Cardinality(UNION {part[x] : x \in S}) = SumFunctionOnSet(f, S)
    BY <1>1, <1>2, SumOfParts
<1>5. QED BY <1>3, <1>4

\* A sum of naturals is positive exactly if one of them is.
LEMMA SumIsPositive ==
    ASSUME NEW S, IsFiniteSet(S), NEW f, \A x \in S : f[x] \in Nat
    PROVE  SumFunctionOnSet(f, S) > 0 <=> \E x \in S : f[x] > 0
<1>1. ASSUME NEW x \in S, f[x] > 0 PROVE SumFunctionOnSet(f, S) > 0
    <2>1. SumFunctionOnSet(f, S) = f[x] + SumFunctionOnSet(f, S \ {x})
        BY SumWithout
    <2>2. IsFiniteSet(S \ {x})
        BY FS_RemoveElement
    <2>3. SumFunctionOnSet(f, S \ {x}) \in Nat
        BY <2>2, SumType
    <2>4. QED BY <1>1, <2>1, <2>3
<1>2. ASSUME \A x \in S : ~(f[x] > 0) PROVE SumFunctionOnSet(f, S) = 0
    <2> DEFINE part == [x \in S |-> {}]
    <2>1. \A x \in S : part[x] = {} /\ IsFiniteSet(part[x]) /\ f[x] = Cardinality(part[x])
        BY <1>2, FS_EmptySet
    <2>2. \A x, y \in S : x # y => part[x] \cap part[y] = {}
        OBVIOUS
    <2>3. UNION {part[x] : x \in S} = {}
        BY <2>1
    <2> HIDE DEF part
    <2>4. Cardinality(UNION {part[x] : x \in S}) = SumFunctionOnSet(f, S)
        BY <2>1, <2>2, SumOfParts
    <2>5. QED BY <2>3, <2>4, FS_EmptySet
<1>3. QED BY <1>1, <1>2

-----------------------------------------------------------------------------
(* Products.                                                               *)

\* g obeys the recursion of a product over f at every subset of S.
IsProduct(f, S, g) ==
    g = [s \in SUBSET S |-> IF s = {} THEN 1 ELSE f[Some(s)] * g[s \ {Some(s)}]]

\* There is a function that obeys it.
LEMMA ProductExists ==
    ASSUME NEW S, IsFiniteSet(S), NEW f
    PROVE  \E g : IsProduct(f, S, g)
<1> DEFINE Times(g, s) == g[s] = IF s = {} THEN 1 ELSE f[Some(s)] * g[s \ {Some(s)}]
           UpTo(g, n) == \A s \in SUBSET S : Cardinality(s) <= n => Times(g, s)
           N == {n \in Nat : \E g : UpTo(g, n)}
<1>1. \A s \in SUBSET S : IsFiniteSet(s) /\ Cardinality(s) \in Nat
    BY FS_Subset, FS_CardinalityType
<1>2. 0 \in N
    <2> DEFINE g == [s \in SUBSET S |-> 1]
    <2>1. ASSUME NEW s \in SUBSET S, Cardinality(s) <= 0 PROVE s = {}
        BY <1>1, <2>1, FS_EmptySet
    <2>2. UpTo(g, 0)
        BY <2>1
    <2>3. QED BY <2>2
<1>3. ASSUME NEW n \in Nat, n \in N PROVE n + 1 \in N
    <2>1. PICK g : UpTo(g, n)
        BY <1>3
    <2> DEFINE h == [s \in SUBSET S |-> IF s = {} THEN 1 ELSE f[Some(s)] * g[s \ {Some(s)}]]
    <2>2. ASSUME NEW s \in SUBSET S, Cardinality(s) <= n PROVE h[s] = g[s]
        BY <2>1, <2>2
    <2>3. ASSUME NEW s \in SUBSET S, Cardinality(s) <= n + 1 PROVE Times(h, s)
        <3>1. CASE s = {}
            BY <3>1
        <3>2. CASE s # {}
            <4>1. s \ {Some(s)} \in SUBSET S /\ Cardinality(s \ {Some(s)}) <= n
                BY <1>1, <2>3, <3>2, SomeElement, FS_RemoveElement
            <4>2. h[s \ {Some(s)}] = g[s \ {Some(s)}]
                BY <2>2, <4>1
            <4>3. QED BY <3>2, <4>2
        <3>3. QED BY <3>1, <3>2
    <2>4. UpTo(h, n + 1)
        BY <2>3
    <2> HIDE DEF h, UpTo
    <2>5. QED BY <2>4
<1> HIDE DEF N
<1>4. Cardinality(S) \in N
    BY <1>1, <1>2, <1>3, NumberInduction
<1>5. PICK g : UpTo(g, Cardinality(S))
    BY <1>4 DEF N
<1>6. \A s \in SUBSET S : Times(g, s)
    BY <1>5, FS_Subset
<1> DEFINE h == [s \in SUBSET S |-> g[s]]
           step(k, s) == IF s = {} THEN 1 ELSE f[Some(s)] * k[s \ {Some(s)}]
<1>7. \A s \in SUBSET S : h[s] = step(h, s)
    BY <1>6
<1>8. IsProduct(f, S, h)
    BY <1>7 DEF IsProduct
<1> HIDE DEF h
<1>9. QED BY <1>8

\* A product of positive numbers is positive.
LEMMA ProductType ==
    ASSUME NEW S, IsFiniteSet(S), NEW f, \A x \in S : f[x] \in Nat \ {0},
           NEW g, IsProduct(f, S, g)
    PROVE  g[S] \in Nat \ {0}
<1> DEFINE P == {s \in SUBSET S : g[s] \in Nat \ {0}}
<1>1. ASSUME NEW s \in SUBSET S, \A x \in s : s \ {x} \in P PROVE s \in P
    <2>1. g[s] = IF s = {} THEN 1 ELSE f[Some(s)] * g[s \ {Some(s)}]
        BY DEF IsProduct
    <2>2. CASE s # {}
        <3> DEFINE a == f[Some(s)]
                   b == g[s \ {Some(s)}]
        <3>1. Some(s) \in s
            BY <2>2, SomeElement
        <3>2. a \in Nat \ {0} /\ b \in Nat \ {0} /\ g[s] = a * b
            BY <1>1, <2>1, <2>2, <3>1
        <3> HIDE DEF a, b
        <3>3. a * b \in Nat \ {0}
            BY <3>2
        <3>4. QED BY <3>2, <3>3
    <2>3. QED BY <2>1, <2>2
<1> HIDE DEF P
<1>2. \A s \in SUBSET S : s \in P
    BY <1>1, SubsetInduction
<1>3. QED BY <1>2 DEF P

-----------------------------------------------------------------------------
(* Images.                                                                 *)

\* The values a function takes on a finite set are finitely many.
LEMMA FiniteImage ==
    ASSUME NEW S, IsFiniteSet(S), NEW f
    PROVE  IsFiniteSet({f[x] : x \in S})
<1> DEFINE T == {f[x] : x \in S}
           h == [x \in S |-> f[x]]
<1>1. h \in [S -> T] /\ \A t \in T : \E x \in S : h[x] = t
    OBVIOUS
<1> HIDE DEF h, T
<1>2. h \in Surjection(S, T)
    BY <1>1 DEF Surjection
<1>3. QED BY <1>2, FS_Surjection DEF T

\* A finite set of numbers that is not empty has a largest one.
LEMMA LargestOfSet ==
    ASSUME NEW S, IsFiniteSet(S), S \subseteq Int, S # {}
    PROVE  Max(S) \in S /\ \A y \in S : y <= Max(S)
<1> DEFINE f == [x \in S |-> 0 - x]
           T == {f[x] : x \in S}
<1>1. \A x \in S : f[x] = 0 - x /\ f[x] \in Int
    OBVIOUS
<1> HIDE DEF f
<1>2. IsFiniteSet(T) /\ T \subseteq Int /\ T # {}
    BY <1>1, FiniteImage
<1>3. \A t \in T : \E x \in S : t = f[x]
    OBVIOUS
<1>4. \A x \in S : f[x] \in T
    OBVIOUS
<1> HIDE DEF T
<1>5. Min(T) \in T /\ \A t \in T : Min(T) <= t
    BY <1>2, SmallestOfSet
<1>6. PICK x \in S : Min(T) = f[x]
    BY <1>3, <1>5
<1>7. \A y \in S : y <= x
    BY <1>1, <1>4, <1>5, <1>6
<1>8. \E z \in S : \A y \in S : z >= y
    BY <1>7
<1>9. QED BY <1>8 DEF Max

-----------------------------------------------------------------------------
(* Steps that are repeated.                                                *)

\* f starts at base, and step[k] leads to f[k].
IsRun(f, base, step, n) == f = [k \in 0 .. n |-> IF k = 0 THEN base ELSE step[k][f[k - 1]]]

\* There is a run of any length.
LEMMA RunExists ==
    ASSUME NEW base, NEW step, NEW n \in Nat
    PROVE  \E f : IsRun(f, base, step, n)
<1> DEFINE P == {m \in Nat : \E f : IsRun(f, base, step, m)}
<1>1. 0 \in P
    <2> DEFINE f == [k \in 0 .. 0 |-> base]
    <2>1. IsRun(f, base, step, 0)
        BY DEF IsRun
    <2>2. QED BY <2>1
<1>2. ASSUME NEW m \in Nat, m \in P PROVE m + 1 \in P
    <2>1. PICK f : IsRun(f, base, step, m)
        BY <1>2
    <2> DEFINE g == [k \in 0 .. m + 1 |-> IF k <= m THEN f[k] ELSE step[m + 1][f[m]]]
    <2>2. /\ \A k \in 0 .. m : g[k] = IF k = 0 THEN base ELSE step[k][f[k - 1]]
          /\ g[m + 1] = step[m + 1][f[m]]
          /\ \A k \in 0 .. m : g[k] = f[k]
        BY <2>1 DEF IsRun
    <2>3. g = [k \in 0 .. m + 1 |-> g[k]]
        OBVIOUS
    <2> HIDE DEF g
    <2>4. \A k \in 0 .. m + 1 : g[k] = IF k = 0 THEN base ELSE step[k][g[k - 1]]
        <3>1. \A k \in 1 .. m + 1 : g[k - 1] = f[k - 1]
            BY <2>2
        <3>2. QED BY <2>2, <3>1
    <2>5. IsRun(g, base, step, m + 1)
        BY <2>3, <2>4 DEF IsRun
    <2>6. QED BY <2>5
<1> HIDE DEF P
<1>3. \A m \in Nat : m \in P
    BY <1>1, <1>2, NumberInduction
<1>4. QED BY <1>3 DEF P

\* What every step keeps holds all the way.
LEMMA RunStays ==
    ASSUME NEW n \in Nat, NEW X, NEW f, f[0] \in X[0],
           \A k \in 1 .. n : f[k - 1] \in X[k - 1] => f[k] \in X[k]
    PROVE  \A k \in 0 .. n : f[k] \in X[k]
<1> DEFINE P == {m \in Nat : m <= n => f[m] \in X[m]}
<1>1. 0 \in P
    OBVIOUS
<1>2. ASSUME NEW m \in Nat, m \in P PROVE m + 1 \in P
    <2> SUFFICES ASSUME m + 1 <= n PROVE f[m + 1] \in X[m + 1]
        OBVIOUS
    <2>1. m + 1 \in 1 .. n /\ (m + 1) - 1 = m /\ f[m] \in X[m]
        BY <1>2
    <2>2. QED BY <2>1
<1> HIDE DEF P
<1>3. \A m \in Nat : m \in P
    BY <1>1, <1>2, NumberInduction
<1>4. QED BY <1>3 DEF P

\* A run that stays in X.
IsRunThrough(f, X, base, step, n) ==
    /\ f = [k \in 0 .. n |-> f[k]] /\ f[0] = base
    /\ \A k \in 1 .. n : f[k] = step[k][f[k - 1]] /\ f[k - 1] \in X[k - 1]

\* Steps that lead from each X to the next have a run through them.
LEMMA RunFound ==
    ASSUME NEW n \in Nat, NEW X, NEW base, base \in X[0], NEW step,
           \A k \in 1 .. n : \A u \in X[k - 1] : step[k][u] \in X[k]
    PROVE  \E f : IsRunThrough(f, X, base, step, n)
<1>1. PICK f : IsRun(f, base, step, n)
    BY RunExists
<1>2. 0 \in 0 .. n /\ \A k \in 1 .. n : k \in 0 .. n /\ k - 1 \in 0 .. n /\ k # 0
    OBVIOUS
<1>3. f[0] = base /\ \A k \in 1 .. n : f[k] = step[k][f[k - 1]]
    BY <1>1, <1>2 DEF IsRun
<1>4. \A k \in 1 .. n : f[k - 1] \in X[k - 1] => f[k] \in X[k]
    BY <1>3
<1>5. f[0] \in X[0]
    BY <1>3
<1>6. \A k \in 0 .. n : f[k] \in X[k]
    BY <1>4, <1>5, RunStays
<1>7. f = [k \in 0 .. n |-> f[k]]
    BY <1>1 DEF IsRun
<1>8. IsRunThrough(f, X, base, step, n)
    BY <1>2, <1>3, <1>6, <1>7 DEF IsRunThrough
<1>9. QED BY <1>8

-----------------------------------------------------------------------------
(* Sequences.                                                              *)

\* How many of a finite set of numbers are below one of them: each number less than
\* the size of the set, once.
LEMMA RanksAreNumbers ==
    ASSUME NEW S, IsFiniteSet(S), S \subseteq Nat
    PROVE  /\ \A x \in S : Cardinality({y \in S : y < x}) \in 0 .. Cardinality(S) - 1
           /\ \A x, z \in S : Cardinality({y \in S : y < x}) = Cardinality({y \in S : y < z}) => x = z
           /\ \A k \in 0 .. Cardinality(S) - 1 : \E x \in S : Cardinality({y \in S : y < x}) = k
<1> DEFINE n == Cardinality(S)
           below == [x \in S |-> {y \in S : y < x}]
           rank == [x \in S |-> Cardinality(below[x])]
           place == [x \in S |-> rank[x] + 1]
<1>1. n \in Nat
    BY FS_CardinalityType
<1>2. \A x \in S : IsFiniteSet(below[x]) /\ below[x] \subseteq S /\ x \notin below[x]
    BY FS_Subset
<1>3. \A x \in S : rank[x] = Cardinality(below[x]) /\ rank[x] \in Nat
    BY <1>2, FS_CardinalityType
<1>4. \A x \in S : rank[x] < n
    <2> SUFFICES ASSUME NEW x \in S PROVE rank[x] < n
        OBVIOUS
    <2>1. below[x] \in SUBSET S /\ below[x] # S
        BY <1>2
    <2> HIDE DEF below, rank
    <2>2. Cardinality(below[x]) <= Cardinality(S) /\ Cardinality(below[x]) # Cardinality(S)
        BY <2>1, FS_Subset
    <2> HIDE DEF n
    <2>3. rank[x] <= n /\ rank[x] # n
        BY <2>2, <1>3 DEF n
    <2>4. QED BY <2>3, <1>1, <1>3
<1>5. \A x, z \in S : x < z => rank[x] < rank[z]
    <2> SUFFICES ASSUME NEW x \in S, NEW z \in S, x < z PROVE rank[x] < rank[z]
        OBVIOUS
    <2>0. \A y \in S : y < x => y < z
        OBVIOUS
    <2>1. below[x] \in SUBSET below[z] /\ x \in below[z] /\ x \notin below[x]
        BY <2>0, <1>2
    <2> HIDE DEF below, rank
    <2>2. IsFiniteSet(below[z]) /\ below[x] # below[z]
        BY <1>2, <2>1
    <2>3. Cardinality(below[x]) <= Cardinality(below[z]) /\ Cardinality(below[x]) # Cardinality(below[z])
        BY <2>1, <2>2, FS_Subset
    <2>4. QED BY <2>3, <1>3
<1>6. \A x, z \in S : rank[x] = rank[z] => x = z
    <2>1. \A x, z \in S : x < z \/ z < x \/ x = z
        OBVIOUS
    <2>2. \A x, z \in S : rank[x] < rank[z] => rank[x] # rank[z]
        BY <1>3
    <2> HIDE DEF rank
    <2>3. QED BY <2>1, <2>2, <1>5
<1> HIDE DEF below, rank, n
<1>7. place \in [S -> 1 .. n] /\ \A x \in S : place[x] = rank[x] + 1
    BY <1>1, <1>3, <1>4
<1>8. \A x, z \in S : place[x] = place[z] => x = z
    BY <1>3, <1>6, <1>7
<1> HIDE DEF place
<1>9. \A k \in 1 .. n : \E x \in S : place[x] = k
    <2>1. place \in Injection(S, 1 .. n)
        BY <1>7, <1>8 DEF Injection, IsInjective
    <2>2. IsFiniteSet(1 .. n) /\ Cardinality(1 .. n) = n
        BY <1>1, FS_Interval
    <2>3. Cardinality(S) = Cardinality(1 .. n)
        BY <2>2 DEF n
    <2>4. place \in Surjection(S, 1 .. n)
        BY <2>1, <2>2, <2>3, FS_Injection
    <2>5. QED BY <2>4 DEF Surjection
<1>10. \A x \in S : Cardinality({y \in S : y < x}) = rank[x]
    BY DEF rank, below
<1>11. \A x \in S : rank[x] \in 0 .. n - 1
    BY <1>1, <1>3, <1>4
<1>12. ASSUME NEW k \in 0 .. n - 1 PROVE \E x \in S : rank[x] = k
    <2>1. k + 1 \in 1 .. n
        BY <1>1
    <2>2. PICK x \in S : place[x] = k + 1
        BY <1>9, <2>1
    <2>3. rank[x] = k
        BY <2>2, <1>3, <1>7
    <2>4. QED BY <2>3
<1>13. QED BY <1>6, <1>10, <1>11, <1>12 DEF n

\* s is the first k sequences one after the other: its q-th element is the o[q]-th
\* of the b[q]-th of them.
IsFlat(s, T, seqs, k, b, o) ==
    /\ s \in Seq(T)
    /\ b \in [1 .. Len(s) -> 1 .. k]
    /\ \A q \in 1 .. Len(s) : o[q] \in 1 .. Len(seqs[b[q]]) /\ s[q] = seqs[b[q]][o[q]]
    /\ \A p, q \in 1 .. Len(s) : p < q => b[p] <= b[q]
    /\ \A p, q \in 1 .. Len(s) : b[p] = b[q] /\ o[p] = o[q] => p = q
    /\ \A j \in 1 .. k : \A r \in 1 .. Len(seqs[j]) : \E q \in 1 .. Len(s) : b[q] = j /\ o[q] = r

FlatTo(T, seqs, k) == {s \in Seq(T) : \E b : \E o : IsFlat(s, T, seqs, k, b, o)}

\* To be one that is flattened so far.
LEMMA FlatToIs ==
    ASSUME NEW T, NEW seqs, NEW k, NEW s
    PROVE  s \in FlatTo(T, seqs, k) <=> \E b : \E o : IsFlat(s, T, seqs, k, b, o)
BY DEF FlatTo, IsFlat

\* One sequence more.
LEMMA FlatOneMore ==
    ASSUME NEW T, NEW seqs, NEW k \in Nat \ {0}, seqs[k] \in Seq(T), NEW s \in FlatTo(T, seqs, k - 1)
    PROVE  s \o seqs[k] \in FlatTo(T, seqs, k)
<1> DEFINE n == Len(s)
           l == Len(seqs[k])
           u == s \o seqs[k]
<1>1. PICK b : \E o : IsFlat(s, T, seqs, k - 1, b, o)
    BY FlatToIs
<1>2. PICK o : IsFlat(s, T, seqs, k - 1, b, o)
    BY <1>1
<1> DEFINE c == [q \in 1 .. n + l |-> IF q <= n THEN b[q] ELSE k]
           p == [q \in 1 .. n + l |-> IF q <= n THEN o[q] ELSE q - n]
<1>3. s \in Seq(T) /\ b \in [1 .. n -> 1 .. k - 1]
    BY <1>2 DEF IsFlat
<1>4. n \in Nat /\ l \in Nat
    BY <1>3
<1>5. /\ u \in Seq(T) /\ Len(u) = n + l
      /\ \A q \in 1 .. n : u[q] = s[q]
      /\ \A q \in n + 1 .. n + l : u[q] = seqs[k][q - n]
    BY <1>3
<1>6. /\ \A q \in 1 .. n : q \in 1 .. n + l /\ q <= n
      /\ \A q \in n + 1 .. n + l : q \in 1 .. n + l /\ ~(q <= n) /\ q - n \in 1 .. l
      /\ \A q \in 1 .. n + l : q \in 1 .. n \/ q \in n + 1 .. n + l
      /\ \A r \in 1 .. l : n + r \in n + 1 .. n + l /\ (n + r) - n = r
    <2> HIDE DEF n, l
    <2>1. QED BY <1>4
<1>7. /\ \A q \in 1 .. n : c[q] = b[q] /\ p[q] = o[q]
      /\ \A q \in n + 1 .. n + l : c[q] = k /\ p[q] = q - n
    BY <1>6
<1>8. DOMAIN c = 1 .. n + l /\ c = [q \in 1 .. n + l |-> c[q]]
    OBVIOUS
<1> HIDE DEF c, p, u, n, l
<1>9. (\A q \in 1 .. n : b[q] \in 1 .. k /\ b[q] < k) /\ k \in 1 .. k
    <2>1. \A j \in 1 .. k - 1 : j \in 1 .. k /\ j < k
        OBVIOUS
    <2>2. QED BY <2>1, <1>3
<1>10. \A q \in 1 .. n + l : c[q] \in 1 .. k
    BY <1>6, <1>7, <1>9
<1>11. c \in [1 .. n + l -> 1 .. k]
    BY <1>8, <1>10
<1>12. ASSUME NEW q \in 1 .. n + l PROVE p[q] \in 1 .. Len(seqs[c[q]]) /\ u[q] = seqs[c[q]][p[q]]
    <2>1. CASE q \in 1 .. n
        <3>1. o[q] \in 1 .. Len(seqs[b[q]]) /\ s[q] = seqs[b[q]][o[q]]
            BY <2>1, <1>2 DEF IsFlat, n
        <3>2. QED BY <2>1, <3>1, <1>5, <1>7
    <2>2. CASE q \in n + 1 .. n + l
        <3>1. p[q] = q - n /\ c[q] = k /\ u[q] = seqs[k][q - n] /\ q - n \in 1 .. l
            BY <2>2, <1>5, <1>6, <1>7
        <3>2. QED BY <3>1 DEF l
    <2>3. QED BY <2>1, <2>2, <1>6
<1>13. ASSUME NEW x \in 1 .. n + l, NEW y \in 1 .. n + l, x < y PROVE c[x] <= c[y]
    <2>1. CASE y \in 1 .. n
        <3>1. x \in 1 .. n
            BY <2>1, <1>4, <1>13
        <3>2. b[x] <= b[y]
            BY <2>1, <3>1, <1>2, <1>13 DEF IsFlat, n
        <3>3. QED BY <2>1, <3>1, <3>2, <1>7
    <2>2. CASE y \in n + 1 .. n + l
        <3>1. c[y] = k /\ c[x] \in 1 .. k
            BY <2>2, <1>7, <1>10
        <3>2. QED BY <3>1
    <2>3. QED BY <2>1, <2>2, <1>6
<1>14. ASSUME NEW x \in 1 .. n + l, NEW y \in 1 .. n + l, c[x] = c[y], p[x] = p[y] PROVE x = y
    <2>1. CASE x \in 1 .. n /\ y \in 1 .. n
        <3>1. b[x] = b[y] /\ o[x] = o[y]
            BY <2>1, <1>7, <1>14
        <3>2. QED BY <2>1, <3>1, <1>2 DEF IsFlat, n
    <2>2. CASE x \in 1 .. n /\ y \in n + 1 .. n + l
        <3>1. c[x] = b[x] /\ b[x] < k /\ b[x] \in 1 .. k /\ c[y] = k
            BY <2>2, <1>7, <1>9
        <3>2. QED BY <3>1, <1>14
    <2>3. CASE x \in n + 1 .. n + l /\ y \in 1 .. n
        <3>1. c[y] = b[y] /\ b[y] < k /\ b[y] \in 1 .. k /\ c[x] = k
            BY <2>3, <1>7, <1>9
        <3>2. QED BY <3>1, <1>14
    <2>4. CASE x \in n + 1 .. n + l /\ y \in n + 1 .. n + l
        <3>1. p[x] = x - n /\ p[y] = y - n
            BY <2>4, <1>7
        <3>2. x - n = y - n
            BY <3>1, <1>14
        <3>3. QED BY <2>4, <3>2, <1>4
    <2>5. QED BY <2>1, <2>2, <2>3, <2>4, <1>6
<1>15. ASSUME NEW j \in 1 .. k, NEW r \in 1 .. Len(seqs[j])
       PROVE  \E q \in 1 .. n + l : c[q] = j /\ p[q] = r
    <2>1. CASE j = k
        <3>1. n + r \in n + 1 .. n + l /\ (n + r) - n = r
            BY <2>1, <1>6, <1>15 DEF l
        <3>2. QED BY <2>1, <3>1, <1>6, <1>7
    <2>2. CASE j # k
        <3>1. j \in 1 .. k - 1
            BY <2>2
        <3>2. PICK q \in 1 .. n : b[q] = j /\ o[q] = r
            BY <3>1, <1>2 DEF IsFlat, n
        <3>3. QED BY <3>2, <1>6, <1>7
    <2>3. QED BY <2>1, <2>2
<1>16. IsFlat(u, T, seqs, k, c, p)
    BY <1>5, <1>11, <1>12, <1>13, <1>14, <1>15 DEF IsFlat
<1>17. u \in FlatTo(T, seqs, k)
    BY <1>16, FlatToIs
<1>18. QED BY <1>17 DEF u

\* FlattenSeq puts sequences one after the other.
LEMMA FlattenIsFlat ==
    ASSUME NEW T, NEW seqs, Len(seqs) \in Nat, DOMAIN seqs = 1 .. Len(seqs),
           Len(seqs) = 0 => seqs = <<>>,
           \A k \in 1 .. Len(seqs) : seqs[k] \in Seq(T)
    PROVE  \E b : \E o : IsFlat(FlattenSeq(seqs), T, seqs, Len(seqs), b, o)
<1> DEFINE m == Len(seqs)
           X == [k \in 0 .. m |-> FlatTo(T, seqs, k)]
           step == [k \in 1 .. m |-> [s \in X[k - 1] |-> s \o seqs[k]]]
           Follows(f) == f = [i \in 1 .. m |-> IF i = 1 THEN seqs[i] ELSE f[i - 1] \o seqs[i]]
           flatten == CHOOSE f : Follows(f)
<1>0. m \in Nat
    OBVIOUS
<1>3. \A k \in 0 .. m : X[k] = FlatTo(T, seqs, k)
    OBVIOUS
<1>30. 0 \in 0 .. m /\ m \in 0 .. m /\ (\A k \in 1 .. m : k \in 0 .. m /\ k - 1 \in 0 .. m /\ k \in Nat \ {0})
    BY <1>0
<1>4. <<>> \in FlatTo(T, seqs, 0)
    <2> DEFINE e == [q \in {} |-> 0]
    <2>1. <<>> \in Seq(T) /\ Len(<<>>) = 0 /\ 1 .. 0 = {}
        BY EmptySeq
    <2>2. e \in [1 .. 0 -> 1 .. 0]
        BY <2>1
    <2> HIDE DEF e
    <2>3. IsFlat(<<>>, T, seqs, 0, e, e)
        BY <2>1, <2>2 DEF IsFlat
    <2>4. QED BY <2>3, FlatToIs
<1>5. <<>> \in X[0]
    BY <1>3, <1>4, <1>30
<1>6. ASSUME NEW k \in 1 .. m, NEW s \in X[k - 1] PROVE s \o seqs[k] \in X[k]
    <2>1. s \in FlatTo(T, seqs, k - 1)
        BY <1>3, <1>30, <1>6
    <2>2. k \in Nat \ {0} /\ seqs[k] \in Seq(T)
        BY <1>30
    <2>3. s \o seqs[k] \in FlatTo(T, seqs, k)
        BY <2>1, <2>2, FlatOneMore
    <2>4. QED BY <2>3, <1>3, <1>30
<1> HIDE DEF X
<1>7. \A k \in 1 .. m : \A s \in X[k - 1] : step[k][s] = s \o seqs[k]
    OBVIOUS
<1>70. \A k \in 1 .. m : \A s \in X[k - 1] : step[k][s] \in X[k]
    BY <1>6, <1>7
<1>71. m # 0 => FlattenSeq(seqs) = flatten[m]
    BY DEF FlattenSeq
<1>72. m = 0 => FlattenSeq(seqs) = <<>>
    BY DEF FlattenSeq
<1> HIDE DEF step, m
<1>8. CASE m = 0
    BY <1>4, <1>72, <1>8, FlatToIs DEF m
<1>9. CASE m # 0
    <2>0. 1 \in 1 .. m /\ m \in 1 .. m /\ (\A k \in 1 .. m : k # 1 => k - 1 \in 1 .. m)
        BY <1>0, <1>9
    <2>1. PICK f : IsRunThrough(f, X, <<>>, step, m)
        BY <1>0, <1>5, <1>70, RunFound
    <2>2. f[0] = <<>> /\ \A k \in 1 .. m : f[k] = f[k - 1] \o seqs[k]
        BY <2>1, <1>7 DEF IsRunThrough
    <2>3. f[1] = seqs[1]
        <3>0. \A k \in 1 .. m : k = 1 => k - 1 = 0
            OBVIOUS
        <3>1. \A k \in 1 .. m : k = 1 => f[k] = f[0] \o seqs[k]
            BY <3>0, <2>2
        <3>2. seqs[1] \in Seq(T)
            BY <2>0 DEF m
        <3>3. f[1] = <<>> \o seqs[1]
            BY <2>0, <2>2, <3>1
        <3>4. QED BY <3>2, <3>3
    <2> DEFINE g == [i \in 1 .. m |-> f[i]]
    <2>4. Follows(g)
        <3>1. \A i \in 1 .. m : g[i] = f[i] /\ (i # 1 => g[i - 1] = f[i - 1])
            BY <2>0
        <3>2. \A i \in 1 .. m : g[i] = IF i = 1 THEN seqs[i] ELSE g[i - 1] \o seqs[i]
            BY <2>2, <2>3, <3>1
        <3>3. g = [i \in 1 .. m |-> g[i]]
            OBVIOUS
        <3> HIDE DEF g
        <3>4. QED BY <3>2, <3>3
    <2> HIDE DEF g
    <2>5. Follows(flatten)
        <3> HIDE DEF Follows
        <3>1. QED BY <2>4
    <2> HIDE DEF flatten
    <2>6. /\ flatten[1] = seqs[1]
          /\ \A k \in 1 .. m : k # 1 => flatten[k] = flatten[k - 1] \o seqs[k]
        BY <2>0, <2>5
    <2> DEFINE h == [k \in 0 .. m |-> IF k = 0 THEN <<>> ELSE flatten[k]]
    <2>7. h[0] = <<>> /\ \A k \in 1 .. m : h[k] = flatten[k] /\ (k # 1 => h[k - 1] = flatten[k - 1])
        <3>1. \A k \in 1 .. m : k # 0 /\ (k # 1 => k - 1 # 0)
            OBVIOUS
        <3>2. QED BY <3>1, <1>30
    <2> HIDE DEF h
    <2>8. ASSUME NEW k \in 1 .. m, h[k - 1] \in X[k - 1] PROVE h[k] \in X[k]
        <3>1. CASE k = 1
            <4>1. h[1] = seqs[1] /\ seqs[1] \in Seq(T) /\ <<>> \o seqs[1] = seqs[1]
                BY <2>0, <2>6, <2>7 DEF m
            <4>2. <<>> \o seqs[1] \in X[1]
                <5>1. 1 - 1 = 0
                    OBVIOUS
                <5>2. QED BY <5>1, <2>0, <1>5, <1>6
            <4>3. QED BY <3>1, <4>1, <4>2
        <3>2. CASE k # 1
            <4>1. h[k] = h[k - 1] \o seqs[k]
                BY <3>2, <2>6, <2>7
            <4>2. QED BY <4>1, <2>8, <1>6
        <3>3. QED BY <3>1, <3>2
    <2>9. h[0] \in X[0]
        BY <2>7, <1>5
    <2>10. \A k \in 0 .. m : h[k] \in X[k]
        BY <2>8, <2>9, <1>0, RunStays
    <2>11. flatten[m] \in FlatTo(T, seqs, m)
        BY <2>0, <2>7, <2>10, <1>3, <1>30
    <2>12. FlattenSeq(seqs) \in FlatTo(T, seqs, Len(seqs))
        BY <2>11, <1>71, <1>9 DEF m
    <2>13. QED BY <2>12, FlatToIs
<1>10. QED BY <1>8, <1>9
=============================================================================
