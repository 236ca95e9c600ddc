---------------------------- MODULE FoldTheorems ----------------------------
(*****************************************************************************)
(* What the folds of the community modules compute, for every finite         *)
(* argument: sums of functions, FoldLeft and FlattenSeq.  Each is defined by *)
(* a recursive function, whose existence and values need an induction; the   *)
(* induction is on the least number for which a claim would fail             *)
(* (LeastNatural), as the theorems with an operator for the claim cannot be  *)
(* instantiated.                                                             *)
(*****************************************************************************)
EXTENDS Integers, Sequences, FiniteSets, SequencesExt, FiniteSetTheorems,
        SequenceTheorems, WellFoundedInduction, TLAPS

-----------------------------------------------------------------------------

\* A set of natural numbers that is not empty has a least element.
LEMMA LeastNatural ==
    ASSUME NEW T \in SUBSET Nat, T # {}
    PROVE  \E n \in T : \A m \in T : n <= m
<1>1. PICK n \in T : \A m \in T : ~(<<m, n>> \in OpToRel(<, Nat))
    BY NatLessThanWellFounded, WFMin
<1>2. \A m \in T : ~(m < n)
    BY <1>1 DEF OpToRel
<1> QED BY <1>2

\* Induction over the natural numbers, for a set of them.
LEMMA SetInduction ==
    ASSUME NEW T \in SUBSET Nat, 0 \in T, \A n \in T : n + 1 \in T
    PROVE  \A n \in Nat : n \in T
<1> SUFFICES ASSUME Nat \ T # {} PROVE FALSE
    OBVIOUS
<1>1. PICK n \in Nat \ T : \A m \in Nat \ T : n <= m
    BY LeastNatural
<1> QED BY <1>1

\* g is a fold over the subsets of S that takes the element c[s] of each s
\* first.
IsFold(S, base, c, o, g) ==
    \A s \in SUBSET S : g[s] = IF s = {} THEN base ELSE o[c[s]][g[s \ {c[s]}]]

\* Recursion over the subsets of a finite set: c chooses the element that is
\* folded last, o folds it.
LEMMA FoldExists ==
    ASSUME NEW S, IsFiniteSet(S), NEW V, NEW base \in V,
           NEW c \in [(SUBSET S) \ {{}} -> S], \A s \in (SUBSET S) \ {{}} : c[s] \in s,
           NEW o \in [S -> [V -> V]]
    PROVE  \E g \in [SUBSET S -> V] : IsFold(S, base, c, o, g)
<1> DEFINE Rec(g, s) == g[s] = IF s = {} THEN base ELSE o[c[s]][g[s \ {c[s]}]]
           Good(g, n) == \A s \in SUBSET S : Cardinality(s) <= n => Rec(g, s)
           T == {n \in Nat : \E g \in [SUBSET S -> V] : Good(g, n)}
<1>0. \A s \in SUBSET S : IsFiniteSet(s) /\ Cardinality(s) \in Nat
    BY FS_Subset, FS_CardinalityType
<1>1. 0 \in T
    <2>1. [s \in SUBSET S |-> base] \in [SUBSET S -> V]
        OBVIOUS
    <2>2. \A s \in SUBSET S : Cardinality(s) <= 0 => s = {}
        BY <1>0, FS_EmptySet
    <2>3. Good([s \in SUBSET S |-> base], 0)
        BY <2>2
    <2> QED BY <2>1, <2>3
<1>2. ASSUME NEW n \in T PROVE n + 1 \in T
    <2>0. n \in Nat
        OBVIOUS
    <2>1. PICK g \in [SUBSET S -> V] : Good(g, n)
        OBVIOUS
    <2> DEFINE h == [s \in SUBSET S |-> IF s = {} THEN base ELSE o[c[s]][g[s \ {c[s]}]]]
    <2>2. h \in [SUBSET S -> V]
        OBVIOUS
    <2>3. ASSUME NEW s \in SUBSET S, Cardinality(s) <= n + 1 PROVE Rec(h, s)
        <3>1. CASE s = {}
            BY <3>1
        <3>2. CASE s # {}
            <4> DEFINE r == s \ {c[s]}
            <4>1. r \in SUBSET S /\ c[s] \in s
                BY <3>2
            <4>2. Cardinality(r) = Cardinality(s) - 1
                BY <4>1, <1>0, FS_RemoveElement
            <4>3. Rec(g, r)
                <5>1. Cardinality(r) <= n
                    BY <4>1, <4>2, <2>0, <2>3, <1>0
                <5> QED BY <4>1, <5>1, <2>1
            <4>4. h[r] = g[r]
                BY <4>1, <4>3
            <4> QED BY <3>2, <4>1, <4>4
        <3> QED BY <3>1, <3>2
    <2>4. Good(h, n + 1)
        BY <2>3
    <2> HIDE DEF h, Good
    <2> QED BY <2>0, <2>2, <2>4
<1>3. \A n \in Nat : n \in T
    <2> HIDE DEF T
    <2>1. T \in SUBSET Nat
        BY DEF T
    <2> QED BY <1>1, <1>2, <2>1, SetInduction
<1>4. PICK g \in [SUBSET S -> V] : Good(g, Cardinality(S))
    <2>1. Cardinality(S) \in T
        BY <1>0, <1>3
    <2> QED BY <2>1
<1>5. \A s \in SUBSET S : Cardinality(s) <= Cardinality(S)
    BY FS_Subset
<1> QED BY <1>4, <1>5 DEF IsFold

-----------------------------------------------------------------------------

\* Induction over the subsets of a finite set, for a set P of them.
LEMMA SubsetInduction ==
    ASSUME NEW D, IsFiniteSet(D), NEW P \in SUBSET (SUBSET D), {} \in P,
           \A s \in P : \A x \in D \ s : s \cup {x} \in P
    PROVE  \A s \in SUBSET D : s \in P
<1> DEFINE T == {n \in Nat : \A s \in SUBSET D : Cardinality(s) = n => s \in P}
<1>0. \A s \in SUBSET D : IsFiniteSet(s) /\ Cardinality(s) \in Nat
    BY FS_Subset, FS_CardinalityType
<1>1. 0 \in T
    BY <1>0, FS_EmptySet
<1>2. ASSUME NEW n \in T PROVE n + 1 \in T
    <2>1. n \in Nat
        OBVIOUS
    <2>2. ASSUME NEW s \in SUBSET D, Cardinality(s) = n + 1 PROVE s \in P
        <3>1. s # {}
            BY <1>0, <2>1, <2>2, FS_EmptySet
        <3>2. PICK x \in s : TRUE
            BY <3>1
        <3>3. Cardinality(s \ {x}) = n
            BY <1>0, <2>1, <2>2, FS_RemoveElement
        <3>4. s \ {x} \in P
            BY <3>3
        <3>5. (s \ {x}) \cup {x} \in P
            BY <3>4
        <3>6. (s \ {x}) \cup {x} = s
            OBVIOUS
        <3> QED BY <3>5, <3>6
    <2> QED BY <2>1, <2>2
<1>3. \A n \in Nat : n \in T
    <2> HIDE DEF T
    <2>1. T \in SUBSET Nat
        BY DEF T
    <2> QED BY <1>1, <1>2, <2>1, SetInduction
<1> QED BY <1>0, <1>3

\* The element that the folds of the community modules take first.
Pick(s) == CHOOSE x \in s : TRUE

\* What SumFunctionOnSet() is defined by, on the subsets of S.
IsSum(f, S, h) ==
    h = [s \in SUBSET S |-> IF s = {} THEN 0 ELSE f[Pick(s)] + h[s \ {Pick(s)}]]

\* There is such a sum, and it is unique.
LEMMA SumExists ==
    ASSUME NEW D, IsFiniteSet(D), NEW f \in [D -> Int]
    PROVE  \E g \in [SUBSET D -> Int] : IsSum(f, D, g)
<1> DEFINE c == [s \in (SUBSET D) \ {{}} |-> Pick(s)]
           o == [x \in D |-> [v \in Int |-> f[x] + v]]
<1>1. \A s \in (SUBSET D) \ {{}} : Pick(s) \in s
    BY DEF Pick
<1>2. c \in [(SUBSET D) \ {{}} -> D] /\ \A s \in (SUBSET D) \ {{}} : c[s] \in s
    BY <1>1
<1>3. o \in [D -> [Int -> Int]]
    OBVIOUS
<1>4. PICK g \in [SUBSET D -> Int] : IsFold(D, 0, c, o, g)
    <2>1. 0 \in Int
        OBVIOUS
    <2> HIDE DEF c, o
    <2> QED BY <1>2, <1>3, <2>1, FoldExists
<1>5. \A s \in SUBSET D : g[s] = IF s = {} THEN 0 ELSE f[Pick(s)] + g[s \ {Pick(s)}]
    BY <1>1, <1>4 DEF IsFold
<1> QED BY <1>5 DEF IsSum

\* The sum over a subset does not depend on the set around it.
LEMMA SumUnique ==
    ASSUME NEW D, IsFiniteSet(D), NEW f, NEW S \in SUBSET D, NEW g, NEW h,
           IsSum(f, D, g), IsSum(f, S, h)
    PROVE  h[S] = g[S]
<1> DEFINE T == {n \in Nat : \A s \in SUBSET S : Cardinality(s) <= n => h[s] = g[s]}
<1>0. \A s \in SUBSET S : IsFiniteSet(s) /\ Cardinality(s) \in Nat
    BY FS_Subset, FS_CardinalityType
<1>1. /\ \A s \in SUBSET S : h[s] = IF s = {} THEN 0 ELSE f[Pick(s)] + h[s \ {Pick(s)}]
      /\ \A s \in SUBSET S : g[s] = IF s = {} THEN 0 ELSE f[Pick(s)] + g[s \ {Pick(s)}]
    <2>1. \A s \in SUBSET S : h[s] = IF s = {} THEN 0 ELSE f[Pick(s)] + h[s \ {Pick(s)}]
        BY DEF IsSum
    <2>2. \A s \in SUBSET D : g[s] = IF s = {} THEN 0 ELSE f[Pick(s)] + g[s \ {Pick(s)}]
        BY DEF IsSum
    <2> QED BY <2>1, <2>2
<1>2. 0 \in T
    BY <1>0, <1>1, FS_EmptySet
<1>3. ASSUME NEW n \in T PROVE n + 1 \in T
    <2>1. n \in Nat
        OBVIOUS
    <2>2. ASSUME NEW s \in SUBSET S, Cardinality(s) <= n + 1, s # {} PROVE h[s] = g[s]
        <3>1. Pick(s) \in s
            BY <2>2 DEF Pick
        <3>2. Cardinality(s \ {Pick(s)}) = Cardinality(s) - 1
            BY <1>0, <3>1, FS_RemoveElement
        <3>3. Cardinality(s \ {Pick(s)}) <= n /\ s \ {Pick(s)} \in SUBSET S
            BY <1>0, <2>1, <2>2, <3>2
        <3>4. h[s \ {Pick(s)}] = g[s \ {Pick(s)}]
            BY <3>3
        <3> QED BY <1>1, <2>2, <3>4
    <2>3. h[{}] = g[{}]
        BY <1>1
    <2> QED BY <2>1, <2>2, <2>3
<1>4. \A n \in Nat : n \in T
    <2> HIDE DEF T
    <2>1. T \in SUBSET Nat
        BY DEF T
    <2> QED BY <1>2, <1>3, <2>1, SetInduction
<1>5. Cardinality(S) \in T
    BY <1>0, <1>4
<1> QED BY <1>0, <1>5

\* The sums over all subsets of a domain are one function.
LEMMA SumFunctionOnSetIsSum ==
    ASSUME NEW D, IsFiniteSet(D), NEW f \in [D -> Int]
    PROVE  \E g \in [SUBSET D -> Int] :
               IsSum(f, D, g) /\ \A S \in SUBSET D : SumFunctionOnSet(f, S) = g[S]
<1>1. PICK g \in [SUBSET D -> Int] : IsSum(f, D, g)
    BY SumExists
<1>2. ASSUME NEW S \in SUBSET D PROVE SumFunctionOnSet(f, S) = g[S]
    <2> DEFINE F == CHOOSE h : IsSum(f, S, h)
    <2>1. SumFunctionOnSet(f, S) = F[S]
        BY DEF SumFunctionOnSet, FoldFunctionOnSet, MapThenFoldSet, IsSum, Pick
    <2>2. IsFiniteSet(S) /\ f \in [D -> Int]
        BY FS_Subset
    <2>3. \A s \in SUBSET S : s # {} => Pick(s) \in s
        BY DEF Pick
    <2>4. \A s \in SUBSET D : g[s] = IF s = {} THEN 0 ELSE f[Pick(s)] + g[s \ {Pick(s)}]
        BY <1>1 DEF IsSum
    <2>5. IsSum(f, S, [s \in SUBSET S |-> g[s]])
        BY <2>3, <2>4 DEF IsSum
    <2>6. IsSum(f, S, F)
        <3> HIDE DEF IsSum
        <3> QED BY <2>5
    <2> HIDE DEF F
    <2> QED BY <1>1, <2>1, <2>6, SumUnique
<1> QED BY <1>1, <1>2

\* Any element may be taken out of a sum.
AnyOrder(f, D, g) == \A s \in SUBSET D : \A x \in s : g[s] = f[x] + g[s \ {x}]

\* A sum does not depend on the order in which it is taken.
LEMMA SumRemove ==
    ASSUME NEW D, IsFiniteSet(D), NEW f \in [D -> Int],
           NEW g \in [SUBSET D -> Int], IsSum(f, D, g)
    PROVE  AnyOrder(f, D, g)
<1> DEFINE T == {n \in Nat : \A s \in SUBSET D : Cardinality(s) = n =>
                                \A x \in s : g[s] = f[x] + g[s \ {x}]}
<1>0. \A s \in SUBSET D : IsFiniteSet(s) /\ Cardinality(s) \in Nat
    BY FS_Subset, FS_CardinalityType
<1>1. \A s \in SUBSET D : s # {} => Pick(s) \in s /\ g[s] = f[Pick(s)] + g[s \ {Pick(s)}]
    BY DEF IsSum, Pick
<1>2. 0 \in T
    <2>1. \A s \in SUBSET D : Cardinality(s) = 0 => s = {}
        BY <1>0, FS_EmptySet
    <2> QED BY <2>1
<1>3. ASSUME NEW n \in T PROVE n + 1 \in T
    <2>1. n \in Nat
        OBVIOUS
    <2>2. ASSUME NEW s \in SUBSET D, Cardinality(s) = n + 1, NEW x \in s
          PROVE  g[s] = f[x] + g[s \ {x}]
        <3> DEFINE c == Pick(s)
        <3>1. c \in s /\ g[s] = f[c] + g[s \ {c}]
            BY <1>1
        <3>2. CASE x = c
            BY <3>1, <3>2
        <3>3. CASE x # c
            <4> HIDE DEF c
            <4>1. /\ s \ {c} \in SUBSET D /\ x \in s \ {c}
                  /\ s \ {x} \in SUBSET D /\ c \in s \ {x}
                BY <3>1, <3>3
            <4>2. Cardinality(s \ {c}) = n /\ Cardinality(s \ {x}) = n
                <5>1. IsFiniteSet(s) /\ c \in s /\ x \in s
                    BY <1>0, <3>1
                <5>2. Cardinality(s \ {c}) = Cardinality(s) - 1
                    BY <5>1, FS_RemoveElement
                <5>3. Cardinality(s \ {x}) = Cardinality(s) - 1
                    BY <5>1, FS_RemoveElement
                <5> QED BY <2>1, <2>2, <5>2, <5>3
            <4>3. g[s \ {c}] = f[x] + g[(s \ {c}) \ {x}]
                BY <4>1, <4>2
            <4>4. g[s \ {x}] = f[c] + g[(s \ {x}) \ {c}]
                BY <4>1, <4>2
            <4>5. (s \ {c}) \ {x} = (s \ {x}) \ {c} /\ (s \ {x}) \ {c} \in SUBSET D
                OBVIOUS
            <4>6. f[x] \in Int /\ f[c] \in Int /\ g[(s \ {x}) \ {c}] \in Int
                BY <3>1, <4>5
            <4>7. g[s \ {x}] = f[c] + g[(s \ {c}) \ {x}] /\ g[(s \ {c}) \ {x}] \in Int
                BY <4>4, <4>5, <4>6, Zenon
            <4> QED BY <3>1, <4>3, <4>6, <4>7
        <3> QED BY <3>2, <3>3
    <2> QED BY <2>1, <2>2
<1>4. \A n \in Nat : n \in T
    <2> HIDE DEF T
    <2>1. T \in SUBSET Nat
        BY DEF T
    <2> QED BY <1>2, <1>3, <2>1, SetInduction
<1> QED BY <1>0, <1>4 DEF AnyOrder

\* The same, of SumFunctionOnSet().
LEMMA SumOnSet ==
    ASSUME NEW D, IsFiniteSet(D), NEW f \in [D -> Int]
    PROVE  /\ SumFunctionOnSet(f, {}) = 0
           /\ \A s \in SUBSET D : SumFunctionOnSet(f, s) \in Int
           /\ \A s \in SUBSET D : \A x \in D \ s :
                 SumFunctionOnSet(f, s \cup {x}) = SumFunctionOnSet(f, s) + f[x]
<1>1. PICK g \in [SUBSET D -> Int] :
          IsSum(f, D, g) /\ \A S \in SUBSET D : SumFunctionOnSet(f, S) = g[S]
    BY SumFunctionOnSetIsSum
<1>2. g[{}] = 0
    BY <1>1 DEF IsSum
<1>3. ASSUME NEW s \in SUBSET D, NEW x \in D \ s PROVE g[s \cup {x}] = g[s] + f[x]
    <2>1. (s \cup {x}) \ {x} = s /\ s \cup {x} \in SUBSET D /\ x \in s \cup {x}
        OBVIOUS
    <2>2. \A t \in SUBSET D : \A y \in t : g[t] = f[y] + g[t \ {y}]
        <3>1. AnyOrder(f, D, g)
            BY <1>1, SumRemove
        <3> QED BY <3>1 DEF AnyOrder
    <2>3. g[s \cup {x}] = f[x] + g[(s \cup {x}) \ {x}]
        BY <2>1, <2>2
    <2>4. g[s \cup {x}] = f[x] + g[s]
        BY <2>1, <2>3, Zenon
    <2>5. f[x] \in Int /\ g[s] \in Int
        OBVIOUS
    <2> QED BY <2>4, <2>5
<1> QED BY <1>1, <1>2, <1>3

-----------------------------------------------------------------------------

\* A sum of natural numbers is one, and at least each of them.
LEMMA SumNat ==
    ASSUME NEW D, IsFiniteSet(D), NEW f \in [D -> Nat]
    PROVE  \A s \in SUBSET D : SumFunctionOnSet(f, s) \in Nat
<1> DEFINE P == {s \in SUBSET D : SumFunctionOnSet(f, s) \in Nat}
<1>0. f \in [D -> Int]
    OBVIOUS
<1>1. {} \in P
    BY <1>0, SumOnSet
<1>2. ASSUME NEW s \in P, NEW x \in D \ s PROVE s \cup {x} \in P
    <2>1. SumFunctionOnSet(f, s \cup {x}) = SumFunctionOnSet(f, s) + f[x]
        BY <1>0, SumOnSet
    <2> QED BY <2>1
<1> HIDE DEF P
<1>3. P \in SUBSET (SUBSET D)
    BY DEF P
<1>4. \A s \in SUBSET D : s \in P
    BY <1>1, <1>2, <1>3, SubsetInduction
<1> QED BY <1>4 DEF P

\* The sum of a sum of functions, on a set.
LEMMA SumAdd ==
    ASSUME NEW D, IsFiniteSet(D), NEW f \in [D -> Int], NEW g \in [D -> Int],
           NEW h \in [D -> Int], \A x \in D : h[x] = f[x] + g[x]
    PROVE  SumFunction(h) = SumFunction(f) + SumFunction(g)
<1> DEFINE P == {s \in SUBSET D : SumFunctionOnSet(h, s) =
                                  SumFunctionOnSet(f, s) + SumFunctionOnSet(g, s)}
<1>1. {} \in P
    BY SumOnSet
<1>2. ASSUME NEW s \in P, NEW x \in D \ s PROVE s \cup {x} \in P
    <2>1. /\ SumFunctionOnSet(h, s \cup {x}) = SumFunctionOnSet(h, s) + h[x]
          /\ SumFunctionOnSet(f, s \cup {x}) = SumFunctionOnSet(f, s) + f[x]
          /\ SumFunctionOnSet(g, s \cup {x}) = SumFunctionOnSet(g, s) + g[x]
        BY SumOnSet
    <2>2. SumFunctionOnSet(f, s) \in Int /\ SumFunctionOnSet(g, s) \in Int
        BY SumOnSet
    <2> QED BY <2>1, <2>2
<1> HIDE DEF P
<1>3. P \in SUBSET (SUBSET D)
    BY DEF P
<1>4. \A s \in SUBSET D : s \in P
    BY <1>1, <1>2, <1>3, SubsetInduction
<1>5. D \in P
    BY <1>4
<1>6. DOMAIN f = D /\ DOMAIN g = D /\ DOMAIN h = D
    OBVIOUS
<1> QED BY <1>5, <1>6 DEF P, SumFunction

\* The sum of a function that is zero but for one argument.
LEMMA SumOne ==
    ASSUME NEW D, IsFiniteSet(D), NEW f \in [D -> Int], NEW y,
           \A x \in D : x # y => f[x] = 0
    PROVE  SumFunction(f) = IF y \in D THEN f[y] ELSE 0
<1> DEFINE P == {s \in SUBSET D : SumFunctionOnSet(f, s) = IF y \in s THEN f[y] ELSE 0}
<1>1. {} \in P
    BY SumOnSet
<1>2. ASSUME NEW s \in P, NEW x \in D \ s PROVE s \cup {x} \in P
    <2>1. SumFunctionOnSet(f, s \cup {x}) = SumFunctionOnSet(f, s) + f[x]
        BY SumOnSet
    <2>2. f[x] \in Int
        OBVIOUS
    <2>3. CASE x = y
        BY <2>1, <2>2, <2>3
    <2>4. CASE x # y
        BY <2>1, <2>2, <2>4
    <2> QED BY <2>3, <2>4
<1> HIDE DEF P
<1>3. P \in SUBSET (SUBSET D)
    BY DEF P
<1>4. \A s \in SUBSET D : s \in P
    BY <1>1, <1>2, <1>3, SubsetInduction
<1>5. D \in P /\ DOMAIN f = D
    BY <1>4
<1> QED BY <1>5 DEF P, SumFunction

-----------------------------------------------------------------------------

\* A bounded set of natural numbers that is not empty has a maximum.
LEMMA MaxOfBounded ==
    ASSUME NEW n \in Nat, NEW s \in SUBSET (0..n), s # {}
    PROVE  Max(s) \in s /\ \A y \in s : Max(s) >= y
<1> DEFINE T == {n - y : y \in s}
<1>0. \A y \in s : y \in Nat /\ y <= n /\ n - y \in Nat
    OBVIOUS
<1>1. T \in SUBSET Nat /\ T # {}
    BY <1>0
<1>2. PICK d \in T : \A m \in T : d <= m
    <2> HIDE DEF T
    <2> QED BY <1>1, LeastNatural
<1>3. PICK x \in s : d = n - x
    OBVIOUS
<1>4. ASSUME NEW y \in s PROVE x >= y
    <2>1. n - y \in T
        OBVIOUS
    <2>2. n - x <= n - y
        BY <1>2, <1>3, <2>1
    <2> QED BY <1>0, <2>2
<1>5. \E z \in s : \A y \in s : z >= y
    BY <1>4
<1> QED BY <1>5 DEF Max

\* What the last index of a prefix is, and what is left without it.
LEMMA MaxOfInterval ==
    ASSUME NEW k \in Nat, k # 0
    PROVE  Max(1..k) = k /\ (1..k) \ {Max(1..k)} = 1..(k - 1) /\ 1..k # {}
<1>1. Max(1..k) \in 1..k /\ \A y \in 1..k : Max(1..k) >= y
    <2>1. 1..k \in SUBSET (0..k) /\ k \in 1..k
        OBVIOUS
    <2> QED BY <2>1, MaxOfBounded
<1>2. Max(1..k) = k
    <2>1. k \in 1..k
        OBVIOUS
    <2> QED BY <1>1, <2>1
<1>3. (1..k) \ {k} = 1..(k - 1) /\ k \in 1..k
    OBVIOUS
<1> QED BY <1>2, <1>3, Zenon

\* g is the fold of FoldLeft over sets of indices: the greatest comes last.
IsFoldLeft(n, base, o, g) ==
    \A s \in SUBSET (1..n) : g[s] = IF s = {} THEN base ELSE o[Max(s)][g[s \ {Max(s)}]]

\* What FoldLeft() is defined by exists; o folds the element at an index.
LEMMA FoldLeftExists ==
    ASSUME NEW n \in Nat, NEW V, NEW base \in V, NEW o \in [1..n -> [V -> V]]
    PROVE  \E g \in [SUBSET (1..n) -> V] : IsFoldLeft(n, base, o, g)
<1> DEFINE c == [s \in (SUBSET (1..n)) \ {{}} |-> Max(s)]
<1>1. \A s \in (SUBSET (1..n)) \ {{}} : Max(s) \in s
    <2>1. \A s \in SUBSET (1..n) : s \in SUBSET (0..n)
        OBVIOUS
    <2> QED BY <2>1, MaxOfBounded
<1>2. c \in [(SUBSET (1..n)) \ {{}} -> 1..n] /\ \A s \in (SUBSET (1..n)) \ {{}} : c[s] \in s
    BY <1>1
<1>3. IsFiniteSet(1..n)
    BY FS_Interval
<1>4. PICK g \in [SUBSET (1..n) -> V] : IsFold(1..n, base, c, o, g)
    <2> HIDE DEF c
    <2> QED BY <1>2, <1>3, FoldExists
<1>5. IsFoldLeft(n, base, o, g)
    BY <1>4 DEF IsFold, IsFoldLeft
<1> QED BY <1>5

-----------------------------------------------------------------------------

(*****************************************************************************)
(* Sums that change, maxima, and sequences of sequences.                     *)
(*****************************************************************************)

\* A sum of zeros.
LEMMA SumZero ==
    ASSUME NEW D, IsFiniteSet(D), NEW f \in [D -> Int], \A x \in D : f[x] = 0
    PROVE  SumFunction(f) = 0
<1> DEFINE y == 0
<1>1. SumFunction(f) = IF y \in D THEN f[y] ELSE 0
    <2> HIDE DEF y
    <2> QED BY SumOne
<1> QED BY <1>1

\* A sum of natural numbers is one.
LEMMA SumType ==
    ASSUME NEW D, IsFiniteSet(D), NEW f \in [D -> Nat]
    PROVE  SumFunction(f) \in Nat
<1>1. DOMAIN f = D /\ D \in SUBSET D
    OBVIOUS
<1> QED BY <1>1, SumNat DEF SumFunction

\* Functions that differ for one argument, by d.
IsUpdate(D, f, h, y, d) ==
    /\ f \in [D -> Int] /\ h \in [D -> Int] /\ y \in D /\ d \in Int
    /\ h[y] = f[y] + d
    /\ \A x \in D : x # y => h[x] = f[x]

\* A sum changes by as much as the one value that changes.
LEMMA SumUpdate ==
    ASSUME NEW D, IsFiniteSet(D), NEW f, NEW h, NEW y, NEW d, IsUpdate(D, f, h, y, d)
    PROVE  SumFunction(h) = SumFunction(f) + d
<1> USE DEF IsUpdate
<1> DEFINE g == [x \in D |-> IF x = y THEN d ELSE 0]
<1>1. g \in [D -> Int] /\ g[y] = d /\ \A x \in D : x # y => g[x] = 0
    OBVIOUS
<1>2. \A x \in D : h[x] = f[x] + g[x]
    OBVIOUS
<1> HIDE DEF g
<1>3. SumFunction(h) = SumFunction(f) + SumFunction(g)
    BY <1>1, <1>2, SumAdd
<1>4. SumFunction(g) = d
    BY <1>1, SumOne
<1> QED BY <1>3, <1>4

\* The sum of n over the indices in D that k maps to a.
GroupSum(D, k, n, a) == SumFunction([i \in D |-> IF k[i] = a THEN n[i] ELSE 0])

\* Summing by groups is summing.
LEMMA SumGroups ==
    ASSUME NEW A, IsFiniteSet(A), NEW D, IsFiniteSet(D), NEW k \in [D -> A], NEW n \in [D -> Int],
           NEW q, q = [a \in A |-> GroupSum(D, k, n, a)]
    PROVE  SumFunction(q) = SumFunction(n)
<1> DEFINE F(a) == [i \in D |-> IF k[i] = a THEN n[i] ELSE 0]
           G(s) == [a \in A |-> SumFunctionOnSet(F(a), s)]
           P == {s \in SUBSET D : SumFunction(G(s)) = SumFunctionOnSet(n, s)}
<1>0. \A a \in A : F(a) \in [D -> Int] /\ DOMAIN F(a) = D
    OBVIOUS
<1>a. \A a \in A : /\ SumFunctionOnSet(F(a), {}) = 0
                   /\ \A s \in SUBSET D : SumFunctionOnSet(F(a), s) \in Int
                   /\ \A s \in SUBSET D : \A x \in D \ s :
                         SumFunctionOnSet(F(a), s \cup {x}) = SumFunctionOnSet(F(a), s) + F(a)[x]
    <2> HIDE DEF F
    <2> QED BY <1>0, SumOnSet
<1>b. \A s \in SUBSET D : G(s) \in [A -> Int]
    <2> HIDE DEF F
    <2> QED BY <1>a
<1>1. {} \in P
    <2>1. SumFunction(G({})) = 0
        <3>1. G({}) \in [A -> Int] /\ \A a \in A : G({})[a] = 0
            <4> HIDE DEF F
            <4> QED BY <1>a
        <3> HIDE DEF G
        <3> QED BY <3>1, SumZero
    <2>2. SumFunctionOnSet(n, {}) = 0
        BY SumOnSet
    <2> QED BY <2>1, <2>2
<1>2. ASSUME NEW s \in P, NEW x \in D \ s PROVE s \cup {x} \in P
    <2> DEFINE H == [a \in A |-> F(a)[x]]
    <2>0. s \in SUBSET D /\ s \cup {x} \in SUBSET D /\ SumFunction(G(s)) = SumFunctionOnSet(n, s)
        OBVIOUS
    <2>1. H \in [A -> Int] /\ k[x] \in A /\ H[k[x]] = n[x] /\ \A a \in A : a # k[x] => H[a] = 0
        OBVIOUS
    <2>2. SumFunction(H) = n[x]
        <3> HIDE DEF H
        <3> QED BY <2>1, SumOne
    <2>3. \A a \in A : G(s \cup {x})[a] = G(s)[a] + H[a]
        <3> HIDE DEF F
        <3> QED BY <1>a, <2>0
    <2>4. G(s \cup {x}) \in [A -> Int] /\ G(s) \in [A -> Int]
        BY <1>b, <2>0
    <2>5. SumFunction(G(s \cup {x})) = SumFunction(G(s)) + SumFunction(H)
        <3> DEFINE h == G(s \cup {x})
                   f == G(s)
        <3>1. h \in [A -> Int] /\ f \in [A -> Int] /\ \A a \in A : h[a] = f[a] + H[a]
            BY <2>3, <2>4
        <3> HIDE DEF h, f, H
        <3>2. SumFunction(h) = SumFunction(f) + SumFunction(H)
            BY <2>1, <3>1, SumAdd
        <3> QED BY <3>2 DEF h, f
    <2>6. SumFunctionOnSet(n, s \cup {x}) = SumFunctionOnSet(n, s) + n[x]
        BY <2>0, SumOnSet
    <2> HIDE DEF G, H
    <2> QED BY <2>0, <2>2, <2>5, <2>6
<1>3. D \in P
    <2>1. P \in SUBSET (SUBSET D)
        OBVIOUS
    <2> HIDE DEF P
    <2>2. \A s \in SUBSET D : s \in P
        BY <1>1, <1>2, <2>1, SubsetInduction
    <2> QED BY <2>2
<1>4. SumFunction(G(D)) = SumFunctionOnSet(n, D)
    <2> HIDE DEF G
    <2> QED BY <1>3
<1>5. DOMAIN n = D
    OBVIOUS
<1>6. \A a \in A : SumFunction(F(a)) = SumFunctionOnSet(F(a), D)
    <2> HIDE DEF F
    <2> QED BY <1>0 DEF SumFunction
<1>7. [a \in A |-> SumFunction(F(a))] = G(D)
    <2> HIDE DEF F
    <2> QED BY <1>6
<1>8. q = G(D)
    BY <1>7, Zenon DEF GroupSum
<1> QED BY <1>4, <1>5, <1>8, Zenon DEF SumFunction

-----------------------------------------------------------------------------

\* A finite set of natural numbers that is not empty has a maximum.
LEMMA MaxOfFinite ==
    ASSUME NEW S \in SUBSET Nat, IsFiniteSet(S), S # {}
    PROVE  Max(S) \in S /\ Max(S) \in Nat /\ \A y \in S : y <= Max(S)
<1> DEFINE P == {s \in SUBSET S : \E n \in Nat : \A y \in s : y <= n}
<1>1. {} \in P
    OBVIOUS
<1>2. ASSUME NEW s \in P, NEW x \in S \ s PROVE s \cup {x} \in P
    <2>1. PICK n \in Nat : \A y \in s : y <= n
        OBVIOUS
    <2>2. \A y \in s \cup {x} : y <= n + x
        BY <2>1
    <2>3. n + x \in Nat /\ s \cup {x} \in SUBSET S
        OBVIOUS
    <2> QED BY <2>2, <2>3
<1>3. S \in P
    <2>1. P \in SUBSET (SUBSET S)
        OBVIOUS
    <2> HIDE DEF P
    <2>2. \A s \in SUBSET S : s \in P
        BY <1>1, <1>2, <2>1, SubsetInduction
    <2> QED BY <2>2
<1>4. PICK n \in Nat : \A y \in S : y <= n
    BY <1>3
<1>5. S \in SUBSET (0..n)
    BY <1>4
<1>6. Max(S) \in S /\ \A y \in S : Max(S) >= y
    BY <1>5, MaxOfBounded
<1> QED BY <1>6

\* The lesser of two numbers.
LEMMA MinOfTwo ==
    ASSUME NEW a \in Nat, NEW b \in Nat
    PROVE  Min({a, b}) = IF a <= b THEN a ELSE b
<1>1. \E x \in {a, b} : \A y \in {a, b} : x <= y
    OBVIOUS
<1>2. Min({a, b}) \in {a, b} /\ \A y \in {a, b} : Min({a, b}) <= y
    BY <1>1 DEF Min
<1> QED BY <1>2

-----------------------------------------------------------------------------

\* A function on 1..n is a sequence of n elements.
LEMMA FunctionIsSeq ==
    ASSUME NEW X, NEW n \in Nat, NEW f \in [1..n -> X]
    PROVE  f \in Seq(X) /\ Len(f) = n
OBVIOUS

\* The elements of a concatenation.
IsConcat(s, t, u, X) ==
    /\ u \in Seq(X) /\ Len(u) = Len(s) + Len(t) /\ DOMAIN u = 1..(Len(s) + Len(t))
    /\ Len(s) \in Nat /\ Len(t) \in Nat /\ DOMAIN s = 1..Len(s) /\ DOMAIN t = 1..Len(t)
    /\ \A i \in 1..Len(s) : u[i] = s[i]
    /\ \A j \in 1..Len(t) : u[Len(s) + j] = t[j]

\* The concatenation of the standard module is one.
LEMMA ConcatIsConcat ==
    ASSUME NEW X, NEW s \in Seq(X), NEW t \in Seq(X)
    PROVE  IsConcat(s, t, s \o t, X)
<1>1. /\ s \o t \in Seq(X) /\ Len(s \o t) = Len(s) + Len(t)
      /\ Len(s) \in Nat /\ Len(t) \in Nat /\ DOMAIN s = 1..Len(s) /\ DOMAIN t = 1..Len(t)
    OBVIOUS
<1>2. DOMAIN (s \o t) = 1..(Len(s) + Len(t))
    OBVIOUS
<1>3. \A i \in 1..Len(s) : (s \o t)[i] = s[i]
    OBVIOUS
<1>4. ASSUME NEW j \in 1..Len(t) PROVE (s \o t)[Len(s) + j] = t[j]
    <2>1. /\ Len(s) + j \in 1..(Len(s) + Len(t)) /\ ~(Len(s) + j <= Len(s))
          /\ (Len(s) + j) - Len(s) = j
        BY <1>1
    <2>2. (s \o t)[Len(s) + j] = t[(Len(s) + j) - Len(s)]
        BY <2>1, ConcatProperties
    <2> QED BY <2>1, <2>2
<1> QED BY <1>1, <1>2, <1>3, <1>4 DEF IsConcat

\* What FlattenSeq() is defined by.
IsFlatten(seqs, f) ==
    f = [i \in 1..Len(seqs) |-> IF i = 1 THEN seqs[i] ELSE f[i - 1] \o seqs[i]]

\* The recursive function by which FlattenSeq is defined exists.
LEMMA FlattenExists ==
    ASSUME NEW X, NEW seqs \in Seq(Seq(X)), seqs # <<>>
    PROVE  \E f : IsFlatten(seqs, f)
<1> DEFINE n == Len(seqs)
           o == [i \in 1..n |-> [v \in Seq(X) |-> v \o seqs[i]]]
<1>1. n \in Nat /\ n # 0
    OBVIOUS
<1>2. <<>> \in Seq(X) /\ o \in [1..n -> [Seq(X) -> Seq(X)]]
    OBVIOUS
<1>3. PICK g \in [SUBSET (1..n) -> Seq(X)] : IsFoldLeft(n, <<>>, o, g)
    <2> HIDE DEF n, o
    <2> QED BY <1>1, <1>2, FoldLeftExists
<1> DEFINE f == [i \in 1..n |-> g[1..i]]
<1>4. ASSUME NEW i \in 1..n PROVE g[1..i] = g[1..(i - 1)] \o seqs[i]
    <2>1. i \in Nat /\ i # 0 /\ 1..i \in SUBSET (1..n) /\ 1..(i - 1) \in SUBSET (1..n)
        BY <1>1
    <2>2. Max(1..i) = i /\ (1..i) \ {Max(1..i)} = 1..(i - 1) /\ 1..i # {}
        BY <2>1, MaxOfInterval
    <2>3. g[1..i] = o[Max(1..i)][g[(1..i) \ {Max(1..i)}]]
        <3> HIDE DEF n, o
        <3> QED BY <1>3, <2>1, <2>2 DEF IsFoldLeft
    <2>4. g[1..i] = o[i][g[1..(i - 1)]]
        BY <2>2, <2>3, Zenon
    <2>5. g[1..(i - 1)] \in Seq(X)
        BY <2>1
    <2> QED BY <2>4, <2>5
<1>5. g[1..0] = <<>>
    <2>1. 1..0 = {} /\ {} \in SUBSET (1..n)
        OBVIOUS
    <2> HIDE DEF n, o
    <2> QED BY <1>3, <2>1 DEF IsFoldLeft
<1>6. ASSUME NEW i \in 1..n
      PROVE  g[1..i] = IF i = 1 THEN seqs[i] ELSE f[i - 1] \o seqs[i]
    <2>1. CASE i = 1
        <3>1. g[1..i] = <<>> \o seqs[i] /\ seqs[i] \in Seq(X)
            <4>1. i - 1 = 0
                BY <2>1
            <4>2. g[1..i] = g[1..0] \o seqs[i]
                BY <1>4, <4>1
            <4> QED BY <1>5, <4>2
        <3> QED BY <2>1, <3>1
    <2>2. CASE i # 1
        <3>1. i - 1 \in 1..n
            BY <2>2
        <3> QED BY <1>4, <2>2, <3>1
    <2> QED BY <2>1, <2>2
<1>7. IsFlatten(seqs, f)
    <2> HIDE DEF n
    <2>1. n = Len(seqs)
        BY DEF n
    <2>2. [i \in 1..n |-> IF i = 1 THEN seqs[i] ELSE f[i - 1] \o seqs[i]] = f
        BY <1>6
    <2> QED BY <2>1, <2>2 DEF IsFlatten
<1> QED BY <1>7

\* A flattened sequence has as many elements as its parts together.
LEMMA FlattenLen ==
    ASSUME NEW X, NEW seqs \in Seq(Seq(X)), seqs # <<>>,
           NEW len \in [1..Len(seqs) -> Nat], \A i \in 1..Len(seqs) : Len(seqs[i]) = len[i]
    PROVE  FlattenSeq(seqs) \in Seq(X) /\ Len(FlattenSeq(seqs)) = SumFunction(len)
<1> DEFINE n == Len(seqs)
           f == CHOOSE g : IsFlatten(seqs, g)
           Sum(i) == SumFunctionOnSet(len, 1..i)
           T == {i \in Nat : i + 1 <= n => f[i + 1] \in Seq(X) /\ Len(f[i + 1]) = Sum(i + 1)}
<1>1. n \in Nat /\ n # 0
    OBVIOUS
<1>2. IsFlatten(seqs, f)
    BY FlattenExists
<1>3. FlattenSeq(seqs) = f[n]
    BY <1>1 DEF FlattenSeq, IsFlatten
<1> HIDE DEF f, n
<1>4. \A i \in 1..n : f[i] = IF i = 1 THEN seqs[i] ELSE f[i - 1] \o seqs[i]
    BY <1>2 DEF IsFlatten, n
<1>5. Sum(0) = 0 /\ \A i \in 1..n : Sum(i - 1) \in Int /\ Sum(i) = Sum(i - 1) + len[i]
    <2>1. IsFiniteSet(1..n) /\ len \in [1..n -> Int]
        BY <1>1, FS_Interval DEF n
    <2>2. 1..0 = {}
        OBVIOUS
    <2>3. /\ SumFunctionOnSet(len, {}) = 0
          /\ \A s \in SUBSET (1..n) : SumFunctionOnSet(len, s) \in Int
          /\ \A s \in SUBSET (1..n) : \A x \in (1..n) \ s :
               SumFunctionOnSet(len, s \cup {x}) = SumFunctionOnSet(len, s) + len[x]
        BY <2>1, SumOnSet
    <2>4. ASSUME NEW i \in 1..n
          PROVE  1..(i - 1) \in SUBSET (1..n) /\ i \in (1..n) \ 1..(i - 1) /\ 1..i = (1..(i - 1)) \cup {i}
        BY <1>1
    <2>5. ASSUME NEW i \in 1..n PROVE Sum(i - 1) \in Int /\ Sum(i) = Sum(i - 1) + len[i]
        <3>1. SumFunctionOnSet(len, (1..(i - 1)) \cup {i}) = SumFunctionOnSet(len, 1..(i - 1)) + len[i]
            <4> DEFINE s == 1..(i - 1)
            <4>1. s \in SUBSET (1..n) /\ i \in (1..n) \ s
                BY <2>4
            <4> HIDE DEF s
            <4>2. SumFunctionOnSet(len, s \cup {i}) = SumFunctionOnSet(len, s) + len[i]
                BY <2>3, <4>1
            <4> QED BY <4>2 DEF s
        <3> QED BY <2>3, <2>4, <3>1, Zenon
    <2>6. Sum(0) = 0
        BY <2>2, <2>3, Zenon
    <2> QED BY <2>5, <2>6
<1> HIDE DEF Sum
<1>6. \A i \in 1..n : seqs[i] \in Seq(X) /\ len[i] \in Nat /\ Len(seqs[i]) = len[i]
    BY DEF n
<1>7. 0 \in T
    <2>1. 1 \in 1..n
        BY <1>1
    <2>2. f[1] = seqs[1]
        BY <1>4, <2>1
    <2>3. Sum(1) = Sum(1 - 1) + len[1] /\ 1 - 1 = 0 /\ 0 + 1 = 1
        BY <1>5, <2>1
    <2>4. Sum(1) = len[1]
        BY <1>5, <1>6, <2>1, <2>3
    <2> QED BY <1>6, <2>1, <2>2, <2>3, <2>4
<1>8. ASSUME NEW i \in T PROVE i + 1 \in T
    <2>0. i \in Nat
        OBVIOUS
    <2>1. ASSUME (i + 1) + 1 <= n PROVE f[(i + 1) + 1] \in Seq(X) /\ Len(f[(i + 1) + 1]) = Sum((i + 1) + 1)
        <3> DEFINE j == (i + 1) + 1
        <3>1. j \in 1..n /\ j # 1 /\ j - 1 = i + 1 /\ i + 1 <= n
            BY <1>1, <2>0, <2>1
        <3>2. f[i + 1] \in Seq(X) /\ Len(f[i + 1]) = Sum(i + 1)
            BY <3>1
        <3> HIDE DEF j
        <3>3. f[j] = f[i + 1] \o seqs[j] /\ Sum(j) = Sum(i + 1) + len[j]
            BY <1>4, <1>5, <3>1
        <3>4. f[j] \in Seq(X) /\ Len(f[j]) = Sum(j)
            <4>1. Len(f[i + 1] \o seqs[j]) = Len(f[i + 1]) + Len(seqs[j])
                BY <1>6, <3>1, <3>2, ConcatProperties
            <4> QED BY <1>6, <3>1, <3>2, <3>3, <4>1
        <3> QED BY <3>4 DEF j
    <2> QED BY <2>0, <2>1
<1>9. n - 1 \in T
    <2>1. T \in SUBSET Nat
        OBVIOUS
    <2> HIDE DEF T
    <2>2. \A i \in Nat : i \in T
        BY <1>7, <1>8, <2>1, SetInduction
    <2> QED BY <1>1, <2>2
<1>10. f[n] \in Seq(X) /\ Len(f[n]) = Sum(n)
    <2>1. (n - 1) + 1 = n
        BY <1>1
    <2> QED BY <1>1, <1>9, <2>1
<1>11. Sum(n) = SumFunction(len)
    <2>1. DOMAIN len = 1..n
        BY DEF n
    <2> QED BY <2>1, Zenon DEF SumFunction, Sum
<1> QED BY <1>3, <1>10, <1>11

-----------------------------------------------------------------------------

\* g is a recursion over 0..n that starts with base; o[i] is its i-th step.
IsRecursion(n, base, o, g) ==
    g[0] = base /\ \A i \in 1..n : g[i] = o[i][g[i-1]]

\* Recursion over an interval.
LEMMA RecursionExists ==
    ASSUME NEW n \in Nat, NEW V, NEW base \in V, NEW o \in [1..n -> [V -> V]]
    PROVE  \E g \in [0..n -> V] : IsRecursion(n, base, o, g)
<1>1. PICK h \in [SUBSET (1..n) -> V] : IsFoldLeft(n, base, o, h)
    BY FoldLeftExists
<1> DEFINE g == [i \in 0..n |-> h[1..i]]
<1>2. \A i \in 0..n : 1..i \in SUBSET (1..n)
    OBVIOUS
<1>3. g \in [0..n -> V] /\ \A i \in 0..n : g[i] = h[1..i]
    BY <1>2
<1>4. g[0] = base
    <2>1. 1..0 = {} /\ 0 \in 0..n
        OBVIOUS
    <2> QED BY <1>1, <1>3, <2>1 DEF IsFoldLeft
<1>5. ASSUME NEW i \in 1..n PROVE g[i] = o[i][g[i-1]]
    <2>1. Max(1..i) = i /\ (1..i) \ {Max(1..i)} = 1..(i - 1) /\ 1..i # {}
        <3>1. i \in Nat /\ i # 0
            OBVIOUS
        <3> QED BY <3>1, MaxOfInterval
    <2>2. i \in 0..n /\ i - 1 \in 0..n
        OBVIOUS
    <2>3. h[1..i] = o[i][h[1..(i-1)]]
        BY <1>1, <1>2, <2>1, <2>2 DEF IsFoldLeft
    <2> QED BY <1>3, <2>2, <2>3
<1> QED BY <1>3, <1>4, <1>5 DEF IsRecursion

\* There is one such recursion only.
LEMMA RecursionUnique ==
    ASSUME NEW n \in Nat, NEW base, NEW o, NEW g, NEW h,
           IsRecursion(n, base, o, g), IsRecursion(n, base, o, h)
    PROVE  \A i \in 0..n : g[i] = h[i]
<1> DEFINE T == {i \in Nat : i <= n => g[i] = h[i]}
<1>1. 0 \in T
    BY DEF IsRecursion
<1>2. ASSUME NEW i \in T PROVE i + 1 \in T
    <2> SUFFICES ASSUME i + 1 <= n PROVE g[i+1] = h[i+1]
        OBVIOUS
    <2>1. i + 1 \in 1..n /\ (i + 1) - 1 = i /\ g[i] = h[i]
        OBVIOUS
    <2> QED BY <2>1 DEF IsRecursion
<1>3. \A i \in Nat : i \in T
    <2>1. T \in SUBSET Nat
        OBVIOUS
    <2> HIDE DEF T
    <2> QED BY <1>1, <1>2, <2>1, SetInduction
<1> QED BY <1>3

\* A set of at most one element.
LEMMA AtMostOne ==
    ASSUME NEW S, IsFiniteSet(S), Cardinality(S) <= 1, NEW x \in S, NEW y \in S
    PROVE  x = y
<1> SUFFICES ASSUME x # y PROVE FALSE
    OBVIOUS
<1>1. IsFiniteSet({x}) /\ Cardinality({x}) = 1
    BY FS_Singleton
<1>2. Cardinality({x} \cup {y}) = 1 + 1
    BY <1>1, FS_AddElement
<1>3. Cardinality({x} \cup {y}) <= Cardinality(S) /\ Cardinality(S) \in Nat
    BY FS_Subset, FS_CardinalityType
<1> QED BY <1>2, <1>3

\* Counting is summing ones.
LEMMA CountIsSum ==
    ASSUME NEW D, IsFiniteSet(D), NEW S \in SUBSET D
    PROVE  SumFunction([i \in D |-> IF i \in S THEN 1 ELSE 0]) = Cardinality(S)
<1> DEFINE f == [i \in D |-> IF i \in S THEN 1 ELSE 0]
           P == {s \in SUBSET D : SumFunctionOnSet(f, s) = Cardinality(s \cap S)}
<1>0. f \in [D -> Int] /\ DOMAIN f = D
    OBVIOUS
<1>1. {} \in P
    <2>1. {} \cap S = {}
        OBVIOUS
    <2> QED BY <1>0, <2>1, SumOnSet, FS_EmptySet
<1>2. ASSUME NEW s \in P, NEW x \in D \ s PROVE s \cup {x} \in P
    <2>0. IsFiniteSet(s \cap S) /\ Cardinality(s \cap S) \in Nat
        BY FS_Subset, FS_CardinalityType
    <2>1. SumFunctionOnSet(f, s \cup {x}) = SumFunctionOnSet(f, s) + f[x]
        BY <1>0, SumOnSet
    <2>2. CASE x \in S
        <3>1. (s \cup {x}) \cap S = (s \cap S) \cup {x} /\ x \notin s \cap S /\ f[x] = 1
            BY <2>2
        <3>2. Cardinality((s \cap S) \cup {x}) = Cardinality(s \cap S) + 1
            BY <2>0, <3>1, FS_AddElement
        <3> HIDE DEF f
        <3> QED BY <2>1, <3>1, <3>2
    <2>3. CASE x \notin S
        <3>1. (s \cup {x}) \cap S = s \cap S /\ f[x] = 0
            BY <2>3
        <3> HIDE DEF f
        <3>2. SumFunctionOnSet(f, s \cup {x}) = Cardinality(s \cap S)
            <4>1. SumFunctionOnSet(f, s) = Cardinality(s \cap S)
                OBVIOUS
            <4> QED BY <2>0, <2>1, <3>1, <4>1
        <3> QED BY <3>1, <3>2
    <2> QED BY <2>2, <2>3
<1>3. D \in P
    <2>1. P \in SUBSET (SUBSET D)
        OBVIOUS
    <2> HIDE DEF P
    <2> QED BY <1>1, <1>2, <2>1, SubsetInduction
<1>4. D \cap S = S
    OBVIOUS
<1>5. SumFunctionOnSet(f, D) = Cardinality(S)
    BY <1>3, <1>4
<1>6. SumFunction(f) = SumFunctionOnSet(f, D)
    BY <1>0 DEF SumFunction
<1> QED BY <1>5, <1>6

\* A finite set is as large as the sum of the sizes of its groups.
LEMMA CountGroups ==
    ASSUME NEW A, IsFiniteSet(A), NEW D, IsFiniteSet(D), NEW k \in [D -> A],
           NEW c, c = [a \in A |-> Cardinality({i \in D : k[i] = a})]
    PROVE  SumFunction(c) = Cardinality(D)
<1> DEFINE n == [i \in D |-> 1]
<1>1. \A a \in A : GroupSum(D, k, n, a) = Cardinality({i \in D : k[i] = a})
    <2> TAKE a \in A
    <2> DEFINE S == {i \in D : k[i] = a}
    <2>1. [i \in D |-> IF k[i] = a THEN n[i] ELSE 0] = [i \in D |-> IF i \in S THEN 1 ELSE 0]
        OBVIOUS
    <2>2. S \in SUBSET D
        OBVIOUS
    <2>3. SumFunction([i \in D |-> IF i \in S THEN 1 ELSE 0]) = Cardinality(S)
        <3> HIDE DEF S
        <3> QED BY <2>2, CountIsSum
    <2> QED BY <2>1, <2>3 DEF GroupSum
<1>2. c = [a \in A |-> GroupSum(D, k, n, a)]
    BY <1>1
<1>3. n \in [D -> Int]
    OBVIOUS
<1>4. n = [i \in D |-> IF i \in D THEN 1 ELSE 0]
    OBVIOUS
<1> HIDE DEF n
<1>5. SumFunction(c) = SumFunction(n)
    <2> DEFINE g == [a \in A |-> GroupSum(D, k, n, a)]
    <2>1. c = g
        BY <1>2
    <2>2. g = [a \in A |-> GroupSum(D, k, n, a)]
        OBVIOUS
    <2> HIDE DEF g
    <2>3. SumFunction(g) = SumFunction(n)
        BY <1>3, <2>2, SumGroups
    <2> QED BY <2>1, <2>3
<1>6. SumFunction(n) = Cardinality(D)
    <2>1. D \in SUBSET D
        OBVIOUS
    <2> QED BY <1>4, <2>1, CountIsSum
<1> QED BY <1>5, <1>6

=============================================================================
