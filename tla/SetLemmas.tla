----------------------------- MODULE SetLemmas -----------------------------
(***************************************************************************)
(* Facts about finite sets, sums and induction that the proofs of several  *)
(* components need.  Induction is over a set of the subsets or numbers for *)
(* which something holds, sums are those of module Functions.              *)
(***************************************************************************)
EXTENDS Integers, FiniteSetsExt, Functions, FiniteSetTheorems, WellFoundedInduction, TLAPS

-----------------------------------------------------------------------------
(* Induction                                                               *)

\* The order of the natural numbers is well founded.
LEMMA NatLess == IsWellFoundedOn({p \in Nat \X Nat : p[1] < p[2]}, Nat)
BY NatLessThanWellFounded DEF OpToRel

\* A set of natural numbers that is not empty has a least element.
LEMMA LeastOf ==
    ASSUME NEW T, T \subseteq Nat, T # {}
    PROVE  \E n \in T : \A m \in T : n <= m
<1> DEFINE R == {p \in Nat \X Nat : p[1] < p[2]}
<1>1. IsWellFoundedOn(R, Nat)
    BY NatLess
<1>2. \A m, n \in Nat : <<m, n>> \in R <=> m < n
    OBVIOUS
<1> HIDE DEF R
<1>3. PICK n \in T : \A m \in T : ~(<<m, n>> \in R)
    BY <1>1, WFMin
<1>4. \A m \in T : ~(m < n)
    BY <1>2, <1>3
<1> QED
    BY <1>3, <1>4

\* Induction over the natural numbers, for a set of them.
LEMMA NumberInduction ==
    ASSUME NEW T, T \subseteq Nat, 0 \in T, \A n \in T : n + 1 \in T
    PROVE  T = Nat
<1>1. SUFFICES ASSUME Nat \ T # {}
               PROVE  FALSE
    OBVIOUS
<1>2. PICK n \in Nat \ T : \A m \in Nat \ T : n <= m
    BY <1>1, LeastOf
<1>3. n # 0 /\ n - 1 \in Nat
    BY <1>2
<1>4. n - 1 \in T
    BY <1>2, <1>3
<1>5. (n - 1) + 1 \in T
    BY <1>4
<1> QED
    BY <1>2, <1>5

\* Induction over the subsets of a finite set: what holds of a set if it holds of the set
\* without any one of its elements, holds of all.
LEMMA SubsetInduction ==
    ASSUME NEW S, IsFiniteSet(S), NEW T, T \subseteq SUBSET S, {} \in T,
           \A s \in SUBSET S : s # {} /\ (\A x \in s : s \ {x} \in T) => s \in T
    PROVE  T = SUBSET S
<1> DEFINE N == {n \in Nat : \A s \in SUBSET S : Cardinality(s) = n => s \in T}
<1>1. 0 \in N
    <2>1. ASSUME NEW s \in SUBSET S, Cardinality(s) = 0
          PROVE  s \in T
        BY <2>1, FS_Subset, FS_EmptySet
    <2> QED
        BY <2>1
<1>2. ASSUME NEW n \in N
      PROVE  n + 1 \in N
    <2>1. ASSUME NEW s \in SUBSET S, Cardinality(s) = n + 1
          PROVE  s \in T
        <3>1. IsFiniteSet(s)
            BY FS_Subset
        <3>2. s # {}
            BY <2>1, <3>1, FS_EmptySet
        <3>3. ASSUME NEW x \in s
              PROVE  s \ {x} \in T
            <4>1. Cardinality(s \ {x}) = Cardinality(s) - 1
                BY <3>1, FS_RemoveElement
            <4>2. Cardinality(s \ {x}) = n
                BY <2>1, <4>1
            <4> QED
                BY <4>2
        <3> QED
            BY <3>2, <3>3
    <2> QED
        BY <2>1
<1>3. N = Nat
    <2>1. N \subseteq Nat
        OBVIOUS
    <2> HIDE DEF N
    <2> QED
        BY <1>1, <1>2, <2>1, NumberInduction
<1>4. ASSUME NEW s \in SUBSET S
      PROVE  s \in T
    <2>1. Cardinality(s) \in Nat
        BY FS_Subset, FS_CardinalityType
    <2>2. Cardinality(s) \in N
        BY <1>3, <2>1
    <2> QED
        BY <2>2
<1> QED
    BY <1>4

\* A fold over a finite set is well defined: `last' says which element a set gives up, and
\* F what a set makes of the value of the rest.
Folds(g, S, b, F, last) ==
    \A s \in SUBSET S : g[s] = IF s = {} THEN b ELSE F[s][g[s \ {last[s]}]]

\* A fold over a finite set has a table of its values over all subsets.
LEMMA SetRecursion ==
    ASSUME NEW S, IsFiniteSet(S), NEW P, NEW b \in P, NEW last,
           \A s \in SUBSET S : s # {} => last[s] \in s,
           NEW F, \A s \in SUBSET S, p \in P : s # {} => F[s][p] \in P
    PROVE  \E g \in [SUBSET S -> P] : Folds(g, S, b, F, last)
<1> DEFINE Upto(n) == {s \in SUBSET S : Cardinality(s) <= n}
           Step(g, s) == IF s = {} THEN b ELSE F[s][g[s \ {last[s]}]]
           N == {n \in Nat : \E g \in [Upto(n) -> P] : \A s \in Upto(n) : g[s] = Step(g, s)}
<1>1. \A s \in SUBSET S : IsFiniteSet(s) /\ Cardinality(s) \in Nat
    BY FS_Subset, FS_CardinalityType
<1>2. \A s \in SUBSET S : Cardinality(s) = 0 <=> s = {}
    BY <1>1, FS_EmptySet
<1>3. \A s \in SUBSET S : s # {} => Cardinality(s \ {last[s]}) = Cardinality(s) - 1
    BY <1>1, FS_RemoveElement
<1>4. 0 \in N
    <2>1. \A s \in Upto(0) : s = {}
        BY <1>1, <1>2
    <2> DEFINE g == [s \in Upto(0) |-> b]
    <2>2. g \in [Upto(0) -> P] /\ \A s \in Upto(0) : g[s] = Step(g, s)
        BY <2>1
    <2> QED
        BY <2>2
<1>5. ASSUME NEW n \in N
      PROVE  n + 1 \in N
    <2>1. PICK g \in [Upto(n) -> P] : \A s \in Upto(n) : g[s] = Step(g, s)
        OBVIOUS
    <2>2. ASSUME NEW s \in Upto(n + 1), s # {}
          PROVE  s \ {last[s]} \in Upto(n)
        BY <1>1, <1>3, <2>2
    <2> DEFINE h == [s \in Upto(n + 1) |-> Step(g, s)]
    <2>3. h \in [Upto(n + 1) -> P]
        <3>1. ASSUME NEW s \in Upto(n + 1)
              PROVE  Step(g, s) \in P
            <4>1. s # {} => g[s \ {last[s]}] \in P
                BY <2>1, <2>2
            <4> QED
                BY <4>1
        <3> QED
            BY <3>1
    <2>4. ASSUME NEW s \in Upto(n)
          PROVE  h[s] = g[s]
        <3>1. s \in Upto(n + 1)
            BY <1>1
        <3>2. g[s] = Step(g, s)
            BY <2>1
        <3> HIDE DEF Step, Upto
        <3> QED
            BY <3>1, <3>2
    <2>5. ASSUME NEW s \in Upto(n + 1)
          PROVE  h[s] = Step(h, s)
        <3>1. s # {} => h[s \ {last[s]}] = g[s \ {last[s]}]
            BY <2>2, <2>4
        <3>2. Step(h, s) = Step(g, s)
            BY <3>1
        <3> QED
            BY <3>2
    <2> HIDE DEF h, Upto, Step
    <2>6. n + 1 \in Nat
        OBVIOUS
    <2> QED
        BY <2>3, <2>5, <2>6
<1>6. N = Nat
    <2>1. N \subseteq Nat
        OBVIOUS
    <2> HIDE DEF N
    <2> QED
        BY <1>4, <1>5, <2>1, NumberInduction
<1>7. Upto(Cardinality(S)) = SUBSET S
    BY FS_Subset, <1>1
<1>8. Cardinality(S) \in N
    BY <1>6, FS_CardinalityType
<1> HIDE DEF Upto
<1> QED
    BY <1>7, <1>8 DEF Folds

\* What satisfies the recursion takes its values where the steps stay.
FoldsWithin(g, S, P, b, F, last) ==
    /\ g[{}] = b
    /\ \A s \in SUBSET S : s # {} /\ g[s \ {last[s]}] \in P => g[s] = F[s][g[s \ {last[s]}]]

\* A fold never leaves a set that its start is in and its steps keep to.
LEMMA FoldStays ==
    ASSUME NEW S, IsFiniteSet(S), NEW P, NEW b \in P, NEW last,
           \A s \in SUBSET S : s # {} => last[s] \in s,
           NEW F, \A s \in SUBSET S, p \in P : s # {} => F[s][p] \in P,
           NEW g, FoldsWithin(g, S, P, b, F, last)
    PROVE  \A s \in SUBSET S : g[s] \in P
<1> DEFINE T == {s \in SUBSET S : g[s] \in P}
<1>1. {} \in T
    BY DEF FoldsWithin
<1>2. ASSUME NEW s \in SUBSET S, s # {}, \A x \in s : s \ {x} \in T
      PROVE  s \in T
    <2>1. last[s] \in s
        BY <1>2
    <2>2. g[s \ {last[s]}] \in P
        BY <1>2, <2>1
    <2> QED
        BY <1>2, <2>1, <2>2 DEF FoldsWithin
<1>3. T \subseteq SUBSET S
    OBVIOUS
<1> HIDE DEF T
<1>4. T = SUBSET S
    BY <1>1, <1>2, <1>3, SubsetInduction
<1> QED
    BY <1>4 DEF T

-----------------------------------------------------------------------------
(* Sums                                                                    *)

Sums(f, S, g) ==
    g = [s \in SUBSET S |->
           IF s = {} THEN 0 ELSE f[CHOOSE x \in s : TRUE] + g[s \ {CHOOSE x \in s : TRUE}]]

\* A sum is the last value of such a table.
LEMMA SumIsFold ==
    ASSUME NEW f, NEW S
    PROVE  SumFunctionOnSet(f, S) = (CHOOSE g : Sums(f, S, g))[S]
BY DEF SumFunctionOnSet, FoldFunctionOnSet, MapThenFoldSet, Sums

\* Over a finite set of integers that table exists.
LEMMA SumsExist ==
    ASSUME NEW S, IsFiniteSet(S), NEW f, \A x \in S : f[x] \in Int
    PROVE  \E g \in [SUBSET S -> Int] : Sums(f, S, g)
<1> DEFINE last == [s \in SUBSET S |-> CHOOSE x \in s : TRUE]
           F    == [s \in SUBSET S |-> [p \in Int |-> f[last[s]] + p]]
<1>1. \A s \in SUBSET S : s # {} => last[s] \in s
    OBVIOUS
<1>2. \A s \in SUBSET S, p \in Int : s # {} => F[s][p] \in Int
    BY <1>1
<1>3. 0 \in Int
    OBVIOUS
<1>4. PICK g \in [SUBSET S -> Int] : Folds(g, S, 0, F, last)
    <2> HIDE DEF last, F
    <2> QED
        BY <1>1, <1>2, <1>3, SetRecursion
<1>5. \A s \in SUBSET S : g[s \ {last[s]}] \in Int
    BY <1>4
<1>6. Sums(f, S, g)
    BY <1>4, <1>5 DEF Sums, Folds
<1> QED
    BY <1>4, <1>6


\* The tables of a set and of a subset agree.
LEMMA SumsAgree ==
    ASSUME NEW S, IsFiniteSet(S), NEW R \in SUBSET S, NEW f, NEW g, NEW h,
           Sums(f, S, g), Sums(f, R, h)
    PROVE  g[R] = h[R]
<1> DEFINE T == {s \in SUBSET R : g[s] = h[s]}
<1>1. {} \in T
    BY DEF Sums
<1>2. ASSUME NEW s \in SUBSET R, s # {}, \A x \in s : s \ {x} \in T
      PROVE  s \in T
    <2>1. PICK x \in s : x = CHOOSE y \in s : TRUE
        BY <1>2
    <2>2. g[s \ {x}] = h[s \ {x}]
        BY <1>2
    <2>3. g[s] = f[x] + g[s \ {x}] /\ h[s] = f[x] + h[s \ {x}]
        BY <1>2, <2>1 DEF Sums
    <2> QED
        BY <2>2, <2>3
<1>3. T \subseteq SUBSET R /\ IsFiniteSet(R)
    BY FS_Subset
<1> HIDE DEF T
<1>4. T = SUBSET R
    BY <1>1, <1>2, <1>3, SubsetInduction
<1> QED
    BY <1>4 DEF T

\* A sum is an integer, and the sum of the rest and one element.
LEMMA SumPicks ==
    ASSUME NEW S, IsFiniteSet(S), NEW f, \A x \in S : f[x] \in Int
    PROVE  /\ SumFunctionOnSet(f, S) \in Int
           /\ S = {} => SumFunctionOnSet(f, S) = 0
           /\ S # {} => \E x \in S :
                SumFunctionOnSet(f, S) = f[x] + SumFunctionOnSet(f, S \ {x})
                /\ x = CHOOSE y \in S : TRUE
<1>1. PICK g \in [SUBSET S -> Int] : Sums(f, S, g)
    BY SumsExist
<1>2. ASSUME NEW R \in SUBSET S
      PROVE  SumFunctionOnSet(f, R) = g[R]
    <2> DEFINE G == CHOOSE h : Sums(f, R, h)
    <2>1. \E h : Sums(f, R, h)
        BY SumsExist, FS_Subset
    <2>2. Sums(f, R, G)
        BY <2>1
    <2> HIDE DEF G
    <2>3. g[R] = G[R]
        BY <1>1, <2>2, SumsAgree
    <2> QED
        BY <2>3, SumIsFold DEF G
<1>3. SumFunctionOnSet(f, S) = g[S]
    BY <1>2
<1>4. S = {} => g[S] = 0
    BY <1>1 DEF Sums
<1>5. ASSUME S # {}
      PROVE  \E x \in S : SumFunctionOnSet(f, S) = f[x] + SumFunctionOnSet(f, S \ {x})
                          /\ x = CHOOSE y \in S : TRUE
    <2>1. PICK x \in S : x = CHOOSE y \in S : TRUE
        BY <1>5
    <2>2. g[S] = f[x] + g[S \ {x}]
        BY <1>1, <1>5, <2>1 DEF Sums
    <2>3. SumFunctionOnSet(f, S \ {x}) = g[S \ {x}]
        BY <1>2
    <2> QED
        BY <1>3, <2>1, <2>2, <2>3
<1> QED
    BY <1>1, <1>3, <1>4, <1>5

\* The order of a sum does not matter.
LEMMA SumStep ==
    ASSUME NEW S, IsFiniteSet(S), NEW f, \A x \in S : f[x] \in Int, NEW x \in S
    PROVE  SumFunctionOnSet(f, S) = f[x] + SumFunctionOnSet(f, S \ {x})
<1> DEFINE Sum(s) == SumFunctionOnSet(f, s)
           T == {s \in SUBSET S : \A y \in s : Sum(s) = f[y] + Sum(s \ {y})}
<1>1. \A s \in SUBSET S : /\ Sum(s) \in Int
                          /\ s # {} => \E y \in s : Sum(s) = f[y] + Sum(s \ {y})
    BY SumPicks, FS_Subset
<1> HIDE DEF Sum
<1>2. {} \in T
    OBVIOUS
<1>3. ASSUME NEW s \in SUBSET S, s # {}, \A y \in s : s \ {y} \in T
      PROVE  s \in T
    <2>1. PICK p \in s : Sum(s) = f[p] + Sum(s \ {p})
        BY <1>1, <1>3
    <2>2. ASSUME NEW y \in s
          PROVE  Sum(s) = f[y] + Sum(s \ {y})
        <3>1. CASE y = p
            BY <2>1, <3>1
        <3>2. CASE y # p
            <4> DEFINE r == (s \ {y}) \ {p}
            <4>1. r = (s \ {p}) \ {y} /\ r \in SUBSET S
                OBVIOUS
            <4>2. Sum(s \ {y}) = f[p] + Sum(r)
                BY <1>3, <3>2
            <4> HIDE DEF r
            <4>3. Sum(s \ {p}) = f[y] + Sum(r)
                BY <1>3, <3>2, <4>1
            <4>4. Sum(r) \in Int /\ f[y] \in Int /\ f[p] \in Int
                BY <1>1, <4>1
            <4> QED
                BY <2>1, <4>2, <4>3, <4>4
        <3> QED
            BY <3>1, <3>2
    <2> QED
        BY <2>2
<1>4. T \subseteq SUBSET S
    OBVIOUS
<1> HIDE DEF T
<1>5. T = SUBSET S
    BY <1>2, <1>3, <1>4, SubsetInduction
<1> QED
    BY <1>5 DEF T, Sum

\* Sums of integers are integers.
LEMMA SumInt ==
    ASSUME NEW S, IsFiniteSet(S), NEW f, \A x \in S : f[x] \in Int
    PROVE  SumFunctionOnSet(f, S) \in Int
BY SumPicks

\* The empty sum is 0.
LEMMA SumEmpty ==
    ASSUME NEW f
    PROVE  SumFunctionOnSet(f, {}) = 0
<1>1. IsFiniteSet({}) /\ \A x \in {} : f[x] \in Int
    BY FS_EmptySet
<1> QED
    BY <1>1, SumPicks

\* The sum of sums.
LEMMA SumAdd ==
    ASSUME NEW S, IsFiniteSet(S), NEW f, NEW g, NEW h,
           \A x \in S : f[x] \in Int /\ g[x] \in Int /\ h[x] = f[x] + g[x]
    PROVE  SumFunctionOnSet(h, S) = SumFunctionOnSet(f, S) + SumFunctionOnSet(g, S)
<1> DEFINE Sum(k, s) == SumFunctionOnSet(k, s)
           T == {s \in SUBSET S : Sum(h, s) = Sum(f, s) + Sum(g, s)}
<1>0. \A x \in S : h[x] \in Int
    OBVIOUS
<1>1. \A s \in SUBSET S : \A x \in s : /\ Sum(f, s) = f[x] + Sum(f, s \ {x})
                                   /\ Sum(g, s) = g[x] + Sum(g, s \ {x})
                                   /\ Sum(h, s) = h[x] + Sum(h, s \ {x})
    BY <1>0, SumStep, FS_Subset
<1>2. \A s \in SUBSET S : Sum(f, s) \in Int /\ Sum(g, s) \in Int
    BY SumInt, FS_Subset
<1>3. {} \in T
    BY SumEmpty
<1> HIDE DEF Sum
<1>4. ASSUME NEW s \in SUBSET S, s # {}, \A x \in s : s \ {x} \in T
      PROVE  s \in T
    <2>1. PICK x \in s : TRUE
        BY <1>4
    <2> DEFINE r == s \ {x}
    <2>2. Sum(h, r) = Sum(f, r) + Sum(g, r) /\ r \in SUBSET S
        BY <1>4
    <2>3. /\ Sum(f, s) = f[x] + Sum(f, r)
          /\ Sum(g, s) = g[x] + Sum(g, r)
          /\ Sum(h, s) = h[x] + Sum(h, r)
        BY <1>1
    <2> HIDE DEF r
    <2>4. Sum(h, s) = Sum(f, s) + Sum(g, s)
        <3>1. Sum(f, r) \in Int /\ Sum(g, r) \in Int
            BY <1>2, <2>2
        <3>2. f[x] \in Int /\ g[x] \in Int /\ h[x] = f[x] + g[x]
            OBVIOUS
        <3> QED
            BY <2>2, <2>3, <3>1, <3>2
    <2> QED
        BY <2>4
<1>5. T \subseteq SUBSET S
    OBVIOUS
<1> HIDE DEF T
<1>6. T = SUBSET S
    BY <1>3, <1>4, <1>5, SubsetInduction
<1> QED
    BY <1>6 DEF T, Sum

\* Sums of amounts are amounts.
LEMMA SumNat ==
    ASSUME NEW S, IsFiniteSet(S), NEW f, \A x \in S : f[x] \in Nat
    PROVE  SumFunctionOnSet(f, S) \in Nat
<1> DEFINE Sum(s) == SumFunctionOnSet(f, s)
           T == {s \in SUBSET S : Sum(s) \in Nat}
<1>1. \A s \in SUBSET S : \A x \in s : Sum(s) = f[x] + Sum(s \ {x})
    <2>1. \A x \in S : f[x] \in Int
        OBVIOUS
    <2> QED
        BY <2>1, SumStep, FS_Subset
<1>2. {} \in T
    BY SumEmpty
<1> HIDE DEF Sum
<1>3. ASSUME NEW s \in SUBSET S, s # {}, \A x \in s : s \ {x} \in T
      PROVE  s \in T
    <2>1. PICK x \in s : TRUE
        BY <1>3
    <2>2. Sum(s \ {x}) \in Nat /\ f[x] \in Nat
        BY <1>3
    <2>3. Sum(s) \in Nat
        BY <1>1, <2>2
    <2> QED
        BY <2>3
<1>4. T \subseteq SUBSET S
    OBVIOUS
<1> HIDE DEF T
<1>5. T = SUBSET S
    BY <1>2, <1>3, <1>4, SubsetInduction
<1> QED
    BY <1>5 DEF T, Sum

\* A sum grows with its terms.
LEMMA SumMonotone ==
    ASSUME NEW S, IsFiniteSet(S), NEW f, NEW g,
           \A x \in S : f[x] \in Int /\ g[x] \in Int /\ f[x] <= g[x]
    PROVE  SumFunctionOnSet(f, S) <= SumFunctionOnSet(g, S)
<1> DEFINE k == [x \in S |-> g[x] - f[x]]
<1>1. \A x \in S : k[x] \in Nat /\ k[x] \in Int /\ g[x] = f[x] + k[x]
    OBVIOUS
<1> HIDE DEF k
<1>2. SumFunctionOnSet(g, S) = SumFunctionOnSet(f, S) + SumFunctionOnSet(k, S)
    BY <1>1, SumAdd
<1>3. SumFunctionOnSet(k, S) \in Nat /\ SumFunctionOnSet(f, S) \in Int
    BY <1>1, SumNat, SumInt
<1> QED
    BY <1>2, <1>3

\* A sum depends on the terms in its set only.
LEMMA SumCongruent ==
    ASSUME NEW S, IsFiniteSet(S), NEW f, NEW g,
           \A x \in S : f[x] \in Int /\ g[x] = f[x]
    PROVE  SumFunctionOnSet(g, S) = SumFunctionOnSet(f, S)
<1>1. \A x \in S : g[x] \in Int /\ f[x] <= g[x] /\ g[x] <= f[x]
    OBVIOUS
<1>2. SumFunctionOnSet(g, S) <= SumFunctionOnSet(f, S)
    BY <1>1, SumMonotone
<1>3. SumFunctionOnSet(f, S) <= SumFunctionOnSet(g, S)
    BY <1>1, SumMonotone
<1>4. SumFunctionOnSet(f, S) \in Int /\ SumFunctionOnSet(g, S) \in Int
    BY <1>1, SumInt
<1> QED
    BY <1>2, <1>3, <1>4

\* A sum of zeros is 0.
LEMMA SumZero ==
    ASSUME NEW S, IsFiniteSet(S), NEW f, \A x \in S : f[x] = 0
    PROVE  SumFunctionOnSet(f, S) = 0
<1>1. \A x \in S : f[x] \in Int /\ f[x] = f[x] + f[x]
    OBVIOUS
<1>2. SumFunctionOnSet(f, S) = SumFunctionOnSet(f, S) + SumFunctionOnSet(f, S)
    BY <1>1, SumAdd
<1>3. SumFunctionOnSet(f, S) \in Int
    BY <1>1, SumInt
<1>4. \A n \in Int : n = n + n => n = 0
    OBVIOUS
<1> QED
    BY <1>2, <1>3, <1>4

\* What is not in R adds nothing.
LEMMA SumRestrict ==
    ASSUME NEW S, IsFiniteSet(S), NEW R \in SUBSET S, NEW f,
           \A x \in R : f[x] \in Int, \A x \in S \ R : f[x] = 0
    PROVE  SumFunctionOnSet(f, S) = SumFunctionOnSet(f, R)
<1> DEFINE Sum(s) == SumFunctionOnSet(f, s)
           T == {s \in SUBSET (S \ R) : Sum(R \union s) = Sum(R)}
<1>1. \A s \in SUBSET (S \ R) : \A x \in s :
          Sum(R \union s) = f[x] + Sum((R \union s) \ {x}) /\ f[x] = 0
    <2>1. \A x \in S : f[x] \in Int
        OBVIOUS
    <2> QED
        BY <2>1, SumStep, FS_Subset
<1>2. IsFiniteSet(S \ R) /\ Sum(R) \in Int
    BY FS_Subset, SumInt
<1> HIDE DEF Sum
<1>3. {} \in T
    OBVIOUS
<1>4. ASSUME NEW s \in SUBSET (S \ R), s # {}, \A x \in s : s \ {x} \in T
      PROVE  s \in T
    <2>1. PICK x \in s : TRUE
        BY <1>4
    <2>2. Sum(R \union (s \ {x})) = Sum(R)
        BY <1>4
    <2>3. R \union (s \ {x}) = (R \union s) \ {x}
        OBVIOUS
    <2>4. Sum((R \union s) \ {x}) = Sum(R)
        BY <2>2, <2>3
    <2>5. Sum(R \union s) = f[x] + Sum(R) /\ f[x] = 0
        BY <1>1, <2>4
    <2>6. Sum(R \union s) = Sum(R)
        BY <1>2, <2>5
    <2> QED
        BY <2>6
<1>5. T \subseteq SUBSET (S \ R)
    OBVIOUS
<1> HIDE DEF T
<1>6. T = SUBSET (S \ R)
    BY <1>2, <1>3, <1>4, <1>5, SubsetInduction
<1>7. Sum(R \union (S \ R)) = Sum(R)
    BY <1>6 DEF T
<1>8. R \union (S \ R) = S
    OBVIOUS
<1> QED
    BY <1>7, <1>8 DEF Sum

\* A sum of amounts is at least the sum of some of them, and at least each of them.
LEMMA SumSubset ==
    ASSUME NEW S, IsFiniteSet(S), NEW R \in SUBSET S, NEW f, \A x \in S : f[x] \in Nat
    PROVE  SumFunctionOnSet(f, R) <= SumFunctionOnSet(f, S)
<1> DEFINE g == [x \in S |-> IF x \in R THEN f[x] ELSE 0]
<1>1. \A x \in S : f[x] \in Int /\ g[x] \in Int /\ g[x] <= f[x]
    OBVIOUS
<1>2. /\ \A x \in R : g[x] \in Int /\ f[x] \in Int /\ g[x] = f[x]
      /\ \A x \in S \ R : g[x] = 0
    OBVIOUS
<1> HIDE DEF g
<1>3. SumFunctionOnSet(g, S) <= SumFunctionOnSet(f, S)
    BY <1>1, SumMonotone
<1>4. SumFunctionOnSet(g, S) = SumFunctionOnSet(g, R)
    BY <1>2, SumRestrict
<1>5. SumFunctionOnSet(g, R) = SumFunctionOnSet(f, R)
    BY <1>2, FS_Subset, SumCongruent
<1> QED
    BY <1>3, <1>4, <1>5

\* An amount is at most any sum that it is in.
LEMMA SumElement ==
    ASSUME NEW S, IsFiniteSet(S), NEW f, \A x \in S : f[x] \in Nat, NEW x \in S
    PROVE  f[x] <= SumFunctionOnSet(f, S)
<1>1. SumFunctionOnSet(f, S) = f[x] + SumFunctionOnSet(f, S \ {x})
    BY SumStep
<1>2. SumFunctionOnSet(f, S \ {x}) \in Nat
    BY FS_Subset, SumNat
<1> QED
    BY <1>1, <1>2

\* The sum of multiples.
LEMMA SumLinear ==
    ASSUME NEW S, IsFiniteSet(S), NEW f, NEW g, NEW h, NEW b \in Int, NEW c \in Int,
           \A x \in S : f[x] \in Int /\ g[x] \in Int /\ h[x] = b * f[x] + c * g[x]
    PROVE  SumFunctionOnSet(h, S) = b * SumFunctionOnSet(f, S) + c * SumFunctionOnSet(g, S)
<1> DEFINE Sum(k, s) == SumFunctionOnSet(k, s)
           T == {s \in SUBSET S : Sum(h, s) = b * Sum(f, s) + c * Sum(g, s)}
<1>0. \A x \in S : h[x] \in Int
    OBVIOUS
<1>1. \A s \in SUBSET S : \A x \in s : /\ Sum(f, s) = f[x] + Sum(f, s \ {x})
                                       /\ Sum(g, s) = g[x] + Sum(g, s \ {x})
                                       /\ Sum(h, s) = h[x] + Sum(h, s \ {x})
    BY <1>0, SumStep, FS_Subset
<1>2. Sum(f, {}) = 0 /\ Sum(g, {}) = 0 /\ Sum(h, {}) = 0
    BY SumEmpty
<1>3. \A s \in SUBSET S : Sum(f, s) \in Int /\ Sum(g, s) \in Int
    BY SumInt, FS_Subset
<1> HIDE DEF Sum
<1>4. {} \in T
    BY <1>2
<1>5. ASSUME NEW s \in SUBSET S, s # {}, \A x \in s : s \ {x} \in T
      PROVE  s \in T
    <2>1. PICK x \in s : TRUE
        BY <1>5
    <2> DEFINE u == s \ {x}
    <2>2. /\ Sum(f, s) = f[x] + Sum(f, u) /\ Sum(g, s) = g[x] + Sum(g, u)
          /\ Sum(h, s) = b * f[x] + c * g[x] + Sum(h, u)
        BY <1>1
    <2>3. u \in SUBSET S /\ Sum(h, u) = b * Sum(f, u) + c * Sum(g, u)
        BY <1>5
    <2>4. Sum(f, u) \in Int /\ Sum(g, u) \in Int /\ f[x] \in Int /\ g[x] \in Int
        BY <1>3, <2>3
    <2> HIDE DEF u
    <2>5. /\ b * (f[x] + Sum(f, u)) = b * f[x] + b * Sum(f, u)
          /\ c * (g[x] + Sum(g, u)) = c * g[x] + c * Sum(g, u)
        BY <2>4
    <2>6. /\ b * f[x] \in Int /\ b * Sum(f, u) \in Int
          /\ c * g[x] \in Int /\ c * Sum(g, u) \in Int
        BY <2>4
    <2>7. Sum(h, s) = b * Sum(f, s) + c * Sum(g, s)
        BY <2>2, <2>3, <2>5, <2>6
    <2> QED
        BY <2>7
<1>6. T \subseteq SUBSET S
    OBVIOUS
<1> HIDE DEF T
<1>7. T = SUBSET S
    BY <1>4, <1>5, <1>6, SubsetInduction
<1> QED
    BY <1>7 DEF T, Sum

\* A sum of one and the same number.
LEMMA SumConstant ==
    ASSUME NEW S, IsFiniteSet(S), NEW n \in Int, NEW f, \A x \in S : f[x] = n
    PROVE  SumFunctionOnSet(f, S) = n * Cardinality(S)
<1> DEFINE Sum(s) == SumFunctionOnSet(f, s)
           T == {s \in SUBSET S : Sum(s) = n * Cardinality(s)}
<1>1. \A s \in SUBSET S : \A x \in s : Sum(s) = n + Sum(s \ {x})
    <2>1. \A x \in S : f[x] \in Int
        OBVIOUS
    <2> QED
        BY <2>1, SumStep, FS_Subset
<1>2. Sum({}) = 0 /\ Cardinality({}) = 0
    BY SumEmpty, FS_EmptySet
<1>3. \A s \in SUBSET S : IsFiniteSet(s) /\ Cardinality(s) \in Nat
    BY FS_Subset, FS_CardinalityType
<1> HIDE DEF Sum
<1>4. {} \in T
    BY <1>2
<1>5. ASSUME NEW s \in SUBSET S, s # {}, \A x \in s : s \ {x} \in T
      PROVE  s \in T
    <2>1. PICK x \in s : TRUE
        BY <1>5
    <2> DEFINE u == s \ {x}
               k == Cardinality(u)
    <2>2. Cardinality(s) = k + 1 /\ k \in Nat
        <3>1. u \in SUBSET S /\ Cardinality(u) = Cardinality(s) - 1
            BY <1>3, FS_RemoveElement
        <3> QED
            BY <1>3, <3>1
    <2>3. Sum(s) = n + Sum(u) /\ Sum(u) = n * k
        BY <1>1, <1>5
    <2> HIDE DEF u, k
    <2>4. n + n * k = n * (k + 1)
        BY <2>2
    <2> QED
        BY <2>2, <2>3, <2>4
<1>6. T \subseteq SUBSET S
    OBVIOUS
<1> HIDE DEF T
<1>7. T = SUBSET S
    BY <1>4, <1>5, <1>6, SubsetInduction
<1> QED
    BY <1>7 DEF T, Sum

\* The elements of M that have the key x, or one of the keys in S.
AtKey(M, key, x) == {m \in M : key[m] = x}
AtKeys(M, key, S) == {m \in M : key[m] \in S}

\* Counting key by key: each element of M is counted at the key it has.
LEMMA SumByKey ==
    ASSUME NEW S, IsFiniteSet(S), NEW M, IsFiniteSet(M), NEW key, NEW f,
           \A x \in S : f[x] = Cardinality(AtKey(M, key, x))
    PROVE  SumFunctionOnSet(f, S) = Cardinality(AtKeys(M, key, S))
<1> DEFINE Sum(s) == SumFunctionOnSet(f, s)
           At(s) == AtKeys(M, key, s)
           T == {s \in SUBSET S : Sum(s) = Cardinality(At(s))}
<1>1. \A x \in S : f[x] \in Int
    <2>1. \A x : AtKey(M, key, x) \in SUBSET M
        BY DEF AtKey
    <2>2. \A R \in SUBSET M : Cardinality(R) \in Nat
        BY FS_Subset, FS_CardinalityType
    <2>3. ASSUME NEW x \in S PROVE f[x] \in Nat
        <3> DEFINE v == AtKey(M, key, x)
        <3>1. f[x] = Cardinality(v) /\ v \in SUBSET M
            BY <2>1
        <3> HIDE DEF v
        <3> QED
            BY <2>2, <3>1
    <2> QED
        BY <2>3
<1>2. \A s \in SUBSET S : \A x \in s : Sum(s) = f[x] + Sum(s \ {x})
    BY <1>1, SumStep, FS_Subset
<1>3. {} \in T
    <2>1. Sum({}) = 0 /\ Cardinality({}) = 0 /\ At({}) = {}
        BY SumEmpty, FS_EmptySet DEF AtKeys
    <2> QED
        BY <2>1
<1> HIDE DEF Sum
<1>4. ASSUME NEW s \in SUBSET S, s # {}, \A x \in s : s \ {x} \in T
      PROVE  s \in T
    <2>1. PICK x \in s : TRUE
        BY <1>4
    <2> DEFINE u == At(s \ {x})
               v == AtKey(M, key, x)
    <2>2. IsFiniteSet(u) /\ IsFiniteSet(v)
        <3>1. u \in SUBSET M /\ v \in SUBSET M
            BY DEF AtKey, AtKeys
        <3> HIDE DEF u, v
        <3> QED
            BY <3>1, FS_Subset
    <2>3. At(s) = u \union v /\ u \intersect v = {}
        BY DEF AtKey, AtKeys
    <2>4. Sum(s) = Cardinality(v) + Cardinality(u)
        BY <1>2, <1>4
    <2> HIDE DEF u, v
    <2>5. Cardinality(u \union v) = Cardinality(u) + Cardinality(v)
        <3>1. Cardinality(u \intersect v) = 0
            BY <2>3, FS_EmptySet
        <3>2. Cardinality(u) \in Nat /\ Cardinality(v) \in Nat
            BY <2>2, FS_CardinalityType
        <3>3. Cardinality(u \union v) = Cardinality(u) + Cardinality(v) - Cardinality(u \intersect v)
            BY <2>2, FS_Union
        <3> QED
            BY <3>1, <3>2, <3>3
    <2>6. Cardinality(u) \in Nat /\ Cardinality(v) \in Nat
        BY <2>2, FS_CardinalityType
    <2>7. Sum(s) = Cardinality(u \union v)
        BY <2>4, <2>5, <2>6
    <2>8. Sum(s) = Cardinality(At(s))
        BY <2>3, <2>7
    <2> QED
        BY <2>8
<1>5. T \subseteq SUBSET S
    OBVIOUS
<1> HIDE DEF T
<1>6. T = SUBSET S
    BY <1>3, <1>4, <1>5, SubsetInduction
<1> QED
    BY <1>6 DEF T, Sum

\* Two functions that may differ at x only.
DifferAt(f, g, S, x) ==
    /\ \A y \in S : f[y] \in Int /\ g[y] \in Int
    /\ \A y \in S \ {x} : g[y] = f[y]

\* Changing one term changes the sum by the difference.
LEMMA SumUpdate ==
    ASSUME NEW S, IsFiniteSet(S), NEW x \in S, NEW f, NEW g, DifferAt(f, g, S, x)
    PROVE  SumFunctionOnSet(g, S) = SumFunctionOnSet(f, S) - f[x] + g[x]
<1>1. IsFiniteSet(S \ {x}) /\ \A y \in S : f[y] \in Int /\ g[y] \in Int
    BY FS_Subset DEF DifferAt
<1>2. SumFunctionOnSet(g, S \ {x}) = SumFunctionOnSet(f, S \ {x})
    BY <1>1, SumCongruent DEF DifferAt
<1>3. SumFunctionOnSet(f, S) = f[x] + SumFunctionOnSet(f, S \ {x})
    BY <1>1, SumStep
<1>4. SumFunctionOnSet(g, S) = g[x] + SumFunctionOnSet(g, S \ {x})
    BY <1>1, SumStep
<1>5. SumFunctionOnSet(f, S \ {x}) \in Int /\ f[x] \in Int /\ g[x] \in Int
    BY <1>1, SumInt
<1> QED
    BY <1>2, <1>3, <1>4, <1>5

-----------------------------------------------------------------------------
(* The last of a finite set, in a total order given as a set of pairs      *)

\* A finite set has a last element in a total order.
LEMMA LastExists ==
    ASSUME NEW S, IsFiniteSet(S), S # {}, NEW W,
           \A x, y \in S : x # y => <<x, y>> \in W \/ <<y, x>> \in W,
           \A x, y, z \in S : <<x, y>> \in W /\ <<y, z>> \in W => <<x, z>> \in W
    PROVE  \E x \in S : \A y \in S \ {x} : <<y, x>> \in W
<1> DEFINE T == {s \in SUBSET S : s # {} => \E x \in s : \A y \in s \ {x} : <<y, x>> \in W}
<1>1. {} \in T
    OBVIOUS
<1>2. ASSUME NEW s \in SUBSET S, s # {}, \A x \in s : s \ {x} \in T
      PROVE  s \in T
    <2>1. PICK x \in s : TRUE
        BY <1>2
    <2>2. CASE s = {x}
        <3>1. \A y \in s \ {x} : <<y, x>> \in W
            BY <2>2
        <3> QED
            BY <3>1
    <2>3. CASE s # {x}
        <3>1. PICK z \in s \ {x} : \A y \in (s \ {x}) \ {z} : <<y, z>> \in W
            BY <1>2, <2>3
        <3>2. CASE <<x, z>> \in W
            <4>1. \A y \in s \ {z} : <<y, z>> \in W
                BY <3>1, <3>2
            <4> QED
                BY <4>1
        <3>3. CASE <<z, x>> \in W
            <4>1. \A y \in s \ {x} : <<y, x>> \in W
                BY <3>1, <3>3
            <4> QED
                BY <4>1
        <3> QED
            BY <3>2, <3>3
    <2> QED
        BY <2>2, <2>3
<1>3. T \subseteq SUBSET S
    OBVIOUS
<1> HIDE DEF T
<1>4. T = SUBSET S
    BY <1>1, <1>2, <1>3, SubsetInduction
<1> QED
    BY <1>4 DEF T

\* `Max' of a finite set of numbers is its greatest element.
LEMMA MaxIsNat ==
    ASSUME NEW S, IsFiniteSet(S), S # {}, S \subseteq Nat
    PROVE  Max(S) \in S /\ \A y \in S : y <= Max(S)
<1> DEFINE W == {p \in S \X S : p[1] < p[2]}
<1>1. \A x, y \in S : <<x, y>> \in W <=> x < y
    OBVIOUS
<1>2. \A x, y \in S : x # y => <<x, y>> \in W \/ <<y, x>> \in W
    BY <1>1
<1>3. \A x, y, z \in S : <<x, y>> \in W /\ <<y, z>> \in W => <<x, z>> \in W
    BY <1>1
<1> HIDE DEF W
<1>4. PICK x \in S : \A y \in S \ {x} : <<y, x>> \in W
    BY <1>2, <1>3, LastExists
<1>5. \A y \in S \ {x} : y < x
    BY <1>1, <1>4
<1>6. \A y \in S : x >= y /\ y <= x
    <2>1. ASSUME NEW y \in S
          PROVE  x >= y /\ y <= x
        <3>1. x \in Nat /\ y \in Nat
            OBVIOUS
        <3>2. CASE y = x
            BY <3>1, <3>2
        <3>3. CASE y # x
            BY <1>5, <3>1, <3>3
        <3> QED
            BY <3>2, <3>3
    <2> QED
        BY <2>1
<1>7. Max(S) \in S /\ \A y \in S : Max(S) >= y
    BY <1>6 DEF Max
<1> QED
    BY <1>7

\* `Min' of a set of numbers is its least element.
LEMMA MinIsNat ==
    ASSUME NEW S, S # {}, S \subseteq Nat
    PROVE  Min(S) \in S /\ \A y \in S : Min(S) <= y
BY LeastOf DEF Min

\* What a function makes of a finite set is finite.
LEMMA ImageIsFinite ==
    ASSUME NEW S, IsFiniteSet(S), NEW f
    PROVE  IsFiniteSet({f[x] : x \in S})
<1> DEFINE T == {f[x] : x \in S}
           g == [x \in S |-> f[x]]
<1>1. g \in Surjection(S, T)
    BY DEF Surjection
<1> QED
    BY <1>1, FS_Surjection
=============================================================================
