---------------------------- MODULE SumTheorems ----------------------------
(***************************************************************************)
(* What SumFunction of the module Functions computes: the sum of a         *)
(* function on a finite set, whatever order it is taken in.                *)
(***************************************************************************)
EXTENDS Integers, Functions, FiniteSetTheorems, WellFoundedInduction, TLAPS

\* A set of natural numbers has a least element.
LEMMA LeastExists ==
  ASSUME NEW B \in SUBSET Nat, B # {}
  PROVE  \E n \in B : \A m \in B : n <= m
<1>1. IsWellFoundedOn(OpToRel(<, Nat), Nat)
  BY NatLessThanWellFounded
<1>2. PICK n \in B : \A m \in B : ~ (<<m, n>> \in OpToRel(<, Nat))
  BY <1>1, WFMin
<1>3. \A m \in B : ~ (m < n)
  BY <1>2 DEF OpToRel
<1>. QED  BY <1>3

\* Induction over the natural numbers, as a fact about sets.
LEMMA Induction ==
  ASSUME NEW A \in SUBSET Nat, 0 \in A, \A n \in A : n + 1 \in A
  PROVE  A = Nat
<1> SUFFICES ASSUME Nat \ A # {}
             PROVE  FALSE
  OBVIOUS
<1>1. PICK n \in Nat \ A : \A m \in Nat \ A : n <= m
  BY LeastExists
<1>2. n # 0 /\ n - 1 \in Nat
  OBVIOUS
<1>3. n - 1 \in A
  BY <1>1, <1>2
<1>4. (n - 1) + 1 \in A
  BY <1>3
<1>. QED  BY <1>2, <1>4

\* The recursion that SumFunction stands for.
Sums(g, w, S) ==
  g = [s \in SUBSET S |-> IF s = {} THEN 0
                          ELSE w[CHOOSE x \in s : TRUE] + g[s \ {CHOOSE x \in s : TRUE}]]

LEMMA SumFunctionSums ==
  ASSUME NEW w, \E g : Sums(g, w, DOMAIN w)
  PROVE  \E g : Sums(g, w, DOMAIN w) /\ SumFunction(w) = g[DOMAIN w]
<1> DEFINE S == DOMAIN w
           sum[s \in SUBSET S] == IF s = {} THEN 0
                                  ELSE LET x == CHOOSE x \in s : TRUE IN w[x] + sum[s \ {x}]
<1>1. SumFunction(w) = sum[S]
  BY DEF SumFunction, SumFunctionOnSet, FoldFunctionOnSet, MapThenFoldSet
<1>2. Sums(sum, w, S)
  BY DEF Sums
<1>. QED  BY <1>1, <1>2

\* Such a recursion has a solution on a finite set: one for the subsets of each
\* size gives one for those with an element more.
LEMMA SumsExist ==
  ASSUME NEW S, IsFiniteSet(S), NEW w \in [S -> Int]
  PROVE  \E g \in [SUBSET S -> Int] : Sums(g, w, S)
<1> DEFINE pick(s) == CHOOSE x \in s : TRUE
           Term(g, s) == IF s = {} THEN 0 ELSE w[pick(s)] + g[s \ {pick(s)}]
           UpTo(n) == {s \in SUBSET S : Cardinality(s) <= n}
           A == {n \in Nat : \E g \in [SUBSET S -> Int] :
                               \A s \in UpTo(n) : g[s] = Term(g, s)}
<1>1. ASSUME NEW s \in SUBSET S
      PROVE  /\ IsFiniteSet(s) /\ Cardinality(s) \in Nat
             /\ Cardinality(s) = 0 <=> s = {}
             /\ s # {} => /\ pick(s) \in s
                          /\ s \ {pick(s)} \in SUBSET S
                          /\ Cardinality(s \ {pick(s)}) = Cardinality(s) - 1
  <2>1. IsFiniteSet(s) /\ Cardinality(s) \in Nat
    BY FS_Subset, FS_CardinalityType
  <2>2. Cardinality(s) = 0 <=> s = {}
    BY <2>1, FS_EmptySet
  <2>3. s # {} => pick(s) \in s
    OBVIOUS
  <2>4. s # {} => Cardinality(s \ {pick(s)}) = Cardinality(s) - 1
    BY <2>1, <2>3, FS_RemoveElement
  <2>. QED  BY <2>1, <2>2, <2>3, <2>4
<1> HIDE DEF pick
<1>2. 0 \in A
  <2> DEFINE g == [s \in SUBSET S |-> 0]
  <2>1. g \in [SUBSET S -> Int]
    OBVIOUS
  <2>2. ASSUME NEW s \in UpTo(0)
        PROVE  s \in SUBSET S /\ s = {}
    <3>1. s \in SUBSET S /\ Cardinality(s) <= 0
      OBVIOUS
    <3>2. Cardinality(s) \in Nat /\ (Cardinality(s) = 0 => s = {})
      BY <1>1, <3>1
    <3>3. Cardinality(s) = 0
      BY <3>1, <3>2
    <3>. QED  BY <3>1, <3>2, <3>3
  <2>3. \A s \in UpTo(0) : g[s] = Term(g, s)
    BY <2>2
  <2>. QED  BY <2>1, <2>3
<1>3. ASSUME NEW n \in A
      PROVE  n + 1 \in A
  <2>1. PICK g \in [SUBSET S -> Int] : \A s \in UpTo(n) : g[s] = Term(g, s)
    OBVIOUS
  <2> DEFINE h == [s \in SUBSET S |-> Term(g, s)]
  <2>2. h \in [SUBSET S -> Int]
    <3>1. ASSUME NEW s \in SUBSET S
          PROVE  Term(g, s) \in Int
      <4>1. s # {} => w[pick(s)] \in Int /\ g[s \ {pick(s)}] \in Int
        BY <1>1
      <4>. QED  BY <4>1
    <3>. QED  BY <3>1
  <2>3. ASSUME NEW s \in UpTo(n + 1)
        PROVE  h[s] = Term(h, s)
    <3>1. CASE s = {}
      BY <3>1
    <3>2. CASE s # {}
      <4>1. s \in SUBSET S /\ Cardinality(s) <= n + 1 /\ n \in Nat
        OBVIOUS
      <4>2. s \ {pick(s)} \in UpTo(n)
        BY <1>1, <3>2, <4>1
      <4>3. g[s \ {pick(s)}] = h[s \ {pick(s)}]
        BY <2>1, <4>2
      <4>. QED  BY <3>2, <4>1, <4>3
    <3>. QED  BY <3>1, <3>2
  <2>4. n + 1 \in Nat
    OBVIOUS
  <2> HIDE DEF h
  <2>. QED  BY <2>2, <2>3, <2>4
<1>4. Cardinality(S) \in A
  <2>1. A = Nat
    <3> HIDE DEF A
    <3>1. A \in SUBSET Nat
      BY DEF A
    <3>. QED  BY <1>2, <1>3, <3>1, Induction
  <2>. QED
    BY <2>1, FS_CardinalityType
<1>5. PICK g \in [SUBSET S -> Int] : \A s \in UpTo(Cardinality(S)) : g[s] = Term(g, s)
  BY <1>4
<1>6. \A s \in SUBSET S : s \in UpTo(Cardinality(S))
  BY FS_Subset
<1>7. g = [s \in SUBSET S |-> Term(g, s)]
  BY <1>5, <1>6
<1>. QED
  BY <1>7 DEF Sums, pick

\* What holds of the empty set, and of a set if it holds of it less any of its
\* elements, holds of every subset of a finite set.
LEMMA SubsetInduction ==
  ASSUME NEW S, IsFiniteSet(S), NEW P \in SUBSET SUBSET S, {} \in P,
         \A s \in SUBSET S : (s # {} /\ \A x \in s : s \ {x} \in P) => s \in P
  PROVE  \A s \in SUBSET S : s \in P
<1> DEFINE A == {n \in Nat : \A s \in SUBSET S : Cardinality(s) = n => s \in P}
<1>1. ASSUME NEW s \in SUBSET S
      PROVE  /\ Cardinality(s) \in Nat
             /\ Cardinality(s) = 0 => s = {}
             /\ \A x \in s : /\ s \ {x} \in SUBSET S
                             /\ Cardinality(s \ {x}) = Cardinality(s) - 1
  <2>1. IsFiniteSet(s) /\ Cardinality(s) \in Nat
    BY FS_Subset, FS_CardinalityType
  <2>2. Cardinality(s) = 0 => s = {}
    BY <2>1, FS_EmptySet
  <2>3. \A x \in s : Cardinality(s \ {x}) = Cardinality(s) - 1
    BY <2>1, FS_RemoveElement
  <2>. QED  BY <2>1, <2>2, <2>3
<1>2. 0 \in A
  BY <1>1
<1>3. ASSUME NEW n \in A
      PROVE  n + 1 \in A
  <2>1. ASSUME NEW s \in SUBSET S, Cardinality(s) = n + 1
        PROVE  s \in P
    <3>1. ASSUME NEW x \in s
          PROVE  s \ {x} \in P
      <4>1. s \ {x} \in SUBSET S /\ Cardinality(s \ {x}) = n
        BY <1>1, <2>1
      <4>. QED  BY <4>1
    <3>. QED  BY <2>1, <3>1, FS_EmptySet
  <2>. QED  BY <2>1
<1>4. A = Nat
  <2>1. A \in SUBSET Nat
    OBVIOUS
  <2> HIDE DEF A
  <2>. QED  BY <1>2, <1>3, <2>1, Induction
<1>5. ASSUME NEW s \in SUBSET S
      PROVE  s \in P
  <2>1. Cardinality(s) \in A
    BY <1>1, <1>4
  <2>. QED  BY <2>1
<1>. QED  BY <1>5

\* Two solutions agree where what they sum does.
LEMMA SumsAgree ==
  ASSUME NEW S, IsFiniteSet(S), NEW w, NEW g, Sums(g, w, S),
         NEW T \in SUBSET S, NEW v, NEW h, Sums(h, v, T),
         \A x \in T : w[x] = v[x]
  PROVE  \A s \in SUBSET T : g[s] = h[s]
<1> DEFINE P == {s \in SUBSET T : g[s] = h[s]}
<1>1. IsFiniteSet(T)
  BY FS_Subset
<1>2. {} \in P
  BY DEF Sums
<1>3. ASSUME NEW s \in SUBSET T, s # {}, \A x \in s : s \ {x} \in P
      PROVE  s \in P
  <2> DEFINE x == CHOOSE x \in s : TRUE
  <2>1. x \in s
    BY <1>3
  <2>2. s \ {x} \in P
    BY <1>3, <2>1
  <2>3. s \in SUBSET S /\ g[s] = w[x] + g[s \ {x}]
    BY <1>3 DEF Sums
  <2>4. h[s] = v[x] + h[s \ {x}]
    BY <1>3 DEF Sums
  <2>. QED  BY <2>1, <2>2, <2>3, <2>4
<1> HIDE DEF P
<1>4. P \in SUBSET SUBSET T
  BY DEF P
<1>5. \A s \in SUBSET T : s \in P
  BY <1>1, <1>2, <1>3, <1>4, SubsetInduction
<1>. QED  BY <1>5 DEF P

\* A solution takes the elements of a set in any order.
Splits(g, w, S) ==
  /\ g[{}] = 0
  /\ \A s \in SUBSET S : \A x \in s : g[s] = w[x] + g[s \ {x}]

LEMMA SumsSplit ==
  ASSUME NEW S, IsFiniteSet(S), NEW w \in [S -> Int], NEW g \in [SUBSET S -> Int], Sums(g, w, S)
  PROVE  Splits(g, w, S)
<1> DEFINE P == {s \in SUBSET S : \A x \in s : g[s] = w[x] + g[s \ {x}]}
<1>1. {} \in P
  OBVIOUS
<1>2. ASSUME NEW s \in SUBSET S, s # {}, \A x \in s : s \ {x} \in P, NEW x \in s
      PROVE  g[s] = w[x] + g[s \ {x}]
  <2> DEFINE y == CHOOSE y \in s : TRUE
  <2>1. y \in s
    OBVIOUS
  <2>2. g[s] = w[y] + g[s \ {y}]
    BY <1>2 DEF Sums
  <2> HIDE DEF y
  <2>3. CASE x = y
    BY <2>2, <2>3
  <2>4. CASE x # y
    <3>1. s \ {x} \in P /\ s \ {y} \in P
      BY <1>2, <2>1
    <3>2. g[s \ {x}] = w[y] + g[(s \ {x}) \ {y}]
      BY <2>1, <2>4, <3>1
    <3>3. g[s \ {y}] = w[x] + g[(s \ {y}) \ {x}]
      BY <2>4, <3>1
    <3>4. (s \ {x}) \ {y} = (s \ {y}) \ {x}
      OBVIOUS
    <3> DEFINE rest == g[(s \ {y}) \ {x}]
    <3>5. w[x] \in Int /\ w[y] \in Int /\ rest \in Int
      BY <2>1
    <3>6. g[s] = w[y] + (w[x] + rest) /\ g[s \ {x}] = w[y] + rest
      BY <2>2, <3>2, <3>3, <3>4
    <3> HIDE DEF rest
    <3>. QED  BY <3>5, <3>6
  <2>. QED  BY <2>3, <2>4
<1> HIDE DEF P
<1>3. P \in SUBSET SUBSET S
  BY DEF P
<1>4. \A s \in SUBSET S : (s # {} /\ \A x \in s : s \ {x} \in P) => s \in P
  BY <1>2 DEF P
<1>5. \A s \in SUBSET S : s \in P
  BY <1>1, <1>3, <1>4, SubsetInduction
<1>6. g[{}] = 0
  BY DEF Sums
<1>. QED  BY <1>5, <1>6 DEF P, Splits

-----------------------------------------------------------------------------

\* The sum of a function on a finite set is that of a recursion as above.
LEMMA SumIs ==
  ASSUME NEW S, IsFiniteSet(S), NEW w \in [S -> Int]
  PROVE  \E g \in [SUBSET S -> Int] :
           Sums(g, w, S) /\ Splits(g, w, S) /\ SumFunction(w) = g[S]
<1>1. DOMAIN w = S
  OBVIOUS
<1>2. PICK f \in [SUBSET S -> Int] : Sums(f, w, S)
  BY SumsExist
<1>3. PICK g : Sums(g, w, S) /\ SumFunction(w) = g[S]
  BY <1>1, <1>2, SumFunctionSums
<1>4. \A s \in SUBSET S : f[s] = g[s]
  BY <1>2, <1>3, SumsAgree
<1>5. SumFunction(w) = f[S]
  BY <1>3, <1>4
<1>6. Splits(f, w, S)
  BY <1>2, SumsSplit
<1>. QED  BY <1>2, <1>5, <1>6

\* The sum of a function with integer values is an integer.
THEOREM SumType ==
  ASSUME NEW S, IsFiniteSet(S), NEW w \in [S -> Int]
  PROVE  SumFunction(w) \in Int
<1>1. PICK g \in [SUBSET S -> Int] : Sums(g, w, S) /\ Splits(g, w, S) /\ SumFunction(w) = g[S]
  BY SumIs
<1>. QED  BY <1>1

\* The sum on the empty set.
THEOREM SumOfNothing ==
  ASSUME NEW w \in [{} -> Int]
  PROVE  SumFunction(w) = 0
<1>1. IsFiniteSet({})
  BY FS_EmptySet
<1>2. PICK g \in [SUBSET {} -> Int] : Splits(g, w, {}) /\ SumFunction(w) = g[{}]
  BY <1>1, SumIs
<1>. QED  BY <1>2 DEF Splits

\* A sum is one of its terms and the sum of the others.
THEOREM SumSplit ==
  ASSUME NEW S, IsFiniteSet(S), NEW w \in [S -> Int], NEW x \in S,
         NEW v \in [S \ {x} -> Int], \A y \in S \ {x} : v[y] = w[y]
  PROVE  SumFunction(w) = w[x] + SumFunction(v)
<1> DEFINE T == S \ {x}
<1>1. IsFiniteSet(T) /\ T \in SUBSET S
  BY FS_Subset
<1>2. PICK g \in [SUBSET S -> Int] : Sums(g, w, S) /\ Splits(g, w, S) /\ SumFunction(w) = g[S]
  BY SumIs
<1>3. PICK h \in [SUBSET T -> Int] : Sums(h, v, T) /\ Splits(h, v, T) /\ SumFunction(v) = h[T]
  BY <1>1, SumIs
<1>4. g[T] = h[T]
  <2>1. \A s \in SUBSET T : g[s] = h[s]
    <3> HIDE DEF T
    <3>1. \A y \in T : w[y] = v[y]
      BY DEF T
    <3>. QED  BY <1>1, <1>2, <1>3, <3>1, SumsAgree
  <2>. QED  BY <2>1
<1>5. g[S] = w[x] + g[T]
  <2>1. \A s \in SUBSET S : \A y \in s : g[s] = w[y] + g[s \ {y}]
    BY <1>2 DEF Splits
  <2>. QED  BY <2>1
<1>. QED  BY <1>2, <1>3, <1>4, <1>5

\* A sum with a term more.
THEOREM SumWithTerm ==
  ASSUME NEW S, IsFiniteSet(S), NEW v \in [S -> Int], NEW x, x \notin S,
         NEW w \in [S \cup {x} -> Int], \A y \in S : w[y] = v[y]
  PROVE  SumFunction(w) = w[x] + SumFunction(v)
<1> DEFINE T == S \cup {x}
<1>1. IsFiniteSet(T)
  BY FS_AddElement
<1>2. T \ {x} = S /\ x \in T
  OBVIOUS
<1> HIDE DEF T
<1>3. w \in [T -> Int] /\ v \in [T \ {x} -> Int]
  BY <1>2 DEF T
<1>. QED  BY <1>1, <1>2, <1>3, SumSplit

LEMMA SumOfNaturals ==
  ASSUME NEW S, IsFiniteSet(S), NEW w \in [S -> Nat]
  PROVE  \E g \in [SUBSET S -> Int] : Splits(g, w, S) /\ SumFunction(w) = g[S]
<1>1. w \in [S -> Int]
  OBVIOUS
<1>2. PICK g \in [SUBSET S -> Int] : Sums(g, w, S) /\ Splits(g, w, S) /\ SumFunction(w) = g[S]
  BY <1>1, SumIs
<1>. QED  BY <1>2

\* A sum is no larger than one that has a term as large for each of its terms,
\* and none that is negative.
THEOREM SumInto ==
  ASSUME NEW S, IsFiniteSet(S), NEW w \in [S -> Nat],
         NEW T, IsFiniteSet(T), NEW v \in [T -> Nat],
         NEW f \in [T -> S], \A x, y \in T : f[x] = f[y] => x = y,
         \A x \in T : v[x] <= w[f[x]]
  PROVE  SumFunction(v) <= SumFunction(w) /\ SumFunction(v) \in Nat
<1>0. \E h \in [SUBSET T -> Int] : Splits(h, v, T) /\ SumFunction(v) = h[T]
  BY SumOfNaturals
<1>1. PICK g \in [SUBSET S -> Int] : Splits(g, w, S) /\ SumFunction(w) = g[S]
  BY SumOfNaturals
<1>2. PICK h \in [SUBSET T -> Int] : Splits(h, v, T) /\ SumFunction(v) = h[T]
  BY <1>0
<1>3. g[{}] = 0 /\ \A s \in SUBSET S : \A x \in s : g[s] = w[x] + g[s \ {x}]
  BY <1>1 DEF Splits
<1>4. h[{}] = 0 /\ \A s \in SUBSET T : \A x \in s : h[s] = v[x] + h[s \ {x}]
  BY <1>2 DEF Splits
<1> DEFINE Into(s) == {x \in T : f[x] \in s}
           P == {s \in SUBSET S : h[Into(s)] \in Nat /\ h[Into(s)] <= g[s]}
<1>5. {} \in P
  <2>1. Into({}) = {}
    OBVIOUS
  <2> HIDE DEF Into
  <2>2. h[Into({})] = 0 /\ g[{}] = 0
    BY <1>3, <1>4, <2>1
  <2>. QED  BY <2>2
<1>6. ASSUME NEW s \in SUBSET S, s # {}, \A y \in s : s \ {y} \in P
      PROVE  s \in P
  <2>1. PICK y \in s : TRUE
    BY <1>6
  <2> DEFINE r == s \ {y}
  <2>2. /\ h[Into(r)] \in Nat /\ h[Into(r)] <= g[r]
        /\ g[r] \in Int /\ w[y] \in Nat
    BY <1>6
  <2>3. g[s] = w[y] + g[r]
    BY <1>3
  <2>4. CASE \E x \in T : f[x] = y
    <3>1. PICK x \in T : f[x] = y
      BY <2>4
    <3>2. Into(r) = Into(s) \ {x} /\ Into(s) \in SUBSET T /\ x \in Into(s)
      BY <3>1
    <3> HIDE DEF Into
    <3>3. h[Into(s)] = v[x] + h[Into(r)]
      BY <1>4, <3>2
    <3>4. v[x] \in Nat /\ v[x] <= w[y]
      BY <3>1
    <3> DEFINE small == h[Into(r)]
               large == h[Into(s)]
    <3> HIDE DEF r, small, large
    <3>5. large \in Nat /\ large <= g[s]
      BY <2>2, <2>3, <3>3, <3>4 DEF small, large
    <3>. QED  BY <3>5 DEF large
  <2>5. CASE ~\E x \in T : f[x] = y
    <3>1. Into(r) = Into(s)
      BY <2>5
    <3> HIDE DEF r, Into
    <3>2. h[Into(s)] \in Nat /\ h[Into(s)] <= g[r]
      BY <2>2, <3>1
    <3>. QED  BY <2>2, <2>3, <3>2
  <2>. QED  BY <2>4, <2>5
<1> HIDE DEF P
<1>7. P \in SUBSET SUBSET S
  BY DEF P
<1>8. \A s \in SUBSET S : s \in P
  BY <1>5, <1>6, <1>7, SubsetInduction
<1>9. S \in P /\ Into(S) = T
  BY <1>8
<1>. QED  BY <1>1, <1>2, <1>9 DEF P

\* The sum of a function with natural values is a natural number.
THEOREM SumNat ==
  ASSUME NEW S, IsFiniteSet(S), NEW w \in [S -> Nat]
  PROVE  SumFunction(w) \in Nat
<1> DEFINE f == [x \in S |-> x]
<1>1. f \in [S -> S] /\ \A x, y \in S : f[x] = f[y] => x = y
  OBVIOUS
<1>2. \A x \in S : w[x] <= w[f[x]]
  OBVIOUS
<1> HIDE DEF f
<1>. QED  BY <1>1, <1>2, SumInto
=============================================================================
