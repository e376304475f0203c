------------------------------ MODULE SumLemmas -----------------------------
(***************************************************************************)
(* Sums over finite sets, with no state of the system: SumFunctionOnSet    *)
(* does not depend on the order in which it takes the elements, and what   *)
(* follows for a sum one of whose terms changes, for positions that move   *)
(* in pairs, and for the quantities of a list of entries.                  *)
(***************************************************************************)
EXTENDS Integers, Sequences, FiniteSetsExt, FiniteSetTheorems, WellFoundedInduction,
        TLAPS

-----------------------------------------------------------------------------
(* Induction, with a set in place of a predicate.                          *)

\* A set with 0 and the successors of its numbers has every number: otherwise
\* subtracting one maps the numbers missing up to n into themselves, without
\* reaching n.
LEMMA NatSets ==
  ASSUME NEW S, 0 \in S, \A n \in Nat : n \in S => n + 1 \in S
  PROVE  Nat \subseteq S
<1> SUFFICES ASSUME NEW n \in Nat, n \notin S PROVE FALSE
  OBVIOUS
<1> DEFINE T == {m \in 0 .. n : m \notin S}
           f == [m \in T |-> m - 1]
<1>1. IsFiniteSet(T)
  <2>1. IsFiniteSet(0 .. n)
    BY FS_Interval
  <2> QED
    BY <2>1, FS_Subset
<1>2. \A m \in T : m - 1 \in T
  <2> SUFFICES ASSUME NEW m \in T PROVE m - 1 \in T
    OBVIOUS
  <2>1. m # 0 /\ m \in Nat
    OBVIOUS
  <2>2. m - 1 \in Nat /\ (m - 1) + 1 = m
    BY <2>1
  <2>3. m - 1 \notin S
    BY <2>2
  <2> QED
    BY <2>1, <2>2, <2>3
<1>3. f \in Injection(T, T)
  <2>1. f \in [T -> T]
    BY <1>2
  <2>2. \A a, b \in T : f[a] = f[b] => a = b
    OBVIOUS
  <2> QED
    BY <2>1, <2>2 DEF Injection, IsInjective
<1>4. f \in Surjection(T, T)
  BY <1>1, <1>3, FS_Injection
<1>5. n \in T
  OBVIOUS
<1>6. PICK m \in T : f[m] = n
  BY Zenon, <1>4, <1>5 DEF Surjection
<1>7. m - 1 = n /\ m <= n /\ m \in Nat
  BY <1>6
<1> QED
  BY <1>7

\* A family with the empty set that keeps every set it has when an element of
\* S is added has every subset of the finite set S.
LEMMA FiniteSubsets ==
  ASSUME NEW S, IsFiniteSet(S), NEW F, {} \in F,
         \A T \in SUBSET S : \A x \in S \ T : T \in F => T \cup {x} \in F
  PROVE  SUBSET S \subseteq F
<1> DEFINE N == {n \in Nat : \A T \in SUBSET S : Cardinality(T) = n => T \in F}
<1>1. \A T \in SUBSET S : IsFiniteSet(T) /\ Cardinality(T) \in Nat
  BY FS_Subset, FS_CardinalityType
<1>2. 0 \in N
  BY Zenon, <1>1, FS_EmptySet
<1>3. ASSUME NEW n \in Nat, n \in N PROVE n + 1 \in N
  <2> SUFFICES ASSUME NEW T \in SUBSET S, Cardinality(T) = n + 1 PROVE T \in F
    OBVIOUS
  <2>1. PICK x \in T : TRUE
    BY <1>1, FS_EmptySet
  <2>2. T \ {x} \in SUBSET S /\ Cardinality(T \ {x}) = n
    <3>1. Cardinality(T \ {x}) = Cardinality(T) - 1
      BY Zenon, <1>1, FS_RemoveElement
    <3> QED
      BY <3>1
  <2>3. T \ {x} \in F /\ x \in S \ (T \ {x}) /\ (T \ {x}) \cup {x} = T
    BY <1>3, <2>2
  <2> QED
    BY <2>2, <2>3
<1> HIDE DEF N
<1>4. Nat \subseteq N
  BY <1>2, <1>3, NatSets
<1> QED
  BY <1>1, <1>4 DEF N

-----------------------------------------------------------------------------
(* The recursion of the fold.                                              *)

\* The element the library's folds take first.
Choice(s) == CHOOSE x \in s : TRUE

\* it adds up f over every subset of S, element by element.
AddsUp(it, f, S) ==
  it = [s \in SUBSET S |->
          IF s = {} THEN 0 ELSE f[Choice(s)] + it[s \ {Choice(s)}]]

\* It is an element of the set.
LEMMA ChoiceIn == \A s : s # {} => Choice(s) \in s
BY DEF Choice

\* The fold is well defined on a finite set.
LEMMA SumExists ==
  ASSUME NEW f, NEW S, IsFiniteSet(S)
  PROVE  \E it : AddsUp(it, f, S)
<1> DEFINE Small(n) == {s \in SUBSET S : Cardinality(s) <= n}
           Longer(it, n) == [s \in Small(n) |->
              IF s = {} THEN 0 ELSE f[Choice(s)] + it[s \ {Choice(s)}]]
           N == {n \in Nat : \E it : it = Longer(it, n)}
<1>1. \A s \in SUBSET S : IsFiniteSet(s) /\ Cardinality(s) \in Nat
  BY FS_Subset, FS_CardinalityType
<1>2. \A s \in SUBSET S : s # {} =>
        /\ Choice(s) \in s /\ s \ {Choice(s)} \in SUBSET S
        /\ Cardinality(s \ {Choice(s)}) = Cardinality(s) - 1
  BY <1>1, FS_RemoveElement, ChoiceIn
<1>3. 0 \in N
  <2>1. \A s \in Small(0) : s = {}
    BY <1>1, FS_EmptySet
  <2>2. [s \in Small(0) |-> 0] = Longer([s \in Small(0) |-> 0], 0)
    BY <2>1
  <2> QED
    BY Zenon, <2>2
<1>4. ASSUME NEW n \in Nat, n \in N PROVE n + 1 \in N
  <2>1. PICK it : it = Longer(it, n)
    BY Zenon, <1>4
  <2> DEFINE more == Longer(it, n + 1)
  <2>2. \A s \in Small(n) : s \in Small(n + 1) /\ more[s] = it[s]
    <3> SUFFICES ASSUME NEW s \in Small(n)
                 PROVE  s \in Small(n + 1) /\ more[s] = it[s]
      BY Zenon
    <3>1. s \in Small(n + 1)
      BY <1>1
    <3>2. more[s] = IF s = {} THEN 0 ELSE f[Choice(s)] + it[s \ {Choice(s)}]
      BY <3>1
    <3>3. it[s] = IF s = {} THEN 0 ELSE f[Choice(s)] + it[s \ {Choice(s)}]
      BY Zenon, <2>1
    <3> QED
      BY <3>1, <3>2, <3>3
  <2>3. ASSUME NEW s \in Small(n + 1), s # {}
        PROVE  s \ {Choice(s)} \in Small(n)
    BY <1>1, <1>2, <2>3
  <2>4. more = Longer(more, n + 1)
    BY Zenon, <2>2, <2>3
  <2> HIDE DEF more, Longer
  <2>5. \E a : a = Longer(a, n + 1)
    BY Zenon, <2>4
  <2> QED
    BY <2>5
<1> HIDE DEF N
<1>5. Nat \subseteq N
  BY <1>3, <1>4, NatSets
<1>6. Cardinality(S) \in N
  BY <1>5, FS_CardinalityType
<1>7. Small(Cardinality(S)) = SUBSET S
  BY FS_Subset
<1> QED
  BY Zenon, <1>6, <1>7 DEF N, AddsUp

\* What the library computes is that sum.
LEMMA SumIsFold ==
  ASSUME NEW f, NEW S, IsFiniteSet(S)
  PROVE  \E it : AddsUp(it, f, S) /\ SumFunctionOnSet(f, S) = it[S]
<1> DEFINE it == CHOOSE it : it = [s \in SUBSET S |->
                   IF s = {} THEN 0 ELSE f[Choice(s)] + it[s \ {Choice(s)}]]
<1>1. AddsUp(it, f, S)
  <2>0. PICK a : AddsUp(a, f, S)
    BY SumExists
  <2>1. a = [s \in SUBSET S |->
               IF s = {} THEN 0 ELSE f[Choice(s)] + a[s \ {Choice(s)}]]
    BY Zenon, <2>0 DEF AddsUp
  <2> QED
    BY Zenon, <2>1 DEF AddsUp
<1>2. SumFunctionOnSet(f, S) = it[S]
  BY DEF SumFunctionOnSet, FoldFunctionOnSet, MapThenFoldSet, Choice
<1> QED
  BY Zenon, <1>1, <1>2

-----------------------------------------------------------------------------
(* Sums.                                                                   *)

\* Integers are summed, and whichever is taken first the sum is the same.
Integral(f, S) == \A x \in S : f[x] \in Int

InAnyOrder(it, f, S) ==
  \A s \in SUBSET S :
    it[s] \in Int /\ \A x \in s : it[s] = f[x] + it[s \ {x}]

\* In such a sum any element may be counted first.
LEMMA AnyFirst ==
  ASSUME NEW f, NEW S, IsFiniteSet(S), NEW it, AddsUp(it, f, S),
         Integral(f, S)
  PROVE  InAnyOrder(it, f, S)
<1> USE DEF Integral, InAnyOrder
<1> DEFINE Fine(s) == it[s] \in Int /\ \A x \in s : it[s] = f[x] + it[s \ {x}]
           N == {n \in Nat : \A s \in SUBSET S : Cardinality(s) <= n => Fine(s)}
<1>1. \A s \in SUBSET S : IsFiniteSet(s) /\ Cardinality(s) \in Nat
  BY FS_Subset, FS_CardinalityType
<1>2. it[{}] = 0
  BY DEF AddsUp
<1>3. \A s \in SUBSET S : s # {} => Choice(s) \in s /\
                                   it[s] = f[Choice(s)] + it[s \ {Choice(s)}]
  BY Zenon, ChoiceIn DEF AddsUp
<1>4. 0 \in N
  <2>1. \A s \in SUBSET S : Cardinality(s) <= 0 => s = {}
    BY <1>1, FS_EmptySet
  <2>2. Fine({})
    BY <1>2
  <2> QED
    BY <2>1, <2>2
<1>5. ASSUME NEW n \in Nat, n \in N PROVE n + 1 \in N
  <2>0. Fine({})
    BY <1>2
  <2> SUFFICES ASSUME NEW s \in SUBSET S, Cardinality(s) <= n + 1
               PROVE  Fine(s)
    OBVIOUS
  <2> SUFFICES ASSUME s # {} PROVE Fine(s)
    BY Zenon, <2>0
  <2> DEFINE c == Choice(s)
  <2>1. c \in s /\ it[s] = f[c] + it[s \ {c}]
    BY <1>3
  <2> HIDE DEF c
  <2>2. \A x \in s : s \ {x} \in SUBSET S /\ Cardinality(s \ {x}) <= n
    <3>1. \A x \in s : Cardinality(s \ {x}) = Cardinality(s) - 1
      BY <1>1, FS_RemoveElement
    <3> QED
      BY <3>1, <1>1
  <2>3. \A x \in s : Fine(s \ {x})
    BY SMTT(30), <2>2, <1>5
  <2>4. it[s] \in Int
    BY SMTT(30), <2>1, <2>3
  <2>5. ASSUME NEW x \in s, x # c PROVE it[s] = f[x] + it[s \ {x}]
    <3>1. x \in s \ {c} /\ c \in s \ {x}
      BY <2>1, <2>5
    <3>2. (s \ {c}) \ {x} = (s \ {x}) \ {c}
      OBVIOUS
    <3>3. it[s \ {c}] = f[x] + it[(s \ {c}) \ {x}]
      BY SMTT(30), <2>1, <2>3, <3>1
    <3>4. it[s \ {x}] = f[c] + it[(s \ {c}) \ {x}]
      BY SMTT(30), <2>1, <2>3, <3>1, <3>2
    <3>5. /\ f[x] \in Int /\ f[c] \in Int /\ it[s \ {c}] \in Int
          /\ it[(s \ {c}) \ {x}] \in Int
      <4>1. (s \ {c}) \ {x} \in SUBSET S
        OBVIOUS
      <4>2. Cardinality((s \ {c}) \ {x}) <= n
        BY SMTT(30), <1>1, <2>1, <2>2, FS_Subset
      <4> QED
        BY SMTT(30), <4>1, <4>2, <1>5, <2>1, <2>3
    <3> QED
      BY SMTT(30), <2>1, <3>3, <3>4, <3>5
  <2> QED
    BY Zenon, <2>1, <2>4, <2>5
<1> HIDE DEF N
<1>6. Nat \subseteq N
  BY SMTT(30), <1>4, <1>5, NatSets
<1> QED
  <2> SUFFICES ASSUME NEW s \in SUBSET S PROVE Fine(s)
    OBVIOUS
  <2>1. Cardinality(s) \in N
    BY <1>1, <1>6
  <2> QED
    BY <2>1, <1>1 DEF N

\* Functions that agree on S have the same sums over its subsets.
LEMMA SameSums ==
  ASSUME NEW f, NEW g, NEW S, IsFiniteSet(S), NEW R \in SUBSET S,
         \A x \in R : f[x] \in Int /\ g[x] = f[x],
         \A x \in S : f[x] \in Int /\ g[x] \in Int,
         NEW a, AddsUp(a, f, S), NEW b, AddsUp(b, g, R)
  PROVE  a[R] = b[R]
<1> DEFINE F == {T \in SUBSET R : a[T] = b[T]}
<1>1. IsFiniteSet(R)
  BY FS_Subset
<1>2. \A s \in SUBSET S : \A x \in s : a[s] = f[x] + a[s \ {x}]
  <2>1. Integral(f, S)
    BY DEF Integral
  <2> QED
    <3>1. InAnyOrder(a, f, S)
      BY Zenon, <2>1, AnyFirst
    <3> QED
      BY Zenon, <3>1 DEF InAnyOrder
<1>3. \A s \in SUBSET R : \A x \in s : b[s] = g[x] + b[s \ {x}]
  <2>1. Integral(g, R)
    BY DEF Integral
  <2> QED
    <3>1. InAnyOrder(b, g, R)
      BY Zenon, <1>1, <2>1, AnyFirst
    <3> QED
      BY Zenon, <3>1 DEF InAnyOrder
<1>4. {} \in F
  BY SMTT(30) DEF AddsUp
<1>5. ASSUME NEW T \in SUBSET R, NEW x \in R \ T, T \in F
      PROVE  T \cup {x} \in F
  <2>1. (T \cup {x}) \ {x} = T /\ T \cup {x} \in SUBSET R
    OBVIOUS
  <2>2. a[T \cup {x}] = f[x] + a[T]
    BY SMTT(30), <2>1, <1>2
  <2>3. b[T \cup {x}] = g[x] + b[T]
    BY SMTT(30), <2>1, <1>3
  <2> QED
    BY SMTT(30), <2>1, <2>2, <2>3, <1>5
<1> HIDE DEF F
<1>6. SUBSET R \subseteq F
  BY Zenon, <1>1, <1>4, <1>5, FiniteSubsets
<1> QED
  BY SMTT(30), <1>6 DEF F

\* The sum over nothing is zero.
LEMMA SumOfNothing == ASSUME NEW f PROVE SumFunctionOnSet(f, {}) = 0
<1>1. PICK it : AddsUp(it, f, {}) /\ SumFunctionOnSet(f, {}) = it[{}]
  BY SumIsFold, FS_EmptySet
<1> QED
  BY <1>1 DEF AddsUp

\* A sum of integers is an integer, and any element may be counted apart.
LEMMA SumApart ==
  ASSUME NEW f, NEW S, IsFiniteSet(S), \A x \in S : f[x] \in Int
  PROVE  /\ SumFunctionOnSet(f, S) \in Int
         /\ \A x \in S :
              SumFunctionOnSet(f, S) = f[x] + SumFunctionOnSet(f, S \ {x})
<1>1. PICK it : AddsUp(it, f, S) /\ SumFunctionOnSet(f, S) = it[S]
  BY SumIsFold
<1>2. it[S] \in Int /\ \A x \in S : it[S] = f[x] + it[S \ {x}]
  <2>1. Integral(f, S)
    BY DEF Integral
  <2>2. InAnyOrder(it, f, S)
    BY Zenon, <1>1, <2>1, AnyFirst
  <2>3. S \in SUBSET S
    OBVIOUS
  <2> QED
    BY Zenon, <2>2, <2>3 DEF InAnyOrder
<1>3. ASSUME NEW x \in S
      PROVE  SumFunctionOnSet(f, S \ {x}) = it[S \ {x}]
  <2>1. IsFiniteSet(S \ {x})
    BY SMTT(30), FS_RemoveElement
  <2>2. PICK less : /\ AddsUp(less, f, S \ {x})
                    /\ SumFunctionOnSet(f, S \ {x}) = less[S \ {x}]
    BY SMTT(30), <2>1, SumIsFold
  <2> QED
    BY SMTT(30), <1>1, <2>2, SameSums
<1> QED
  BY Zenon, <1>1, <1>2, <1>3

\* Only the values on S matter.
LEMMA SumAgrees ==
  ASSUME NEW f, NEW g, NEW S, IsFiniteSet(S),
         \A x \in S : f[x] \in Int /\ g[x] = f[x]
  PROVE  SumFunctionOnSet(g, S) = SumFunctionOnSet(f, S)
<1>1. PICK a : AddsUp(a, f, S) /\ SumFunctionOnSet(f, S) = a[S]
  BY SumIsFold
<1>2. PICK b : AddsUp(b, g, S) /\ SumFunctionOnSet(g, S) = b[S]
  BY SMTT(30), SumIsFold
<1> QED
  BY SMTT(30), <1>1, <1>2, SameSums

\* A sum changes by what is added to one of its terms.
LEMMA SumChanged ==
  ASSUME NEW f, NEW g, NEW S, IsFiniteSet(S), NEW x \in S, NEW d \in Int,
         \A y \in S : f[y] \in Int,
         g[x] = f[x] + d, \A y \in S \ {x} : g[y] = f[y]
  PROVE  SumFunctionOnSet(g, S) = SumFunctionOnSet(f, S) + d
<1>1. IsFiniteSet(S \ {x})
  BY FS_RemoveElement
<1>2. SumFunctionOnSet(g, S \ {x}) = SumFunctionOnSet(f, S \ {x})
  BY SMTT(30), <1>1, SumAgrees
<1>3. SumFunctionOnSet(f, S \ {x}) \in Int
  BY SMTT(30), <1>1, SumApart
<1>4. SumFunctionOnSet(f, S) = f[x] + SumFunctionOnSet(f, S \ {x})
  BY SumApart
<1>5. \A y \in S : g[y] \in Int
  OBVIOUS
<1>6. SumFunctionOnSet(g, S) = g[x] + SumFunctionOnSet(g, S \ {x})
  BY SMTT(30), <1>5, SumApart
<1> QED
  BY SMTT(30), <1>2, <1>3, <1>4, <1>6

\* A sum over one element more.
LEMMA SumGrows ==
  ASSUME NEW f, NEW S, IsFiniteSet(S), NEW x, x \notin S,
         \A y \in S \cup {x} : f[y] \in Int
  PROVE  SumFunctionOnSet(f, S \cup {x}) = SumFunctionOnSet(f, S) + f[x]
<1>1. IsFiniteSet(S \cup {x}) /\ (S \cup {x}) \ {x} = S
  BY FS_AddElement
<1>2. SumFunctionOnSet(f, S \cup {x}) = f[x] + SumFunctionOnSet(f, S)
  BY SMTT(30), <1>1, SumApart
<1>3. SumFunctionOnSet(f, S) \in Int
  BY SumApart
<1> QED
  BY <1>2, <1>3

\* A sum of what is never negative is not negative, nor less than a part of it.
LEMMA SumOfNaturals ==
  ASSUME NEW f, NEW S, IsFiniteSet(S), \A x \in S : f[x] \in Nat
  PROVE  /\ SumFunctionOnSet(f, S) \in Nat
         /\ \A x \in S : f[x] <= SumFunctionOnSet(f, S)
<1> DEFINE F == {T \in SUBSET S : SumFunctionOnSet(f, T) \in Nat}
<1>1. {} \in F
  BY SumOfNothing
<1>2. ASSUME NEW T \in SUBSET S, NEW x \in S \ T, T \in F
      PROVE  T \cup {x} \in F
  <2>1. IsFiniteSet(T)
    BY FS_Subset
  <2>2. SumFunctionOnSet(f, T \cup {x}) = SumFunctionOnSet(f, T) + f[x]
    BY <2>1, SumGrows
  <2> QED
    BY <2>2, <1>2
<1> HIDE DEF F
<1>3. SUBSET S \subseteq F
  BY SMTT(30), <1>1, <1>2, FiniteSubsets
<1>4. \A T \in SUBSET S : SumFunctionOnSet(f, T) \in Nat
  BY <1>3 DEF F
<1>5. \A x \in S : SumFunctionOnSet(f, S) = f[x] + SumFunctionOnSet(f, S \ {x})
  BY SumApart
<1>6. SumFunctionOnSet(f, S) \in Nat
  BY <1>4
<1>7. ASSUME NEW x \in S PROVE f[x] <= SumFunctionOnSet(f, S)
  <2>1. SumFunctionOnSet(f, S \ {x}) \in Nat
    BY <1>4
  <2> QED
    BY <1>5, <1>6, <2>1
<1> QED
  BY <1>6, <1>7

\* Zeros add up to zero.
LEMMA SumOfZeros ==
  ASSUME NEW f, NEW S, IsFiniteSet(S), \A x \in S : f[x] = 0
  PROVE  SumFunctionOnSet(f, S) = 0
<1> DEFINE F == {T \in SUBSET S : SumFunctionOnSet(f, T) = 0}
<1>1. {} \in F
  BY SumOfNothing
<1>2. ASSUME NEW T \in SUBSET S, NEW x \in S \ T, T \in F
      PROVE  T \cup {x} \in F
  <2>1. IsFiniteSet(T)
    BY SMTT(30), FS_Subset
  <2>2. SumFunctionOnSet(f, T \cup {x}) = SumFunctionOnSet(f, T) + f[x]
    BY <2>1, SumGrows
  <2> QED
    BY <2>2, <1>2
<1> HIDE DEF F
<1>3. SUBSET S \subseteq F
  BY Zenon, <1>1, <1>2, FiniteSubsets
<1> QED
  BY <1>3 DEF F

-----------------------------------------------------------------------------
(* Sums when one term changes.                                             *)

\* A term is added.
LEMMA SumMore ==
  ASSUME NEW f, NEW g, NEW S, IsFiniteSet(S), NEW x, x \notin S,
         \A y \in S : f[y] \in Nat /\ g[y] = f[y], g[x] \in Nat
  PROVE  /\ SumFunctionOnSet(f, S) \in Nat /\ SumFunctionOnSet(g, S \cup {x}) \in Nat
         /\ SumFunctionOnSet(g, S \cup {x}) = SumFunctionOnSet(f, S) + g[x]
<1>1. SumFunctionOnSet(f, S) \in Nat
  BY Zenon, SumOfNaturals
<1>2. SumFunctionOnSet(g, S) = SumFunctionOnSet(f, S)
  <2>1. \A y \in S : f[y] \in Int /\ g[y] = f[y]
    OBVIOUS
  <2> QED
    BY Zenon, <2>1, SumAgrees
<1>3. \A y \in S \cup {x} : g[y] \in Int
  OBVIOUS
<1>4. SumFunctionOnSet(g, S \cup {x}) = SumFunctionOnSet(g, S) + g[x]
  BY Zenon, <1>3, SumGrows
<1> QED
  BY <1>1, <1>2, <1>4

\* Nothing it depends on changes.
LEMMA SumSame ==
  ASSUME NEW f, NEW g, NEW S, IsFiniteSet(S), \A y \in S : f[y] \in Nat /\ g[y] = f[y]
  PROVE  /\ SumFunctionOnSet(f, S) \in Nat
         /\ SumFunctionOnSet(g, S) = SumFunctionOnSet(f, S)
<1>1. \A y \in S : f[y] \in Int /\ g[y] = f[y]
  OBVIOUS
<1> QED
  BY Zenon, <1>1, SumAgrees, SumOfNaturals

\* Of the terms of a sum, x changes by u and y by v.
Moves(p, r, S, x, y, u, v) ==
  \A a \in S : r[a] = p[a] + (IF a = x THEN u ELSE 0) + (IF a = y THEN v ELSE 0)

\* When one gains what the other loses the sum stays what it was.
LEMMA SumMoves ==
  ASSUME NEW S, IsFiniteSet(S), NEW p \in [S -> Int], NEW r, NEW x \in S, NEW y \in S,
         NEW u \in Int, NEW v \in Int, u + v = 0,
         Moves(p, r, S, x, y, u, v)
  PROVE  /\ \A a \in S : r[a] \in Int /\ (a # x /\ a # y => r[a] = p[a])
         /\ SumFunctionOnSet(r, S) = SumFunctionOnSet(p, S)
<1>1. PICK g : g = [p EXCEPT ![x] = p[x] + u]
  BY Zenon
<1>2. /\ \A a \in S : p[a] \in Int /\ g[a] \in Int /\ r[a] \in Int
      /\ g[x] = p[x] + u /\ \A a \in S \ {x} : g[a] = p[a]
      /\ r[y] = g[y] + v /\ \A a \in S \ {y} : r[a] = g[a]
      /\ \A a \in S \ {x, y} : r[a] = p[a]
  BY SMTT(30), <1>1 DEF Moves
<1>3. SumFunctionOnSet(g, S) = SumFunctionOnSet(p, S) + u
  BY SMTT(30), <1>2, SumChanged
<1>4. SumFunctionOnSet(r, S) = SumFunctionOnSet(g, S) + v
  BY SMTT(30), <1>2, SumChanged
<1>5. SumFunctionOnSet(p, S) \in Int
  BY Zenon, <1>2, SumApart
<1> QED
  BY <1>2, <1>3, <1>4, <1>5

-----------------------------------------------------------------------------
(* Lists of entries.                                                       *)

\* The entries of a list, and the next one after k of them.
LEMMA ListEntries ==
  ASSUME NEW S, NEW s \in Seq(S)
  PROVE  /\ Len(s) \in Nat /\ DOMAIN s = 1 .. Len(s)
         /\ \A i \in DOMAIN s : s[i] \in S
         /\ \A k \in Nat : k < Len(s) => k + 1 \in DOMAIN s
OBVIOUS

\* An empty list has none.
LEMMA NoEntries == DOMAIN << >> = {}
OBVIOUS

\* t is s with the entry e added at its end, as number n.
OneLonger(s, e, t, n) ==
  /\ n \notin DOMAIN s /\ DOMAIN t = DOMAIN s \cup {n}
  /\ t[n] = e /\ \A i \in DOMAIN s : t[i] = s[i]

\* That is what Append does.
LEMMA Appended ==
  ASSUME NEW S, NEW s \in Seq(S), NEW e
  PROVE  \E n : OneLonger(s, e, Append(s, e), n)
<1> DEFINE T == S \cup {e}
<1>1. s \in Seq(T) /\ e \in T
  BY SMTT(30)
<1>2. PICK n \in Nat : n = Len(s)
  BY <1>1
<1>3. PICK a : a = Append(s, e)
  BY Zenon
<1>4. Len(a) = n + 1 /\ DOMAIN a = 1 .. n + 1 /\ a[n + 1] = e
  BY SMTT(30), <1>1, <1>2, <1>3
<1>5. DOMAIN s = 1 .. n /\ \A i \in 1 .. n : a[i] = s[i]
  BY SMTT(30), <1>1, <1>2, <1>3
<1>6. n + 1 \notin 1 .. n /\ 1 .. n + 1 = 1 .. n \cup {n + 1}
  OBVIOUS
<1> QED
  BY Zenon, <1>3, <1>4, <1>5, <1>6 DEF OneLonger

\* A list of entries that each have a quantity.
Entries(s) == \E S : s \in Seq(S) /\ \A e \in S : e.quantity \in Nat

\* The quantities of the entries numbered in I.
Quantity(s, I) == SumFunctionOnSet([i \in DOMAIN s |-> s[i].quantity], I)

\* Such quantities are numbers.
LEMMA QuantityTyped ==
  ASSUME NEW s, Entries(s), NEW I \in SUBSET DOMAIN s
  PROVE  Quantity(s, I) \in Nat /\ IsFiniteSet(I)
<1> PICK S : s \in Seq(S) /\ \A e \in S : e.quantity \in Nat
  BY Zenon DEF Entries
<1>1. IsFiniteSet(DOMAIN s)
  BY FS_Interval
<1>2. IsFiniteSet(I)
  BY Zenon, <1>1, FS_Subset
<1>3. PICK Q : Q = [i \in DOMAIN s |-> s[i].quantity]
  BY Zenon
<1>4. \A i \in I : Q[i] \in Nat
  BY <1>3
<1> QED
  BY Zenon, <1>2, <1>3, <1>4, SumOfNaturals DEF Quantity

\* The list s, some of whose entries are numbered in I, grows by the entry e.
Grows(s, I, e, t, n) ==
  /\ Entries(s) /\ I \in SUBSET DOMAIN s
  /\ e.quantity \in Nat /\ OneLonger(s, e, t, n)

\* The entry adds its own to the sets it is in.
Adds(s, I, q, t, n) ==
  /\ Quantity(t, I) = Quantity(s, I)
  /\ Quantity(t, I \cup {n}) = Quantity(s, I) + q

\* It does, wherever the list grows.
LEMMA QuantityMore ==
  ASSUME NEW s, NEW I, NEW e, NEW t, NEW n, Grows(s, I, e, t, n)
  PROVE  Adds(s, I, e.quantity, t, n)
<1>1. IsFiniteSet(I) /\ n \notin I
  BY Zenon, QuantityTyped DEF Grows, OneLonger
<1>2. PICK Q, R : /\ Q = [i \in DOMAIN s |-> s[i].quantity]
                  /\ R = [i \in DOMAIN t |-> t[i].quantity]
  BY Zenon
<1>3. \A i \in DOMAIN s : s[i].quantity \in Nat
  BY DEF Grows, Entries
<1>4. /\ \A i \in I : Q[i] \in Nat /\ R[i] = Q[i]
      /\ R[n] = e.quantity /\ R[n] \in Nat
  BY Zenon, <1>2, <1>3 DEF Grows, OneLonger
<1>5. SumFunctionOnSet(R, I) = SumFunctionOnSet(Q, I)
  BY Zenon, <1>1, <1>4, SumSame
<1>6. SumFunctionOnSet(R, I \cup {n}) = SumFunctionOnSet(Q, I) + R[n]
  BY SMTT(30), <1>1, <1>4, SumMore
<1> QED
  BY Zenon, <1>2, <1>4, <1>5, <1>6 DEF Quantity, Adds

-----------------------------------------------------------------------------
(* What orders on a book lose.                                             *)

\* Order id of the orders B loses q, and goes when that is all it had.
Loses(B, C, id, q) ==
  /\ id \in DOMAIN B /\ q \in 1 .. B[id].remaining
  /\ DOMAIN C = IF q < B[id].remaining THEN DOMAIN B ELSE DOMAIN B \ {id}
  /\ \A i \in DOMAIN C :
       C[i].remaining = IF i = id THEN B[i].remaining - q ELSE B[i].remaining

\* What is left of an order.
LeftIn(B, i) == IF i \in DOMAIN B THEN B[i].remaining ELSE 0

\* It is less by what the order loses, and the others keep what they have.
LEMMA LeftLess ==
  ASSUME NEW B, \A i \in DOMAIN B : B[i].remaining \in Nat,
         NEW C, NEW id, NEW q, Loses(B, C, id, q)
  PROVE  /\ id \in DOMAIN B /\ q \in Nat
         /\ LeftIn(C, id) = LeftIn(B, id) - q
         /\ (id \notin DOMAIN C <=> q = B[id].remaining)
         /\ \A i : i # id => /\ LeftIn(C, i) = LeftIn(B, i)
                             /\ (i \in DOMAIN C <=> i \in DOMAIN B)
<1>1. /\ id \in DOMAIN B /\ B[id].remaining \in Nat /\ q \in Nat
      /\ q < B[id].remaining \/ q = B[id].remaining
  BY SMTT(30) DEF Loses
<1>2. CASE q < B[id].remaining
  <2>1. DOMAIN C = DOMAIN B /\ q # B[id].remaining
    BY SMTT(30), <1>1, <1>2 DEF Loses
  <2> QED
    BY Zenon, <1>1, <2>1 DEF Loses, LeftIn
<1>3. CASE q = B[id].remaining
  <2>1. DOMAIN C = DOMAIN B \ {id} /\ 0 = B[id].remaining - q
    BY SMTT(30), <1>1, <1>3 DEF Loses
  <2> QED
    BY Zenon, <1>1, <1>3, <2>1 DEF Loses, LeftIn
<1> QED
  BY Zenon, <1>1, <1>2, <1>3

\* Of l, what is moved goes to f or to w.
Moved(l, f, w, q, k, g, v) ==
  /\ l \in Nat /\ f \in Nat /\ w \in Nat /\ q \in Nat
  /\ k = l - q
  /\ (g = f + q /\ v = w) \/ (g = f /\ v = w + q)

\* Three numbers add up to as much as three others.
SameSum(l, f, w, k, g, v) == k + g + v = l + f + w

\* That is so when something moves from one to another.
LEMMA SumOfThree ==
  ASSUME NEW l, NEW f, NEW w, NEW q, NEW k, NEW g, NEW v, Moved(l, f, w, q, k, g, v)
  PROVE  SameSum(l, f, w, k, g, v)
BY DEF Moved, SameSum

\* And nothing adds nothing.
LEMMA SumOfNone == ASSUME NEW l \in Nat PROVE l = l + 0 + 0
OBVIOUS

-----------------------------------------------------------------------------
(* Numbers.                                                                *)

\* Zero is a number.
LEMMA Numerals == 0 \in Nat /\ 0 \in Int
OBVIOUS

\* Counting up.
LEMMA Successor ==
  ASSUME NEW n \in Nat
  PROVE  n + 1 \in Nat /\ \A k \in Nat : k <= n => k <= n + 1
OBVIOUS

\* A number is below a threshold or has reached it.
LEMMA Threshold ==
  ASSUME NEW n \in Nat, NEW m \in Nat
  PROVE  /\ n < m \/ n >= m
         /\ (n >= m) \in BOOLEAN
         /\ m > 0 => 0 < m
OBVIOUS

\* A quantity bought and the same quantity sold.
LEMMA Signed ==
  ASSUME NEW q \in Nat
  PROVE  /\ 1 * q \in Int /\ (-1) * q \in Int
         /\ 1 * q + (-1) * q = 0 /\ (-1) * q + 1 * q = 0
OBVIOUS

=============================================================================
