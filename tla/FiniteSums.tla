------------------------------ MODULE FiniteSums ------------------------------
(***************************************************************************)
(* What the proofs share: induction on numbers, for a claim that is a set, *)
(* and the value of a sum over a finite set, in whatever order the fold of *)
(* the library goes through it.                                            *)
(***************************************************************************)
EXTENDS Integers, FiniteSets, FiniteSetTheorems, WellFoundedInduction, TLAPS

\* What holds at 0 and goes on from each number to the next holds up to n.
LEMMA EachUpTo ==
  ASSUME NEW n \in Nat, NEW S, 0 \in S, \A i \in 1..n : i - 1 \in S => i \in S
  PROVE  \A i \in 0..n : i \in S
<1>. DEFINE B == {i \in 0..n : i \notin S}
<1>. SUFFICES ASSUME B # {} PROVE FALSE
  OBVIOUS
<1>1. B \in SUBSET Nat
  OBVIOUS
<1>2. PICK m \in B : \A x \in B : ~ (<<x, m>> \in OpToRel(<, Nat))
  <2>. HIDE DEF B
  <2>. QED  BY <1>1, WFMin, NatLessThanWellFounded, Zenon
<1>3. \A x \in B : ~ (x < m)
  BY <1>1, <1>2, Zenon DEF OpToRel
<1>4. m \in 1..n /\ m \notin S /\ m - 1 \in 0..n /\ m - 1 < m
  OBVIOUS
<1>5. m - 1 \in S
  BY <1>3, <1>4
<1>. QED  BY <1>4, <1>5

--------------------------------------------------------------------------------
(* Sums over finite sets *)

\* An element of a set, the one that the library's fold takes.
OneOf(s) == CHOOSE x \in s : TRUE

\* A set without one of its elements.
LEMMA OneLess ==
  ASSUME NEW S, IsFiniteSet(S), NEW T, T \subseteq S, NEW x \in T
  PROVE  /\ IsFiniteSet(T) /\ Cardinality(T) \in Nat /\ Cardinality(T) > 0
         /\ IsFiniteSet(T \ {x}) /\ Cardinality(T \ {x}) = Cardinality(T) - 1
<1>1. IsFiniteSet(T)
  BY FS_Subset
<1>2. IsFiniteSet(T \ {x}) /\ Cardinality(T \ {x}) = Cardinality(T) - 1
  BY <1>1, FS_RemoveElement
<1>3. Cardinality(T) \in Nat /\ Cardinality(T \ {x}) \in Nat
  BY <1>1, <1>2, FS_CardinalityType
<1>. QED  BY <1>1, <1>2, <1>3

\* g sums v over the subsets of S, as the fold of the library does.
Folded(v, g, s) == IF s = {} THEN 0 ELSE v[OneOf(s)] + g[s \ {OneOf(s)}]
Folds(g, v, D) == g = [s \in D |-> Folded(v, g, s)]

\* The subsets of at most k elements.
UpToCard(S, k) == {s \in SUBSET S : Cardinality(s) <= k}

\* There is such a g, by induction on the size of the subsets.
LEMMA FoldExists ==
  ASSUME NEW S, IsFiniteSet(S), NEW v
  PROVE  \E g : Folds(g, v, SUBSET S)
<1>. DEFINE n == Cardinality(S)
            Good == {k \in 0..n : \E g : Folds(g, v, UpToCard(S, k))}
<1>1. n \in Nat
  BY FS_CardinalityType
<1>2. 0 \in Good
  <2>1. ASSUME NEW s \in UpToCard(S, 0)
        PROVE  s = {}
    <3>1. IsFiniteSet(s) /\ Cardinality(s) \in Nat /\ Cardinality(s) <= 0
      BY FS_Subset, FS_CardinalityType DEF UpToCard
    <3>. QED  BY <3>1, FS_EmptySet
  <2>. DEFINE g == [s \in UpToCard(S, 0) |-> 0]
  <2>2. \A s \in UpToCard(S, 0) : Folded(v, g, s) = 0
    BY <2>1 DEF Folded
  <2>3. Folds(g, v, UpToCard(S, 0))
    BY <2>2 DEF Folds
  <2>. QED  BY <1>1, <2>3
<1>3. ASSUME NEW k \in 1..n, k - 1 \in Good
      PROVE  k \in Good
  <2>1. PICK g : Folds(g, v, UpToCard(S, k - 1))
    BY <1>3
  <2>. DEFINE h == [s \in UpToCard(S, k) |-> Folded(v, g, s)]
  <2>2. ASSUME NEW s \in UpToCard(S, k), s # {}
        PROVE  s \ {OneOf(s)} \in UpToCard(S, k - 1)
    <3>1. OneOf(s) \in s /\ s \subseteq S
      BY <2>2 DEF OneOf, UpToCard
    <3>2. Cardinality(s) \in Nat /\ Cardinality(s \ {OneOf(s)}) = Cardinality(s) - 1
      BY <3>1, OneLess
    <3>3. Cardinality(s) <= k
      BY DEF UpToCard
    <3>4. Cardinality(s \ {OneOf(s)}) <= k - 1
      BY <3>2, <3>3
    <3>. QED  BY <3>1, <3>4 DEF UpToCard
  <2>3. ASSUME NEW s \in UpToCard(S, k - 1)
        PROVE  s \in UpToCard(S, k) /\ h[s] = g[s]
    <3>1. s \in UpToCard(S, k)
      <4>1. s \in SUBSET S /\ Cardinality(s) <= k - 1 /\ Cardinality(s) \in Nat
        BY FS_Subset, FS_CardinalityType DEF UpToCard
      <4>2. Cardinality(s) <= k
        BY <4>1
      <4>. QED  BY <4>1, <4>2 DEF UpToCard
    <3>2. g[s] = Folded(v, g, s)
      <4>1. g = [t \in UpToCard(S, k - 1) |-> Folded(v, g, t)]
        BY <2>1 DEF Folds
      <4>. QED  BY <4>1
    <3>. QED  BY <3>1, <3>2
  <2>4. ASSUME NEW s \in UpToCard(S, k)
        PROVE  Folded(v, g, s) = Folded(v, h, s)
    <3>. HIDE DEF h
    <3>1. CASE s = {}
      BY <3>1 DEF Folded
    <3>2. CASE s # {}
      <4>1. h[s \ {OneOf(s)}] = g[s \ {OneOf(s)}]
        BY <2>2, <2>3, <3>2
      <4>. QED  BY <3>2, <4>1 DEF Folded
    <3>. QED  BY <3>1, <3>2
  <2>5. h = [s \in UpToCard(S, k) |-> Folded(v, h, s)]
    <3>. DEFINE f == [s \in UpToCard(S, k) |-> Folded(v, h, s)]
    <3>1. \A s \in UpToCard(S, k) : h[s] = f[s]
      BY <2>4, Zenon
    <3>. QED  BY <3>1, Zenon
  <2>6. Folds(h, v, UpToCard(S, k))
    BY <2>5, Zenon DEF Folds
  <2>. QED  BY <2>6
<1>4. n \in Good
  <2>1. \A i \in 0..n : i \in Good
    <3>. HIDE DEF Good, n
    <3>. QED  BY <1>1, <1>2, <1>3, EachUpTo
  <2>. QED  BY <1>1, <2>1
<1>5. UpToCard(S, n) = SUBSET S
  <2>1. \A s \in SUBSET S : Cardinality(s) <= n
    BY FS_Subset
  <2>. QED  BY <2>1 DEF UpToCard
<1>. QED  BY <1>4, <1>5

\* Its values are numbers, and any element may be taken out first.
Sums(g, v, S) ==
  \A T \in SUBSET S : /\ g[T] \in Int /\ (T = {} => g[T] = 0)
                      /\ \A x \in T : g[T] = v[x] + g[T \ {x}]

\* It is a number for every subset, and adds any element of the subset to the rest.
LEMMA FoldSums ==
  ASSUME NEW S, IsFiniteSet(S), NEW v, \A x \in S : v[x] \in Int, NEW g, Folds(g, v, SUBSET S)
  PROVE  Sums(g, v, S)
<1>. DEFINE n == Cardinality(S)
            Fine(T) == /\ g[T] \in Int /\ (T = {} => g[T] = 0)
                       /\ \A x \in T : g[T] = v[x] + g[T \ {x}]
            Good == {k \in 0..n : \A T \in SUBSET S : Cardinality(T) <= k => Fine(T)}
<1>1. n \in Nat
  BY FS_CardinalityType
<1>2. \A T \in SUBSET S : g[T] = Folded(v, g, T)
  BY DEF Folds
<1>3. 0 \in Good
  <2>1. ASSUME NEW T \in SUBSET S, Cardinality(T) <= 0
        PROVE  Fine(T)
    <3>1. IsFiniteSet(T) /\ Cardinality(T) \in Nat
      BY FS_Subset, FS_CardinalityType
    <3>2. T = {}
      BY <2>1, <3>1, FS_EmptySet
    <3>3. g[T] = 0
      BY <1>2, <3>2 DEF Folded
    <3>. QED  BY <3>2, <3>3
  <2>. HIDE DEF Fine
  <2>. QED  BY <1>1, <2>1
<1>4. ASSUME NEW k \in 1..n, k - 1 \in Good
      PROVE  k \in Good
  <2>1. \A T \in SUBSET S : Cardinality(T) <= k - 1 => Fine(T)
    BY <1>4
  <2>2. ASSUME NEW T \in SUBSET S, Cardinality(T) <= k, T # {}
        PROVE  Fine(T)
    <3>. DEFINE c == OneOf(T)
    <3>1. c \in T
      BY <2>2 DEF OneOf
    <3>2. g[T] = v[c] + g[T \ {c}]
      BY <1>2, <2>2 DEF Folded
    <3>. HIDE DEF c, Fine
    <3>3. ASSUME NEW x \in T
          PROVE  T \ {x} \in SUBSET S /\ Cardinality(T \ {x}) <= k - 1 /\ Fine(T \ {x})
      <4>1. Cardinality(T) \in Nat /\ Cardinality(T \ {x}) = Cardinality(T) - 1
        BY OneLess
      <4>2. T \ {x} \in SUBSET S /\ Cardinality(T \ {x}) <= k - 1
        BY <2>2, <4>1
      <4>. QED  BY <2>1, <4>2
    <3>4. ASSUME NEW x \in T
          PROVE  g[T] = v[x] + g[T \ {x}]
      <4>1. CASE x = c
        BY <3>2, <4>1
      <4>2. CASE x # c
        <5>1. g[T \ {c}] = v[x] + g[(T \ {c}) \ {x}]
          BY <3>1, <3>3, <4>2 DEF Fine
        <5>2. g[T \ {x}] = v[c] + g[(T \ {x}) \ {c}]
          BY <3>1, <3>3, <4>2 DEF Fine
        <5>3. (T \ {x}) \ {c} = (T \ {c}) \ {x}
          OBVIOUS
        <5>4. v[x] \in Int /\ v[c] \in Int
          BY <2>2, <3>1
        <5>5. g[(T \ {c}) \ {x}] \in Int
          <6>1. (T \ {c}) \ {x} \in SUBSET S /\ x \in T \ {c} /\ T \ {c} \subseteq S
            BY <3>1, <3>3, <4>2
          <6>2. Cardinality((T \ {c}) \ {x}) = Cardinality(T \ {c}) - 1 /\ Cardinality(T \ {c}) \in Nat
            BY <6>1, OneLess
          <6>3. Cardinality((T \ {c}) \ {x}) <= k - 1
            BY <3>1, <3>3, <6>2
          <6>. QED  BY <2>1, <6>1, <6>3 DEF Fine
        <5>. DEFINE r == g[(T \ {c}) \ {x}]
                    b == g[T \ {c}]
                    a == g[T \ {x}]
        <5>6. g[T] = v[c] + b /\ b = v[x] + r /\ a = v[c] + r /\ r \in Int
          BY <3>2, <5>1, <5>2, <5>3, <5>5
        <5>7. g[T] = v[x] + a
          <6>. HIDE DEF a, b, r
          <6>. QED  BY <5>4, <5>6
        <5>. QED  BY <5>7
      <4>. QED  BY <4>1, <4>2
    <3>5. g[T] \in Int
      <4>1. g[T \ {c}] \in Int
        BY <3>1, <3>3 DEF Fine
      <4>2. v[c] \in Int
        BY <3>1
      <4>. QED  BY <3>2, <4>1, <4>2
    <3>. QED  BY <2>2, <3>4, <3>5 DEF Fine
  <2>3. ASSUME NEW T \in SUBSET S, Cardinality(T) <= k
        PROVE  Fine(T)
    <3>1. CASE T = {}
      <4>1. Cardinality(T) <= k - 1
        BY <3>1, FS_EmptySet
      <4>. HIDE DEF Fine
      <4>. QED  BY <2>1, <4>1
    <3>2. CASE T # {}
      BY <2>2, <2>3, <3>2
    <3>. QED  BY <3>1, <3>2
  <2>. QED  BY <2>3
<1>5. n \in Good
  <2>1. \A i \in 0..n : i \in Good
    <3>. HIDE DEF Good, n
    <3>. QED  BY <1>1, <1>3, <1>4, EachUpTo
  <2>. QED  BY <1>1, <2>1
<1>6. \A T \in SUBSET S : Cardinality(T) <= n
  BY FS_Subset
<1>. HIDE DEF Fine, n
<1>7. \A T \in SUBSET S : Fine(T)
  BY <1>5, <1>6
<1>. QED  BY <1>7 DEF Fine, Sums

\* Two such sums agree where their terms do.
LEMMA SumsAgree ==
  ASSUME NEW S, IsFiniteSet(S), NEW R, S \subseteq R, NEW v, NEW w, \A x \in S : v[x] = w[x],
         NEW g, Sums(g, v, S), NEW h, Sums(h, w, R)
  PROVE  g[S] = h[S]
<1>. DEFINE n == Cardinality(S)
            Good == {k \in 0..n : \A T \in SUBSET S : Cardinality(T) <= k => g[T] = h[T]}
<1>1. n \in Nat
  BY FS_CardinalityType
<1>2. 0 \in Good
  <2>1. ASSUME NEW T \in SUBSET S, Cardinality(T) <= 0
        PROVE  g[T] = h[T]
    <3>1. IsFiniteSet(T) /\ Cardinality(T) \in Nat
      BY FS_Subset, FS_CardinalityType
    <3>2. T = {}
      BY <2>1, <3>1, FS_EmptySet
    <3>. QED  BY <3>2 DEF Sums
  <2>. QED  BY <1>1, <2>1
<1>3. ASSUME NEW k \in 1..n, k - 1 \in Good
      PROVE  k \in Good
  <2>1. \A T \in SUBSET S : Cardinality(T) <= k - 1 => g[T] = h[T]
    BY <1>3
  <2>2. ASSUME NEW T \in SUBSET S, Cardinality(T) <= k
        PROVE  g[T] = h[T]
    <3>1. CASE T = {}
      BY <3>1 DEF Sums
    <3>2. CASE T # {}
      <4>1. PICK x \in T : TRUE
        BY <3>2
      <4>2. Cardinality(T) \in Nat /\ Cardinality(T \ {x}) = Cardinality(T) - 1
        BY OneLess
      <4>3. g[T \ {x}] = h[T \ {x}]
        BY <2>1, <2>2, <4>2
      <4>4. g[T] = v[x] + g[T \ {x}] /\ h[T] = w[x] + h[T \ {x}] /\ v[x] = w[x]
        BY DEF Sums
      <4>. QED  BY <4>3, <4>4
    <3>. QED  BY <3>1, <3>2
  <2>. QED  BY <2>2
<1>4. n \in Good
  <2>1. \A i \in 0..n : i \in Good
    <3>. HIDE DEF Good, n
    <3>. QED  BY <1>1, <1>2, <1>3, EachUpTo
  <2>. QED  BY <1>1, <2>1
<1>. QED  BY <1>1, <1>4

================================================================================
