------------------------------ MODULE McodProofs ------------------------------
(***************************************************************************)
(* McodCore finds the outliers of the naive detector, for every metric,    *)
(* radius, threshold, window and sequence of arrivals.                     *)
(***************************************************************************)
EXTENDS Mcod, FiniteSetTheorems, WellFoundedInduction, TLAPS

--------------------------------------------------------------------------------
(* Numbers, sets and sequences of them. *)

\* A nonempty set of natural numbers has a smallest element.
LEMMA LeastNumber ==
  ASSUME NEW S \in SUBSET Nat, S # {}
  PROVE  \E m \in S : \A x \in S : m <= x
<1>1. \E m \in S : \A x \in S : ~ (<<x, m>> \in OpToRel(<, Nat))
  BY WFMin, NatLessThanWellFounded, Zenon
<1>2. PICK m \in S : \A x \in S : ~ (<<x, m>> \in OpToRel(<, Nat))
  BY <1>1
<1>3. \A x \in S : ~ (x < m)
  BY <1>2, Zenon DEF OpToRel
<1>. QED
  BY <1>3

\* SetToSeq goes once through a finite set.
LEMMA OrderFacts ==
  ASSUME NEW S, IsFiniteSet(S)
  PROVE  /\ SetToSeq(S) \in [1..Cardinality(S) -> S]
         /\ \A i, j \in 1..Cardinality(S) : SetToSeq(S)[i] = SetToSeq(S)[j] => i = j
         /\ \A x \in S : \E i \in 1..Cardinality(S) : SetToSeq(S)[i] = x
         /\ Cardinality(S) \in Nat
<1>. DEFINE n == Cardinality(S)
            f == SetToSeq(S)
<1>1. n \in Nat /\ ExistsBijection(1..n, S)
  BY FS_CardinalityType
<1>2. PICK g : g \in Bijection(1..n, S)
  BY <1>1 DEF ExistsBijection
<1>3. g \in [1..n -> S] /\ IsInjective(g)
  BY <1>2 DEF Bijection, Injection, IsInjective
<1>4. f \in [1..n -> S] /\ IsInjective(f)
  BY <1>3 DEF SetToSeq
<1>5. \A i, j \in 1..n : f[i] = f[j] => i = j
  BY <1>4 DEF IsInjective
<1>6. f \in Injection(1..n, S)
  BY <1>4, <1>5 DEF Injection, IsInjective
<1>7. IsFiniteSet(1..n) /\ Cardinality(1..n) = n
  BY <1>1, FS_Interval
<1>8. f \in Surjection(1..n, S)
  BY <1>6, <1>7, FS_Injection
<1>9. \A x \in S : \E i \in 1..n : f[i] = x
  BY <1>8 DEF Surjection
<1>. QED
  BY <1>1, <1>4, <1>5, <1>9

\* Of a finite set of named things there are as many as there are names.
LEMMA NamesCount ==
  ASSUME NEW S, IsFiniteSet(S), \A x, y \in S : x.id = y.id => x = y
  PROVE  /\ IsFiniteSet({x.id : x \in S})
         /\ Cardinality({x.id : x \in S}) = Cardinality(S)
<1>. DEFINE T == {x.id : x \in S}
            f == [x \in S |-> x.id]
<1>1. f \in [S -> T]
  OBVIOUS
<1>2. \A x, y \in S : f[x] = f[y] => x = y
  OBVIOUS
<1>3. \A t \in T : \E x \in S : f[x] = t
  OBVIOUS
<1>4. f \in Bijection(S, T)
  BY <1>1, <1>2, <1>3 DEF Bijection, Injection, Surjection, IsInjective
<1>. QED
  BY <1>4, FS_Bijection DEF ExistsBijection

\* A later one of finitely many can only add to their number.
LEMMA SubsetCount ==
  ASSUME NEW T, IsFiniteSet(T), NEW S \in SUBSET T
  PROVE  IsFiniteSet(S) /\ Cardinality(S) \in Nat /\ Cardinality(T) \in Nat
         /\ Cardinality(S) <= Cardinality(T)
  BY FS_Subset, FS_CardinalityType

--------------------------------------------------------------------------------
(* Points and what they count. *)

Points ==
  [id : Nat, pos : Positions, after : Nat, before : Seq(Nat), safe : BOOLEAN, rmc : SUBSET Nat]

\* Of the numbers of E the K newest are kept in arrivals; what is older than lo may
\* be among them still.
Newest(arrivals, E, lo) ==
  /\ Len(arrivals) <= K
  /\ \A i, j \in DOMAIN arrivals : arrivals[i] = arrivals[j] => i = j
  /\ \A i \in DOMAIN arrivals : arrivals[i] \in E \/ arrivals[i] < lo
  /\ \A e \in E : \/ \E i \in DOMAIN arrivals : arrivals[i] = e
                  \/ Len(arrivals) = K /\ \A i \in DOMAIN arrivals : e < arrivals[i]

\* A point that counts the later neighbours L and the earlier ones E.
Counted(p, L, E, lo) ==
  /\ IsFiniteSet(L) /\ p.after = Cardinality(L)
  /\ Newest(p.before, E, lo)

LEMMA Threshold == K \in Nat /\ K >= 1
  BY McodAssumption

LEMMA OldestIsOne ==
  ASSUME NEW s \in Seq(Nat), s # <<>>
  PROVE  /\ Oldest(s) \in DOMAIN s
         /\ \A j \in DOMAIN s : s[Oldest(s)] <= s[j]
<1>. DEFINE T == {s[i] : i \in DOMAIN s}
<1>0. 1 \in DOMAIN s /\ s[1] \in T
  OBVIOUS
<1>1. T \in SUBSET Nat /\ T # {}
  BY <1>0
<1>2. PICK m \in T : \A x \in T : m <= x
  BY <1>1, LeastNumber
<1>3. \E i \in DOMAIN s : \A j \in DOMAIN s : s[i] <= s[j]
  BY <1>2
<1>. QED
  BY <1>3 DEF Oldest

\* One more earlier neighbour.
LEMMA NewestAdded ==
  ASSUME NEW s \in Seq(Nat), NEW E \in SUBSET Nat, NEW lo \in Int, NEW a \in Nat,
         Newest(s, E, lo), a \notin E, a >= lo
  PROVE  /\ Len(s) < K => Newest(Append(s, a), E \cup {a}, lo)
         /\ Len(s) >= K /\ a > s[Oldest(s)] =>
              /\ [s EXCEPT ![Oldest(s)] = a] \in Seq(Nat)
              /\ Newest([s EXCEPT ![Oldest(s)] = a], E \cup {a}, lo)
         /\ Len(s) >= K /\ ~ (a > s[Oldest(s)]) => Newest(s, E \cup {a}, lo)
<1>0. DOMAIN s = 1..Len(s) /\ Len(s) \in Nat /\ \A i \in DOMAIN s : s[i] \in Nat /\ s[i] # a
  BY DEF Newest
<1>. K \in Nat /\ K >= 1
  BY Threshold
<1>a. Len(s) \in Nat
  OBVIOUS
<1>1. ASSUME Len(s) < K
      PROVE  Newest(Append(s, a), E \cup {a}, lo)
  <2>. DEFINE t == Append(s, a)
  <2>1. t \in Seq(Nat) /\ Len(t) = Len(s) + 1 /\ DOMAIN t = 1..Len(s) + 1
    OBVIOUS
  <2>2. t[Len(s) + 1] = a /\ \A i \in DOMAIN s : t[i] = s[i] /\ i \in DOMAIN t
    BY <1>0
  <2>3. \A i \in DOMAIN t : i \in DOMAIN s \/ i = Len(s) + 1
    BY <1>0, <2>1
  <2>. HIDE DEF t
  <2>4. Len(t) <= K
    BY <1>0, <1>1, <2>1
  <2>5. \A i, j \in DOMAIN t : t[i] = t[j] => i = j
    BY <1>0, <2>2, <2>3 DEF Newest
  <2>6. \A i \in DOMAIN t : t[i] \in E \cup {a} \/ t[i] < lo
    BY <2>2, <2>3 DEF Newest
  <2>7. \A e \in E : \E i \in DOMAIN t : t[i] = e
    <3>1. Len(s) # K
      BY <1>a, <1>1
    <3>2. \A e \in E : \E i \in DOMAIN s : s[i] = e
      BY <3>1, Zenon DEF Newest
    <3>. QED
      BY <2>2, <3>2
  <2>8. \E i \in DOMAIN t : t[i] = a
    BY <1>0, <2>1, <2>2
  <2>. QED
    BY <2>4, <2>5, <2>6, <2>7, <2>8 DEF Newest, t
<1>2. ASSUME Len(s) >= K
      PROVE  /\ Oldest(s) \in DOMAIN s /\ Len(s) = K
             /\ \A j \in DOMAIN s : s[Oldest(s)] <= s[j]
             /\ \A j \in DOMAIN s : j # Oldest(s) => s[Oldest(s)] < s[j]
  <2>a. Len(s) <= K
    BY Zenon DEF Newest
  <2>b. Len(s) = K
    BY <1>a, <1>2, <2>a
  <2>c. Len(s) # 0
    BY <1>a, <2>b
  <2>1. s # <<>> /\ Len(s) = K
    BY <2>b, <2>c
  <2>2. Oldest(s) \in DOMAIN s /\ \A j \in DOMAIN s : s[Oldest(s)] <= s[j]
    BY <2>1, OldestIsOne
  <2>3. \A j \in DOMAIN s : j # Oldest(s) => s[Oldest(s)] # s[j]
    BY <2>2 DEF Newest
  <2>. QED
    BY <1>0, <2>1, <2>2, <2>3
<1>3. ASSUME Len(s) >= K, a > s[Oldest(s)]
      PROVE  /\ [s EXCEPT ![Oldest(s)] = a] \in Seq(Nat)
             /\ Newest([s EXCEPT ![Oldest(s)] = a], E \cup {a}, lo)
  <2>. DEFINE o == Oldest(s)
              t == [s EXCEPT ![o] = a]
  <2>0. /\ o \in DOMAIN s /\ Len(s) = K
        /\ \A j \in DOMAIN s : j # o => s[o] < s[j]
    BY <1>2, <1>3
  <2>. HIDE DEF o
  <2>1. t \in [1..Len(s) -> Nat]
    BY <1>0
  <2>2. t \in Seq(Nat) /\ Len(t) = Len(s) /\ DOMAIN t = DOMAIN s
    BY <1>0, <2>1
  <2>3. t[o] = a /\ \A i \in DOMAIN s : i # o => t[i] = s[i]
    BY <2>0
  <2>. HIDE DEF t
  <2>4. Len(t) <= K
    BY <2>0, <2>2
  <2>5. \A i, j \in DOMAIN t : t[i] = t[j] => i = j
    BY <1>0, <2>2, <2>3 DEF Newest
  <2>6. \A i \in DOMAIN t : t[i] \in E \cup {a} \/ t[i] < lo
    BY <2>2, <2>3 DEF Newest
  <2>7. ASSUME NEW e \in E, \A i \in DOMAIN t : t[i] # e
        PROVE  Len(t) = K /\ \A i \in DOMAIN t : e < t[i]
    <3>0. a > s[o] /\ s[o] \in Nat
      BY <1>0, <1>3, <2>0 DEF o
    <3>1. e <= s[o] /\ e \in Nat
      <4>1. CASE \E i \in DOMAIN s : s[i] = e
        BY <2>0, <2>2, <2>3, <2>7, <4>1
      <4>2. CASE \A i \in DOMAIN s : e < s[i]
        BY <2>0, <3>0, <4>2
      <4>. QED
        BY <4>1, <4>2 DEF Newest
    <3>2. \A i \in DOMAIN t : e < t[i]
      <4>1. ASSUME NEW i \in DOMAIN t PROVE e < t[i]
        <5>1. CASE i = o
          BY <2>3, <3>0, <3>1, <5>1
        <5>2. CASE i # o
          <6>1. t[i] = s[i] /\ s[o] < s[i] /\ s[i] \in Nat
            BY <1>0, <2>0, <2>2, <2>3, <5>2
          <6>. QED
            BY <3>0, <3>1, <6>1
        <5>. QED
          BY <5>1, <5>2
      <4>. QED
        BY <4>1
    <3>. QED
      BY <2>0, <2>2, <3>2
  <2>8. \E i \in DOMAIN t : t[i] = a
    BY <2>0, <2>2, <2>3
  <2>9. Newest(t, E \cup {a}, lo)
    BY <2>4, <2>5, <2>6, <2>7, <2>8 DEF Newest
  <2>. QED
    BY <2>2, <2>9 DEF t, o
<1>4. ASSUME Len(s) >= K, ~ (a > s[Oldest(s)])
      PROVE  Newest(s, E \cup {a}, lo)
  <2>1. \A i \in DOMAIN s : a < s[i]
    BY <1>0, <1>2, <1>4
  <2>. QED
    BY <1>2, <1>4, <2>1 DEF Newest
<1>. QED
  BY <1>1, <1>3, <1>4

\* A neighbour that was not counted yet is counted, as earlier or as later.
LEMMA NeighborAdded ==
  ASSUME NEW p \in Points, NEW L \in SUBSET Nat, NEW E \in SUBSET Nat, NEW lo \in Int,
         NEW a \in Nat, Counted(p, L, E, lo),
         a \notin L, a \notin E, a >= lo, a # p.id
  PROVE  LET q == AddNeighbor(p, a)
         IN  /\ q \in Points
             /\ q.id = p.id /\ q.pos = p.pos /\ q.rmc = p.rmc /\ q.after >= p.after
             /\ q.safe => p.safe \/ q.after >= K
             /\ a > p.id => Counted(q, L \cup {a}, E, lo)
             /\ a < p.id => Counted(q, L, E \cup {a}, lo)
<1>. DEFINE q == AddNeighbor(p, a)
<1>. K \in Nat /\ K >= 1
  BY Threshold
<1>0. /\ p.id \in Nat /\ p.pos \in Positions /\ p.after \in Nat /\ p.before \in Seq(Nat)
      /\ p.safe \in BOOLEAN /\ p.rmc \in SUBSET Nat
      /\ IsFiniteSet(L) /\ p.after = Cardinality(L) /\ Newest(p.before, E, lo)
  BY DEF Points, Counted
<1>1. CASE a > p.id
  <2>1. q = [p EXCEPT !.after = @ + 1, !.safe = @ \/ p.after + 1 >= K]
    BY <1>0, <1>1 DEF AddNeighbor, WithLater
  <2>2. /\ q \in Points
        /\ q.id = p.id /\ q.pos = p.pos /\ q.rmc = p.rmc /\ q.after = p.after + 1
        /\ q.safe = (p.safe \/ p.after + 1 >= K) /\ q.before = p.before
    <3>1. (p.safe \/ p.after + 1 >= K) \in BOOLEAN /\ p.after + 1 \in Nat
      BY <1>0
    <3>. DEFINE u == (p.safe \/ p.after + 1 >= K)
    <3>2. q = [p EXCEPT !.after = p.after + 1, !.safe = u]
      BY <2>1
    <3>3. u \in BOOLEAN
      BY <3>1
    <3>. HIDE DEF u, q
    <3>4. /\ q \in Points
          /\ q.id = p.id /\ q.pos = p.pos /\ q.rmc = p.rmc /\ q.after = p.after + 1
          /\ q.safe = u /\ q.before = p.before
      BY <3>1, <3>2, <3>3 DEF Points
    <3>. QED
      BY <3>4 DEF u
  <2>3. IsFiniteSet(L \cup {a}) /\ Cardinality(L \cup {a}) = Cardinality(L) + 1
    BY <1>0, FS_AddElement
  <2>4. Counted(q, L \cup {a}, E, lo)
    BY <1>0, <2>2, <2>3 DEF Counted
  <2>. QED
    BY <1>0, <1>1, <2>2, <2>4
<1>2. CASE a < p.id
  <2>. DEFINE b == IF Len(p.before) < K THEN Append(p.before, a)
                   ELSE IF a > p.before[Oldest(p.before)]
                        THEN [p.before EXCEPT ![Oldest(p.before)] = a]
                   ELSE p.before
  <2>0. /\ Len(p.before) < K => Newest(Append(p.before, a), E \cup {a}, lo)
        /\ Len(p.before) >= K /\ a > p.before[Oldest(p.before)] =>
             /\ [p.before EXCEPT ![Oldest(p.before)] = a] \in Seq(Nat)
             /\ Newest([p.before EXCEPT ![Oldest(p.before)] = a], E \cup {a}, lo)
        /\ Len(p.before) >= K /\ ~ (a > p.before[Oldest(p.before)]) =>
             Newest(p.before, E \cup {a}, lo)
    <3>. DEFINE s == p.before
    <3>1. s \in Seq(Nat) /\ Newest(s, E, lo)
      BY <1>0
    <3>. HIDE DEF s
    <3>2. /\ Len(s) < K => Newest(Append(s, a), E \cup {a}, lo)
          /\ Len(s) >= K /\ a > s[Oldest(s)] =>
               /\ [s EXCEPT ![Oldest(s)] = a] \in Seq(Nat)
               /\ Newest([s EXCEPT ![Oldest(s)] = a], E \cup {a}, lo)
          /\ Len(s) >= K /\ ~ (a > s[Oldest(s)]) => Newest(s, E \cup {a}, lo)
      BY <3>1, NewestAdded
    <3>. QED
      BY <3>2 DEF s
  <2>1. b \in Seq(Nat) /\ Newest(b, E \cup {a}, lo)
    <3>0. Len(p.before) \in Nat
      BY <1>0
    <3>1. CASE Len(p.before) < K
      <4>1. b = Append(p.before, a) /\ Append(p.before, a) \in Seq(Nat)
        BY <1>0, <3>1
      <4>. QED
        BY <2>0, <3>1, <4>1 DEF Newest
    <3>2. CASE ~ (Len(p.before) < K) /\ a > p.before[Oldest(p.before)]
      <4>1. b = [p.before EXCEPT ![Oldest(p.before)] = a] /\ Len(p.before) >= K
        BY <3>0, <3>2
      <4>. HIDE DEF b
      <4>. QED
        BY <2>0, <3>2, <4>1
    <3>3. CASE ~ (Len(p.before) < K) /\ ~ (a > p.before[Oldest(p.before)])
      <4>1. b = p.before /\ Len(p.before) >= K
        BY <3>0, <3>3
      <4>. HIDE DEF b
      <4>. QED
        BY <1>0, <2>0, <3>3, <4>1
    <3>. QED
      BY <3>1, <3>2, <3>3
  <2>2. q = WithEarlier(p, a)
    BY <1>0, <1>2 DEF AddNeighbor
  <2>3. q = [p EXCEPT !.before = b]
    <3>1. CASE Len(p.before) < K
      BY <2>2, <3>1 DEF WithEarlier
    <3>2. CASE ~ (Len(p.before) < K) /\ a > p.before[Oldest(p.before)]
      BY <2>2, <3>2 DEF WithEarlier
    <3>3. CASE ~ (Len(p.before) < K) /\ ~ (a > p.before[Oldest(p.before)])
      <4>1. b = p.before /\ q = p
        BY <2>2, <3>3 DEF WithEarlier
      <4>2. p = [p EXCEPT !.before = p.before]
        BY DEF Points
      <4>. QED
        BY <4>1, <4>2
    <3>. QED
      BY <3>1, <3>2, <3>3
  <2>. HIDE DEF b
  <2>4. /\ q \in Points
        /\ q.id = p.id /\ q.pos = p.pos /\ q.rmc = p.rmc /\ q.after = p.after
        /\ q.safe = p.safe /\ q.before = b
    BY <1>0, <2>1, <2>3 DEF Points
  <2>5. Counted(q, L, E \cup {a}, lo)
    BY <1>0, <2>1, <2>4 DEF Counted
  <2>. QED
    BY <1>0, <1>2, <2>4, <2>5
<1>. QED
  BY <1>0, <1>1, <1>2


\* Induction, on a set.
LEMMA UpTo ==
  ASSUME NEW n \in Nat, NEW S, 0 \in S, \A i \in 0..n : i \in S /\ i < n => i + 1 \in S
  PROVE  \A i \in 0..n : i \in S
<1>. DEFINE B == {i \in 0..n : i \notin S}
<1>. SUFFICES ASSUME B # {} PROVE FALSE
  OBVIOUS
<1>1. B \in SUBSET Nat
  OBVIOUS
<1>2. PICK m \in B : \A x \in B : m <= x
  BY <1>1, LeastNumber
<1>3. m \in 0..n /\ m \notin S /\ m # 0
  BY <1>2
<1>4. m - 1 \in 0..n /\ m - 1 < n /\ ~ (m <= m - 1)
  BY <1>3
<1>5. m - 1 \in S
  BY <1>2, <1>4
<1>6. (m - 1) + 1 \in S
  BY <1>4, <1>5
<1>. QED
  BY <1>3, <1>6

Above(S, i) == {a \in S : a > i}
Below(S, i) == {a \in S : a < i}

\* No number of S is counted yet.
Uncounted(S, p, L, E, lo) == \A a \in S : a \notin L /\ a \notin E /\ a >= lo /\ a # p.id

\* q is p, counting L and E.
Counting(q, p, L, E, lo) ==
  /\ q \in Points
  /\ q.id = p.id /\ q.pos = p.pos /\ q.rmc = p.rmc
  /\ q.safe => p.safe \/ q.after >= K
  /\ Counted(q, L, E, lo)

\* Several neighbours that were not counted yet.
LEMMA NeighborsAdded ==
  ASSUME NEW p \in Points, NEW L \in SUBSET Nat, NEW E \in SUBSET Nat, NEW lo \in Int,
         NEW S \in SUBSET Nat, IsFiniteSet(S), Counted(p, L, E, lo), Uncounted(S, p, L, E, lo)
  PROVE  Counting(AddNeighbors(p, S), p, L \cup Above(S, p.id), E \cup Below(S, p.id), lo)
<1>. DEFINE n == Cardinality(S)
            order == SetToSeq(S)
            Step(f, i) == IF i = 0 THEN p ELSE AddNeighbor(f[i - 1], order[i])
            met == CHOOSE f : f = [i \in 0..n |-> Step(f, i)]
<1>0. \A a \in S : a \notin L /\ a \notin E /\ a >= lo /\ a # p.id
  BY DEF Uncounted
<1>1. AddNeighbors(p, S) = met[n]
  BY DEF AddNeighbors
<1>2. /\ n \in Nat /\ order \in [1..n -> S]
      /\ \A i, j \in 1..n : order[i] = order[j] => i = j
      /\ \A a \in S : \E i \in 1..n : order[i] = a
  BY OrderFacts
<1>. HIDE DEF n, order
<1>. DEFINE Some == {k \in 0..n : \E f : f = [i \in 0..k |-> Step(f, i)]}
<1>3. \A k \in 0..n : k \in Some
  <2>1. 0 \in Some
    <3>. DEFINE f == [i \in 0..0 |-> p]
    <3>1. f = [i \in 0..0 |-> Step(f, i)]
      OBVIOUS
    <3>. HIDE DEF f
    <3>2. \E h : h = [i \in 0..0 |-> Step(h, i)]
      BY <3>1
    <3>3. 0 \in 0..n
      BY <1>2
    <3>. QED
      BY <3>2, <3>3
  <2>2. ASSUME NEW k \in 0..n, k \in Some, k < n
        PROVE  k + 1 \in Some
    <3>1. PICK f : f = [i \in 0..k |-> Step(f, i)]
      BY <2>2
    <3>. DEFINE g == [i \in 0..k + 1 |-> IF i <= k THEN f[i] ELSE AddNeighbor(f[k], order[k + 1])]
    <3>2. ASSUME NEW i \in 0..k + 1
          PROVE  g[i] = Step(g, i)
      <4>1. CASE i = 0
        BY <1>2, <3>1, <4>1
      <4>2. CASE i # 0 /\ i <= k
        <5>1. i \in 0..k /\ i - 1 \in 0..k + 1 /\ i - 1 <= k
          BY <1>2, <2>2, <4>2
        <5>2. g[i] = f[i] /\ g[i - 1] = f[i - 1]
          BY <4>2, <5>1
        <5>3. f[i] = Step(f, i)
          BY <3>1, <5>1
        <5>. HIDE DEF g
        <5>. QED
          BY <5>2, <5>3
      <4>3. CASE i = k + 1
        <5>1. k \in 0..k + 1 /\ ~ (k + 1 <= k) /\ i - 1 = k /\ i # 0 /\ k <= k
          BY <1>2, <2>2, <4>3
        <5>2. g[k] = f[k]
          BY <5>1
        <5>3. g[i] = AddNeighbor(f[k], order[k + 1])
          BY <4>3, <5>1
        <5>. HIDE DEF g
        <5>. QED
          BY <4>3, <5>1, <5>2, <5>3
      <4>. QED
        BY <1>2, <2>2, <4>1, <4>2, <4>3
    <3>3. g = [i \in 0..k + 1 |-> Step(g, i)]
      <4>1. g = [i \in 0..k + 1 |-> g[i]]
        OBVIOUS
      <4>. HIDE DEF g
      <4>. QED
        BY <3>2, <4>1
    <3>4. k + 1 \in 0..n
      BY <1>2, <2>2
    <3>. QED
      BY <3>3, <3>4
  <2>. HIDE DEF Some
  <2>. QED
    BY <1>2, <2>1, <2>2, UpTo
<1>4. met = [i \in 0..n |-> Step(met, i)]
  <2>1. n \in 0..n
    BY <1>2
  <2>2. \E f : f = [i \in 0..n |-> Step(f, i)]
    BY <1>3, <2>1
  <2>. QED
    BY <2>2, Zenon
<1>. HIDE DEF met
<1>5. met[0] = p /\ \A i \in 0..n : i < n => met[i + 1] = AddNeighbor(met[i], order[i + 1])
  <2>1. met[0] = p
    BY <1>2, <1>4
  <2>2. ASSUME NEW i \in 0..n, i < n
        PROVE  met[i + 1] = AddNeighbor(met[i], order[i + 1])
    <3>1. i + 1 \in 0..n /\ i + 1 # 0 /\ (i + 1) - 1 = i
      BY <1>2, <2>2
    <3>2. met[i + 1] = Step(met, i + 1)
      BY <1>4, <3>1
    <3>. QED
      BY <3>1, <3>2
  <2>. QED
    BY <2>1, <2>2
<1>. DEFINE Done(i) == {order[j] : j \in 1..i}
            Fact(q, D) ==
              /\ q \in Points
              /\ q.id = p.id /\ q.pos = p.pos /\ q.rmc = p.rmc
              /\ q.safe => p.safe \/ q.after >= K
              /\ Counted(q, L \cup {a \in D : a > p.id}, E \cup {a \in D : a < p.id}, lo)
            Good == {i \in 0..n : Fact(met[i], Done(i))}
<1>6. 0 \in Good
  <2>1. Done(0) = {}
    OBVIOUS
  <2>2. L \cup {a \in {} : a > p.id} = L /\ E \cup {a \in {} : a < p.id} = E
    OBVIOUS
  <2>3. Fact(p, {})
    BY <2>2
  <2>. HIDE DEF Fact, Done
  <2>4. Fact(met[0], Done(0))
    BY <1>5, <2>1, <2>3
  <2>5. 0 \in 0..n
    BY <1>2
  <2>. QED
    BY <2>4, <2>5
<1>. HIDE DEF Good
<1>7. ASSUME NEW i \in 0..n, i \in Good, i < n
      PROVE  i + 1 \in Good
  <2>. DEFINE D == Done(i)
              q == met[i]
              a == order[i + 1]
              r == met[i + 1]
  <2>0. i \in 0..n /\ i < n /\ Fact(met[i], Done(i))
    BY <1>7 DEF Good
  <2>1. i + 1 \in 1..n /\ i + 1 \in 0..n /\ a \in S /\ a \in Nat
    <3>. HIDE DEF Fact, Done
    <3>1. i + 1 \in 1..n /\ i + 1 \in 0..n
      BY <1>2, <2>0
    <3>. QED
      BY <1>2, <3>1
  <2>2. r = AddNeighbor(q, a)
    BY <1>5, <2>0
  <2>3. a \notin D
    <3>1. \A j \in 1..i : j \in 1..n /\ j # i + 1
      BY <1>2, <1>7
    <3>. QED
      BY <1>2, <2>1, <3>1
  <2>4. Done(i + 1) = D \cup {a}
    <3>1. 1..(i + 1) = (1..i) \cup {i + 1}
      BY <1>2, <1>7
    <3>. QED
      BY <3>1
  <2>5. D \in SUBSET Nat
    <3>1. ASSUME NEW j \in 1..i PROVE order[j] \in Nat
      <4>1. j \in 1..n
        BY <1>2, <1>7
      <4>. QED
        BY <1>2, <4>1
    <3>. QED
      BY <3>1
  <2>6. Fact(q, D)
    BY <2>0
  <2>. DEFINE LD == L \cup {x \in D : x > p.id}
              ED == E \cup {x \in D : x < p.id}
  <2>7. p.id \in Nat /\ q.id = p.id /\ q \in Points /\ q.after \in Nat
    BY <2>6 DEF Points
  <2>8. LD \in SUBSET Nat /\ ED \in SUBSET Nat /\ Counted(q, LD, ED, lo) /\ a \notin LD /\ a \notin ED
        /\ a >= lo /\ a # q.id
    BY <1>0, <2>1, <2>3, <2>5, <2>6, <2>7
  <2>. HIDE DEF D, q, a, LD, ED
  <2>9. /\ r \in Points
        /\ r.id = q.id /\ r.pos = q.pos /\ r.rmc = q.rmc /\ r.after >= q.after
        /\ r.safe => q.safe \/ r.after >= K
        /\ a > q.id => Counted(r, LD \cup {a}, ED, lo)
        /\ a < q.id => Counted(r, LD, ED \cup {a}, lo)
    <3>. DEFINE t == AddNeighbor(q, a)
    <3>1. /\ t \in Points
          /\ t.id = q.id /\ t.pos = q.pos /\ t.rmc = q.rmc /\ t.after >= q.after
          /\ t.safe => q.safe \/ t.after >= K
          /\ a > q.id => Counted(t, LD \cup {a}, ED, lo)
          /\ a < q.id => Counted(t, LD, ED \cup {a}, lo)
      BY <2>1, <2>7, <2>8, NeighborAdded
    <3>. QED
      BY <2>2, <3>1
  <2>10. Counted(r, L \cup {x \in D \cup {a} : x > p.id}, E \cup {x \in D \cup {a} : x < p.id}, lo)
    <3>1. CASE a > p.id
      <4>1. L \cup {x \in D \cup {a} : x > p.id} = LD \cup {a}
            /\ E \cup {x \in D \cup {a} : x < p.id} = ED
        BY <2>1, <2>7, <3>1, <2>5 DEF LD, ED
      <4>. QED
        BY <2>7, <2>9, <3>1, <4>1
    <3>2. CASE a < p.id
      <4>1. L \cup {x \in D \cup {a} : x > p.id} = LD
            /\ E \cup {x \in D \cup {a} : x < p.id} = ED \cup {a}
        BY <2>1, <2>7, <3>2, <2>5 DEF LD, ED
      <4>. QED
        BY <2>7, <2>9, <3>2, <4>1
    <3>. QED
      BY <2>1, <2>7, <2>8, <3>1, <3>2
  <2>11. r.safe => p.safe \/ r.after >= K
    <3>1. r.after \in Nat /\ K \in Nat
      BY <2>9, Threshold DEF Points
    <3>2. q.after >= K => r.after >= K
      BY <2>7, <2>9, <3>1
    <3>. QED
      BY <2>6, <2>9, <3>2 DEF q, D
  <2>12. Fact(r, D \cup {a})
    BY <2>6, <2>9, <2>10, <2>11 DEF q, D
  <2>13. Fact(met[i + 1], Done(i + 1))
    BY <2>4, <2>12 DEF D
  <2>. HIDE DEF Fact, Done
  <2>. QED
    BY <2>1, <2>13 DEF Good
<1>8. n \in Good
  <2>1. \A i \in 0..n : i \in Good
    BY <1>2, <1>6, <1>7, UpTo
  <2>. QED
    BY <1>2, <2>1
<1>9. Done(n) = S
  <2>1. \A a \in Done(n) : a \in S
    BY <1>2
  <2>2. \A a \in S : a \in Done(n)
    BY <1>2
  <2>. QED
    BY <2>1, <2>2
<1>10. Fact(met[n], S)
  <2>. HIDE DEF Fact, Done
  <2>. QED
    BY <1>8, <1>9 DEF Good
<1>. QED
  BY <1>1, <1>10 DEF Above, Below, Counting


--------------------------------------------------------------------------------
(* What holds of a state at every moment of a slide. *)

Seen == [id : Nat, pos : Positions]
Clusters == [center : Positions, members : SUBSET Points]

\* What the naive detector sees of a point.
Elem(p) == [id |-> p.id, pos |-> p.pos]

All(d, c) == {d[q] : q \in DOMAIN d} \cup UNION {c[m].members : m \in DOMAIN c}
Held(d, c) == {Elem(x) : x \in All(d, c)}

Later(i, x, Y) == {e.id : e \in {f \in Y : f.id > i /\ WithinR(x, f.pos)}}
Earlier(i, x, Y) == {e.id : e \in {f \in Y : f.id < i /\ WithinR(x, f.pos)}}

\* A point has counted its neighbours in Y.
Knows(p, Y, lo) == Counted(p, Later(p.id, p.pos, Y), Earlier(p.id, p.pos, Y), lo)

\* A safe point has K later neighbours in X.
Earned(p, X) == p.safe => Cardinality(Later(p.id, p.pos, X)) >= K

Typed(d, c, n) ==
  /\ DOMAIN d \subseteq Nat /\ d \in [DOMAIN d -> Points]
  /\ DOMAIN c \subseteq Nat /\ c \in [DOMAIN c -> Clusters]
  /\ n \in Nat
  /\ \A q \in DOMAIN d : d[q].id = q

\* No point is held twice.
Apart(d, c) ==
  \A m \in DOMAIN c : \A x \in c[m].members :
    /\ x.id \notin DOMAIN d
    /\ \A k \in DOMAIN c : \A y \in c[k].members : x.id = y.id => m = k /\ x = y

Dense(c, n) ==
  \A m \in DOMAIN c :
    /\ m < n /\ IsFiniteSet(c[m].members) /\ Cardinality(c[m].members) > K
    /\ \A x \in c[m].members : WithinHalfR(x.pos, c[m].center)

\* A point of PD knows the micro-clusters whose members can be its neighbours.
Remembers(d, c) ==
  \A q \in DOMAIN d : \A m \in DOMAIN c :
    WithinThreeHalfR(d[q].pos, c[m].center) => m \in d[q].rmc

\* X are the points of the window, of the times from lo.
Windowed(X, lo) ==
  /\ X \subseteq Seen /\ IsFiniteSet(X)
  /\ \A e \in X : e.id >= lo
  /\ \A e, f \in X : e.id = f.id => e = f

\* Those of PD that are to be told of every insertion have counted what is held
\* now; the others have counted, before, all of the window.
Informed(d, c, ids, X, lo) ==
  \A q \in DOMAIN d : /\ q \in ids => Knows(d[q], Held(d, c), lo)
                      /\ q \notin ids => Knows(d[q], X, lo)

Sound(d, c, n, ids, X, lo) ==
  /\ Typed(d, c, n) /\ Apart(d, c) /\ Dense(c, n) /\ Remembers(d, c)
  /\ Windowed(X, lo) /\ Held(d, c) \subseteq X
  /\ Informed(d, c, ids, X, lo)
  /\ \A x \in All(d, c) : Earned(x, X)

LEMMA Metric ==
  ASSUME NEW a \in Positions, NEW b \in Positions, NEW c \in Positions
  PROVE  /\ WithinHalfR(a, a)
         /\ WithinR(a, b) = WithinR(b, a)
         /\ WithinHalfR(a, b) = WithinHalfR(b, a)
         /\ WithinThreeHalfR(a, b) = WithinThreeHalfR(b, a)
         /\ WithinR(a, b) /\ WithinHalfR(b, c) => WithinThreeHalfR(a, c)
         /\ WithinHalfR(a, c) /\ WithinHalfR(b, c) => WithinR(a, b)
<1>1. R \in Nat
  BY McodAssumption
<1>2. /\ Distance(a, b) \in Nat /\ Distance(b, c) \in Nat /\ Distance(a, c) \in Nat
      /\ Distance(a, b) = Distance(b, a) /\ Distance(b, c) = Distance(c, b)
      /\ Distance(a, a) = 0
      /\ Distance(a, c) <= Distance(a, b) + Distance(b, c)
      /\ Distance(a, b) <= Distance(a, c) + Distance(c, b)
  BY DistanceAssumption
<1>. QED
  BY <1>1, <1>2 DEF WithinHalfR, WithinR, WithinThreeHalfR

LEMMA LaterFacts ==
  ASSUME NEW X \in SUBSET Seen, IsFiniteSet(X), NEW Y \in SUBSET X, NEW i, NEW x
  PROVE  /\ Later(i, x, Y) \in SUBSET Nat /\ Earlier(i, x, Y) \in SUBSET Nat
         /\ IsFiniteSet(Later(i, x, Y)) /\ IsFiniteSet(Earlier(i, x, Y))
         /\ Cardinality(Later(i, x, Y)) \in Nat /\ Cardinality(Later(i, x, X)) \in Nat
         /\ Cardinality(Later(i, x, Y)) <= Cardinality(Later(i, x, X))
<1>. DEFINE f == [e \in X |-> e.id]
            T == {f[e] : e \in X}
<1>1. IsFiniteSet(T)
  <2>1. f \in Surjection(X, T)
    BY DEF Surjection
  <2>. QED
    BY <2>1, FS_Surjection DEF ExistsSurjection
<1>2. /\ Later(i, x, X) \subseteq T /\ Later(i, x, Y) \subseteq Later(i, x, X)
      /\ Earlier(i, x, Y) \subseteq T /\ T \subseteq Nat
  BY DEF Later, Earlier, Seen
<1>3. IsFiniteSet(Later(i, x, X)) /\ IsFiniteSet(Earlier(i, x, Y))
  BY <1>1, <1>2, FS_Subset
<1>4. IsFiniteSet(Later(i, x, Y)) /\ Cardinality(Later(i, x, Y)) <= Cardinality(Later(i, x, X))
  BY <1>2, <1>3, FS_Subset
<1>5. Cardinality(Later(i, x, Y)) \in Nat /\ Cardinality(Later(i, x, X)) \in Nat
  BY <1>3, <1>4, FS_CardinalityType
<1>. QED
  BY <1>2, <1>3, <1>4, <1>5

\* A point learns of another.
Met(p, e) == IF WithinR(p.pos, e.pos) THEN AddNeighbor(p, e.id) ELSE p

LEMMA KnowsOneMore ==
  ASSUME NEW p \in Points, NEW lo \in Int, NEW X, Windowed(X, lo), NEW Y \in SUBSET X,
         NEW e \in X, e.id # p.id, \A y \in Y : y.id # e.id,
         Knows(p, Y, lo), Earned(p, X)
  PROVE  LET q == Met(p, e)
         IN  /\ q \in Points /\ q.id = p.id /\ q.pos = p.pos /\ q.rmc = p.rmc
             /\ Knows(q, Y \cup {e}, lo) /\ Earned(q, X)
<1>. DEFINE L == Later(p.id, p.pos, Y)
            E == Earlier(p.id, p.pos, Y)
            L1 == Later(p.id, p.pos, Y \cup {e})
            E1 == Earlier(p.id, p.pos, Y \cup {e})
            q == AddNeighbor(p, e.id)
<1>1. X \in SUBSET Seen /\ IsFiniteSet(X) /\ e.id \in Nat /\ e.id >= lo /\ p.id \in Nat
  BY DEF Windowed, Seen, Points
<1>2. L \in SUBSET Nat /\ E \in SUBSET Nat
  BY <1>1, LaterFacts
<1>3. e.id \notin L /\ e.id \notin E
  BY DEF Later, Earlier
<1>4. Counted(p, L, E, lo)
  BY DEF Knows
<1>5. Cardinality(L1) \in Nat /\ Cardinality(Later(p.id, p.pos, X)) \in Nat
      /\ Cardinality(L1) <= Cardinality(Later(p.id, p.pos, X))
  BY <1>1, LaterFacts
<1>6. CASE WithinR(p.pos, e.pos)
  <2>. DEFINE a == e.id
  <2>2. a > p.id => L1 = L \cup {a} /\ E1 = E
    BY <1>1, <1>6 DEF Later, Earlier
  <2>3. a < p.id => L1 = L /\ E1 = E \cup {a}
    BY <1>1, <1>6 DEF Later, Earlier
  <2>0. a \in Nat /\ a >= lo /\ a # p.id /\ a \notin L /\ a \notin E
    BY <1>1, <1>3
  <2>9. q = AddNeighbor(p, a)
    OBVIOUS
  <2>. HIDE DEF L, E, L1, E1, a, q
  <2>1. /\ q \in Points
        /\ q.id = p.id /\ q.pos = p.pos /\ q.rmc = p.rmc
        /\ q.safe => p.safe \/ q.after >= K
        /\ a > p.id => Counted(q, L \cup {a}, E, lo)
        /\ a < p.id => Counted(q, L, E \cup {a}, lo)
    <3>. DEFINE t == AddNeighbor(p, a)
    <3>1. /\ t \in Points
          /\ t.id = p.id /\ t.pos = p.pos /\ t.rmc = p.rmc
          /\ t.safe => p.safe \/ t.after >= K
          /\ a > p.id => Counted(t, L \cup {a}, E, lo)
          /\ a < p.id => Counted(t, L, E \cup {a}, lo)
      BY <1>2, <1>4, <2>0, NeighborAdded
    <3>. QED
      BY <2>9, <3>1
  <2>4. Counted(q, L1, E1, lo)
    <3>1. a > p.id \/ a < p.id
      BY <1>1, <2>0
    <3>. QED
      BY <2>1, <2>2, <2>3, <3>1
  <2>5. Knows(q, Y \cup {e}, lo)
    BY <2>1, <2>4 DEF Knows, L1, E1
  <2>6. q.after = Cardinality(L1)
    BY <2>4 DEF Counted
  <2>7. q.after >= K => Cardinality(Later(p.id, p.pos, X)) >= K
    BY <1>5, <2>6, Threshold DEF L1
  <2>8. Earned(q, X)
    BY <2>1, <2>7 DEF Earned
  <2>. QED
    BY <1>6, <2>1, <2>5, <2>8, <2>9 DEF a, Met
<1>7. CASE ~ WithinR(p.pos, e.pos)
  <2>1. L1 = L /\ E1 = E
    BY <1>7 DEF Later, Earlier
  <2>. QED
    BY <1>4, <1>7, <2>1 DEF Knows, Met
<1>. QED
  BY <1>6, <1>7


--------------------------------------------------------------------------------
(* One insertion. *)

\* p is about to be inserted, and the points of told are to learn of it.
Arrives(p, told, d, c, ids, X) ==
  /\ p \in Points /\ p.after = 0 /\ p.before = <<>>
  /\ p.id \in ids /\ Elem(p) \in X /\ Earned(p, X)
  /\ \A e \in Held(d, c) : e.id # p.id
  /\ \A q \in DOMAIN d : q \in told <=> q \in ids

Told(d, p, told) ==
  [q \in DOMAIN d |-> IF q \in told /\ WithinR(p.pos, d[q].pos) THEN AddNeighbor(d[q], p.id) ELSE d[q]]

LEMMA HeldIs ==
  ASSUME NEW d, NEW c
  PROVE  /\ \A q \in DOMAIN d : Elem(d[q]) \in Held(d, c) /\ d[q] \in All(d, c)
         /\ \A m \in DOMAIN c : \A x \in c[m].members : Elem(x) \in Held(d, c) /\ x \in All(d, c)
         /\ \A x \in All(d, c) : \/ \E q \in DOMAIN d : x = d[q]
                                 \/ \E m \in DOMAIN c : x \in c[m].members
         /\ \A e \in Held(d, c) : \E x \in All(d, c) : e = Elem(x)
  BY DEF Held, All

LEMMA ForgottenFacts ==
  ASSUME NEW p \in Points
  PROVE  /\ Forgotten(p) \in Points
         /\ Forgotten(p).id = p.id /\ Forgotten(p).pos = p.pos /\ Forgotten(p).safe = p.safe
         /\ Forgotten(p).rmc = p.rmc /\ Forgotten(p).after = 0 /\ Forgotten(p).before = <<>>
         /\ Elem(Forgotten(p)) = Elem(p)
         /\ \A X : Earned(Forgotten(p), X) = Earned(p, X)
<1>1. /\ Forgotten(p) \in Points
      /\ Forgotten(p).id = p.id /\ Forgotten(p).pos = p.pos /\ Forgotten(p).safe = p.safe
      /\ Forgotten(p).rmc = p.rmc /\ Forgotten(p).after = 0 /\ Forgotten(p).before = <<>>
  <2>. DEFINE q == [p EXCEPT !.after = 0]
  <2>1. /\ q \in Points /\ q.id = p.id /\ q.pos = p.pos /\ q.safe = p.safe
        /\ q.rmc = p.rmc /\ q.after = 0
    BY DEF Points
  <2>2. Forgotten(p) = [q EXCEPT !.before = <<>>]
    BY DEF Forgotten, Points
  <2>. HIDE DEF q
  <2>. DEFINE b == <<>>
  <2>3. b \in Seq(Nat)
    OBVIOUS
  <2>4. Forgotten(p) = [q EXCEPT !.before = b]
    BY <2>2
  <2>. HIDE DEF b
  <2>5. /\ Forgotten(p) \in Points
        /\ Forgotten(p).id = q.id /\ Forgotten(p).pos = q.pos /\ Forgotten(p).safe = q.safe
        /\ Forgotten(p).rmc = q.rmc /\ Forgotten(p).after = q.after /\ Forgotten(p).before = b
    BY <2>1, <2>3, <2>4 DEF Points
  <2>. QED
    BY <2>1, <2>5 DEF b
<1>. QED
  BY <1>1 DEF Elem, Earned

LEMMA ToldFacts ==
  ASSUME NEW d, NEW c, NEW n, NEW ids, NEW X, NEW lo \in Int, NEW p, NEW told,
         Sound(d, c, n, ids, X, lo), Arrives(p, told, d, c, ids, X)
  PROVE  LET t == Told(d, p, told)
         IN  /\ DOMAIN t = DOMAIN d
             /\ \A q \in DOMAIN d :
                  /\ t[q] \in Points /\ t[q].id = q /\ t[q].pos = d[q].pos /\ t[q].rmc = d[q].rmc
                  /\ Elem(t[q]) = Elem(d[q])
                  /\ q \in ids => Knows(t[q], Held(d, c) \cup {Elem(p)}, lo)
                  /\ q \notin ids => Knows(t[q], X, lo)
                  /\ Earned(t[q], X)
<1>. DEFINE t == Told(d, p, told)
            H == Held(d, c)
            e == Elem(p)
<1>1. /\ p \in Points /\ e \in X /\ (\A f \in H : f.id # p.id)
      /\ H \in SUBSET X /\ Windowed(X, lo) /\ e.id = p.id /\ e.pos = p.pos
  BY DEF Arrives, Sound, Elem
<1>2. DOMAIN t = DOMAIN d
  BY DEF Told
<1>. HIDE DEF H, e
<1>3. ASSUME NEW q \in DOMAIN d
      PROVE  /\ t[q] \in Points /\ t[q].id = q /\ t[q].pos = d[q].pos /\ t[q].rmc = d[q].rmc
             /\ q \in ids => Knows(t[q], H \cup {e}, lo)
             /\ q \notin ids => Knows(t[q], X, lo)
             /\ Earned(t[q], X)
  <2>1. d[q] \in Points /\ d[q].id = q /\ d[q] \in All(d, c) /\ Elem(d[q]) \in H
    BY HeldIs DEF Sound, Typed, H
  <2>2. Earned(d[q], X)
    BY <2>1 DEF Sound
  <2>3. e.id # d[q].id
    BY <1>1, <2>1 DEF Elem
  <2>4. CASE q \in ids
    <3>1. Knows(d[q], H, lo)
      BY <2>4 DEF Sound, Informed, H
    <3>. DEFINE r == d[q]
                u == Met(r, e)
    <3>2. r \in Points /\ r.id = q /\ Earned(r, X) /\ Knows(r, H, lo) /\ e.id # r.id
      BY <2>1, <2>2, <2>3, <3>1
    <3>. HIDE DEF r
    <3>6. \A f \in H : f.id # e.id
      BY <1>1
    <3>3. /\ u \in Points /\ u.id = r.id /\ u.pos = r.pos /\ u.rmc = r.rmc
          /\ Knows(u, H \cup {e}, lo) /\ Earned(u, X)
      BY <1>1, <3>2, <3>6, KnowsOneMore
    <3>4. WithinR(r.pos, e.pos) = WithinR(p.pos, r.pos)
      BY <1>1, <3>2, Metric DEF Points
    <3>5. t[q] = u
      BY <1>1, <2>4, <3>4 DEF Told, Arrives, r, Met
    <3>. QED
      BY <2>4, <3>2, <3>3, <3>5 DEF r
  <2>5. CASE q \notin ids
    <3>1. t[q] = d[q]
      BY <2>5 DEF Told, Arrives
    <3>2. Knows(d[q], X, lo)
      BY <2>5 DEF Sound, Informed
    <3>. QED
      BY <2>1, <2>2, <2>5, <3>1, <3>2
  <2>. QED
    BY <2>4, <2>5
<1>. HIDE DEF t
<1>4. ASSUME NEW q \in DOMAIN d PROVE Elem(t[q]) = Elem(d[q])
  BY <1>3 DEF Elem, Sound, Typed
<1>. QED
  BY <1>2, <1>3, <1>4 DEF t, H, e


Joined(c, m, p) == [c EXCEPT ![m].members = @ \cup {Forgotten(p)}]

\* Into a micro-cluster.
LEMMA JoinsMC ==
  ASSUME NEW d, NEW c, NEW n, NEW ids, NEW X, NEW lo \in Int, NEW p, NEW told,
         Sound(d, c, n, ids, X, lo), Arrives(p, told, d, c, ids, X),
         NEW m \in DOMAIN c, WithinHalfR(p.pos, c[m].center)
  PROVE  /\ Sound(Told(d, p, told), Joined(c, m, p), n, ids, X, lo)
         /\ Held(Told(d, p, told), Joined(c, m, p)) = Held(d, c) \cup {Elem(p)}
<1>. DEFINE t == Told(d, p, told)
            j == Joined(c, m, p)
            f == Forgotten(p)
            H == Held(d, c)
<1>1. /\ DOMAIN t = DOMAIN d
      /\ \A q \in DOMAIN d :
           /\ t[q] \in Points /\ t[q].id = q /\ t[q].pos = d[q].pos /\ t[q].rmc = d[q].rmc
           /\ Elem(t[q]) = Elem(d[q])
           /\ q \in ids => Knows(t[q], H \cup {Elem(p)}, lo)
           /\ q \notin ids => Knows(t[q], X, lo)
           /\ Earned(t[q], X)
  BY ToldFacts
<1>t. t = [q \in DOMAIN d |-> t[q]]
  BY DEF Told
<1>2. /\ Typed(d, c, n) /\ Apart(d, c) /\ Dense(c, n) /\ Remembers(d, c)
      /\ Windowed(X, lo) /\ H \subseteq X /\ \A x \in All(d, c) : Earned(x, X)
  BY DEF Sound
<1>3. /\ p \in Points /\ Elem(p) \in X /\ Earned(p, X) /\ \A e \in H : e.id # p.id
  BY DEF Arrives
<1>4. /\ f \in Points /\ f.id = p.id /\ f.pos = p.pos /\ Elem(f) = Elem(p) /\ Earned(f, X)
  BY <1>3, ForgottenFacts
<1>5. \A k \in DOMAIN c : c[k] \in Clusters
  BY <1>2 DEF Typed
<1>6. /\ DOMAIN j = DOMAIN c /\ j \in [DOMAIN c -> Clusters]
      /\ \A k \in DOMAIN c : /\ j[k].center = c[k].center
                             /\ k # m => j[k].members = c[k].members
      /\ j[m].members = c[m].members \cup {f}
  <2>. DEFINE v == [c[m] EXCEPT !.members = c[m].members \cup {f}]
  <2>1. v \in Clusters /\ v.center = c[m].center /\ v.members = c[m].members \cup {f}
    BY <1>4, <1>5 DEF Clusters
  <2>2. j = [c EXCEPT ![m] = v]
    BY DEF Joined
  <2>. HIDE DEF v, j
  <2>3. c \in [DOMAIN c -> Clusters]
    BY <1>2 DEF Typed
  <2>. QED
    BY <2>1, <2>2, <2>3
<1>7. \A k \in DOMAIN c : \A x \in c[k].members : x \in Points /\ x.id # p.id /\ Elem(x) \in H
  <2>1. ASSUME NEW k \in DOMAIN c, NEW x \in c[k].members
        PROVE  x \in Points /\ x.id # p.id /\ Elem(x) \in H
    <3>1. Elem(x) \in H
      BY HeldIs
    <3>2. x.id # p.id
      BY <1>3, <3>1 DEF Elem
    <3>. QED
      BY <1>5, <3>1, <3>2 DEF Clusters
  <2>. QED
    BY <2>1
<1>8. \A q \in DOMAIN d : q # p.id
  <2>1. ASSUME NEW q \in DOMAIN d PROVE q # p.id
    <3>1. Elem(d[q]) \in H
      BY HeldIs
    <3>. QED
      BY <1>2, <1>3, <3>1 DEF Elem, Typed
  <2>. QED
    BY <2>1
<1>. HIDE DEF t, j, f, H
<1>9. \A k \in DOMAIN c : \A x \in j[k].members : x \in c[k].members \/ (k = m /\ x = f)
  BY <1>6
<1>10. Typed(t, j, n)
  <2>1. t \in [DOMAIN d -> Points]
    BY <1>1, <1>t
  <2>. QED
    BY <1>1, <1>2, <1>6, <2>1 DEF Typed
<1>11. Apart(t, j)
  <2>1. ASSUME NEW k \in DOMAIN c, NEW x \in j[k].members, NEW l \in DOMAIN c, NEW y \in j[l].members,
               x.id = y.id
        PROVE  k = l /\ x = y
    <3>1. CASE x \in c[k].members /\ y \in c[l].members
      BY <1>2, <2>1, <3>1 DEF Apart
    <3>2. CASE x \in c[k].members /\ l = m /\ y = f
      BY <1>4, <1>7, <2>1, <3>2
    <3>3. CASE k = m /\ x = f /\ y \in c[l].members
      BY <1>4, <1>7, <2>1, <3>3
    <3>4. CASE k = m /\ x = f /\ l = m /\ y = f
      BY <3>4
    <3>. QED
      BY <1>9, <3>1, <3>2, <3>3, <3>4
  <2>2. ASSUME NEW k \in DOMAIN c, NEW x \in j[k].members
        PROVE  x.id \notin DOMAIN d
    BY <1>2, <1>4, <1>8, <1>9 DEF Apart
  <2>. QED
    BY <1>1, <1>6, <2>1, <2>2 DEF Apart
<1>12. Dense(j, n)
  <2>1. ASSUME NEW k \in DOMAIN c
        PROVE  IsFiniteSet(j[k].members) /\ Cardinality(j[k].members) > K
    <3>1. IsFiniteSet(c[k].members) /\ Cardinality(c[k].members) > K /\ Cardinality(c[k].members) \in Nat
      BY <1>2, FS_CardinalityType DEF Dense
    <3>2. CASE k # m
      BY <1>6, <3>1, <3>2
    <3>3. CASE k = m
      <4>1. f \notin c[m].members
        BY <1>4, <1>7
      <4>2. IsFiniteSet(c[m].members \cup {f})
            /\ Cardinality(c[m].members \cup {f}) = Cardinality(c[m].members) + 1
        BY <3>1, <3>3, <4>1, FS_AddElement
      <4>3. K \in Nat
        BY Threshold
      <4>4. Cardinality(c[m].members) + 1 > K
        BY <3>1, <3>3, <4>3
      <4>. QED
        BY <1>6, <3>3, <4>2, <4>4
    <3>. QED
      BY <3>2, <3>3
  <2>2. ASSUME NEW k \in DOMAIN c, NEW x \in j[k].members
        PROVE  WithinHalfR(x.pos, j[k].center)
    BY <1>2, <1>4, <1>6, <1>9 DEF Dense
  <2>. QED
    BY <1>2, <1>6, <2>1, <2>2 DEF Dense
<1>13. Remembers(t, j)
  BY <1>1, <1>2, <1>6 DEF Remembers
<1>14. \A x \in All(t, j) : \/ \E q \in DOMAIN d : x = t[q]
                            \/ \E k \in DOMAIN c : x \in c[k].members
                            \/ x = f
  BY <1>1, <1>6, <1>9, HeldIs
<1>15. Held(t, j) = H \cup {Elem(p)}
  <2>1. \A e \in Held(t, j) : e \in H \cup {Elem(p)}
    <3>1. ASSUME NEW x \in All(t, j) PROVE Elem(x) \in H \cup {Elem(p)}
      BY <1>1, <1>4, <1>14, HeldIs DEF H
    <3>. QED
      BY <3>1, HeldIs
  <2>2. \A e \in H : e \in Held(t, j)
    <3>1. ASSUME NEW x \in All(d, c) PROVE Elem(x) \in Held(t, j)
      <4>1. CASE \E q \in DOMAIN d : x = d[q]
        <5>1. PICK q \in DOMAIN d : x = d[q]
          BY <4>1
        <5>2. Elem(t[q]) = Elem(x) /\ q \in DOMAIN t
          BY <1>1, <5>1
        <5>. QED
          BY <5>2, HeldIs
      <4>2. CASE \E k \in DOMAIN c : x \in c[k].members
        <5>1. PICK k \in DOMAIN c : x \in c[k].members
          BY <4>2
        <5>2. x \in j[k].members /\ k \in DOMAIN j
          BY <1>6, <5>1
        <5>. QED
          BY <5>2, HeldIs
      <4>. QED
        BY <4>1, <4>2, HeldIs
    <3>. QED
      BY <3>1, HeldIs DEF H
  <2>3. Elem(p) \in Held(t, j)
    <3>1. f \in j[m].members /\ m \in DOMAIN j
      BY <1>6
    <3>2. Elem(f) \in Held(t, j)
      BY <3>1, HeldIs
    <3>. QED
      BY <1>4, <3>2
  <2>. QED
    BY <2>1, <2>2, <2>3
<1>16. Held(t, j) \subseteq X
  BY <1>2, <1>3, <1>15
<1>17. Informed(t, j, ids, X, lo)
  BY <1>1, <1>15 DEF Informed
<1>18. \A x \in All(t, j) : Earned(x, X)
  BY <1>1, <1>2, <1>4, <1>14, HeldIs
<1>19. Sound(t, j, n, ids, X, lo)
  BY <1>2, <1>10, <1>11, <1>12, <1>13, <1>16, <1>17, <1>18 DEF Sound
<1>. QED
  BY <1>15, <1>19 DEF t, j, H


\* A point that remembers more micro-clusters is otherwise the same.
LEMMA RemembersMore ==
  ASSUME NEW p \in Points, NEW S \in SUBSET Nat
  PROVE  LET r == [p EXCEPT !.rmc = @ \cup S]
         IN  /\ r \in Points /\ r.id = p.id /\ r.pos = p.pos /\ r.rmc = p.rmc \cup S
             /\ Elem(r) = Elem(p)
             /\ \A Y, lo : Knows(r, Y, lo) = Knows(p, Y, lo)
             /\ \A X : Earned(r, X) = Earned(p, X)
<1>. DEFINE r == [p EXCEPT !.rmc = @ \cup S]
<1>1. /\ r \in Points /\ r.id = p.id /\ r.pos = p.pos /\ r.rmc = p.rmc \cup S
      /\ r.after = p.after /\ r.before = p.before /\ r.safe = p.safe
  BY DEF Points
<1>. HIDE DEF r
<1>2. /\ Elem(r) = Elem(p)
      /\ \A Y, lo : Knows(r, Y, lo) = Knows(p, Y, lo)
      /\ \A X : Earned(r, X) = Earned(p, X)
  BY <1>1 DEF Elem, Knows, Counted, Earned
<1>. QED
  BY <1>1, <1>2 DEF r

\* Distinct things with a number each.
LEMMA ImageCount ==
  ASSUME NEW S, IsFiniteSet(S), NEW g, DOMAIN g = S, \A x, y \in S : g[x] = g[y] => x = y
  PROVE  /\ IsFiniteSet({g[x] : x \in S})
         /\ Cardinality({g[x] : x \in S}) = Cardinality(S)
<1>. DEFINE T == {g[x] : x \in S}
            h == [x \in S |-> g[x]]
<1>1. h \in Bijection(S, T)
  BY DEF Bijection, Injection, Surjection, IsInjective
<1>. QED
  BY <1>1, FS_Bijection DEF ExistsBijection

LEMMA PDIsFinite ==
  ASSUME NEW d, NEW c, NEW n, NEW ids, NEW X, NEW lo, Sound(d, c, n, ids, X, lo)
  PROVE  IsFiniteSet(DOMAIN d)
<1>. DEFINE f == [e \in X |-> e.id]
            T == {f[e] : e \in X}
<1>1. IsFiniteSet(X) /\ Typed(d, c, n) /\ Held(d, c) \subseteq X
  BY DEF Sound, Windowed
<1>2. IsFiniteSet(T)
  <2>1. f \in Surjection(X, T)
    BY DEF Surjection
  <2>. QED
    BY <1>1, <2>1, FS_Surjection
<1>3. ASSUME NEW q \in DOMAIN d PROVE q \in T
  <2>1. Elem(d[q]) \in X /\ Elem(d[q]).id = q
    BY <1>1, HeldIs DEF Elem, Typed
  <2>. QED
    BY <2>1
<1>. QED
  BY <1>2, <1>3, FS_Subset

Marked(t, n, around) == [x \in DOMAIN t |-> IF x \in around THEN [t[x] EXCEPT !.rmc = @ \cup {n}] ELSE t[x]]
Founded(c, n, t, nc, p) ==
  With(c, n, [center |-> p.pos, members |-> {Forgotten(t[x]) : x \in nc} \cup {Forgotten(p)}])

\* Into a new micro-cluster, with the points of PD around.
LEMMA FoundsMC ==
  ASSUME NEW d, NEW c, NEW n, NEW ids, NEW X, NEW lo \in Int, NEW p, NEW told,
         Sound(d, c, n, ids, X, lo), Arrives(p, told, d, c, ids, X),
         NEW r \in Points, r.id = p.id, r.pos = p.pos, Earned(r, X),
         NEW nc \in SUBSET DOMAIN d, Cardinality(nc) >= K,
         \A q \in nc : WithinHalfR(p.pos, d[q].pos),
         NEW around,
         \A q \in DOMAIN d \ nc : WithinThreeHalfR(p.pos, d[q].pos) => q \in around
  PROVE  LET t == Told(d, p, told)
             e == Without(Marked(t, n, around), nc)
             j == Founded(c, n, t, nc, r)
         IN  /\ Sound(e, j, n + 1, ids, X, lo)
             /\ Held(e, j) = Held(d, c) \cup {Elem(p)}
<1>. DEFINE t == Told(d, p, told)
            e == Without(Marked(t, n, around), nc)
            j == Founded(c, n, t, nc, r)
            f == Forgotten(r)
            g == [x \in nc |-> Forgotten(t[x])]
            new == {g[x] : x \in nc} \cup {f}
            H == Held(d, c)
<1>1. /\ DOMAIN t = DOMAIN d
      /\ \A q \in DOMAIN d :
           /\ t[q] \in Points /\ t[q].id = q /\ t[q].pos = d[q].pos /\ t[q].rmc = d[q].rmc
           /\ Elem(t[q]) = Elem(d[q])
           /\ q \in ids => Knows(t[q], H \cup {Elem(p)}, lo)
           /\ q \notin ids => Knows(t[q], X, lo)
           /\ Earned(t[q], X)
  BY ToldFacts
<1>2. /\ Typed(d, c, n) /\ Apart(d, c) /\ Dense(c, n) /\ Remembers(d, c)
      /\ Windowed(X, lo) /\ H \subseteq X /\ \A x \in All(d, c) : Earned(x, X)
  BY DEF Sound
<1>3. /\ p \in Points /\ Elem(p) \in X /\ Earned(p, X) /\ \A y \in H : y.id # p.id
  BY DEF Arrives
<1>4. /\ f \in Points /\ f.id = p.id /\ f.pos = p.pos /\ Elem(f) = Elem(p) /\ Earned(f, X)
  BY ForgottenFacts DEF Elem
<1>5. \A k \in DOMAIN c : c[k] \in Clusters /\ k # n
  BY <1>2 DEF Typed, Dense
<1>6. \A q \in nc : /\ g[q] \in Points /\ g[q].id = q /\ g[q].pos = d[q].pos
                    /\ Elem(g[q]) = Elem(d[q]) /\ Earned(g[q], X)
  BY <1>1, ForgottenFacts
<1>7. \A k \in DOMAIN c : \A x \in c[k].members :
        x \in Points /\ x.id # p.id /\ x.id \notin DOMAIN d /\ Elem(x) \in H
  <2>1. ASSUME NEW k \in DOMAIN c, NEW x \in c[k].members
        PROVE  x \in Points /\ x.id # p.id /\ x.id \notin DOMAIN d /\ Elem(x) \in H
    <3>1. Elem(x) \in H
      BY HeldIs
    <3>2. x.id # p.id
      BY <1>3, <3>1 DEF Elem
    <3>. QED
      BY <1>2, <1>5, <3>1, <3>2 DEF Clusters, Apart
  <2>. QED
    BY <2>1
<1>8. \A q \in DOMAIN d : q # p.id
  <2>1. ASSUME NEW q \in DOMAIN d PROVE q # p.id
    <3>1. Elem(d[q]) \in H
      BY HeldIs
    <3>. QED
      BY <1>2, <1>3, <3>1 DEF Elem, Typed
  <2>. QED
    BY <2>1
<1>9. /\ DOMAIN e = DOMAIN d \ nc
      /\ e = [q \in DOMAIN d \ nc |-> e[q]]
      /\ \A q \in DOMAIN d \ nc :
           e[q] = IF q \in around THEN [t[q] EXCEPT !.rmc = @ \cup {n}] ELSE t[q]
  BY <1>1 DEF Without, Marked
<1>10. /\ DOMAIN j = DOMAIN c \cup {n} /\ j = [k \in DOMAIN c \cup {n} |-> j[k]]
       /\ \A k \in DOMAIN c : j[k] = c[k]
       /\ j[n].center = r.pos /\ j[n].members = new
       /\ j[n] = [center |-> r.pos, members |-> new]
  BY <1>5 DEF With, Founded
<1>11. \A x \in new : \/ \E q \in nc : x = g[q]
                      \/ x = f
  OBVIOUS
<1>12. \A q \in nc : g[q] \in new
  OBVIOUS
<1>13. f \in new
  OBVIOUS
<1>14. /\ IsFiniteSet(new) /\ Cardinality(new) > K
  <2>1. IsFiniteSet(nc) /\ Cardinality(nc) \in Nat
    BY PDIsFinite, FS_Subset, FS_CardinalityType
  <2>2. \A x, y \in nc : g[x] = g[y] => x = y
    BY <1>6
  <2>. DEFINE G == {g[x] : x \in nc}
  <2>3. DOMAIN g = nc
    OBVIOUS
  <2>4. f \notin G
    BY <1>4, <1>6, <1>8
  <2>6. new = G \cup {f}
    OBVIOUS
  <2>. HIDE DEF g, f, new
  <2>5. IsFiniteSet(G) /\ Cardinality(G) = Cardinality(nc)
    BY <2>1, <2>2, <2>3, ImageCount
  <2>7. IsFiniteSet(G \cup {f}) /\ Cardinality(G \cup {f}) = Cardinality(G) + 1
    BY <2>4, <2>5, FS_AddElement
  <2>8. Cardinality(nc) + 1 > K
    BY <2>1, Threshold
  <2>. QED
    BY <2>5, <2>6, <2>7, <2>8
<1>. HIDE DEF t, e, j, f, g, new, H
<1>15. \A q \in DOMAIN d \ nc :
         /\ e[q] \in Points /\ e[q].id = q /\ e[q].pos = d[q].pos /\ Elem(e[q]) = Elem(d[q])
         /\ \A k \in d[q].rmc : k \in e[q].rmc
         /\ q \in around => n \in e[q].rmc
         /\ q \in ids => Knows(e[q], H \cup {Elem(p)}, lo)
         /\ q \notin ids => Knows(e[q], X, lo)
         /\ Earned(e[q], X)
  <2>1. ASSUME NEW q \in DOMAIN d \ nc
        PROVE  /\ e[q] \in Points /\ e[q].id = q /\ e[q].pos = d[q].pos /\ Elem(e[q]) = Elem(d[q])
               /\ \A k \in d[q].rmc : k \in e[q].rmc
               /\ q \in around => n \in e[q].rmc
               /\ q \in ids => Knows(e[q], H \cup {Elem(p)}, lo)
               /\ q \notin ids => Knows(e[q], X, lo)
               /\ Earned(e[q], X)
    <3>. DEFINE u == t[q]
                N == {n}
                v == [u EXCEPT !.rmc = @ \cup N]
    <3>1. /\ u \in Points /\ u.id = q /\ u.pos = d[q].pos /\ u.rmc = d[q].rmc
          /\ Elem(u) = Elem(d[q])
          /\ q \in ids => Knows(u, H \cup {Elem(p)}, lo)
          /\ q \notin ids => Knows(u, X, lo)
          /\ Earned(u, X)
      BY <1>1
    <3>2. N \in SUBSET Nat /\ n \in N
      BY <1>2 DEF Typed
    <3>3. e[q] = IF q \in around THEN v ELSE u
      BY <1>9
    <3>. HIDE DEF u, N
    <3>4. /\ v \in Points /\ v.id = u.id /\ v.pos = u.pos /\ v.rmc = u.rmc \cup N
          /\ Elem(v) = Elem(u)
          /\ Knows(v, H \cup {Elem(p)}, lo) = Knows(u, H \cup {Elem(p)}, lo)
          /\ Knows(v, X, lo) = Knows(u, X, lo)
          /\ Earned(v, X) = Earned(u, X)
      <4>1. /\ v \in Points /\ v.id = u.id /\ v.pos = u.pos /\ v.rmc = u.rmc \cup N
            /\ Elem(v) = Elem(u)
            /\ \A Y, l : Knows(v, Y, l) = Knows(u, Y, l)
            /\ \A Y : Earned(v, Y) = Earned(u, Y)
        BY <3>1, <3>2, RemembersMore
      <4>. HIDE DEF v
      <4>. QED
        BY <4>1
    <3>. HIDE DEF v
    <3>. QED
      BY <3>1, <3>2, <3>3, <3>4
  <2>. QED
    BY <2>1
<1>16. Typed(e, j, n + 1)
  <2>1. e \in [DOMAIN d \ nc -> Points]
    BY <1>9, <1>15
  <2>2. new \in SUBSET Points
    BY <1>4, <1>6, <1>11
  <2>3. j[n] \in Clusters
    BY <1>10, <2>2 DEF Clusters, Points
  <2>4. \A k \in DOMAIN c \cup {n} : j[k] \in Clusters
    BY <1>5, <1>10, <2>3
  <2>5. j \in [DOMAIN c \cup {n} -> Clusters]
    BY <1>10, <2>4
  <2>6. n \in Nat /\ n + 1 \in Nat /\ DOMAIN c \subseteq Nat /\ DOMAIN d \subseteq Nat
    BY <1>2 DEF Typed
  <2>. QED
    BY <1>9, <1>10, <1>15, <2>1, <2>5, <2>6 DEF Typed
<1>17. \A x \in new : x.id = p.id \/ x.id \in nc
  BY <1>4, <1>6, <1>11
<1>18. Apart(e, j)
  <2>1. ASSUME NEW x \in new, NEW y \in new, x.id = y.id PROVE x = y
    BY <1>4, <1>6, <1>8, <1>11, <2>1
  <2>2. ASSUME NEW k \in DOMAIN c, NEW x \in c[k].members, NEW y \in new
        PROVE  x.id # y.id
    BY <1>7, <1>17
  <2>3. ASSUME NEW k \in DOMAIN j, NEW x \in j[k].members, NEW l \in DOMAIN j, NEW y \in j[l].members,
               x.id = y.id
        PROVE  k = l /\ x = y
    <3>1. CASE k \in DOMAIN c /\ l \in DOMAIN c
      BY <1>2, <1>10, <2>3, <3>1 DEF Apart
    <3>2. CASE k = n /\ l = n
      BY <1>10, <2>1, <2>3, <3>2
    <3>3. CASE k \in DOMAIN c /\ l = n
      BY <1>10, <2>2, <2>3, <3>3
    <3>4. CASE k = n /\ l \in DOMAIN c
      <4>1. y \in c[l].members /\ x \in new
        BY <1>10, <3>4
      <4>2. y.id # x.id
        BY <2>2, <3>4, <4>1
      <4>. QED
        BY <2>3, <4>2
    <3>. QED
      BY <1>10, <3>1, <3>2, <3>3, <3>4
  <2>4. ASSUME NEW k \in DOMAIN j, NEW x \in j[k].members
        PROVE  x.id \notin DOMAIN e
    <3>1. CASE k \in DOMAIN c
      BY <1>7, <1>9, <1>10, <3>1
    <3>2. CASE k = n
      BY <1>8, <1>9, <1>10, <1>17, <3>2
    <3>. QED
      BY <1>10, <3>1, <3>2
  <2>. QED
    BY <2>3, <2>4 DEF Apart
<1>19. Dense(j, n + 1)
  <2>1. ASSUME NEW x \in new PROVE WithinHalfR(x.pos, p.pos)
    <3>1. CASE \E q \in nc : x = g[q]
      <4>1. PICK q \in nc : x = g[q]
        BY <3>1
      <4>2. d[q].pos \in Positions /\ p.pos \in Positions
        BY <1>2, <1>3 DEF Typed, Points
      <4>3. WithinHalfR(d[q].pos, p.pos) = WithinHalfR(p.pos, d[q].pos)
        BY <4>2, Metric
      <4>. QED
        BY <1>6, <4>1, <4>3
    <3>2. CASE x = f
      BY <1>3, <1>4, <3>2, Metric DEF Points
    <3>. QED
      BY <1>11, <3>1, <3>2
  <2>2. n \in Nat /\ \A k \in DOMAIN c : k \in Nat /\ k < n
    BY <1>2 DEF Typed, Dense
  <2>3. n < n + 1 /\ \A k \in DOMAIN c : k < n + 1
    BY <2>2
  <2>. QED
    BY <1>2, <1>10, <1>14, <2>1, <2>3 DEF Dense
<1>20. Remembers(e, j)
  <2>1. ASSUME NEW q \in DOMAIN d \ nc, NEW k \in DOMAIN c, WithinThreeHalfR(e[q].pos, j[k].center)
        PROVE  k \in e[q].rmc
    BY <1>2, <1>10, <1>15, <2>1 DEF Remembers
  <2>2. ASSUME NEW q \in DOMAIN d \ nc, WithinThreeHalfR(e[q].pos, j[n].center)
        PROVE  n \in e[q].rmc
    <3>1. d[q].pos \in Positions /\ p.pos \in Positions
      BY <1>2, <1>3 DEF Typed, Points
    <3>2. WithinThreeHalfR(d[q].pos, p.pos) = WithinThreeHalfR(p.pos, d[q].pos)
      BY <3>1, Metric
    <3>3. WithinThreeHalfR(p.pos, d[q].pos)
      BY <1>10, <1>15, <2>2, <3>2
    <3>. QED
      BY <1>15, <3>3
  <2>. QED
    BY <1>9, <1>10, <2>1, <2>2 DEF Remembers
<1>21. \A x \in All(e, j) : \/ \E q \in DOMAIN d \ nc : x = e[q]
                            \/ \E k \in DOMAIN c : x \in c[k].members
                            \/ \E q \in nc : x = g[q]
                            \/ x = f
  BY <1>9, <1>10, <1>11, HeldIs
<1>22. Held(e, j) = H \cup {Elem(p)}
  <2>1. \A y \in Held(e, j) : y \in H \cup {Elem(p)}
    <3>1. ASSUME NEW x \in All(e, j) PROVE Elem(x) \in H \cup {Elem(p)}
      BY <1>4, <1>6, <1>15, <1>21, HeldIs DEF H
    <3>. QED
      BY <3>1, HeldIs
  <2>2. \A k \in DOMAIN j : \A x \in j[k].members : Elem(x) \in Held(e, j)
    BY HeldIs
  <2>3. n \in DOMAIN j /\ j[n].members = new
    BY <1>10
  <2>4. \A y \in H : y \in Held(e, j)
    <3>1. ASSUME NEW x \in All(d, c) PROVE Elem(x) \in Held(e, j)
      <4>1. CASE \E q \in DOMAIN d \ nc : x = d[q]
        <5>1. PICK q \in DOMAIN d \ nc : x = d[q]
          BY <4>1
        <5>2. Elem(e[q]) = Elem(x) /\ q \in DOMAIN e
          BY <1>9, <1>15, <5>1
        <5>. QED
          BY <5>2, HeldIs
      <4>2. CASE \E q \in nc : x = d[q]
        <5>1. PICK q \in nc : x = d[q]
          BY <4>2
        <5>2. Elem(g[q]) = Elem(x) /\ g[q] \in new
          BY <1>6, <1>12, <5>1
        <5>3. Elem(g[q]) \in Held(e, j)
          BY <2>2, <2>3, <5>2
        <5>. QED
          BY <5>2, <5>3
      <4>3. CASE \E k \in DOMAIN c : x \in c[k].members
        BY <1>10, <2>2, <4>3
      <4>. QED
        BY <4>1, <4>2, <4>3, HeldIs
    <3>. QED
      BY <3>1, HeldIs DEF H
  <2>5. Elem(p) \in Held(e, j)
    BY <1>4, <1>13, <2>2, <2>3
  <2>. QED
    BY <2>1, <2>4, <2>5
<1>23. Held(e, j) \subseteq X
  BY <1>2, <1>3, <1>22
<1>24. Informed(e, j, ids, X, lo)
  BY <1>9, <1>15, <1>22 DEF Informed
<1>25. \A x \in All(e, j) : Earned(x, X)
  <2>1. \A k \in DOMAIN c : \A x \in c[k].members : Earned(x, X)
    BY <1>2, HeldIs
  <2>. QED
    BY <1>4, <1>6, <1>15, <1>21, <2>1
<1>26. Sound(e, j, n + 1, ids, X, lo)
  BY <1>2, <1>16, <1>18, <1>19, <1>20, <1>23, <1>24, <1>25 DEF Sound
<1>. QED
  BY <1>22, <1>26 DEF t, e, j, H


\* Into PD.
LEMMA StaysInPD ==
  ASSUME NEW d, NEW c, NEW n, NEW ids, NEW X, NEW lo \in Int, NEW p, NEW told,
         Sound(d, c, n, ids, X, lo), Arrives(p, told, d, c, ids, X),
         NEW r \in Points, r.id = p.id, r.pos = p.pos, Earned(r, X), Knows(r, Held(d, c), lo),
         \A m \in DOMAIN c : WithinThreeHalfR(p.pos, c[m].center) => m \in r.rmc
  PROVE  LET e == With(Told(d, p, told), p.id, r)
         IN  /\ Sound(e, c, n, ids, X, lo)
             /\ Held(e, c) = Held(d, c) \cup {Elem(p)}
<1>. DEFINE t == Told(d, p, told)
            e == With(t, p.id, r)
            H == Held(d, c)
            i == p.id
<1>1. /\ DOMAIN t = DOMAIN d
      /\ \A q \in DOMAIN d :
           /\ t[q] \in Points /\ t[q].id = q /\ t[q].pos = d[q].pos /\ t[q].rmc = d[q].rmc
           /\ Elem(t[q]) = Elem(d[q])
           /\ q \in ids => Knows(t[q], H \cup {Elem(p)}, lo)
           /\ q \notin ids => Knows(t[q], X, lo)
           /\ Earned(t[q], X)
  BY ToldFacts
<1>2. /\ Typed(d, c, n) /\ Apart(d, c) /\ Dense(c, n) /\ Remembers(d, c)
      /\ Windowed(X, lo) /\ H \subseteq X /\ \A x \in All(d, c) : Earned(x, X)
  BY DEF Sound
<1>3. /\ p \in Points /\ Elem(p) \in X /\ Earned(p, X) /\ i \in ids /\ i \in Nat
      /\ \A y \in H : y.id # i
  BY DEF Arrives, Points
<1>4. Elem(r) = Elem(p) /\ Elem(p).id = i /\ Elem(p).pos = p.pos
  BY DEF Elem
<1>5. \A k \in DOMAIN c : \A x \in c[k].members : x.id # i /\ Elem(x) \in H
  <2>1. ASSUME NEW k \in DOMAIN c, NEW x \in c[k].members
        PROVE  x.id # i /\ Elem(x) \in H
    <3>1. Elem(x) \in H
      BY HeldIs
    <3>2. x.id # i
      BY <1>3, <3>1 DEF Elem
    <3>. QED
      BY <3>1, <3>2
  <2>. QED
    BY <2>1
<1>6. \A q \in DOMAIN d : q # i
  <2>1. ASSUME NEW q \in DOMAIN d PROVE q # i
    <3>1. Elem(d[q]) \in H
      BY HeldIs
    <3>. QED
      BY <1>2, <1>3, <3>1 DEF Elem, Typed
  <2>. QED
    BY <2>1
<1>7. /\ DOMAIN e = DOMAIN d \cup {i} /\ e = [q \in DOMAIN d \cup {i} |-> e[q]]
      /\ e[i] = r /\ \A q \in DOMAIN d : e[q] = t[q]
  BY <1>1, <1>6 DEF With
<1>8. Knows(r, H \cup {Elem(p)}, lo)
  <2>1. /\ Later(i, r.pos, H \cup {Elem(p)}) = Later(i, r.pos, H)
        /\ Earlier(i, r.pos, H \cup {Elem(p)}) = Earlier(i, r.pos, H)
    BY <1>3, <1>4 DEF Later, Earlier
  <2>. QED
    BY <2>1 DEF Knows
<1>9. r.id = i
  OBVIOUS
<1>. HIDE DEF t, e, H, i
<1>10. Typed(e, c, n)
  <2>1. e \in [DOMAIN d \cup {i} -> Points]
    BY <1>1, <1>7
  <2>. QED
    BY <1>1, <1>2, <1>3, <1>7, <1>9, <2>1 DEF Typed
<1>11. Apart(e, c)
  BY <1>2, <1>5, <1>7 DEF Apart
<1>12. Remembers(e, c)
  <2>1. r.pos = p.pos /\ \A m \in DOMAIN c : WithinThreeHalfR(p.pos, c[m].center) => m \in r.rmc
    OBVIOUS
  <2>. QED
    BY <1>1, <1>2, <1>7, <2>1 DEF Remembers
<1>13. \A x \in All(e, c) : \/ \E q \in DOMAIN d : x = t[q]
                            \/ \E k \in DOMAIN c : x \in c[k].members
                            \/ x = r
  BY <1>7, HeldIs
<1>14. Held(e, c) = H \cup {Elem(p)}
  <2>1. \A y \in Held(e, c) : y \in H \cup {Elem(p)}
    <3>1. ASSUME NEW x \in All(e, c) PROVE Elem(x) \in H \cup {Elem(p)}
      BY <1>1, <1>4, <1>13, HeldIs DEF H
    <3>. QED
      BY <3>1, HeldIs
  <2>2. \A y \in H : y \in Held(e, c)
    <3>1. ASSUME NEW x \in All(d, c) PROVE Elem(x) \in Held(e, c)
      <4>1. CASE \E q \in DOMAIN d : x = d[q]
        <5>1. PICK q \in DOMAIN d : x = d[q]
          BY <4>1
        <5>2. Elem(e[q]) = Elem(x) /\ q \in DOMAIN e
          BY <1>1, <1>7, <5>1
        <5>. QED
          BY <5>2, HeldIs
      <4>2. CASE \E k \in DOMAIN c : x \in c[k].members
        BY <4>2, HeldIs
      <4>. QED
        BY <4>1, <4>2, HeldIs
    <3>. QED
      BY <3>1, HeldIs DEF H
  <2>3. Elem(p) \in Held(e, c)
    <3>1. i \in DOMAIN e /\ e[i] = r
      BY <1>7
    <3>2. Elem(e[i]) \in Held(e, c)
      BY <3>1, HeldIs
    <3>. QED
      BY <1>4, <3>1, <3>2
  <2>. QED
    BY <2>1, <2>2, <2>3
<1>15. Held(e, c) \subseteq X
  BY <1>2, <1>3, <1>14
<1>16. Informed(e, c, ids, X, lo)
  BY <1>1, <1>3, <1>7, <1>8, <1>14 DEF Informed
<1>17. \A x \in All(e, c) : Earned(x, X)
  <2>1. \A k \in DOMAIN c : \A x \in c[k].members : Earned(x, X)
    BY <1>2, HeldIs
  <2>. QED
    BY <1>1, <1>13, <2>1
<1>18. Sound(e, c, n, ids, X, lo)
  BY <1>2, <1>10, <1>11, <1>12, <1>15, <1>16, <1>17 DEF Sound
<1>. QED
  BY <1>14, <1>18 DEF t, e, H, i

Near(d, p) == {q \in DOMAIN d : WithinR(p.pos, d[q].pos)}
CloseTo(c, p) == {k \in DOMAIN c : WithinThreeHalfR(p.pos, c[k].center)}
Inside(c, p) == {x.id : x \in {y \in UNION {c[m].members : m \in CloseTo(c, p)} : WithinR(p.pos, y.pos)}}

\* Of the held points the neighbours of p are in PD, or members of the micro-clusters
\* close to it.
LEMMA NeighboursHeld ==
  ASSUME NEW d, NEW c, NEW n, NEW ids, NEW X, NEW lo \in Int, NEW p, NEW told,
         Sound(d, c, n, ids, X, lo), Arrives(p, told, d, c, ids, X)
  PROVE  LET near == Near(d, p)
             inside == Inside(c, p)
         IN  /\ near \in SUBSET Nat /\ IsFiniteSet(near)
             /\ inside \in SUBSET Nat /\ IsFiniteSet(inside) /\ near \cap inside = {}
             /\ \A a \in near \cup inside : a >= lo /\ a # p.id
             /\ Later(p.id, p.pos, Held(d, c)) = Above(near \cup inside, p.id)
             /\ Earlier(p.id, p.pos, Held(d, c)) = Below(near \cup inside, p.id)
<1>. DEFINE near == Near(d, p)
            inside == Inside(c, p)
            H == Held(d, c)
            close == {e.id : e \in {f \in H : WithinR(p.pos, f.pos)}}
<1>1. /\ Typed(d, c, n) /\ Apart(d, c) /\ Dense(c, n)
      /\ Windowed(X, lo) /\ H \subseteq X
  BY DEF Sound
<1>2. p \in Points /\ \A e \in H : e.id # p.id
  BY DEF Arrives
<1>3. \A k \in DOMAIN c : c[k] \in Clusters
  BY <1>1 DEF Typed
<1>. HIDE DEF near, inside
<1>4. ASSUME NEW a \in near PROVE a \in close /\ a \in Nat /\ a \in DOMAIN d
  <2>1. a \in DOMAIN d /\ WithinR(p.pos, d[a].pos) /\ d[a].id = a /\ a \in Nat
    BY <1>1, <1>4 DEF Typed, near, Near
  <2>2. Elem(d[a]) \in H /\ Elem(d[a]).id = a /\ Elem(d[a]).pos = d[a].pos
    BY <2>1, HeldIs DEF Elem
  <2>. QED
    BY <2>1, <2>2
<1>5. ASSUME NEW a \in inside PROVE a \in close /\ a \in Nat /\ a \notin DOMAIN d
  <2>0. PICK k \in DOMAIN c : \E x \in c[k].members : WithinR(p.pos, x.pos) /\ a = x.id
    BY <1>5 DEF inside, Inside, CloseTo
  <2>1. PICK x \in c[k].members : WithinR(p.pos, x.pos) /\ a = x.id
    BY <2>0
  <2>2. Elem(x) \in H /\ Elem(x).id = a /\ Elem(x).pos = x.pos
    BY <2>1, HeldIs DEF Elem
  <2>3. x \in Points /\ x.id \notin DOMAIN d
    BY <1>1, <1>3 DEF Clusters, Apart
  <2>. QED
    BY <2>1, <2>2, <2>3 DEF Points
<1>6. ASSUME NEW a \in close PROVE a \in near \cup inside
  <2>1. PICK e \in H : WithinR(p.pos, e.pos) /\ a = e.id
    BY <1>6
  <2>2. PICK x \in All(d, c) : e = Elem(x)
    BY HeldIs
  <2>3. a = x.id /\ WithinR(p.pos, x.pos)
    BY <2>1, <2>2 DEF Elem
  <2>4. CASE \E q \in DOMAIN d : x = d[q]
    BY <1>1, <2>3, <2>4 DEF Typed, near, Near
  <2>5. CASE \E k \in DOMAIN c : x \in c[k].members
    <3>1. PICK k \in DOMAIN c : x \in c[k].members
      BY <2>5
    <3>2. WithinHalfR(x.pos, c[k].center)
      BY <1>1, <3>1 DEF Dense
    <3>3. p.pos \in Positions /\ x.pos \in Positions /\ c[k].center \in Positions
      BY <1>2, <1>3, <3>1 DEF Clusters, Points
    <3>4. WithinThreeHalfR(p.pos, c[k].center)
      BY <2>3, <3>2, <3>3, Metric
    <3>5. x \in UNION {c[m].members : m \in CloseTo(c, p)}
      BY <3>1, <3>4 DEF CloseTo
    <3>. QED
      BY <2>3, <3>5 DEF inside, Inside
  <2>. QED
    BY <2>2, <2>4, <2>5, HeldIs
<1>7. close \subseteq near \cup inside /\ near \subseteq close /\ inside \subseteq close
  BY <1>4, <1>5, <1>6
<1>8. \A a \in close : a >= lo /\ a # p.id
  BY <1>1, <1>2 DEF Windowed
<1>9. IsFiniteSet(close)
  <2>. DEFINE f == [e \in X |-> e.id]
              T == {f[e] : e \in X}
  <2>1. f \in Surjection(X, T)
    BY DEF Surjection
  <2>2. IsFiniteSet(T)
    BY <1>1, <2>1, FS_Surjection DEF Windowed
  <2>3. close \subseteq T
    BY <1>1
  <2>. QED
    BY <2>2, <2>3, FS_Subset
<1>10. IsFiniteSet(near) /\ IsFiniteSet(inside)
  BY <1>7, <1>9, FS_Subset
<1>11. Later(p.id, p.pos, H) = Above(close, p.id)
  BY DEF Later, Above
<1>12. Earlier(p.id, p.pos, H) = Below(close, p.id)
  BY DEF Earlier, Below
<1>13. near \subseteq Nat /\ inside \subseteq Nat /\ near \cap inside = {}
  BY <1>4, <1>5
<1>. HIDE DEF close, H, near, inside
<1>14. close = near \cup inside
  BY <1>7
<1>. QED
  BY <1>8, <1>10, <1>11, <1>12, <1>13, <1>14 DEF H, near, inside


LEMMA NearestIsClose ==
  ASSUME NEW s, NEW x \in Positions, CloseMCs(s, x) # {}, DOMAIN s.mc \subseteq Nat,
         \A m \in DOMAIN s.mc : s.mc[m].center \in Positions
  PROVE  Nearest(s, x) \in CloseMCs(s, x)
<1>. DEFINE close == CloseMCs(s, x)
            D(m) == Distance(x, s.mc[m].center)
            T == {D(m) : m \in close}
<1>1. close \subseteq DOMAIN s.mc
  BY DEF CloseMCs
<1>2. \A m \in close : D(m) \in Nat /\ m \in Nat
  BY <1>1, DistanceAssumption
<1>. HIDE DEF close, D
<1>3. T \in SUBSET Nat /\ T # {}
  BY <1>2 DEF close
<1>4. PICK l \in T : \A y \in T : l <= y
  BY <1>3, LeastNumber
<1>. DEFINE U == {m \in close : D(m) = l}
<1>5. U \in SUBSET Nat /\ U # {}
  BY <1>2, <1>4
<1>6. PICK m \in U : \A y \in U : m <= y
  BY <1>5, LeastNumber
<1>7. ASSUME NEW k \in close
      PROVE  D(m) < D(k) \/ (D(m) = D(k) /\ m <= k)
  <2>1. D(m) = l /\ l <= D(k) /\ D(k) \in Nat /\ l \in Nat
    BY <1>2, <1>4, <1>6
  <2>2. D(k) = l => k \in U
    OBVIOUS
  <2>3. D(k) = l => m <= k
    BY <1>6, <2>2
  <2>. QED
    BY <2>1, <2>3
<1>8. m \in close
  BY <1>6
<1>9. \E i \in close : \A k \in close : D(i) < D(k) \/ (D(i) = D(k) /\ i <= k)
  BY <1>7, <1>8
<1>. QED
  BY <1>9 DEF Nearest, close, D

Shaped(s) == s = [pd |-> s.pd, mc |-> s.mc, counter |-> s.counter]
SoundState(s, ids, X, lo) == Shaped(s) /\ Sound(s.pd, s.mc, s.counter, ids, X, lo)
HeldBy(s) == Held(s.pd, s.mc)
ArrivesAt(s, p, told, ids, X) == Arrives(p, told, s.pd, s.mc, ids, X)

\* A new point has counted nothing; then its neighbours in PD; then those in the
\* micro-clusters.
LEMMA CountsNeighbours ==
  ASSUME NEW d, NEW c, NEW n, NEW ids, NEW X, NEW lo \in Int, NEW p, NEW told,
         Sound(d, c, n, ids, X, lo), Arrives(p, told, d, c, ids, X)
  PROVE  LET q == AddNeighbors(p, Near(d, p))
             r == AddNeighbors(q, Inside(c, p))
         IN  /\ q \in Points /\ q.id = p.id /\ q.pos = p.pos /\ Earned(q, X)
             /\ r \in Points /\ r.id = p.id /\ r.pos = p.pos /\ Earned(r, X)
             /\ Knows(r, Held(d, c), lo)
<1>. DEFINE near == Near(d, p)
            inside == Inside(c, p)
            q == AddNeighbors(p, near)
            r == AddNeighbors(q, inside)
            i == p.id
            H == Held(d, c)
            L0 == Above(near, i)
            E0 == Below(near, i)
            L1 == L0 \cup Above(inside, i)
            E1 == E0 \cup Below(inside, i)
            LX == Later(i, p.pos, X)
<1>1. /\ near \in SUBSET Nat /\ IsFiniteSet(near)
      /\ inside \in SUBSET Nat /\ IsFiniteSet(inside) /\ near \cap inside = {}
      /\ \A a \in near \cup inside : a >= lo /\ a # p.id
      /\ Later(p.id, p.pos, H) = Above(near \cup inside, p.id)
      /\ Earlier(p.id, p.pos, H) = Below(near \cup inside, p.id)
  BY NeighboursHeld
<1>. HIDE DEF near, inside
<1>2. /\ p \in Points /\ p.after = 0 /\ p.before = <<>> /\ Earned(p, X) /\ i \in Nat
  BY DEF Arrives, Points
<1>3. X \in SUBSET Seen /\ IsFiniteSet(X) /\ H \in SUBSET X
  BY DEF Sound, Windowed
<1>4. L1 = Later(i, p.pos, H) /\ E1 = Earlier(i, p.pos, H) /\ L0 \subseteq L1
  BY <1>1 DEF Above, Below
<1>. HIDE DEF H, LX, L0, L1, E0, E1
<1>5. IsFiniteSet(L1) /\ Cardinality(L1) \in Nat /\ Cardinality(LX) \in Nat
      /\ Cardinality(L1) <= Cardinality(LX)
  BY <1>3, <1>4, LaterFacts DEF LX
<1>6. IsFiniteSet(L0) /\ Cardinality(L0) <= Cardinality(L1) /\ Cardinality(L0) \in Nat
  BY <1>4, <1>5, FS_Subset, FS_CardinalityType
<1>. DEFINE none == {}
<1>7. Counted(p, none, none, lo) /\ none \in SUBSET Nat
  <2>1. IsFiniteSet({}) /\ Cardinality({}) = 0
    BY FS_EmptySet
  <2>2. Len(<<>>) = 0 /\ DOMAIN <<>> = {}
    OBVIOUS
  <2>3. 0 <= K
    BY Threshold
  <2>4. Newest(<<>>, {}, lo)
    BY <2>2, <2>3 DEF Newest
  <2>. QED
    BY <1>2, <2>1, <2>4 DEF Counted
<1>8. none \cup Above(near, i) = L0 /\ none \cup Below(near, i) = E0
  BY DEF L0, E0
<1>9. Uncounted(near, p, none, none, lo)
  BY <1>1 DEF Uncounted
<1>. HIDE DEF none
<1>10. Counting(q, p, L0, E0, lo)
  <2>1. Counting(q, p, none \cup Above(near, p.id), none \cup Below(near, p.id), lo)
    BY <1>1, <1>2, <1>7, <1>9, NeighborsAdded, Zenon
  <2>. QED
    BY <1>8, <2>1
<1>. HIDE DEF q
<1>16. /\ q \in Points /\ q.id = p.id /\ q.pos = p.pos /\ q.rmc = p.rmc
       /\ q.safe => p.safe \/ q.after >= K
       /\ Counted(q, L0, E0, lo)
  BY <1>10 DEF Counting
<1>11. Uncounted(inside, q, L0, E0, lo) /\ L0 \in SUBSET Nat /\ E0 \in SUBSET Nat
  BY <1>1, <1>16 DEF L0, E0, Above, Below, Uncounted
<1>12. /\ r \in Points /\ r.id = q.id /\ r.pos = q.pos
       /\ r.safe => q.safe \/ r.after >= K
       /\ Counted(r, L1, E1, lo)
  <2>1. Counting(r, q, L0 \cup Above(inside, q.id), E0 \cup Below(inside, q.id), lo)
    BY <1>1, <1>11, <1>16, NeighborsAdded, Zenon
  <2>2. Counting(r, q, L1, E1, lo)
    BY <1>16, <2>1 DEF L1, E1
  <2>. QED
    BY <2>2 DEF Counting
<1>. HIDE DEF r
<1>13. Knows(r, H, lo)
  BY <1>4, <1>16, <1>12 DEF Knows
<1>14. Earned(q, X)
  <2>1. q.after = Cardinality(L0)
    BY <1>16 DEF Counted
  <2>2. q.after >= K => Cardinality(LX) >= K
    BY <1>5, <1>6, <2>1, Threshold
  <2>. QED
    BY <1>2, <1>16, <2>2 DEF Earned, LX
<1>15. Earned(r, X)
  <2>1. r.after = Cardinality(L1)
    BY <1>12 DEF Counted
  <2>2. r.after >= K => Cardinality(LX) >= K
    BY <1>5, <2>1, Threshold
  <2>. QED
    BY <1>16, <1>12, <1>14, <2>2 DEF Earned, LX
<1>. QED
  BY <1>16, <1>12, <1>13, <1>14, <1>15 DEF q, r, H, near, inside


\* t is s with p.
Gained(t, s, p, ids, X, lo) == SoundState(t, ids, X, lo) /\ HeldBy(t) = HeldBy(s) \cup {Elem(p)}

\* insertPoint.
LEMMA InsertFacts ==
  ASSUME NEW s, NEW ids, NEW X, NEW lo \in Int, NEW p, NEW told,
         SoundState(s, ids, X, lo), ArrivesAt(s, p, told, ids, X)
  PROVE  Gained(InsertPoint(s, p, told), s, p, ids, X, lo)
<1>. DEFINE d == s.pd
            c == s.mc
            n == s.counter
            close == CloseMCs(s, p.pos)
            near == InPD(s, p.pos, 2 * R)
            nc == InPD(s, p.pos, R)
            q == AddNeighbors(p, near)
            met == [s EXCEPT !.pd = [x \in DOMAIN @ |->
                      IF x \in near \cap told THEN AddNeighbor(@[x], p.id) ELSE @[x]]]
            told1 == Told(d, p, told)
            t == InsertPoint(s, p, told)
<1>0. R \in Nat
  BY McodAssumption
<1>1. Shaped(s) /\ Sound(d, c, n, ids, X, lo) /\ Arrives(p, told, d, c, ids, X)
  BY DEF SoundState, ArrivesAt
<1>2. /\ Typed(d, c, n) /\ Remembers(d, c) /\ p \in Points /\ p.pos \in Positions
  BY <1>1 DEF Sound, Arrives, Points
<1>3. /\ DOMAIN c \subseteq Nat /\ \A m \in DOMAIN c : c[m].center \in Positions
      /\ \A x \in DOMAIN d : d[x] \in Points /\ d[x].pos \in Positions
  BY <1>2 DEF Typed, Clusters, Points
<1>4. near = Near(d, p)
  <2>1. ASSUME NEW x \in DOMAIN d
        PROVE  (2 * Distance(p.pos, d[x].pos) <= 2 * R) = WithinR(p.pos, d[x].pos)
    <3>1. Distance(p.pos, d[x].pos) \in Nat
      BY <1>2, <1>3, DistanceAssumption
    <3>. QED
      BY <1>0, <3>1 DEF WithinR
  <2>. QED
    BY <2>1 DEF InPD, Near
<1>5. /\ nc \in SUBSET DOMAIN d
      /\ \A x \in nc : WithinHalfR(p.pos, d[x].pos)
  BY DEF InPD, WithinHalfR
<1>6. close = CloseTo(c, p)
  BY DEF CloseMCs, CloseTo
<1>7. met = [pd |-> told1, mc |-> c, counter |-> n]
  <2>. DEFINE v == [x \in DOMAIN d |-> IF x \in near \cap told THEN AddNeighbor(d[x], p.id) ELSE d[x]]
  <2>1. v = told1
    BY <1>4 DEF Told, Near
  <2>2. met = [s EXCEPT !.pd = v]
    OBVIOUS
  <2>. HIDE DEF v, near
  <2>3. [s EXCEPT !.pd = v] = [pd |-> v, mc |-> c, counter |-> n]
    BY <1>1 DEF Shaped
  <2>. QED
    BY <2>1, <2>2, <2>3
<1>8. met.pd = told1 /\ met.mc = c /\ met.counter = n
  BY <1>7
<1>9. t = IF close # {} /\ WithinHalfR(p.pos, c[Nearest(s, p.pos)].center)
            THEN InsertToMC(s, p, Nearest(s, p.pos), told)
          ELSE IF Cardinality(nc) >= K THEN CreateMC(met, q, nc)
          ELSE InsertToPD(met, q)
  BY DEF InsertPoint
<1>10. /\ q \in Points /\ q.id = p.id /\ q.pos = p.pos /\ Earned(q, X)
       /\ LET r == AddNeighbors(q, Inside(c, p))
          IN  /\ r \in Points /\ r.id = p.id /\ r.pos = p.pos /\ Earned(r, X)
              /\ Knows(r, Held(d, c), lo)
  BY <1>1, <1>4, CountsNeighbours
<1>. HIDE DEF d, c, n, close, near, nc, q, met, t
<1>11. /\ DOMAIN told1 = DOMAIN d
       /\ \A x \in DOMAIN d : told1[x].pos = d[x].pos
  <2>1. /\ DOMAIN told1 = DOMAIN d
        /\ \A x \in DOMAIN d :
             /\ told1[x] \in Points /\ told1[x].id = x /\ told1[x].pos = d[x].pos /\ told1[x].rmc = d[x].rmc
             /\ Elem(told1[x]) = Elem(d[x])
             /\ x \in ids => Knows(told1[x], Held(d, c) \cup {Elem(p)}, lo)
             /\ x \notin ids => Knows(told1[x], X, lo)
             /\ Earned(told1[x], X)
    BY <1>1, ToldFacts
  <2>. HIDE DEF told1
  <2>. QED
    BY <2>1
<1>. HIDE DEF told1
<1>12. CASE close # {} /\ WithinHalfR(p.pos, c[Nearest(s, p.pos)].center)
  <2>. DEFINE m == Nearest(s, p.pos)
              j == Joined(c, m, p)
  <2>1. m \in DOMAIN c
    <3>1. m \in CloseMCs(s, p.pos)
      BY <1>2, <1>3, <1>12, NearestIsClose DEF c, close
    <3>. QED
      BY <3>1 DEF CloseMCs, c
  <2>2. WithinHalfR(p.pos, c[m].center)
    BY <1>12
  <2>3. t = InsertToMC(s, p, m, told)
    BY <1>9, <1>12
  <2>. HIDE DEF m
  <2>4. ASSUME NEW x \in DOMAIN d, WithinR(p.pos, d[x].pos) PROVE m \in d[x].rmc
    <3>1. d[x].pos \in Positions /\ c[m].center \in Positions
      BY <1>3, <2>1
    <3>2. WithinR(d[x].pos, p.pos)
      BY <1>2, <2>4, <3>1, Metric
    <3>3. WithinThreeHalfR(d[x].pos, c[m].center)
      BY <1>2, <2>2, <3>1, <3>2, Metric
    <3>. QED
      BY <1>2, <2>1, <3>3 DEF Remembers
  <2>5. t = [pd |-> told1, mc |-> j, counter |-> n]
    <3>. DEFINE v == [x \in DOMAIN d |->
                        IF x \in told /\ m \in d[x].rmc /\ WithinR(p.pos, d[x].pos)
                          THEN AddNeighbor(d[x], p.id) ELSE d[x]]
    <3>1. v = told1
      BY <2>4 DEF told1, Told
    <3>2. t = [[s EXCEPT !.mc = j] EXCEPT !.pd = v]
      <4>1. s = [pd |-> d, mc |-> c, counter |-> n]
        BY <1>1 DEF Shaped, d, c, n
      <4>2. [s EXCEPT !.mc = j].pd = d
        BY <4>1
      <4>. QED
        BY <2>3, <4>2 DEF InsertToMC, Joined, c, d
    <3>. HIDE DEF v, j
    <3>3. s = [pd |-> d, mc |-> c, counter |-> n]
      BY <1>1 DEF Shaped, d, c, n
    <3>. QED
      BY <3>1, <3>2, <3>3
  <2>6. Sound(told1, j, n, ids, X, lo) /\ Held(told1, j) = Held(d, c) \cup {Elem(p)}
    BY <1>1, <2>1, <2>2, JoinsMC DEF told1
  <2>. HIDE DEF j
  <2>. QED
    BY <2>5, <2>6 DEF SoundState, Shaped, HeldBy, t, d, c, Gained
<1>13. CASE ~ (close # {} /\ WithinHalfR(p.pos, c[Nearest(s, p.pos)].center)) /\ Cardinality(nc) >= K
  <2>. DEFINE around == InPD(met, q.pos, 3 * R) \ nc
              e == Without(Marked(told1, n, around), nc)
              j == Founded(c, n, told1, nc, q)
  <2>1. t = CreateMC(met, q, nc)
    BY <1>9, <1>13
  <2>2. t = [pd |-> e, mc |-> j, counter |-> n + 1]
    BY <1>8, <2>1 DEF CreateMC, Marked, Founded
  <2>3. \A x \in DOMAIN d \ nc : WithinThreeHalfR(p.pos, d[x].pos) => x \in around
    BY <1>8, <1>10, <1>11 DEF InPD, WithinThreeHalfR
  <2>. HIDE DEF around
  <2>4. Sound(e, j, n + 1, ids, X, lo) /\ Held(e, j) = Held(d, c) \cup {Elem(p)}
    BY <1>1, <1>5, <1>10, <1>13, <2>3, FoundsMC DEF told1
  <2>. HIDE DEF e, j
  <2>. QED
    BY <2>2, <2>4 DEF SoundState, Shaped, HeldBy, t, d, c, Gained
<1>14. CASE ~ (close # {} /\ WithinHalfR(p.pos, c[Nearest(s, p.pos)].center)) /\ ~ (Cardinality(nc) >= K)
  <2>. DEFINE inside == Inside(c, p)
              u == AddNeighbors(q, inside)
              r == [u EXCEPT !.rmc = @ \cup close]
              e == With(told1, p.id, r)
  <2>1. t = InsertToPD(met, q)
    BY <1>9, <1>14
  <2>2. /\ u \in Points /\ u.id = p.id /\ u.pos = p.pos /\ Earned(u, X)
        /\ Knows(u, Held(d, c), lo)
    BY <1>10
  <2>3. UNION {MemberIds(met, m, q.pos) : m \in close} = inside
    BY <1>6, <1>8, <1>10 DEF MemberIds, Inside
  <2>4. CloseMCs(met, q.pos) = close
    BY <1>8, <1>10 DEF close, CloseMCs, c
  <2>. HIDE DEF inside, u
  <2>5. close \in SUBSET Nat
    BY <1>3, <1>6 DEF CloseTo
  <2>6. /\ r \in Points /\ r.id = u.id /\ r.pos = u.pos /\ r.rmc = u.rmc \cup close
        /\ \A Y, l : Knows(r, Y, l) = Knows(u, Y, l)
        /\ \A Y : Earned(r, Y) = Earned(u, Y)
    BY <2>2, <2>5, RemembersMore
  <2>7. t = [pd |-> e, mc |-> c, counter |-> n]
    <3>1. t = [met EXCEPT !.pd = e]
      BY <1>8, <1>10, <2>1, <2>3, <2>4 DEF InsertToPD, u
    <3>. HIDE DEF e
    <3>. QED
      BY <1>7, <3>1
  <2>. HIDE DEF r
  <2>8. \A m \in DOMAIN c : WithinThreeHalfR(p.pos, c[m].center) => m \in r.rmc
    BY <1>6, <2>6 DEF CloseTo
  <2>9. Sound(e, c, n, ids, X, lo) /\ Held(e, c) = Held(d, c) \cup {Elem(p)}
    BY <1>1, <2>2, <2>6, <2>8, StaysInPD DEF told1
  <2>. HIDE DEF e
  <2>. QED
    BY <2>7, <2>9 DEF SoundState, Shaped, HeldBy, t, d, c, Gained
<1>. QED
  BY <1>12, <1>13, <1>14 DEF t


--------------------------------------------------------------------------------
(* New points. *)

Named(X) == \A e, f \in X : e.id = f.id => e = f

\* The window grows by a point.
LEMMA Grows ==
  ASSUME NEW d, NEW c, NEW n, NEW X, NEW lo \in Int,
         Sound(d, c, n, Nat, X, lo), Held(d, c) = X,
         NEW e \in Seen, e.id >= lo, \A x \in X : x.id # e.id
  PROVE  Sound(d, c, n, Nat, X \cup {e}, lo)
<1>. DEFINE Y == X \cup {e}
<1>1. /\ Typed(d, c, n) /\ Apart(d, c) /\ Dense(c, n) /\ Remembers(d, c)
      /\ Windowed(X, lo) /\ Informed(d, c, Nat, X, lo) /\ \A x \in All(d, c) : Earned(x, X)
  BY DEF Sound
<1>2. Windowed(Y, lo)
  <2>1. IsFiniteSet(Y)
    BY <1>1, FS_AddElement DEF Windowed
  <2>. QED
    BY <1>1, <2>1 DEF Windowed
<1>3. Informed(d, c, Nat, Y, lo)
  BY <1>1 DEF Informed, Typed
<1>4. ASSUME NEW x \in All(d, c) PROVE Earned(x, Y)
  <2>1. Y \in SUBSET Seen /\ IsFiniteSet(Y) /\ X \in SUBSET Y
    BY <1>2 DEF Windowed
  <2>. HIDE DEF Y
  <2>2. /\ Cardinality(Later(x.id, x.pos, X)) \in Nat /\ Cardinality(Later(x.id, x.pos, Y)) \in Nat
        /\ Cardinality(Later(x.id, x.pos, X)) <= Cardinality(Later(x.id, x.pos, Y))
    BY <2>1, LaterFacts
  <2>3. Earned(x, X)
    BY <1>1
  <2>. QED
    BY <2>2, <2>3, Threshold DEF Earned
<1>5. Held(d, c) \subseteq Y
  OBVIOUS
<1>. HIDE DEF Y
<1>6. Sound(d, c, n, Nat, Y, lo)
  BY <1>1, <1>2, <1>3, <1>4, <1>5 DEF Sound
<1>. QED
  BY <1>6 DEF Y

\* Every point of PD has counted its neighbours in X, which the state holds.
Fills(s, X, lo) == SoundState(s, Nat, X, lo) /\ HeldBy(s) = X

Fresh(e, X) == e \in Seen /\ \A x \in X : x.id # e.id

LEMMA NewFacts ==
  ASSUME NEW s, NEW lo \in Int, NEW X, Fills(s, X, lo), NEW e, Fresh(e, X), e.id >= lo
  PROVE  Fills(InsertNew(s, e), X \cup {e}, lo)
<1>. SoundState(s, Nat, X, lo) /\ HeldBy(s) = X /\ e \in Seen /\ \A x \in X : x.id # e.id
  BY DEF Fills, Fresh
<1>. DEFINE p == NewPoint(e)
            Y == X \cup {e}
            none == <<>>
            known == {}
<1>0. e.id \in Nat /\ e.pos \in Positions /\ e = [id |-> e.id, pos |-> e.pos]
  BY DEF Seen
<1>1. none \in Seq(Nat) /\ known \in SUBSET Nat
  OBVIOUS
<1>2. p = [id |-> e.id, pos |-> e.pos, after |-> 0, before |-> none, safe |-> FALSE, rmc |-> known]
  BY DEF NewPoint
<1>3. p \in Points /\ p.id = e.id /\ p.pos = e.pos /\ p.after = 0 /\ p.before = <<>> /\ p.safe = FALSE
  <2>. HIDE DEF none, known
  <2>1. p \in Points /\ p.id = e.id /\ p.pos = e.pos /\ p.after = 0 /\ p.before = none /\ p.safe = FALSE
    BY <1>0, <1>1, <1>2 DEF Points
  <2>. QED
    BY <2>1 DEF none
<1>4. Elem(p) = e
  BY <1>0, <1>3 DEF Elem
<1>5. SoundState(s, Nat, Y, lo)
  BY Grows DEF SoundState, HeldBy
<1>6. Arrives(p, DOMAIN s.pd, s.pd, s.mc, Nat, Y)
  <2>1. DOMAIN s.pd \subseteq Nat
    BY DEF SoundState, Sound, Typed
  <2>2. Earned(p, Y)
    BY <1>3 DEF Earned
  <2>. QED
    BY <1>0, <1>3, <1>4, <2>1, <2>2 DEF Arrives, HeldBy
<1>. HIDE DEF p, Y
<1>7. /\ SoundState(InsertPoint(s, p, DOMAIN s.pd), Nat, Y, lo)
      /\ HeldBy(InsertPoint(s, p, DOMAIN s.pd)) = HeldBy(s) \cup {Elem(p)}
  <2>. DEFINE N == Nat
              told == DOMAIN s.pd
              t == InsertPoint(s, p, told)
  <2>1. SoundState(s, N, Y, lo) /\ ArrivesAt(s, p, told, N, Y)
    BY <1>5, <1>6 DEF ArrivesAt
  <2>. HIDE DEF N, told
  <2>2. Gained(t, s, p, N, Y, lo)
    BY <2>1, InsertFacts, Zenon
  <2>. QED
    BY <2>2 DEF N, told, Gained
<1>. QED
  BY <1>4, <1>7 DEF InsertNew, p, Y, Fills

\* The points es have the times from up to to, which no point of X has.
Comes(es, X, from, to) ==
  /\ es \in SUBSET Seen /\ Named(es)
  /\ \A e \in es : e.id >= from /\ e.id < to /\ \A x \in X : x.id # e.id

\* The points of a slide, or of a backfill.
LEMMA InsertAllFacts ==
  ASSUME NEW s, NEW lo \in Int, NEW X, Fills(s, X, lo),
         NEW from \in Int, NEW to \in Int, from <= to, lo <= from,
         NEW es, Comes(es, X, from, to)
  PROVE  Fills(InsertAll(s, es, from, to), X \cup es, lo)
<1>. /\ SoundState(s, Nat, X, lo) /\ HeldBy(s) = X
     /\ es \in SUBSET Seen /\ Named(es)
     /\ \A e \in es : e.id >= from /\ e.id < to /\ \A x \in X : x.id # e.id
  BY DEF Fills, Comes
<1>. DEFINE at(t) == {e \in es : e.id = t}
            Step(f, t) == IF t = from THEN s
                          ELSE IF at(t - 1) = {} THEN f[t - 1]
                          ELSE InsertNew(f[t - 1], CHOOSE e \in at(t - 1) : TRUE)
            done == CHOOSE f : f = [t \in from..to |-> Step(f, t)]
            n == to - from
<1>1. InsertAll(s, es, from, to) = done[to]
  BY DEF InsertAll
<1>2. n \in Nat /\ from + n = to
  OBVIOUS
<1>. HIDE DEF n
<1>. DEFINE Some == {k \in 0..n : \E f : f = [t \in from..from + k |-> Step(f, t)]}
<1>3. \A k \in 0..n : k \in Some
  <2>1. 0 \in Some
    <3>. DEFINE f == [t \in from..from + 0 |-> s]
    <3>1. f = [t \in from..from + 0 |-> Step(f, t)]
      OBVIOUS
    <3>. HIDE DEF f
    <3>2. \E h : h = [t \in from..from + 0 |-> Step(h, t)]
      BY <3>1
    <3>3. 0 \in 0..n
      BY <1>2
    <3>. QED
      BY <3>2, <3>3
  <2>2. ASSUME NEW k \in 0..n, k \in Some, k < n
        PROVE  k + 1 \in Some
    <3>0. k \in Nat
      OBVIOUS
    <3>1. PICK f : f = [t \in from..from + k |-> Step(f, t)]
      BY <2>2
    <3>. DEFINE v == IF at(from + k) = {} THEN f[from + k]
                     ELSE InsertNew(f[from + k], CHOOSE e \in at(from + k) : TRUE)
                g == [t \in from..from + (k + 1) |-> IF t <= from + k THEN f[t] ELSE v]
    <3>2. ASSUME NEW t \in from..from + (k + 1)
          PROVE  g[t] = Step(g, t)
      <4>1. CASE t = from
        <5>1. t \in from..from + k /\ t <= from + k
          BY <3>0, <4>1
        <5>2. f[t] = Step(f, t)
          BY <3>1, <5>1
        <5>. QED
          BY <4>1, <5>1, <5>2
      <4>2. CASE t # from /\ t <= from + k
        <5>1. t \in from..from + k /\ t - 1 \in from..from + (k + 1) /\ t - 1 <= from + k
          BY <3>0, <4>2
        <5>2. g[t] = f[t] /\ g[t - 1] = f[t - 1]
          BY <4>2, <5>1
        <5>3. f[t] = Step(f, t)
          BY <3>1, <5>1
        <5>. HIDE DEF g, at
        <5>. QED
          BY <5>2, <5>3
      <4>3. CASE t = from + (k + 1)
        <5>1. /\ from + k \in from..from + (k + 1) /\ ~ (t <= from + k) /\ t - 1 = from + k
              /\ t # from /\ from + k <= from + k
          BY <3>0, <4>3
        <5>2. g[from + k] = f[from + k]
          BY <5>1
        <5>3. g[t] = v
          BY <5>1
        <5>. HIDE DEF g, at
        <5>. QED
          BY <5>1, <5>2, <5>3
      <4>. QED
        BY <3>0, <4>1, <4>2, <4>3
    <3>3. g = [t \in from..from + (k + 1) |-> Step(g, t)]
      <4>1. g = [t \in from..from + (k + 1) |-> g[t]]
        OBVIOUS
      <4>. HIDE DEF g, at
      <4>. QED
        BY <3>2, <4>1
    <3>4. k + 1 \in 0..n
      BY <1>2, <2>2
    <3>. HIDE DEF g, at
    <3>5. \E h : h = [t \in from..from + (k + 1) |-> Step(h, t)]
      BY <3>3
    <3>. QED
      BY <3>4, <3>5
  <2>. HIDE DEF Some
  <2>. QED
    BY <1>2, <2>1, <2>2, UpTo
<1>4. done = [t \in from..to |-> Step(done, t)]
  <2>1. n \in 0..n
    BY <1>2
  <2>2. n \in Some
    BY <1>3, <2>1, Zenon
  <2>. HIDE DEF at
  <2>3. \E f : f = [t \in from..from + n |-> Step(f, t)]
    BY <2>2
  <2>4. \E f : f = [t \in from..to |-> Step(f, t)]
    BY <1>2, <2>3
  <2>. QED
    BY <2>4, Zenon
<1>. HIDE DEF done
<1>. DEFINE Y(t) == X \cup {e \in es : e.id < t}
            Fact(u, Z) == SoundState(u, Nat, Z, lo) /\ HeldBy(u) = Z
            Right == {k \in 0..n : Fact(done[from + k], Y(from + k))}
<1>5. 0 \in Right
  <2>1. from + 0 = from /\ from \in from..to /\ 0 \in 0..n
    BY <1>2
  <2>2. done[from] = s
    BY <1>4, <2>1
  <2>3. Y(from) = X
    BY DEF Seen
  <2>4. Fact(done[from], Y(from))
    BY <2>2, <2>3
  <2>. HIDE DEF Fact, Y
  <2>. QED
    BY <2>1, <2>4
<1>. HIDE DEF Right
<1>6. ASSUME NEW k \in 0..n, k \in Right, k < n
      PROVE  k + 1 \in Right
  <2>. DEFINE t == from + k
              u == done[t]
              Z == Y(t)
  <2>0. k \in Nat
    OBVIOUS
  <2>1. /\ t \in Int /\ t >= from /\ (t + 1) - 1 = t /\ t + 1 # from /\ t + 1 \in from..to
        /\ from + (k + 1) = t + 1 /\ k + 1 \in 0..n
    BY <1>2, <1>6, <2>0
  <2>2. Fact(u, Z)
    BY <1>6 DEF Right
  <2>3. done[t + 1] = IF at(t) = {} THEN u ELSE InsertNew(u, CHOOSE e \in at(t) : TRUE)
    <3>1. done[t + 1] = Step(done, t + 1)
      BY <1>4, <2>1
    <3>. HIDE DEF at, t
    <3>. QED
      BY <2>1, <3>1
  <2>4. Fact(done[t + 1], Y(t + 1))
    <3>1. CASE at(t) = {}
      <4>1. Y(t + 1) = Z
        BY <2>1, <3>1 DEF Seen
      <4>. HIDE DEF Fact, Y
      <4>. QED
        BY <2>2, <2>3, <3>1, <4>1
    <3>2. CASE at(t) # {}
      <4>. DEFINE e == CHOOSE x \in at(t) : TRUE
      <4>1. e \in at(t)
        BY <3>2
      <4>2. e \in es /\ e.id = t /\ e \in Seen
        BY <4>1
      <4>3. done[t + 1] = InsertNew(u, e)
        BY <2>3, <3>2
      <4>. HIDE DEF e
      <4>4. e.id >= lo
        BY <2>1, <4>2
      <4>5. Fresh(e, Z)
        BY <2>1, <4>2 DEF Seen, Fresh
      <4>6. Y(t + 1) = Z \cup {e}
        <5>1. \A x \in es : x.id = t => x = e
          BY <4>2 DEF Named
        <5>2. \A x \in es : x.id < t + 1 <=> (x.id < t \/ x.id = t)
          BY <2>1 DEF Seen
        <5>3. t < t + 1
          BY <2>1
        <5>. HIDE DEF t
        <5>. QED
          BY <4>2, <5>1, <5>2, <5>3
      <4>. HIDE DEF u, Z, t
      <4>8. Fills(u, Z, lo)
        BY <2>2 DEF Fills
      <4>7. Fills(InsertNew(u, e), Z \cup {e}, lo)
        BY <4>4, <4>5, <4>8, NewFacts
      <4>. QED
        BY <4>3, <4>6, <4>7 DEF Fills
    <3>. QED
      BY <3>1, <3>2
  <2>. HIDE DEF Fact, Y
  <2>. QED
    BY <2>1, <2>4 DEF Right
<1>7. Fact(done[to], Y(to))
  <2>1. \A k \in 0..n : k \in Right
    BY <1>2, <1>5, <1>6, UpTo
  <2>2. n \in Right
    BY <1>2, <2>1
  <2>. HIDE DEF Fact, Y
  <2>. QED
    BY <1>2, <2>2 DEF Right
<1>8. Y(to) = X \cup es
  OBVIOUS
<1>. QED
  BY <1>1, <1>7, <1>8 DEF Fills


--------------------------------------------------------------------------------
(* What is reported. *)

\* Of a window that a point has counted, the number it reports with is on the side of
\* K on which its neighbours are.
LEMMA EffectiveCount ==
  ASSUME NEW p \in Points, NEW L \in SUBSET Nat, NEW E \in SUBSET Nat, IsFiniteSet(E),
         NEW lo \in Int, Counted(p, L, E, lo), \A e \in E : e >= lo
  PROVE  Effective(p, lo) < K <=> Cardinality(L) + Cardinality(E) < K
<1>. DEFINE b == p.before
            B == {i \in DOMAIN b : b[i] >= lo}
            g == [i \in B |-> b[i]]
            G == {g[i] : i \in B}
<1>1. /\ b \in Seq(Nat) /\ DOMAIN b = 1..Len(b) /\ Len(b) \in Nat
      /\ p.after = Cardinality(L) /\ IsFiniteSet(L) /\ Newest(b, E, lo)
  BY DEF Points, Counted
<1>2. K \in Nat
  BY Threshold
<1>3. Cardinality(L) \in Nat /\ Cardinality(E) \in Nat
  BY <1>1, FS_CardinalityType
<1>4. Effective(p, lo) = Cardinality(L) + Cardinality(B)
  BY <1>1 DEF Effective
<1>5. IsFiniteSet(B) /\ Cardinality(B) \in Nat
  <2>1. IsFiniteSet(DOMAIN b)
    BY <1>1, FS_Interval
  <2>. QED
    BY <2>1, FS_Subset, FS_CardinalityType
<1>6. \A i \in B : b[i] \in E
  BY <1>1 DEF Newest
<1>7. \A i, j \in B : g[i] = g[j] => i = j
  BY <1>1 DEF Newest
<1>8. DOMAIN g = B /\ G \subseteq E
  BY <1>6
<1>9. Cardinality(G) = Cardinality(B) /\ IsFiniteSet(G)
  <2>. HIDE DEF B, g
  <2>. QED
    BY <1>5, <1>7, <1>8, ImageCount
<1>10. CASE \A e \in E : \E i \in DOMAIN b : b[i] = e
  <2>1. \A e \in E : e \in G
    BY <1>10
  <2>2. G = E
    BY <1>8, <2>1
  <2>. HIDE DEF G, B
  <2>. QED
    BY <1>4, <1>9, <2>2
<1>11. CASE \E e \in E : \A i \in DOMAIN b : b[i] # e
  <2>1. PICK e \in E : \A i \in DOMAIN b : b[i] # e
    BY <1>11
  <2>2. Len(b) = K /\ \A i \in DOMAIN b : e < b[i]
    BY <1>1, <2>1, Zenon DEF Newest
  <2>3. e \in Nat /\ e >= lo /\ \A i \in DOMAIN b : b[i] \in Nat
    BY <1>1, <2>1
  <2>4. B = 1..Len(b)
    <3>1. \A i \in DOMAIN b : b[i] >= lo
      BY <2>2, <2>3
    <3>. QED
      BY <1>1, <3>1
  <2>5. Cardinality(B) = K
    <3>. DEFINE l == Len(b)
    <3>1. l \in Nat
      BY <1>1
    <3>. HIDE DEF l
    <3>2. Cardinality(1..l) = l
      BY <3>1, FS_Interval
    <3>. QED
      BY <2>2, <2>4, <3>2 DEF l
  <2>6. Cardinality(G) <= Cardinality(E)
    BY <1>8, FS_Subset
  <2>. HIDE DEF G, B
  <2>. QED
    BY <1>2, <1>3, <1>4, <1>9, <2>5, <2>6
<1>. QED
  BY <1>10, <1>11

\* The neighbours of a point are the earlier ones and the later ones.
LEMMA NeighbourCount ==
  ASSUME NEW X \in SUBSET Seen, IsFiniteSet(X), Named(X), NEW e \in X
  PROVE  /\ IsFiniteSet(Naive!Neighbours(e, X))
         /\ Cardinality(Naive!Neighbours(e, X)) =
              Cardinality(Later(e.id, e.pos, X)) + Cardinality(Earlier(e.id, e.pos, X))
<1>. DEFINE N == Naive!Neighbours(e, X)
            I == {x.id : x \in N}
            L == Later(e.id, e.pos, X)
            E == Earlier(e.id, e.pos, X)
<1>1. N \in SUBSET X
  BY DEF Naive!Neighbours
<1>2. IsFiniteSet(N)
  BY <1>1, FS_Subset
<1>3. \A x, y \in N : x.id = y.id => x = y
  BY <1>1 DEF Named
<1>4. L \in SUBSET Nat /\ E \in SUBSET Nat /\ IsFiniteSet(L) /\ IsFiniteSet(E)
  BY LaterFacts
<1>5. I = L \cup E
  <2>1. \A x \in X : x.id \in Nat /\ (x # e => x.id # e.id)
    BY DEF Seen, Named
  <2>. QED
    BY <2>1 DEF Later, Earlier, Naive!Neighbours, WithinR
<1>6. L \cap E = {}
  BY <1>4 DEF Later, Earlier, Seen
<1>. HIDE DEF N, L, E
<1>7. Cardinality(I) = Cardinality(N)
  BY <1>2, <1>3, NamesCount
<1>8. Cardinality(L \cup E) = Cardinality(L) + Cardinality(E)
  <2>1. Cardinality(L \cup E) = Cardinality(L) + Cardinality(E) - Cardinality(L \cap E)
    BY <1>4, FS_Union
  <2>2. Cardinality(L) \in Nat /\ Cardinality(E) \in Nat /\ Cardinality({}) = 0
    BY <1>4, FS_CardinalityType, FS_EmptySet
  <2>3. Cardinality(L \cap E) = 0
    BY <1>6, <2>2
  <2>. DEFINE l == Cardinality(L)
              k == Cardinality(E)
              b == Cardinality(L \cap E)
  <2>4. Cardinality(L \cup E) = l + k - b /\ b = 0 /\ l \in Nat /\ k \in Nat
    BY <2>1, <2>2, <2>3
  <2>. HIDE DEF l, k, b
  <2>5. Cardinality(L \cup E) = l + k
    BY <2>4
  <2>. QED
    BY <2>5 DEF l, k
<1>. HIDE DEF I
<1>. QED
  BY <1>2, <1>5, <1>7, <1>8 DEF N, L, E

\* A member of a micro-cluster has K neighbours: the others.
LEMMA MembersAreInliers ==
  ASSUME NEW d, NEW c, NEW n, NEW ids, NEW X, NEW lo, Sound(d, c, n, ids, X, lo),
         NEW m \in DOMAIN c, NEW x \in c[m].members
  PROVE  Cardinality(Naive!Neighbours(Elem(x), X)) >= K
<1>. DEFINE M == c[m].members
            O == M \ {x}
            g == [y \in O |-> Elem(y)]
            G == {g[y] : y \in O}
            N == Naive!Neighbours(Elem(x), X)
<1>1. /\ Typed(d, c, n) /\ Apart(d, c) /\ Dense(c, n) /\ Windowed(X, lo) /\ Held(d, c) \subseteq X
  BY DEF Sound
<1>2. /\ IsFiniteSet(M) /\ Cardinality(M) > K /\ Cardinality(M) \in Nat
      /\ \A y \in M : WithinHalfR(y.pos, c[m].center)
  BY <1>1, FS_CardinalityType DEF Dense
<1>3. IsFiniteSet(O) /\ Cardinality(O) = Cardinality(M) - 1
  BY <1>2, FS_RemoveElement
<1>4. Cardinality(O) >= K
  BY <1>2, <1>3, Threshold
<1>5. c[m] \in Clusters
  BY <1>1 DEF Typed
<1>6. \A y \in M : y \in Points /\ Elem(y) \in X /\ Elem(y).id = y.id /\ Elem(y).pos = y.pos
  BY <1>1, <1>5, HeldIs DEF Clusters, Elem
<1>7. \A y, z \in M : y.id = z.id => y = z
  BY <1>1 DEF Apart
<1>8. \A y, z \in O : g[y] = g[z] => y = z
  <2>1. ASSUME NEW y \in O, NEW z \in O, g[y] = g[z] PROVE y = z
    <3>1. Elem(y) = Elem(z) /\ y \in M /\ z \in M
      BY <2>1
    <3>2. y.id = z.id
      BY <1>6, <3>1
    <3>. QED
      BY <1>7, <3>1, <3>2
  <2>. QED
    BY <2>1
<1>9. G \subseteq N
  <2>1. ASSUME NEW y \in O PROVE Elem(y) \in N
    <3>1. y \in M /\ y.pos \in Positions /\ x.pos \in Positions /\ c[m].center \in Positions
      BY <1>5, <1>6 DEF Points, Clusters
    <3>2. WithinR(x.pos, y.pos)
      BY <1>2, <3>1, Metric
    <3>3. x.id # y.id
      BY <1>7
    <3>. QED
      BY <1>6, <3>1, <3>2, <3>3 DEF Naive!Neighbours, WithinR
  <2>. QED
    BY <2>1
<1>10. IsFiniteSet(N) /\ Cardinality(N) \in Nat
  <2>1. N \in SUBSET X
    BY DEF Naive!Neighbours
  <2>. QED
    BY <1>1, <2>1, FS_Subset, FS_CardinalityType DEF Windowed
<1>11. Cardinality(G) = Cardinality(O)
  <2>1. DOMAIN g = O
    OBVIOUS
  <2>. HIDE DEF g, O
  <2>. QED
    BY <1>3, <1>8, <2>1, ImageCount
<1>12. Cardinality(G) <= Cardinality(N)
  BY <1>9, <1>10, FS_Subset
<1>13. Cardinality(O) \in Nat
  BY <1>3, FS_CardinalityType
<1>. HIDE DEF G, N, O
<1>14. Cardinality(N) >= K
  BY <1>4, <1>10, <1>11, <1>12, <1>13, Threshold
<1>. QED
  BY <1>14 DEF N

LEMMA CountIsCount == \A S : Naive!Cardinality(S) = Cardinality(S)
  BY DEF Naive!Cardinality, Cardinality

\* The reported points are the outliers of the naive detector.
LEMMA ReportedFacts ==
  ASSUME NEW s, NEW lo \in Int, NEW X, SoundState(s, Nat, X, lo), HeldBy(s) = X
  PROVE  Reported(s, lo) = Naive!Outliers(X)
<1>. DEFINE d == s.pd
            c == s.mc
            Few(e) == Cardinality(Naive!Neighbours(e, X)) < K
<1>1. /\ Sound(d, c, s.counter, Nat, X, lo) /\ Held(d, c) = X
  BY DEF SoundState, HeldBy
<1>2. /\ Typed(d, c, s.counter) /\ Windowed(X, lo) /\ Informed(d, c, Nat, X, lo)
      /\ \A x \in All(d, c) : Earned(x, X)
  BY <1>1 DEF Sound
<1>3. X \in SUBSET Seen /\ IsFiniteSet(X) /\ Named(X) /\ K \in Nat /\ \A e \in X : e.id >= lo
  BY <1>2, Threshold DEF Windowed, Named
<1>. HIDE DEF d, c
<1>4. ASSUME NEW q \in DOMAIN d
      PROVE  /\ Elem(d[q]) \in X /\ Elem(d[q]).id = q
             /\ Few(Elem(d[q])) <=> (~ d[q].safe /\ Effective(d[q], lo) < K)
  <2>. DEFINE p == d[q]
              e == Elem(p)
              L == Later(p.id, p.pos, X)
              E == Earlier(p.id, p.pos, X)
  <2>1. p \in Points /\ p.id = q /\ p \in All(d, c) /\ e \in X /\ e.id = q /\ e.pos = p.pos /\ q \in Nat
    BY <1>1, <1>2, HeldIs DEF Typed, Elem
  <2>2. Counted(p, L, E, lo)
    BY <1>1, <1>2, <2>1 DEF Informed, Knows
  <2>3. /\ L \in SUBSET Nat /\ E \in SUBSET Nat /\ IsFiniteSet(L) /\ IsFiniteSet(E)
        /\ \A a \in E : a >= lo
    <3>1. /\ L \in SUBSET Nat /\ E \in SUBSET Nat /\ IsFiniteSet(L) /\ IsFiniteSet(E)
      BY <1>3, LaterFacts
    <3>2. \A a \in E : a >= lo
      BY <1>3 DEF Earlier
    <3>. QED
      BY <3>1, <3>2
  <2>4. Cardinality(L) \in Nat /\ Cardinality(E) \in Nat
    BY <2>3, FS_CardinalityType
  <2>5. Cardinality(Naive!Neighbours(e, X)) = Cardinality(L) + Cardinality(E)
    BY <1>3, <2>1, NeighbourCount
  <2>6. p.safe => Cardinality(L) >= K
    BY <1>2, <2>1 DEF Earned
  <2>. HIDE DEF p, e, L, E
  <2>7. Effective(p, lo) < K <=> Cardinality(L) + Cardinality(E) < K
    BY <2>1, <2>2, <2>3, EffectiveCount
  <2>8. p.safe => ~ (Cardinality(L) + Cardinality(E) < K)
    BY <1>3, <2>4, <2>6
  <2>9. Few(e) <=> (~ p.safe /\ Effective(p, lo) < K)
    BY <2>5, <2>7, <2>8
  <2>. QED
    BY <2>1, <2>9 DEF p, e
<1>5. ASSUME NEW e \in X, Few(e) PROVE \E q \in DOMAIN d : e = Elem(d[q])
  <2>1. PICK x \in All(d, c) : e = Elem(x)
    BY <1>1, HeldIs
  <2>2. ASSUME NEW m \in DOMAIN c, x \in c[m].members PROVE FALSE
    <3>1. Cardinality(Naive!Neighbours(Elem(x), X)) >= K
      BY <1>1, <2>2, MembersAreInliers
    <3>2. IsFiniteSet(Naive!Neighbours(e, X))
      BY <1>3, NeighbourCount
    <3>3. Cardinality(Naive!Neighbours(e, X)) \in Nat
      BY <3>2, FS_CardinalityType
    <3>. QED
      BY <1>3, <1>5, <2>1, <3>1, <3>3
  <2>. QED
    BY <2>1, <2>2, HeldIs
<1>6. Reported(s, lo) = {q \in DOMAIN d : ~ d[q].safe /\ Effective(d[q], lo) < K}
  BY DEF Reported, d
<1>7. Naive!Outliers(X) = {e.id : e \in {y \in X : Few(y)}}
  BY CountIsCount DEF Naive!Outliers
<1>. HIDE DEF Few
<1>8. \A q \in Reported(s, lo) : q \in Naive!Outliers(X)
  BY <1>4, <1>6, <1>7
<1>9. \A q \in Naive!Outliers(X) : q \in Reported(s, lo)
  <2>1. ASSUME NEW e \in X, Few(e) PROVE e.id \in Reported(s, lo)
    <3>1. PICK q \in DOMAIN d : e = Elem(d[q])
      BY <1>5, <2>1
    <3>. QED
      BY <1>4, <1>6, <2>1, <3>1
  <2>. QED
    BY <1>7, <2>1
<1>. QED
  BY <1>6, <1>8, <1>9


--------------------------------------------------------------------------------
(* Expiry and re-insertion. *)

\* What is in the window from lo.
From(X, lo) == {e \in X : e.id >= lo}

\* When the oldest points leave, a point that stays keeps its later neighbours.
LEMMA ForgetsTheOld ==
  ASSUME NEW p \in Points, NEW lo \in Int, NEW hi \in Int, lo <= hi,
         NEW X, Windowed(X, lo), p.id >= hi
  PROVE  /\ Windowed(From(X, hi), hi)
         /\ Knows(p, X, lo) => Knows(p, From(X, hi), hi)
         /\ Earned(p, X) => Earned(p, From(X, hi))
<1>. DEFINE Y == From(X, hi)
            L == Later(p.id, p.pos, X)
            E == Earlier(p.id, p.pos, X)
            M == Later(p.id, p.pos, Y)
            F == Earlier(p.id, p.pos, Y)
<1>1. X \in SUBSET Seen /\ IsFiniteSet(X) /\ p.id \in Nat /\ p.before \in Seq(Nat)
  BY DEF Windowed, Points
<1>2. Windowed(Y, hi)
  <2>1. IsFiniteSet(Y)
    BY <1>1, FS_Subset DEF From
  <2>. QED
    BY <2>1 DEF Windowed, From
<1>3. M = L
  BY <1>1 DEF Later, From, Seen
<1>4. F = {a \in E : a >= hi}
  BY DEF Earlier, From
<1>5. ASSUME Newest(p.before, E, lo) PROVE Newest(p.before, F, hi)
  <2>. DEFINE b == p.before
  <2>1. \A i \in DOMAIN b : b[i] \in Nat
    BY <1>1
  <2>2. \A i \in DOMAIN b : b[i] \in F \/ b[i] < hi
    BY <1>4, <1>5, <2>1 DEF Newest
  <2>. QED
    BY <1>4, <1>5, <2>2 DEF Newest
<1>6. Knows(p, X, lo) => Knows(p, Y, hi)
  BY <1>3, <1>5 DEF Knows, Counted
<1>7. Earned(p, X) => Earned(p, Y)
  BY <1>3 DEF Earned
<1>. QED
  BY <1>2, <1>6, <1>7

\* The points that a state lacks of X.
Missing(points, ids, s, X) ==
  /\ points \subseteq Points /\ ids = {x.id : x \in points}
  /\ \A x, y \in points : x.id = y.id => x = y
  /\ \A x \in points : Earned(x, X) /\ \A e \in HeldBy(s) : e.id # x.id
  /\ X = HeldBy(s) \cup {Elem(x) : x \in points}

\* The members of dissolved micro-clusters are inserted again.
LEMMA DissolveFacts ==
  ASSUME NEW s, NEW ms, NEW X, NEW lo \in Int, NEW points, NEW ids, NEW t,
         points = UNION {s.mc[m].members : m \in ms},
         t = [s EXCEPT !.mc = Without(@, ms)],
         SoundState(t, ids, X, lo), Missing(points, ids, t, X)
  PROVE  SoundState(Dissolve(s, ms), Nat, X, lo) /\ HeldBy(Dissolve(s, ms)) = X
<1>. DEFINE n == Cardinality(points)
            order == SetToSeq(points)
            Step(f, i) == IF i = 0 THEN t ELSE Reinserted(f[i - 1], order[i], ids)
            done == CHOOSE f : f = [i \in 0..n |-> Step(f, i)]
<1>1. Dissolve(s, ms) = done[n]
  BY DEF Dissolve, Missing
<1>2. X \subseteq Seen /\ IsFiniteSet(X)
  BY DEF SoundState, Sound, Windowed
<1>3. IsFiniteSet(points)
  <2>. DEFINE g == [x \in points |-> Elem(x)]
              G == {g[x] : x \in points}
              h == [e \in G |-> CHOOSE x \in points : g[x] = e]
  <2>1. \A x, y \in points : g[x] = g[y] => x = y
    <3>1. \A x, y \in points : Elem(x) = Elem(y) => x.id = y.id
      BY DEF Elem
    <3>. QED
      BY <3>1 DEF Missing
  <2>2. G \subseteq X
    BY DEF Missing
  <2>3. IsFiniteSet(G)
    BY <1>2, <2>2, FS_Subset
  <2>4. h \in Surjection(G, points)
    <3>1. \A x \in points : g[x] \in G /\ h[g[x]] = x
      BY <2>1
    <3>2. h \in [G -> points]
      OBVIOUS
    <3>. HIDE DEF g, h, G
    <3>. QED
      BY <3>1, <3>2 DEF Surjection
  <2>. QED
    BY <2>3, <2>4, FS_Surjection
<1>4. /\ n \in Nat /\ order \in [1..n -> points]
      /\ \A i, j \in 1..n : order[i] = order[j] => i = j
      /\ \A x \in points : \E i \in 1..n : order[i] = x
  BY <1>3, OrderFacts
<1>. HIDE DEF n, order
<1>. DEFINE Some == {k \in 0..n : \E f : f = [i \in 0..k |-> Step(f, i)]}
<1>5. \A k \in 0..n : k \in Some
  <2>1. 0 \in Some
    <3>. DEFINE f == [i \in 0..0 |-> t]
    <3>1. f = [i \in 0..0 |-> Step(f, i)]
      OBVIOUS
    <3>. HIDE DEF f
    <3>2. \E h : h = [i \in 0..0 |-> Step(h, i)]
      BY <3>1
    <3>3. 0 \in 0..n
      BY <1>4
    <3>. QED
      BY <3>2, <3>3
  <2>2. ASSUME NEW k \in 0..n, k \in Some, k < n
        PROVE  k + 1 \in Some
    <3>1. PICK f : f = [i \in 0..k |-> Step(f, i)]
      BY <2>2
    <3>. DEFINE g == [i \in 0..k + 1 |-> IF i <= k THEN f[i] ELSE Reinserted(f[k], order[k + 1], ids)]
    <3>2. ASSUME NEW i \in 0..k + 1
          PROVE  g[i] = Step(g, i)
      <4>1. CASE i = 0
        BY <1>4, <3>1, <4>1
      <4>2. CASE i # 0 /\ i <= k
        <5>1. i \in 0..k /\ i - 1 \in 0..k + 1 /\ i - 1 <= k
          BY <1>4, <2>2, <4>2
        <5>2. g[i] = f[i] /\ g[i - 1] = f[i - 1]
          BY <4>2, <5>1
        <5>3. f[i] = Step(f, i)
          BY <3>1, <5>1
        <5>. HIDE DEF g
        <5>. QED
          BY <5>2, <5>3
      <4>3. CASE i = k + 1
        <5>1. k \in 0..k + 1 /\ ~ (k + 1 <= k) /\ i - 1 = k /\ i # 0 /\ k <= k
          BY <1>4, <2>2, <4>3
        <5>2. g[k] = f[k]
          BY <5>1
        <5>3. g[i] = Reinserted(f[k], order[k + 1], ids)
          BY <4>3, <5>1
        <5>. HIDE DEF g
        <5>. QED
          BY <4>3, <5>1, <5>2, <5>3
      <4>. QED
        BY <1>4, <2>2, <4>1, <4>2, <4>3
    <3>3. g = [i \in 0..k + 1 |-> Step(g, i)]
      <4>1. g = [i \in 0..k + 1 |-> g[i]]
        OBVIOUS
      <4>. HIDE DEF g
      <4>. QED
        BY <3>2, <4>1
    <3>4. k + 1 \in 0..n
      BY <1>4, <2>2
    <3>. QED
      BY <3>3, <3>4
  <2>. HIDE DEF Some
  <2>. QED
    BY <1>4, <2>1, <2>2, UpTo
<1>6. done = [i \in 0..n |-> Step(done, i)]
  <2>1. n \in 0..n
    BY <1>4
  <2>2. \E f : f = [i \in 0..n |-> Step(f, i)]
    BY <1>5, <2>1
  <2>. QED
    BY <2>2, Zenon
<1>. HIDE DEF done
<1>. DEFINE H(i) == HeldBy(t) \cup {Elem(order[j]) : j \in 1..i}
            Fact(u, Z) == SoundState(u, ids, X, lo) /\ HeldBy(u) = Z
            Right == {i \in 0..n : Fact(done[i], H(i))}
<1>7. 0 \in Right
  <2>1. 0 \in 0..n /\ done[0] = t
    BY <1>4, <1>6
  <2>2. H(0) = HeldBy(t)
    OBVIOUS
  <2>. QED
    BY <2>1, <2>2
<1>8. ASSUME NEW i \in 0..n, i \in Right, i < n
      PROVE  i + 1 \in Right
  <2>. DEFINE u == done[i]
              x == order[i + 1]
              p == Forgotten(x)
  <2>1. i + 1 \in 0..n /\ i + 1 \in 1..n /\ i + 1 # 0 /\ (i + 1) - 1 = i
    BY <1>4, <1>8
  <2>2. SoundState(u, ids, X, lo) /\ HeldBy(u) = H(i)
    BY <1>8
  <2>3. x \in points /\ x \in Points
    BY <1>4, <2>1 DEF Missing
  <2>4. done[i + 1] = InsertPoint(u, p, ids)
    BY <1>6, <2>1 DEF Reinserted
  <2>5. /\ p \in Points /\ p.id = x.id /\ p.after = 0 /\ p.before = <<>> /\ Elem(p) = Elem(x)
        /\ \A Z : Earned(p, Z) = Earned(x, Z)
    BY <2>3, ForgottenFacts
  <2>. HIDE DEF p, u
  <2>6. p.id \in ids /\ Elem(p) \in X /\ Earned(p, X)
    BY <2>3, <2>5 DEF Missing
  <2>7. ASSUME NEW e \in HeldBy(u) PROVE e.id # p.id
    <3>1. CASE e \in HeldBy(t)
      BY <2>3, <2>5, <3>1 DEF Missing
    <3>2. CASE e \in {Elem(order[j]) : j \in 1..i}
      <4>1. PICK j \in 1..i : e = Elem(order[j])
        BY <3>2
      <4>2. j \in 1..n /\ j # i + 1
        BY <1>4, <2>1
      <4>3. order[j] # x /\ order[j] \in points
        BY <1>4, <2>1, <4>2
      <4>4. order[j].id # x.id
        BY <2>3, <4>3 DEF Missing
      <4>. QED
        BY <2>5, <4>1, <4>4 DEF Elem
    <3>. QED
      BY <2>2, <3>1, <3>2
  <2>8. ArrivesAt(u, p, ids, ids, X)
    BY <2>5, <2>6, <2>7 DEF ArrivesAt, Arrives, HeldBy
  <2>9. Gained(InsertPoint(u, p, ids), u, p, ids, X, lo)
    BY <2>2, <2>8, InsertFacts, Zenon
  <2>10. H(i + 1) = H(i) \cup {Elem(p)}
    <3>1. \A j : j \in 1..i + 1 <=> (j \in 1..i \/ j = i + 1)
      BY <2>1
    <3>. QED
      BY <2>5, <3>1
  <2>. HIDE DEF H
  <2>11. Fact(done[i + 1], H(i + 1))
    BY <2>2, <2>4, <2>9, <2>10 DEF Gained
  <2>. HIDE DEF Fact
  <2>. QED
    BY <2>1, <2>11
<1>9. Fact(done[n], H(n))
  <2>. HIDE DEF Right, H, Fact
  <2>1. \A i \in 0..n : i \in Right
    BY <1>4, <1>7, <1>8, UpTo
  <2>2. n \in Right
    BY <1>4, <2>1
  <2>. QED
    BY <2>2 DEF Right
<1>10. H(n) = X
  <2>1. {Elem(order[j]) : j \in 1..n} = {Elem(x) : x \in points}
    BY <1>4
  <2>. QED
    BY <2>1 DEF Missing
<1>. DEFINE v == done[n]
<1>11. SoundState(v, ids, X, lo) /\ HeldBy(v) = X
  BY <1>9, <1>10
<1>. HIDE DEF v
<1>12. SoundState(v, Nat, X, lo)
  <2>1. Informed(v.pd, v.mc, Nat, X, lo)
    BY <1>11 DEF SoundState, HeldBy, Sound, Informed, Typed
  <2>. QED
    BY <1>11, <2>1 DEF SoundState, Sound
<1>. QED
  BY <1>1, <1>11, <1>12 DEF v


\* deletePoint for the oldest slide, and the dissolution of what has shrunk.
LEMMA ExpireFacts ==
  ASSUME NEW s, NEW lo \in Int, NEW hi \in Int, lo <= hi, NEW X,
         SoundState(s, Nat, X, lo), HeldBy(s) = X,
         NEW expired, expired = {e.id : e \in {x \in X : x.id < hi}}
  PROVE  LET t == Dissolve(Expire(s, expired), Shrunk(s, expired))
         IN  SoundState(t, Nat, From(X, hi), hi) /\ HeldBy(t) = From(X, hi)
<1>. DEFINE d == s.pd
            c == s.mc
            n == s.counter
            Y == From(X, hi)
            ms == Shrunk(s, expired)
            x == Expire(s, expired)
            rest(m) == {y \in c[m].members : y.id \notin expired}
            e == Without(d, expired)
            a == [m \in DOMAIN c |-> [c[m] EXCEPT !.members = rest(m)]]
            b == Without(a, ms)
            t == [x EXCEPT !.mc = Without(@, ms)]
            points == UNION {x.mc[m].members : m \in ms}
            ids == {y.id : y \in points}
<1>1. /\ Shaped(s) /\ Typed(d, c, n) /\ Apart(d, c) /\ Dense(c, n) /\ Remembers(d, c)
      /\ Windowed(X, lo) /\ Held(d, c) = X /\ Informed(d, c, Nat, X, lo)
      /\ \A y \in All(d, c) : Earned(y, X)
  BY DEF SoundState, Sound, HeldBy
<1>2. /\ \A q \in DOMAIN d : d[q] \in Points /\ d[q].id = q /\ q \in Nat /\ d[q] \in All(d, c)
      /\ \A m \in DOMAIN c : /\ c[m] \in Clusters /\ m \in Nat
                             /\ \A y \in c[m].members : y \in Points /\ y \in All(d, c)
  BY <1>1, HeldIs DEF Typed, Clusters
<1>3. ASSUME NEW y \in All(d, c) PROVE y \in Points /\ (y.id \in expired <=> y.id < hi) /\ Elem(y) \in X
  <2>1. y \in Points
    BY <1>2, HeldIs
  <2>2. Elem(y) \in X /\ Elem(y).id = y.id
    BY <1>1 DEF Held, Elem
  <2>. QED
    BY <2>1, <2>2
<1>4. ms \in SUBSET DOMAIN c
  BY DEF Shrunk
<1>5. x = [pd |-> e, mc |-> a, counter |-> n]
  <2>1. \A m \in DOMAIN c : {y \in c[m].members : y.id \in expired => y.id \in DOMAIN d} = rest(m)
    BY <1>1 DEF Apart
  <2>2. x = [s EXCEPT !.pd = e, !.mc = a]
    BY <2>1 DEF Expire
  <2>. HIDE DEF e, a
  <2>. QED
    BY <1>1, <2>2 DEF Shaped
<1>6. t = [pd |-> e, mc |-> b, counter |-> n]
  <2>. HIDE DEF e, a, x
  <2>. QED
    BY <1>5
<1>7. /\ DOMAIN e = DOMAIN d \ expired /\ \A q \in DOMAIN e : e[q] = d[q]
  BY DEF Without
<1>8. /\ DOMAIN b = DOMAIN c \ ms
      /\ \A m \in DOMAIN c : /\ a[m].members = rest(m) /\ a[m].center = c[m].center
                             /\ a[m] \in Clusters
      /\ \A m \in DOMAIN b : b[m] = a[m]
  <2>1. ASSUME NEW m \in DOMAIN c
        PROVE  a[m].members = rest(m) /\ a[m].center = c[m].center /\ a[m] \in Clusters
    <3>. DEFINE k == c[m]
                r == rest(m)
    <3>1. k \in Clusters /\ r \in SUBSET Points /\ a[m] = [k EXCEPT !.members = r]
      BY <1>2
    <3>. HIDE DEF k, r, a
    <3>. QED
      BY <3>1 DEF Clusters, k, r
  <2>2. DOMAIN a = DOMAIN c
    OBVIOUS
  <2>. HIDE DEF a, ms
  <2>3. DOMAIN b = DOMAIN c \ ms /\ \A m \in DOMAIN b : b[m] = a[m]
    BY <2>2 DEF Without
  <2>. HIDE DEF b, rest
  <2>. QED
    BY <2>1, <2>2, <2>3
<1>9. points = UNION {rest(m) : m \in ms}
  <2>1. x.mc = a
    <3>. HIDE DEF x, a, e
    <3>. QED
      BY <1>5
  <2>2. \A m \in ms : x.mc[m].members = rest(m)
    BY <1>4, <1>8, <2>1
  <2>. DEFINE has(m) == x.mc[m].members
  <2>3. points = UNION {has(m) : m \in ms} /\ \A m \in ms : has(m) = rest(m)
    BY <2>2
  <2>. HIDE DEF x, rest, ms, points, has
  <2>. QED
    BY <2>3
<1>. HIDE DEF x, t, a, b, e, ms, points, Y
<1>10. ASSUME NEW y \in All(d, c), y.id \notin expired
       PROVE  /\ y \in Points /\ y.id >= hi /\ Earned(y, Y) /\ Elem(y) \in Y
              /\ Knows(y, X, lo) => Knows(y, Y, hi)
  <2>1. y \in Points /\ ~ (y.id < hi) /\ y.id \in Nat /\ Elem(y) \in X /\ Earned(y, X)
    BY <1>1, <1>3, <1>10 DEF Points
  <2>2. y.id >= hi
    BY <2>1
  <2>3. /\ Knows(y, X, lo) => Knows(y, From(X, hi), hi)
        /\ Earned(y, X) => Earned(y, From(X, hi))
    BY <1>1, <2>1, <2>2, ForgetsTheOld
  <2>4. Elem(y) \in From(X, hi)
    BY <2>1, <2>2 DEF From, Elem
  <2>. QED
    BY <2>1, <2>2, <2>3, <2>4 DEF Y
<1>11. Windowed(Y, hi)
  <2>1. IsFiniteSet(Y)
    BY <1>1, FS_Subset DEF Windowed, From, Y
  <2>. QED
    BY <1>1, <2>1 DEF Windowed, From, Y
<1>12. \A y \in All(e, b) : y \in All(d, c) /\ y.id \notin expired
  <2>1. ASSUME NEW q \in DOMAIN e PROVE e[q] \in All(d, c) /\ e[q].id \notin expired
    BY <1>2, <1>7
  <2>2. ASSUME NEW m \in DOMAIN b, NEW y \in b[m].members PROVE y \in All(d, c) /\ y.id \notin expired
    BY <1>2, <1>8
  <2>. QED
    BY <2>1, <2>2, HeldIs
<1>13. \A y \in points : y \in All(d, c) /\ y.id \notin expired /\ y.id \notin DOMAIN d
  BY <1>1, <1>2, <1>4, <1>9 DEF Apart
<1>14. \A y, z \in points : y.id = z.id => y = z
  BY <1>1, <1>4, <1>9 DEF Apart
<1>15. Typed(e, b, n)
  <2>1. e = [q \in DOMAIN e |-> d[q]] /\ DOMAIN e \subseteq DOMAIN d
    BY DEF e, Without
  <2>2. b = [m \in DOMAIN b |-> a[m]] /\ DOMAIN b \subseteq DOMAIN c
    BY DEF b, a, Without
  <2>3. e \in [DOMAIN e -> Points]
    BY <1>2, <2>1
  <2>4. b \in [DOMAIN b -> Clusters]
    BY <1>8, <2>2
  <2>. QED
    BY <1>1, <1>2, <1>7, <2>1, <2>2, <2>3, <2>4 DEF Typed
<1>16. Apart(e, b)
  BY <1>1, <1>7, <1>8 DEF Apart
<1>17. Dense(b, n)
  <2>1. ASSUME NEW m \in DOMAIN b
        PROVE  /\ m < n /\ IsFiniteSet(b[m].members) /\ Cardinality(b[m].members) > K
               /\ \A y \in b[m].members : WithinHalfR(y.pos, b[m].center)
    <3>1. m \in DOMAIN c /\ m \notin ms /\ b[m].members = rest(m) /\ b[m].center = c[m].center
      BY <1>8
    <3>. DEFINE r == rest(m)
    <3>2. /\ m < n /\ IsFiniteSet(c[m].members) /\ Cardinality(c[m].members) > K
          /\ \A y \in c[m].members : WithinHalfR(y.pos, c[m].center)
      BY <1>1, <3>1 DEF Dense
    <3>3. r \subseteq c[m].members /\ IsFiniteSet(r) /\ Cardinality(r) \in Nat
      BY <3>2, FS_Subset, FS_CardinalityType
    <3>4. Cardinality(r) > K
      <4>1. CASE \E y \in c[m].members : y.id \in expired
        <5>1. ~ (Cardinality(r) <= K)
          BY <3>1, <4>1 DEF ms, Shrunk
        <5>. QED
          BY <3>3, <5>1, Threshold
      <4>2. CASE \A y \in c[m].members : y.id \notin expired
        <5>1. r = c[m].members
          BY <4>2
        <5>. QED
          BY <3>2, <5>1
      <4>. QED
        BY <4>1, <4>2
    <3>. QED
      BY <3>1, <3>2, <3>3, <3>4
  <2>. QED
    BY <2>1 DEF Dense
<1>18. Remembers(e, b)
  BY <1>1, <1>7, <1>8 DEF Remembers
<1>19. Held(e, b) \subseteq Y
  BY <1>10, <1>12 DEF Held
<1>20. Informed(e, b, ids, Y, hi)
  <2>1. ASSUME NEW q \in DOMAIN e PROVE q \notin ids /\ Knows(e[q], Y, hi)
    <3>1. q \in DOMAIN d /\ e[q] = d[q] /\ q \notin expired /\ q \in Nat
      BY <1>2, <1>7
    <3>2. Knows(d[q], X, lo)
      BY <1>1, <3>1 DEF Informed
    <3>3. d[q] \in All(d, c) /\ d[q].id \notin expired
      BY <1>2, <3>1
    <3>4. Knows(d[q], Y, hi)
      BY <1>10, <3>2, <3>3
    <3>5. q \notin ids
      BY <1>13, <3>1
    <3>. QED
      BY <3>1, <3>4, <3>5
  <2>. QED
    BY <2>1 DEF Informed
<1>21. \A y \in All(e, b) : Earned(y, Y)
  BY <1>10, <1>12
<1>. HIDE DEF ids
<1>22. Sound(e, b, n, ids, Y, hi)
  BY <1>11, <1>15, <1>16, <1>17, <1>18, <1>19, <1>20, <1>21 DEF Sound
<1>23. SoundState(t, ids, Y, hi) /\ HeldBy(t) = Held(e, b)
  BY <1>6, <1>22 DEF SoundState, Shaped, HeldBy
<1>24. Y \subseteq Held(e, b) \cup {Elem(y) : y \in points}
  <2>1. ASSUME NEW f \in Y PROVE f \in Held(e, b) \cup {Elem(y) : y \in points}
    <3>1. f \in X /\ f.id >= hi
      BY DEF Y, From
    <3>2. PICK y \in All(d, c) : f = Elem(y)
      BY <1>1, <3>1 DEF Held
    <3>3. y \in Points /\ y.id \in Nat /\ (y.id \in expired <=> y.id < hi) /\ f.id = y.id
      BY <1>3, <3>2 DEF Points, Elem
    <3>4. y.id \notin expired
      BY <3>1, <3>3
    <3>5. CASE \E q \in DOMAIN d : y = d[q]
      <4>1. PICK q \in DOMAIN d : y = d[q]
        BY <3>5
      <4>2. q \in DOMAIN e /\ e[q] = y
        BY <1>2, <1>7, <3>4, <4>1
      <4>3. Elem(e[q]) \in Held(e, b)
        BY <4>2, HeldIs
      <4>. QED
        BY <3>2, <4>2, <4>3
    <3>6. CASE \E m \in DOMAIN c : y \in c[m].members
      <4>1. PICK m \in DOMAIN c : y \in c[m].members
        BY <3>6
      <4>2. y \in rest(m)
        BY <3>4, <4>1
      <4>3. CASE m \in ms
        <5>1. y \in points
          BY <1>9, <4>2, <4>3
        <5>. QED
          BY <3>2, <5>1
      <4>4. CASE m \notin ms
        <5>1. m \in DOMAIN b /\ y \in b[m].members
          BY <1>8, <4>2, <4>4
        <5>2. Elem(y) \in Held(e, b)
          BY <5>1, HeldIs
        <5>. QED
          BY <3>2, <5>2
      <4>. QED
        BY <4>3, <4>4
    <3>. QED
      BY <3>2, <3>5, <3>6, HeldIs
  <2>. QED
    BY <2>1
<1>25. ASSUME NEW y \in points, NEW f \in Held(e, b) PROVE f.id # y.id
  <2>1. PICK z \in All(e, b) : f = Elem(z)
    BY HeldIs
  <2>2. f.id = z.id
    BY <2>1 DEF Elem
  <2>3. CASE \E q \in DOMAIN e : z = e[q]
    BY <1>2, <1>7, <1>13, <2>2, <2>3
  <2>4. CASE \E m \in DOMAIN b : z \in b[m].members
    <3>1. PICK m \in DOMAIN b : z \in b[m].members
      BY <2>4
    <3>2. m \in DOMAIN c /\ m \notin ms /\ z \in c[m].members
      BY <1>8, <3>1
    <3>3. PICK k \in ms : y \in c[k].members
      BY <1>9
    <3>4. k \in DOMAIN c /\ k # m
      BY <1>4, <3>2
    <3>5. y.id # z.id
      BY <1>1, <3>2, <3>3, <3>4 DEF Apart
    <3>. QED
      BY <2>2, <3>5
  <2>. QED
    BY <2>1, <2>3, <2>4, HeldIs
<1>26. Missing(points, ids, t, Y)
  <2>1. Y = Held(e, b) \cup {Elem(y) : y \in points}
    BY <1>10, <1>13, <1>19, <1>24
  <2>2. \A y \in points : y \in Points /\ Earned(y, Y)
    BY <1>10, <1>13
  <2>. QED
    BY <1>14, <1>23, <1>25, <2>1, <2>2 DEF Missing, ids
<1>27. SoundState(Dissolve(x, ms), Nat, Y, hi) /\ HeldBy(Dissolve(x, ms)) = Y
  BY <1>23, <1>26, DissolveFacts DEF t, points
<1>. QED
  BY <1>27 DEF x, ms, Y


--------------------------------------------------------------------------------
(* The slides. *)

\* Between slides the state holds the points still in the window, and each point of PD
\* has counted its neighbours among them.
SlideInv ==
  /\ end \in Nat
  /\ Windowed(elements, 0) /\ \A e \in elements : e.id < end
  /\ SoundState(State, Nat, Active, end - Window + SlideStep) /\ HeldBy(State) = Active

LEMMA Steps == SlideStep \in Nat \ {0} /\ Window \in Nat \ {0} /\ SlideStep <= Window
<1>1. /\ SlideStep \in Nat \ {0} /\ Window \in Nat \ {0} /\ Window % SlideStep = 0
  BY McodAssumption
<1>2. ASSUME Window < SlideStep PROVE Window % SlideStep = Window
  BY <1>1, <1>2
<1>. QED
  BY <1>1, <1>2

\* The points a slide brings.
LEMMA ElementsFacts ==
  ASSUME NEW arrival \in Arrivals, NEW from \in Nat
  PROVE  /\ Elements(arrival, from) \subseteq Seen /\ Named(Elements(arrival, from))
         /\ \A e \in Elements(arrival, from) : e.id >= from /\ e.id < from + SlideStep
<1>1. arrival \in Seq(Positions) /\ Len(arrival) <= SlideStep /\ Len(arrival) \in Nat
      /\ DOMAIN arrival = 1..Len(arrival)
  BY McodAssumption
<1>2. SlideStep \in Nat
  BY Steps
<1>3. ASSUME NEW e \in Elements(arrival, from)
      PROVE  /\ e \in Seen /\ e.id >= from /\ e.id < from + SlideStep
             /\ e.pos = arrival[e.id - from + 1]
  <2>1. PICK i \in DOMAIN arrival : e = [id |-> from + i - 1, pos |-> arrival[i]]
    BY DEF Elements
  <2>2. i \in Nat /\ i >= 1 /\ i <= SlideStep /\ arrival[i] \in Positions
    BY <1>1, <1>2
  <2>3. e.id = from + i - 1 /\ e.pos = arrival[i] /\ from + i - 1 \in Nat
    BY <2>1, <2>2
  <2>4. e \in Seen
    BY <2>1, <2>2, <2>3 DEF Seen
  <2>5. e.id - from + 1 = i
    BY <2>2, <2>3
  <2>. QED
    BY <1>2, <2>2, <2>3, <2>4, <2>5
<1>4. Named(Elements(arrival, from))
  <2>1. ASSUME NEW e \in Elements(arrival, from), NEW f \in Elements(arrival, from), e.id = f.id
        PROVE  e = f
    <3>1. e.pos = f.pos
      BY <1>3, <2>1
    <3>. QED
      BY <1>3, <2>1, <3>1 DEF Seen
  <2>. QED
    BY <2>1 DEF Named
<1>. QED
  BY <1>3, <1>4

LEMMA EmptyFacts ==
  ASSUME NEW lo \in Int
  PROVE  SoundState(EmptyState, Nat, {}, lo) /\ HeldBy(EmptyState) = {}
<1>. DEFINE d == EmptyState.pd
            c == EmptyState.mc
            none == {}
<1>1. /\ d = <<>> /\ c = <<>> /\ EmptyState.counter = 1
      /\ EmptyState = [pd |-> d, mc |-> c, counter |-> 1]
  BY DEF EmptyState
<1>2. DOMAIN <<>> = {} /\ <<>> \in [{} -> Points] /\ <<>> \in [{} -> Clusters]
  OBVIOUS
<1>3. DOMAIN d = {} /\ DOMAIN c = {} /\ d \in [{} -> Points] /\ c \in [{} -> Clusters]
  BY <1>1, <1>2
<1>. HIDE DEF d, c
<1>4. All(d, c) = {} /\ Held(d, c) = {}
  BY <1>3 DEF All, Held
<1>5. Windowed({}, lo)
  BY FS_EmptySet DEF Windowed
<1>6. Sound(d, c, 1, Nat, {}, lo)
  BY <1>3, <1>4, <1>5 DEF Sound, Typed, Apart, Dense, Remembers, Informed
<1>. QED
  BY <1>1, <1>4, <1>6 DEF SoundState, Shaped, HeldBy, d, c

\* processSlide, over a state that holds the points old.
LEMMA ProcessFacts ==
  ASSUME end \in Nat, NEW s, NEW old, NEW arrival \in Arrivals,
         SoundState(s, Nat, old, end + SlideStep - Window), HeldBy(s) = old,
         \A e \in old : e.id < end,
         ProcessSlide(s, old, arrival)
  PROVE  SlideInv' /\ reported' = Naive!Outliers(elements')
<1>. DEFINE lo == end + SlideStep - Window
            hi == lo + SlideStep
            new == Elements(arrival, end)
            X == old \cup new
            full == InsertAll(s, new, end, end + SlideStep)
            expired == {e.id : e \in {x \in X : x.id < hi}}
            final == Dissolve(Expire(full, expired), Shrunk(full, expired))
<1>1. /\ end' = end + SlideStep /\ elements' = X
      /\ reported' = Reported(full, lo)
      /\ pd' = final.pd /\ mc' = final.mc /\ mcCounter' = final.counter
  BY DEF ProcessSlide
<1>2. /\ lo \in Int /\ hi \in Int /\ lo <= hi /\ lo <= end
      /\ end + SlideStep \in Nat /\ end <= end + SlideStep
      /\ (end + SlideStep) - Window + SlideStep = hi
  BY Steps
<1>3. /\ new \in SUBSET Seen /\ Named(new)
      /\ \A e \in new : e.id >= end /\ e.id < end + SlideStep
  BY ElementsFacts
<1>4. Windowed(old, lo)
  BY DEF SoundState, Sound
<1>5. \A e \in new : e.id >= end /\ e.id < end + SlideStep /\ \A x \in old : x.id # e.id
  <2>1. \A e \in new, x \in old : e.id \in Nat /\ x.id \in Nat /\ x.id < end /\ e.id >= end
    BY <1>3, <1>4 DEF Seen, Windowed
  <2>. QED
    BY <1>3, <2>1
<1>. DEFINE b == end + SlideStep
<1>6. SoundState(full, Nat, X, lo) /\ HeldBy(full) = X
  <2>1. b \in Int /\ end \in Int /\ end <= b
    BY <1>2
  <2>. HIDE DEF lo, new
  <2>2. Comes(new, old, end, b)
    BY <1>3, <1>5 DEF Comes
  <2>3. Fills(s, old, lo)
    BY DEF lo, Fills
  <2>. HIDE DEF b
  <2>4. Fills(InsertAll(s, new, end, b), old \cup new, lo)
    BY <1>2, <2>1, <2>2, <2>3, InsertAllFacts
  <2>. QED
    BY <2>4 DEF b, Fills
<1>7. reported' = Naive!Outliers(X)
  <2>. HIDE DEF full, X, lo
  <2>. QED
    BY <1>1, <1>2, <1>6, ReportedFacts
<1>8. SoundState(final, Nat, From(X, hi), hi) /\ HeldBy(final) = From(X, hi)
  <2>1. expired = {e.id : e \in {x \in X : x.id < hi}}
    OBVIOUS
  <2>. HIDE DEF full, X, lo, hi, expired
  <2>. QED
    BY <1>2, <1>6, <2>1, ExpireFacts
<1>. HIDE DEF final
<1>9. State' = final
  <2>1. State' = [pd |-> pd', mc |-> mc', counter |-> mcCounter']
    BY DEF State
  <2>2. final = [pd |-> final.pd, mc |-> final.mc, counter |-> final.counter]
    BY <1>8 DEF SoundState, Shaped
  <2>. QED
    BY <1>1, <2>1, <2>2
<1>10. Active' = From(X, hi) /\ end' - Window + SlideStep = hi
  <2>. HIDE DEF X, hi
  <2>. QED
    BY <1>1, <1>2 DEF Active, From
<1>11. Windowed(X, 0) /\ \A e \in X : e.id < end'
  <2>1. Windowed(X, lo)
    BY <1>6 DEF SoundState, Sound
  <2>2. \A e \in X : e.id \in Nat /\ e.id >= 0
    BY <2>1 DEF Windowed, Seen
  <2>3. Windowed(X, 0)
    BY <2>1, <2>2 DEF Windowed
  <2>4. ASSUME NEW e \in X PROVE e.id < end'
    <3>1. e.id \in Nat /\ (e.id < end \/ e.id < end + SlideStep)
      BY <1>3, <2>2
    <3>. QED
      BY <1>1, <1>2, <3>1, Steps
  <2>. QED
    BY <2>3, <2>4
<1>12. SlideInv'
  <2>1. /\ SoundState(State', Nat, Active', end' - Window + SlideStep)
        /\ HeldBy(State') = Active'
    BY <1>8, <1>9, <1>10
  <2>2. end' \in Nat /\ Windowed(elements', 0) /\ \A e \in elements' : e.id < end'
    BY <1>1, <1>2, <1>11
  <2>. QED
    BY <2>1, <2>2 DEF SlideInv
<1>. QED
  BY <1>1, <1>7, <1>12

\* The window's points, at new positions.
LEMMA RescaledFacts ==
  ASSUME NEW X \in SUBSET Seen, Named(X)
  PROVE  /\ Rescaled(X) \in SUBSET Seen /\ Named(Rescaled(X))
         /\ \A e \in Rescaled(X) : \E f \in X : e.id = f.id
<1>1. Rescale \in [Positions -> Positions]
  BY McodAssumption
<1>2. ASSUME NEW e \in X
      PROVE  [e EXCEPT !.pos = Rescale[@]] = [id |-> e.id, pos |-> Rescale[e.pos]]
  BY DEF Seen
<1>3. Rescaled(X) = {[id |-> e.id, pos |-> Rescale[e.pos]] : e \in X}
  <2>. DEFINE A(e) == [e EXCEPT !.pos = Rescale[@]]
              B(e) == [id |-> e.id, pos |-> Rescale[e.pos]]
  <2>1. \A e \in X : A(e) = B(e)
    BY <1>2
  <2>2. Rescaled(X) = {A(e) : e \in X}
    BY DEF Rescaled
  <2>. HIDE DEF A, B
  <2>3. {A(e) : e \in X} = {B(e) : e \in X}
    BY <2>1
  <2>. QED
    BY <2>2, <2>3 DEF B
<1>4. \A e \in X : e.id \in Nat /\ Rescale[e.pos] \in Positions
  BY <1>1 DEF Seen
<1>. QED
  BY <1>3, <1>4 DEF Seen, Named

LEMMA SlideFacts ==
  ASSUME SlideInv, NEW arrival \in Arrivals, Slide(arrival) \/ SwitchAndSlide(arrival)
  PROVE  SlideInv' /\ reported' = Naive!Outliers(elements')
<1>. DEFINE lo == end + SlideStep - Window
            old == InWindow(elements, lo)
<1>1. /\ end \in Nat /\ lo \in Int /\ lo <= end /\ end - Window + SlideStep = lo
      /\ Windowed(elements, 0) /\ \A e \in elements : e.id < end
  BY Steps DEF SlideInv
<1>2. old = Active
  BY <1>1 DEF InWindow, Active
<1>3. CASE Slide(arrival)
  <2>1. SoundState(State, Nat, old, lo) /\ HeldBy(State) = old
    BY <1>1, <1>2 DEF SlideInv
  <2>2. ProcessSlide(State, old, arrival)
    BY <1>3 DEF Slide
  <2>3. \A e \in old : e.id < end
    BY <1>1 DEF InWindow
  <2>. HIDE DEF old
  <2>. QED
    BY <1>1, <2>1, <2>2, <2>3, ProcessFacts
<1>4. CASE SwitchAndSlide(arrival)
  <2>. DEFINE refill == Rescaled(old)
              s == InsertAll(EmptyState, refill, lo, end)
  <2>1. old \in SUBSET Seen /\ Named(old) /\ \A e \in old : e.id >= lo /\ e.id < end
    BY <1>1 DEF InWindow, Windowed, Named
  <2>2. ProcessSlide(s, refill, arrival)
    BY <1>4 DEF SwitchAndSlide
  <2>. HIDE DEF old, lo
  <2>3. /\ refill \in SUBSET Seen /\ Named(refill) /\ \A e \in refill : \E f \in old : e.id = f.id
    BY <2>1, RescaledFacts
  <2>4. \A e \in refill : e.id >= lo /\ e.id < end
    BY <2>1, <2>3
  <2>. DEFINE none == {}
  <2>5. Fills(EmptyState, none, lo)
    BY <1>1, EmptyFacts DEF Fills
  <2>6. Comes(refill, none, lo, end)
    BY <2>3, <2>4 DEF Comes
  <2>7. none \cup refill = refill
    OBVIOUS
  <2>. HIDE DEF none, refill
  <2>8. Fills(s, none \cup refill, lo)
    <3>1. end \in Int
      BY <1>1
    <3>. QED
      BY <1>1, <2>5, <2>6, <3>1, InsertAllFacts
  <2>9. SoundState(s, Nat, refill, lo) /\ HeldBy(s) = refill
    BY <2>7, <2>8 DEF Fills
  <2>. HIDE DEF s
  <2>. QED
    BY <1>1, <2>2, <2>4, <2>9, ProcessFacts DEF lo
<1>. QED
  BY <1>3, <1>4


--------------------------------------------------------------------------------
(* Theorems. *)

LEMMA SlideInvInit == Init => SlideInv
<1>. SUFFICES ASSUME Init PROVE SlideInv
  OBVIOUS
<1>1. end = 0 /\ elements = {} /\ State = EmptyState
  BY DEF Init, State, EmptyState
<1>2. Active = {} /\ 0 - Window + SlideStep \in Int
  BY <1>1, Steps DEF Active
<1>3. SoundState(EmptyState, Nat, {}, 0 - Window + SlideStep) /\ HeldBy(EmptyState) = {}
  BY <1>2, EmptyFacts
<1>4. Windowed({}, 0)
  BY FS_EmptySet DEF Windowed
<1>. QED
  BY <1>1, <1>2, <1>3, <1>4 DEF SlideInv

LEMMA SlideInvStep == SlideInv /\ [Next]_vars => SlideInv'
<1>. SUFFICES ASSUME SlideInv, [Next]_vars PROVE SlideInv'
  OBVIOUS
<1>1. CASE Next
  <2>1. PICK arrival \in Arrivals : Slide(arrival) \/ SwitchAndSlide(arrival)
    BY <1>1 DEF Next
  <2>. QED
    BY <2>1, SlideFacts
<1>2. CASE UNCHANGED vars
  <2>1. State' = State /\ Active' = Active /\ end' = end /\ elements' = elements
    BY <1>2 DEF vars, State, Active
  <2>. QED
    BY <2>1 DEF SlideInv
<1>. QED
  BY <1>1, <1>2

\* Between slides the state is sound.
THEOREM McodInvariant == Spec => []SlideInv
  BY SlideInvInit, SlideInvStep, PTL DEF Spec

LEMMA SlideInvFacts ==
  ASSUME SlideInv
  PROVE  /\ Typed(pd, mc, mcCounter) /\ Apart(pd, mc) /\ Dense(mc, mcCounter)
         /\ Held(pd, mc) = Active /\ Windowed(Active, end - Window + SlideStep)
         /\ \A x \in All(pd, mc) : Earned(x, Active)
<1>1. State.pd = pd /\ State.mc = mc /\ State.counter = mcCounter
  BY DEF State
<1>. QED
  BY <1>1 DEF SlideInv, SoundState, Sound, HeldBy

\* Between slides, PD and the micro-clusters hold each point still in the window
\* exactly once, where it is: whatever insertions, expiries, dissolutions and switches
\* of parameters there have been.
THEOREM McodStateIsWindow == Spec => []StateIsWindow
<1>1. SlideInv => StateIsWindow
  <2>. SUFFICES ASSUME SlideInv PROVE StateIsWindow
    OBVIOUS
  <2>. DEFINE A == {[id |-> q, pos |-> pd[q].pos] : q \in DOMAIN pd}
              B == {[id |-> x.id, pos |-> x.pos] : x \in UNION {mc[m].members : m \in DOMAIN mc}}
  <2>1. /\ Typed(pd, mc, mcCounter) /\ Apart(pd, mc) /\ Held(pd, mc) = Active
    BY SlideInvFacts
  <2>2. A = {Elem(pd[q]) : q \in DOMAIN pd}
    BY <2>1 DEF Typed, Elem
  <2>3. B = {Elem(x) : x \in UNION {mc[m].members : m \in DOMAIN mc}}
    BY DEF Elem
  <2>. HIDE DEF A, B
  <2>4. Held(pd, mc) = A \cup B
    BY <2>2, <2>3 DEF Held, All
  <2>. QED
    BY <2>1, <2>4 DEF StateIsWindow, Apart, A, B
<1>. QED
  BY <1>1, McodInvariant, PTL

\* Micro-clusters keep more than K members, all within R/2 of the center.
THEOREM McodClustersAreDense == Spec => []ClustersAreDense
<1>1. SlideInv => ClustersAreDense
  BY SlideInvFacts DEF Dense, ClustersAreDense
<1>. QED
  BY <1>1, McodInvariant, PTL

\* A point of PD that is marked safe has K neighbours in the window that arrived after
\* it, and so outlive it.
THEOREM McodSafeIsEarned == Spec => []SafeIsEarned
<1>1. SlideInv => SafeIsEarned
  <2>. SUFFICES ASSUME SlideInv, NEW q \in DOMAIN pd, pd[q].safe
                PROVE  Cardinality({e \in Active : e.id > q /\ WithinR(e.pos, pd[q].pos)}) >= K
    BY DEF SafeIsEarned
  <2>. DEFINE p == pd[q]
              S == {e \in Active : e.id > q /\ WithinR(e.pos, p.pos)}
  <2>1. /\ p \in Points /\ p.id = q /\ p \in All(pd, mc) /\ p.pos \in Positions
        /\ Windowed(Active, end - Window + SlideStep) /\ Earned(p, Active)
    BY SlideInvFacts, HeldIs DEF Typed, Points
  <2>2. Active \subseteq Seen /\ IsFiniteSet(Active) /\ \A e, f \in Active : e.id = f.id => e = f
    BY <2>1 DEF Windowed
  <2>3. \A e \in Active : WithinR(e.pos, p.pos) = WithinR(p.pos, e.pos)
    BY <2>1, <2>2, Metric DEF Seen
  <2>4. Later(p.id, p.pos, Active) = {e.id : e \in S}
    BY <2>1, <2>3 DEF Later
  <2>5. IsFiniteSet(S) /\ \A e, f \in S : e.id = f.id => e = f
    BY <2>2, FS_Subset
  <2>. HIDE DEF S
  <2>6. Cardinality({e.id : e \in S}) = Cardinality(S)
    BY <2>5, NamesCount
  <2>7. Cardinality(Later(p.id, p.pos, Active)) >= K
    BY <2>1 DEF Earned
  <2>. QED
    BY <2>4, <2>6, <2>7 DEF S
<1>. QED
  BY <1>1, McodInvariant, PTL

\* McodCore reports exactly the outliers of the naive detector, which counts the
\* neighbours of every point of every window: for every metric, radius, threshold,
\* window and sequence of arrivals, and over every switch of parameters.
THEOREM McodFindsNaiveOutliers == Spec => NaiveSpec
<1>1. Init => Naive!Init
  BY DEF Init, Naive!Init
<1>2. SlideInv /\ [Next]_vars => [Naive!Next]_<<elements, reported>>
  <2>. SUFFICES ASSUME SlideInv, [Next]_vars PROVE [Naive!Next]_<<elements, reported>>
    OBVIOUS
  <2>1. CASE Next
    <3>1. PICK arrival \in Arrivals : Slide(arrival) \/ SwitchAndSlide(arrival)
      BY <2>1 DEF Next
    <3>2. reported' = Naive!Outliers(elements')
      BY <3>1, SlideFacts
    <3>. QED
      BY <3>2 DEF Naive!Next
  <2>2. CASE UNCHANGED vars
    BY <2>2 DEF vars
  <2>. QED
    BY <2>1, <2>2
<1>. QED
  BY <1>1, <1>2, McodInvariant, PTL DEF Spec, NaiveSpec, Naive!Spec

===============================================================================
