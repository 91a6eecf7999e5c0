----------------------------- MODULE ListProofs -----------------------------
(***************************************************************************)
(* Lemmas about the operators the models share: induction over the         *)
(* naturals as the choice of a least counterexample, and what Only keeps.  *)
(***************************************************************************)
EXTENDS Lists, WellFoundedInduction, SequenceTheorems, TLAPS

\* Every set of naturals has a least element.
LEMMA LeastNatural ==
    ASSUME NEW N, N \subseteq Nat, N # {}
    PROVE  \E x \in N : \A y \in N : x <= y
<1>1. IsWellFoundedOn(OpToRel(<,Nat), Nat) BY NatLessThanWellFounded
<1>2. PICK x \in N : \A y \in N : ~(<<y, x>> \in OpToRel(<,Nat)) BY <1>1, WFMin
<1>3. \A y \in N : ~(y < x) BY <1>2 DEF OpToRel
<1>4. \A y \in N : x <= y BY <1>3
<1> QED BY <1>4

\* A set of naturals that has, with every element but 0, the one before it,
\* has nothing it could begin with other than 0.
LEMMA NoLeast ==
    ASSUME NEW N, N \subseteq Nat, 0 \notin N,
           \A n \in N : n > 0 => n - 1 \in N
    PROVE  N = {}
<1> SUFFICES ASSUME N # {} PROVE FALSE
  OBVIOUS
<1>1. PICK n \in N : \A m \in N : n <= m BY LeastNatural
<1>2. n \in Nat /\ n > 0 /\ n - 1 \in N BY <1>1
<1> QED BY <1>1, <1>2

-----------------------------------------------------------------------------
(* The recursive function behind Only *)

KeptAt(k, s, S, i) ==
    IF i = 0 THEN <<>> ELSE IF s[i] \in S THEN Append(k[i - 1], s[i]) ELSE k[i - 1]

Keeps(k, s, S, n, T) ==
    /\ k \in [0..n -> Seq(T)]
    /\ \A i \in 0..n : k[i] = KeptAt(k, s, S, i)

\* A function that satisfies the recursion exists, for every length.
LEMMA KeptExists ==
    ASSUME NEW T, NEW S, NEW s \in Seq(T)
    PROVE  \E k : Keeps(k, s, S, Len(s), T)
<1> DEFINE Defined(n) == \E k : Keeps(k, s, S, n, T)
           Bad == {n \in 0..Len(s) : ~Defined(n)}
<1>0. Len(s) \in Nat /\ \A n \in 0..Len(s) : n > 0 => s[n] \in T OBVIOUS
<1>1. Defined(0)
  <2> DEFINE k == [i \in 0..0 |-> <<>>]
  <2>1. Keeps(k, s, S, 0, T) BY DEF Keeps, KeptAt
  <2> QED BY <2>1
<1>2. ASSUME NEW n \in 0..Len(s), n > 0, Defined(n - 1) PROVE Defined(n)
  <2>0. PICK k : Keeps(k, s, S, n - 1, T) BY <1>2
  <2>1. k \in [0..n - 1 -> Seq(T)] /\ \A i \in 0..n - 1 : k[i] = KeptAt(k, s, S, i)
    BY <2>0 DEF Keeps
  <2> DEFINE x == KeptAt(k, s, S, n)
             l == [i \in 0..n |-> IF i = n THEN x ELSE k[i]]
  <2>2. x \in Seq(T) BY <1>0, <1>2, <2>1 DEF KeptAt
  <2> HIDE DEF x
  <2>3. l \in [0..n -> Seq(T)] BY <1>2, <2>1, <2>2
  <2>4. ASSUME NEW i \in 0..n PROVE l[i] = KeptAt(l, s, S, i)
    <3>1. i > 0 => l[i - 1] = k[i - 1] BY <1>2
    <3>2. KeptAt(l, s, S, i) = KeptAt(k, s, S, i) BY <3>1 DEF KeptAt
    <3>3. CASE i = n BY <3>2, <3>3 DEF x
    <3>4. CASE i # n
      <4>1. i \in 0..n - 1 /\ l[i] = k[i] BY <1>2, <3>4
      <4> QED BY <2>1, <3>2, <4>1
    <3> QED BY <3>3, <3>4
  <2> HIDE DEF l
  <2>5. Keeps(l, s, S, n, T) BY <2>3, <2>4 DEF Keeps
  <2> QED BY <2>5
<1> HIDE DEF Defined
<1>3. Bad = {}
  <2>1. Bad \subseteq Nat /\ 0 \notin Bad BY <1>1
  <2>2. \A n \in Bad : n > 0 => n - 1 \in Bad BY <1>0, <1>2
  <2> QED BY <2>1, <2>2, NoLeast
<1>4. Defined(Len(s)) BY <1>0, <1>3
<1> QED BY <1>4 DEF Defined

\* So Kept satisfies it.
LEMMA KeptDef ==
    ASSUME NEW T, NEW S, NEW s \in Seq(T)
    PROVE  \A i \in 0..Len(s) : Kept(s, S)[i] = KeptAt(Kept(s, S), s, S, i)
<1>1. PICK k : Keeps(k, s, S, Len(s), T) BY KeptExists
<1> DEFINE E(f) == [n \in 0..Len(s) |-> IF n = 0 THEN <<>>
                      ELSE IF s[n] \in S THEN Append(f[n - 1], s[n]) ELSE f[n - 1]]
<1>2. k = E(k) BY <1>1 DEF Keeps, KeptAt
<1>3. Kept(s, S) = CHOOSE g : g = E(g) BY DEF Kept
<1>4. Kept(s, S) = E(Kept(s, S)) BY <1>2, <1>3
<1> QED BY <1>4 DEF KeptAt

\* A longer sequence keeps the same of its beginning.
LEMMA KeptPrefix ==
    ASSUME NEW T, NEW S, NEW s \in Seq(T), NEW t \in Seq(T), Len(s) <= Len(t),
           \A i \in 1..Len(s) : t[i] = s[i]
    PROVE  \A i \in 0..Len(s) : Kept(t, S)[i] = Kept(s, S)[i]
<1> DEFINE Bad == {i \in 0..Len(s) : Kept(t, S)[i] # Kept(s, S)[i]}
<1>0. Len(s) \in Nat /\ Len(t) \in Nat OBVIOUS
<1>1. \A i \in 0..Len(s) : /\ Kept(s, S)[i] = KeptAt(Kept(s, S), s, S, i)
                           /\ Kept(t, S)[i] = KeptAt(Kept(t, S), t, S, i)
  BY <1>0, KeptDef
<1>2. 0 \notin Bad BY <1>0, <1>1 DEF KeptAt
<1>3. ASSUME NEW i \in Bad, i > 0 PROVE i - 1 \in Bad
  <2>1. i \in 1..Len(s) /\ i - 1 \in 0..Len(s) /\ t[i] = s[i] BY <1>0, <1>3
  <2> QED BY <1>1, <2>1 DEF KeptAt
<1>4. Bad = {}
  <2>1. Bad \subseteq Nat OBVIOUS
  <2> HIDE DEF Bad
  <2> QED BY <1>2, <1>3, <2>1, NoLeast
<1> QED BY <1>4

-----------------------------------------------------------------------------
(* What Only keeps *)

\* One element more.
LEMMA OnlyAppend ==
    ASSUME NEW T, NEW S, NEW s \in Seq(T), NEW x \in T
    PROVE  Only(Append(s, x), S) = IF x \in S THEN Append(Only(s, S), x) ELSE Only(s, S)
<1> DEFINE t == Append(s, x)
<1>1. /\ t \in Seq(T) /\ Len(t) = Len(s) + 1 /\ t[Len(s) + 1] = x /\ Len(s) \in Nat
      /\ \A i \in 1..Len(s) : t[i] = s[i]
  OBVIOUS
<1> HIDE DEF t
<1>2. Kept(t, S)[Len(s)] = Kept(s, S)[Len(s)] BY <1>1, KeptPrefix
<1>3. Kept(t, S)[Len(t)] = KeptAt(Kept(t, S), t, S, Len(t)) BY <1>1, KeptDef
<1>4. Kept(t, S)[Len(t)] = IF x \in S THEN Append(Kept(s, S)[Len(s)], x) ELSE Kept(s, S)[Len(s)]
  BY <1>1, <1>2, <1>3 DEF KeptAt
<1> QED BY <1>4 DEF Only, t

\* Of nothing, nothing.
LEMMA OnlyEmpty == ASSUME NEW S PROVE Only(<<>>, S) = <<>>
<1>1. <<>> \in Seq({}) /\ Len(<<>>) = 0 /\ 0 \in 0..Len(<<>>) OBVIOUS
<1>2. \A i \in 0..Len(<<>>) : Kept(<<>>, S)[i] = KeptAt(Kept(<<>>, S), <<>>, S, i)
  BY <1>1, KeptDef, Zenon
<1> QED BY <1>1, <1>2 DEF Only, KeptAt

\* g says where in s the elements of r come from: in order, and all of those
\* in S are there.
Places(g, r, s, n, S) ==
    /\ g \in [1..Len(r) -> 1..n]
    /\ \A i, j \in 1..Len(r) : i < j => g[i] < g[j]
    /\ \A i \in 1..Len(r) : r[i] = s[g[i]] /\ s[g[i]] \in S
    /\ \A m \in 1..n : s[m] \in S => \E i \in 1..Len(r) : g[i] = m

\* Only keeps the elements in S, all of them, in their order.
LEMMA OnlyPlaces ==
    ASSUME NEW T, NEW S, NEW s \in Seq(T)
    PROVE  Only(s, S) \in Seq(T) /\ \E g : Places(g, Only(s, S), s, Len(s), S)
<1> DEFINE k == Kept(s, S)
           Good(n) == k[n] \in Seq(T) /\ \E g : Places(g, k[n], s, n, S)
           Bad == {n \in 0..Len(s) : ~Good(n)}
<1>0. Len(s) \in Nat /\ \A n \in 1..Len(s) : s[n] \in T OBVIOUS
<1>1. \A i \in 0..Len(s) : k[i] = KeptAt(k, s, S, i) BY KeptDef
<1> HIDE DEF k
<1>2. Good(0)
  <2>1. k[0] = <<>> BY <1>0, <1>1 DEF KeptAt
  <2>2. Places(<<>>, k[0], s, 0, S) BY <2>1 DEF Places
  <2> QED BY <2>1, <2>2
<1>3. ASSUME NEW n \in 0..Len(s), n > 0, Good(n - 1) PROVE Good(n)
  <2>1. n \in 1..Len(s) /\ n - 1 \in 0..Len(s) /\ s[n] \in T /\ n \in Nat BY <1>0, <1>3
  <2>2. k[n - 1] \in Seq(T) BY <1>3
  <2>3. PICK g : Places(g, k[n - 1], s, n - 1, S) BY <1>3
  <2>4. k[n] = IF s[n] \in S THEN Append(k[n - 1], s[n]) ELSE k[n - 1]
    BY <1>1, <2>1 DEF KeptAt
  <2>5. CASE s[n] \notin S
    <3>1. Places(g, k[n], s, n, S) BY <2>1, <2>2, <2>3, <2>4, <2>5 DEF Places
    <3> QED BY <2>2, <2>4, <2>5, <3>1
  <2>6. CASE s[n] \in S
    <3> DEFINE r == k[n - 1]
               h == [i \in 1..Len(r) + 1 |-> IF i = Len(r) + 1 THEN n ELSE g[i]]
    <3>1. /\ k[n] \in Seq(T) /\ Len(k[n]) = Len(r) + 1 /\ Len(r) \in Nat
          /\ k[n][Len(r) + 1] = s[n] /\ \A i \in 1..Len(r) : k[n][i] = r[i]
      BY <2>1, <2>2, <2>4, <2>6
    <3> HIDE DEF r
    <3>2. /\ g \in [1..Len(r) -> 1..n - 1]
          /\ \A i, j \in 1..Len(r) : i < j => g[i] < g[j]
          /\ \A i \in 1..Len(r) : r[i] = s[g[i]] /\ s[g[i]] \in S
          /\ \A m \in 1..n - 1 : s[m] \in S => \E i \in 1..Len(r) : g[i] = m
      BY <2>3 DEF Places, r
    <3>3. h \in [1..Len(r) + 1 -> 1..n] BY <2>1, <3>1, <3>2
    <3>4. ASSUME NEW i \in 1..Len(r) + 1, NEW j \in 1..Len(r) + 1, i < j PROVE h[i] < h[j]
      <4>1. i \in 1..Len(r) /\ h[i] = g[i] /\ g[i] \in 1..n - 1 BY <3>1, <3>2, <3>4
      <4>2. CASE j = Len(r) + 1 BY <2>1, <4>1, <4>2
      <4>3. CASE j # Len(r) + 1
        <5>1. j \in 1..Len(r) /\ h[j] = g[j] BY <3>1, <4>3
        <5> QED BY <3>2, <3>4, <4>1, <5>1
      <4> QED BY <4>2, <4>3
    <3>5. \A i \in 1..Len(r) + 1 : k[n][i] = s[h[i]] /\ s[h[i]] \in S
      BY <2>1, <2>6, <3>1, <3>2
    <3>6. ASSUME NEW m \in 1..n, s[m] \in S PROVE \E i \in 1..Len(r) + 1 : h[i] = m
      <4>1. CASE m = n
        <5>1. Len(r) + 1 \in 1..Len(r) + 1 /\ h[Len(r) + 1] = n BY <3>1
        <5> QED BY <4>1, <5>1
      <4>2. CASE m # n
        <5>1. PICK i \in 1..Len(r) : g[i] = m BY <2>1, <3>2, <3>6, <4>2
        <5>2. i \in 1..Len(r) + 1 /\ h[i] = m BY <3>1, <5>1
        <5> QED BY <5>2
      <4> QED BY <4>1, <4>2
    <3> HIDE DEF h
    <3>7. Places(h, k[n], s, n, S) BY <3>1, <3>3, <3>4, <3>5, <3>6 DEF Places
    <3> QED BY <3>1, <3>7
  <2> QED BY <2>5, <2>6
<1> HIDE DEF Good
<1>4. Bad = {}
  <2>1. Bad \subseteq Nat /\ 0 \notin Bad BY <1>2
  <2>2. \A n \in Bad : n > 0 => n - 1 \in Bad BY <1>0, <1>3
  <2> QED BY <2>1, <2>2, NoLeast
<1>5. Good(Len(s)) BY <1>0, <1>4
<1> QED BY <1>5 DEF Good, Only, k

-----------------------------------------------------------------------------
\* A strictly increasing sequence of naturals grows by one at least with every
\* step.
LEMMA IncreasingGap ==
    ASSUME NEW s \in Seq(Nat), \A i, j \in 1..Len(s) : i < j => s[i] < s[j]
    PROVE  \A i, j \in 1..Len(s) : i <= j => s[i] + (j - i) <= s[j]
<1> SUFFICES ASSUME NEW i \in 1..Len(s) PROVE \A j \in i..Len(s) : s[i] + (j - i) <= s[j]
  OBVIOUS
<1> DEFINE Bad == {d \in 0..Len(s) - i : ~(s[i] + d <= s[i + d])}
<1>0. Len(s) \in Nat /\ \A j \in 1..Len(s) : s[j] \in Nat OBVIOUS
<1>1. Bad \subseteq Nat /\ 0 \notin Bad BY <1>0
<1>2. ASSUME NEW d \in Bad, d > 0 PROVE d - 1 \in Bad
  <2> DEFINE k == i + (d - 1)
             m == i + d
  <2>0. d \in 0..Len(s) - i /\ ~(s[i] + d <= s[m]) OBVIOUS
  <2>1. d - 1 \in 0..Len(s) - i /\ k \in 1..Len(s) /\ m \in 1..Len(s) /\ k < m
    BY <1>0, <1>2, <2>0
  <2> HIDE DEF k, m
  <2>2. s[k] < s[m] BY <2>1
  <2>3. s[i] \in Nat /\ s[k] \in Nat /\ s[m] \in Nat BY <1>0, <2>1
  <2> HIDE DEF Bad
  <2>4. d \in Nat BY <1>0, <2>0
  <2>5. ~(s[i] + (d - 1) <= s[k]) BY <2>0, <2>2, <2>3, <2>4
  <2> QED BY <2>1, <2>5 DEF Bad, k
<1>3. Bad = {}
  <2> HIDE DEF Bad
  <2> QED BY <1>1, <1>2, NoLeast
<1>4. ASSUME NEW j \in i..Len(s) PROVE s[i] + (j - i) <= s[j]
  <2>1. j - i \in 0..Len(s) - i /\ i + (j - i) = j BY <1>0
  <2> QED BY <1>3, <2>1
<1> QED BY <1>4

=============================================================================
