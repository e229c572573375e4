------------------------------ MODULE LoopProofs ------------------------------
(***************************************************************************)
(* What the proofs need to know of loops over data of any length: induction *)
(* over the numbers, without an operator as a parameter; that what is       *)
(* defined by recursion over a set of numbers exists, which makes a fold    *)
(* what its steps say; and the list of a set of positions.                 *)
(***************************************************************************)
EXTENDS Positions, Sequences, FiniteSetsExt, FiniteSetTheorems, WellFoundedInduction, TLAPS

-----------------------------------------------------------------------------
(* Induction.                                                              *)

\* A set of numbers that is not empty has a least one.
LEMMA LeastNumber ==
  ASSUME NEW S, S \subseteq Nat, S # {}
  PROVE  \E n \in S : \A m \in S : n <= m
<1> DEFINE R == OpToRel(<, Nat)
<1>1. IsWellFoundedOn(R, Nat)
  BY NatLessThanWellFounded
<1>2. \A x, y \in S : y < x => <<y, x>> \in R
  BY DEF OpToRel
<1> HIDE DEF R
<1>3. PICK n \in S : \A m \in S : ~(<<m, n>> \in R)
  BY <1>1, WFMin
<1>4. SUFFICES ASSUME NEW m \in S PROVE n <= m
  OBVIOUS
<1>5. ~(m < n)
  BY <1>2, <1>3
<1>6. m \in Nat /\ n \in Nat
  OBVIOUS
<1> QED BY <1>5, <1>6

LEMMA LeastOf ==
  ASSUME NEW S, S \subseteq Nat, S # {}
  PROVE  Min(S) \in S /\ \A n \in S : Min(S) <= n
  BY LeastNumber DEF Min

\* What holds of 0 and of each next number holds of all.
LEMMA Induction ==
  ASSUME NEW T, 0 \in T, \A n \in Nat : n \in T => n + 1 \in T
  PROVE  Nat \subseteq T
<1> SUFFICES ASSUME Nat \ T # {} PROVE FALSE
  OBVIOUS
<1>1. PICK x \in Nat \ T : \A y \in Nat \ T : x <= y
  BY LeastNumber
<1>2. x \in Nat /\ x # 0 /\ x - 1 \in Nat /\ x - 1 + 1 = x /\ ~(x <= x - 1)
  <2>1. x # 0
    BY 0 \in T
  <2> QED
    BY <2>1
<1>3. x - 1 \in T
  BY <1>1, <1>2
<1> QED
  BY <1>2, <1>3

\* Induction that stops.
LEMMA InductionUpTo ==
  ASSUME NEW n \in Nat, NEW T, 0 \in T, \A k \in 1 .. n : k - 1 \in T => k \in T
  PROVE  0 .. n \subseteq T
<1> DEFINE U == {k \in Nat : k <= n => k \in T}
<1>1. 0 \in U
  OBVIOUS
<1>2. \A k \in Nat : k \in U => k + 1 \in U
  <2> SUFFICES ASSUME NEW k \in Nat, k \in T, k + 1 <= n PROVE k + 1 \in T
    OBVIOUS
  <2>1. k + 1 \in 1 .. n /\ k + 1 - 1 = k
    OBVIOUS
  <2> QED
    BY <2>1
<1>3. Nat \subseteq U
  <2> HIDE DEF U
  <2> QED
    BY <1>1, <1>2, Induction
<1> QED
  BY <1>3

\* A step can be taken any number of times.
Runs(S, init, step) ==
  {g \in [Nat -> S] : g[0] = init /\ \A n \in Nat : g[n+1] = step[<<n, g[n]>>]}

LEMMA Iterates ==
  ASSUME NEW S, NEW init \in S, NEW step \in [Nat \X S -> S]
  PROVE  Runs(S, init, step) # {}
<1> DEFINE IsUpTo(h, n) == /\ h \in [0 .. n -> S] /\ h[0] = init
                           /\ \A k \in 0 .. n-1 : h[k+1] = step[<<k, h[k]>>]
           Long == {n \in Nat : \E h \in [0 .. n -> S] : IsUpTo(h, n)}
<1>1. Nat \subseteq Long
  <2>1. 0 \in Long
    <3>1. IsUpTo([k \in 0 .. 0 |-> init], 0)
      OBVIOUS
    <3> QED
      BY <3>1
  <2>2. ASSUME NEW n \in Nat, n \in Long PROVE n + 1 \in Long
    <3>1. PICK h \in [0 .. n -> S] : IsUpTo(h, n)
      BY <2>2
    <3> DEFINE g == [k \in 0 .. n+1 |-> IF k = n + 1 THEN step[<<n, h[n]>>] ELSE h[k]]
    <3>2. step[<<n, h[n]>>] \in S
      BY <3>1
    <3>3. g \in [0 .. n+1 -> S]
      BY <3>1, <3>2
    <3>4. \A k \in 0 .. n : g[k] = h[k]
      OBVIOUS
    <3>5. g[n+1] = step[<<n, h[n]>>]
      OBVIOUS
    <3>6. \A k \in 0 .. n : g[k+1] = step[<<k, g[k]>>]
      <4> HIDE DEF g
      <4> SUFFICES ASSUME NEW k \in 0 .. n PROVE g[k+1] = step[<<k, g[k]>>]
        OBVIOUS
      <4>1. CASE k = n
        BY <4>1, <3>4, <3>5
      <4>2. CASE k # n
        <5>1. k \in 0 .. n-1 /\ k + 1 \in 0 .. n
          BY <4>2
        <5> QED
          BY <5>1, <3>1, <3>4
      <4> QED
        BY <4>1, <4>2
    <3>7. IsUpTo(g, n + 1)
      <4> HIDE DEF g
      <4> QED
        BY <3>1, <3>3, <3>4, <3>6
    <3> HIDE DEF g, IsUpTo
    <3> QED
      BY <3>3, <3>7
  <2> QED
    <3> HIDE DEF Long
    <3> QED
      BY <2>1, <2>2, Induction
<1> DEFINE up == [n \in Nat |-> CHOOSE h \in [0 .. n -> S] : IsUpTo(h, n)]
<1>2. ASSUME NEW n \in Nat PROVE up[n] \in [0 .. n -> S] /\ IsUpTo(up[n], n)
  <2>1. \E h \in [0 .. n -> S] : IsUpTo(h, n)
    BY <1>1
  <2> HIDE DEF IsUpTo
  <2> QED
    BY <2>1
<1>3. ASSUME NEW n \in Nat PROVE up[n][n] = up[n+1][n]
  <2> DEFINE Same == {k \in Nat : k <= n => up[n][k] = up[n+1][k]}
  <2> HIDE DEF up
  <2>1. IsUpTo(up[n], n) /\ IsUpTo(up[n+1], n+1)
    <3> HIDE DEF IsUpTo
    <3>1. n + 1 \in Nat
      OBVIOUS
    <3> QED
      BY <3>1, <1>2
  <2>2. 0 \in Same
    BY <2>1
  <2>3. ASSUME NEW k \in Nat, k \in Same PROVE k + 1 \in Same
    <3> SUFFICES ASSUME k + 1 <= n PROVE up[n][k+1] = up[n+1][k+1]
      OBVIOUS
    <3>1. up[n][k] = up[n+1][k]
      BY <2>3
    <3>2. k \in 0 .. n-1 /\ k \in 0 .. n+1-1
      OBVIOUS
    <3>3. up[n][k+1] = step[<<k, up[n][k]>>]
      BY <2>1, <3>2
    <3>4. up[n+1][k+1] = step[<<k, up[n+1][k]>>]
      BY <2>1, <3>2
    <3> QED
      BY <3>1, <3>3, <3>4
  <2>4. Nat \subseteq Same
    <3> HIDE DEF Same
    <3> QED
      BY <2>2, <2>3, Induction
  <2> QED
    BY <2>4
<1> DEFINE g == [n \in Nat |-> up[n][n]]
<1> HIDE DEF up
<1>4. g \in [Nat -> S]
  BY <1>2
<1>5. g[0] = init
  BY <1>2
<1>6. ASSUME NEW n \in Nat PROVE g[n+1] = step[<<n, g[n]>>]
  <2>1. up[n+1][n+1] = step[<<n, up[n+1][n]>>]
    BY <1>2
  <2> QED
    BY <2>1, <1>3, SMTT(40)
<1> HIDE DEF g
<1>7. g \in Runs(S, init, step)
  BY <1>4, <1>5, <1>6 DEF Runs
<1> QED
  BY <1>7

-----------------------------------------------------------------------------
(* Folds.                                                                  *)

\* The greatest of the first numbers, without which there are the ones before.
LEMMA GreatestUpTo ==
  ASSUME NEW k \in Nat \ {0}
  PROVE  Max(1 .. k) = k /\ (1 .. k) \ {Max(1 .. k)} = 1 .. k-1
<1>1. k \in 1 .. k /\ \A y \in 1 .. k : k >= y
  OBVIOUS
<1>2. \A x \in 1 .. k : (\A y \in 1 .. k : x >= y) => x = k
  OBVIOUS
<1>3. Max(1 .. k) = k
  BY <1>1, <1>2 DEF Max
<1> QED
  BY <1>3

\* A set of the first numbers has a greatest.
LEMMA GreatestOf ==
  ASSUME NEW n \in Nat, NEW s \in SUBSET (1 .. n), s # {}
  PROVE  Max(s) \in s /\ \A y \in s : Max(s) >= y
<1> DEFINE T == {k \in Nat : \A t \in SUBSET (1 .. k) :
                               t # {} => \E x \in t : \A y \in t : x >= y}
<1>1. 0 \in T
  <2>1. 1 .. 0 = {}
    OBVIOUS
  <2> QED
    BY <2>1
<1>2. ASSUME NEW k \in Nat, k \in T PROVE k + 1 \in T
  <2> SUFFICES ASSUME NEW t \in SUBSET (1 .. k+1), t # {}
               PROVE  \E x \in t : \A y \in t : x >= y
    OBVIOUS
  <2>1. CASE k + 1 \in t
    BY <2>1
  <2>2. CASE k + 1 \notin t
    <3>1. t \in SUBSET (1 .. k)
      BY <2>2
    <3> QED
      BY <3>1, <1>2
  <2> QED
    BY <2>1, <2>2
<1>3. Nat \subseteq T
  <2> HIDE DEF T
  <2> QED
    BY <1>1, <1>2, Induction
<1>4. \E x \in s : \A y \in s : x >= y
  BY <1>3
<1> QED
  BY <1>4 DEF Max

\* A fold that takes the greatest last is well defined.
IsFold(g, n, base, step) ==
  g = [s \in SUBSET (1 .. n) |->
         IF s = {} THEN base ELSE step[<<Max(s), g[s \ {Max(s)}]>>]]

LEMMA FoldExists ==
  ASSUME NEW n \in Nat, NEW S, NEW base \in S, NEW step \in [(1 .. n) \X S -> S]
  PROVE  \E g \in [SUBSET (1 .. n) -> S] : IsFold(g, n, base, step)
<1> DEFINE Body(g) == [s \in SUBSET (1 .. n) |->
                         IF s = {} THEN base ELSE step[<<Max(s), g[s \ {Max(s)}]>>]]
           F == [SUBSET (1 .. n) -> S]
           first == [s \in SUBSET (1 .. n) |-> base]
           next == [p \in Nat \X F |-> Body(p[2])]
<1>1. ASSUME NEW g \in F PROVE Body(g) \in F
  <2> SUFFICES ASSUME NEW s \in SUBSET (1 .. n), s # {}
               PROVE  step[<<Max(s), g[s \ {Max(s)}]>>] \in S
    OBVIOUS
  <2>1. Max(s) \in 1 .. n /\ s \ {Max(s)} \in SUBSET (1 .. n)
    BY GreatestOf
  <2> QED
    BY <2>1
<1>2. first \in F
  OBVIOUS
<1>3. next \in [Nat \X F -> F]
  <2> HIDE DEF Body, F
  <2> QED
    BY <1>1
<1>4. Runs(F, first, next) # {}
  <2> HIDE DEF F, first, next
  <2> QED
    BY <1>2, <1>3, Iterates
<1> PICK G \in Runs(F, first, next) : TRUE
  BY <1>4
<1>5. G \in [Nat -> F] /\ G[0] = first /\ \A k \in Nat : G[k+1] = next[<<k, G[k]>>]
  <2> HIDE DEF F, first, next
  <2> QED
    BY DEF Runs
<1>6. \A k \in Nat : G[k+1] = Body(G[k])
  <2> HIDE DEF Body, F
  <2> QED
    BY <1>5
<1> DEFINE T == {k \in Nat : \A s \in SUBSET (1 .. n) :
                               s \subseteq 1 .. k => G[k+1][s] = G[k][s]}
<1>7. 0 \in T
  <2> SUFFICES ASSUME NEW s \in SUBSET (1 .. n), s \subseteq 1 .. 0
               PROVE  G[0+1][s] = G[0][s]
    OBVIOUS
  <2>1. s = {}
    OBVIOUS
  <2>2. G[0+1] = Body(G[0])
    BY <1>6
  <2> QED
    BY <2>1, <2>2, <1>5
<1>8. ASSUME NEW k \in Nat, k \in T PROVE k + 1 \in T
  <2> SUFFICES ASSUME NEW s \in SUBSET (1 .. n), s \subseteq 1 .. k+1
               PROVE  G[k+1+1][s] = G[k+1][s]
    OBVIOUS
  <2>1. G[k+1+1] = Body(G[k+1]) /\ G[k+1] = Body(G[k])
    <3> HIDE DEF Body
    <3>1. k + 1 \in Nat
      OBVIOUS
    <3> QED
      BY <3>1, <1>6
  <2>2. CASE s = {}
    BY <2>1, <2>2
  <2>3. CASE s # {}
    <3> DEFINE t == s \ {Max(s)}
    <3>1. Max(s) \in s /\ \A y \in s : Max(s) >= y
      BY <2>3, GreatestOf
    <3>2. t \in SUBSET (1 .. n) /\ t \subseteq 1 .. k
      <4> SUFFICES ASSUME NEW y \in t PROVE y \in 1 .. n /\ y \in 1 .. k
        OBVIOUS
      <4>1. y \in s /\ y # Max(s)
        OBVIOUS
      <4>2. Max(s) \in 1 .. k+1 /\ y \in 1 .. k+1 /\ y \in 1 .. n /\ Max(s) >= y
        BY <3>1, <4>1
      <4>3. ASSUME NEW x \in 1 .. k+1, NEW z \in 1 .. k+1, x # z, z >= x
            PROVE  x \in 1 .. k
        BY <4>3
      <4> HIDE DEF t
      <4> QED
        BY <4>1, <4>2, <4>3
    <3>3. G[k+1][t] = G[k][t]
      BY <3>2, <1>8
    <3> QED
      BY <2>1, <2>3, <3>3, SMTT(40)
  <2> QED
    BY <2>2, <2>3
<1>9. Nat \subseteq T
  <2> HIDE DEF T
  <2> QED
    BY <1>7, <1>8, Induction
<1>10. G[n+1] = G[n]
  <2>1. \A s \in SUBSET (1 .. n) : G[n+1][s] = G[n][s]
    BY <1>9
  <2>2. G[n] \in F /\ G[n+1] \in F
    BY <1>5
  <2> QED
    BY <2>1, <2>2
<1>11. G[n] = Body(G[n])
  BY <1>6, <1>10
<1>12. G[n] \in F /\ IsFold(G[n], n, base, step)
  BY <1>5, <1>11 DEF IsFold
<1> QED
  BY <1>12

-----------------------------------------------------------------------------
(* Lists of positions.                                                     *)

\* How many of S come up to i: the position of i among S.
Rank(S, i) == Cardinality({j \in S : j <= i})

LEMMA RankGrows ==
  ASSUME NEW N \in Nat, NEW S \in SUBSET (1 .. N)
  PROVE  /\ Cardinality(S) \in Nat
         /\ \A i \in S : Rank(S, i) \in 1 .. Cardinality(S)
         /\ \A i, j \in S : i < j => Rank(S, i) < Rank(S, j)
<1> DEFINE upto(i) == {j \in S : j <= i}
<1>1. IsFiniteSet(S)
  <2>1. IsFiniteSet(1 .. N)
    BY FS_Interval
  <2> QED
    BY <2>1, FS_Subset
<1>2. \A i \in S : /\ IsFiniteSet(upto(i)) /\ Cardinality(upto(i)) \in Nat
                   /\ Cardinality(upto(i)) <= Cardinality(S)
  BY <1>1, FS_Subset, FS_CardinalityType
<1>3. ASSUME NEW i \in S PROVE Cardinality(upto(i)) # 0
  <2>1. i \in upto(i)
    BY <1>3
  <2>2. IsFiniteSet(upto(i)) /\ upto(i) # {}
    BY <1>2, <1>3, <2>1
  <2> HIDE DEF upto
  <2> QED
    BY <2>2, FS_EmptySet
<1>4. ASSUME NEW i \in S, NEW j \in S, i < j
      PROVE  Cardinality(upto(i)) < Cardinality(upto(j))
  <2> i \in Int /\ j \in Int
    OBVIOUS
  <2>1. upto(i) \subseteq upto(j) /\ j \in upto(j) /\ j \notin upto(i)
    <3>1. \A k \in S : k <= i => k <= j
      BY <1>4
    <3>2. j <= j /\ ~(j <= i)
      BY <1>4
    <3>3. j \in upto(j) /\ j \notin upto(i)
      BY <3>2
    <3>4. upto(i) \subseteq upto(j)
      BY <3>1
    <3> QED
      BY <3>3, <3>4
  <2>2. upto(i) # upto(j)
    BY <2>1
  <2>3. /\ Cardinality(upto(i)) <= Cardinality(upto(j))
        /\ Cardinality(upto(i)) # Cardinality(upto(j))
    BY <1>2, <2>1, <2>2, FS_Subset
  <2> QED
    BY <1>2, <2>3
<1>5. Cardinality(S) \in Nat
  BY <1>1, FS_CardinalityType
<1> QED
  BY <1>2, <1>3, <1>4, <1>5 DEF Rank

\* InOrder lists each member of S, at its position and nowhere else.
LEMMA ListedInOrder ==
  ASSUME NEW N \in Nat, NEW S \in SUBSET (1 .. N)
  PROVE  /\ Cardinality(S) \in Nat
         /\ DOMAIN InOrder(S) = 1 .. Cardinality(S)
         /\ \A k \in 1 .. Cardinality(S) : InOrder(S)[k] \in S /\ Rank(S, InOrder(S)[k]) = k
         /\ \A i \in S : Rank(S, i) \in 1 .. Cardinality(S) /\ InOrder(S)[Rank(S, i)] = i
<1> DEFINE n == Cardinality(S)
           rank == [i \in S |-> Rank(S, i)]
<1>1. /\ n \in Nat
      /\ \A i \in S : Rank(S, i) \in 1 .. n
      /\ \A i, j \in S : i < j => Rank(S, i) < Rank(S, j)
  BY RankGrows
<1>2. \A i, j \in S : Rank(S, i) = Rank(S, j) => i = j
  <2> SUFFICES ASSUME NEW i \in S, NEW j \in S, Rank(S, i) = Rank(S, j) PROVE i = j
    OBVIOUS
  <2>1. i \in Int /\ j \in Int /\ Rank(S, i) \in Int /\ Rank(S, j) \in Int
    BY <1>1
  <2>2. ~(i < j) /\ ~(j < i)
    BY <1>1, <2>1
  <2> QED
    BY <2>1, <2>2
<1>3. rank \in Injection(S, 1 .. n)
  BY <1>1, <1>2 DEF Injection, IsInjective
<1>4. IsFiniteSet(1 .. n) /\ Cardinality(1 .. n) = n
  BY <1>1, FS_Interval
<1>5. rank \in Surjection(S, 1 .. n)
  BY <1>3, <1>4, FS_Injection
<1>6. ASSUME NEW k \in 1 .. n PROVE \E i \in S : Rank(S, i) = k
  BY <1>5 DEF Surjection
<1>7. DOMAIN InOrder(S) = 1 .. n /\ \A k \in 1 .. n :
        InOrder(S)[k] = CHOOSE i \in S : Rank(S, i) = k
  BY DEF InOrder, Rank
<1>8. \A k \in 1 .. n : InOrder(S)[k] \in S /\ Rank(S, InOrder(S)[k]) = k
  BY <1>6, <1>7
<1>9. \A i \in S : InOrder(S)[Rank(S, i)] = i
  BY <1>1, <1>2, <1>8
<1> QED
  BY <1>1, <1>7, <1>8, <1>9

LEMMA NothingInOrder == InOrder({}) = << >>
<1>1. Cardinality({}) = 0
  BY FS_EmptySet
<1> QED
  BY <1>1 DEF InOrder

LEMMA OneInOrder == ASSUME NEW m \in Nat \ {0} PROVE InOrder({m}) = <<m>>
<1>1. Cardinality({m}) = 1
  BY FS_Singleton
<1>2. DOMAIN InOrder({m}) = 1 .. 1 /\ InOrder({m})[1] = m
  <2>1. {m} \in SUBSET (1 .. m) /\ m \in Nat
    OBVIOUS
  <2>2. /\ DOMAIN InOrder({m}) = 1 .. Cardinality({m})
        /\ \A k \in 1 .. Cardinality({m}) : InOrder({m})[k] \in {m}
    BY <2>1, ListedInOrder
  <2> QED
    BY <1>1, <2>2
<1> DEFINE f == InOrder({m})
<1>3. f = [k \in 1 .. 1 |-> CHOOSE i \in {m} : Cardinality({j \in {m} : j <= i}) = k]
  BY <1>1 DEF InOrder
<1>4. f[1] = m
  BY <1>2
<1>5. f = [k \in 1 .. 1 |-> f[k]]
  BY <1>3
<1> HIDE DEF f
<1>6. f = <<m>>
  BY <1>4, <1>5
<1> QED
  BY <1>6 DEF f

\* A position after all the others is listed last.
LEMMA LaterInOrder ==
  ASSUME NEW n \in Nat, NEW S \in SUBSET (1 .. n), NEW list
  PROVE  /\ Cardinality(S \cup {n+1}) = Cardinality(S) + 1
         /\ Len(Chosen(list, S)) = Cardinality(S) /\ Cardinality(S) \in Nat
         /\ Chosen(list, S) \in Seq({list[i] : i \in S})
         /\ Chosen(list, S \cup {n+1}) = Append(Chosen(list, S), list[n+1])
<1> DEFINE U == S \cup {n+1}
           c == Cardinality(S)
<1>1. n + 1 \in Nat /\ S \in SUBSET (1 .. n+1) /\ U \in SUBSET (1 .. n+1)
  OBVIOUS
<1>2. IsFiniteSet(S) /\ n + 1 \notin S
  <2>1. IsFiniteSet(1 .. n)
    BY FS_Interval
  <2>2. IsFiniteSet(S)
    BY <2>1, FS_Subset
  <2> QED
    BY <2>2
<1>3. Cardinality(U) = c + 1 /\ c \in Nat
  BY <1>2, FS_AddElement, FS_CardinalityType
<1>4. /\ DOMAIN InOrder(S) = 1 .. c
      /\ \A k \in 1 .. c : InOrder(S)[k] \in S /\ Rank(S, InOrder(S)[k]) = k
  BY ListedInOrder
<1>5. /\ DOMAIN InOrder(U) = 1 .. c+1
      /\ \A i \in U : Rank(U, i) \in 1 .. c+1 /\ InOrder(U)[Rank(U, i)] = i
  <2> HIDE DEF U
  <2> QED
    BY <1>1, <1>3, ListedInOrder
<1>6. ASSUME NEW k \in 1 .. c PROVE InOrder(U)[k] = InOrder(S)[k]
  <2>1. InOrder(S)[k] \in S /\ Rank(S, InOrder(S)[k]) = k
    BY <1>4
  <2>2. {j \in U : j <= InOrder(S)[k]} = {j \in S : j <= InOrder(S)[k]}
    <3>1. InOrder(S)[k] \in 1 .. n
      BY <2>1
    <3>2. ~(n + 1 <= InOrder(S)[k])
      BY <3>1
    <3> QED
      BY <3>2
  <2>3. Rank(U, InOrder(S)[k]) = k
    BY <2>1, <2>2 DEF Rank
  <2> QED
    BY <1>5, <2>1, <2>3
<1>7. InOrder(U)[c+1] = n + 1
  <2>1. {j \in U : j <= n+1} = U
    <3>1. \A j \in U : j <= n+1
      BY <1>1
    <3> HIDE DEF U
    <3> QED
      BY <3>1
  <2>2. Rank(U, n+1) = c + 1
    BY <1>3, <2>1 DEF Rank
  <2> QED
    BY <1>5, <2>2
<1> DEFINE A == {list[i] : i \in S}
           s == Chosen(list, S)
           u == Chosen(list, U)
<1>8. s = [k \in 1 .. c |-> list[InOrder(S)[k]]]
  BY <1>4 DEF Chosen
<1>9. s \in Seq(A) /\ Len(s) = c
  <2>1. s \in [1 .. c -> A]
    BY <1>4, <1>8
  <2> QED
    BY <1>3, <2>1
<1>10. u = [k \in 1 .. c+1 |-> list[InOrder(U)[k]]]
  BY <1>5 DEF Chosen
<1>11. Append(s, list[n+1]) = [k \in 1 .. c+1 |-> IF k = c + 1 THEN list[n+1] ELSE s[k]]
  <2> HIDE DEF s, A
  <2>1. s \in Seq(A \cup {list[n+1]})
    BY <1>9
  <2> QED
    BY <1>3, <1>9, <2>1
<1>12. u = Append(s, list[n+1])
  <2>1. \A k \in 1 .. c+1 : list[InOrder(U)[k]] = IF k = c + 1 THEN list[n+1] ELSE s[k]
    <3> SUFFICES ASSUME NEW k \in 1 .. c+1
                 PROVE  list[InOrder(U)[k]] = IF k = c + 1 THEN list[n+1] ELSE s[k]
      OBVIOUS
    <3>1. CASE k = c + 1
      BY <1>7, <3>1
    <3>2. CASE k # c + 1
      <4>1. k \in 1 .. c
        BY <1>3, <3>2
      <4> HIDE DEF s, U, c
      <4> QED
        BY <1>6, <1>8, <3>2, <4>1
    <3> QED
      BY <3>1, <3>2
  <2> HIDE DEF s, u
  <2> QED
    BY <1>10, <1>11, <2>1
<1> QED
  BY <1>3, <1>9, <1>12
==============================================================================
