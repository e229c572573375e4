-------------------------- MODULE BufferPoolProofs --------------------------
(***************************************************************************)
(* What the operators of BufferPool preserve and return, for every pool    *)
(* size.  DecodeSessionProofs cites these lemmas and never looks inside a  *)
(* pool again.                                                             *)
(***************************************************************************)
EXTENDS BufferPool, Functions, SequenceTheorems, FiniteSetTheorems, TLAPS

\* A pool of 0 .. MaxBuffers buffers nobody has taken from: nothing is held.
LEMMA NewPoolFacts ==
  ASSUME NEW n \in 0 .. MaxBuffers
  PROVE  PoolOK(NewPool(n)) /\ Held(NewPool(n)) = {} /\ NewPool(n).next = 0
<1> USE MaxBuffersAssumption
<1>1. << >> \in Seq(0 .. MaxBuffers-1) /\ Len(<< >>) = 0
  BY EmptySeq
<1>2. NewPool(n) \in Pool
  BY <1>1 DEF NewPool, Pool
<1> QED
  BY <1>1, <1>2 DEF NewPool, PoolOK, Held, Recycled

\* Popping a sequence, as the source pops its stacks.
LEMMA PopFacts ==
  ASSUME NEW S, NEW s \in Seq(S), s # << >>
  PROVE  /\ SubSeq(s, 1, Len(s)-1) \in Seq(S)
         /\ Len(SubSeq(s, 1, Len(s)-1)) = Len(s) - 1
         /\ \A k \in 1 .. Len(s)-1 : SubSeq(s, 1, Len(s)-1)[k] = s[k]
         /\ Len(s) \in Nat \ {0}
         /\ \A k \in 1 .. Len(s) : s[k] \in S
<1>1. Len(s) \in Nat \ {0} /\ s \in [1 .. Len(s) -> S]
  BY LenProperties, EmptySeq
<1>2. \A k \in 1 .. Len(s) : s[k] \in S
  BY <1>1
<1>3. \A k \in 1 .. Len(s)-1 : s[k] \in S
  BY <1>1, <1>2
<1> QED
  BY <1>1, <1>2, <1>3, SubSeqProperties

\* What a pool's type says about its fields.
LEMMA StackFacts ==
  ASSUME NEW p, PoolOK(p)
  PROVE  /\ Len(p.free) \in Nat
         /\ p.free \in Seq(0 .. MaxBuffers-1)
         /\ p.num \in 0 .. MaxBuffers
         /\ p.next \in 0 .. MaxBuffers
         /\ p = [num |-> p.num, next |-> p.next, free |-> p.free]
         /\ p.free = << >> => Len(p.free) = 0
BY DEF PoolOK, Pool

\* Held indices are buffers REQBUFS created.
LEMMA HeldInRange ==
  ASSUME NEW p, PoolOK(p), NEW i \in Held(p)
  PROVE  i \in 0 .. MaxBuffers-1 /\ i # Unassigned /\ p.next # 0
BY StackFacts, MaxBuffersAssumption DEF Held, Unassigned

\* A bind takes an index nobody holds, and that index is then held.
LEMMA TakeFacts ==
  ASSUME NEW p, PoolOK(p), ~Exhausted(p)
  PROVE  /\ PoolOK(Take(p))
         /\ Candidate(p) \notin Held(p)
         /\ Held(Take(p)) = Held(p) \cup {Candidate(p)}
<1> USE MaxBuffersAssumption
<1>1. /\ Len(p.free) \in Nat
      /\ p.free \in Seq(0 .. MaxBuffers-1)
      /\ p.num \in 0 .. MaxBuffers
      /\ p.next \in 0 .. MaxBuffers
      /\ p = [num |-> p.num, next |-> p.next, free |-> p.free]
      /\ p.free = << >> => Len(p.free) = 0
  BY StackFacts
<1>2. /\ p.next <= p.num
      /\ \A k \in 1 .. Len(p.free) : p.free[k] \in 0 .. p.next-1
      /\ \A j, k \in 1 .. Len(p.free) : p.free[j] = p.free[k] => j = k
  BY DEF PoolOK, Recycled
<1>3. CASE p.free # << >>
  <2>1. PICK q : q = Take(p).free
    OBVIOUS
  <2>2. Take(p) = [num |-> p.num, next |-> p.next, free |-> q]
        /\ q = SubSeq(p.free, 1, Len(p.free)-1)
        /\ Candidate(p) = p.free[Len(p.free)]
    BY <1>1, <1>3, <2>1 DEF Take, Candidate
  <2>3. /\ q \in Seq(0 .. MaxBuffers-1)
        /\ Len(q) = Len(p.free) - 1
        /\ \A k \in 1 .. Len(q) : q[k] = p.free[k]
        /\ Len(p.free) \in Nat \ {0}
    BY <1>1, <1>3, <2>2, PopFacts
  <2>4. Take(p) \in Pool
    BY <1>1, <2>2, <2>3 DEF Pool
  <2>5. PICK n : n = Len(p.free)
    OBVIOUS
  <2>6. /\ n \in Nat \ {0} /\ Len(q) = n - 1
        /\ \A k \in 1 .. n-1 : k \in 1 .. n /\ q[k] = p.free[k]
        /\ n \in 1 .. n /\ Candidate(p) = p.free[n]
    BY <2>2, <2>3, <2>5
  <2>7. \A k \in 1 .. n : k \in 1 .. n-1 \/ k = n
    BY <2>6
  <2>8. \A j, k \in 1 .. n-1 : q[j] = q[k] => j = k
    BY <1>2, <2>5, <2>6
  <2>9. \A k \in 1 .. n-1 : q[k] \in 0 .. p.next-1
    BY <1>2, <2>5, <2>6
  <2>10. Recycled(Take(p)) = {q[k] : k \in 1 .. n-1}
    BY <2>2, <2>6 DEF Recycled
  <2>11. PoolOK(Take(p))
    <3>1. Take(p).free = q /\ Take(p).next = p.next /\ Take(p).num = p.num
      BY <2>2
    <3>2. Recycled(Take(p)) \subseteq 0 .. p.next-1
      BY <2>9, <2>10
    <3> QED
      BY <1>2, <2>4, <2>6, <2>8, <3>1, <3>2 DEF PoolOK
  <2>12. \A i : i \in Recycled(p) <=> i \in Recycled(Take(p)) \/ i = Candidate(p)
    <3>1. \A i : i \in Recycled(p) <=> \E k \in 1 .. n : i = p.free[k]
      BY <2>5 DEF Recycled
    <3> QED
      BY <2>6, <2>7, <2>10, <3>1
  <2>13. Candidate(p) \notin Recycled(Take(p))
    <3>1. \A k \in 1 .. n-1 : k # n
      BY <2>6
    <3> QED
      BY <1>2, <2>5, <2>6, <2>10, <3>1
  <2>14. Candidate(p) \in 0 .. p.next-1 /\ Take(p).next = p.next
    BY <1>2, <2>2, <2>5, <2>6
  <2> QED
    BY <2>11, <2>12, <2>13, <2>14 DEF Held
<1>4. CASE p.free = << >>
  <2>1. Take(p) = [num |-> p.num, next |-> p.next+1, free |-> p.free]
    BY <1>1, <1>4 DEF Take
  <2>2. Len(p.free) = 0 /\ p.next < p.num /\ Candidate(p) = p.next
    BY <1>1, <1>4 DEF Exhausted, Candidate
  <2>3. Recycled(p) = {} /\ Recycled(Take(p)) = {}
    BY <2>1, <2>2 DEF Recycled
  <2>4. Take(p) \in Pool
    BY <1>1, <2>1, <2>2 DEF Pool
  <2>5. PoolOK(Take(p))
    BY <1>1, <2>1, <2>2, <2>3, <2>4 DEF PoolOK
  <2>6. 0 .. p.next = (0 .. p.next-1) \cup {p.next} /\ p.next \notin 0 .. p.next-1
    BY <1>1
  <2>7. Take(p).next - 1 = p.next
    BY <1>1, <2>1
  <2> QED
    BY <2>2, <2>3, <2>5, <2>6, <2>7 DEF Held
<1> QED
  BY <1>3, <1>4

\* The free stack always has room for an index that is held: the array of
\* MaxBuffers entries is never full when a surface returns one, so the
\* "count < MAX" test of the source never drops an index.
LEMMA StackHasRoom ==
  ASSUME NEW p, PoolOK(p), NEW i \in Held(p)
  PROVE  Len(p.free) < MaxBuffers
<1>1. PICK T : T = (0 .. p.next-1) \ {i}
  OBVIOUS
<1>2. PICK D : D = 1 .. Len(p.free)
  OBVIOUS
<1>3. /\ Len(p.free) \in Nat
      /\ p.free \in Seq(0 .. MaxBuffers-1)
      /\ p.next \in 0 .. MaxBuffers
      /\ i \in 0 .. p.next-1
  BY StackFacts DEF Held
<1>4. p.free \in [D -> 0 .. MaxBuffers-1]
  BY <1>2, <1>3, LenProperties
<1>5. \A k \in D : p.free[k] \in T
  BY <1>1, <1>2 DEF PoolOK, Held, Recycled
<1>6. p.free \in [D -> T]
  BY <1>4, <1>5
<1>7. \A a, b \in D : p.free[a] = p.free[b] => a = b
  BY <1>2 DEF PoolOK
<1>8. p.free \in Injection(D, T)
  BY <1>6, <1>7 DEF Injection, IsInjective
<1>9. IsFiniteSet(0 .. p.next-1) /\ Cardinality(0 .. p.next-1) = p.next
  <2>1. p.next \in Nat /\ p.next - 1 \in Int /\ 0 \in Int
    BY <1>3, MaxBuffersAssumption
  <2>2. /\ IsFiniteSet(0 .. p.next-1)
        /\ Cardinality(0 .. p.next-1) =
             IF 0 > p.next-1 THEN 0 ELSE p.next - 1 - 0 + 1
    BY <2>1, FS_Interval
  <2> QED
    BY <2>1, <2>2
<1>10. IsFiniteSet(T) /\ Cardinality(T) = p.next - 1
  BY <1>1, <1>3, <1>9, FS_RemoveElement, ZenonT(60)
<1>11. Cardinality(D) <= Cardinality(T)
  BY <1>8, <1>10, FS_Injection
<1>12. Cardinality(D) = Len(p.free)
  <2>1. 1 \in Int /\ Len(p.free) \in Int
    BY <1>3
  <2>2. Cardinality(1 .. Len(p.free)) =
          IF 1 > Len(p.free) THEN 0 ELSE Len(p.free) - 1 + 1
    BY <2>1, FS_Interval
  <2> QED
    BY <1>2, <1>3, <2>2
<1> QED
  BY <1>3, <1>10, <1>11, <1>12, MaxBuffersAssumption

\* Returning a held index makes it free, and nothing else.
LEMMA GiveFacts ==
  ASSUME NEW p, PoolOK(p), NEW i \in Held(p)
  PROVE  /\ PoolOK(Give(p, i))
         /\ Held(Give(p, i)) = Held(p) \ {i}
<1> USE MaxBuffersAssumption
<1>1. /\ Len(p.free) \in Nat
      /\ p.free \in Seq(0 .. MaxBuffers-1)
      /\ p.num \in 0 .. MaxBuffers
      /\ p.next \in 0 .. MaxBuffers
      /\ p = [num |-> p.num, next |-> p.next, free |-> p.free]
  BY StackFacts
<1>2. /\ i \in 0 .. MaxBuffers-1
      /\ i \in 0 .. p.next-1
      /\ \A k \in 1 .. Len(p.free) : p.free[k] # i
  BY HeldInRange DEF Held, Recycled
<1>3. PICK q : q = Append(p.free, i)
  OBVIOUS
<1>4. Give(p, i) = [num |-> p.num, next |-> p.next, free |-> q]
  BY <1>1, <1>3, StackHasRoom DEF Give
<1>5. /\ q \in Seq(0 .. MaxBuffers-1)
      /\ Len(q) = Len(p.free) + 1
      /\ \A k \in 1 .. Len(q) : q[k] = IF k = Len(q) THEN i ELSE p.free[k]
  BY <1>1, <1>2, <1>3
<1>6. PICK n : n = Len(p.free)
  OBVIOUS
<1>7. /\ n \in Nat /\ Len(q) = n + 1
      /\ \A k \in 1 .. n : k \in 1 .. n+1 /\ k # n + 1
      /\ \A k \in 1 .. n+1 : k \in 1 .. n \/ k = n + 1
      /\ n + 1 \in 1 .. n+1
  BY <1>1, <1>5, <1>6
<1>8. q[n + 1] = i /\ \A k \in 1 .. n : q[k] = p.free[k]
  <2>1. \A k \in 1 .. n+1 : q[k] = IF k = n + 1 THEN i ELSE p.free[k]
    BY <1>5, <1>7
  <2> QED
    BY <1>7, <2>1
<1>9. Recycled(Give(p, i)) = Recycled(p) \cup {i}
  <2>1. \A j : j \in Recycled(p) <=> \E k \in 1 .. n : j = p.free[k]
    BY <1>6 DEF Recycled
  <2>2. Give(p, i).free = q
    BY <1>4
  <2>3. \A j : j \in Recycled(Give(p, i)) <=> \E k \in 1 .. n+1 : j = q[k]
    BY <1>7, <2>2 DEF Recycled
  <2> QED
    BY <1>7, <1>8, <2>1, <2>3
<1>10. Give(p, i) \in Pool
  BY <1>1, <1>4, <1>5 DEF Pool
<1>11. \A j, k \in 1 .. n+1 : q[j] = q[k] => j = k
  BY <1>2, <1>6, <1>7, <1>8 DEF PoolOK
<1>12. PoolOK(Give(p, i))
  <2>1. /\ Give(p, i).free = q /\ Give(p, i).next = p.next
        /\ Give(p, i).num = p.num
    BY <1>4
  <2>2. Recycled(Give(p, i)) \subseteq 0 .. p.next-1
    BY <1>2, <1>9 DEF PoolOK
  <2>3. p.next <= p.num
    BY DEF PoolOK
  <2> QED
    BY <1>7, <1>10, <1>11, <2>1, <2>2, <2>3 DEF PoolOK
<1> QED
  BY <1>4, <1>9, <1>12 DEF Held

\* A bind that fails after taking an index leaves what is held unchanged.
LEMMA TakeAndGiveBackFacts ==
  ASSUME NEW p, PoolOK(p), ~Exhausted(p)
  PROVE  /\ PoolOK(TakeAndGiveBack(p))
         /\ Held(TakeAndGiveBack(p)) = Held(p)
<1>1. /\ PoolOK(Take(p)) /\ Candidate(p) \notin Held(p)
      /\ Held(Take(p)) = Held(p) \cup {Candidate(p)}
  BY TakeFacts
<1>2. /\ PoolOK(Give(Take(p), Candidate(p)))
      /\ Held(Give(Take(p), Candidate(p))) = Held(Take(p)) \ {Candidate(p)}
  BY <1>1, GiveFacts
<1> QED
  BY <1>1, <1>2 DEF TakeAndGiveBack
=============================================================================
