---------------------------- MODULE ImagesProofs ----------------------------
(***************************************************************************)
(* The invariants of Images hold of every behaviour, for any number of      *)
(* surfaces, buffers, images and blocks, whatever fails.                    *)
(*                                                                         *)
(* They are one inductive invariant: that the memory of a surface is not    *)
(* freed with somebody else's needs MemoryOwned, that an image finds its    *)
(* buffer needs the free lists, and so on around.                          *)
(***************************************************************************)
EXTENDS Images, TLAPS, FiniteSetTheorems

-----------------------------------------------------------------------------
(* The allocator of ids: what every operation does to the ids that are live, *)
(* and that the free list stays sound.                                      *)

HeapType(h) == h.size \in Nat /\ h \in Heap(h.size)

FreeSlots(h) == Slots(h) \ Live(h)

LEMMA HeapFacts ==
  ASSUME NEW h, HeapType(h)
  PROVE  /\ h.size \in Nat /\ Slots(h) \subseteq Nat
         /\ h.head \in {Last} \cup Slots(h)
         /\ DOMAIN h.next = Slots(h)
         /\ \A i \in Slots(h) : h.next[i] \in {Last, Allocated} \cup Slots(h)
         /\ DOMAIN h = {"size", "head", "next"}
BY DEF HeapType, Heap, Slots

LEMMA FreeSlotsFinite ==
  ASSUME NEW h, HeapType(h)
  PROVE  IsFiniteSet(FreeSlots(h)) /\ Cardinality(FreeSlots(h)) \in Nat
<1>1. IsFiniteSet(Slots(h))
  BY FS_Interval DEF Slots, HeapType
<1>2. FreeSlots(h) \in SUBSET Slots(h)
  BY DEF FreeSlots
<1>3. IsFiniteSet(FreeSlots(h))
  BY <1>1, <1>2, FS_Subset
<1> QED BY <1>3, FS_CardinalityType

\* HeapOK, spelled out for proofs.
LEMMA HeapOKExpanded ==
  ASSUME NEW h
  PROVE  HeapOK(h) <=> \E behind \in [FreeSlots(h) -> 0 .. Cardinality(FreeSlots(h))-1] :
                         Linked(h, behind)
BY DEF HeapOK, FreeSlots

LEMMA LinkedExpanded ==
  ASSUME NEW h, NEW free, NEW behind, DOMAIN behind = free
  PROVE  Linked(h, behind) <=>
           /\ \A i, j \in free : behind[i] = behind[j] => i = j
           /\ free = {} => h.head = Last
           /\ free # {} => h.head \in free /\ behind[h.head] = Cardinality(free)-1
           /\ \A i \in free : behind[i] = 0 => h.next[i] = Last
           /\ \A i \in free : behind[i] # 0 =>
                h.next[i] \in free /\ behind[h.next[i]] = behind[i] - 1
BY DEF Linked, Full

\* A heap whose list is empty has no slot that is not allocated.
LEMMA FullHeap ==
  ASSUME NEW h, HeapType(h), HeapOK(h), Full(h)
  PROVE  FreeSlots(h) = {}
<1>1. PICK behind \in [FreeSlots(h) -> 0 .. Cardinality(FreeSlots(h))-1] : Linked(h, behind)
  BY HeapOKExpanded
<1>2. FreeSlots(h) # {} => h.head \in FreeSlots(h)
  BY <1>1, LinkedExpanded
<1>3. h.head \notin FreeSlots(h)
  BY HeapFacts DEF Full, Last, FreeSlots
<1> QED BY <1>2, <1>3

LEMMA ExpandedFields ==
  ASSUME NEW h, h.size \in Nat
  PROVE  /\ DOMAIN Expanded(h) = {"size", "head", "next"}
         /\ Expanded(h).size = h.size + HeapIncrement
         /\ Expanded(h).head = h.size
         /\ Slots(Expanded(h)) = 0 .. h.size + HeapIncrement - 1
         /\ Expanded(h).next = [i \in 0 .. h.size + HeapIncrement - 1 |->
                                  IF i \in Slots(h) THEN h.next[i]
                                  ELSE IF i = h.size + HeapIncrement - 1 THEN h.head
                                  ELSE i + 1]
         /\ Expanded(h) = [size |-> Expanded(h).size, head |-> Expanded(h).head,
                           next |-> Expanded(h).next]
BY HeapIncrementAssumption DEF Expanded, Slots

\* A bucket more, when every slot is allocated: the new slots are free, in the
\* order of their numbers.
LEMMA ExpandedOK ==
  ASSUME NEW h, h.size \in Nat, Full(h), \A i \in Slots(h) : h.next[i] = Allocated
  PROVE  /\ HeapType(Expanded(h)) /\ HeapOK(Expanded(h)) /\ ~Full(Expanded(h))
         /\ Live(Expanded(h)) = Slots(h)
<1> DEFINE e == Expanded(h)
           last == h.size + HeapIncrement - 1
           new == h.size .. last
<1>1. /\ e.size = h.size + HeapIncrement /\ e.head = h.size
      /\ Slots(e) = 0 .. last
      /\ e.next = [i \in 0 .. last |-> IF i \in Slots(h) THEN h.next[i]
                                       ELSE IF i = last THEN h.head ELSE i + 1]
      /\ e = [size |-> e.size, head |-> e.head, next |-> e.next]
  BY ExpandedFields
<1>2. HeapIncrement \in Nat \ {0} /\ last \in Nat /\ h.size <= last /\ h.size \in new
  BY HeapIncrementAssumption
<1>3. Slots(h) = 0 .. h.size - 1
  BY DEF Slots
<1> HIDE DEF e
<1>4. \A i \in Slots(h) : i \in 0 .. last /\ e.next[i] = Allocated
  BY <1>1, <1>2, <1>3
<1>5. \A i \in new : i \in 0 .. last /\ i \notin Slots(h)
  BY <1>2, <1>3
<1>6. \A i \in new : i # last => e.next[i] = i + 1 /\ i + 1 \in new
  BY <1>1, <1>2, <1>5
<1>7. e.next[last] = Last
  BY <1>1, <1>2, <1>5 DEF Full
<1>8. HeapType(e)
  <2>1. e.next \in [0 .. last -> {Last, Allocated} \cup 0 .. last]
    <3>1. \A i \in 0 .. last : e.next[i] \in {Last, Allocated} \cup 0 .. last
      <4>1. \A i \in 0 .. last : i \in Slots(h) \/ i \in new
        BY <1>2, <1>3
      <4> QED BY <4>1, <1>4, <1>5, <1>6, <1>7
    <3> QED BY <3>1, <1>1
  <2>2. e.size \in Nat /\ e.size - 1 = last /\ e.head \in 0 .. last
    BY <1>1, <1>2
  <2> QED BY <1>1, <2>1, <2>2 DEF HeapType, Heap
<1>9. Live(e) = Slots(h)
  <2>1. \A i \in 0 .. last : i \notin Slots(h) => e.next[i] # Allocated
    <3>1. SUFFICES ASSUME NEW i \in 0 .. last, i \notin Slots(h)
                   PROVE  e.next[i] # Allocated
      OBVIOUS
    <3>2. i \in new
      BY <3>1, <1>2, <1>3
    <3> QED BY <3>2, <1>6, <1>7, <1>2 DEF Last, Allocated
  <2> QED BY <1>1, <1>4, <2>1 DEF Live
<1>10. FreeSlots(e) = new
  BY <1>1, <1>2, <1>3, <1>9 DEF FreeSlots
<1>11. Cardinality(new) = HeapIncrement
  <2>1. /\ h.size \in Int /\ last \in Int /\ ~(h.size > last)
        /\ last - h.size + 1 = HeapIncrement
    BY <1>2
  <2> HIDE DEF last
  <2>2. Cardinality(h.size .. last) = IF h.size > last THEN 0 ELSE last - h.size + 1
    BY <2>1, FS_Interval
  <2> QED BY <2>1, <2>2
<1>12. HeapOK(e)
  <2> DEFINE behind == [i \in new |-> last - i]
  <2>1. behind \in [new -> 0 .. HeapIncrement - 1]
    BY <1>2
  <2>2. \A i \in new : behind[i] = last - i
    OBVIOUS
  <2>3. DOMAIN behind = new
    OBVIOUS
  <2> HIDE DEF behind
  <2>4. \A i, j \in new : behind[i] = behind[j] => i = j
    BY <1>2, <2>2
  <2>5. e.head \in new /\ behind[e.head] = Cardinality(new) - 1
    BY <1>1, <1>2, <1>11, <2>2
  <2>6. \A i \in new : behind[i] = 0 => e.next[i] = Last
    BY <1>2, <1>7, <2>2
  <2>7. \A i \in new : behind[i] # 0 =>
          e.next[i] \in new /\ behind[e.next[i]] = behind[i] - 1
    <3>1. SUFFICES ASSUME NEW i \in new, behind[i] # 0
                   PROVE  e.next[i] \in new /\ behind[e.next[i]] = behind[i] - 1
      OBVIOUS
    <3>2. i # last
      BY <1>2, <2>2, <3>1
    <3>3. e.next[i] = i + 1 /\ i + 1 \in new
      BY <1>6, <3>2
    <3>4. behind[i + 1] = last - (i + 1)
      BY <2>2, <3>3
    <3>5. last - (i + 1) = (last - i) - 1
      BY <1>2
    <3> QED BY <2>2, <3>3, <3>4, <3>5
  <2>8. new # {}
    BY <1>2
  <2> HIDE DEF new
  <2>9. Linked(e, behind)
    BY <2>3, <2>4, <2>5, <2>6, <2>7, <2>8, LinkedExpanded
  <2> QED BY <1>10, <1>11, <2>1, <2>9, HeapOKExpanded
<1>13. ~Full(e)
  BY <1>1 DEF Full, Last
<1> QED BY <1>8, <1>9, <1>12, <1>13 DEF e

LEMMA NewHeapOK ==
  HeapType(NewHeap) /\ HeapOK(NewHeap) /\ Live(NewHeap) = {}
<1> DEFINE h == [size |-> 0, head |-> Last, next |-> << >>]
<1>1. h.size \in Nat /\ Full(h) /\ Slots(h) = {}
  BY DEF Full, Slots
<1>2. NewHeap = Expanded(h)
  BY DEF NewHeap
<1> HIDE DEF h
<1> QED BY <1>1, <1>2, ExpandedOK

LEMMA ReadyOK ==
  ASSUME NEW h, HeapType(h), HeapOK(h)
  PROVE  /\ HeapType(Ready(h)) /\ HeapOK(Ready(h)) /\ ~Full(Ready(h))
         /\ Live(Ready(h)) = Live(h)
<1>1. CASE Full(h)
  <2>1. FreeSlots(h) = {}
    BY <1>1, FullHeap
  <2>2. Live(h) = Slots(h) /\ \A i \in Slots(h) : h.next[i] = Allocated
    BY <2>1 DEF FreeSlots, Live
  <2>3. h.size \in Nat
    BY HeapFacts
  <2> QED BY <1>1, <2>2, <2>3, ExpandedOK DEF Ready
<1>2. CASE ~Full(h)
  BY <1>2 DEF Ready
<1> QED BY <1>1, <1>2

\* The id that is handed out names no object, and is the only one that becomes
\* live.
LEMMA AllocateOK ==
  ASSUME NEW h, HeapType(h), HeapOK(h)
  PROVE  /\ HeapType(Allocate(h)) /\ HeapOK(Allocate(h))
         /\ NextId(h) \in Nat /\ NextId(h) \notin Live(h)
         /\ Live(Allocate(h)) = Live(h) \cup {NextId(h)}
<1> DEFINE r == Ready(h)
           a == Allocate(h)
           x == NextId(h)
<1>1. HeapType(r) /\ HeapOK(r) /\ ~Full(r) /\ Live(r) = Live(h)
  BY ReadyOK
<1>2. x = r.head /\ a = [r EXCEPT !.head = r.next[x], !.next[x] = Allocated]
  BY DEF NextId, Allocate
<1> HIDE DEF r, a, x
<1>3. PICK behind \in [FreeSlots(r) -> 0 .. Cardinality(FreeSlots(r))-1] : Linked(r, behind)
  BY <1>1, HeapOKExpanded
<1>4. /\ r.size \in Nat /\ Slots(r) \subseteq Nat
      /\ DOMAIN r.next = Slots(r)
      /\ \A i \in Slots(r) : r.next[i] \in {Last, Allocated} \cup Slots(r)
      /\ DOMAIN r = {"size", "head", "next"} /\ r.head \in {Last} \cup Slots(r)
  BY <1>1, HeapFacts
<1>5. x \in Slots(r) /\ FreeSlots(r) # {} /\ x \in FreeSlots(r)
  <2>1. x \in Slots(r)
    BY <1>1, <1>2, <1>4 DEF Full
  <2>2. FreeSlots(r) # {}
    BY <1>1, <1>3, LinkedExpanded DEF Full
  <2> QED BY <1>2, <1>3, <2>1, <2>2, LinkedExpanded
<1>6. /\ \A i, j \in FreeSlots(r) : behind[i] = behind[j] => i = j
      /\ behind[x] = Cardinality(FreeSlots(r)) - 1
      /\ \A i \in FreeSlots(r) : behind[i] = 0 => r.next[i] = Last
      /\ \A i \in FreeSlots(r) : behind[i] # 0 =>
           r.next[i] \in FreeSlots(r) /\ behind[r.next[i]] = behind[i] - 1
  BY <1>2, <1>3, <1>5, LinkedExpanded
<1>7. /\ a.size = r.size /\ a.head = r.next[x] /\ DOMAIN a = {"size", "head", "next"}
      /\ a.next = [r.next EXCEPT ![x] = Allocated]
      /\ Slots(a) = Slots(r)
  BY <1>2, <1>4 DEF Slots
<1>8. /\ a.next[x] = Allocated /\ DOMAIN a.next = Slots(r)
      /\ \A i \in Slots(r) : i # x => a.next[i] = r.next[i]
  BY <1>4, <1>5, <1>7
<1>9. Live(a) = Live(r) \cup {x}
  BY <1>5, <1>7, <1>8 DEF Live
<1>10. FreeSlots(a) = FreeSlots(r) \ {x}
  BY <1>7, <1>9 DEF FreeSlots
<1>11. /\ Cardinality(FreeSlots(r)) \in Nat
       /\ Cardinality(FreeSlots(a)) = Cardinality(FreeSlots(r)) - 1
  BY <1>1, <1>5, <1>10, FreeSlotsFinite, FS_RemoveElement
<1>12. r.next[x] \in {Last} \cup Slots(r)
  BY <1>5, <1>6 DEF FreeSlots
<1>13. HeapType(a)
  <2>1. a.next \in [0 .. r.size-1 -> {Last, Allocated} \cup 0 .. r.size-1]
    BY <1>4, <1>7, <1>8 DEF Slots
  <2>2. a = [size |-> a.size, head |-> a.head, next |-> a.next]
    BY <1>2, <1>4, <1>7
  <2> QED BY <1>4, <1>7, <1>12, <2>1, <2>2 DEF HeapType, Heap, Slots
<1>14. HeapOK(a)
  <2> DEFINE free == FreeSlots(a)
             b == [i \in free |-> behind[i]]
  <2>1. \A i \in free : i \in FreeSlots(r) /\ i # x /\ b[i] = behind[i]
    BY <1>10
  <2>2. b \in [free -> 0 .. Cardinality(free)-1] /\ DOMAIN b = free
    <3>1. \A i \in free : behind[i] \in 0 .. Cardinality(FreeSlots(r))-1
      BY <1>3, <2>1
    <3>2. \A i \in free : behind[i] # Cardinality(FreeSlots(r))-1
      BY <1>5, <1>6, <2>1
    <3>3. \A i \in free : b[i] \in 0 .. Cardinality(free)-1
      BY <1>11, <2>1, <3>1, <3>2
    <3> QED BY <3>3
  <2> HIDE DEF b
  <2>3. \A i, j \in free : b[i] = b[j] => i = j
    BY <1>6, <2>1
  <2>4. \A i \in free : b[i] = 0 => a.next[i] = Last
    BY <1>6, <1>8, <2>1 DEF FreeSlots
  <2>5. \A i \in free : b[i] # 0 => a.next[i] \in free /\ b[a.next[i]] = b[i] - 1
    <3>1. SUFFICES ASSUME NEW i \in free, b[i] # 0
                   PROVE  a.next[i] \in free /\ b[a.next[i]] = b[i] - 1
      OBVIOUS
    <3>2. a.next[i] = r.next[i] /\ b[i] = behind[i]
      BY <1>8, <2>1 DEF FreeSlots
    <3>3. r.next[i] \in FreeSlots(r) /\ behind[r.next[i]] = behind[i] - 1
      BY <1>6, <2>1, <3>1, <3>2
    <3>4. r.next[i] # x
      <4>1. b[i] \in 0 .. Cardinality(free)-1
        BY <2>2
      <4> QED BY <1>6, <1>11, <3>2, <3>3, <4>1
    <3>5. r.next[i] \in free
      BY <1>10, <3>3, <3>4
    <3> QED BY <2>1, <3>2, <3>3, <3>5
  <2>6. CASE behind[x] = 0
    <3>1. Cardinality(free) = 0
      BY <1>6, <1>11, <2>6
    <3>2. free = {}
      BY <2>2, <3>1
    <3>3. a.head = Last
      BY <1>5, <1>6, <1>7, <2>6
    <3>4. Linked(a, b)
      BY <2>2, <2>3, <2>4, <2>5, <3>2, <3>3, LinkedExpanded
    <3> QED BY <2>2, <3>4, HeapOKExpanded
  <2>7. CASE behind[x] # 0
    <3>1. /\ a.head \in FreeSlots(r)
          /\ behind[a.head] = Cardinality(FreeSlots(r)) - 1 - 1
      BY <1>5, <1>6, <1>7, <2>7
    <3>2. a.head \in free /\ b[a.head] = Cardinality(free) - 1
      <4>1. a.head # x
        BY <1>6, <1>11, <3>1
      <4>2. a.head \in free
        BY <1>10, <3>1, <4>1
      <4> QED BY <1>11, <2>1, <3>1, <4>2
    <3>3. Linked(a, b)
      BY <2>2, <2>3, <2>4, <2>5, <3>2, LinkedExpanded
    <3> QED BY <2>2, <3>3, HeapOKExpanded
  <2> QED BY <2>6, <2>7
<1>15. x \in Nat /\ x \notin Live(h)
  BY <1>1, <1>4, <1>5 DEF FreeSlots
<1>16. Live(a) = Live(h) \cup {x}
  BY <1>1, <1>9
<1> QED BY <1>13, <1>14, <1>15, <1>16 DEF a, x

\* An id that is given back is the only one that dies.
LEMMA FreeOK ==
  ASSUME NEW h, HeapType(h), HeapOK(h), NEW x \in Live(h)
  PROVE  /\ HeapType(Free(h, x)) /\ HeapOK(Free(h, x))
         /\ Live(Free(h, x)) = Live(h) \ {x}
<1> DEFINE f == Free(h, x)
<1>1. f = [h EXCEPT !.head = x, !.next[x] = h.head]
  BY DEF Free
<1> HIDE DEF f
<1>2. PICK behind \in [FreeSlots(h) -> 0 .. Cardinality(FreeSlots(h))-1] : Linked(h, behind)
  BY HeapOKExpanded
<1>3. /\ h.size \in Nat /\ Slots(h) \subseteq Nat
      /\ DOMAIN h.next = Slots(h)
      /\ \A i \in Slots(h) : h.next[i] \in {Last, Allocated} \cup Slots(h)
      /\ DOMAIN h = {"size", "head", "next"} /\ h.head \in {Last} \cup Slots(h)
  BY HeapFacts
<1>4. x \in Slots(h) /\ x \notin FreeSlots(h) /\ h.next[x] = Allocated
  BY DEF Live, FreeSlots
<1>5. /\ \A i, j \in FreeSlots(h) : behind[i] = behind[j] => i = j
      /\ FreeSlots(h) = {} => h.head = Last
      /\ FreeSlots(h) # {} => /\ h.head \in FreeSlots(h)
                              /\ behind[h.head] = Cardinality(FreeSlots(h)) - 1
      /\ \A i \in FreeSlots(h) : behind[i] = 0 => h.next[i] = Last
      /\ \A i \in FreeSlots(h) : behind[i] # 0 =>
           h.next[i] \in FreeSlots(h) /\ behind[h.next[i]] = behind[i] - 1
  BY <1>2, LinkedExpanded
<1>6. /\ f.size = h.size /\ f.head = x /\ DOMAIN f = {"size", "head", "next"}
      /\ f.next = [h.next EXCEPT ![x] = h.head]
      /\ Slots(f) = Slots(h)
  BY <1>1, <1>3 DEF Slots
<1>7. /\ f.next[x] = h.head /\ DOMAIN f.next = Slots(h)
      /\ \A i \in Slots(h) : i # x => f.next[i] = h.next[i]
  BY <1>3, <1>4, <1>6
<1>8. h.head # Allocated
  BY <1>3 DEF Last, Allocated
<1>9. Live(f) = Live(h) \ {x}
  BY <1>4, <1>6, <1>7, <1>8 DEF Live
<1>10. FreeSlots(f) = FreeSlots(h) \cup {x}
  BY <1>4, <1>6, <1>9 DEF FreeSlots
<1>11. /\ Cardinality(FreeSlots(h)) \in Nat
       /\ Cardinality(FreeSlots(f)) = Cardinality(FreeSlots(h)) + 1
  BY <1>4, <1>10, FreeSlotsFinite, FS_AddElement
<1>12. HeapType(f)
  <2>1. f.next \in [0 .. h.size-1 -> {Last, Allocated} \cup 0 .. h.size-1]
    BY <1>3, <1>6, <1>7 DEF Slots
  <2>2. f = [size |-> f.size, head |-> f.head, next |-> f.next]
    BY <1>1, <1>3, <1>6
  <2> QED BY <1>3, <1>4, <1>6, <2>1, <2>2 DEF HeapType, Heap, Slots
<1>13. HeapOK(f)
  <2> DEFINE n == Cardinality(FreeSlots(h))
             free == FreeSlots(f)
             b == [i \in free |-> IF i = x THEN n ELSE behind[i]]
  <2>1. /\ x \in free /\ b[x] = n
        /\ \A i \in FreeSlots(h) : i \in free /\ i # x /\ b[i] = behind[i]
        /\ \A i \in free : i = x \/ i \in FreeSlots(h)
    BY <1>4, <1>10
  <2>2. \A i \in FreeSlots(h) : behind[i] \in 0 .. n-1
    BY <1>2
  <2>3. DOMAIN b = free
    OBVIOUS
  <2> HIDE DEF b
  <2>4. n \in Nat /\ Cardinality(free) = n + 1
    BY <1>11
  <2> HIDE DEF n
  <2>5. \A i \in free : b[i] \in 0 .. Cardinality(free)-1
    BY <2>1, <2>2, <2>4
  <2>6. b \in [free -> 0 .. Cardinality(free)-1]
    <3>1. b = [i \in free |-> b[i]]
      BY <2>3 DEF b
    <3> QED BY <2>5, <3>1
  <2>7. \A i, j \in free : b[i] = b[j] => i = j
    BY <1>5, <2>1, <2>2, <2>4
  <2>8. f.head \in free /\ b[f.head] = Cardinality(free) - 1
    BY <1>6, <2>1, <2>4
  <2>9. \A i \in FreeSlots(h) : i \in Slots(h) /\ f.next[i] = h.next[i]
    BY <1>7, <2>1 DEF FreeSlots
  <2>10. \A i \in free : b[i] = 0 => f.next[i] = Last
    <3>1. SUFFICES ASSUME b[x] = 0 PROVE f.next[x] = Last
      BY <1>5, <2>1, <2>9
    <3>2. FreeSlots(h) = {}
      BY <2>1, <2>2, <3>1
    <3> QED BY <1>5, <1>7, <3>2
  <2>11. \A i \in free : b[i] # 0 => f.next[i] \in free /\ b[f.next[i]] = b[i] - 1
    <3>1. ASSUME NEW i \in FreeSlots(h), b[i] # 0
          PROVE  f.next[i] \in free /\ b[f.next[i]] = b[i] - 1
      BY <1>5, <2>1, <2>9, <3>1
    <3>2. ASSUME b[x] # 0
          PROVE  f.next[x] \in free /\ b[f.next[x]] = b[x] - 1
      <4>1. FreeSlots(h) # {}
        BY <2>1, <3>2, FS_EmptySet DEF n
      <4>2. h.head \in FreeSlots(h) /\ behind[h.head] = n - 1
        BY <1>5, <4>1 DEF n
      <4> QED BY <1>7, <2>1, <4>2
    <3> QED BY <2>1, <3>1, <3>2
  <2>12. Linked(f, b)
    BY <2>3, <2>7, <2>8, <2>10, <2>11, LinkedExpanded
  <2> QED BY <2>6, <2>12, HeapOKExpanded
<1> QED BY <1>9, <1>12, <1>13 DEF f

\* An id that is taken and given back at once.
LEMMA FreeAllocatedOK ==
  ASSUME NEW h, HeapType(h), HeapOK(h)
  PROVE  LET g == Free(Allocate(h), NextId(h))
         IN  HeapType(g) /\ HeapOK(g) /\ Live(g) = Live(h)
<1>1. /\ HeapType(Allocate(h)) /\ HeapOK(Allocate(h))
      /\ NextId(h) \notin Live(h)
      /\ Live(Allocate(h)) = Live(h) \cup {NextId(h)}
  BY AllocateOK
<1>2. LET g == Free(Allocate(h), NextId(h))
      IN  HeapType(g) /\ HeapOK(g) /\ Live(g) = Live(Allocate(h)) \ {NextId(h)}
  BY <1>1, FreeOK
<1> QED BY <1>1, <1>2

-----------------------------------------------------------------------------
(* Surfaces, buffers and images.                                           *)

SurfaceRecords == [role : Roles, store : Blocks \cup {NoBlock}]

BufferRecords == [type : {"none", "data", "image"}, data : Blocks \cup {NoBlock},
                  borrowed : BOOLEAN, derived : SurfaceIds \cup {NoSurface}]

\* The slots of the client's objects.
SlotsTyped ==
  /\ surface \in [SurfaceIds -> SurfaceRecords]
  /\ buffer \in [BufferIds -> BufferRecords]
  /\ image \in [ImageIds -> BufferIds]
  /\ memory \in SUBSET Blocks
  /\ source \in [ImageIds -> SurfaceIds \cup {NoSurface, Unheld}]

HeapSound(h) == HeapType(h) /\ HeapOK(h)

HeapsSound ==
  /\ DOMAIN heap = {"surface", "buffer", "image"}
  /\ HeapSound(heap.surface) /\ HeapSound(heap.buffer) /\ HeapSound(heap.image)

\* The bounds are bounds: an object has an id that is modelled.
IdsInRange ==
  /\ LiveSurfaces \subseteq SurfaceIds
  /\ LiveBuffers \subseteq BufferIds
  /\ LiveImages \subseteq ImageIds

\* MemoryOwned in terms of the slots: the buffers and the surfaces that own
\* memory own all of it, and each a block of its own.
OwningBuffers  == {b \in LiveBuffers : ~buffer[b].borrowed}
OwningSurfaces == {s \in LiveSurfaces : surface[s].store # NoBlock}

BlocksOwned ==
  /\ \A b \in OwningBuffers : buffer[b].data \in memory
  /\ \A s \in OwningSurfaces : surface[s].store \in memory
  /\ \A m \in memory : \/ \E b \in OwningBuffers : buffer[b].data = m
                       \/ \E s \in OwningSurfaces : surface[s].store = m

BlocksDistinct ==
  /\ \A b, c \in OwningBuffers : buffer[b].data = buffer[c].data => b = c
  /\ \A s, t \in OwningSurfaces : surface[s].store = surface[t].store => s = t
  /\ \A b \in OwningBuffers, s \in OwningSurfaces : buffer[b].data # surface[s].store

IInv ==
  /\ SlotsTyped
  /\ HeapsSound
  /\ IdsInRange
  /\ BlocksOwned /\ BlocksDistinct
  /\ ImageOwnsBuffer
  /\ AliasTracksSurface

-----------------------------------------------------------------------------
(* The invariant implies the properties.                                   *)

LEMMA ImpliesTypeOK == SlotsTyped /\ HeapsSound => TypeOK
<1> SUFFICES ASSUME SlotsTyped, HeapsSound PROVE TypeOK
  OBVIOUS
<1>1. \A kind \in DOMAIN heap : heap[kind] \in Heap(heap[kind].size)
  BY DEF HeapsSound, HeapSound, HeapType
<1> QED BY <1>1 DEF SlotsTyped, HeapsSound, SurfaceRecords, BufferRecords, TypeOK

LEMMA ImpliesFreeListsSound == HeapsSound => FreeListsSound
BY DEF HeapsSound, HeapSound, FreeListsSound

LEMMA ImpliesMemoryOwned == BlocksOwned /\ BlocksDistinct => MemoryOwned
<1> SUFFICES ASSUME BlocksOwned, BlocksDistinct PROVE MemoryOwned
  OBVIOUS
<1>1. \A c \in LiveBuffers : OwnMemory(c) # {} <=> c \in OwningBuffers
  BY DEF OwnMemory, OwningBuffers
<1>2. Owners = {<<"buffer", b>> : b \in OwningBuffers} \cup
               {<<"surface", s>> : s \in OwningSurfaces}
  <2>1. {c \in LiveBuffers : OwnMemory(c) # {}} = OwningBuffers
    BY <1>1 DEF OwningBuffers
  <2> QED BY <2>1 DEF Owners, OwningSurfaces
<1>3. \A b \in OwningBuffers : OwnedBy(<<"buffer", b>>) = {buffer[b].data}
  BY DEF OwnedBy, OwnMemory, OwningBuffers
<1>4. \A s \in OwningSurfaces : OwnedBy(<<"surface", s>>) = {surface[s].store}
  BY DEF OwnedBy
<1>5. \A o \in Owners : \/ \E b \in OwningBuffers : o = <<"buffer", b>>
                        \/ \E s \in OwningSurfaces : o = <<"surface", s>>
  BY <1>2
<1>6. memory = UNION {OwnedBy(o) : o \in Owners}
  <2>1. \A m \in memory : \E o \in Owners : m \in OwnedBy(o)
    BY <1>2, <1>3, <1>4, ZenonT(60) DEF BlocksOwned
  <2>2. \A o \in Owners : OwnedBy(o) \subseteq memory
    BY <1>3, <1>4, <1>5 DEF BlocksOwned
  <2> QED BY <2>1, <2>2
<1>7. ASSUME NEW o \in Owners, NEW p \in Owners, o # p
      PROVE  OwnedBy(o) \cap OwnedBy(p) = {}
  <2>1. CASE \E b, c \in OwningBuffers : o = <<"buffer", b>> /\ p = <<"buffer", c>>
    BY <1>3, <1>7, <2>1 DEF BlocksDistinct
  <2>2. CASE \E s, t \in OwningSurfaces : o = <<"surface", s>> /\ p = <<"surface", t>>
    BY <1>4, <1>7, <2>2 DEF BlocksDistinct
  <2>3. CASE \E b \in OwningBuffers, s \in OwningSurfaces :
               o = <<"buffer", b>> /\ p = <<"surface", s>>
    BY <1>3, <1>4, <2>3 DEF BlocksDistinct
  <2>4. CASE \E b \in OwningBuffers, s \in OwningSurfaces :
               p = <<"buffer", b>> /\ o = <<"surface", s>>
    BY <1>3, <1>4, <2>4 DEF BlocksDistinct
  <2> QED BY <1>5, <1>7, <2>1, <2>2, <2>3, <2>4
<1> QED BY <1>6, <1>7 DEF MemoryOwned

-----------------------------------------------------------------------------
(* The initial states.                                                     *)

\* No object, and nothing allocated.
Empty ==
  /\ heap = [surface |-> NewHeap, buffer |-> NewHeap, image |-> NewHeap]
  /\ surface = [s \in SurfaceIds |-> FreshSurface]
  /\ buffer = [b \in BufferIds |-> FreeBuffer]
  /\ image = [i \in ImageIds |-> FreeImage]
  /\ memory = {}
  /\ source = [i \in ImageIds |-> Unheld]

LEMMA EmptyIInv == Empty => IInv
<1> SUFFICES ASSUME Empty PROVE IInv
  OBVIOUS
<1>1. HeapsSound
  BY NewHeapOK DEF Empty, HeapsSound, HeapSound
<1>2. LiveSurfaces = {} /\ LiveBuffers = {} /\ LiveImages = {}
  BY NewHeapOK DEF Empty, LiveSurfaces, LiveBuffers, LiveImages
<1>3. SlotsTyped
  <2>1. FreshSurface \in SurfaceRecords
    BY DEF FreshSurface, SurfaceRecords, Roles
  <2>2. FreeBuffer \in BufferRecords
    BY DEF FreeBuffer, PlainBuffer, BufferRecords
  <2>3. FreeImage \in BufferIds
    BY ImagesAssumption DEF FreeImage, BufferIds
  <2> QED BY <2>1, <2>2, <2>3 DEF Empty, SlotsTyped
<1>4. \A i \in ImageIds : source[i] = Unheld
  BY DEF Empty
<1>5. Unheld \notin SurfaceIds
  BY DEF Unheld, SurfaceIds
<1>6. BlocksOwned /\ BlocksDistinct
  BY <1>2 DEF Empty, BlocksOwned, BlocksDistinct, OwningBuffers, OwningSurfaces
<1>7. ImageOwnsBuffer
  BY <1>2, <1>4 DEF ImageOwnsBuffer
<1>8. AliasTracksSurface
  BY <1>4, <1>5 DEF AliasTracksSurface
<1> QED BY <1>1, <1>2, <1>3, <1>6, <1>7, <1>8 DEF IInv, IdsInRange

-----------------------------------------------------------------------------
(* What the operations do to the heaps.                                    *)

LEMMA Taken ==
  ASSUME NEW h, HeapSound(h), NEW bound \in Nat, NextId(h) < bound
  PROVE  /\ HeapSound(Allocate(h))
         /\ NextId(h) \in (0 .. bound-1) \ Live(h)
         /\ Live(Allocate(h)) = Live(h) \cup {NextId(h)}
BY AllocateOK DEF HeapSound

LEMMA Returned ==
  ASSUME NEW h, HeapSound(h), NEW x \in Live(h)
  PROVE  HeapSound(Free(h, x)) /\ Live(Free(h, x)) = Live(h) \ {x}
BY FreeOK DEF HeapSound

LEMMA TakenInVain ==
  ASSUME NEW h, HeapSound(h)
  PROVE  LET g == Free(Allocate(h), NextId(h))
         IN  HeapSound(g) /\ Live(g) = Live(h)
BY FreeAllocatedOK DEF HeapSound

\* The heaps are sound, and the ids in range, when the ids that have come are in
\* range.
LEMMA NewHeaps ==
  ASSUME IInv, DOMAIN heap' = {"surface", "buffer", "image"},
         HeapSound(heap'.surface), HeapSound(heap'.buffer), HeapSound(heap'.image),
         Live(heap'.surface) \subseteq LiveSurfaces \cup SurfaceIds,
         Live(heap'.buffer) \subseteq LiveBuffers \cup BufferIds,
         Live(heap'.image) \subseteq LiveImages \cup ImageIds
  PROVE  HeapsSound' /\ IdsInRange'
<1>1. HeapsSound'
  BY DEF HeapsSound
<1>2. IdsInRange'
  BY DEF IInv, IdsInRange, SurfaceIds, BufferIds, ImageIds,
         LiveSurfaces, LiveBuffers, LiveImages
<1> QED BY <1>1, <1>2

LEMMA SameHeaps ==
  ASSUME IInv, UNCHANGED heap
  PROVE  /\ HeapsSound' /\ IdsInRange'
         /\ LiveSurfaces' = LiveSurfaces /\ LiveBuffers' = LiveBuffers
         /\ LiveImages' = LiveImages
BY DEF IInv, HeapsSound, IdsInRange, LiveSurfaces, LiveBuffers, LiveImages,
       SurfaceIds, BufferIds, ImageIds

\* The id that is taken is one of those modelled, and names no object.
LEMMA SurfaceIdTaken ==
  ASSUME IInv, RoomFor("surface", MaxSurfaces),
         heap' = [heap EXCEPT !.surface = Allocate(@)]
  PROVE  /\ HeapsSound' /\ IdsInRange'
         /\ NextId(heap.surface) \in SurfaceIds \ LiveSurfaces
         /\ LiveSurfaces' = LiveSurfaces \cup {NextId(heap.surface)}
         /\ LiveBuffers' = LiveBuffers /\ LiveImages' = LiveImages
<1>1. /\ heap'.surface = Allocate(heap.surface)
      /\ heap'.buffer = heap.buffer /\ heap'.image = heap.image
      /\ DOMAIN heap' = {"surface", "buffer", "image"}
  BY DEF IInv, HeapsSound
<1>2. /\ HeapSound(heap.surface) /\ HeapSound(heap.buffer) /\ HeapSound(heap.image)
  BY DEF IInv, HeapsSound
<1>3. /\ HeapSound(Allocate(heap.surface))
      /\ NextId(heap.surface) \in SurfaceIds \ LiveSurfaces
      /\ Live(Allocate(heap.surface)) = LiveSurfaces \cup {NextId(heap.surface)}
  BY <1>2, Taken, ImagesAssumption DEF RoomFor, SurfaceIds, LiveSurfaces
<1>4. /\ LiveSurfaces' = LiveSurfaces \cup {NextId(heap.surface)}
      /\ LiveBuffers' = LiveBuffers /\ LiveImages' = LiveImages
  BY <1>1, <1>3 DEF LiveSurfaces, LiveBuffers, LiveImages
<1>5. HeapsSound' /\ IdsInRange'
  BY <1>1, <1>2, <1>3, NewHeaps DEF LiveBuffers, LiveImages
<1> QED BY <1>3, <1>4, <1>5

LEMMA SurfaceIdReturned ==
  ASSUME IInv, NEW s \in LiveSurfaces, heap' = [heap EXCEPT !.surface = Free(@, s)]
  PROVE  /\ HeapsSound' /\ IdsInRange'
         /\ LiveSurfaces' = LiveSurfaces \ {s}
         /\ LiveBuffers' = LiveBuffers /\ LiveImages' = LiveImages
<1>1. /\ heap'.surface = Free(heap.surface, s)
      /\ heap'.buffer = heap.buffer /\ heap'.image = heap.image
      /\ DOMAIN heap' = {"surface", "buffer", "image"}
  BY DEF IInv, HeapsSound
<1>2. /\ HeapSound(heap.surface) /\ HeapSound(heap.buffer) /\ HeapSound(heap.image)
  BY DEF IInv, HeapsSound
<1>3. /\ HeapSound(Free(heap.surface, s))
      /\ Live(Free(heap.surface, s)) = LiveSurfaces \ {s}
  BY <1>2, Returned DEF LiveSurfaces
<1>4. /\ LiveSurfaces' = LiveSurfaces \ {s}
      /\ LiveBuffers' = LiveBuffers /\ LiveImages' = LiveImages
  BY <1>1, <1>3 DEF LiveSurfaces, LiveBuffers, LiveImages
<1>5. HeapsSound' /\ IdsInRange'
  BY <1>1, <1>2, <1>3, NewHeaps DEF LiveBuffers, LiveImages
<1> QED BY <1>4, <1>5

LEMMA BufferIdTaken ==
  ASSUME IInv, RoomFor("buffer", MaxBuffers),
         heap' = [heap EXCEPT !.buffer = Allocate(@)]
  PROVE  /\ HeapsSound' /\ IdsInRange'
         /\ NextId(heap.buffer) \in BufferIds \ LiveBuffers
         /\ LiveBuffers' = LiveBuffers \cup {NextId(heap.buffer)}
         /\ LiveSurfaces' = LiveSurfaces /\ LiveImages' = LiveImages
<1>1. /\ heap'.buffer = Allocate(heap.buffer)
      /\ heap'.surface = heap.surface /\ heap'.image = heap.image
      /\ DOMAIN heap' = {"surface", "buffer", "image"}
  BY DEF IInv, HeapsSound
<1>2. /\ HeapSound(heap.surface) /\ HeapSound(heap.buffer) /\ HeapSound(heap.image)
  BY DEF IInv, HeapsSound
<1>3. /\ HeapSound(Allocate(heap.buffer))
      /\ NextId(heap.buffer) \in BufferIds \ LiveBuffers
      /\ Live(Allocate(heap.buffer)) = LiveBuffers \cup {NextId(heap.buffer)}
  BY <1>2, Taken, ImagesAssumption DEF RoomFor, BufferIds, LiveBuffers
<1>4. /\ LiveBuffers' = LiveBuffers \cup {NextId(heap.buffer)}
      /\ LiveSurfaces' = LiveSurfaces /\ LiveImages' = LiveImages
  BY <1>1, <1>3 DEF LiveSurfaces, LiveBuffers, LiveImages
<1>5. HeapsSound' /\ IdsInRange'
  BY <1>1, <1>2, <1>3, NewHeaps DEF LiveSurfaces, LiveImages
<1> QED BY <1>3, <1>4, <1>5

LEMMA BufferIdReturned ==
  ASSUME IInv, NEW b \in LiveBuffers, heap' = [heap EXCEPT !.buffer = Free(@, b)]
  PROVE  /\ HeapsSound' /\ IdsInRange'
         /\ LiveBuffers' = LiveBuffers \ {b}
         /\ LiveSurfaces' = LiveSurfaces /\ LiveImages' = LiveImages
<1>1. /\ heap'.buffer = Free(heap.buffer, b)
      /\ heap'.surface = heap.surface /\ heap'.image = heap.image
      /\ DOMAIN heap' = {"surface", "buffer", "image"}
  BY DEF IInv, HeapsSound
<1>2. /\ HeapSound(heap.surface) /\ HeapSound(heap.buffer) /\ HeapSound(heap.image)
  BY DEF IInv, HeapsSound
<1>3. /\ HeapSound(Free(heap.buffer, b))
      /\ Live(Free(heap.buffer, b)) = LiveBuffers \ {b}
  BY <1>2, Returned DEF LiveBuffers
<1>4. /\ LiveBuffers' = LiveBuffers \ {b}
      /\ LiveSurfaces' = LiveSurfaces /\ LiveImages' = LiveImages
  BY <1>1, <1>3 DEF LiveSurfaces, LiveBuffers, LiveImages
<1>5. HeapsSound' /\ IdsInRange'
  BY <1>1, <1>2, <1>3, NewHeaps DEF LiveSurfaces, LiveImages
<1> QED BY <1>4, <1>5

\* A buffer that got no memory leaves no trace.
LEMMA BufferIdInVain ==
  ASSUME IInv, heap' = [heap EXCEPT !.buffer = Free(Allocate(@), NextId(@))]
  PROVE  /\ HeapsSound' /\ IdsInRange'
         /\ LiveSurfaces' = LiveSurfaces /\ LiveBuffers' = LiveBuffers
         /\ LiveImages' = LiveImages
<1>1. /\ heap'.buffer = Free(Allocate(heap.buffer), NextId(heap.buffer))
      /\ heap'.surface = heap.surface /\ heap'.image = heap.image
      /\ DOMAIN heap' = {"surface", "buffer", "image"}
  BY DEF IInv, HeapsSound
<1>2. /\ HeapSound(heap.surface) /\ HeapSound(heap.buffer) /\ HeapSound(heap.image)
  BY DEF IInv, HeapsSound
<1>3. HeapSound(heap'.buffer) /\ Live(heap'.buffer) = LiveBuffers
  BY <1>1, <1>2, TakenInVain DEF LiveBuffers
<1>4. /\ LiveSurfaces' = LiveSurfaces /\ LiveBuffers' = LiveBuffers
      /\ LiveImages' = LiveImages
  BY <1>1, <1>3 DEF LiveSurfaces, LiveBuffers, LiveImages
<1>5. HeapsSound' /\ IdsInRange'
  BY <1>1, <1>2, <1>3, NewHeaps DEF LiveSurfaces, LiveImages
<1> QED BY <1>4, <1>5

\* An image that is made takes an id of its own and one for its buffer.
LEMMA ImageIdsTaken ==
  ASSUME IInv, RoomForImage, NEW data, data # NoBlock, heap' = NewImage(data)
  PROVE  /\ HeapsSound' /\ IdsInRange'
         /\ NextId(heap.buffer) \in BufferIds \ LiveBuffers
         /\ NextId(heap.image) \in ImageIds \ LiveImages
         /\ LiveSurfaces' = LiveSurfaces
         /\ LiveBuffers' = LiveBuffers \cup {NextId(heap.buffer)}
         /\ LiveImages' = LiveImages \cup {NextId(heap.image)}
<1>1. /\ heap'.buffer = Allocate(heap.buffer) /\ heap'.image = Allocate(heap.image)
      /\ heap'.surface = heap.surface
      /\ DOMAIN heap' = {"surface", "buffer", "image"}
  BY DEF IInv, HeapsSound, NewImage
<1>2. /\ HeapSound(heap.surface) /\ HeapSound(heap.buffer) /\ HeapSound(heap.image)
  BY DEF IInv, HeapsSound
<1>3. /\ HeapSound(Allocate(heap.buffer))
      /\ NextId(heap.buffer) \in BufferIds \ LiveBuffers
      /\ Live(Allocate(heap.buffer)) = LiveBuffers \cup {NextId(heap.buffer)}
  BY <1>2, Taken, ImagesAssumption DEF RoomForImage, RoomFor, BufferIds, LiveBuffers
<1>4. /\ HeapSound(Allocate(heap.image))
      /\ NextId(heap.image) \in ImageIds \ LiveImages
      /\ Live(Allocate(heap.image)) = LiveImages \cup {NextId(heap.image)}
  BY <1>2, Taken, ImagesAssumption DEF RoomForImage, RoomFor, ImageIds, LiveImages
<1>5. /\ LiveSurfaces' = LiveSurfaces
      /\ LiveBuffers' = LiveBuffers \cup {NextId(heap.buffer)}
      /\ LiveImages' = LiveImages \cup {NextId(heap.image)}
  BY <1>1, <1>3, <1>4 DEF LiveSurfaces, LiveBuffers, LiveImages
<1>6. HeapsSound' /\ IdsInRange'
  BY <1>1, <1>2, <1>3, <1>4, NewHeaps DEF LiveSurfaces
<1> QED BY <1>3, <1>4, <1>5, <1>6

LEMMA ImageIdsInVain ==
  ASSUME IInv, heap' = NewImage(NoBlock)
  PROVE  /\ HeapsSound' /\ IdsInRange'
         /\ LiveSurfaces' = LiveSurfaces /\ LiveBuffers' = LiveBuffers
         /\ LiveImages' = LiveImages
<1>1. /\ heap'.buffer = Free(Allocate(heap.buffer), NextId(heap.buffer))
      /\ heap'.image = Free(Allocate(heap.image), NextId(heap.image))
      /\ heap'.surface = heap.surface
      /\ DOMAIN heap' = {"surface", "buffer", "image"}
  BY DEF IInv, HeapsSound, NewImage
<1>2. /\ HeapSound(heap.surface) /\ HeapSound(heap.buffer) /\ HeapSound(heap.image)
  BY DEF IInv, HeapsSound
<1>3. HeapSound(heap'.buffer) /\ Live(heap'.buffer) = LiveBuffers
  BY <1>1, <1>2, TakenInVain DEF LiveBuffers
<1>4. HeapSound(heap'.image) /\ Live(heap'.image) = LiveImages
  BY <1>1, <1>2, TakenInVain DEF LiveImages
<1>5. /\ LiveSurfaces' = LiveSurfaces /\ LiveBuffers' = LiveBuffers
      /\ LiveImages' = LiveImages
  BY <1>1, <1>3, <1>4 DEF LiveSurfaces, LiveBuffers, LiveImages
<1>6. HeapsSound' /\ IdsInRange'
  BY <1>1, <1>2, <1>3, <1>4, NewHeaps DEF LiveSurfaces
<1> QED BY <1>5, <1>6

LEMMA ImageIdsReturned ==
  ASSUME IInv, NEW b \in LiveBuffers, NEW i \in LiveImages,
         heap' = [heap EXCEPT !.buffer = Free(@, b), !.image = Free(@, i)]
  PROVE  /\ HeapsSound' /\ IdsInRange'
         /\ LiveSurfaces' = LiveSurfaces
         /\ LiveBuffers' = LiveBuffers \ {b} /\ LiveImages' = LiveImages \ {i}
<1>1. /\ heap'.buffer = Free(heap.buffer, b) /\ heap'.image = Free(heap.image, i)
      /\ heap'.surface = heap.surface
      /\ DOMAIN heap' = {"surface", "buffer", "image"}
  BY DEF IInv, HeapsSound
<1>2. /\ HeapSound(heap.surface) /\ HeapSound(heap.buffer) /\ HeapSound(heap.image)
  BY DEF IInv, HeapsSound
<1>3. HeapSound(Free(heap.buffer, b)) /\ Live(Free(heap.buffer, b)) = LiveBuffers \ {b}
  BY <1>2, Returned DEF LiveBuffers
<1>4. HeapSound(Free(heap.image, i)) /\ Live(Free(heap.image, i)) = LiveImages \ {i}
  BY <1>2, Returned DEF LiveImages
<1>5. /\ LiveSurfaces' = LiveSurfaces
      /\ LiveBuffers' = LiveBuffers \ {b} /\ LiveImages' = LiveImages \ {i}
  BY <1>1, <1>3, <1>4 DEF LiveSurfaces, LiveBuffers, LiveImages
<1>6. HeapsSound' /\ IdsInRange'
  BY <1>1, <1>2, <1>3, <1>4, NewHeaps DEF LiveSurfaces
<1> QED BY <1>5, <1>6

-----------------------------------------------------------------------------
(* The surfaces.                                                           *)

LEMMA SurfaceFields ==
  ASSUME IInv
  PROVE  /\ DOMAIN surface = SurfaceIds
         /\ \A s \in SurfaceIds : /\ surface[s] \in SurfaceRecords
                                  /\ surface[s].role \in Roles
                                  /\ surface[s].store \in Blocks \cup {NoBlock}
         /\ memory \subseteq Blocks /\ NoBlock \notin memory
         /\ LiveSurfaces \subseteq SurfaceIds
BY ImagesAssumption DEF IInv, SlotsTyped, IdsInRange, SurfaceRecords

\* A step that changes a surface and the memory leaves the images what they were.
LEMMA SameImages ==
  ASSUME IInv, UNCHANGED <<buffer, image, source>>,
         LiveBuffers' = LiveBuffers, LiveImages' = LiveImages
  PROVE  ImageOwnsBuffer' /\ OwningBuffers' = OwningBuffers
<1>1. OwningBuffers' = OwningBuffers
  BY DEF OwningBuffers
<1>2. ImageOwnsBuffer'
  BY DEF IInv, ImageOwnsBuffer, ImageIds
<1> QED BY <1>1, <1>2

LEMMA CreateSurfaceKeeps == ASSUME IInv, CreateSurface PROVE IInv'
<1> DEFINE new == NextId(heap.surface)
<1>1. /\ HeapsSound' /\ IdsInRange'
      /\ new \in SurfaceIds \ LiveSurfaces
      /\ LiveSurfaces' = LiveSurfaces \cup {new}
      /\ LiveBuffers' = LiveBuffers /\ LiveImages' = LiveImages
  BY SurfaceIdTaken DEF CreateSurface
<1>2. /\ surface' = [surface EXCEPT ![new] = FreshSurface]
      /\ UNCHANGED <<buffer, image, memory, source>>
  BY DEF CreateSurface
<1> HIDE DEF new
<1>3. FreshSurface \in SurfaceRecords /\ FreshSurface.store = NoBlock
  BY DEF FreshSurface, SurfaceRecords, Roles
<1>4. SlotsTyped'
  BY <1>2, <1>3 DEF IInv, SlotsTyped, SurfaceIds, BufferIds, ImageIds, BufferRecords,
                    SurfaceRecords
<1>5. /\ surface'[new] = FreshSurface
      /\ \A s \in SurfaceIds : s # new => surface'[s] = surface[s]
  BY <1>1, <1>2, SurfaceFields
<1>6. ImageOwnsBuffer' /\ OwningBuffers' = OwningBuffers
  BY <1>1, <1>2, SameImages
<1>7. OwningSurfaces' = OwningSurfaces
  BY <1>1, <1>3, <1>5, SurfaceFields DEF OwningSurfaces
<1>8. \A s \in OwningSurfaces : surface'[s] = surface[s]
  BY <1>1, <1>5, SurfaceFields DEF OwningSurfaces
<1>9. BlocksOwned' /\ BlocksDistinct'
  BY <1>2, <1>6, <1>7, <1>8 DEF IInv, BlocksOwned, BlocksDistinct
<1>10. AliasTracksSurface'
  BY <1>1, <1>2, <1>5 DEF IInv, AliasTracksSurface, SurfaceIds, ImageIds
<1> QED BY <1>1, <1>4, <1>6, <1>9, <1>10 DEF IInv

LEMMA ClaimSurfaceKeeps ==
  ASSUME IInv, NEW s \in LiveSurfaces, NEW role \in Roles, ClaimSurface(s, role)
  PROVE  IInv'
<1>1. /\ HeapsSound' /\ IdsInRange' /\ LiveSurfaces' = LiveSurfaces
      /\ LiveBuffers' = LiveBuffers /\ LiveImages' = LiveImages
  BY SameHeaps DEF ClaimSurface
<1>2. /\ surface' = [surface EXCEPT ![s].role = Claimed(s, role)]
      /\ UNCHANGED <<buffer, image, memory, source>>
  BY DEF ClaimSurface
<1>3. Claimed(s, role) \in Roles
  BY SurfaceFields DEF Claimed
<1>4. \A t \in SurfaceIds : surface'[t].store = surface[t].store
  BY <1>2, SurfaceFields DEF SurfaceRecords
<1>5. surface' \in [SurfaceIds -> SurfaceRecords]
  BY <1>2, <1>3, SurfaceFields DEF IInv, SlotsTyped, SurfaceRecords
<1>6. SlotsTyped'
  BY <1>2, <1>5 DEF IInv, SlotsTyped, SurfaceIds, BufferIds, ImageIds, BufferRecords,
                    SurfaceRecords
<1>7. ImageOwnsBuffer' /\ OwningBuffers' = OwningBuffers
  BY <1>1, <1>2, SameImages
<1>8. OwningSurfaces' = OwningSurfaces
  BY <1>1, <1>4, SurfaceFields DEF OwningSurfaces
<1>9. \A t \in OwningSurfaces : surface'[t].store = surface[t].store
  BY <1>4, SurfaceFields DEF OwningSurfaces
<1>10. BlocksOwned' /\ BlocksDistinct'
  BY <1>2, <1>7, <1>8, <1>9 DEF IInv, BlocksOwned, BlocksDistinct
<1>11. AliasTracksSurface'
  BY <1>1, <1>2, <1>4 DEF IInv, AliasTracksSurface, SurfaceIds, ImageIds
<1> QED BY <1>1, <1>6, <1>7, <1>10, <1>11 DEF IInv

\* The surface gets its store, or keeps the one it has.
LEMMA StoredOnce ==
  ASSUME IInv, NEW s \in LiveSurfaces, NEW free \in SUBSET Unused,
         NEW store \in Stores(s, free)
  PROVE  /\ store \in Blocks \cup {NoBlock}
         /\ surface[s].store # NoBlock => store = surface[s].store
         /\ surface[s].store = NoBlock => store \notin memory
         /\ \A m : m \in MemoryWith(store) <=> m \in memory \/ (m = store /\ m # NoBlock)
BY SurfaceFields, ImagesAssumption DEF Stores, Unused, MemoryWith

LEMMA StoreSurfaceKeeps ==
  ASSUME IInv, NEW s \in LiveSurfaces, NEW role \in Roles, StoreSurface(s, role)
  PROVE  IInv'
<1>1. /\ HeapsSound' /\ IdsInRange' /\ LiveSurfaces' = LiveSurfaces
      /\ LiveBuffers' = LiveBuffers /\ LiveImages' = LiveImages
  BY SameHeaps DEF StoreSurface
<1>2. PICK store \in Stores(s, Unused) :
        /\ memory' = MemoryWith(store)
        /\ surface' = [surface EXCEPT ![s].store = store, ![s].role = Claimed(s, role)]
        /\ UNCHANGED <<buffer, image, source>>
  BY DEF StoreSurface
<1>3. /\ store \in Blocks \cup {NoBlock}
      /\ surface[s].store # NoBlock => store = surface[s].store
      /\ surface[s].store = NoBlock => store \notin memory
      /\ \A m : m \in memory' <=> m \in memory \/ (m = store /\ m # NoBlock)
  BY <1>2, StoredOnce
<1>4. Claimed(s, role) \in Roles
  BY SurfaceFields DEF Claimed
<1>5. /\ surface'[s].store = store
      /\ \A t \in SurfaceIds : t # s => surface'[t] = surface[t]
  BY <1>2, SurfaceFields DEF SurfaceRecords
<1>6. surface' \in [SurfaceIds -> SurfaceRecords]
  BY <1>2, <1>3, <1>4, SurfaceFields DEF IInv, SlotsTyped, SurfaceRecords
<1>7. memory' \in SUBSET Blocks
  BY <1>3, SurfaceFields
<1>8. SlotsTyped'
  BY <1>2, <1>6, <1>7 DEF IInv, SlotsTyped, SurfaceIds, BufferIds, ImageIds, BufferRecords,
                          SurfaceRecords
<1>9. ImageOwnsBuffer' /\ OwningBuffers' = OwningBuffers
  BY <1>1, <1>2, SameImages
<1>10. \A t \in SurfaceIds : t \in OwningSurfaces' <=>
         t \in OwningSurfaces \/ (t = s /\ store # NoBlock)
  BY <1>1, <1>3, <1>5 DEF OwningSurfaces
<1>11. OwningSurfaces' \subseteq SurfaceIds /\ OwningSurfaces \subseteq SurfaceIds
  BY <1>1, SurfaceFields DEF OwningSurfaces
<1>12. \A t \in OwningSurfaces : surface'[t].store = surface[t].store
  BY <1>3, <1>5, <1>11 DEF OwningSurfaces
<1>13. s \in OwningSurfaces \/ store \notin memory
  BY <1>3 DEF OwningSurfaces
<1>14. /\ \A b \in OwningBuffers : buffer[b].data \in memory
       /\ \A t \in OwningSurfaces : surface[t].store \in memory
  BY DEF IInv, BlocksOwned
<1>15. BlocksOwned'
  <2>1. \A b \in OwningBuffers' : buffer'[b].data \in memory'
    BY <1>2, <1>3, <1>9, <1>14
  <2>2. \A t \in OwningSurfaces' : surface'[t].store \in memory'
    BY <1>3, <1>5, <1>10, <1>11, <1>12, <1>14
  <2>3. \A m \in memory' : \/ \E b \in OwningBuffers' : buffer'[b].data = m
                           \/ \E t \in OwningSurfaces' : surface'[t].store = m
    <3>1. \A m \in memory : \/ \E b \in OwningBuffers' : buffer'[b].data = m
                            \/ \E t \in OwningSurfaces' : surface'[t].store = m
      BY <1>2, <1>9, <1>10, <1>11, <1>12 DEF IInv, BlocksOwned
    <3>2. store # NoBlock => s \in OwningSurfaces' /\ surface'[s].store = store
      BY <1>5, <1>10, SurfaceFields
    <3>3. SUFFICES ASSUME NEW m \in memory'
                   PROVE  \/ \E b \in OwningBuffers' : buffer'[b].data = m
                          \/ \E t \in OwningSurfaces' : surface'[t].store = m
      OBVIOUS
    <3>4. CASE m \in memory
      BY <3>1, <3>4
    <3>5. CASE m = store /\ store # NoBlock
      BY <3>2, <3>5
    <3> QED BY <1>3, <3>4, <3>5
  <2> QED BY <2>1, <2>2, <2>3 DEF BlocksOwned
<1>16. BlocksDistinct'
  <2>1. \A b, c \in OwningBuffers' : buffer'[b].data = buffer'[c].data => b = c
    BY <1>2, <1>9 DEF IInv, BlocksDistinct
  <2>2. \A t, u \in OwningSurfaces' : surface'[t].store = surface'[u].store => t = u
    BY <1>5, <1>10, <1>11, <1>12, <1>13, <1>14 DEF IInv, BlocksDistinct
  <2>3. \A b \in OwningBuffers', t \in OwningSurfaces' : buffer'[b].data # surface'[t].store
    <3>1. \A b \in OwningBuffers : buffer[b].data # store
      BY <1>5, <1>12, <1>13, <1>14 DEF IInv, BlocksDistinct
    <3>2. \A t \in OwningSurfaces' : surface'[t].store = store \/ t \in OwningSurfaces
      BY <1>5, <1>10, <1>11
    <3>3. \A b \in OwningBuffers, t \in OwningSurfaces : buffer[b].data # surface'[t].store
      BY <1>12 DEF IInv, BlocksDistinct
    <3> QED BY <1>2, <1>9, <3>1, <3>2, <3>3
  <2> QED BY <2>1, <2>2, <2>3 DEF BlocksDistinct
<1>17. AliasTracksSurface'
  <2>1. SUFFICES ASSUME NEW i \in ImageIds, source[i] \in SurfaceIds
                 PROVE  LET b == buffer[image[i]]
                        IN  /\ source[i] \in LiveSurfaces /\ b.derived = source[i]
                            /\ b.borrowed => /\ b.data = surface'[source[i]].store
                                             /\ b.data \in memory'
    BY <1>1, <1>2 DEF AliasTracksSurface, ImageIds, SurfaceIds
  <2> DEFINE b == buffer[image[i]]
  <2>2. /\ source[i] \in LiveSurfaces /\ b.derived = source[i]
        /\ b.borrowed => b.data = surface[source[i]].store /\ b.data \in memory
    BY <2>1 DEF IInv, AliasTracksSurface
  <2> HIDE DEF b
  <2>3. b.borrowed => surface'[source[i]].store = surface[source[i]].store
    BY <1>3, <1>5, <2>1, <2>2, SurfaceFields
  <2>4. b.borrowed => b.data = surface'[source[i]].store /\ b.data \in memory'
    BY <1>3, <2>2, <2>3
  <2> QED BY <2>2, <2>4 DEF b
<1> QED BY <1>1, <1>8, <1>9, <1>15, <1>16, <1>17 DEF IInv

\* The store of the surface is nobody else's, so the images of other surfaces
\* keep theirs.
LEMMA DestroySurfaceKeeps ==
  ASSUME IInv, NEW s \in LiveSurfaces, DestroySurface(s) PROVE IInv'
<1>1. /\ HeapsSound' /\ IdsInRange' /\ LiveSurfaces' = LiveSurfaces \ {s}
      /\ LiveBuffers' = LiveBuffers /\ LiveImages' = LiveImages
  BY SurfaceIdReturned DEF DestroySurface
<1>2. /\ surface' = [surface EXCEPT ![s] = FreshSurface]
      /\ memory' = memory \ {surface[s].store}
      /\ source' = [i \in ImageIds |-> IF source[i] = s THEN NoSurface ELSE source[i]]
      /\ UNCHANGED <<buffer, image>>
  BY DEF DestroySurface
<1>3. FreshSurface \in SurfaceRecords
  BY DEF FreshSurface, SurfaceRecords, Roles
<1>4. /\ surface' \in [SurfaceIds -> SurfaceRecords]
      /\ \A t \in SurfaceIds : t # s => surface'[t] = surface[t]
  BY <1>2, <1>3, SurfaceFields DEF IInv, SlotsTyped
<1>5. source' \in [ImageIds -> SurfaceIds \cup {NoSurface, Unheld}]
  BY <1>2 DEF IInv, SlotsTyped
<1>6. SlotsTyped'
  BY <1>2, <1>4, <1>5 DEF IInv, SlotsTyped, SurfaceIds, BufferIds, ImageIds, BufferRecords,
                          SurfaceRecords
<1>7. OwningBuffers' = OwningBuffers /\ OwningSurfaces' = OwningSurfaces \ {s}
  BY <1>1, <1>2, <1>4, SurfaceFields DEF OwningBuffers, OwningSurfaces
<1>8. \A t \in OwningSurfaces' : surface'[t] = surface[t] /\ t \in OwningSurfaces /\ t # s
  BY <1>4, <1>7, SurfaceFields DEF OwningSurfaces
<1>9. s \in OwningSurfaces \/ surface[s].store \notin memory
  BY SurfaceFields DEF OwningSurfaces
<1>10. BlocksOwned'
  BY <1>2, <1>7, <1>8, <1>9 DEF IInv, BlocksOwned, BlocksDistinct
<1>11. BlocksDistinct'
  BY <1>2, <1>7, <1>8 DEF IInv, BlocksDistinct
<1>12. ImageOwnsBuffer'
  <2>1. \A i \in ImageIds : source'[i] # Unheld => source[i] # Unheld
    BY <1>2, SurfaceFields DEF Unheld, SurfaceIds
  <2> QED BY <1>1, <1>2, <2>1 DEF IInv, ImageOwnsBuffer, ImageIds
<1>13. AliasTracksSurface'
  <2>1. SUFFICES ASSUME NEW i \in ImageIds, source'[i] \in SurfaceIds
                 PROVE  LET b == buffer[image[i]]
                        IN  /\ source'[i] \in LiveSurfaces' /\ b.derived = source'[i]
                            /\ b.borrowed => /\ b.data = surface'[source'[i]].store
                                             /\ b.data \in memory'
    BY <1>2 DEF AliasTracksSurface, ImageIds, SurfaceIds
  <2> DEFINE b == buffer[image[i]]
  <2>2. source'[i] = source[i] /\ source[i] # s
    BY <1>2, <2>1 DEF NoSurface, SurfaceIds
  <2>3. /\ source[i] \in LiveSurfaces /\ b.derived = source[i]
        /\ b.borrowed => b.data = surface[source[i]].store /\ b.data \in memory
    BY <2>1, <2>2 DEF IInv, AliasTracksSurface
  <2> HIDE DEF b
  <2>4. b.borrowed => source[i] \in OwningSurfaces
    BY <2>3, SurfaceFields DEF OwningSurfaces
  <2>5. b.borrowed => b.data # surface[s].store
    BY <1>9, <2>2, <2>3, <2>4 DEF IInv, BlocksDistinct
  <2>6. b.borrowed => b.data = surface'[source[i]].store /\ b.data \in memory'
    BY <1>2, <1>4, <2>2, <2>3, <2>5, SurfaceFields
  <2> QED BY <1>1, <2>2, <2>3, <2>6 DEF b
<1> QED BY <1>1, <1>6, <1>10, <1>11, <1>12, <1>13 DEF IInv

-----------------------------------------------------------------------------
(* The buffers.                                                            *)

LEMMA BufferFields ==
  ASSUME IInv
  PROVE  /\ DOMAIN buffer = BufferIds /\ DOMAIN image = ImageIds
         /\ DOMAIN source = ImageIds
         /\ \A b \in BufferIds : /\ buffer[b] \in BufferRecords
                                 /\ buffer[b].data \in Blocks \cup {NoBlock}
                                 /\ buffer[b].borrowed \in BOOLEAN
         /\ \A i \in ImageIds : image[i] \in BufferIds
         /\ LiveBuffers \subseteq BufferIds /\ LiveImages \subseteq ImageIds
BY DEF IInv, SlotsTyped, IdsInRange, BufferRecords

\* An image that the client has is alive, and so is its buffer.
LEMMA HeldImage ==
  ASSUME IInv, NEW i \in ImageIds, source[i] \in SurfaceIds
  PROVE  /\ i \in LiveImages /\ image[i] \in LiveBuffers
         /\ buffer[image[i]].type = "image"
BY DEF IInv, ImageOwnsBuffer, Unheld, SurfaceIds

LEMMA PlainBufferTyped ==
  ASSUME NEW type \in {"none", "data", "image"}, NEW data \in Blocks \cup {NoBlock}
  PROVE  /\ PlainBuffer(type, data) \in BufferRecords
         /\ PlainBuffer(type, data).type = type /\ PlainBuffer(type, data).data = data
         /\ PlainBuffer(type, data).borrowed = FALSE
BY DEF PlainBuffer, BufferRecords

\* A step that takes no memory and leaves the objects alone.
LEMMA NothingChanged ==
  ASSUME IInv, UNCHANGED <<surface, buffer, image, memory, source>>,
         HeapsSound', IdsInRange', LiveSurfaces' = LiveSurfaces,
         LiveBuffers' = LiveBuffers, LiveImages' = LiveImages
  PROVE  IInv'
<1>1. SlotsTyped'
  BY DEF IInv, SlotsTyped, SurfaceIds, BufferIds, ImageIds, BufferRecords, SurfaceRecords
<1>2. OwningBuffers' = OwningBuffers /\ OwningSurfaces' = OwningSurfaces
  BY DEF OwningBuffers, OwningSurfaces
<1>3. BlocksOwned' /\ BlocksDistinct'
  BY <1>2 DEF IInv, BlocksOwned, BlocksDistinct
<1>4. ImageOwnsBuffer'
  BY DEF IInv, ImageOwnsBuffer, ImageIds
<1>5. AliasTracksSurface'
  BY DEF IInv, AliasTracksSurface, ImageIds, SurfaceIds
<1> QED BY <1>1, <1>3, <1>4, <1>5 DEF IInv

\* A new owner of a block that was not allocated.
LEMMA BufferOwnsNewBlock ==
  ASSUME IInv, NEW new \in BufferIds \ LiveBuffers, NEW data \in Unused,
         LiveBuffers' = LiveBuffers \cup {new}, LiveSurfaces' = LiveSurfaces,
         \A b \in BufferIds : b # new => buffer'[b] = buffer[b],
         buffer'[new].data = data, buffer'[new].borrowed = FALSE,
         UNCHANGED surface, memory' = memory \cup {data}
  PROVE  BlocksOwned' /\ BlocksDistinct'
<1>1. OwningBuffers' = OwningBuffers \cup {new} /\ OwningSurfaces' = OwningSurfaces
  BY BufferFields DEF OwningBuffers, OwningSurfaces
<1>2. \A b \in OwningBuffers : buffer'[b] = buffer[b]
  BY BufferFields DEF OwningBuffers
<1>3. data \notin memory
  BY DEF Unused
<1>4. /\ \A b \in OwningBuffers : buffer[b].data \in memory
      /\ \A t \in OwningSurfaces : surface[t].store \in memory
  BY DEF IInv, BlocksOwned
<1>5. BlocksOwned'
  BY <1>1, <1>2, <1>4 DEF IInv, BlocksOwned
<1>6. BlocksDistinct'
  BY <1>1, <1>2, <1>3, <1>4 DEF IInv, BlocksDistinct
<1> QED BY <1>5, <1>6

\* A buffer that is destroyed frees what it owns, and no more.
LEMMA BufferFreesOwnBlock ==
  ASSUME IInv, NEW b \in LiveBuffers,
         LiveBuffers' = LiveBuffers \ {b}, LiveSurfaces' = LiveSurfaces,
         \A c \in BufferIds : c # b => buffer'[c] = buffer[c],
         UNCHANGED surface, memory' = memory \ OwnMemory(b)
  PROVE  /\ BlocksOwned' /\ BlocksDistinct'
         /\ \A t \in LiveSurfaces : surface[t].store \in memory => surface[t].store \in memory'
<1>1. OwningBuffers' = OwningBuffers \ {b} /\ OwningSurfaces' = OwningSurfaces
  BY BufferFields DEF OwningBuffers, OwningSurfaces
<1>2. \A c \in OwningBuffers' : buffer'[c] = buffer[c] /\ c \in OwningBuffers /\ c # b
  BY <1>1, BufferFields DEF OwningBuffers
<1>3. \A m : m \in memory' <=> m \in memory /\ ~(b \in OwningBuffers /\ m = buffer[b].data)
  BY DEF OwnMemory, OwningBuffers
<1>4. BlocksOwned'
  <2>1. \A c \in OwningBuffers' : buffer'[c].data \in memory'
    BY <1>2, <1>3 DEF IInv, BlocksOwned, BlocksDistinct
  <2>2. \A t \in OwningSurfaces' : surface'[t].store \in memory'
    BY <1>1, <1>3 DEF IInv, BlocksOwned, BlocksDistinct
  <2>3. \A m \in memory' : \/ \E c \in OwningBuffers' : buffer'[c].data = m
                           \/ \E t \in OwningSurfaces' : surface'[t].store = m
    BY <1>1, <1>2, <1>3 DEF IInv, BlocksOwned
  <2> QED BY <2>1, <2>2, <2>3 DEF BlocksOwned
<1>5. BlocksDistinct'
  BY <1>1, <1>2 DEF IInv, BlocksDistinct
<1>6. \A t \in LiveSurfaces : surface[t].store \in memory => surface[t].store \in memory'
  <2>1. \A t \in LiveSurfaces : surface[t].store \in memory => t \in OwningSurfaces
    BY SurfaceFields DEF OwningSurfaces
  <2> QED BY <1>3, <2>1 DEF IInv, BlocksDistinct
<1> QED BY <1>4, <1>5, <1>6

LEMMA CreateBufferKeeps == ASSUME IInv, CreateBuffer PROVE IInv'
<1> DEFINE new == NextId(heap.buffer)
<1>1. CASE heap' = [heap EXCEPT !.buffer = Free(Allocate(@), NextId(@))]
           /\ UNCHANGED <<buffer, memory>>
  BY <1>1, BufferIdInVain, NothingChanged DEF CreateBuffer
<1>2. ASSUME NEW data \in Unused,
             heap' = [heap EXCEPT !.buffer = Allocate(@)],
             buffer' = [buffer EXCEPT ![new] = PlainBuffer("data", data)],
             memory' = memory \cup {data}
      PROVE  IInv'
  <2>1. /\ HeapsSound' /\ IdsInRange'
        /\ new \in BufferIds \ LiveBuffers
        /\ LiveBuffers' = LiveBuffers \cup {new}
        /\ LiveSurfaces' = LiveSurfaces /\ LiveImages' = LiveImages
    BY <1>2, BufferIdTaken DEF CreateBuffer
  <2>2. UNCHANGED <<surface, image, source>>
    BY DEF CreateBuffer
  <2> HIDE DEF new
  <2>3. /\ PlainBuffer("data", data) \in BufferRecords
        /\ PlainBuffer("data", data).type = "data"
        /\ PlainBuffer("data", data).data = data
        /\ PlainBuffer("data", data).borrowed = FALSE
    BY PlainBufferTyped DEF Unused
  <2>4. /\ buffer'[new] = PlainBuffer("data", data)
        /\ \A b \in BufferIds : b # new => buffer'[b] = buffer[b]
        /\ buffer' \in [BufferIds -> BufferRecords]
    BY <1>2, <2>1, <2>3 DEF IInv, SlotsTyped
  <2>5. SlotsTyped'
    BY <1>2, <2>2, <2>4 DEF IInv, SlotsTyped, SurfaceIds, BufferIds, ImageIds, BufferRecords,
                            SurfaceRecords, Unused
  <2>6. BlocksOwned' /\ BlocksDistinct'
    BY <1>2, <2>1, <2>2, <2>3, <2>4, BufferOwnsNewBlock
  <2>7. \A i \in LiveImages : buffer'[image[i]] = buffer[image[i]] /\ image[i] # new
    BY <2>1, <2>4, BufferFields DEF IInv, ImageOwnsBuffer
  <2>8. ImageOwnsBuffer'
    <3>1. \A i \in ImageIds : source'[i] # Unheld => i \in LiveImages'
      BY <2>1, <2>2 DEF IInv, ImageOwnsBuffer
    <3>2. \A i \in LiveImages' : image'[i] \in LiveBuffers' /\ buffer'[image'[i]].type = "image"
      BY <2>1, <2>2, <2>7 DEF IInv, ImageOwnsBuffer
    <3>3. \A i, j \in LiveImages' : image'[i] = image'[j] => i = j
      BY <2>1, <2>2 DEF IInv, ImageOwnsBuffer
    <3>4. \A b \in LiveBuffers' : buffer'[b].type = "image" =>
            \E i \in LiveImages' : image'[i] = b
      BY <2>1, <2>2, <2>3, <2>4, BufferFields DEF IInv, ImageOwnsBuffer
    <3> QED BY <3>1, <3>2, <3>3, <3>4 DEF ImageOwnsBuffer, ImageIds
  <2>9. AliasTracksSurface'
    <3>1. \A i \in ImageIds : source[i] \in SurfaceIds => buffer'[image[i]] = buffer[image[i]]
      BY <2>7, HeldImage
    <3> QED BY <1>2, <2>1, <2>2, <3>1 DEF IInv, AliasTracksSurface, ImageIds, SurfaceIds
  <2> QED BY <2>1, <2>5, <2>6, <2>8, <2>9 DEF IInv
<1> QED BY <1>1, <1>2 DEF CreateBuffer

LEMMA DestroyBufferKeeps ==
  ASSUME IInv, NEW b \in LiveBuffers, DestroyBuffer(b) PROVE IInv'
<1>1. /\ HeapsSound' /\ IdsInRange' /\ LiveBuffers' = LiveBuffers \ {b}
      /\ LiveSurfaces' = LiveSurfaces /\ LiveImages' = LiveImages
  BY BufferIdReturned DEF DestroyBuffer
<1>2. /\ buffer[b].type = "data"
      /\ memory' = memory \ OwnMemory(b)
      /\ buffer' = [buffer EXCEPT ![b] = FreeBuffer]
      /\ UNCHANGED <<surface, image, source>>
  BY DEF DestroyBuffer
<1>3. FreeBuffer \in BufferRecords
  BY PlainBufferTyped DEF FreeBuffer
<1>4. /\ \A c \in BufferIds : c # b => buffer'[c] = buffer[c]
      /\ buffer' \in [BufferIds -> BufferRecords]
  BY <1>2, <1>3 DEF IInv, SlotsTyped
<1>5. SlotsTyped'
  BY <1>2, <1>4 DEF IInv, SlotsTyped, SurfaceIds, BufferIds, ImageIds, BufferRecords,
                    SurfaceRecords
<1>6. /\ BlocksOwned' /\ BlocksDistinct'
      /\ \A t \in LiveSurfaces : surface[t].store \in memory => surface[t].store \in memory'
  BY <1>1, <1>2, <1>4, BufferFreesOwnBlock
<1>7. \A i \in LiveImages : buffer'[image[i]] = buffer[image[i]] /\ image[i] # b
  BY <1>2, <1>4, BufferFields DEF IInv, ImageOwnsBuffer
<1>8. ImageOwnsBuffer'
  <2>1. \A c \in LiveBuffers' : c \in LiveBuffers /\ buffer'[c] = buffer[c]
    BY <1>1, <1>4, BufferFields
  <2> QED BY <1>1, <1>2, <1>7, <2>1 DEF IInv, ImageOwnsBuffer, ImageIds
<1>9. AliasTracksSurface'
  <2>1. \A i \in ImageIds : source[i] \in SurfaceIds => buffer'[image[i]] = buffer[image[i]]
    BY <1>7, HeldImage
  <2> QED BY <1>1, <1>2, <1>6, <2>1 DEF IInv, AliasTracksSurface, ImageIds, SurfaceIds
<1> QED BY <1>1, <1>5, <1>6, <1>8, <1>9 DEF IInv

-----------------------------------------------------------------------------
(* The images.                                                             *)

\* What a new image is: a buffer of type image, and a source that is none, or a
\* surface that the buffer names.
NewImageStep(content, s) ==
  /\ content \in BufferRecords /\ content.type = "image"
  /\ s \in LiveSurfaces \cup {NoSurface, Unheld}
  /\ s \in SurfaceIds => content.derived = s
  /\ HeapsSound' /\ IdsInRange' /\ LiveSurfaces' = LiveSurfaces
  /\ \E b \in BufferIds \ LiveBuffers, i \in ImageIds \ LiveImages :
       /\ LiveBuffers' = LiveBuffers \cup {b} /\ LiveImages' = LiveImages \cup {i}
       /\ buffer' = [buffer EXCEPT ![b] = content]
       /\ image' = [image EXCEPT ![i] = b]
       /\ source' = [source EXCEPT ![i] = s]

LEMMA ImageMadeStep ==
  ASSUME IInv, RoomForImage, NEW data, data # NoBlock, NEW content, NEW s,
         ImageMade(data, content, s),
         content \in BufferRecords, content.type = "image",
         s \in LiveSurfaces \cup {NoSurface, Unheld}, s \in SurfaceIds => content.derived = s
  PROVE  NewImageStep(content, s)
<1>1. /\ HeapsSound' /\ IdsInRange'
      /\ NextId(heap.buffer) \in BufferIds \ LiveBuffers
      /\ NextId(heap.image) \in ImageIds \ LiveImages
      /\ LiveSurfaces' = LiveSurfaces
      /\ LiveBuffers' = LiveBuffers \cup {NextId(heap.buffer)}
      /\ LiveImages' = LiveImages \cup {NextId(heap.image)}
  BY ImageIdsTaken DEF ImageMade
<1> QED BY <1>1 DEF NewImageStep, ImageMade

\* Whatever the memory, a new image is one more image with a buffer of its own.
LEMMA NewImageOwnsBuffer ==
  ASSUME IInv, NEW content, NEW s, NewImageStep(content, s)
  PROVE  ImageOwnsBuffer'
<1>1. PICK b \in BufferIds \ LiveBuffers, i \in ImageIds \ LiveImages :
        /\ LiveBuffers' = LiveBuffers \cup {b} /\ LiveImages' = LiveImages \cup {i}
        /\ buffer' = [buffer EXCEPT ![b] = content]
        /\ image' = [image EXCEPT ![i] = b]
        /\ source' = [source EXCEPT ![i] = s]
  BY DEF NewImageStep
<1>2. /\ buffer'[b] = content /\ \A c \in LiveBuffers : buffer'[c] = buffer[c]
      /\ image'[i] = b /\ \A j \in LiveImages : image'[j] = image[j]
      /\ \A j \in ImageIds : j # i => source'[j] = source[j]
  BY <1>1, BufferFields
<1>3. content.type = "image"
  BY DEF NewImageStep
<1>4. \A j \in ImageIds : source'[j] # Unheld => j \in LiveImages'
  BY <1>1, <1>2 DEF IInv, ImageOwnsBuffer
<1>5. \A j \in LiveImages' : image'[j] \in LiveBuffers' /\ buffer'[image'[j]].type = "image"
  BY <1>1, <1>2, <1>3 DEF IInv, ImageOwnsBuffer
<1>6. \A j, k \in LiveImages' : image'[j] = image'[k] => j = k
  BY <1>1, <1>2 DEF IInv, ImageOwnsBuffer
<1>7. \A c \in LiveBuffers' : buffer'[c].type = "image" => \E j \in LiveImages' : image'[j] = c
  BY <1>1, <1>2 DEF IInv, ImageOwnsBuffer
<1> QED BY <1>4, <1>5, <1>6, <1>7 DEF ImageOwnsBuffer, ImageIds

LEMMA NewImageTyped ==
  ASSUME IInv, NEW content, NEW s, NewImageStep(content, s),
         surface' \in [SurfaceIds -> SurfaceRecords], memory' \in SUBSET Blocks
  PROVE  SlotsTyped'
<1>1. PICK b \in BufferIds \ LiveBuffers, i \in ImageIds \ LiveImages :
        /\ buffer' = [buffer EXCEPT ![b] = content]
        /\ image' = [image EXCEPT ![i] = b]
        /\ source' = [source EXCEPT ![i] = s]
  BY DEF NewImageStep
<1>2. content \in BufferRecords /\ s \in SurfaceIds \cup {NoSurface, Unheld}
  BY SurfaceFields DEF NewImageStep
<1>3. buffer' \in [BufferIds -> BufferRecords]
  BY <1>1, <1>2 DEF IInv, SlotsTyped
<1>4. image' \in [ImageIds -> BufferIds]
  BY <1>1 DEF IInv, SlotsTyped
<1>5. source' \in [ImageIds -> SurfaceIds \cup {NoSurface, Unheld}]
  BY <1>1, <1>2 DEF IInv, SlotsTyped
<1> QED BY <1>3, <1>4, <1>5 DEF SlotsTyped, SurfaceIds, BufferIds, ImageIds, BufferRecords,
                                SurfaceRecords

\* The images there were keep what they were derived from, and the new one borrows
\* the store of the surface, or nothing.
LEMMA NewImageTracksSurface ==
  ASSUME IInv, NEW content, NEW s, NewImageStep(content, s), memory \subseteq memory',
         \A t \in SurfaceIds :
           surface[t].store # NoBlock => surface'[t].store = surface[t].store,
         s \in SurfaceIds /\ content.borrowed =>
           content.data = surface'[s].store /\ content.data \in memory'
  PROVE  AliasTracksSurface'
<1>1. PICK b \in BufferIds \ LiveBuffers, i \in ImageIds \ LiveImages :
        /\ buffer' = [buffer EXCEPT ![b] = content]
        /\ image' = [image EXCEPT ![i] = b]
        /\ source' = [source EXCEPT ![i] = s]
  BY DEF NewImageStep
<1>2. /\ LiveSurfaces' = LiveSurfaces /\ s \in LiveSurfaces \cup {NoSurface, Unheld}
      /\ s \in SurfaceIds => content.derived = s
  BY DEF NewImageStep
<1>3. SUFFICES ASSUME NEW j \in ImageIds, source'[j] \in SurfaceIds
               PROVE  LET c == buffer'[image'[j]]
                      IN  /\ source'[j] \in LiveSurfaces /\ c.derived = source'[j]
                          /\ c.borrowed => /\ c.data = surface'[source'[j]].store
                                           /\ c.data \in memory'
  BY <1>2 DEF AliasTracksSurface, ImageIds, SurfaceIds
<1>4. CASE j = i
  <2>1. source'[j] = s /\ buffer'[image'[j]] = content
    BY <1>1, <1>4, BufferFields
  <2>2. s \in SurfaceIds /\ s \in LiveSurfaces
    BY <1>2, <1>3, <2>1 DEF NoSurface, Unheld, SurfaceIds
  <2> QED BY <1>2, <2>1, <2>2
<1>5. CASE j # i
  <2> DEFINE c == buffer[image[j]]
  <2>1. source'[j] = source[j] /\ image'[j] = image[j]
    BY <1>1, <1>5, BufferFields
  <2>2. buffer'[image'[j]] = c
    <3>1. image[j] \in LiveBuffers
      BY <1>3, <2>1, HeldImage
    <3> QED BY <1>1, <2>1, <3>1, BufferFields
  <2>3. /\ source[j] \in LiveSurfaces /\ c.derived = source[j]
        /\ c.borrowed => c.data = surface[source[j]].store /\ c.data \in memory
    BY <1>3, <2>1 DEF IInv, AliasTracksSurface
  <2> HIDE DEF c
  <2>4. c.borrowed => surface'[source[j]].store = surface[source[j]].store
    BY <2>3, SurfaceFields
  <2> QED BY <2>1, <2>2, <2>3, <2>4
<1> QED BY <1>4, <1>5

\* An image with memory of its own.
LEMMA PlainImageKeeps ==
  ASSUME IInv, RoomForImage, NEW data \in Unused, NEW content, NEW s,
         ImageMade(data, content, s), UNCHANGED surface, memory' = memory \cup {data},
         content \in BufferRecords, content.type = "image", content.data = data,
         content.borrowed = FALSE,
         s \in LiveSurfaces \cup {NoSurface, Unheld}, s \in SurfaceIds => content.derived = s
  PROVE  IInv'
<1>1. data # NoBlock /\ data \in Blocks
  BY ImagesAssumption DEF Unused
<1>2. NewImageStep(content, s)
  BY <1>1, ImageMadeStep
<1>3. SlotsTyped'
  <2>1. surface' \in [SurfaceIds -> SurfaceRecords] /\ memory' \in SUBSET Blocks
    BY <1>1 DEF IInv, SlotsTyped
  <2> QED BY <1>2, <2>1, NewImageTyped
<1>4. BlocksOwned' /\ BlocksDistinct'
  <2>1. PICK b \in BufferIds \ LiveBuffers :
          LiveBuffers' = LiveBuffers \cup {b} /\ buffer' = [buffer EXCEPT ![b] = content]
    BY <1>2 DEF NewImageStep
  <2>2. /\ buffer'[b].data = data /\ buffer'[b].borrowed = FALSE
        /\ \A c \in BufferIds : c # b => buffer'[c] = buffer[c]
    BY <2>1, BufferFields
  <2>3. LiveSurfaces' = LiveSurfaces
    BY <1>2 DEF NewImageStep
  <2> QED BY <2>1, <2>2, <2>3, BufferOwnsNewBlock
<1>5. ImageOwnsBuffer'
  BY <1>2, NewImageOwnsBuffer
<1>6. AliasTracksSurface'
  BY <1>2, NewImageTracksSurface
<1> QED BY <1>2, <1>3, <1>4, <1>5, <1>6 DEF IInv, NewImageStep

LEMMA CreateImageKeeps == ASSUME IInv, CreateImage PROVE IInv'
<1>1. PICK data \in Unused :
        /\ ImageMade(data, PlainBuffer("image", data), NoSurface)
        /\ memory' = memory \cup {data}
        /\ RoomForImage /\ UNCHANGED surface
  BY DEF CreateImage
<1>2. /\ PlainBuffer("image", data) \in BufferRecords
      /\ PlainBuffer("image", data).type = "image" /\ PlainBuffer("image", data).data = data
      /\ PlainBuffer("image", data).borrowed = FALSE
  BY PlainBufferTyped DEF Unused
<1>3. NoSurface \notin SurfaceIds
  BY DEF NoSurface, SurfaceIds
<1> QED BY <1>1, <1>2, <1>3, PlainImageKeeps

LEMMA DeriveAliasFailsKeeps ==
  ASSUME IInv, NEW s \in LiveSurfaces, NEW guess \in BOOLEAN, DeriveAliasFails(s, guess)
  PROVE  IInv'
<1>1. PICK data \in Unused :
        /\ ImageMade(data, PlainBuffer("image", data), Unheld)
        /\ memory' = memory \cup {data}
        /\ RoomForImage /\ UNCHANGED surface
  BY DEF DeriveAliasFails
<1>2. /\ PlainBuffer("image", data) \in BufferRecords
      /\ PlainBuffer("image", data).type = "image" /\ PlainBuffer("image", data).data = data
      /\ PlainBuffer("image", data).borrowed = FALSE
  BY PlainBufferTyped DEF Unused
<1>3. Unheld \notin SurfaceIds
  BY DEF Unheld, SurfaceIds
<1> QED BY <1>1, <1>2, <1>3, PlainImageKeeps

LEMMA DeriveCopyKeeps ==
  ASSUME IInv, NEW s \in LiveSurfaces, NEW guess \in BOOLEAN, DeriveCopy(s, guess)
  PROVE  IInv'
<1>1. PICK data \in Unused :
        /\ ImageMade(data, [PlainBuffer("image", data) EXCEPT !.derived = s], s)
        /\ memory' = memory \cup {data}
        /\ RoomForImage /\ UNCHANGED surface
  BY DEF DeriveCopy
<1> DEFINE plain == PlainBuffer("image", data)
           content == [plain EXCEPT !.derived = s]
<1>2. /\ plain \in BufferRecords /\ plain.type = "image" /\ plain.data = data
      /\ plain.borrowed = FALSE
  BY PlainBufferTyped DEF Unused
<1>3. s \in SurfaceIds
  BY SurfaceFields
<1> HIDE DEF plain
<1>4. /\ content \in BufferRecords /\ content.type = "image" /\ content.data = data
      /\ content.borrowed = FALSE /\ content.derived = s
  BY <1>2, <1>3 DEF BufferRecords
<1> HIDE DEF content
<1>5. ImageMade(data, content, s)
  BY <1>1 DEF content, plain
<1> QED BY <1>1, <1>4, <1>5, PlainImageKeeps

LEMMA DeriveAliasKeeps ==
  ASSUME IInv, NEW s \in LiveSurfaces, NEW guess \in BOOLEAN, DeriveAlias(s, guess)
  PROVE  IInv'
<1>0. PICK data \in Unused :
        /\ RoomForImage
        /\ \E store \in Stores(s, Unused \ {data}) \ {NoBlock} :
             /\ memory' = MemoryWith(store)
             /\ surface' = [surface EXCEPT ![s].store = store]
             /\ ImageMade(data, Alias(store, s), s)
  BY DEF DeriveAlias
<1>1. PICK store \in Stores(s, Unused \ {data}) \ {NoBlock} :
        /\ memory' = MemoryWith(store)
        /\ surface' = [surface EXCEPT ![s].store = store]
        /\ ImageMade(data, Alias(store, s), s)
  BY <1>0
<1>2. data # NoBlock /\ s \in SurfaceIds
  BY ImagesAssumption, SurfaceFields DEF Unused
<1>3. /\ store \in Blocks /\ store # NoBlock
      /\ surface[s].store # NoBlock => store = surface[s].store
      /\ surface[s].store = NoBlock => store \notin memory
      /\ \A m : m \in memory' <=> m \in memory \/ m = store
  <2>1. Unused \ {data} \in SUBSET Unused
    OBVIOUS
  <2> QED BY <1>1, <2>1, StoredOnce
<1>4. /\ Alias(store, s) \in BufferRecords /\ Alias(store, s).type = "image"
      /\ Alias(store, s).data = store /\ Alias(store, s).borrowed = TRUE
      /\ Alias(store, s).derived = s
  BY <1>2, <1>3 DEF Alias, BufferRecords
<1>5. NewImageStep(Alias(store, s), s)
  BY <1>0, <1>1, <1>2, <1>4, ImageMadeStep
<1>6. /\ surface'[s].store = store
      /\ \A t \in SurfaceIds : t # s => surface'[t] = surface[t]
      /\ surface' \in [SurfaceIds -> SurfaceRecords]
  BY <1>1, <1>2, <1>3, SurfaceFields DEF IInv, SlotsTyped, SurfaceRecords
<1>7. SlotsTyped'
  <2>1. memory' \in SUBSET Blocks
    BY <1>3, SurfaceFields
  <2> QED BY <1>5, <1>6, <2>1, NewImageTyped
<1>8. OwningBuffers' = OwningBuffers /\ \A b \in OwningBuffers : buffer'[b] = buffer[b]
  <2>1. PICK b \in BufferIds \ LiveBuffers :
          /\ LiveBuffers' = LiveBuffers \cup {b}
          /\ buffer' = [buffer EXCEPT ![b] = Alias(store, s)]
    BY <1>5 DEF NewImageStep
  <2>2. /\ buffer'[b].borrowed = TRUE
        /\ \A c \in BufferIds : c # b => buffer'[c] = buffer[c]
    BY <1>4, <2>1, BufferFields
  <2> QED BY <2>1, <2>2, BufferFields DEF OwningBuffers
<1>9. OwningSurfaces' = OwningSurfaces \cup {s}
  <2>1. LiveSurfaces' = LiveSurfaces
    BY <1>5 DEF NewImageStep
  <2> QED BY <1>3, <1>6, <2>1, SurfaceFields DEF OwningSurfaces
<1>10. \A t \in OwningSurfaces : surface'[t].store = surface[t].store
  BY <1>3, <1>6, SurfaceFields DEF OwningSurfaces
<1>11. s \in OwningSurfaces \/ store \notin memory
  BY <1>3 DEF OwningSurfaces
<1>12. /\ \A b \in OwningBuffers : buffer[b].data \in memory
       /\ \A t \in OwningSurfaces : surface[t].store \in memory
  BY DEF IInv, BlocksOwned
<1>13. BlocksOwned'
  BY <1>3, <1>6, <1>8, <1>9, <1>10, <1>12 DEF IInv, BlocksOwned
<1>14. BlocksDistinct'
  BY <1>6, <1>8, <1>9, <1>10, <1>11, <1>12 DEF IInv, BlocksDistinct
<1>15. ImageOwnsBuffer'
  BY <1>5, NewImageOwnsBuffer
<1>16. AliasTracksSurface'
  <2>1. memory \subseteq memory' /\ store \in memory'
    BY <1>3
  <2>2. \A t \in SurfaceIds : surface[t].store # NoBlock => surface'[t].store = surface[t].store
    BY <1>3, <1>6
  <2> QED BY <1>4, <1>5, <1>6, <2>1, <2>2, NewImageTracksSurface
<1> QED BY <1>5, <1>7, <1>13, <1>14, <1>15, <1>16 DEF IInv, NewImageStep

\* The image and the buffer it names go, and no other image had either.
LEMMA DestroyImageKeeps ==
  ASSUME IInv, NEW i \in LiveImages, DestroyImage(i) PROVE IInv'
<1> DEFINE b == image[i]
<1>1. /\ b \in LiveBuffers
      /\ heap' = [heap EXCEPT !.buffer = Free(@, b), !.image = Free(@, i)]
      /\ memory' = memory \ OwnMemory(b)
      /\ source' = [source EXCEPT ![i] = Unheld]
      /\ buffer' = [buffer EXCEPT ![b] = FreeBuffer]
      /\ image' = [image EXCEPT ![i] = FreeImage]
      /\ UNCHANGED surface
  BY DEF DestroyImage
<1>2. \A j \in LiveImages : j # i => image[j] # b
  BY DEF IInv, ImageOwnsBuffer
<1> HIDE DEF b
<1>3. /\ HeapsSound' /\ IdsInRange' /\ LiveSurfaces' = LiveSurfaces
      /\ LiveBuffers' = LiveBuffers \ {b} /\ LiveImages' = LiveImages \ {i}
  BY <1>1, ImageIdsReturned
<1>4. i \in ImageIds /\ b \in BufferIds
  BY <1>1, BufferFields
<1>5. /\ FreeBuffer \in BufferRecords /\ FreeImage \in BufferIds
  <2>1. FreeBuffer \in BufferRecords
    BY PlainBufferTyped DEF FreeBuffer
  <2> QED BY <2>1, ImagesAssumption DEF FreeImage, BufferIds
<1>6. /\ \A c \in BufferIds : c # b => buffer'[c] = buffer[c]
      /\ buffer' \in [BufferIds -> BufferRecords]
      /\ \A j \in ImageIds : j # i => image'[j] = image[j] /\ source'[j] = source[j]
      /\ source'[i] = Unheld
      /\ image' \in [ImageIds -> BufferIds]
      /\ source' \in [ImageIds -> SurfaceIds \cup {NoSurface, Unheld}]
  BY <1>1, <1>4, <1>5 DEF IInv, SlotsTyped
<1>7. SlotsTyped'
  BY <1>1, <1>6 DEF IInv, SlotsTyped, SurfaceIds, BufferIds, ImageIds, BufferRecords,
                    SurfaceRecords
<1>8. /\ BlocksOwned' /\ BlocksDistinct'
      /\ \A t \in LiveSurfaces : surface[t].store \in memory => surface[t].store \in memory'
  BY <1>1, <1>3, <1>6, BufferFreesOwnBlock
<1>9. \A j \in LiveImages' : /\ j \in LiveImages /\ image'[j] = image[j]
                             /\ image[j] \in LiveBuffers' /\ buffer'[image[j]] = buffer[image[j]]
  <2>1. \A j \in LiveImages' : j \in LiveImages /\ j # i /\ image'[j] = image[j]
    BY <1>3, <1>6, BufferFields
  <2>2. \A j \in LiveImages' : image[j] \in LiveBuffers /\ image[j] # b
    BY <1>2, <2>1 DEF IInv, ImageOwnsBuffer
  <2> QED BY <1>3, <1>6, <2>1, <2>2, BufferFields
<1>10. ImageOwnsBuffer'
  <2>1. \A j \in ImageIds : source'[j] # Unheld => j \in LiveImages'
    BY <1>3, <1>6 DEF IInv, ImageOwnsBuffer
  <2>2. \A j \in LiveImages' : image'[j] \in LiveBuffers' /\ buffer'[image'[j]].type = "image"
    BY <1>9 DEF IInv, ImageOwnsBuffer
  <2>3. \A j, k \in LiveImages' : image'[j] = image'[k] => j = k
    BY <1>9 DEF IInv, ImageOwnsBuffer
  <2>4. \A c \in LiveBuffers' : buffer'[c].type = "image" => \E j \in LiveImages' : image'[j] = c
    <3>1. SUFFICES ASSUME NEW c \in LiveBuffers', buffer'[c].type = "image"
                   PROVE  \E j \in LiveImages' : image'[j] = c
      OBVIOUS
    <3>2. c \in LiveBuffers /\ c # b /\ buffer[c].type = "image"
      BY <1>3, <1>6, <3>1, BufferFields
    <3>3. PICK j \in LiveImages : image[j] = c
      BY <3>2 DEF IInv, ImageOwnsBuffer
    <3>4. j # i
      BY <3>2, <3>3 DEF b
    <3> QED BY <1>3, <1>9, <3>3, <3>4
  <2> QED BY <2>1, <2>2, <2>3, <2>4 DEF ImageOwnsBuffer, ImageIds
<1>11. AliasTracksSurface'
  <2>1. SUFFICES ASSUME NEW j \in ImageIds, source'[j] \in SurfaceIds
                 PROVE  LET c == buffer'[image'[j]]
                        IN  /\ source'[j] \in LiveSurfaces /\ c.derived = source'[j]
                            /\ c.borrowed => /\ c.data = surface[source'[j]].store
                                             /\ c.data \in memory'
    BY <1>1, <1>3 DEF AliasTracksSurface, ImageIds, SurfaceIds
  <2>2. j # i /\ source'[j] = source[j]
    BY <1>6, <2>1 DEF Unheld, SurfaceIds
  <2>3. j \in LiveImages'
    BY <1>3, <2>1, <2>2, HeldImage
  <2>4. buffer'[image'[j]] = buffer[image[j]]
    BY <1>9, <2>3
  <2> DEFINE c == buffer[image[j]]
  <2>5. /\ source[j] \in LiveSurfaces /\ c.derived = source[j]
        /\ c.borrowed => c.data = surface[source[j]].store /\ c.data \in memory
    BY <2>1, <2>2 DEF IInv, AliasTracksSurface
  <2> HIDE DEF c
  <2>6. c.borrowed => c.data \in memory'
    BY <1>8, <2>5
  <2> QED BY <2>2, <2>4, <2>5, <2>6 DEF c
<1> QED BY <1>3, <1>7, <1>8, <1>10, <1>11 DEF IInv

\* All memory is owned, so all of it is freed.
LEMMA TerminateKeeps == ASSUME IInv, Terminate PROVE IInv'
<1>1. memory' = {}
  <2>1. SUFFICES ASSUME NEW m \in memory
                 PROVE  m \in {surface[s].store : s \in LiveSurfaces}
                                \cup UNION {OwnMemory(b) : b \in LiveBuffers}
    BY DEF Terminate
  <2>2. CASE \E b \in OwningBuffers : buffer[b].data = m
    BY <2>2 DEF OwnMemory, OwningBuffers
  <2>3. CASE \E s \in OwningSurfaces : surface[s].store = m
    BY <2>3 DEF OwningSurfaces
  <2> QED BY <2>2, <2>3 DEF IInv, BlocksOwned
<1>2. Empty'
  BY <1>1 DEF Terminate, Empty, SurfaceIds, BufferIds, ImageIds, FreshSurface, FreeBuffer,
              PlainBuffer, FreeImage, Unheld, NewHeap, Expanded, Slots
<1> QED BY <1>2, EmptyIInv, PTL

-----------------------------------------------------------------------------
(* Every step, and the theorems.                                           *)

LEMMA InitIInv == Init => IInv
BY EmptyIInv DEF Init, Empty

LEMMA SurfaceStepKeeps ==
  ASSUME IInv, NEW s \in LiveSurfaces,
         \/ DestroySurface(s)
         \/ \E role \in {"decode", "encode"} : ClaimSurface(s, role)
         \/ \E role \in {"unknown", "encode"} : StoreSurface(s, role)
         \/ \E guess \in BOOLEAN :
              \/ DeriveCopy(s, guess)  \/ DeriveCopyFails(s, guess)
              \/ DeriveAlias(s, guess) \/ DeriveAliasFails(s, guess)
  PROVE  IInv'
<1>1. CASE DestroySurface(s)
  BY <1>1, DestroySurfaceKeeps
<1>2. CASE \E role \in {"decode", "encode"} : ClaimSurface(s, role)
  BY <1>2, ClaimSurfaceKeeps DEF Roles
<1>3. CASE \E role \in {"unknown", "encode"} : StoreSurface(s, role)
  BY <1>3, StoreSurfaceKeeps DEF Roles
<1>4. CASE \E guess \in BOOLEAN : DeriveCopy(s, guess)
  BY <1>4, DeriveCopyKeeps
<1>5. CASE \E guess \in BOOLEAN : DeriveCopyFails(s, guess)
  BY <1>5, ImageIdsInVain, NothingChanged DEF DeriveCopyFails
<1>6. CASE \E guess \in BOOLEAN : DeriveAlias(s, guess)
  BY <1>6, DeriveAliasKeeps
<1>7. CASE \E guess \in BOOLEAN : DeriveAliasFails(s, guess)
  BY <1>7, DeriveAliasFailsKeeps
<1> QED BY <1>1, <1>2, <1>3, <1>4, <1>5, <1>6, <1>7

LEMMA NextIInv == IInv /\ [Next]_vars => IInv'
<1> SUFFICES ASSUME IInv, [Next]_vars PROVE IInv'
  OBVIOUS
<1>1. CASE CreateSurface
  BY <1>1, CreateSurfaceKeeps
<1>2. CASE CreateBuffer
  BY <1>2, CreateBufferKeeps
<1>3. CASE CreateImage
  BY <1>3, CreateImageKeeps
<1>4. CASE CreateImageFails
  BY <1>4, ImageIdsInVain, NothingChanged DEF CreateImageFails
<1>5. CASE Terminate
  BY <1>5, TerminateKeeps
<1>6. CASE \E s \in LiveSurfaces :
             \/ DestroySurface(s)
             \/ \E role \in {"decode", "encode"} : ClaimSurface(s, role)
             \/ \E role \in {"unknown", "encode"} : StoreSurface(s, role)
             \/ \E guess \in BOOLEAN :
                  \/ DeriveCopy(s, guess)  \/ DeriveCopyFails(s, guess)
                  \/ DeriveAlias(s, guess) \/ DeriveAliasFails(s, guess)
  BY <1>6, SurfaceStepKeeps
<1>7. CASE \E b \in LiveBuffers : DestroyBuffer(b)
  BY <1>7, DestroyBufferKeeps
<1>8. CASE \E i \in LiveImages : DestroyImage(i)
  BY <1>8, DestroyImageKeeps
<1>9. CASE UNCHANGED vars
  BY <1>9, SameHeaps, NothingChanged DEF vars
<1> QED BY <1>1, <1>2, <1>3, <1>4, <1>5, <1>6, <1>7, <1>8, <1>9 DEF Next

\* The inductive invariant holds whenever the driver is left between two calls.
THEOREM ImagesInvariant == Spec => []IInv
BY InitIInv, NextIInv, PTL DEF Spec

\* Every variable stays in its type, and no slot outside the modelled ids is used.
THEOREM ImagesTyped == Spec => []TypeOK
<1>1. IInv => TypeOK
  BY ImpliesTypeOK DEF IInv
<1> QED BY <1>1, ImagesInvariant, PTL

\* However many calls fail half-way, the free list of every heap ends and holds
\* the ids that name no object: none is lost and none is handed out twice
\* (object_heap_allocate and object_heap_free).
THEOREM FreeListsStaySound == Spec => []FreeListsSound
<1>1. IInv => FreeListsSound
  BY ImpliesFreeListsSound DEF IInv
<1> QED BY <1>1, ImagesInvariant, PTL

\* Nothing is freed twice and nothing is left behind: what is allocated belongs to
\* one buffer or to one surface, and what they will free is allocated, although an
\* image derived from a surface borrows the surface's memory.
THEOREM MemoryHasOneOwner == Spec => []MemoryOwned
<1>1. IInv => MemoryOwned
  BY ImpliesMemoryOwned DEF IInv
<1> QED BY <1>1, ImagesInvariant, PTL

\* Destroying an image destroys what is its own: every image names a buffer that
\* is alive, and no other image names it (RequestDestroyImage).
THEOREM ImagesOwnTheirBuffers == Spec => []ImageOwnsBuffer
<1>1. IInv => ImageOwnsBuffer
  BY DEF IInv
<1> QED BY <1>1, ImagesInvariant, PTL

\* The memory an image borrows is allocated, and the store of its surface, for as
\* long as the surface lives (derive_image_alias).
THEOREM AliasesTrackSurfaces == Spec => []AliasTracksSurface
<1>1. IInv => AliasTracksSurface
  BY DEF IInv
<1> QED BY <1>1, ImagesInvariant, PTL
=============================================================================
