----------------------------- MODULE ObjectHeap -----------------------------
(***************************************************************************)
(* The allocator of VA ids (va-driver/src/object_heap.c): slots in buckets  *)
(* of HeapIncrement, the free ones linked into a LIFO list.  A slot's id is *)
(* its number; the offset that tells the heaps apart is left out.          *)
(*                                                                         *)
(* A heap is a record, and every operation is an operator from heaps to    *)
(* heaps, so the modules that own heaps compose them in their actions.     *)
(***************************************************************************)
EXTENDS Integers, FiniteSets

CONSTANT HeapIncrement  \* slots in a bucket, 16 in object_heap_init

ASSUME HeapIncrementAssumption == HeapIncrement \in Nat \ {0}

Last      == -1  \* OBJECT_HEAP_LAST: the end of the free list
Allocated == -2  \* OBJECT_HEAP_ALLOCATED

Slots(h) == 0 .. h.size-1

Heap(size) ==
  [size : {size},                                          \* heap_size
   head : {Last} \cup 0 .. size-1,                         \* heap's next_free
   next : [0 .. size-1 -> {Last, Allocated} \cup 0 .. size-1]]  \* a slot's next_free

\* Mutant of Expanded: the last slot of the bucket links to the one after it.
ExpandedUnended(h) ==
  LET size == h.size + HeapIncrement
  IN  [size |-> size,
       head |-> h.size,
       next |-> [i \in 0 .. size-1 |-> IF i \in Slots(h) THEN h.next[i] ELSE i + 1]]

\* A heap of one bucket more, whose free list is the new slots in order and
\* then what it was.
Expanded(h) ==
  LET size == h.size + HeapIncrement
  IN  [size |-> size,
       head |-> h.size,
       next |-> [i \in 0 .. size-1 |-> IF i \in Slots(h)  THEN h.next[i]
                                       ELSE IF i = size-1 THEN h.head
                                       ELSE i + 1]]

NewHeap == Expanded([size |-> 0, head |-> Last, next |-> << >>])

Full(h) == h.head = Last

\* The heap from which the next id is taken, that id, and the heap without it.
Ready(h) == IF Full(h) THEN Expanded(h) ELSE h
NextId(h) == Ready(h).head
Allocate(h) ==
  [Ready(h) EXCEPT !.head = Ready(h).next[NextId(h)], !.next[NextId(h)] = Allocated]

\* Mutant of Free: the slot is not put at the head of the list.
FreeUnlinked(h, i) == [h EXCEPT !.next[i] = h.head]

Free(h, i) == [h EXCEPT !.head = i, !.next[i] = h.head]

\* The ids a lookup finds.
Live(h) == {i \in Slots(h) : h.next[i] = Allocated}

-----------------------------------------------------------------------------

\* "behind" says of each slot on the free list how many come after it.
Linked(h, behind) ==
  LET free == DOMAIN behind
      n    == Cardinality(free)
  IN  /\ \A i, j \in free : behind[i] = behind[j] => i = j
      /\ IF free = {} THEN Full(h) ELSE h.head \in free /\ behind[h.head] = n-1
      /\ \A i \in free : IF behind[i] = 0
                         THEN h.next[i] = Last
                         ELSE h.next[i] \in free /\ behind[h.next[i]] = behind[i] - 1

\* The free list ends, and on it are the slots that are not allocated: no id
\* is lost, and none is handed out while it names an object.
HeapOK(h) ==
  LET free == Slots(h) \ Live(h)
  IN  \E behind \in [free -> 0 .. Cardinality(free)-1] : Linked(h, behind)
=============================================================================
