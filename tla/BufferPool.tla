----------------------------- MODULE BufferPool -----------------------------
(***************************************************************************)
(* The index allocator behind one V4L2 queue of a decoder session          *)
(* (va-driver/src/session.h, picture.c).  REQBUFS creates the buffers      *)
(* 0 .. num-1 once; the driver hands out indices from a LIFO stack of      *)
(* returned ones first and from a growing counter otherwise.               *)
(*                                                                         *)
(* A pool is a record, and every operation is an operator from pools to    *)
(* pools, so the modules that own pools compose them in their actions.     *)
(***************************************************************************)
EXTENDS Integers, Sequences

CONSTANT MaxBuffers  \* DECODER_SESSION_MAX_BUFFERS: the room on a free stack

ASSUME MaxBuffersAssumption == MaxBuffers \in Nat \ {0}

\* SURFACE_INDEX_UNASSIGNED, (unsigned int)-1 in the source.
Unassigned == -1

Pool == [num  : 0 .. MaxBuffers,         \* num_*_buffers, what REQBUFS gave
         next : 0 .. MaxBuffers,         \* next_*_buf, never handed out above
         free : Seq(0 .. MaxBuffers-1)]  \* free_*[0 .. free_*_count-1]

\* The pool right after REQBUFS returned n buffers, and with the queue gone.
NewPool(n) == [num |-> n, next |-> 0, free |-> << >>]
NoPool == NewPool(0)

Exhausted(p) == p.free = << >> /\ p.next >= p.num

\* The index the next bind takes, and the pool once it has been taken.
Candidate(p) == IF p.free # << >> THEN p.free[Len(p.free)] ELSE p.next

Take(p) ==
  IF p.free # << >> THEN [p EXCEPT !.free = SubSeq(p.free, 1, Len(p.free)-1)]
                    ELSE [p EXCEPT !.next = p.next + 1]

\* A full stack drops the index; the C arrays hold MaxBuffers entries.
Give(p, i) ==
  IF Len(p.free) < MaxBuffers THEN [p EXCEPT !.free = Append(p.free, i)] ELSE p

\* Mutant of TakeAndGiveBack: the failing path forgets the index it took.
TakeAndForget(p) == Take(p)

\* A bind that took an index, failed to map the buffer, and put it back.
TakeAndGiveBack(p) == Give(Take(p), Candidate(p))

-----------------------------------------------------------------------------

Recycled(p) == {p.free[k] : k \in 1 .. Len(p.free)}

\* The indices handed out and not returned: what surfaces may be using.
Held(p) == (0 .. p.next-1) \ Recycled(p)

\* The allocator's invariant.  Nothing is on the stack twice, and nothing on
\* it is above the counter, so no index can be handed to two owners.
PoolOK(p) ==
  /\ p \in Pool
  /\ p.next <= p.num
  /\ Recycled(p) \subseteq 0 .. p.next-1
  /\ \A j, k \in 1 .. Len(p.free) : p.free[j] = p.free[k] => j = k
=============================================================================
