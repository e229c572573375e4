------------------------------ MODULE EncodeRing ------------------------------
(***************************************************************************)
(* The H.264 encoder of a context (va-driver/src/encode.c): a stateful V4L2 *)
(* device between a ring of raw buffers and a ring of coded ones.          *)
(*                                                                         *)
(* vaEndPicture copies the surface into the next raw buffer, queues the    *)
(* next coded buffer and the raw one, waits at most two seconds for any    *)
(* coded buffer, and dequeues one buffer of each queue.  It keeps the      *)
(* driver lock throughout, so only the device acts while it waits.  The    *)
(* pictures of a context are numbered in the order of the calls.           *)
(***************************************************************************)
EXTENDS Integers, Sequences, FiniteSets

CONSTANTS
  NumRaw, NumCoded,  \* buffers granted by VIDIOC_REQBUFS
  MaxPictures,       \* bound: how many pictures the client encodes
  Faults             \* what may go wrong

ASSUME RingAssumption ==
  /\ NumRaw \in Nat \ {0} /\ NumCoded \in Nat \ {0} /\ MaxPictures \in Nat
  /\ Faults \subseteq {"late",     \* two seconds pass without an answer
                       "refused"}  \* an ioctl fails

VARIABLES
  next,   \* encode->next_raw and next_coded, which step together
  raw,    \* the picture in each raw buffer
  coded,  \* the picture whose bitstream is in each coded buffer
  kern,   \* the device's queues
  call,   \* the picture vaEndPicture waits for, 0 for none
  given   \* whose bitstream each vaEndPicture returned, 0 for an error

vars == <<next, raw, coded, kern, call, given>>

RawIndex   == 0 .. NumRaw-1
CodedIndex == 0 .. NumCoded-1

\* What is in a buffer that was never filled.
Garbage == -1

EmptyRings == [raw |-> << >>, coded |-> << >>, rawDone |-> << >>, codedDone |-> << >>]

Init ==
  /\ next = 0
  /\ raw = [i \in RawIndex |-> Garbage]
  /\ coded = [i \in CodedIndex |-> Garbage]
  /\ kern = EmptyRings
  /\ call = 0
  /\ given = << >>

-----------------------------------------------------------------------------

Elements(q) == {q[k] : k \in 1 .. Len(q)}

\* vb2 takes a buffer only from user space's hands: not queued, not done.
RawBusy(i)   == i \in Elements(kern.raw) \cup Elements(kern.rawDone)
CodedBusy(i) == i \in Elements(kern.coded) \cup Elements(kern.codedDone)

\* VIDIOC_DQBUF on a queue with nothing done fails: the device is O_NONBLOCK.
Dequeued(q) == IF q = << >> THEN q ELSE Tail(q)

\* Mutant of RawNext: the index is not wrapped.
RawNextUnwrapped == next

\* next_raw++ % num_raw_buffers, and the same of next_coded.
RawNext   == next % NumRaw
CodedNext == next % NumCoded

\* Mutant of Filling: the copy goes to the buffer after the one that is queued.
FillingAhead ==
  /\ call = 0
  /\ next < MaxPictures
  /\ next' = next + 1
  /\ raw' = [raw EXCEPT ![(next + 1) % NumRaw] = next + 1]
  /\ UNCHANGED coded

\* The head of encode_picture_submit: both indices step, and the surface is
\* copied into the raw buffer, whoever has it.
Filling ==
  /\ call = 0
  /\ next < MaxPictures
  /\ next' = next + 1
  /\ raw' = [raw EXCEPT ![RawNext] = next + 1]
  /\ UNCHANGED coded

\* VIDIOC_QBUF of the coded buffer fails.
SubmitUncoded ==
  /\ Filling
  /\ "refused" \in Faults \/ CodedBusy(CodedNext)
  /\ given' = Append(given, 0)
  /\ UNCHANGED <<kern, call>>

\* VIDIOC_QBUF of the raw buffer fails; the attempt to take the coded buffer
\* back gets the oldest bitstream that is done, if there is one.
SubmitHalf ==
  /\ Filling
  /\ ~CodedBusy(CodedNext)
  /\ "refused" \in Faults \/ RawBusy(RawNext)
  /\ kern' = [kern EXCEPT !.coded = Append(@, CodedNext), !.codedDone = Dequeued(@)]
  /\ given' = Append(given, 0)
  /\ UNCHANGED call

Submit ==
  /\ Filling
  /\ ~CodedBusy(CodedNext) /\ ~RawBusy(RawNext)
  /\ kern' = [kern EXCEPT !.coded = Append(@, CodedNext), !.raw = Append(@, RawNext)]
  /\ call' = next + 1
  /\ UNCHANGED given

\* The device encodes the oldest raw buffer into the oldest coded one.
Encode ==
  /\ kern.raw # << >> /\ kern.coded # << >>
  /\ coded' = [coded EXCEPT ![Head(kern.coded)] = raw[Head(kern.raw)]]
  /\ kern' = [raw |-> Tail(kern.raw), coded |-> Tail(kern.coded),
              rawDone |-> Append(kern.rawDone, Head(kern.raw)),
              codedDone |-> Append(kern.codedDone, Head(kern.coded))]
  /\ UNCHANGED <<next, raw, call, given>>

\* poll reports that a coded buffer can be dequeued.
Ready == call # 0 /\ kern.codedDone # << >>

Return(p) ==
  /\ given' = Append(given, p)
  /\ call' = 0
  /\ UNCHANGED <<next, raw, coded>>

\* Mutant of Deliver: the bitstream is looked for in the buffer that this call
\* queued.
DeliverQueued ==
  /\ Ready /\ kern.rawDone # << >>
  /\ kern' = [kern EXCEPT !.rawDone = Tail(@), !.codedDone = Tail(@)]
  /\ Return(coded[(next - 1) % NumCoded])

\* Mutant of Deliver: the coded buffer is read and not dequeued.
DeliverUndequeued ==
  /\ Ready /\ kern.rawDone # << >>
  /\ kern' = [kern EXCEPT !.rawDone = Tail(@)]
  /\ Return(coded[Head(kern.codedDone)])

\* Mutant of Deliver: the raw buffer is not dequeued.
DeliverRawKept ==
  /\ Ready /\ kern.rawDone # << >>
  /\ kern' = [kern EXCEPT !.codedDone = Tail(@)]
  /\ Return(coded[Head(kern.codedDone)])

\* Both buffers are dequeued, and the bitstream is the one in the coded buffer
\* that came back.
Deliver ==
  /\ Ready /\ kern.rawDone # << >>
  /\ kern' = [kern EXCEPT !.rawDone = Tail(@), !.codedDone = Tail(@)]
  /\ Return(coded[Head(kern.codedDone)])

\* One of the two VIDIOC_DQBUF fails.
DeliverFails ==
  /\ Ready
  /\ \/ /\ kern.rawDone = << >> \/ "refused" \in Faults
        /\ UNCHANGED kern
     \/ /\ kern.rawDone # << >> /\ "refused" \in Faults
        /\ kern' = [kern EXCEPT !.rawDone = Tail(@)]
  /\ Return(0)

TimesOut ==
  /\ "late" \in Faults
  /\ call # 0 /\ ~Ready
  /\ Return(0)
  /\ UNCHANGED kern

\* encode_context_destroy, and encode_context_create for a new context.
Recreate ==
  /\ call = 0 /\ next # 0
  /\ next' = 0
  /\ raw' = [i \in RawIndex |-> Garbage]
  /\ coded' = [i \in CodedIndex |-> Garbage]
  /\ kern' = EmptyRings
  /\ given' = << >>
  /\ UNCHANGED call

Next == SubmitUncoded \/ SubmitHalf \/ Submit \/ Encode
          \/ Deliver \/ DeliverFails \/ TimesOut \/ Recreate

Spec ==
  /\ Init /\ [][Next]_vars
  /\ WF_vars("late" \notin Faults /\ Encode)
  /\ WF_vars(Deliver \/ DeliverFails \/ TimesOut)

-----------------------------------------------------------------------------
(* What must hold.                                                         *)

\* Every variable stays in its type: an index the device has is one of ours,
\* and there is one answer for every call that has returned.
TypeOK ==
  /\ next \in 0 .. MaxPictures
  /\ raw \in [RawIndex -> Garbage .. MaxPictures]
  /\ coded \in [CodedIndex -> Garbage .. MaxPictures]
  /\ kern \in [raw : Seq(RawIndex), rawDone : Seq(RawIndex),
               coded : Seq(CodedIndex), codedDone : Seq(CodedIndex)]
  /\ call \in {0, next}
  /\ given \in Seq(0 .. MaxPictures)
  /\ Len(given) = IF call = 0 THEN next ELSE next - 1

Failures == Cardinality({p \in 1 .. Len(given) : given[p] = 0})

\* While fewer calls have failed than a ring has buffers, the next buffer of
\* that ring is in the driver's hands: encode_picture_submit neither copies a
\* picture over one that is still to be read, nor is refused by VIDIOC_QBUF.
NextIsFree ==
  call = 0 => /\ Failures < NumRaw   => ~RawBusy(RawNext)
              /\ Failures < NumCoded => ~CodedBusy(CodedNext)

\* Until then, and after one failure more, the bitstreams come in the order of
\* their pictures, although a late one is handed to a later call: it takes a
\* picture copied over one that is still queued to get ahead of others.
OrderKept ==
  Failures <= NumRaw =>
    \A p, q \in 1 .. Len(given) :
      p < q /\ given[p] # 0 /\ given[q] # 0 => given[p] < given[q]

\* Until a call fails, each returns the bitstream of its own picture.
OwnUntilFailure ==
  \A p \in 1 .. Len(given) :
    (\A q \in 1 .. p : given[q] # 0) => given[p] = p

\* A ring never hands out a bitstream twice or one that was not submitted, and
\* every call returns.
Stream == INSTANCE EncodedStream WITH calling <- call # 0, stream <- given

ImplementsStream == Stream!Spec
=============================================================================
