--------------------------- MODULE DecodeQueueProofs ---------------------------
(***************************************************************************)
(* The safety properties of DecodeQueue hold for any number of streams,     *)
(* surfaces, buffers and descriptors, each under the faults it survives:    *)
(* those of the indices under all, that of the descriptors unless a surface *)
(* is synced twice, those of the pictures when nothing fails.              *)
(***************************************************************************)
EXTENDS DecodeQueue, BufferPoolProofs, WellFoundedInduction

\* The coded buffers the hardware has.
InFlight(x) == {kern[x].out[n].buf : n \in 1 .. Len(kern[x].out)}

\* An index belongs to one surface, which took it and has not returned it.
IndicesOwned(x) ==
  /\ PoolOK(pool[x].out) /\ PoolOK(pool[x].cap)
  /\ \A s \in Slots :
       /\ surf[x][s].src # Unassigned => surf[x][s].src \in Held(pool[x].out)
       /\ surf[x][s].dst # Unassigned => surf[x][s].dst \in Held(pool[x].cap)
  /\ \A s, t \in Slots :
       /\ surf[x][s].src # Unassigned /\ surf[x][s].src = surf[x][t].src => s = t
       /\ surf[x][s].dst # Unassigned /\ surf[x][s].dst = surf[x][t].dst => s = t

\* A begun picture has its buffers, and a wait is for the begun picture.
BegunBound(x) ==
  /\ open[x] # "none" => /\ surf[x][open[x]].status = "Rendering"
                         /\ surf[x][open[x]].src # Unassigned
                         /\ surf[x][open[x]].dst # Unassigned
  /\ wait[x] # NoWait => /\ wait[x].slot = open[x] /\ open[x] # "none"
                         /\ wait[x].fd \in Fds

\* InFlightNotRecycled of one stream, and more: the surface whose picture a
\* buffer in flight holds has kept that buffer.
ReadsOwn(x) ==
  \A i \in InFlight(x) :
    /\ i \in Held(pool[x].out)
    /\ coded[x][i] \in Slots => surf[x][coded[x][i]].src = i
    /\ \A s \in Slots : surf[x][s].src = i => surf[x][s].status = "Rendering"

\* What a sync waits for is with the hardware or done, and no sync dequeues a
\* CAPTURE buffer without a coded one.
AnswersComing(x) ==
  /\ wait[x] # NoWait =>
       surf[x][wait[x].slot].src \in InFlight(x) \/ kern[x].outDone # << >>
  /\ Len(kern[x].outDone) <= Len(kern[x].capDone)

StreamOK(x) == IndicesOwned(x) /\ BegunBound(x) /\ ReadsOwn(x) /\ AnswersComing(x)

IInv == TypeOK /\ \A x \in Streams : StreamOK(x)

\* Every request that the hardware has, and that is not forgotten, is queued,
\* and has a descriptor of its own.
JobsQueued ==
  \A x \in Streams : \A n \in 1 .. Len(kern[x].out) :
    kern[x].out[n].fd # NoFd => fds[kern[x].out[n].fd] = "queued"

JobsDistinct ==
  \A x, y \in Streams :
    \A n \in 1 .. Len(kern[x].out), m \in 1 .. Len(kern[y].out) :
      kern[x].out[n].fd # NoFd /\ kern[x].out[n].fd = kern[y].out[m].fd => x = y /\ n = m

Jobs == JobsQueued /\ JobsDistinct

\* DescriptorsOwned in terms of the surfaces, and of the calls that wait: none
\* has the number of a descriptor that was closed.
NamesDistinct ==
  \A x, y \in Streams, s, t \in Slots :
    surf[x][s].fd # NoFd /\ surf[x][s].fd = surf[y][t].fd => x = y /\ s = t

NamesOpen ==
  \A x \in Streams, s \in Slots : surf[x][s].fd # NoFd => fds[surf[x][s].fd] # "free"

OpenNamed ==
  \A f \in Fds : fds[f] # "free" => \E x \in Streams, s \in Slots : surf[x][s].fd = f

WaitNamed ==
  \A x \in Streams : wait[x] # NoWait => surf[x][wait[x].slot].fd = wait[x].fd

Names == NamesDistinct /\ NamesOpen /\ OpenNamed /\ WaitNamed

DInv == Jobs /\ Names

\* While nothing fails the queues hold the one picture that is waited for.
Submitted(x) ==
  LET t == surf[x][wait[x].slot] IN
  /\ kern[x] = [out |-> <<[buf |-> t.src, fd |-> wait[x].fd]>>, cap |-> <<t.dst>>,
                outDone |-> << >>, capDone |-> << >>]
  /\ fds[wait[x].fd] = "queued"
  /\ coded[x][t.src] = wait[x].slot

Decoded(x) ==
  LET t == surf[x][wait[x].slot] IN
  /\ kern[x] = [out |-> << >>, cap |-> << >>, outDone |-> <<t.src>>, capDone |-> <<t.dst>>]
  /\ fds[wait[x].fd] = "complete"
  /\ mem[x][t.dst] = wait[x].slot

OnePicture(x) ==
  IF wait[x] = NoWait THEN kern[x] = EmptyQueues ELSE Submitted(x) \/ Decoded(x)

ShowsOwn(x) == \A s \in Slots : Shown(x, s) => mem[x][surf[x][s].dst] = s

EInv == \A x \in Streams : OnePicture(x) /\ ShowsOwn(x)

-----------------------------------------------------------------------------
(* Numbers, queues and pools.                                              *)

\* A set of numbers that is not empty has a least one.
LEMMA LeastNumber ==
  ASSUME NEW S, S \subseteq Nat, S # {}
  PROVE  \E n \in S : \A m \in S : n <= m
<1> DEFINE R == OpToRel(<, Nat)
<1>1. IsWellFoundedOn(R, Nat)
  BY NatLessThanWellFounded
<1>2. \A x, y \in S : y < x => <<y, x>> \in R
  BY DEF OpToRel
<1> HIDE DEF R
<1>3. PICK n \in S : \A m \in S : ~(<<m, n>> \in R)
  BY <1>1, WFMin
<1>4. SUFFICES ASSUME NEW m \in S PROVE n <= m
  OBVIOUS
<1>5. ~(m < n)
  BY <1>2, <1>3
<1>6. m \in Nat /\ n \in Nat
  OBVIOUS
<1> QED BY <1>5, <1>6

\* open() gives a number that is free.
LEMMA LowestIsFree ==
  ASSUME FreeFds # {}
  PROVE  LowestFd \in FreeFds
<1>1. FreeFds \subseteq Nat
  BY DEF FreeFds, Fds
<1>2. \E f \in FreeFds : \A g \in FreeFds : f <= g
  BY <1>1, LeastNumber
<1> QED BY <1>2 DEF LowestFd

LEMMA FdFacts == NoFd \notin Fds /\ Fds \subseteq Nat
BY DEF NoFd, Fds

LEMMA IndexFacts == Unassigned \notin Index /\ Index \subseteq Nat
BY DEF Unassigned, Index

LEMMA AppendedJob ==
  ASSUME NEW q \in Seq(Job), NEW j \in Job
  PROVE  /\ Append(q, j) \in Seq(Job) /\ Len(Append(q, j)) = Len(q) + 1 /\ Len(q) \in Nat
         /\ \A n \in 1 .. Len(q) : Append(q, j)[n] = q[n]
         /\ Append(q, j)[Len(q) + 1] = j
BY AppendProperties

LEMMA AppendedIndex ==
  ASSUME NEW q \in Seq(Index), NEW i \in Index
  PROVE  /\ Append(q, i) \in Seq(Index) /\ Len(Append(q, i)) = Len(q) + 1 /\ Len(q) \in Nat
         /\ Append(q, i) # << >>
         /\ \A n \in 1 .. Len(q) : Append(q, i)[n] = q[n]
         /\ Append(q, i)[Len(q) + 1] = i
BY AppendProperties

LEMMA TailJob ==
  ASSUME NEW q \in Seq(Job), q # << >>
  PROVE  /\ Head(q) \in Job /\ Head(q) = q[1] /\ Tail(q) \in Seq(Job)
         /\ Len(q) \in Nat \ {0} /\ Len(Tail(q)) = Len(q) - 1
         /\ \A n \in 1 .. Len(q) - 1 : Tail(q)[n] = q[n + 1]
BY HeadTailProperties, EmptySeq

LEMMA TailIndex ==
  ASSUME NEW q \in Seq(Index), q # << >>
  PROVE  /\ Head(q) \in Index /\ Head(q) = q[1] /\ Tail(q) \in Seq(Index)
         /\ Len(q) \in Nat \ {0} /\ Len(Tail(q)) = Len(q) - 1
         /\ \A n \in 1 .. Len(q) - 1 : Tail(q)[n] = q[n + 1]
BY HeadTailProperties, EmptySeq

LEMMA HeldIndices ==
  ASSUME NEW p, PoolOK(p)
  PROVE  Held(p) \subseteq Index /\ Unassigned \notin Held(p) /\ p \in Pool
<1>1. \A i \in Held(p) : i \in Index /\ i # Unassigned
  BY HeldInRange DEF Index
<1> QED BY <1>1 DEF PoolOK

\* A bind takes an index if the surface has none, and nobody's.
LEMMA BindFacts ==
  ASSUME NEW p, PoolOK(p), NEW i, i = Unassigned => ~Exhausted(p),
         i # Unassigned => i \in Held(p)
  PROVE  /\ PoolOK(BoundPool(i, p))
         /\ BoundIndex(i, p) \in Held(BoundPool(i, p)) /\ BoundIndex(i, p) # Unassigned
         /\ BoundIndex(i, p) \in Index
         /\ Held(p) \subseteq Held(BoundPool(i, p))
         /\ i = Unassigned => BoundIndex(i, p) \notin Held(p)
         /\ i # Unassigned => BoundIndex(i, p) = i
<1>1. CASE i = Unassigned
  <2>1. /\ PoolOK(Take(p)) /\ Candidate(p) \notin Held(p)
        /\ Held(Take(p)) = Held(p) \cup {Candidate(p)}
    BY <1>1, TakeFacts
  <2>2. Candidate(p) \in Index /\ Candidate(p) # Unassigned
    BY <2>1, HeldIndices
  <2> QED BY <1>1, <2>1, <2>2 DEF BoundPool, BoundIndex
<1>2. CASE i # Unassigned
  <2>1. i \in Index
    BY <1>2, HeldIndices
  <2> QED BY <1>2, <2>1 DEF BoundPool, BoundIndex
<1> QED BY <1>1, <1>2

LEMMA ReturnedFacts ==
  ASSUME NEW p, PoolOK(p), NEW i, i # Unassigned => i \in Held(p)
  PROVE  /\ PoolOK(Returned(p, i))
         /\ Held(Returned(p, i)) = Held(p) \ {i}
<1>1. CASE i = Unassigned
  BY <1>1, HeldIndices DEF Returned
<1>2. CASE i # Unassigned
  BY <1>2, GiveFacts DEF Returned
<1> QED BY <1>1, <1>2

-----------------------------------------------------------------------------
(* The variables by stream.                                                *)

Queues == [out : Seq(Job), cap : Seq(Index), outDone : Seq(Index), capDone : Seq(Index)]

LEMMA StreamFields ==
  ASSUME TypeOK, NEW x \in Streams
  PROVE  /\ surf[x] \in [Slots -> Surface]
         /\ pool[x] \in [out : Pool, cap : Pool]
         /\ open[x] \in Slots \cup {"none"}
         /\ wait[x] \in [slot : Slots \cup {"none"}, fd : Fds \cup {NoFd}]
         /\ kern[x] \in Queues
         /\ coded[x] \in [Index -> Picture] /\ mem[x] \in [Index -> Picture]
BY DEF TypeOK, Queues

LEMMA SlotFields ==
  ASSUME TypeOK, NEW x \in Streams, NEW s \in Slots
  PROVE  /\ surf[x][s] \in Surface
         /\ surf[x][s].status \in {"Ready", "Rendering", "Displaying"}
         /\ surf[x][s].src \in Index \cup {Unassigned}
         /\ surf[x][s].dst \in Index \cup {Unassigned}
         /\ surf[x][s].fd \in Fds \cup {NoFd}
BY DEF TypeOK, Surface

LEMMA JobFields ==
  ASSUME NEW q \in Seq(Job), NEW n \in 1 .. Len(q)
  PROVE  q[n] \in Job /\ q[n].buf \in Index /\ q[n].fd \in Fds \cup {NoFd}
<1>1. q[n] \in Job
  OBVIOUS
<1> QED BY <1>1 DEF Job

LEMMA QueueFields ==
  ASSUME TypeOK, NEW x \in Streams
  PROVE  /\ kern[x].out \in Seq(Job) /\ kern[x].cap \in Seq(Index)
         /\ kern[x].outDone \in Seq(Index) /\ kern[x].capDone \in Seq(Index)
         /\ Len(kern[x].out) \in Nat /\ Len(kern[x].cap) \in Nat
         /\ Len(kern[x].outDone) \in Nat /\ Len(kern[x].capDone) \in Nat
         /\ InFlight(x) \subseteq Index
<1>1. /\ kern[x].out \in Seq(Job) /\ kern[x].cap \in Seq(Index)
      /\ kern[x].outDone \in Seq(Index) /\ kern[x].capDone \in Seq(Index)
  BY StreamFields DEF Queues
<1>2. \A n \in 1 .. Len(kern[x].out) : kern[x].out[n].buf \in Index
  BY <1>1, JobFields
<1> QED BY <1>1, <1>2, LenProperties DEF InFlight

\* A stream that keeps what it has is as sound as it was, whichever of its
\* requests lost its descriptor.
LEMMA OtherStream ==
  ASSUME NEW y \in Streams, StreamOK(y),
         surf'[y] = surf[y], pool'[y] = pool[y], open'[y] = open[y], wait'[y] = wait[y],
         coded'[y] = coded[y], InFlight(y)' = InFlight(y),
         kern'[y].outDone = kern[y].outDone, kern'[y].capDone = kern[y].capDone
  PROVE  StreamOK(y)'
<1>1. IndicesOwned(y)'
  BY DEF StreamOK, IndicesOwned
<1>2. BegunBound(y)'
  BY DEF StreamOK, BegunBound, Fds
<1>3. ReadsOwn(y)'
  BY DEF StreamOK, ReadsOwn
<1>4. AnswersComing(y)'
  BY DEF StreamOK, AnswersComing
<1> QED BY <1>1, <1>2, <1>3, <1>4 DEF StreamOK

\* A closed descriptor changes nothing about the buffers.
LEMMA ForgetFacts ==
  ASSUME NEW k \in Queues, NEW f
  PROVE  /\ Forget(k, f) \in Queues
         /\ Forget(k, f).cap = k.cap /\ Forget(k, f).outDone = k.outDone
         /\ Forget(k, f).capDone = k.capDone
         /\ Len(Forget(k, f).out) = Len(k.out)
         /\ \A n \in 1 .. Len(k.out) :
              /\ Forget(k, f).out[n].buf = k.out[n].buf
              /\ Forget(k, f).out[n].fd =
                   IF f # NoFd /\ k.out[n].fd = f THEN NoFd ELSE k.out[n].fd
<1> DEFINE q == k.out
           r == [n \in 1 .. Len(q) |-> IF f # NoFd /\ q[n].fd = f
                                       THEN [q[n] EXCEPT !.fd = NoFd] ELSE q[n]]
<1>1. /\ q \in Seq(Job) /\ k.cap \in Seq(Index) /\ k.outDone \in Seq(Index)
      /\ k.capDone \in Seq(Index)
      /\ DOMAIN k = {"out", "cap", "outDone", "capDone"}
  BY DEF Queues
<1>2. Forget(k, f) = [k EXCEPT !.out = r]
  BY DEF Forget
<1> HIDE DEF q
<1>3. Len(q) \in Nat /\ \A n \in 1 .. Len(q) : q[n] \in Job
  BY <1>1
<1>4. \A n \in 1 .. Len(q) :
        /\ r[n] \in Job /\ r[n].buf = q[n].buf
        /\ r[n].fd = IF f # NoFd /\ q[n].fd = f THEN NoFd ELSE q[n].fd
  BY <1>3 DEF Job
<1>5. r \in [1 .. Len(q) -> Job]
  BY <1>4
<1>6. DOMAIN r = 1 .. Len(q)
  OBVIOUS
<1> HIDE DEF r
<1>7. r \in Seq(Job) /\ Len(r) = Len(q)
  BY <1>3, <1>5, <1>6
<1>8. /\ Forget(k, f).out = r /\ Forget(k, f).cap = k.cap
      /\ Forget(k, f).outDone = k.outDone /\ Forget(k, f).capDone = k.capDone
      /\ DOMAIN Forget(k, f) = {"out", "cap", "outDone", "capDone"}
  BY <1>1, <1>2
<1>9. Forget(k, f) = [out |-> r, cap |-> k.cap, outDone |-> k.outDone, capDone |-> k.capDone]
  BY <1>1, <1>2
<1>10. Forget(k, f) \in Queues
  BY <1>1, <1>7, <1>9 DEF Queues
<1> QED BY <1>4, <1>7, <1>8, <1>10 DEF q

\* The buffers of a stream that may only have lost descriptors.
LEMMA FdStep ==
  ASSUME NEW x \in Streams, StreamOK(x),
         \A s \in Slots : /\ surf'[x][s].status = surf[x][s].status
                          /\ surf'[x][s].src = surf[x][s].src
                          /\ surf'[x][s].dst = surf[x][s].dst,
         open[x] \in Slots \cup {"none"},
         pool'[x] = pool[x], coded'[x] = coded[x], InFlight(x)' = InFlight(x),
         Len(kern'[x].outDone) <= Len(kern'[x].capDone),
         \/ open'[x] = "none" /\ wait'[x] = NoWait
         \/ /\ open'[x] = open[x] /\ wait'[x] = wait[x]
            /\ kern'[x].outDone = kern[x].outDone
  PROVE  StreamOK(x)'
<1>1. IndicesOwned(x)'
  BY DEF StreamOK, IndicesOwned
<1>2. BegunBound(x)'
  BY DEF StreamOK, BegunBound, Fds, NoWait
<1>3. ReadsOwn(x)'
  BY DEF StreamOK, ReadsOwn
<1>4. AnswersComing(x)'
  <2>1. wait[x] # NoWait => wait[x].slot \in Slots
    BY DEF StreamOK, BegunBound
  <2> QED BY <2>1 DEF StreamOK, AnswersComing, NoWait
<1> QED BY <1>1, <1>2, <1>3, <1>4 DEF StreamOK

\* A surface whose request has another descriptor.
Renamed(x, s, f) == surf' = [surf EXCEPT ![x][s].fd = f]

LEMMA NewName ==
  ASSUME TypeOK, NEW x \in Streams, NEW s \in Slots, NEW f \in Fds \cup {NoFd},
         Renamed(x, s, f)
  PROVE  /\ surf'[x][s].fd = f
         /\ \A y \in Streams : y # x => surf'[y] = surf[y]
         /\ \A t \in Slots : t # s => surf'[x][t] = surf[x][t]
<1>1. /\ surf \in [Streams -> [Slots -> Surface]] /\ surf[x] \in [Slots -> Surface]
      /\ surf[x][s] \in Surface
  BY DEF TypeOK
<1> DEFINE n == [surf[x][s] EXCEPT !.fd = f]
<1>2. n.fd = f
  BY <1>1 DEF Surface
<1>3. surf' = [surf EXCEPT ![x] = [surf[x] EXCEPT ![s] = n]]
  BY <1>1 DEF Renamed
<1> HIDE DEF n
<1>4. /\ surf'[x] = [surf[x] EXCEPT ![s] = n]
      /\ \A y \in Streams : y # x => surf'[y] = surf[y]
  BY <1>1, <1>3
<1>5. surf'[x][s] = n /\ \A t \in Slots : t # s => surf'[x][t] = surf[x][t]
  BY <1>1, <1>4
<1> QED BY <1>2, <1>4, <1>5

LEMMA NewState ==
  ASSUME TypeOK, NEW x \in Streams, NEW s \in Slots, NEW f \in Fds \cup {NoFd},
         Renamed(x, s, f)
  PROVE  /\ surf'[x][s] \in Surface
         /\ \A y \in Streams, t \in Slots : /\ surf'[y][t].status = surf[y][t].status
                                            /\ surf'[y][t].src = surf[y][t].src
                                            /\ surf'[y][t].dst = surf[y][t].dst
<1>1. /\ surf \in [Streams -> [Slots -> Surface]] /\ surf[x] \in [Slots -> Surface]
      /\ surf[x][s] \in Surface
  BY DEF TypeOK
<1> DEFINE n == [surf[x][s] EXCEPT !.fd = f]
<1>2. /\ n \in Surface /\ n.status = surf[x][s].status
      /\ n.src = surf[x][s].src /\ n.dst = surf[x][s].dst
  BY <1>1 DEF Surface
<1>3. surf'[x][s] = n
  BY <1>1 DEF Renamed
<1> HIDE DEF n
<1>4. /\ \A y \in Streams : y # x => surf'[y] = surf[y]
      /\ \A t \in Slots : t # s => surf'[x][t] = surf[x][t]
  BY NewName
<1> QED BY <1>2, <1>3, <1>4

LEMMA NewFd ==
  ASSUME TypeOK, NEW x \in Streams, NEW s \in Slots, NEW f \in Fds \cup {NoFd},
         surf' = [surf EXCEPT ![x][s].fd = f]
  PROVE  /\ surf' \in [Streams -> [Slots -> Surface]]
         /\ \A y \in Streams : y # x => surf'[y] = surf[y]
         /\ \A t \in Slots : t # s => surf'[x][t] = surf[x][t]
         /\ surf'[x][s] = [surf[x][s] EXCEPT !.fd = f]
         /\ \A y \in Streams, t \in Slots : /\ surf'[y][t].status = surf[y][t].status
                                            /\ surf'[y][t].src = surf[y][t].src
                                            /\ surf'[y][t].dst = surf[y][t].dst
         /\ surf'[x][s].fd = f
<1>1. /\ surf \in [Streams -> [Slots -> Surface]] /\ surf[x] \in [Slots -> Surface]
      /\ Renamed(x, s, f)
  BY DEF TypeOK, Renamed
<1>2. /\ \A y \in Streams : y # x => surf'[y] = surf[y]
      /\ \A t \in Slots : t # s => surf'[x][t] = surf[x][t]
      /\ surf'[x][s].fd = f
  BY <1>1, NewName
<1>3. /\ surf'[x][s] \in Surface
      /\ \A y \in Streams, t \in Slots : /\ surf'[y][t].status = surf[y][t].status
                                         /\ surf'[y][t].src = surf[y][t].src
                                         /\ surf'[y][t].dst = surf[y][t].dst
  BY <1>1, NewState
<1>4. surf'[x][s] = [surf[x][s] EXCEPT !.fd = f]
  BY <1>1
<1>5. surf'[x] \in [Slots -> Surface]
  <2>1. surf'[x] = [surf[x] EXCEPT ![s] = [surf[x][s] EXCEPT !.fd = f]]
    BY <1>1
  <2> QED BY <1>1, <1>3, <1>4, <2>1
<1>6. surf' \in [Streams -> [Slots -> Surface]]
  <2>1. surf' = [surf EXCEPT ![x] = surf'[x]]
    BY <1>1
  <2> QED BY <1>1, <1>5, <2>1
<1> QED BY <1>2, <1>3, <1>4, <1>6

\* surface->request_fd, or a number that was free.
LEMMA RequestFdFacts ==
  ASSUME TypeOK, NEW x \in Streams, NEW s \in Slots, HasRequest(x, s)
  PROVE  /\ RequestFd(x, s) \in Fds
         /\ surf[x][s].fd # NoFd => RequestFd(x, s) = surf[x][s].fd
         /\ surf[x][s].fd = NoFd => fds[RequestFd(x, s)] = "free"
<1>1. CASE surf[x][s].fd # NoFd
  BY <1>1, SlotFields DEF RequestFd
<1>2. CASE surf[x][s].fd = NoFd
  <2>1. LowestFd \in FreeFds
    BY <1>2, LowestIsFree DEF HasRequest
  <2> QED BY <1>2, <2>1 DEF RequestFd, FreeFds
<1> QED BY <1>1, <1>2

LEMMA ClosedFdsFacts ==
  ASSUME TypeOK, NEW f \in Fds \cup {NoFd}
  PROVE  /\ ClosedFds(f) \in [Fds -> {"free", "idle", "queued", "complete"}]
         /\ \A g \in Fds : ClosedFds(f)[g] = IF g = f THEN "free" ELSE fds[g]
BY FdFacts DEF TypeOK, ClosedFds

\* The queues of all streams once a descriptor is closed.
LEMMA ClosedKernFacts ==
  ASSUME TypeOK, NEW f, kern' = ClosedKern(f)
  PROVE  /\ kern' \in [Streams -> Queues]
         /\ \A y \in Streams :
              /\ InFlight(y)' = InFlight(y)
              /\ kern'[y].cap = kern[y].cap
              /\ kern'[y].outDone = kern[y].outDone /\ kern'[y].capDone = kern[y].capDone
<1>1. \A y \in Streams : kern[y] \in Queues /\ kern'[y] = Forget(kern[y], f)
  BY StreamFields DEF ClosedKern
<1>2. ASSUME NEW y \in Streams
      PROVE  /\ kern'[y] \in Queues
             /\ InFlight(y)' = InFlight(y)
             /\ kern'[y].cap = kern[y].cap
             /\ kern'[y].outDone = kern[y].outDone /\ kern'[y].capDone = kern[y].capDone
  <2>1. /\ kern'[y] \in Queues
        /\ kern'[y].cap = kern[y].cap
        /\ kern'[y].outDone = kern[y].outDone /\ kern'[y].capDone = kern[y].capDone
        /\ Len(kern'[y].out) = Len(kern[y].out)
        /\ \A n \in 1 .. Len(kern[y].out) : kern'[y].out[n].buf = kern[y].out[n].buf
    BY <1>1, ForgetFacts
  <2>2. InFlight(y)' = InFlight(y)
    BY <2>1 DEF InFlight
  <2> QED BY <2>1, <2>2
<1>3. kern' \in [Streams -> Queues]
  BY <1>2 DEF ClosedKern
<1> QED BY <1>2, <1>3

-----------------------------------------------------------------------------
(* The steps under any faults: what was begun keeps its buffers, and what   *)
(* is read keeps its index.                                                *)

LEMMA NameFacts == "none" \notin Slots /\ "old" \notin Slots /\ "bad" \notin Slots
BY QueueAssumption

LEMMA AgedFacts ==
  ASSUME NEW contents \in [Index -> Picture], NEW s \in Slots
  PROVE  /\ Aged(contents, s) \in [Index -> Picture]
         /\ \A i \in Index : /\ contents[i] # s => Aged(contents, s)[i] = contents[i]
                             /\ contents[i] = s => Aged(contents, s)[i] = "old"
BY DEF Aged, Picture

\* A surface that takes the indices it lacks, or only the OUTPUT one.
LEMMA Rebound ==
  ASSUME TypeOK, NEW x \in Streams, IndicesOwned(x), NEW s \in Slots, NEW n,
         surf[x][s].src # Unassigned \/ ~Exhausted(pool[x].out),
         surf'[x] = [surf[x] EXCEPT ![s] = n],
         n.src = BoundIndex(surf[x][s].src, pool[x].out),
         pool'[x].out = BoundPool(surf[x][s].src, pool[x].out),
         \/ /\ n.dst = surf[x][s].dst
            /\ pool'[x].cap = pool[x].cap
         \/ /\ surf[x][s].dst # Unassigned \/ ~Exhausted(pool[x].cap)
            /\ n.dst = BoundIndex(surf[x][s].dst, pool[x].cap)
            /\ pool'[x].cap = BoundPool(surf[x][s].dst, pool[x].cap)
  PROVE  /\ IndicesOwned(x)'
         /\ Held(pool[x].out) \subseteq Held(pool'[x].out)
         /\ n.src # Unassigned /\ n.src \in Index
         /\ n.dst \in Index \cup {Unassigned}
         /\ surf[x][s].src = Unassigned => n.src \notin Held(pool[x].out)
         /\ surf[x][s].src # Unassigned => n.src = surf[x][s].src
         /\ pool'[x].out \in Pool /\ pool'[x].cap \in Pool
<1>1. /\ PoolOK(pool[x].out) /\ PoolOK(pool[x].cap)
      /\ surf[x][s].src # Unassigned => surf[x][s].src \in Held(pool[x].out)
      /\ surf[x][s].dst # Unassigned => surf[x][s].dst \in Held(pool[x].cap)
  BY DEF IndicesOwned
<1>2. /\ PoolOK(pool'[x].out)
      /\ n.src \in Held(pool'[x].out) /\ n.src # Unassigned /\ n.src \in Index
      /\ Held(pool[x].out) \subseteq Held(pool'[x].out)
      /\ surf[x][s].src = Unassigned => n.src \notin Held(pool[x].out)
      /\ surf[x][s].src # Unassigned => n.src = surf[x][s].src
  BY <1>1, BindFacts
<1>3. /\ PoolOK(pool'[x].cap)
      /\ n.dst # Unassigned => n.dst \in Held(pool'[x].cap)
      /\ n.dst \in Index \cup {Unassigned}
      /\ Held(pool[x].cap) \subseteq Held(pool'[x].cap)
      /\ \/ n.dst = surf[x][s].dst
         \/ surf[x][s].dst = Unassigned /\ n.dst \notin Held(pool[x].cap)
  <2>1. CASE n.dst = surf[x][s].dst /\ pool'[x].cap = pool[x].cap
    BY <1>1, <2>1, SlotFields
  <2>2. CASE /\ surf[x][s].dst # Unassigned \/ ~Exhausted(pool[x].cap)
             /\ n.dst = BoundIndex(surf[x][s].dst, pool[x].cap)
             /\ pool'[x].cap = BoundPool(surf[x][s].dst, pool[x].cap)
    BY <1>1, <2>2, BindFacts
  <2> QED BY <2>1, <2>2
<1>4. surf'[x][s] = n /\ \A t \in Slots : t # s => surf'[x][t] = surf[x][t]
  BY StreamFields
<1>5. \A t \in Slots :
        /\ surf'[x][t].src # Unassigned => surf'[x][t].src \in Held(pool'[x].out)
        /\ surf'[x][t].dst # Unassigned => surf'[x][t].dst \in Held(pool'[x].cap)
  BY <1>2, <1>3, <1>4 DEF IndicesOwned
<1>6. \A t \in Slots : t # s =>
        /\ surf[x][t].src # n.src
        /\ n.dst # Unassigned => surf[x][t].dst # n.dst
  BY <1>2, <1>3 DEF IndicesOwned
<1>7. \A t, u \in Slots :
        /\ surf'[x][t].src # Unassigned /\ surf'[x][t].src = surf'[x][u].src => t = u
        /\ surf'[x][t].dst # Unassigned /\ surf'[x][t].dst = surf'[x][u].dst => t = u
  BY <1>4, <1>6 DEF IndicesOwned
<1>8. IndicesOwned(x)'
  BY <1>2, <1>3, <1>5, <1>7 DEF IndicesOwned
<1>9. pool'[x].out \in Pool /\ pool'[x].cap \in Pool
  BY <1>2, <1>3, HeldIndices
<1> QED BY <1>2, <1>3, <1>8, <1>9

\* The CAPTURE buffers are all taken.
LEMMA BeginHalfKeeps ==
  ASSUME IInv, NEW x \in Streams, NEW s \in Slots,
         wait[x] = NoWait, surf[x][s].status # "Rendering",
         surf[x][s].src # Unassigned \/ ~Exhausted(pool[x].out),
         surf' = [surf EXCEPT ![x][s].src = BoundIndex(surf[x][s].src, pool[x].out)],
         pool' = [pool EXCEPT ![x] = [pool[x] EXCEPT !.out = BoundPool(surf[x][s].src, @)]],
         UNCHANGED <<open, wait, fds, kern, coded, mem>>
  PROVE  IInv'
<1> DEFINE t == surf[x][s]
           n == [t EXCEPT !.src = BoundIndex(t.src, pool[x].out)]
<1>1. /\ TypeOK /\ StreamOK(x) /\ IndicesOwned(x)
      /\ surf[x] \in [Slots -> Surface] /\ pool[x] \in [out : Pool, cap : Pool]
      /\ surf \in [Streams -> [Slots -> Surface]]
      /\ pool \in [Streams -> [out : Pool, cap : Pool]]
  BY DEF IInv, StreamOK, TypeOK
<1>2. t \in Surface
  BY <1>1
<1>3. /\ n.src = BoundIndex(t.src, pool[x].out) /\ n.dst = t.dst
      /\ n.status = t.status /\ n.fd = t.fd
      /\ n = [status |-> t.status, src |-> n.src, dst |-> t.dst, fd |-> t.fd]
  BY <1>2 DEF Surface
<1>4. surf' = [surf EXCEPT ![x] = [surf[x] EXCEPT ![s] = n]]
  BY <1>1
<1> HIDE DEF n
<1>5. /\ surf'[x] = [surf[x] EXCEPT ![s] = n]
      /\ \A y \in Streams : y # x => surf'[y] = surf[y] /\ pool'[y] = pool[y]
      /\ pool'[x] = [pool[x] EXCEPT !.out = BoundPool(t.src, pool[x].out)]
  BY <1>1, <1>4
<1>6. /\ pool'[x].out = BoundPool(t.src, pool[x].out) /\ pool'[x].cap = pool[x].cap
      /\ pool'[x] = [out |-> pool'[x].out, cap |-> pool'[x].cap]
  BY <1>1, <1>5
<1>7. /\ IndicesOwned(x)'
      /\ Held(pool[x].out) \subseteq Held(pool'[x].out)
      /\ n.src # Unassigned /\ n.src \in Index
      /\ t.src = Unassigned => n.src \notin Held(pool[x].out)
      /\ t.src # Unassigned => n.src = t.src
      /\ pool'[x].out \in Pool /\ pool'[x].cap \in Pool
  <2>1. /\ TypeOK /\ IndicesOwned(x)
        /\ surf[x][s].src # Unassigned \/ ~Exhausted(pool[x].out)
        /\ surf'[x] = [surf[x] EXCEPT ![s] = n]
        /\ n.src = BoundIndex(surf[x][s].src, pool[x].out)
        /\ pool'[x].out = BoundPool(surf[x][s].src, pool[x].out)
        /\ n.dst = surf[x][s].dst /\ pool'[x].cap = pool[x].cap
    BY <1>1, <1>3, <1>5, <1>6
  <2> QED BY ONLY <2>1, Rebound, x \in Streams, s \in Slots
<1>8. surf'[x][s] = n /\ \A u \in Slots : u # s => surf'[x][u] = surf[x][u]
  BY <1>1, <1>5
<1>9. TypeOK'
  <2>1. n \in Surface
    BY <1>2, <1>3, <1>7 DEF Surface
  <2>2. surf' \in [Streams -> [Slots -> Surface]]
    <3>1. [surf[x] EXCEPT ![s] = n] \in [Slots -> Surface]
      BY <1>1, <2>1
    <3> QED BY <1>1, <1>4, <3>1
  <2>3. pool' \in [Streams -> [out : Pool, cap : Pool]]
    BY <1>1, <1>6, <1>7
  <2> QED BY <1>1, <2>2, <2>3 DEF TypeOK
<1>10. BegunBound(x)'
  BY <1>1, <1>8, StreamFields DEF StreamOK, BegunBound, Fds
<1>11. InFlight(x)' = InFlight(x)
  BY DEF InFlight
<1>12. \A i \in InFlight(x) : n.src # i /\ t.src # i
  BY <1>1, <1>7 DEF StreamOK, ReadsOwn
<1>13. ReadsOwn(x)'
  <2>1. SUFFICES ASSUME NEW i \in InFlight(x)
                 PROVE  /\ i \in Held(pool'[x].out)
                        /\ coded[x][i] \in Slots => surf'[x][coded[x][i]].src = i
                        /\ \A u \in Slots : surf'[x][u].src = i =>
                             surf'[x][u].status = "Rendering"
    BY <1>11 DEF ReadsOwn
  <2>2. /\ i \in Held(pool[x].out)
        /\ coded[x][i] \in Slots => surf[x][coded[x][i]].src = i
        /\ \A u \in Slots : surf[x][u].src = i => surf[x][u].status = "Rendering"
    BY <1>1 DEF StreamOK, ReadsOwn
  <2> QED BY <1>7, <1>8, <1>12, <2>2
<1>14. AnswersComing(x)'
  BY <1>1, <1>11 DEF StreamOK, AnswersComing
<1>15. \A y \in Streams : y # x => StreamOK(y)'
  <2>1. SUFFICES ASSUME NEW y \in Streams, y # x PROVE StreamOK(y)'
    OBVIOUS
  <2>2. InFlight(y)' = InFlight(y) /\ StreamOK(y)
    BY DEF InFlight, IInv
  <2> QED BY <1>5, <2>1, <2>2, OtherStream
<1> QED BY <1>7, <1>9, <1>10, <1>13, <1>14, <1>15 DEF IInv, StreamOK

\* The picture is begun.
LEMMA BegunKeeps ==
  ASSUME IInv, NEW x \in Streams, NEW s \in Slots,
         wait[x] = NoWait, surf[x][s].status # "Rendering",
         surf[x][s].src # Unassigned \/ ~Exhausted(pool[x].out),
         surf[x][s].dst # Unassigned \/ ~Exhausted(pool[x].cap),
         surf' = [surf EXCEPT ![x][s] =
                    [status |-> "Rendering",
                     src |-> BoundIndex(surf[x][s].src, pool[x].out),
                     dst |-> BoundIndex(surf[x][s].dst, pool[x].cap),
                     fd |-> surf[x][s].fd]],
         pool' = [pool EXCEPT ![x] =
                    [[pool[x] EXCEPT !.out = BoundPool(surf[x][s].src, @)]
                       EXCEPT !.cap = BoundPool(surf[x][s].dst, @)]],
         open' = [open EXCEPT ![x] = s],
         coded' = [coded EXCEPT ![x] = Aged(@, s)],
         mem' = [mem EXCEPT ![x] = Aged(@, s)],
         UNCHANGED <<wait, fds, kern>>
  PROVE  IInv'
<1> DEFINE t == surf[x][s]
           n == [status |-> "Rendering", src |-> BoundIndex(t.src, pool[x].out),
                 dst |-> BoundIndex(t.dst, pool[x].cap), fd |-> t.fd]
<1>1. /\ TypeOK /\ StreamOK(x) /\ IndicesOwned(x)
      /\ surf[x] \in [Slots -> Surface] /\ pool[x] \in [out : Pool, cap : Pool]
      /\ coded[x] \in [Index -> Picture] /\ mem[x] \in [Index -> Picture]
      /\ surf \in [Streams -> [Slots -> Surface]]
      /\ pool \in [Streams -> [out : Pool, cap : Pool]]
      /\ open \in [Streams -> Slots \cup {"none"}]
      /\ coded \in [Streams -> [Index -> Picture]] /\ mem \in [Streams -> [Index -> Picture]]
  BY DEF IInv, StreamOK, TypeOK
<1>2. t \in Surface /\ t.fd \in Fds \cup {NoFd}
  BY <1>1, SlotFields
<1>3. /\ n.src = BoundIndex(t.src, pool[x].out) /\ n.dst = BoundIndex(t.dst, pool[x].cap)
      /\ n.status = "Rendering" /\ n.fd = t.fd
      /\ n = [status |-> "Rendering", src |-> n.src, dst |-> n.dst, fd |-> t.fd]
  OBVIOUS
<1>4. surf' = [surf EXCEPT ![x] = [surf[x] EXCEPT ![s] = n]]
  BY <1>1
<1> HIDE DEF n
<1>5. /\ surf'[x] = [surf[x] EXCEPT ![s] = n]
      /\ \A y \in Streams : y # x => /\ surf'[y] = surf[y] /\ pool'[y] = pool[y]
                                     /\ open'[y] = open[y] /\ coded'[y] = coded[y]
      /\ pool'[x] = [[pool[x] EXCEPT !.out = BoundPool(t.src, pool[x].out)]
                       EXCEPT !.cap = BoundPool(t.dst, pool[x].cap)]
      /\ open'[x] = s /\ coded'[x] = Aged(coded[x], s) /\ mem'[x] = Aged(mem[x], s)
  BY <1>1, <1>4
<1>6. /\ pool'[x].out = BoundPool(t.src, pool[x].out)
      /\ pool'[x].cap = BoundPool(t.dst, pool[x].cap)
      /\ pool'[x] = [out |-> pool'[x].out, cap |-> pool'[x].cap]
  BY <1>1, <1>5
<1>7. /\ IndicesOwned(x)'
      /\ Held(pool[x].out) \subseteq Held(pool'[x].out)
      /\ n.src # Unassigned /\ n.src \in Index /\ n.dst \in Index \cup {Unassigned}
      /\ t.src = Unassigned => n.src \notin Held(pool[x].out)
      /\ t.src # Unassigned => n.src = t.src
      /\ pool'[x].out \in Pool /\ pool'[x].cap \in Pool
  <2>1. /\ TypeOK /\ IndicesOwned(x)
        /\ surf[x][s].src # Unassigned \/ ~Exhausted(pool[x].out)
        /\ surf[x][s].dst # Unassigned \/ ~Exhausted(pool[x].cap)
        /\ surf'[x] = [surf[x] EXCEPT ![s] = n]
        /\ n.src = BoundIndex(surf[x][s].src, pool[x].out)
        /\ n.dst = BoundIndex(surf[x][s].dst, pool[x].cap)
        /\ pool'[x].out = BoundPool(surf[x][s].src, pool[x].out)
        /\ pool'[x].cap = BoundPool(surf[x][s].dst, pool[x].cap)
    BY <1>1, <1>3, <1>5, <1>6
  <2> QED BY ONLY <2>1, Rebound, x \in Streams, s \in Slots
<1>8. surf'[x][s] = n /\ \A u \in Slots : u # s => surf'[x][u] = surf[x][u]
  BY <1>1, <1>5
<1>9. n.dst # Unassigned
  <2>1. PoolOK(pool[x].cap) /\ (t.dst # Unassigned => t.dst \in Held(pool[x].cap))
    BY <1>1 DEF IndicesOwned
  <2> QED BY <1>3, <2>1, BindFacts
<1>10. /\ coded'[x] \in [Index -> Picture] /\ mem'[x] \in [Index -> Picture]
       /\ \A i \in Index : /\ coded[x][i] # s => coded'[x][i] = coded[x][i]
                           /\ coded[x][i] = s => coded'[x][i] = "old"
  <2>1. /\ Aged(coded[x], s) \in [Index -> Picture]
        /\ \A i \in Index : /\ coded[x][i] # s => Aged(coded[x], s)[i] = coded[x][i]
                            /\ coded[x][i] = s => Aged(coded[x], s)[i] = "old"
    BY <1>1, AgedFacts
  <2>2. Aged(mem[x], s) \in [Index -> Picture]
    BY <1>1, AgedFacts
  <2> QED BY <1>5, <2>1, <2>2
<1>11. TypeOK'
  <2>1. n \in Surface
    BY <1>2, <1>3, <1>7 DEF Surface
  <2>2. surf' \in [Streams -> [Slots -> Surface]]
    <3>1. [surf[x] EXCEPT ![s] = n] \in [Slots -> Surface]
      BY <1>1, <2>1
    <3> QED BY <1>1, <1>4, <3>1
  <2>3. pool' \in [Streams -> [out : Pool, cap : Pool]]
    BY <1>1, <1>6, <1>7
  <2>4. open' \in [Streams -> Slots \cup {"none"}]
    BY <1>1
  <2>5. coded' \in [Streams -> [Index -> Picture]] /\ mem' \in [Streams -> [Index -> Picture]]
    BY <1>1, <1>5, <1>10
  <2> QED BY <1>1, <2>2, <2>3, <2>4, <2>5 DEF TypeOK
<1>12. BegunBound(x)'
  BY <1>3, <1>5, <1>7, <1>8, <1>9 DEF BegunBound
<1>13. InFlight(x)' = InFlight(x) /\ InFlight(x) \subseteq Index
  BY <1>1, QueueFields DEF InFlight
<1>14. \A i \in InFlight(x) : n.src # i /\ t.src # i
  BY <1>1, <1>7 DEF StreamOK, ReadsOwn
<1>15. ReadsOwn(x)'
  <2>1. SUFFICES ASSUME NEW i \in InFlight(x)
                 PROVE  /\ i \in Held(pool'[x].out)
                        /\ coded'[x][i] \in Slots => surf'[x][coded'[x][i]].src = i
                        /\ \A u \in Slots : surf'[x][u].src = i =>
                             surf'[x][u].status = "Rendering"
    BY <1>13 DEF ReadsOwn
  <2>2. /\ i \in Held(pool[x].out)
        /\ coded[x][i] \in Slots => surf[x][coded[x][i]].src = i
        /\ \A u \in Slots : surf[x][u].src = i => surf[x][u].status = "Rendering"
    BY <1>1 DEF StreamOK, ReadsOwn
  <2>3. coded'[x][i] \in Slots => coded'[x][i] = coded[x][i] /\ coded[x][i] # s
    BY <1>10, <1>13, NameFacts
  <2> QED BY <1>3, <1>7, <1>8, <1>14, <2>2, <2>3
<1>16. AnswersComing(x)'
  BY <1>1, <1>13 DEF StreamOK, AnswersComing
<1>17. \A y \in Streams : y # x => StreamOK(y)'
  <2>1. SUFFICES ASSUME NEW y \in Streams, y # x PROVE StreamOK(y)'
    OBVIOUS
  <2>2. InFlight(y)' = InFlight(y) /\ StreamOK(y)
    BY DEF InFlight, IInv
  <2> QED BY <1>5, <2>1, <2>2, OtherStream
<1> QED BY <1>7, <1>11, <1>12, <1>15, <1>16, <1>17 DEF IInv, StreamOK

LEMMA BeginPictureKeeps ==
  ASSUME IInv, NEW x \in Streams, NEW s \in Slots, BeginPicture(x, s)
  PROVE  IInv'
<1>1. CASE surf[x][s].dst = Unassigned /\ Exhausted(pool[x].cap)
  BY <1>1, BeginHalfKeeps DEF BeginPicture
<1>2. CASE ~(surf[x][s].dst = Unassigned /\ Exhausted(pool[x].cap))
  BY <1>2, BegunKeeps DEF BeginPicture
<1> QED BY <1>1, <1>2

LEMMA RenderPictureKeeps ==
  ASSUME IInv, NEW x \in Streams, RenderPicture(x)
  PROVE  IInv'
<1> DEFINE s == open[x]
           b == surf[x][s].src
<1>1. /\ TypeOK /\ StreamOK(x)
      /\ coded \in [Streams -> [Index -> Picture]]
  BY DEF IInv, TypeOK
<1>2. /\ s # "none" /\ coded' = [coded EXCEPT ![x][b] = s]
      /\ UNCHANGED <<surf, pool, open, wait, fds, kern, mem>>
  BY DEF RenderPicture
<1>3. s \in Slots /\ b \in Index /\ b # Unassigned /\ surf[x][s].src = b
  BY <1>1, <1>2, StreamFields, SlotFields DEF StreamOK, BegunBound
<1> HIDE DEF s, b
<1>4. /\ coded'[x][b] = s /\ \A i \in Index : i # b => coded'[x][i] = coded[x][i]
      /\ \A y \in Streams : y # x => coded'[y] = coded[y]
      /\ coded' \in [Streams -> [Index -> Picture]]
  BY <1>1, <1>2, <1>3 DEF Picture
<1>5. TypeOK'
  BY <1>1, <1>2, <1>4 DEF TypeOK
<1>6. InFlight(x)' = InFlight(x) /\ InFlight(x) \subseteq Index
  BY <1>1, <1>2, QueueFields DEF InFlight
<1>7. ReadsOwn(x)'
  BY <1>1, <1>2, <1>3, <1>4, <1>6 DEF StreamOK, ReadsOwn
<1>8. IndicesOwned(x)' /\ BegunBound(x)' /\ AnswersComing(x)'
  BY <1>1, <1>2, <1>6 DEF StreamOK, IndicesOwned, BegunBound, AnswersComing, Fds
<1>9. \A y \in Streams : y # x => StreamOK(y)'
  <2>1. SUFFICES ASSUME NEW y \in Streams, y # x PROVE StreamOK(y)'
    OBVIOUS
  <2>2. InFlight(y)' = InFlight(y) /\ StreamOK(y)
    BY <1>2 DEF InFlight, IInv
  <2> QED BY <1>2, <1>4, <2>1, <2>2, OtherStream
<1> QED BY <1>5, <1>7, <1>8, <1>9 DEF IInv, StreamOK

\* A step of one stream, which may close a descriptor another one's request has.
LEMMA StreamStep ==
  ASSUME IInv, NEW x \in Streams, TypeOK', StreamOK(x)',
         \A y \in Streams : y # x =>
           /\ surf'[y] = surf[y] /\ pool'[y] = pool[y] /\ open'[y] = open[y]
           /\ wait'[y] = wait[y] /\ coded'[y] = coded[y]
           /\ InFlight(y)' = InFlight(y)
           /\ kern'[y].outDone = kern[y].outDone /\ kern'[y].capDone = kern[y].capDone
  PROVE  IInv'
<1>1. ASSUME NEW y \in Streams, y # x PROVE StreamOK(y)'
  BY <1>1, OtherStream DEF IInv
<1> QED BY <1>1 DEF IInv

\* The picture a stream is ending.
LEMMA EndingFacts ==
  ASSUME IInv, NEW x \in Streams, Ending(x)
  PROVE  /\ open[x] \in Slots /\ wait[x] = NoWait
         /\ surf[x][open[x]].src \in Index /\ surf[x][open[x]].dst \in Index
         /\ surf[x][open[x]].status = "Rendering"
         /\ coded[x][surf[x][open[x]].src] = open[x]
         /\ UNCHANGED <<pool, coded, mem>>
<1>1. TypeOK /\ BegunBound(x) /\ open[x] # "none"
  BY DEF IInv, StreamOK, Ending
<1>2. open[x] \in Slots
  BY <1>1, StreamFields
<1>3. /\ surf[x][open[x]].src \in Index /\ surf[x][open[x]].dst \in Index
      /\ surf[x][open[x]].status = "Rendering"
  BY <1>1, <1>2, SlotFields DEF BegunBound
<1> QED BY <1>2, <1>3 DEF Ending

\* The queues with the CAPTURE buffer of a surface among them.
LEMMA CaptureQueuedFacts ==
  ASSUME TypeOK, NEW x \in Streams, NEW s \in Slots, surf[x][s].dst \in Index
  PROVE  /\ CaptureQueued(x, s) \in Queues
         /\ CaptureQueued(x, s).out = kern[x].out
         /\ CaptureQueued(x, s).cap = Append(kern[x].cap, surf[x][s].dst)
         /\ CaptureQueued(x, s).outDone = kern[x].outDone
         /\ CaptureQueued(x, s).capDone = kern[x].capDone
<1> DEFINE k == kern[x]
           q == Append(k.cap, surf[x][s].dst)
<1>1. k \in Queues
  BY StreamFields
<1>2. q \in Seq(Index)
  BY <1>1, AppendedIndex DEF Queues
<1>3. CaptureQueued(x, s) = [k EXCEPT !.cap = q]
  BY DEF CaptureQueued
<1> HIDE DEF k, q
<1>4. /\ [k EXCEPT !.cap = q] \in Queues
      /\ [k EXCEPT !.cap = q].out = k.out /\ [k EXCEPT !.cap = q].cap = q
      /\ [k EXCEPT !.cap = q].outDone = k.outDone /\ [k EXCEPT !.cap = q].capDone = k.capDone
  BY <1>1, <1>2 DEF Queues
<1> QED BY <1>3, <1>4 DEF k, q

\* What ends the call before or between the queueing of the buffers.
LEMMA EndedKeeps ==
  ASSUME IInv, NEW x \in Streams, Ending(x), NEW f \in Fds \cup {NoFd},
         surf' = surf \/ surf' = [surf EXCEPT ![x][open[x]].fd = f],
         open' = [open EXCEPT ![x] = "none"], wait' = wait,
         fds' \in [Fds -> {"free", "idle", "queued", "complete"}],
         kern' = kern \/ kern' = [kern EXCEPT ![x] = CaptureQueued(x, open[x])]
  PROVE  IInv'
<1> DEFINE s == open[x]
<1>1. /\ s \in Slots /\ wait[x] = NoWait
      /\ surf[x][s].dst \in Index
      /\ UNCHANGED <<pool, coded, mem>>
  BY EndingFacts
<1>2. TypeOK /\ StreamOK(x)
  BY DEF IInv
<1>3. /\ surf' \in [Streams -> [Slots -> Surface]]
      /\ \A y \in Streams : y # x => surf'[y] = surf[y]
      /\ \A t \in Slots : /\ surf'[x][t].status = surf[x][t].status
                          /\ surf'[x][t].src = surf[x][t].src
                          /\ surf'[x][t].dst = surf[x][t].dst
  <2>1. CASE surf' = surf
    BY <1>2, <2>1 DEF TypeOK
  <2>2. CASE surf' = [surf EXCEPT ![x][open[x]].fd = f]
    BY <1>1, <1>2, <2>2, NewFd
  <2> QED BY <2>1, <2>2
<1>4. /\ kern' \in [Streams -> Queues]
      /\ \A y \in Streams : /\ kern'[y].out = kern[y].out
                            /\ kern'[y].outDone = kern[y].outDone
                            /\ kern'[y].capDone = kern[y].capDone
  <2>1. kern \in [Streams -> Queues] /\ kern[x] \in Queues
    BY <1>2 DEF TypeOK, Queues
  <2>2. CASE kern' = kern
    BY <2>1, <2>2
  <2>3. CASE kern' = [kern EXCEPT ![x] = CaptureQueued(x, s)]
    <3>5. /\ CaptureQueued(x, s) \in Queues /\ CaptureQueued(x, s).out = kern[x].out
          /\ CaptureQueued(x, s).outDone = kern[x].outDone
          /\ CaptureQueued(x, s).capDone = kern[x].capDone
      BY <1>1, <1>2, CaptureQueuedFacts
    <3>6. kern'[x] = CaptureQueued(x, s) /\ \A y \in Streams : y # x => kern'[y] = kern[y]
      BY <2>1, <2>3
    <3> QED BY <2>1, <2>3, <3>5, <3>6
  <2> QED BY <2>2, <2>3
<1>5. /\ open'[x] = "none" /\ \A y \in Streams : y # x => open'[y] = open[y]
      /\ open' \in [Streams -> Slots \cup {"none"}]
  BY <1>2 DEF TypeOK
<1>6. TypeOK'
  BY <1>1, <1>2, <1>3, <1>4, <1>5 DEF TypeOK, Queues
<1>7. \A y \in Streams : InFlight(y)' = InFlight(y)
  BY <1>4 DEF InFlight
<1>8. StreamOK(x)'
  <2>1. Len(kern'[x].outDone) <= Len(kern'[x].capDone)
    BY <1>2, <1>4 DEF StreamOK, AnswersComing
  <2>2. open[x] \in Slots \cup {"none"} /\ pool'[x] = pool[x] /\ coded'[x] = coded[x]
        /\ open'[x] = "none" /\ wait'[x] = NoWait
    BY <1>1, <1>5
  <2> QED BY <1>2, <1>3, <1>7, <2>1, <2>2, FdStep
<1> QED BY <1>1, <1>3, <1>4, <1>5, <1>6, <1>7, <1>8, StreamStep

LEMMA WithRequestFacts ==
  ASSUME TypeOK, NEW x \in Streams, NEW s \in Slots, IdleRequest(x, s),
         NEW state \in {"idle", "queued"}, WithRequest(x, s, state)
  PROVE  /\ RequestFd(x, s) \in Fds
         /\ surf' = [surf EXCEPT ![x][s].fd = RequestFd(x, s)]
         /\ fds' \in [Fds -> {"free", "idle", "queued", "complete"}]
         /\ \A f \in Fds : fds'[f] = IF f = RequestFd(x, s) THEN state ELSE fds[f]
<1>1. HasRequest(x, s)
  BY DEF IdleRequest
<1>2. RequestFd(x, s) \in Fds
  BY <1>1, RequestFdFacts
<1> QED BY <1>2 DEF WithRequest, TypeOK

LEMMA EndUnqueuedKeeps ==
  ASSUME IInv, NEW x \in Streams, EndUnqueued(x)
  PROVE  IInv'
<1>1. /\ TypeOK /\ Ending(x) /\ open' = [open EXCEPT ![x] = "none"]
      /\ UNCHANGED <<wait, kern>> /\ open[x] \in Slots
  BY EndingFacts DEF EndUnqueued, IInv
<1>2. CASE UNCHANGED <<surf, fds>>
  BY <1>1, <1>2, EndedKeeps DEF TypeOK
<1>3. CASE IdleRequest(x, open[x]) /\ WithRequest(x, open[x], "idle")
  BY <1>1, <1>3, WithRequestFacts, EndedKeeps
<1> QED BY <1>2, <1>3 DEF EndUnqueued

LEMMA EndHalfQueuedKeeps ==
  ASSUME IInv, NEW x \in Streams, EndHalfQueued(x)
  PROVE  IInv'
<1>1. /\ TypeOK /\ Ending(x) /\ open' = [open EXCEPT ![x] = "none"]
      /\ wait' = wait /\ open[x] \in Slots /\ IdleRequest(x, open[x])
      /\ kern' = [kern EXCEPT ![x] = CaptureQueued(x, open[x])]
  BY EndingFacts DEF EndHalfQueued, IInv
<1>2. CASE WithRequest(x, open[x], "idle")
  BY <1>1, <1>2, WithRequestFacts, EndedKeeps
<1>3. CASE /\ surf' = [surf EXCEPT ![x][open[x]].fd = NoFd]
           /\ fds' = ClosedFds(surf[x][open[x]].fd)
  <2>1. surf[x][open[x]].fd \in Fds \cup {NoFd}
    BY <1>1, SlotFields
  <2>2. fds' \in [Fds -> {"free", "idle", "queued", "complete"}]
    BY <1>1, <1>3, <2>1, ClosedFdsFacts
  <2> QED BY <1>1, <1>3, <2>2, EndedKeeps
<1> QED BY <1>2, <1>3 DEF EndHalfQueued

LEMMA SyncRefusedKeeps ==
  ASSUME IInv, NEW x \in Streams, NEW s \in Slots, SyncRefused(x, s)
  PROVE  IInv'
<1>1. /\ TypeOK /\ StreamOK(x)
      /\ fds' = ClosedFds(surf[x][s].fd) /\ kern' = ClosedKern(surf[x][s].fd)
      /\ surf' = [surf EXCEPT ![x][s].fd = NoFd]
      /\ UNCHANGED <<pool, open, wait, coded, mem>>
  BY DEF SyncRefused, IInv
<1>2. fds' \in [Fds -> {"free", "idle", "queued", "complete"}]
  BY <1>1, SlotFields, ClosedFdsFacts
<1>3. /\ kern' \in [Streams -> Queues]
      /\ \A y \in Streams :
           /\ InFlight(y)' = InFlight(y)
           /\ kern'[y].outDone = kern[y].outDone /\ kern'[y].capDone = kern[y].capDone
  BY <1>1, ClosedKernFacts
<1>4. /\ surf' \in [Streams -> [Slots -> Surface]]
      /\ \A y \in Streams : y # x => surf'[y] = surf[y]
      /\ \A t \in Slots : /\ surf'[x][t].status = surf[x][t].status
                          /\ surf'[x][t].src = surf[x][t].src
                          /\ surf'[x][t].dst = surf[x][t].dst
  BY <1>1, NewFd
<1>5. TypeOK'
  BY <1>1, <1>2, <1>3, <1>4 DEF TypeOK, Queues
<1>6. StreamOK(x)'
  <2>1. Len(kern'[x].outDone) <= Len(kern'[x].capDone)
    BY <1>1, <1>3 DEF StreamOK, AnswersComing
  <2>2. open[x] \in Slots \cup {"none"}
    BY <1>1, StreamFields
  <2> QED BY <1>1, <1>3, <1>4, <2>1, <2>2, FdStep
<1> QED BY <1>1, <1>3, <1>4, <1>5, <1>6, StreamStep

\* The call that waits, and its surface.
LEMMA WaitFacts ==
  ASSUME IInv, NEW x \in Streams, wait[x] # NoWait
  PROVE  /\ wait[x].slot \in Slots /\ wait[x].slot = open[x] /\ wait[x].fd \in Fds
         /\ surf[x][wait[x].slot].status = "Rendering"
         /\ surf[x][wait[x].slot].src \in Index /\ surf[x][wait[x].slot].dst \in Index
         /\ surf[x][wait[x].slot].src \in Held(pool[x].out)
<1>1. TypeOK /\ BegunBound(x) /\ IndicesOwned(x)
  BY DEF IInv, StreamOK
<1>2. wait[x].slot \in Slots /\ wait[x].slot = open[x] /\ wait[x].fd \in Fds
  BY <1>1, StreamFields DEF BegunBound
<1>3. /\ surf[x][wait[x].slot].status = "Rendering"
      /\ surf[x][wait[x].slot].src \in Index /\ surf[x][wait[x].slot].dst \in Index
  BY <1>1, <1>2, SlotFields, NameFacts DEF BegunBound
<1>4. surf[x][wait[x].slot].src # Unassigned
  BY <1>3, IndexFacts
<1> QED BY <1>1, <1>2, <1>3, <1>4 DEF IndicesOwned

\* The error path of the sync; k is what it left of the stream's queues.
LEMMA SyncFailsKeeps ==
  ASSUME IInv, NEW x \in Streams, wait[x] # NoWait, NEW k \in Queues, SyncFails(x, k),
         k.out = kern[x].out, k.capDone = kern[x].capDone,
         Len(k.outDone) <= Len(kern[x].outDone)
  PROVE  IInv'
<1> DEFINE s == wait[x].slot
           f == wait[x].fd
<1>1. TypeOK /\ StreamOK(x) /\ s \in Slots /\ f \in Fds
  BY WaitFacts DEF IInv
<1>2. /\ fds' = ClosedFds(f)
      /\ kern' = [y \in Streams |-> Forget(IF y = x THEN k ELSE kern[y], f)]
      /\ surf' = [surf EXCEPT ![x][s].fd = NoFd]
      /\ wait' = [wait EXCEPT ![x] = NoWait]
      /\ open' = [open EXCEPT ![x] = "none"]
      /\ UNCHANGED <<pool, coded, mem>>
  BY DEF SyncFails
<1> HIDE DEF s, f
<1>3. fds' \in [Fds -> {"free", "idle", "queued", "complete"}]
  BY <1>1, <1>2, ClosedFdsFacts
<1>4. /\ kern' \in [Streams -> Queues]
      /\ \A y \in Streams : InFlight(y)' = InFlight(y) /\ kern'[y].capDone = kern[y].capDone
      /\ \A y \in Streams : y # x => kern'[y].outDone = kern[y].outDone
      /\ kern'[x].outDone = k.outDone
  <2>1. ASSUME NEW y \in Streams
        PROVE  /\ kern'[y] \in Queues
               /\ InFlight(y)' = InFlight(y) /\ kern'[y].capDone = kern[y].capDone
               /\ kern'[y].outDone = IF y = x THEN k.outDone ELSE kern[y].outDone
    <3> DEFINE h == IF y = x THEN k ELSE kern[y]
    <3>1. /\ h \in Queues /\ h.out = kern[y].out /\ h.capDone = kern[y].capDone
          /\ h.outDone = IF y = x THEN k.outDone ELSE kern[y].outDone
      BY <1>1, StreamFields
    <3>2. kern'[y] = Forget(h, f)
      BY <1>2
    <3> HIDE DEF h
    <3>3. /\ kern'[y] \in Queues
          /\ kern'[y].outDone = h.outDone /\ kern'[y].capDone = h.capDone
          /\ Len(kern'[y].out) = Len(h.out)
          /\ \A n \in 1 .. Len(h.out) : kern'[y].out[n].buf = h.out[n].buf
      BY <3>1, <3>2, ForgetFacts
    <3>4. InFlight(y)' = InFlight(y)
      BY <3>1, <3>3 DEF InFlight
    <3> QED BY <3>1, <3>3, <3>4
  <2>2. kern' \in [Streams -> Queues]
    BY <1>2, <2>1
  <2> QED BY <2>1, <2>2
<1>5. /\ surf' \in [Streams -> [Slots -> Surface]]
      /\ \A y \in Streams : y # x => surf'[y] = surf[y]
      /\ \A t \in Slots : /\ surf'[x][t].status = surf[x][t].status
                          /\ surf'[x][t].src = surf[x][t].src
                          /\ surf'[x][t].dst = surf[x][t].dst
  BY <1>1, <1>2, NewFd
<1>6. /\ open'[x] = "none" /\ wait'[x] = NoWait
      /\ \A y \in Streams : y # x => open'[y] = open[y] /\ wait'[y] = wait[y]
      /\ open' \in [Streams -> Slots \cup {"none"}]
      /\ wait' \in [Streams -> [slot : Slots \cup {"none"}, fd : Fds \cup {NoFd}]]
  BY <1>1, <1>2 DEF TypeOK, NoWait
<1>7. TypeOK'
  BY <1>1, <1>2, <1>3, <1>4, <1>5, <1>6 DEF TypeOK, Queues
<1>8. StreamOK(x)'
  <2>1. Len(kern'[x].outDone) <= Len(kern'[x].capDone)
    <3>1. Len(kern[x].outDone) <= Len(kern[x].capDone)
      BY <1>1 DEF StreamOK, AnswersComing
    <3>2. /\ Len(k.outDone) \in Nat /\ Len(kern[x].outDone) \in Nat
          /\ Len(kern[x].capDone) \in Nat
      BY <1>1, QueueFields DEF Queues
    <3>3. Len(kern'[x].outDone) = Len(k.outDone) /\ Len(kern'[x].capDone) = Len(kern[x].capDone)
      BY <1>4
    <3> QED BY <3>1, <3>2, <3>3
  <2>2. open[x] \in Slots \cup {"none"}
    BY <1>1, StreamFields
  <2> QED BY <1>1, <1>2, <1>4, <1>5, <1>6, <2>1, <2>2, FdStep
<1> QED BY <1>2, <1>4, <1>5, <1>6, <1>7, <1>8, StreamStep

LEMMA SyncBrokenKeeps ==
  ASSUME IInv, NEW x \in Streams, SyncBroken(x) \/ SyncTimesOut(x)
  PROVE  IInv'
<1>1. /\ wait[x] # NoWait
      /\ \/ SyncFails(x, kern[x])
         \/ kern[x].outDone # << >> /\ SyncFails(x, [kern[x] EXCEPT !.outDone = Tail(@)])
  BY DEF SyncBroken, SyncTimesOut
<1>2. TypeOK /\ kern[x] \in Queues /\ Len(kern[x].outDone) \in Nat
  BY StreamFields, QueueFields DEF IInv
<1>3. CASE SyncFails(x, kern[x])
  BY <1>1, <1>2, <1>3, SyncFailsKeeps
<1>4. CASE kern[x].outDone # << >> /\ SyncFails(x, [kern[x] EXCEPT !.outDone = Tail(@)])
  <2> DEFINE q == Tail(kern[x].outDone)
             k == [kern[x] EXCEPT !.outDone = q]
  <2>1. q \in Seq(Index) /\ Len(q) <= Len(kern[x].outDone)
    BY <1>2, <1>4, TailIndex DEF Queues
  <2> HIDE DEF q
  <2>2. /\ k \in Queues /\ k.out = kern[x].out /\ k.capDone = kern[x].capDone
        /\ k.outDone = q
    BY <1>2, <2>1 DEF Queues
  <2>3. SyncFails(x, k)
    BY <1>4 DEF q
  <2> HIDE DEF k
  <2> QED BY <1>1, <2>1, <2>2, <2>3, SyncFailsKeeps
<1> QED BY <1>1, <1>3, <1>4

\* The queues with both buffers of the surface, and what is in flight.
LEMMA EndQueuedFacts ==
  ASSUME IInv, NEW x \in Streams, EndQueued(x)
  PROVE  LET s == open[x]
             f == RequestFd(x, s)
             job == [buf |-> surf[x][s].src, fd |-> f]
         IN
         /\ s \in Slots /\ f \in Fds /\ job \in Job
         /\ surf' = [surf EXCEPT ![x][s].fd = f]
         /\ \A g \in Fds : fds'[g] = IF g = f THEN "queued" ELSE fds[g]
         /\ fds' \in [Fds -> {"free", "idle", "queued", "complete"}]
         /\ kern' \in [Streams -> Queues]
         /\ \A y \in Streams : y # x => kern'[y] = kern[y]
         /\ kern'[x].out = Append(kern[x].out, job)
         /\ kern'[x].cap = Append(kern[x].cap, surf[x][s].dst)
         /\ kern'[x].outDone = kern[x].outDone /\ kern'[x].capDone = kern[x].capDone
         /\ InFlight(x)' = InFlight(x) \cup {surf[x][s].src}
         /\ wait' = [wait EXCEPT ![x] = [slot |-> s, fd |-> f]]
         /\ wait'[x] = [slot |-> s, fd |-> f]
         /\ UNCHANGED <<pool, coded, mem, open>>
<1> DEFINE s == open[x]
           f == RequestFd(x, s)
           job == [buf |-> surf[x][s].src, fd |-> f]
           c == CaptureQueued(x, s)
           o == Append(c.out, job)
<1>1. TypeOK /\ Ending(x) /\ IdleRequest(x, s) /\ WithRequest(x, s, "queued")
  BY DEF EndQueued, IInv
<1>2. /\ s \in Slots /\ surf[x][s].src \in Index /\ surf[x][s].dst \in Index
      /\ UNCHANGED <<pool, coded, mem>>
  BY <1>1, EndingFacts
<1>3. /\ f \in Fds /\ surf' = [surf EXCEPT ![x][s].fd = f]
      /\ fds' \in [Fds -> {"free", "idle", "queued", "complete"}]
      /\ \A g \in Fds : fds'[g] = IF g = f THEN "queued" ELSE fds[g]
  BY <1>1, <1>2, WithRequestFacts
<1>4. job \in Job
  BY <1>2, <1>3 DEF Job
<1>5. /\ c \in Queues /\ c.out = kern[x].out /\ c.cap = Append(kern[x].cap, surf[x][s].dst)
      /\ c.outDone = kern[x].outDone /\ c.capDone = kern[x].capDone
  BY <1>1, <1>2, CaptureQueuedFacts
<1>6. /\ kern' = [kern EXCEPT ![x] = [c EXCEPT !.out = o]]
      /\ wait' = [wait EXCEPT ![x] = [slot |-> s, fd |-> f]]
      /\ open' = open
  BY DEF EndQueued
<1>7. kern \in [Streams -> Queues] /\ wait \in [Streams -> [slot : Slots \cup {"none"}, fd : Fds \cup {NoFd}]]
  BY <1>1 DEF TypeOK, Queues
<1>8. wait'[x] = [slot |-> s, fd |-> f]
  BY <1>6, <1>7
<1>9. o \in Seq(Job)
  BY <1>4, <1>5, AppendedJob DEF Queues
<1> HIDE DEF c, o, job, f, s
<1>10. /\ [c EXCEPT !.out = o] \in Queues
       /\ [c EXCEPT !.out = o].out = o /\ [c EXCEPT !.out = o].cap = c.cap
       /\ [c EXCEPT !.out = o].outDone = c.outDone
       /\ [c EXCEPT !.out = o].capDone = c.capDone
  BY <1>5, <1>9 DEF Queues
<1>11. /\ kern'[x] = [c EXCEPT !.out = o] /\ kern' \in [Streams -> Queues]
       /\ \A y \in Streams : y # x => kern'[y] = kern[y]
  BY <1>6, <1>7, <1>10
<1>12. o = Append(kern[x].out, job)
  BY <1>5 DEF o
<1>13. InFlight(x)' = InFlight(x) \cup {job.buf}
  <2>1. /\ kern[x].out \in Seq(Job) /\ Len(o) = Len(kern[x].out) + 1 /\ Len(kern[x].out) \in Nat
        /\ \A n \in 1 .. Len(kern[x].out) : o[n] = kern[x].out[n]
        /\ o[Len(kern[x].out) + 1] = job
    BY <1>1, <1>4, <1>12, QueueFields, AppendedJob
  <2>2. 1 .. Len(o) = (1 .. Len(kern[x].out)) \cup {Len(kern[x].out) + 1}
    BY <2>1
  <2>3. InFlight(x)' = {o[n].buf : n \in 1 .. Len(o)}
    BY <1>10, <1>11 DEF InFlight
  <2>4. \A i : (\E n \in 1 .. Len(o) : i = o[n].buf)
                <=> i = job.buf \/ \E n \in 1 .. Len(kern[x].out) : i = kern[x].out[n].buf
    BY <2>1, <2>2
  <2>5. InFlight(x) = {kern[x].out[n].buf : n \in 1 .. Len(kern[x].out)}
    BY DEF InFlight
  <2>6. \A i : i \in InFlight(x)' <=> \E n \in 1 .. Len(o) : i = o[n].buf
    BY ONLY <2>3
  <2>7. \A i : i \in InFlight(x) <=> \E n \in 1 .. Len(kern[x].out) : i = kern[x].out[n].buf
    BY ONLY <2>5
  <2>8. \A i : i \in InFlight(x)' <=> i = job.buf \/ i \in InFlight(x)
    BY ONLY <2>4, <2>6, <2>7
  <2> QED BY ONLY <2>8
<1>14. job.buf = surf[x][s].src
  BY DEF job
<1> QED BY <1>2, <1>3, <1>4, <1>5, <1>6, <1>8, <1>10, <1>11, <1>12, <1>13, <1>14 DEF s, f, job

LEMMA EndQueuedKeeps ==
  ASSUME IInv, NEW x \in Streams, EndQueued(x)
  PROVE  IInv'
<1> DEFINE s == open[x]
           f == RequestFd(x, s)
           b == surf[x][s].src
<1>1. /\ s \in Slots /\ f \in Fds
      /\ surf' = [surf EXCEPT ![x][s].fd = f]
      /\ fds' \in [Fds -> {"free", "idle", "queued", "complete"}]
      /\ kern' \in [Streams -> Queues]
      /\ \A y \in Streams : y # x => kern'[y] = kern[y]
      /\ kern'[x].outDone = kern[x].outDone /\ kern'[x].capDone = kern[x].capDone
      /\ InFlight(x)' = InFlight(x) \cup {b}
      /\ wait' = [wait EXCEPT ![x] = [slot |-> s, fd |-> f]]
      /\ wait'[x] = [slot |-> s, fd |-> f]
      /\ UNCHANGED <<pool, coded, mem, open>>
  BY EndQueuedFacts
<1>2. /\ TypeOK /\ StreamOK(x)
      /\ b \in Index /\ surf[x][s].status = "Rendering" /\ coded[x][b] = s
  BY EndingFacts DEF EndQueued, IInv
<1>3. b \in Held(pool[x].out) /\ (\A t \in Slots : surf[x][t].src = b => t = s)
  <2>1. b # Unassigned
    BY <1>2, IndexFacts, SMTT(40)
  <2> QED BY <1>1, <1>2, <2>1 DEF StreamOK, IndicesOwned
<1> HIDE DEF f
<1>4. /\ surf' \in [Streams -> [Slots -> Surface]]
      /\ \A y \in Streams : y # x => surf'[y] = surf[y]
      /\ \A t \in Slots : /\ surf'[x][t].status = surf[x][t].status
                          /\ surf'[x][t].src = surf[x][t].src
                          /\ surf'[x][t].dst = surf[x][t].dst
  BY <1>1, <1>2, NewFd
<1>5. /\ wait' \in [Streams -> [slot : Slots \cup {"none"}, fd : Fds \cup {NoFd}]]
      /\ \A y \in Streams : y # x => wait'[y] = wait[y]
  BY <1>1, <1>2 DEF TypeOK
<1>6. TypeOK'
  BY <1>1, <1>2, <1>4, <1>5 DEF TypeOK, Queues
<1>7. IndicesOwned(x)'
  BY <1>1, <1>2, <1>4 DEF StreamOK, IndicesOwned
<1>8. BegunBound(x)'
  BY <1>1, <1>2, <1>4, NameFacts DEF StreamOK, BegunBound, Fds
<1>9. ReadsOwn(x)'
  BY <1>1, <1>2, <1>3, <1>4 DEF StreamOK, ReadsOwn
<1>10. AnswersComing(x)'
  BY <1>1, <1>2, <1>4 DEF StreamOK, AnswersComing
<1>11. \A y \in Streams : y # x => InFlight(y)' = InFlight(y)
  BY <1>1 DEF InFlight
<1>12. StreamOK(x)'
  BY <1>7, <1>8, <1>9, <1>10 DEF StreamOK
<1> QED BY <1>1, <1>4, <1>5, <1>6, <1>11, <1>12, StreamStep

\* What the device leaves of a stream's queues, and of what is in flight.
LEMMA HardwareFacts ==
  ASSUME TypeOK, NEW x \in Streams, Hardware(x)
  PROVE  LET k == kern[x]
             job == Head(kern[x].out)
         IN
         /\ k.out # << >> /\ k.cap # << >>
         /\ job \in Job /\ job.buf \in Index /\ job.fd \in Fds \cup {NoFd} /\ Head(k.cap) \in Index
         /\ kern' \in [Streams -> Queues]
         /\ \A y \in Streams : y # x => kern'[y] = kern[y]
         /\ kern'[x] = [out |-> Tail(k.out), cap |-> Tail(k.cap),
                        outDone |-> Append(k.outDone, job.buf),
                        capDone |-> Append(k.capDone, Head(k.cap))]
         /\ kern'[x].out = Tail(k.out) /\ kern'[x].outDone # << >>
         /\ Len(kern'[x].outDone) = Len(k.outDone) + 1
         /\ Len(kern'[x].capDone) = Len(k.capDone) + 1
         /\ InFlight(x)' \subseteq InFlight(x)
         /\ fds' \in [Fds -> {"free", "idle", "queued", "complete"}]
         /\ \A f \in Fds : fds'[f] = IF f = job.fd THEN "complete" ELSE fds[f]
         /\ mem' \in [Streams -> [Index -> Picture]]
         /\ UNCHANGED <<surf, pool, open, wait, coded>>
<1> DEFINE k == kern[x]
           job == Head(kern[x].out)
           o == Tail(k.out)
           c == Tail(k.cap)
           od == Append(k.outDone, job.buf)
           cd == Append(k.capDone, Head(k.cap))
<1>1. /\ k.out \in Seq(Job) /\ k.cap \in Seq(Index)
      /\ k.outDone \in Seq(Index) /\ k.capDone \in Seq(Index)
      /\ Len(k.outDone) \in Nat /\ Len(k.capDone) \in Nat
  BY QueueFields
<1>2. /\ k.out # << >> /\ k.cap # << >>
      /\ kern' = [kern EXCEPT ![x] = [out |-> o, cap |-> c, outDone |-> od, capDone |-> cd]]
      /\ fds' = IF job.fd = NoFd THEN fds ELSE [fds EXCEPT ![job.fd] = "complete"]
      /\ UNCHANGED <<surf, pool, open, wait, coded>>
  BY DEF Hardware
<1>3. PICK picture \in {coded[x][job.buf]} \cup (IF "corrupt" \in Faults THEN {"bad"} ELSE {}) :
        mem' = [mem EXCEPT ![x][Head(k.cap)] = picture]
  BY DEF Hardware
<1>4. /\ job \in Job /\ o \in Seq(Job) /\ job = k.out[1]
      /\ Len(k.out) \in Nat \ {0} /\ Len(o) = Len(k.out) - 1
      /\ \A n \in 1 .. Len(k.out) - 1 : o[n] = k.out[n + 1]
  BY <1>1, <1>2, TailJob
<1>5. job.buf \in Index /\ job.fd \in Fds \cup {NoFd}
  BY <1>4 DEF Job
<1>6. Head(k.cap) \in Index /\ c \in Seq(Index)
  BY <1>1, <1>2, TailIndex
<1>7. /\ od \in Seq(Index) /\ Len(od) = Len(k.outDone) + 1 /\ od # << >>
      /\ cd \in Seq(Index) /\ Len(cd) = Len(k.capDone) + 1
  BY <1>1, <1>5, <1>6, AppendedIndex
<1>8. kern \in [Streams -> Queues] /\ fds \in [Fds -> {"free", "idle", "queued", "complete"}]
      /\ mem \in [Streams -> [Index -> Picture]] /\ coded \in [Streams -> [Index -> Picture]]
  BY DEF TypeOK, Queues
<1>9. picture \in Picture
  BY <1>3, <1>5, <1>8 DEF Picture
<1>10. mem' \in [Streams -> [Index -> Picture]]
  BY <1>3, <1>6, <1>8, <1>9
<1>11. /\ fds' \in [Fds -> {"free", "idle", "queued", "complete"}]
       /\ \A f \in Fds : fds'[f] = IF f = job.fd THEN "complete" ELSE fds[f]
  BY <1>2, <1>5, <1>8, FdFacts
<1> HIDE DEF o, c, od, cd, job
<1>12. /\ kern'[x] = [out |-> o, cap |-> c, outDone |-> od, capDone |-> cd]
       /\ \A y \in Streams : y # x => kern'[y] = kern[y]
  BY <1>2, <1>8
<1>13. [out |-> o, cap |-> c, outDone |-> od, capDone |-> cd] \in Queues
  BY <1>4, <1>6, <1>7 DEF Queues
<1>14. kern' \in [Streams -> Queues]
  BY <1>2, <1>8, <1>13
<1>15. InFlight(x)' \subseteq InFlight(x)
  <2>1. SUFFICES ASSUME NEW n \in 1 .. Len(o)
                 PROVE  \E m \in 1 .. Len(k.out) : o[n].buf = k.out[m].buf
    BY <1>12, SMTT(40) DEF InFlight
  <2>2. n \in 1 .. Len(k.out) - 1 /\ n + 1 \in 1 .. Len(k.out) /\ o[n] = k.out[n + 1]
    BY <1>4
  <2> QED BY <2>2
<1>16. /\ kern'[x].out = o /\ kern'[x].outDone = od /\ kern'[x].capDone = cd
  BY <1>12
<1> QED BY <1>2, <1>4, <1>5, <1>6, <1>7, <1>10, <1>11, <1>12, <1>14, <1>15, <1>16 DEF o, c, od, cd, job

LEMMA HardwareKeeps ==
  ASSUME IInv, NEW x \in Streams, Hardware(x)
  PROVE  IInv'
<1>1. TypeOK /\ StreamOK(x)
  BY DEF IInv
<1>2. /\ kern' \in [Streams -> Queues]
      /\ \A y \in Streams : y # x => kern'[y] = kern[y]
      /\ kern'[x].outDone # << >>
      /\ Len(kern'[x].outDone) = Len(kern[x].outDone) + 1
      /\ Len(kern'[x].capDone) = Len(kern[x].capDone) + 1
      /\ InFlight(x)' \subseteq InFlight(x)
      /\ fds' \in [Fds -> {"free", "idle", "queued", "complete"}]
      /\ mem' \in [Streams -> [Index -> Picture]]
      /\ UNCHANGED <<surf, pool, open, wait, coded>>
  BY <1>1, HardwareFacts
<1>3. TypeOK'
  BY <1>1, <1>2 DEF TypeOK, Queues
<1>4. IndicesOwned(x)' /\ BegunBound(x)'
  BY <1>1, <1>2 DEF StreamOK, IndicesOwned, BegunBound, Fds
<1>5. ReadsOwn(x)'
  BY <1>1, <1>2 DEF StreamOK, ReadsOwn
<1>6. AnswersComing(x)'
  <2>1. Len(kern[x].outDone) \in Nat /\ Len(kern[x].capDone) \in Nat
    BY <1>1, QueueFields
  <2> QED BY <1>1, <1>2, <2>1 DEF StreamOK, AnswersComing
<1>7. \A y \in Streams : y # x => InFlight(y)' = InFlight(y)
  BY <1>2 DEF InFlight
<1>8. StreamOK(x)'
  BY <1>4, <1>5, <1>6 DEF StreamOK
<1> QED BY <1>2, <1>3, <1>7, <1>8, StreamStep

\* The records that step rewrites, field by field.
LEMMA Dequeued ==
  ASSUME NEW k \in Queues, NEW o, NEW c
  PROVE  [k EXCEPT !.outDone = o, !.capDone = c]
           = [out |-> k.out, cap |-> k.cap, outDone |-> o, capDone |-> c]
<1> DEFINE h == [k EXCEPT !.outDone = o]
<1>1. h = [out |-> k.out, cap |-> k.cap, outDone |-> o, capDone |-> k.capDone]
  BY SMTT(40) DEF Queues
<1> HIDE DEF h
<1>2. [h EXCEPT !.capDone = c] = [out |-> k.out, cap |-> k.cap, outDone |-> o, capDone |-> c]
  BY <1>1
<1> QED BY <1>2 DEF h

LEMMA Rewritten ==
  ASSUME NEW t \in Surface, NEW a, NEW i
  PROVE  [t EXCEPT !.status = a, !.src = i]
           = [status |-> a, src |-> i, dst |-> t.dst, fd |-> t.fd]
<1> DEFINE h == [t EXCEPT !.status = a]
<1>1. h = [status |-> a, src |-> t.src, dst |-> t.dst, fd |-> t.fd]
  BY DEF Surface
<1> HIDE DEF h
<1>2. [h EXCEPT !.src = i] = [status |-> a, src |-> i, dst |-> t.dst, fd |-> t.fd]
  BY <1>1
<1> QED BY <1>2 DEF h

LEMMA Returning ==
  ASSUME NEW A, NEW q \in [out : A, cap : A], NEW p
  PROVE  [q EXCEPT !.out = p] = [out |-> p, cap |-> q.cap]
OBVIOUS

\* What the sync of a decoded picture leaves.
LEMMA SyncDoneFacts ==
  ASSUME IInv, NEW x \in Streams, SyncDone(x)
  PROVE  LET s == wait[x].slot
             b == surf[x][s].src
         IN
         /\ wait[x] # NoWait /\ Finished(x) /\ s \in Slots /\ s = open[x]
         /\ wait[x].fd \in Fds /\ Reinitialisable(wait[x].fd)
         /\ b \in Index /\ b # Unassigned /\ b \in Held(pool[x].out) /\ b \notin InFlight(x)
         /\ surf' \in [Streams -> [Slots -> Surface]]
         /\ \A y \in Streams : y # x => surf'[y] = surf[y]
         /\ \A t \in Slots : t # s => surf'[x][t] = surf[x][t]
         /\ surf'[x][s] = [status |-> "Displaying", src |-> Unassigned,
                           dst |-> surf[x][s].dst, fd |-> surf[x][s].fd]
         /\ pool' \in [Streams -> [out : Pool, cap : Pool]]
         /\ \A y \in Streams : y # x => pool'[y] = pool[y]
         /\ pool'[x].cap = pool[x].cap
         /\ PoolOK(pool'[x].out) /\ Held(pool'[x].out) = Held(pool[x].out) \ {b}
         /\ kern[x].outDone # << >> /\ kern[x].capDone # << >>
         /\ kern' \in [Streams -> Queues]
         /\ \A y \in Streams : y # x => kern'[y] = kern[y]
         /\ kern'[x] = [out |-> kern[x].out, cap |-> kern[x].cap,
                        outDone |-> Tail(kern[x].outDone), capDone |-> Tail(kern[x].capDone)]
         /\ kern'[x].out = kern[x].out
         /\ fds' \in [Fds -> {"free", "idle", "queued", "complete"}]
         /\ \A f \in Fds : fds'[f] = IF f = wait[x].fd THEN "idle" ELSE fds[f]
         /\ open'[x] = "none" /\ wait'[x] = NoWait
         /\ \A y \in Streams : y # x => open'[y] = open[y] /\ wait'[y] = wait[y]
         /\ open' \in [Streams -> Slots \cup {"none"}]
         /\ wait' \in [Streams -> [slot : Slots \cup {"none"}, fd : Fds \cup {NoFd}]]
         /\ UNCHANGED <<coded, mem>>
<1> DEFINE s == wait[x].slot
           b == surf[x][s].src
           n == [status |-> "Displaying", src |-> Unassigned,
                 dst |-> surf[x][s].dst, fd |-> surf[x][s].fd]
           p == Give(pool[x].out, b)
           od == Tail(kern[x].outDone)
           cd == Tail(kern[x].capDone)
           k == [out |-> kern[x].out, cap |-> kern[x].cap, outDone |-> od, capDone |-> cd]
<1>1. /\ wait[x] # NoWait /\ Finished(x) /\ Reinitialisable(wait[x].fd)
      /\ kern[x].outDone # << >> /\ kern[x].capDone # << >>
      /\ kern' = [kern EXCEPT ![x].outDone = Tail(@), ![x].capDone = Tail(@)]
      /\ fds' = [fds EXCEPT ![wait[x].fd] = "idle"]
      /\ surf' = [surf EXCEPT ![x][s].status = "Displaying", ![x][s].src = Unassigned]
      /\ pool' = [pool EXCEPT ![x].out = Give(@, b)]
      /\ wait' = [wait EXCEPT ![x] = NoWait]
      /\ open' = [open EXCEPT ![x] = "none"]
      /\ UNCHANGED <<coded, mem>>
  BY DEF SyncDone
<1>2. /\ TypeOK /\ IndicesOwned(x)
      /\ surf \in [Streams -> [Slots -> Surface]] /\ surf[x] \in [Slots -> Surface]
      /\ pool \in [Streams -> [out : Pool, cap : Pool]] /\ pool[x] \in [out : Pool, cap : Pool]
      /\ kern \in [Streams -> Queues] /\ kern[x] \in Queues
      /\ fds \in [Fds -> {"free", "idle", "queued", "complete"}]
      /\ open \in [Streams -> Slots \cup {"none"}]
      /\ wait \in [Streams -> [slot : Slots \cup {"none"}, fd : Fds \cup {NoFd}]]
  BY DEF IInv, StreamOK, TypeOK, Queues
<1>3. /\ s \in Slots /\ s = open[x] /\ wait[x].fd \in Fds /\ b \in Index
      /\ b \in Held(pool[x].out) /\ surf[x][s].dst \in Index
  BY <1>1, WaitFacts
<1>4. b # Unassigned
  BY <1>3, IndexFacts, SMTT(40)
<1>5. b \notin InFlight(x)
  BY <1>1 DEF Finished, InFlight
<1>6. /\ surf[x][s] \in Surface /\ surf[x][s].fd \in Fds \cup {NoFd}
      /\ surf[x][s] = [status |-> surf[x][s].status, src |-> b,
                       dst |-> surf[x][s].dst, fd |-> surf[x][s].fd]
  BY <1>2, <1>3 DEF Surface
<1>7. n \in Surface
  BY <1>3, <1>6 DEF Surface
<1>8. surf' = [surf EXCEPT ![x] = [surf[x] EXCEPT ![s] = n]]
  <2>1. [[surf[x][s] EXCEPT !.status = "Displaying"] EXCEPT !.src = Unassigned] = n
    <3>1. surf[x][s] \in Surface
      BY <1>6
    <3> QED BY ONLY <3>1, Rewritten DEF n
  <2>2. surf' = [surf EXCEPT ![x] = [surf[x] EXCEPT ![s] =
                   [[surf[x][s] EXCEPT !.status = "Displaying"] EXCEPT !.src = Unassigned]]]
    BY <1>1, <1>2, <1>3
  <2> QED BY ONLY <2>1, <2>2
<1>9. /\ PoolOK(pool[x].out) /\ PoolOK(p) /\ p \in Pool
      /\ Held(p) = Held(pool[x].out) \ {b}
  <2>1. PoolOK(pool[x].out)
    BY <1>2 DEF IndicesOwned
  <2>2. PoolOK(p) /\ Held(p) = Held(pool[x].out) \ {b}
    BY <1>3, <2>1, GiveFacts
  <2> QED BY <2>1, <2>2, HeldIndices
<1>10. /\ kern[x].out \in Seq(Job) /\ kern[x].cap \in Seq(Index)
       /\ od \in Seq(Index) /\ cd \in Seq(Index)
  BY <1>1, <1>2, QueueFields, TailIndex
<1>11. kern' = [kern EXCEPT ![x] = k]
  <2>1. [[kern[x] EXCEPT !.outDone = od] EXCEPT !.capDone = cd] = k
    BY ONLY <1>2, Dequeued DEF k
  <2>2. kern' = [kern EXCEPT ![x] = [[kern[x] EXCEPT !.outDone = od] EXCEPT !.capDone = cd]]
    BY <1>1, <1>2 DEF Queues
  <2> QED BY ONLY <2>1, <2>2
<1>12. pool' = [pool EXCEPT ![x] = [out |-> p, cap |-> pool[x].cap]]
  <2>1. [pool[x] EXCEPT !.out = p] = [out |-> p, cap |-> pool[x].cap]
    BY <1>2, Returning
  <2>2. pool' = [pool EXCEPT ![x] = [pool[x] EXCEPT !.out = p]]
    BY <1>1, <1>2
  <2> QED BY ONLY <2>1, <2>2
<1> HIDE DEF n, p, od, cd
<1>13. k \in Queues
  BY <1>10 DEF Queues
<1> HIDE DEF k
<1>14. /\ surf'[x] = [surf[x] EXCEPT ![s] = n] /\ [surf[x] EXCEPT ![s] = n] \in [Slots -> Surface]
       /\ \A y \in Streams : y # x => surf'[y] = surf[y]
  BY <1>2, <1>3, <1>7, <1>8
<1>15. surf' \in [Streams -> [Slots -> Surface]]
  BY <1>2, <1>8, <1>14
<1>16. surf'[x][s] = n /\ \A t \in Slots : t # s => surf'[x][t] = surf[x][t]
  BY <1>2, <1>3, <1>14
<1>17. /\ pool' \in [Streams -> [out : Pool, cap : Pool]]
       /\ \A y \in Streams : y # x => pool'[y] = pool[y]
       /\ pool'[x].cap = pool[x].cap /\ pool'[x].out = p
  BY <1>2, <1>9, <1>12
<1>18. /\ kern' \in [Streams -> Queues] /\ kern'[x] = k
       /\ \A y \in Streams : y # x => kern'[y] = kern[y]
  BY <1>2, <1>11, <1>13
<1>21. kern'[x].out = kern[x].out
  BY <1>18 DEF k
<1>19. /\ fds' \in [Fds -> {"free", "idle", "queued", "complete"}]
       /\ \A f \in Fds : fds'[f] = IF f = wait[x].fd THEN "idle" ELSE fds[f]
  BY <1>1, <1>2, <1>3
<1>20. /\ open'[x] = "none" /\ wait'[x] = NoWait
       /\ \A y \in Streams : y # x => open'[y] = open[y] /\ wait'[y] = wait[y]
       /\ open' \in [Streams -> Slots \cup {"none"}]
       /\ wait' \in [Streams -> [slot : Slots \cup {"none"}, fd : Fds \cup {NoFd}]]
  BY <1>1, <1>2 DEF NoWait
<1> QED BY <1>1, <1>3, <1>4, <1>5, <1>9, <1>15, <1>14, <1>16, <1>17, <1>18, <1>19, <1>20, <1>21 DEF n, od, cd, k

LEMMA SyncDoneKeeps ==
  ASSUME IInv, NEW x \in Streams, SyncDone(x)
  PROVE  IInv'
<1> DEFINE s == wait[x].slot
           b == surf[x][s].src
           n == [status |-> "Displaying", src |-> Unassigned,
                 dst |-> surf[x][s].dst, fd |-> surf[x][s].fd]
<1>1. /\ TypeOK /\ StreamOK(x)
  BY DEF IInv
<1>2. /\ s \in Slots
      /\ b \in Index /\ b # Unassigned /\ b \notin InFlight(x)
      /\ surf' \in [Streams -> [Slots -> Surface]]
      /\ \A y \in Streams : y # x => surf'[y] = surf[y]
      /\ \A t \in Slots : t # s => surf'[x][t] = surf[x][t]
      /\ surf'[x][s] = n
      /\ pool' \in [Streams -> [out : Pool, cap : Pool]]
      /\ \A y \in Streams : y # x => pool'[y] = pool[y]
      /\ pool'[x].cap = pool[x].cap
      /\ PoolOK(pool'[x].out) /\ Held(pool'[x].out) = Held(pool[x].out) \ {b}
      /\ kern' \in [Streams -> Queues]
      /\ \A y \in Streams : y # x => kern'[y] = kern[y]
      /\ kern'[x] = [out |-> kern[x].out, cap |-> kern[x].cap,
                     outDone |-> Tail(kern[x].outDone), capDone |-> Tail(kern[x].capDone)]
      /\ fds' \in [Fds -> {"free", "idle", "queued", "complete"}]
      /\ open'[x] = "none" /\ wait'[x] = NoWait
      /\ \A y \in Streams : y # x => open'[y] = open[y] /\ wait'[y] = wait[y]
      /\ open' \in [Streams -> Slots \cup {"none"}]
      /\ wait' \in [Streams -> [slot : Slots \cup {"none"}, fd : Fds \cup {NoFd}]]
      /\ UNCHANGED <<coded, mem>>
  BY SyncDoneFacts
<1>3. n.status = "Displaying" /\ n.src = Unassigned /\ n.dst = surf[x][s].dst
  OBVIOUS
<1> HIDE DEF n
<1>4. TypeOK'
  BY <1>1, <1>2, SMTT(40) DEF TypeOK, Queues
<1>5. IndicesOwned(x)'
  <2>1. /\ \A t \in Slots : t # s => surf'[x][t].src = surf[x][t].src /\ surf[x][t].src # b
        /\ surf'[x][s].src = Unassigned /\ s \in Slots
        /\ \A t \in Slots : surf'[x][t].dst = surf[x][t].dst
    BY <1>1, <1>2, <1>3, ZenonT(60) DEF StreamOK, IndicesOwned
  <2>5. /\ Held(pool'[x].out) = Held(pool[x].out) \ {b} /\ pool'[x].cap = pool[x].cap
        /\ \A t \in Slots :
             /\ surf[x][t].src # Unassigned => surf[x][t].src \in Held(pool[x].out)
             /\ surf[x][t].dst # Unassigned => surf[x][t].dst \in Held(pool[x].cap)
        /\ \A t, u \in Slots :
             /\ surf[x][t].src # Unassigned /\ surf[x][t].src = surf[x][u].src => t = u
             /\ surf[x][t].dst # Unassigned /\ surf[x][t].dst = surf[x][u].dst => t = u
    BY <1>1, <1>2 DEF StreamOK, IndicesOwned
  <2>2. PoolOK(pool'[x].cap)
    BY <1>1, <1>2 DEF StreamOK, IndicesOwned
  <2>3. \A t \in Slots :
          /\ surf'[x][t].src # Unassigned => surf'[x][t].src \in Held(pool'[x].out)
          /\ surf'[x][t].dst # Unassigned => surf'[x][t].dst \in Held(pool'[x].cap)
    BY ONLY <2>1, <2>5
  <2>4. \A t, u \in Slots :
          /\ surf'[x][t].src # Unassigned /\ surf'[x][t].src = surf'[x][u].src => t = u
          /\ surf'[x][t].dst # Unassigned /\ surf'[x][t].dst = surf'[x][u].dst => t = u
    BY ONLY <2>1, <2>5
  <2> QED BY <1>2, <2>2, <2>3, <2>4 DEF IndicesOwned
<1>6. BegunBound(x)'
  BY <1>2, SMTT(40) DEF BegunBound
<1>7. kern'[x].out = kern[x].out /\ InFlight(x)' = InFlight(x)
  BY <1>2 DEF InFlight
<1>8. ReadsOwn(x)'
  <2>1. SUFFICES ASSUME NEW i \in InFlight(x)
                 PROVE  /\ i \in Held(pool'[x].out)
                        /\ coded[x][i] \in Slots => surf'[x][coded[x][i]].src = i
                        /\ \A u \in Slots : surf'[x][u].src = i =>
                             surf'[x][u].status = "Rendering"
    BY <1>2, <1>7 DEF ReadsOwn
  <2>2. /\ i \in Held(pool[x].out) /\ i # b /\ i # Unassigned
        /\ coded[x][i] \in Slots => surf[x][coded[x][i]].src = i
        /\ \A u \in Slots : surf[x][u].src = i => surf[x][u].status = "Rendering"
    BY <1>1, <1>2, QueueFields, IndexFacts DEF StreamOK, ReadsOwn
  <2>3. /\ \A u \in Slots : u # s => surf'[x][u] = surf[x][u]
        /\ surf'[x][s].src = Unassigned /\ surf[x][s].src = b
        /\ Held(pool'[x].out) = Held(pool[x].out) \ {b}
    BY <1>2, <1>3
  <2> QED BY ONLY <2>2, <2>3
<1>9. AnswersComing(x)'
  <2>1. /\ kern[x].outDone # << >> /\ kern[x].capDone # << >>
        /\ kern[x].outDone \in Seq(Index) /\ kern[x].capDone \in Seq(Index)
    BY <1>1, SyncDoneFacts, QueueFields
  <2>2. /\ Len(Tail(kern[x].outDone)) = Len(kern[x].outDone) - 1 /\ Len(kern[x].outDone) \in Nat
        /\ Len(Tail(kern[x].capDone)) = Len(kern[x].capDone) - 1 /\ Len(kern[x].capDone) \in Nat
    BY <2>1, TailIndex
  <2>3. /\ kern'[x].outDone = Tail(kern[x].outDone) /\ kern'[x].capDone = Tail(kern[x].capDone)
    BY <1>2
  <2> QED BY <1>1, <1>2, <2>2, <2>3 DEF StreamOK, AnswersComing
<1>10. \A y \in Streams : y # x => InFlight(y)' = InFlight(y)
  BY <1>2 DEF InFlight
<1>11. StreamOK(x)'
  BY <1>5, <1>6, <1>8, <1>9 DEF StreamOK
<1> QED BY <1>2, <1>4, <1>10, <1>11, StreamStep

\* What the destruction of a surface leaves of its stream.
LEMMA DestroySurfaceFacts ==
  ASSUME IInv, NEW x \in Streams, NEW s \in Slots, DestroySurface(x, s)
  PROVE  LET t == surf[x][s] IN
         /\ wait[x].slot # s /\ t # FreshSurface
         /\ surf' \in [Streams -> [Slots -> Surface]]
         /\ \A y \in Streams : y # x => surf'[y] = surf[y]
         /\ \A u \in Slots : u # s => surf'[x][u] = surf[x][u]
         /\ surf'[x][s] = FreshSurface
         /\ pool' \in [Streams -> [out : Pool, cap : Pool]]
         /\ \A y \in Streams : y # x => pool'[y] = pool[y]
         /\ PoolOK(pool'[x].out) /\ PoolOK(pool'[x].cap)
         /\ Held(pool'[x].out) \subseteq Held(pool[x].out)
         /\ Held(pool[x].out) \ {t.src} \subseteq Held(pool'[x].out)
         /\ Held(pool[x].cap) \ {t.dst} \subseteq Held(pool'[x].cap)
         /\ t.status = "Rendering" => pool' = pool
         /\ kern' = ClosedKern(t.fd) /\ fds' = ClosedFds(t.fd)
         /\ kern' \in [Streams -> Queues]
         /\ \A y \in Streams :
              /\ InFlight(y)' = InFlight(y)
              /\ kern'[y].cap = kern[y].cap
              /\ kern'[y].outDone = kern[y].outDone /\ kern'[y].capDone = kern[y].capDone
         /\ fds' \in [Fds -> {"free", "idle", "queued", "complete"}]
         /\ open' \in [Streams -> Slots \cup {"none"}]
         /\ \A y \in Streams : y # x => open'[y] = open[y]
         /\ open'[x] = IF open[x] = s THEN "none" ELSE open[x]
         /\ coded' \in [Streams -> [Index -> Picture]]
         /\ \A y \in Streams : y # x => coded'[y] = coded[y]
         /\ \A i \in Index : /\ coded[x][i] # s => coded'[x][i] = coded[x][i]
                             /\ coded[x][i] = s => coded'[x][i] = "old"
         /\ mem' \in [Streams -> [Index -> Picture]]
         /\ \A y \in Streams : y # x => mem'[y] = mem[y]
         /\ \A i \in Index : mem[x][i] # s => mem'[x][i] = mem[x][i]
         /\ UNCHANGED wait
<1> DEFINE t == surf[x][s]
           o == Returned(pool[x].out, t.src)
           c == Returned(pool[x].cap, t.dst)
<1>1. /\ wait[x].slot # s /\ t # FreshSurface
      /\ pool' = IF t.status = "Rendering" THEN pool
                 ELSE [pool EXCEPT ![x] = [out |-> o, cap |-> c]]
      /\ fds' = ClosedFds(t.fd) /\ kern' = ClosedKern(t.fd)
      /\ surf' = [surf EXCEPT ![x][s] = FreshSurface]
      /\ open' = [open EXCEPT ![x] = IF @ = s THEN "none" ELSE @]
      /\ coded' = [coded EXCEPT ![x] = Aged(@, s)]
      /\ mem' = [mem EXCEPT ![x] = Aged(@, s)]
      /\ UNCHANGED wait
  BY DEF DestroySurface
<1>2. /\ TypeOK /\ StreamOK(x) /\ t.fd \in Fds \cup {NoFd}
      /\ surf \in [Streams -> [Slots -> Surface]] /\ surf[x] \in [Slots -> Surface]
      /\ pool \in [Streams -> [out : Pool, cap : Pool]]
      /\ open \in [Streams -> Slots \cup {"none"}]
      /\ coded \in [Streams -> [Index -> Picture]] /\ mem \in [Streams -> [Index -> Picture]]
      /\ coded[x] \in [Index -> Picture] /\ mem[x] \in [Index -> Picture]
  BY SlotFields DEF IInv, TypeOK
<1>3. FreshSurface \in Surface
  BY DEF FreshSurface, Surface
<1>4. /\ surf'[x] = [surf[x] EXCEPT ![s] = FreshSurface]
      /\ \A y \in Streams : y # x => surf'[y] = surf[y]
      /\ [surf[x] EXCEPT ![s] = FreshSurface] \in [Slots -> Surface]
      /\ surf' \in [Streams -> [Slots -> Surface]]
  <2>1. surf' = [surf EXCEPT ![x] = [surf[x] EXCEPT ![s] = FreshSurface]]
    BY <1>1, <1>2
  <2>2. [surf[x] EXCEPT ![s] = FreshSurface] \in [Slots -> Surface]
    BY <1>2, <1>3
  <2> QED BY <1>2, <2>1, <2>2
<1>5. surf'[x][s] = FreshSurface /\ \A u \in Slots : u # s => surf'[x][u] = surf[x][u]
  BY <1>2, <1>4
<1>6. /\ PoolOK(pool[x].out) /\ PoolOK(pool[x].cap)
      /\ t.src # Unassigned => t.src \in Held(pool[x].out)
      /\ t.dst # Unassigned => t.dst \in Held(pool[x].cap)
  BY <1>2 DEF StreamOK, IndicesOwned
<1>7. /\ PoolOK(o) /\ Held(o) = Held(pool[x].out) \ {t.src} /\ o \in Pool
      /\ PoolOK(c) /\ Held(c) = Held(pool[x].cap) \ {t.dst} /\ c \in Pool
  BY <1>6, ReturnedFacts, HeldIndices
<1> HIDE DEF o, c
<1>8. /\ pool' \in [Streams -> [out : Pool, cap : Pool]]
      /\ \A y \in Streams : y # x => pool'[y] = pool[y]
      /\ PoolOK(pool'[x].out) /\ PoolOK(pool'[x].cap)
      /\ Held(pool'[x].out) \subseteq Held(pool[x].out)
      /\ Held(pool[x].out) \ {t.src} \subseteq Held(pool'[x].out)
      /\ Held(pool[x].cap) \ {t.dst} \subseteq Held(pool'[x].cap)
      /\ t.status = "Rendering" => pool' = pool
  <2>1. CASE t.status = "Rendering"
    BY <1>1, <1>2, <1>6, <2>1
  <2>2. CASE t.status # "Rendering"
    <3>1. pool' = [pool EXCEPT ![x] = [out |-> o, cap |-> c]]
      BY <1>1, <2>2
    <3>2. /\ pool'[x].out = o /\ pool'[x].cap = c
          /\ \A y \in Streams : y # x => pool'[y] = pool[y]
          /\ pool' \in [Streams -> [out : Pool, cap : Pool]]
      BY <1>2, <1>7, <3>1
    <3> QED BY <1>7, <2>2, <3>2
  <2> QED BY <2>1, <2>2
<1>9. /\ kern' \in [Streams -> Queues]
      /\ \A y \in Streams :
           /\ InFlight(y)' = InFlight(y)
           /\ kern'[y].cap = kern[y].cap
           /\ kern'[y].outDone = kern[y].outDone /\ kern'[y].capDone = kern[y].capDone
  BY <1>1, <1>2, ClosedKernFacts
<1>10. fds' \in [Fds -> {"free", "idle", "queued", "complete"}]
  BY <1>1, <1>2, ClosedFdsFacts
<1>11. /\ open' \in [Streams -> Slots \cup {"none"}]
       /\ \A y \in Streams : y # x => open'[y] = open[y]
       /\ open'[x] = IF open[x] = s THEN "none" ELSE open[x]
  BY <1>1, <1>2
<1>12. /\ coded' \in [Streams -> [Index -> Picture]]
       /\ \A y \in Streams : y # x => coded'[y] = coded[y]
       /\ \A i \in Index : /\ coded[x][i] # s => coded'[x][i] = coded[x][i]
                           /\ coded[x][i] = s => coded'[x][i] = "old"
  <2>1. /\ Aged(coded[x], s) \in [Index -> Picture]
        /\ \A i \in Index : /\ coded[x][i] # s => Aged(coded[x], s)[i] = coded[x][i]
                            /\ coded[x][i] = s => Aged(coded[x], s)[i] = "old"
    <3>1. coded[x] \in [Index -> Picture]
      BY <1>2
    <3> QED BY ONLY <3>1, AgedFacts, s \in Slots
  <2>2. coded'[x] = Aged(coded[x], s) /\ \A y \in Streams : y # x => coded'[y] = coded[y]
    BY <1>1, <1>2
  <2> QED BY <1>1, <1>2, <2>1, <2>2
<1>13. /\ mem' \in [Streams -> [Index -> Picture]]
       /\ \A y \in Streams : y # x => mem'[y] = mem[y]
       /\ \A i \in Index : mem[x][i] # s => mem'[x][i] = mem[x][i]
  <2>1. /\ Aged(mem[x], s) \in [Index -> Picture]
        /\ \A i \in Index : mem[x][i] # s => Aged(mem[x], s)[i] = mem[x][i]
    BY <1>2, AgedFacts
  <2>2. mem'[x] = Aged(mem[x], s) /\ \A y \in Streams : y # x => mem'[y] = mem[y]
    BY <1>1, <1>2
  <2> QED BY <1>1, <1>2, <2>1, <2>2
<1> QED BY <1>1, <1>4, <1>5, <1>8, <1>9, <1>10, <1>11, <1>12, <1>13

LEMMA DestroySurfaceKeeps ==
  ASSUME IInv, NEW x \in Streams, NEW s \in Slots, DestroySurface(x, s)
  PROVE  IInv'
<1> DEFINE t == surf[x][s]
<1>1. TypeOK /\ StreamOK(x)
  BY DEF IInv
<1>2. /\ wait[x].slot # s /\ t # FreshSurface
      /\ surf' \in [Streams -> [Slots -> Surface]]
      /\ \A y \in Streams : y # x => surf'[y] = surf[y]
      /\ \A u \in Slots : u # s => surf'[x][u] = surf[x][u]
      /\ surf'[x][s] = FreshSurface
  BY DestroySurfaceFacts
<1>3. /\ pool' \in [Streams -> [out : Pool, cap : Pool]]
      /\ \A y \in Streams : y # x => pool'[y] = pool[y]
      /\ PoolOK(pool'[x].out) /\ PoolOK(pool'[x].cap)
      /\ Held(pool'[x].out) \subseteq Held(pool[x].out)
      /\ Held(pool[x].out) \ {t.src} \subseteq Held(pool'[x].out)
      /\ Held(pool[x].cap) \ {t.dst} \subseteq Held(pool'[x].cap)
      /\ t.status = "Rendering" => pool' = pool
  BY DestroySurfaceFacts, ZenonT(60)
<1>4. /\ kern' \in [Streams -> Queues]
      /\ \A y \in Streams :
           /\ InFlight(y)' = InFlight(y)
           /\ kern'[y].outDone = kern[y].outDone /\ kern'[y].capDone = kern[y].capDone
      /\ fds' \in [Fds -> {"free", "idle", "queued", "complete"}]
  BY DestroySurfaceFacts
<1>5. /\ open' \in [Streams -> Slots \cup {"none"}]
      /\ \A y \in Streams : y # x => open'[y] = open[y]
      /\ open'[x] = IF open[x] = s THEN "none" ELSE open[x]
      /\ wait' = wait
  BY DestroySurfaceFacts
<1>6. /\ coded' \in [Streams -> [Index -> Picture]]
      /\ \A y \in Streams : y # x => coded'[y] = coded[y]
      /\ \A i \in Index : /\ coded[x][i] # s => coded'[x][i] = coded[x][i]
                          /\ coded[x][i] = s => coded'[x][i] = "old"
      /\ mem' \in [Streams -> [Index -> Picture]]
  BY DestroySurfaceFacts
<1>7. TypeOK'
  BY <1>1, <1>2, <1>3, <1>4, <1>5, <1>6 DEF TypeOK, Queues
<1>8. /\ surf'[x][s].src = Unassigned /\ surf'[x][s].dst = Unassigned
  BY <1>2 DEF FreshSurface
<1>9. IndicesOwned(x)'
  <2>1. /\ \A u \in Slots :
             /\ surf[x][u].src # Unassigned => surf[x][u].src \in Held(pool[x].out)
             /\ surf[x][u].dst # Unassigned => surf[x][u].dst \in Held(pool[x].cap)
        /\ \A u, v \in Slots :
             /\ surf[x][u].src # Unassigned /\ surf[x][u].src = surf[x][v].src => u = v
             /\ surf[x][u].dst # Unassigned /\ surf[x][u].dst = surf[x][v].dst => u = v
    BY <1>1 DEF StreamOK, IndicesOwned
  <2>2. \A u \in Slots :
          /\ surf'[x][u].src # Unassigned => surf'[x][u].src \in Held(pool'[x].out)
          /\ surf'[x][u].dst # Unassigned => surf'[x][u].dst \in Held(pool'[x].cap)
    BY ONLY <1>2, <1>3, <1>8, <2>1
  <2>3. \A u, v \in Slots :
          /\ surf'[x][u].src # Unassigned /\ surf'[x][u].src = surf'[x][v].src => u = v
          /\ surf'[x][u].dst # Unassigned /\ surf'[x][u].dst = surf'[x][v].dst => u = v
    BY ONLY <1>2, <1>8, <2>1
  <2> QED BY <1>3, <2>2, <2>3 DEF IndicesOwned
<1>10. wait[x] # NoWait => wait[x].slot \in Slots /\ open[x] # s
  BY <1>1, <1>2, WaitFacts
<1>11. BegunBound(x)'
  <2>1. open'[x] # "none" => open'[x] = open[x] /\ open[x] # s /\ open[x] \in Slots
    BY <1>1, <1>5, StreamFields
  <2> QED BY <1>1, <1>2, <1>5, <1>10, <2>1 DEF StreamOK, BegunBound, Fds
<1>12. ReadsOwn(x)'
  <2>1. SUFFICES ASSUME NEW i \in InFlight(x)
                 PROVE  /\ i \in Held(pool'[x].out)
                        /\ coded'[x][i] \in Slots => surf'[x][coded'[x][i]].src = i
                        /\ \A u \in Slots : surf'[x][u].src = i =>
                             surf'[x][u].status = "Rendering"
    BY <1>4 DEF ReadsOwn
  <2>2. /\ i \in Held(pool[x].out) /\ i \in Index /\ i # Unassigned
        /\ coded[x][i] \in Slots => surf[x][coded[x][i]].src = i
        /\ \A u \in Slots : surf[x][u].src = i => surf[x][u].status = "Rendering"
    BY <1>1, QueueFields, IndexFacts DEF StreamOK, ReadsOwn
  <2>3. i \in Held(pool'[x].out)
    BY <1>3, <2>2
  <2>4. coded'[x][i] \in Slots => coded'[x][i] = coded[x][i] /\ coded[x][i] # s
    BY <1>6, <2>2, NameFacts
  <2>5. /\ \A u \in Slots : u # s => surf'[x][u] = surf[x][u]
        /\ surf'[x][s].src # i
    BY <1>2, <1>8, <2>2
  <2> QED BY ONLY <2>2, <2>3, <2>4, <2>5
<1>13. AnswersComing(x)'
  <2>1. wait[x] # NoWait => surf'[x][wait[x].slot] = surf[x][wait[x].slot]
    BY <1>2, <1>10
  <2>2. /\ wait[x] # NoWait =>
             surf[x][wait[x].slot].src \in InFlight(x) \/ kern[x].outDone # << >>
        /\ Len(kern[x].outDone) <= Len(kern[x].capDone)
    BY <1>1 DEF StreamOK, AnswersComing
  <2> QED BY <1>4, <1>5, <2>1, <2>2 DEF AnswersComing
<1>14. StreamOK(x)'
  BY <1>9, <1>11, <1>12, <1>13 DEF StreamOK
<1> QED BY <1>2, <1>3, <1>4, <1>5, <1>6, <1>7, <1>14, StreamStep

\* The pools of a session that was just opened.
LEMMA NewPools ==
  /\ PoolOK(NewPool(MaxBuffers)) /\ Held(NewPool(MaxBuffers)) = {}
  /\ NewPool(MaxBuffers) \in Pool
<1>1. MaxBuffers \in 0 .. MaxBuffers
  BY MaxBuffersAssumption
<1> QED BY <1>1, NewPoolFacts, HeldIndices

LEMMA NoQueues ==
  /\ EmptyQueues \in Queues
  /\ EmptyQueues.out = << >> /\ EmptyQueues.cap = << >>
  /\ EmptyQueues.outDone = << >> /\ EmptyQueues.capDone = << >>
<1>1. << >> \in Seq(Job) /\ << >> \in Seq(Index)
  BY EmptySeq
<1> QED BY <1>1 DEF EmptyQueues, Queues

\* What a closed session, and the one opened after it, leave of a stream.
LEMMA DestroyContextFacts ==
  ASSUME TypeOK, NEW x \in Streams, DestroyContext(x)
  PROVE  /\ wait[x] = NoWait /\ UNCHANGED wait
         /\ surf' \in [Streams -> [Slots -> Surface]]
         /\ \A y \in Streams : y # x => surf'[y] = surf[y]
         /\ \A s \in Slots : /\ surf'[x][s].src = Unassigned
                             /\ surf'[x][s].dst = Unassigned
                             /\ surf'[x][s].fd = surf[x][s].fd
         /\ pool' \in [Streams -> [out : Pool, cap : Pool]]
         /\ \A y \in Streams : y # x => pool'[y] = pool[y]
         /\ pool'[x].out = NewPool(MaxBuffers) /\ pool'[x].cap = NewPool(MaxBuffers)
         /\ kern' \in [Streams -> Queues]
         /\ \A y \in Streams : y # x => kern'[y] = kern[y]
         /\ kern'[x] = EmptyQueues
         /\ fds' \in [Fds -> {"free", "idle", "queued", "complete"}]
         /\ \A f \in Fds : fds'[f] = IF f \in {j.fd : j \in Elements(kern[x].out)}
                                     THEN "complete" ELSE fds[f]
         /\ open' \in [Streams -> Slots \cup {"none"}]
         /\ \A y \in Streams : y # x => open'[y] = open[y]
         /\ open'[x] = "none"
         /\ coded' \in [Streams -> [Index -> Picture]]
         /\ mem' \in [Streams -> [Index -> Picture]]
         /\ \A y \in Streams : y # x => coded'[y] = coded[y] /\ mem'[y] = mem[y]
<1> DEFINE r == [s \in Slots |-> [surf[x][s] EXCEPT !.src = Unassigned, !.dst = Unassigned]]
           p == [out |-> NewPool(MaxBuffers), cap |-> NewPool(MaxBuffers)]
           c == [i \in Index |-> "old"]
<1>1. /\ wait[x] = NoWait /\ UNCHANGED wait
      /\ surf' = [surf EXCEPT ![x] = r]
      /\ pool' = [pool EXCEPT ![x] = p]
      /\ kern' = [kern EXCEPT ![x] = EmptyQueues]
      /\ fds' = [f \in Fds |-> IF f \in {j.fd : j \in Elements(kern[x].out)}
                               THEN "complete" ELSE fds[f]]
      /\ open' = [open EXCEPT ![x] = "none"]
      /\ coded' = [coded EXCEPT ![x] = c]
      /\ mem' = [mem EXCEPT ![x] = c]
  BY DEF DestroyContext
<1>2. /\ surf \in [Streams -> [Slots -> Surface]] /\ surf[x] \in [Slots -> Surface]
      /\ pool \in [Streams -> [out : Pool, cap : Pool]]
      /\ kern \in [Streams -> Queues]
      /\ fds \in [Fds -> {"free", "idle", "queued", "complete"}]
      /\ open \in [Streams -> Slots \cup {"none"}]
      /\ coded \in [Streams -> [Index -> Picture]] /\ mem \in [Streams -> [Index -> Picture]]
  BY DEF TypeOK, Queues
<1>3. ASSUME NEW s \in Slots
      PROVE  /\ r[s] \in Surface /\ r[s].src = Unassigned /\ r[s].dst = Unassigned
             /\ r[s].fd = surf[x][s].fd
  <2> DEFINE t == surf[x][s]
             u == [t EXCEPT !.src = Unassigned]
  <2>1. t \in Surface
    BY <1>2
  <2>2. /\ t.status \in {"Ready", "Rendering", "Displaying"} /\ t.fd \in Fds \cup {NoFd}
    BY <2>1 DEF Surface
  <2>3. u = [status |-> t.status, src |-> Unassigned, dst |-> t.dst, fd |-> t.fd]
    BY <2>1 DEF Surface
  <2> HIDE DEF u
  <2>4. [u EXCEPT !.dst = Unassigned]
          = [status |-> t.status, src |-> Unassigned, dst |-> Unassigned, fd |-> t.fd]
    BY <2>3
  <2>5. r[s] = [u EXCEPT !.dst = Unassigned]
    BY DEF u
  <2>6. r[s] = [status |-> t.status, src |-> Unassigned, dst |-> Unassigned, fd |-> t.fd]
    BY ONLY <2>4, <2>5
  <2> HIDE DEF r, t
  <2>7. r[s] \in Surface /\ r[s].src = Unassigned /\ r[s].dst = Unassigned /\ r[s].fd = t.fd
    BY <2>2, <2>6 DEF Surface
  <2> QED BY <2>7 DEF t
<1>4. r \in [Slots -> Surface]
  BY <1>3
<1> HIDE DEF r
<1>5. /\ surf' \in [Streams -> [Slots -> Surface]] /\ surf'[x] = r
      /\ \A y \in Streams : y # x => surf'[y] = surf[y]
  BY <1>1, <1>2, <1>4
<1>6. p \in [out : Pool, cap : Pool] /\ p.out = NewPool(MaxBuffers) /\ p.cap = NewPool(MaxBuffers)
  BY NewPools
<1> HIDE DEF p
<1>7. /\ pool' \in [Streams -> [out : Pool, cap : Pool]] /\ pool'[x] = p
      /\ \A y \in Streams : y # x => pool'[y] = pool[y]
  BY <1>1, <1>2, <1>6
<1>8. /\ kern' \in [Streams -> Queues] /\ kern'[x] = EmptyQueues
      /\ \A y \in Streams : y # x => kern'[y] = kern[y]
  BY <1>1, <1>2, NoQueues
<1>9. /\ fds' \in [Fds -> {"free", "idle", "queued", "complete"}]
      /\ \A f \in Fds : fds'[f] = IF f \in {j.fd : j \in Elements(kern[x].out)}
                                  THEN "complete" ELSE fds[f]
  BY <1>1, <1>2
<1>10. /\ open' \in [Streams -> Slots \cup {"none"}] /\ open'[x] = "none"
       /\ \A y \in Streams : y # x => open'[y] = open[y]
  BY <1>1, <1>2
<1>11. c \in [Index -> Picture]
  BY DEF Picture
<1> HIDE DEF c
<1>12. /\ coded' \in [Streams -> [Index -> Picture]] /\ mem' \in [Streams -> [Index -> Picture]]
       /\ \A y \in Streams : y # x => coded'[y] = coded[y] /\ mem'[y] = mem[y]
  BY <1>1, <1>2, <1>11
<1> QED BY <1>1, <1>3, <1>5, <1>6, <1>7, <1>8, <1>9, <1>10, <1>12

LEMMA DestroyContextKeeps ==
  ASSUME IInv, NEW x \in Streams, DestroyContext(x)
  PROVE  IInv'
<1>1. TypeOK /\ StreamOK(x)
  BY DEF IInv
<1>2. /\ wait[x] = NoWait /\ UNCHANGED wait
      /\ surf' \in [Streams -> [Slots -> Surface]]
      /\ \A y \in Streams : y # x => surf'[y] = surf[y]
      /\ \A s \in Slots : surf'[x][s].src = Unassigned /\ surf'[x][s].dst = Unassigned
      /\ pool' \in [Streams -> [out : Pool, cap : Pool]]
      /\ \A y \in Streams : y # x => pool'[y] = pool[y]
      /\ pool'[x].out = NewPool(MaxBuffers) /\ pool'[x].cap = NewPool(MaxBuffers)
      /\ kern' \in [Streams -> Queues]
      /\ \A y \in Streams : y # x => kern'[y] = kern[y]
      /\ kern'[x] = EmptyQueues
      /\ fds' \in [Fds -> {"free", "idle", "queued", "complete"}]
      /\ open' \in [Streams -> Slots \cup {"none"}]
      /\ \A y \in Streams : y # x => open'[y] = open[y]
      /\ open'[x] = "none"
      /\ coded' \in [Streams -> [Index -> Picture]]
      /\ mem' \in [Streams -> [Index -> Picture]]
      /\ \A y \in Streams : y # x => coded'[y] = coded[y] /\ mem'[y] = mem[y]
  BY <1>1, DestroyContextFacts
<1>3. TypeOK'
  BY <1>1, <1>2 DEF TypeOK, Queues
<1>4. IndicesOwned(x)'
  BY <1>2, NewPools DEF IndicesOwned
<1>5. BegunBound(x)'
  BY <1>2 DEF BegunBound
<1>6. InFlight(x)' = {} /\ kern'[x].outDone = << >> /\ kern'[x].capDone = << >>
  <2>1. kern'[x].out = << >> /\ Len(<< >>) = 0 /\ 1 .. 0 = {}
    BY <1>2, NoQueues
  <2> QED BY <1>2, <2>1, NoQueues DEF InFlight
<1>7. ReadsOwn(x)' /\ AnswersComing(x)'
  BY <1>2, <1>6 DEF ReadsOwn, AnswersComing
<1>8. \A y \in Streams : y # x => InFlight(y)' = InFlight(y)
  BY <1>2 DEF InFlight
<1>9. StreamOK(x)'
  BY <1>4, <1>5, <1>7 DEF StreamOK
<1> QED BY <1>2, <1>3, <1>8, <1>9, StreamStep

LEMMA InitIInv ==
  ASSUME Init
  PROVE  IInv
<1>1. FreshSurface \in Surface /\ FreshSurface.src = Unassigned /\ FreshSurface.dst = Unassigned
  BY DEF FreshSurface, Surface
<1>2. TypeOK
  <2>1. surf \in [Streams -> [Slots -> Surface]]
    BY <1>1 DEF Init
  <2>2. pool \in [Streams -> [out : Pool, cap : Pool]]
    BY NewPools DEF Init
  <2>3. kern \in [Streams -> Queues]
    BY NoQueues DEF Init
  <2>4. /\ open \in [Streams -> Slots \cup {"none"}]
        /\ wait \in [Streams -> [slot : Slots \cup {"none"}, fd : Fds \cup {NoFd}]]
        /\ fds \in [Fds -> {"free", "idle", "queued", "complete"}]
    BY DEF Init, NoWait
  <2>5. /\ coded \in [Streams -> [Index -> Picture]]
        /\ mem \in [Streams -> [Index -> Picture]]
    BY DEF Init, Picture
  <2> QED BY <2>1, <2>2, <2>3, <2>4, <2>5 DEF TypeOK, Queues
<1>3. ASSUME NEW x \in Streams PROVE StreamOK(x)
  <2>1. IndicesOwned(x)
    <3>1. /\ PoolOK(pool[x].out) /\ PoolOK(pool[x].cap)
      BY NewPools DEF Init
    <3>2. \A s \in Slots : surf[x][s].src = Unassigned /\ surf[x][s].dst = Unassigned
      BY <1>1 DEF Init
    <3> QED BY <3>1, <3>2 DEF IndicesOwned
  <2>2. BegunBound(x)
    BY DEF Init, BegunBound
  <2>3. InFlight(x) = {} /\ kern[x].outDone = << >> /\ kern[x].capDone = << >>
    <3>1. kern[x] = EmptyQueues
      BY DEF Init
    <3>2. kern[x].out = << >> /\ Len(<< >>) = 0 /\ 1 .. 0 = {}
      BY <3>1, NoQueues
    <3> QED BY <3>1, <3>2, NoQueues DEF InFlight
  <2>4. ReadsOwn(x) /\ AnswersComing(x)
    BY <2>3 DEF ReadsOwn, AnswersComing, Init
  <2> QED BY <2>1, <2>2, <2>4 DEF StreamOK
<1> QED BY <1>2, <1>3 DEF IInv

LEMMA NextIInv ==
  ASSUME IInv, Next
  PROVE  IInv'
<1> PICK x \in Streams :
      \/ RenderPicture(x)
      \/ DestroyContext(x)
      \/ EndUnqueued(x) \/ EndHalfQueued(x) \/ EndQueued(x)
      \/ Hardware(x)
      \/ SyncDone(x) \/ SyncBroken(x) \/ SyncTimesOut(x)
      \/ \E s \in Slots : \/ BeginPicture(x, s)
                          \/ SyncRefused(x, s)
                          \/ DestroySurface(x, s)
  BY DEF Next
<1>1. CASE RenderPicture(x)
  BY <1>1, RenderPictureKeeps
<1>2. CASE DestroyContext(x)
  BY <1>2, DestroyContextKeeps
<1>3. CASE EndUnqueued(x)
  BY <1>3, EndUnqueuedKeeps
<1>4. CASE EndHalfQueued(x)
  BY <1>4, EndHalfQueuedKeeps
<1>5. CASE EndQueued(x)
  BY <1>5, EndQueuedKeeps
<1>6. CASE Hardware(x)
  BY <1>6, HardwareKeeps
<1>7. CASE SyncDone(x)
  BY <1>7, SyncDoneKeeps
<1>8. CASE SyncBroken(x) \/ SyncTimesOut(x)
  BY <1>8, SyncBrokenKeeps
<1>9. ASSUME NEW s \in Slots, BeginPicture(x, s) PROVE IInv'
  BY <1>9, BeginPictureKeeps
<1>10. ASSUME NEW s \in Slots, SyncRefused(x, s) PROVE IInv'
  BY <1>10, SyncRefusedKeeps
<1>11. ASSUME NEW s \in Slots, DestroySurface(x, s) PROVE IInv'
  BY <1>11, DestroySurfaceKeeps
<1> QED BY <1>1, <1>2, <1>3, <1>4, <1>5, <1>6, <1>7, <1>8, <1>9, <1>10, <1>11

LEMMA StutterIInv ==
  ASSUME IInv, UNCHANGED vars
  PROVE  IInv'
<1>1. /\ surf' = surf /\ pool' = pool /\ open' = open /\ wait' = wait
      /\ fds' = fds /\ kern' = kern /\ coded' = coded /\ mem' = mem
  BY DEF vars
<1>2. TypeOK'
  BY <1>1 DEF IInv, TypeOK, Queues
<1>3. ASSUME NEW y \in Streams PROVE StreamOK(y)'
  <2>1. InFlight(y)' = InFlight(y) /\ StreamOK(y)
    BY <1>1 DEF InFlight, IInv
  <2> QED BY <1>1, <2>1, OtherStream
<1> QED BY <1>2, <1>3 DEF IInv

\* Every variable keeps its type, no index has two owners, and neither what the
\* hardware reads nor what a sync waits for is lost: whatever is late, refused or
\* corrupt, and however often a surface is synced (surface.c, picture.c, media.c).
THEOREM QueueInvariant == Spec => []IInv
<1>1. Init => IInv
  BY InitIInv
<1>2. IInv /\ [Next]_vars => IInv'
  BY NextIInv, StutterIInv
<1> QED BY <1>1, <1>2, PTL DEF Spec

\* No queue, pool or surface ever has an index the kernel did not give.
THEOREM QueueTyped == Spec => []TypeOK
<1>1. IInv => TypeOK
  BY DEF IInv
<1> QED BY <1>1, QueueInvariant, PTL

\* surface_release_buffers: the index of a buffer the hardware may still read is
\* not given to another picture, and the picture in it stays the submitted one.
THEOREM InFlightIsNotRecycled == Spec => []InFlightNotRecycled
<1>1. ASSUME IInv PROVE InFlightNotRecycled
  <2>1. SUFFICES ASSUME NEW x \in Streams, NEW k \in 1 .. Len(kern[x].out)
                 PROVE  LET i == kern[x].out[k].buf IN
                        /\ i \in Held(pool[x].out)
                        /\ coded[x][i] \in Slots =>
                             /\ surf[x][coded[x][i]].src \in {i, Unassigned}
                             /\ \A s \in Slots : surf[x][s].src = i => coded[x][i] = s
                        /\ \A s \in Slots : surf[x][s].src = i =>
                             surf[x][s].status = "Rendering"
    BY DEF InFlightNotRecycled
  <2> DEFINE i == kern[x].out[k].buf
  <2>2. /\ i \in InFlight(x) /\ InFlight(x) \subseteq Index
        /\ ReadsOwn(x) /\ IndicesOwned(x)
    BY <1>1, QueueFields DEF InFlight, IInv, StreamOK
  <2>3. i # Unassigned
    BY <2>2, IndexFacts
  <2> HIDE DEF i
  <2>4. /\ i \in Held(pool[x].out)
        /\ coded[x][i] \in Slots => surf[x][coded[x][i]].src = i
        /\ \A s \in Slots : surf[x][s].src = i => surf[x][s].status = "Rendering"
    BY <2>2 DEF ReadsOwn
  <2>5. \A s, t \in Slots : surf[x][s].src = i /\ surf[x][t].src = i => s = t
    BY <2>2, <2>3 DEF IndicesOwned
  <2> QED BY <2>4, <2>5, SMTT(30) DEF i
<1> QED BY <1>1, QueueInvariant, PTL

\* RequestSyncSurface, v4l2_dequeue_buffer: after a completed wait both queues
\* have a buffer to give, whatever earlier syncs left behind.
THEOREM NoDequeueIsEmpty == Spec => []NoEmptyDequeue
<1>1. ASSUME IInv PROVE NoEmptyDequeue
  <2>1. SUFFICES ASSUME NEW x \in Streams, wait[x] # NoWait, Finished(x)
                 PROVE  kern[x].outDone # << >> /\ kern[x].capDone # << >>
    BY DEF NoEmptyDequeue
  <2>2. /\ kern[x].outDone \in Seq(Index) /\ kern[x].capDone \in Seq(Index)
        /\ AnswersComing(x)
    BY <1>1, QueueFields DEF IInv, StreamOK
  <2>3. surf[x][wait[x].slot].src \notin InFlight(x)
    BY <2>1 DEF Finished, InFlight
  <2>4. kern[x].outDone # << >> /\ Len(kern[x].outDone) <= Len(kern[x].capDone)
    BY <2>1, <2>2, <2>3 DEF AnswersComing
  <2>5. Len(kern[x].outDone) # 0 /\ Len(kern[x].outDone) \in Nat
    BY <2>2, <2>4, EmptySeq
  <2>6. Len(<< >>) = 0
    OBVIOUS
  <2> QED BY <2>4, <2>5, <2>6
<1> QED BY <1>1, QueueInvariant, PTL

-----------------------------------------------------------------------------
(* The descriptors.                                                        *)

LEMMA JobFds ==
  ASSUME TypeOK, NEW x \in Streams, NEW n \in 1 .. Len(kern[x].out)
  PROVE  /\ kern[x].out[n].fd \in Fds \cup {NoFd}
         /\ kern[x].out[n].buf \in Index
BY QueueFields, JobFields

\* What the hardware has is left alone.
LEMMA JobsKept ==
  ASSUME TypeOK, Jobs, \A y \in Streams : kern'[y].out = kern[y].out,
         \A f \in Fds : fds[f] = "queued" => fds'[f] = "queued"
  PROVE  Jobs'
<1>1. JobsQueued'
  <2>1. SUFFICES ASSUME NEW y \in Streams, NEW n \in 1 .. Len(kern'[y].out),
                        kern'[y].out[n].fd # NoFd
                 PROVE  fds'[kern'[y].out[n].fd] = "queued"
    BY DEF JobsQueued
  <2>2. n \in 1 .. Len(kern[y].out) /\ kern'[y].out[n].fd = kern[y].out[n].fd
    OBVIOUS
  <2>3. kern[y].out[n].fd \in Fds
    BY <2>1, <2>2, JobFds
  <2> QED BY <2>1, <2>2, <2>3 DEF Jobs, JobsQueued
<1>2. JobsDistinct'
  <2>1. SUFFICES ASSUME NEW y \in Streams, NEW z \in Streams,
                        NEW n \in 1 .. Len(kern'[y].out), NEW m \in 1 .. Len(kern'[z].out),
                        kern'[y].out[n].fd # NoFd, kern'[y].out[n].fd = kern'[z].out[m].fd
                 PROVE  y = z /\ n = m
    BY DEF JobsDistinct
  <2>2. kern'[y].out = kern[y].out /\ kern'[z].out = kern[z].out
    OBVIOUS
  <2> QED BY <2>1, <2>2 DEF Jobs, JobsDistinct
<1> QED BY <1>1, <1>2 DEF Jobs

\* The request behind a closed descriptor goes on without one.
LEMMA JobsForgotten ==
  ASSUME TypeOK, Jobs, NEW f \in Fds \cup {NoFd}, fds' = ClosedFds(f),
         \A y \in Streams :
           /\ Len(kern'[y].out) = Len(kern[y].out)
           /\ \A n \in 1 .. Len(kern[y].out) : kern'[y].out[n].fd =
                IF f # NoFd /\ kern[y].out[n].fd = f THEN NoFd ELSE kern[y].out[n].fd
  PROVE  Jobs'
<1>1. \A g \in Fds : g # f => fds'[g] = fds[g]
  BY ClosedFdsFacts
<1>2. ASSUME NEW y \in Streams, NEW n \in 1 .. Len(kern[y].out), kern'[y].out[n].fd # NoFd
      PROVE  /\ kern'[y].out[n].fd = kern[y].out[n].fd
             /\ kern[y].out[n].fd \in Fds \ {f} /\ kern[y].out[n].fd # NoFd
  <2>1. kern[y].out[n].fd \in Fds \cup {NoFd}
    BY <1>2, JobFds
  <2> QED BY <1>2, <2>1, FdFacts
<1>3. JobsQueued'
  <2>1. SUFFICES ASSUME NEW y \in Streams, NEW n \in 1 .. Len(kern'[y].out),
                        kern'[y].out[n].fd # NoFd
                 PROVE  fds'[kern'[y].out[n].fd] = "queued"
    BY DEF JobsQueued
  <2>2. n \in 1 .. Len(kern[y].out)
    OBVIOUS
  <2>3. fds[kern[y].out[n].fd] = "queued"
    BY <1>2, <2>1, <2>2 DEF Jobs, JobsQueued
  <2> QED BY <1>1, <1>2, <2>1, <2>2, <2>3
<1>4. JobsDistinct'
  <2>1. SUFFICES ASSUME NEW y \in Streams, NEW z \in Streams,
                        NEW n \in 1 .. Len(kern'[y].out), NEW m \in 1 .. Len(kern'[z].out),
                        kern'[y].out[n].fd # NoFd, kern'[y].out[n].fd = kern'[z].out[m].fd
                 PROVE  y = z /\ n = m
    BY DEF JobsDistinct
  <2>2. n \in 1 .. Len(kern[y].out) /\ m \in 1 .. Len(kern[z].out)
    OBVIOUS
  <2>3. /\ kern'[y].out[n].fd = kern[y].out[n].fd
        /\ kern'[z].out[m].fd = kern[z].out[m].fd
    BY <1>2, <2>1, <2>2
  <2>4. kern[y].out[n].fd # NoFd /\ kern[y].out[n].fd = kern[z].out[m].fd
    BY ONLY <2>1, <2>3
  <2> QED BY ONLY <2>2, <2>4, Jobs, y \in Streams, z \in Streams DEF Jobs, JobsDistinct
<1> QED BY <1>3, <1>4 DEF Jobs

\* The names are the same and none is opened or closed; a call may return.
LEMMA NamesKept ==
  ASSUME TypeOK, Names,
         \A y \in Streams, t \in Slots : surf'[y][t].fd = surf[y][t].fd,
         \A f \in Fds : fds'[f] = "free" <=> fds[f] = "free",
         \A y \in Streams : wait'[y] = wait[y] \/ wait'[y] = NoWait,
         \A y \in Streams : wait[y] # NoWait => wait[y].slot \in Slots
  PROVE  Names'
<1>1. NamesDistinct'
  BY DEF Names, NamesDistinct
<1>2. NamesOpen'
  BY SlotFields DEF Names, NamesOpen
<1>3. OpenNamed'
  BY DEF Names, OpenNamed
<1>4. WaitNamed'
  BY DEF Names, WaitNamed, NoWait
<1> QED BY <1>1, <1>2, <1>3, <1>4 DEF Names

\* A surface names its request, which was made if there was none.
LEMMA NamesTaken ==
  ASSUME TypeOK, Names, NEW x \in Streams, NEW s \in Slots, NEW f \in Fds,
         NEW state \in {"idle", "queued"},
         surf[x][s].fd # NoFd => f = surf[x][s].fd,
         surf[x][s].fd = NoFd => fds[f] = "free",
         surf'[x][s].fd = f,
         \A y \in Streams, t \in Slots : ~(y = x /\ t = s) => surf'[y][t].fd = surf[y][t].fd,
         \A g \in Fds : fds'[g] = IF g = f THEN state ELSE fds[g],
         \A y \in Streams : y # x => wait'[y] = wait[y],
         wait'[x] # NoWait => wait'[x] = [slot |-> s, fd |-> f],
         \A y \in Streams : wait[y] # NoWait => wait[y].slot \in Slots
  PROVE  Names'
<1>1. \A y \in Streams, t \in Slots : ~(y = x /\ t = s) => surf[y][t].fd # f
  <2>1. SUFFICES ASSUME NEW y \in Streams, NEW t \in Slots, ~(y = x /\ t = s), surf[y][t].fd = f
                 PROVE  FALSE
    OBVIOUS
  <2>2. f # NoFd
    BY FdFacts
  <2>3. surf[x][s].fd = NoFd
    BY <2>1, <2>2 DEF Names, NamesDistinct
  <2>4. fds[f] # "free"
    BY <2>1, <2>2 DEF Names, NamesOpen
  <2> QED BY <2>3, <2>4
<1>2. NamesDistinct'
  <2>1. SUFFICES ASSUME NEW y \in Streams, NEW z \in Streams, NEW t \in Slots, NEW u \in Slots,
                        surf'[y][t].fd # NoFd, surf'[y][t].fd = surf'[z][u].fd
                 PROVE  y = z /\ t = u
    BY DEF NamesDistinct
  <2>2. CASE ~(y = x /\ t = s) /\ ~(z = x /\ u = s)
    BY <2>1, <2>2 DEF Names, NamesDistinct
  <2>3. CASE (y = x /\ t = s) \/ (z = x /\ u = s)
    BY <1>1, <2>1, <2>3
  <2> QED BY <2>2, <2>3
<1>3. NamesOpen'
  <2>1. SUFFICES ASSUME NEW y \in Streams, NEW t \in Slots, surf'[y][t].fd # NoFd
                 PROVE  fds'[surf'[y][t].fd] # "free"
    BY DEF NamesOpen
  <2>2. CASE y = x /\ t = s
    BY <2>2
  <2>3. CASE ~(y = x /\ t = s)
    BY <1>1, <2>1, <2>3, SlotFields DEF Names, NamesOpen
  <2> QED BY <2>2, <2>3
<1>4. OpenNamed'
  <2>1. SUFFICES ASSUME NEW g \in Fds, fds'[g] # "free"
                 PROVE  \E y \in Streams, t \in Slots : surf'[y][t].fd = g
    BY DEF OpenNamed
  <2>2. CASE g = f
    BY <2>2
  <2>3. CASE g # f
    <3>1. PICK y \in Streams, t \in Slots : surf[y][t].fd = g
      BY <2>1, <2>3 DEF Names, OpenNamed
    <3>2. ~(y = x /\ t = s)
      BY <2>3, <3>1, FdFacts
    <3> QED BY <3>1, <3>2
  <2> QED BY <2>2, <2>3
<1>5. WaitNamed'
  <2>1. SUFFICES ASSUME NEW y \in Streams, wait'[y] # NoWait
                 PROVE  surf'[y][wait'[y].slot].fd = wait'[y].fd
    BY DEF WaitNamed, NoWait
  <2>2. CASE y = x
    BY <2>1, <2>2
  <2>3. CASE y # x
    BY <2>1, <2>3 DEF Names, WaitNamed
  <2> QED BY <2>2, <2>3
<1> QED BY <1>2, <1>3, <1>4, <1>5 DEF Names

\* A descriptor is closed together with the name its surface had for it, and no
\* call that still waits had read it.
LEMMA NamesClosed ==
  ASSUME TypeOK, Names, NEW x \in Streams, NEW s \in Slots,
         surf'[x][s].fd = NoFd,
         \A y \in Streams, t \in Slots : ~(y = x /\ t = s) => surf'[y][t].fd = surf[y][t].fd,
         fds' = ClosedFds(surf[x][s].fd),
         \A y \in Streams : \/ wait'[y] = NoWait
                            \/ wait'[y] = wait[y] /\ ~(y = x /\ wait[y].slot = s),
         \A y \in Streams : wait[y] # NoWait => wait[y].slot \in Slots
  PROVE  Names'
<1>1. surf[x][s].fd \in Fds \cup {NoFd}
  BY SlotFields
<1>2. \A g \in Fds : fds'[g] = IF g = surf[x][s].fd THEN "free" ELSE fds[g]
  BY <1>1, ClosedFdsFacts
<1>3. NamesDistinct'
  <2>1. SUFFICES ASSUME NEW y \in Streams, NEW z \in Streams, NEW t \in Slots, NEW u \in Slots,
                        surf'[y][t].fd # NoFd, surf'[y][t].fd = surf'[z][u].fd
                 PROVE  y = z /\ t = u
    BY DEF NamesDistinct
  <2>2. ~(y = x /\ t = s) /\ ~(z = x /\ u = s)
    BY <2>1
  <2> QED BY <2>1, <2>2 DEF Names, NamesDistinct
<1>4. NamesOpen'
  <2>1. SUFFICES ASSUME NEW y \in Streams, NEW t \in Slots, surf'[y][t].fd # NoFd
                 PROVE  fds'[surf'[y][t].fd] # "free"
    BY DEF NamesOpen
  <2>2. ~(y = x /\ t = s) /\ surf'[y][t].fd = surf[y][t].fd
    BY <2>1
  <2>3. /\ surf[y][t].fd \in Fds /\ fds[surf[y][t].fd] # "free"
        /\ surf[y][t].fd # surf[x][s].fd
    BY <2>1, <2>2, SlotFields DEF Names, NamesOpen, NamesDistinct
  <2> QED BY <1>2, <2>2, <2>3
<1>5. OpenNamed'
  <2>1. SUFFICES ASSUME NEW g \in Fds, fds'[g] # "free"
                 PROVE  \E y \in Streams, t \in Slots : surf'[y][t].fd = g
    BY DEF OpenNamed
  <2>2. g # surf[x][s].fd /\ fds[g] # "free"
    BY <1>2, <2>1
  <2>3. PICK y \in Streams, t \in Slots : surf[y][t].fd = g
    BY <2>2 DEF Names, OpenNamed
  <2> QED BY <2>2, <2>3
<1>6. WaitNamed'
  <2>1. SUFFICES ASSUME NEW y \in Streams, wait'[y] # NoWait
                 PROVE  surf'[y][wait'[y].slot].fd = wait'[y].fd
    BY DEF WaitNamed, NoWait
  <2>2. wait'[y] = wait[y] /\ ~(y = x /\ wait[y].slot = s) /\ wait[y].slot \in Slots
    BY <2>1
  <2> QED BY <2>1, <2>2 DEF Names, WaitNamed
<1> QED BY <1>3, <1>4, <1>5, <1>6 DEF Names

\* One surface of one stream is another.
LEMMA OneName ==
  ASSUME NEW x \in Streams, NEW s \in Slots,
         \A y \in Streams : y # x => surf'[y] = surf[y],
         \A t \in Slots : t # s => surf'[x][t] = surf[x][t]
  PROVE  \A y \in Streams, t \in Slots : ~(y = x /\ t = s) => surf'[y][t].fd = surf[y][t].fd
<1>1. ASSUME NEW y \in Streams, NEW t \in Slots, ~(y = x /\ t = s)
      PROVE  surf'[y][t].fd = surf[y][t].fd
  <2>1. CASE y # x
    BY <2>1
  <2>2. CASE y = x
    BY <1>1, <2>2
  <2> QED BY <2>1, <2>2
<1> QED BY <1>1

LEMMA WaitSlots ==
  ASSUME IInv
  PROVE  \A y \in Streams : wait[y] # NoWait => wait[y].slot \in Slots
BY WaitFacts

LEMMA BeginPictureNames ==
  ASSUME IInv, DInv, NEW x \in Streams, NEW s \in Slots, BeginPicture(x, s)
  PROVE  DInv'
<1> DEFINE t == surf[x][s]
<1>1. /\ surf \in [Streams -> [Slots -> Surface]] /\ surf[x] \in [Slots -> Surface]
      /\ t \in Surface /\ TypeOK
  BY DEF IInv, TypeOK
<1>2. \E n : surf' = [surf EXCEPT ![x] = [surf[x] EXCEPT ![s] = n]] /\ n.fd = t.fd
  <2>1. CASE t.dst = Unassigned /\ Exhausted(pool[x].cap)
    <3> DEFINE i == BoundIndex(t.src, pool[x].out)
               n == [t EXCEPT !.src = i]
    <3>1. surf' = [surf EXCEPT ![x] = [surf[x] EXCEPT ![s] = n]]
      BY <1>1, <2>1 DEF BeginPicture
    <3> HIDE DEF i
    <3>2. n.fd = t.fd
      BY <1>1 DEF Surface
    <3> QED BY <3>1, <3>2
  <2>2. CASE ~(t.dst = Unassigned /\ Exhausted(pool[x].cap))
    <3> DEFINE n == [status |-> "Rendering", src |-> BoundIndex(t.src, pool[x].out),
                     dst |-> BoundIndex(t.dst, pool[x].cap), fd |-> t.fd]
    <3>1. surf' = [surf EXCEPT ![x] = [surf[x] EXCEPT ![s] = n]]
      BY <1>1, <2>2 DEF BeginPicture
    <3>2. n.fd = t.fd
      OBVIOUS
    <3> QED BY <3>1, <3>2
  <2> QED BY <2>1, <2>2
<1>3. \A y \in Streams, u \in Slots : surf'[y][u].fd = surf[y][u].fd
  BY <1>1, <1>2
<1>4. UNCHANGED <<wait, fds, kern>>
  BY DEF BeginPicture
<1>5. Jobs'
  BY <1>1, <1>4, JobsKept DEF DInv
<1>6. Names'
  BY <1>1, <1>3, <1>4, WaitSlots, NamesKept DEF DInv
<1> QED BY <1>5, <1>6 DEF DInv

LEMMA UntouchedNames ==
  ASSUME IInv, DInv, UNCHANGED <<surf, wait, fds, kern>>
  PROVE  DInv'
<1>1. Jobs'
  BY JobsKept DEF DInv, IInv
<1>2. Names'
  BY WaitSlots, NamesKept DEF DInv, IInv
<1> QED BY <1>1, <1>2 DEF DInv

\* The request a call found or made.
LEMMA WithRequestNames ==
  ASSUME IInv, DInv, NEW x \in Streams, NEW s \in Slots, IdleRequest(x, s),
         NEW state \in {"idle", "queued"}, WithRequest(x, s, state),
         \A y \in Streams : y # x => wait'[y] = wait[y],
         wait'[x] # NoWait => wait'[x] = [slot |-> s, fd |-> RequestFd(x, s)]
  PROVE  /\ Names'
         /\ \A f \in Fds : fds[f] = "queued" => f # RequestFd(x, s) /\ fds'[f] = "queued"
<1> DEFINE f == RequestFd(x, s)
<1>1. TypeOK /\ Names /\ HasRequest(x, s) /\ fds[f] \in {"free", "idle"}
  BY DEF IInv, DInv, IdleRequest
<1>2. /\ f \in Fds
      /\ surf[x][s].fd # NoFd => f = surf[x][s].fd
      /\ surf[x][s].fd = NoFd => fds[f] = "free"
  BY <1>1, RequestFdFacts
<1>3. /\ surf' = [surf EXCEPT ![x][s].fd = f]
      /\ \A g \in Fds : fds'[g] = IF g = f THEN state ELSE fds[g]
  BY <1>1, WithRequestFacts
<1> HIDE DEF f
<1>4. /\ surf'[x][s].fd = f
      /\ \A y \in Streams, t \in Slots : ~(y = x /\ t = s) => surf'[y][t].fd = surf[y][t].fd
  <2>1. TypeOK /\ f \in Fds \cup {NoFd} /\ Renamed(x, s, f)
    BY <1>1, <1>2, <1>3 DEF Renamed
  <2>2. /\ surf'[x][s].fd = f
        /\ \A y \in Streams : y # x => surf'[y] = surf[y]
        /\ \A t \in Slots : t # s => surf'[x][t] = surf[x][t]
    BY <2>1, NewName
  <2> QED BY <2>2, OneName
<1>5. wait'[x] # NoWait => wait'[x] = [slot |-> s, fd |-> f]
  BY DEF f
<1>6. Names'
  BY <1>1, <1>2, <1>3, <1>4, <1>5, WaitSlots, NamesTaken
<1>7. \A g \in Fds : fds[g] = "queued" => g # f /\ fds'[g] = "queued"
  BY <1>1, <1>3
<1> QED BY <1>6, <1>7 DEF f

LEMMA EndUnqueuedNames ==
  ASSUME IInv, DInv, NEW x \in Streams, EndUnqueued(x)
  PROVE  DInv'
<1>1. /\ TypeOK /\ Jobs /\ open[x] \in Slots /\ wait[x] = NoWait
      /\ UNCHANGED <<wait, kern>>
  BY EndingFacts DEF EndUnqueued, IInv, DInv
<1>2. CASE UNCHANGED <<surf, fds>>
  BY <1>1, <1>2, UntouchedNames
<1>3. CASE IdleRequest(x, open[x]) /\ WithRequest(x, open[x], "idle")
  <2>1. /\ Names'
        /\ \A f \in Fds : fds[f] = "queued" => fds'[f] = "queued"
    BY <1>1, <1>3, WithRequestNames
  <2> QED BY <1>1, <2>1, JobsKept DEF DInv
<1> QED BY <1>2, <1>3 DEF EndUnqueued

LEMMA EndHalfQueuedNames ==
  ASSUME IInv, DInv, NEW x \in Streams, EndHalfQueued(x)
  PROVE  DInv'
<1> DEFINE s == open[x]
<1>1. /\ TypeOK /\ Jobs /\ Names /\ s \in Slots /\ wait[x] = NoWait
      /\ wait' = wait /\ IdleRequest(x, s)
      /\ surf[x][s].dst \in Index
      /\ kern' = [kern EXCEPT ![x] = CaptureQueued(x, s)]
  BY EndingFacts DEF EndHalfQueued, IInv, DInv
<1>2. \A y \in Streams : kern'[y].out = kern[y].out
  <2>1. CaptureQueued(x, s).out = kern[x].out
    BY <1>1, CaptureQueuedFacts
  <2> QED BY <1>1, <2>1 DEF TypeOK
<1>3. CASE WithRequest(x, s, "idle")
  <2>1. /\ Names'
        /\ \A f \in Fds : fds[f] = "queued" => fds'[f] = "queued"
    BY <1>1, <1>3, WithRequestNames
  <2> QED BY <1>1, <1>2, <2>1, JobsKept DEF DInv
<1>4. CASE surf' = [surf EXCEPT ![x][s].fd = NoFd] /\ fds' = ClosedFds(surf[x][s].fd)
  <2>1. /\ surf'[x][s].fd = NoFd
        /\ \A y \in Streams, t \in Slots : ~(y = x /\ t = s) => surf'[y][t].fd = surf[y][t].fd
    <3> HIDE DEF s
    <3>1. /\ TypeOK /\ s \in Slots /\ Renamed(x, s, NoFd)
          /\ NoFd \in Fds \cup {NoFd}
      BY <1>1, <1>4 DEF Renamed
    <3>2. /\ surf'[x][s].fd = NoFd
          /\ \A y \in Streams : y # x => surf'[y] = surf[y]
          /\ \A t \in Slots : t # s => surf'[x][t] = surf[x][t]
      BY <3>1, NewName
    <3> QED BY <3>1, <3>2, OneName
  <2>2. Names'
    BY <1>1, <1>4, <2>1, WaitSlots, NamesClosed
  <2>3. surf[x][s].fd # NoFd => fds[surf[x][s].fd] \in {"free", "idle"}
    BY <1>1, RequestFdFacts DEF IdleRequest
  <2>4. surf[x][s].fd \in Fds \cup {NoFd}
    BY <1>1, SlotFields
  <2>5. \A f \in Fds : fds[f] = "queued" => fds'[f] = "queued"
    BY <1>1, <1>4, <2>3, <2>4, ClosedFdsFacts, FdFacts
  <2> QED BY <1>1, <1>2, <2>2, <2>5, JobsKept DEF DInv
<1> QED BY <1>3, <1>4 DEF EndHalfQueued

LEMMA EndQueuedNames ==
  ASSUME IInv, DInv, NEW x \in Streams, EndQueued(x)
  PROVE  DInv'
<1> DEFINE s == open[x]
           f == RequestFd(x, s)
           job == [buf |-> surf[x][s].src, fd |-> f]
<1>1. /\ TypeOK /\ Jobs /\ IdleRequest(x, s) /\ WithRequest(x, s, "queued")
  BY DEF IInv, DInv, EndQueued
<1>2. /\ s \in Slots /\ f \in Fds /\ job \in Job
      /\ \A g \in Fds : fds'[g] = IF g = f THEN "queued" ELSE fds[g]
      /\ \A y \in Streams : y # x => kern'[y] = kern[y]
      /\ kern'[x].out = Append(kern[x].out, job)
      /\ wait' = [wait EXCEPT ![x] = [slot |-> s, fd |-> f]]
      /\ wait'[x] = [slot |-> s, fd |-> f]
  BY EndQueuedFacts
<1>3. \A y \in Streams : y # x => wait'[y] = wait[y]
  BY <1>1, <1>2 DEF TypeOK
<1>4. /\ Names'
      /\ \A g \in Fds : fds[g] = "queued" => g # f /\ fds'[g] = "queued"
  BY <1>1, <1>2, <1>3, WithRequestNames
<1>5. job.fd = f
  OBVIOUS
<1> HIDE DEF f, job, s
<1> DEFINE o == kern[x].out
<1>6. /\ Len(kern'[x].out) = Len(o) + 1 /\ Len(o) \in Nat
      /\ \A n \in 1 .. Len(o) : kern'[x].out[n] = o[n]
      /\ kern'[x].out[Len(o) + 1] = job
  BY <1>1, <1>2, QueueFields, AppendedJob
<1>7. ASSUME NEW y \in Streams, NEW n \in 1 .. Len(kern'[y].out)
      PROVE  \/ y = x /\ n = Len(o) + 1 /\ kern'[y].out[n].fd = f
             \/ n \in 1 .. Len(kern[y].out) /\ kern'[y].out[n].fd = kern[y].out[n].fd
  <2>1. CASE y # x
    BY <1>2, <2>1
  <2>2. CASE y = x
    <3>1. n \in 1 .. Len(o) \/ n = Len(o) + 1
      BY <1>6, <2>2
    <3> QED BY <1>5, <1>6, <2>2, <3>1
  <2> QED BY <2>1, <2>2
<1>8. ASSUME NEW y \in Streams, NEW n \in 1 .. Len(kern[y].out), kern[y].out[n].fd # NoFd
      PROVE  /\ kern[y].out[n].fd \in Fds /\ kern[y].out[n].fd # f
             /\ fds'[kern[y].out[n].fd] = "queued"
  <2>1. kern[y].out[n].fd \in Fds /\ fds[kern[y].out[n].fd] = "queued"
    BY <1>1, <1>8, JobFds DEF Jobs, JobsQueued
  <2> QED BY <1>4, <2>1
<1>9. JobsQueued'
  <2>1. SUFFICES ASSUME NEW y \in Streams, NEW n \in 1 .. Len(kern'[y].out),
                        kern'[y].out[n].fd # NoFd
                 PROVE  fds'[kern'[y].out[n].fd] = "queued"
    BY DEF JobsQueued
  <2>2. fds'[f] = "queued"
    BY <1>2
  <2> QED BY <1>7, <1>8, <2>1, <2>2, ZenonT(60)
<1>10. JobsDistinct'
  <2>1. SUFFICES ASSUME NEW y \in Streams, NEW z \in Streams,
                        NEW n \in 1 .. Len(kern'[y].out), NEW m \in 1 .. Len(kern'[z].out),
                        kern'[y].out[n].fd # NoFd, kern'[y].out[n].fd = kern'[z].out[m].fd
                 PROVE  y = z /\ n = m
    BY DEF JobsDistinct
  <2>2. CASE n \in 1 .. Len(kern[y].out) /\ kern'[y].out[n].fd = kern[y].out[n].fd
    <3>1. kern'[y].out[n].fd # f
      BY <1>8, <2>1, <2>2
    <3>2. m \in 1 .. Len(kern[z].out) /\ kern'[z].out[m].fd = kern[z].out[m].fd
      BY <1>7, <2>1, <3>1
    <3>3. kern[y].out[n].fd # NoFd /\ kern[y].out[n].fd = kern[z].out[m].fd
      BY ONLY <2>1, <2>2, <3>2
    <3>4. \A a \in 1 .. Len(kern[y].out), b \in 1 .. Len(kern[z].out) :
            kern[y].out[a].fd # NoFd /\ kern[y].out[a].fd = kern[z].out[b].fd => y = z /\ a = b
      <4>1. JobsDistinct
        BY <1>1 DEF Jobs
      <4> QED BY ONLY <4>1, y \in Streams, z \in Streams DEF JobsDistinct
    <3> QED BY ONLY <2>2, <3>2, <3>3, <3>4
  <2>3. CASE y = x /\ n = Len(o) + 1 /\ kern'[y].out[n].fd = f
    <3>1. f # NoFd
      BY <1>2, FdFacts
    <3>2. z = x /\ m = Len(o) + 1
      <4>1. kern'[z].out[m].fd = f
        BY <2>1, <2>3
      <4>2. ~(m \in 1 .. Len(kern[z].out) /\ kern'[z].out[m].fd = kern[z].out[m].fd)
        BY <1>8, <3>1, <4>1
      <4> QED BY <1>7, <4>2
    <3> QED BY <2>3, <3>2
  <2> QED BY <1>7, <2>2, <2>3
<1> QED BY <1>4, <1>9, <1>10 DEF DInv, Jobs

LEMMA HardwareNames ==
  ASSUME IInv, DInv, NEW x \in Streams, Hardware(x)
  PROVE  DInv'
<1> DEFINE o == kern[x].out
           job == Head(kern[x].out)
<1>1. TypeOK /\ Jobs /\ Names
  BY DEF IInv, DInv
<1>2. /\ o # << >> /\ job.fd \in Fds \cup {NoFd}
      /\ \A y \in Streams : y # x => kern'[y] = kern[y]
      /\ kern'[x].out = Tail(o)
      /\ \A f \in Fds : fds'[f] = IF f = job.fd THEN "complete" ELSE fds[f]
      /\ UNCHANGED <<surf, wait>>
  BY <1>1, HardwareFacts
<1>3. /\ o \in Seq(Job) /\ job = o[1] /\ Len(o) \in Nat \ {0} /\ Len(Tail(o)) = Len(o) - 1
      /\ \A n \in 1 .. Len(o) - 1 : Tail(o)[n] = o[n + 1]
  BY <1>1, <1>2, QueueFields, TailJob
<1>4. job.fd # NoFd => fds[job.fd] = "queued"
  BY <1>1, <1>3 DEF Jobs, JobsQueued
<1>5. Names'
  <2>1. \A f \in Fds : fds'[f] = "free" <=> fds[f] = "free"
    BY <1>2, <1>4, FdFacts
  <2> QED BY <1>1, <1>2, <2>1, WaitSlots, NamesKept
<1>6. ASSUME NEW y \in Streams, NEW n \in 1 .. Len(kern'[y].out)
      PROVE  LET m == IF y = x THEN n + 1 ELSE n IN
             /\ m \in 1 .. Len(kern[y].out)
             /\ kern'[y].out[n] = kern[y].out[m]
             /\ y = x => m # 1
  <2>1. CASE y # x
    BY <1>2, <2>1
  <2>2. CASE y = x
    <3>1. n \in 1 .. Len(o) - 1
      BY <1>2, <1>3, <2>2
    <3>2. n + 1 \in 1 .. Len(o) /\ n + 1 # 1 /\ Tail(o)[n] = o[n + 1]
      BY <1>3, <3>1
    <3> QED BY <1>2, <2>2, <3>2
  <2> QED BY <2>1, <2>2
<1>7. ASSUME NEW y \in Streams, NEW n \in 1 .. Len(kern[y].out), kern[y].out[n].fd # NoFd,
             ~(y = x /\ n = 1)
      PROVE  fds'[kern[y].out[n].fd] = "queued"
  <2>1. kern[y].out[n].fd \in Fds /\ fds[kern[y].out[n].fd] = "queued"
    BY <1>1, <1>7, JobFds DEF Jobs, JobsQueued
  <2>2. 1 \in 1 .. Len(kern[x].out) /\ job.fd = kern[x].out[1].fd
    BY <1>3
  <2>3. kern[y].out[n].fd # job.fd
    BY <1>1, <1>7, <2>2 DEF Jobs, JobsDistinct
  <2> QED BY <1>2, <2>1, <2>3
<1>8. JobsQueued'
  <2>1. SUFFICES ASSUME NEW y \in Streams, NEW n \in 1 .. Len(kern'[y].out),
                        kern'[y].out[n].fd # NoFd
                 PROVE  fds'[kern'[y].out[n].fd] = "queued"
    BY DEF JobsQueued
  <2> DEFINE m == IF y = x THEN n + 1 ELSE n
  <2>2. /\ m \in 1 .. Len(kern[y].out) /\ kern'[y].out[n] = kern[y].out[m]
        /\ ~(y = x /\ m = 1)
    BY <1>6
  <2> HIDE DEF m
  <2> QED BY <1>7, <2>1, <2>2
<1>9. JobsDistinct'
  <2>1. SUFFICES ASSUME NEW y \in Streams, NEW z \in Streams,
                        NEW n \in 1 .. Len(kern'[y].out), NEW m \in 1 .. Len(kern'[z].out),
                        kern'[y].out[n].fd # NoFd, kern'[y].out[n].fd = kern'[z].out[m].fd
                 PROVE  y = z /\ n = m
    BY DEF JobsDistinct
  <2> DEFINE i == IF y = x THEN n + 1 ELSE n
             j == IF z = x THEN m + 1 ELSE m
  <2>2. /\ i \in 1 .. Len(kern[y].out) /\ kern'[y].out[n] = kern[y].out[i]
        /\ j \in 1 .. Len(kern[z].out) /\ kern'[z].out[m] = kern[z].out[j]
    BY <1>6
  <2>3. y = z /\ i = j => n = m
    <3>1. n \in Nat /\ m \in Nat
      <4>1. Len(kern'[y].out) \in Int /\ Len(kern'[z].out) \in Int
        BY <1>1, <1>2, <1>3, QueueFields
      <4> QED BY <4>1
    <3> QED BY <3>1
  <2> HIDE DEF i, j
  <2>4. kern[y].out[i].fd # NoFd /\ kern[y].out[i].fd = kern[z].out[j].fd
    BY ONLY <2>1, <2>2
  <2>5. y = z /\ i = j
    BY ONLY <1>1, <2>2, <2>4, y \in Streams, z \in Streams DEF Jobs, JobsDistinct
  <2> QED BY <2>3, <2>5
<1> QED BY <1>5, <1>8, <1>9 DEF DInv, Jobs

LEMMA SyncDoneNames ==
  ASSUME IInv, DInv, NEW x \in Streams, SyncDone(x)
  PROVE  DInv'
<1> DEFINE s == wait[x].slot
           n == [status |-> "Displaying", src |-> Unassigned,
                 dst |-> surf[x][s].dst, fd |-> surf[x][s].fd]
<1>1. TypeOK /\ Jobs /\ Names
  BY DEF IInv, DInv
<1>7. wait[x].fd \in Fds /\ Reinitialisable(wait[x].fd)
  BY SyncDoneFacts
<1>8. wait[x].fd \in Fds /\ fds[wait[x].fd] \in {"idle", "complete"}
  BY <1>7 DEF Reinitialisable
<1>2. /\ \A y \in Streams : y # x => surf'[y] = surf[y]
      /\ \A t \in Slots : t # s => surf'[x][t] = surf[x][t]
      /\ surf'[x][s] = n
      /\ s \in Slots
  BY SyncDoneFacts
<1>9. /\ \A y \in Streams : y # x => kern'[y] = kern[y]
      /\ kern'[x].out = kern[x].out
  <2>1. \A y \in Streams : y # x => kern'[y] = kern[y]
    BY SyncDoneFacts
  <2>2. kern'[x] = [out |-> kern[x].out, cap |-> kern[x].cap,
                    outDone |-> Tail(kern[x].outDone), capDone |-> Tail(kern[x].capDone)]
    BY SyncDoneFacts
  <2> QED BY <2>1, <2>2
<1>10. /\ \A f \in Fds : fds'[f] = IF f = wait[x].fd THEN "idle" ELSE fds[f]
       /\ wait'[x] = NoWait
       /\ \A y \in Streams : y # x => wait'[y] = wait[y]
  <2>1. \A f \in Fds : fds'[f] = IF f = wait[x].fd THEN "idle" ELSE fds[f]
    BY SyncDoneFacts
  <2>2. wait'[x] = NoWait
    BY SyncDoneFacts
  <2>3. \A y \in Streams : y # x => open'[y] = open[y] /\ wait'[y] = wait[y]
    BY SyncDoneFacts
  <2> QED BY <2>1, <2>2, <2>3
<1>3. n.fd = surf[x][s].fd
  OBVIOUS
<1> HIDE DEF n
<1>4. \A y \in Streams, t \in Slots : surf'[y][t].fd = surf[y][t].fd
  <2>1. \A y \in Streams, t \in Slots : ~(y = x /\ t = s) => surf'[y][t].fd = surf[y][t].fd
    BY <1>2, OneName
  <2>2. surf'[x][s].fd = surf[x][s].fd
    BY <1>2, <1>3
  <2> QED BY <2>1, <2>2
<1>5. Names'
  <2>1. \A f \in Fds : fds'[f] = "free" <=> fds[f] = "free"
    BY <1>10, <1>8
  <2>2. \A y \in Streams : wait'[y] = wait[y] \/ wait'[y] = NoWait
    BY <1>10
  <2> QED BY <1>1, <1>4, <2>1, <2>2, WaitSlots, NamesKept
<1>6. Jobs'
  <2>1. \A f \in Fds : fds[f] = "queued" => fds'[f] = "queued"
    BY <1>10, <1>8
  <2>2. \A y \in Streams : kern'[y].out = kern[y].out
    BY <1>9
  <2> QED BY <1>1, <2>1, <2>2, JobsKept
<1> QED BY <1>5, <1>6 DEF DInv

\* A surface's descriptor is closed by its number.
LEMMA ClosedNames ==
  ASSUME IInv, DInv, NEW x \in Streams, NEW s \in Slots,
         surf'[x][s].fd = NoFd,
         \A y \in Streams : y # x => surf'[y] = surf[y],
         \A t \in Slots : t # s => surf'[x][t] = surf[x][t],
         fds' = ClosedFds(surf[x][s].fd),
         \A y \in Streams : \E k \in Queues :
           k.out = kern[y].out /\ kern'[y] = Forget(k, surf[x][s].fd),
         \A y \in Streams : \/ wait'[y] = NoWait
                            \/ wait'[y] = wait[y] /\ ~(y = x /\ wait[y].slot = s)
  PROVE  DInv'
<1>1. /\ TypeOK /\ Jobs /\ Names
      /\ surf[x][s].fd \in Fds \cup {NoFd}
  BY SlotFields DEF IInv, DInv
<1>2. Names'
  <2>1. \A y \in Streams, t \in Slots : ~(y = x /\ t = s) => surf'[y][t].fd = surf[y][t].fd
    BY OneName
  <2> QED BY <1>1, <2>1, WaitSlots, NamesClosed
<1> DEFINE f == surf[x][s].fd
<1>3. f \in Fds \cup {NoFd} /\ fds' = ClosedFds(f)
  BY <1>1
<1>4. ASSUME NEW y \in Streams
      PROVE  /\ Len(kern'[y].out) = Len(kern[y].out)
             /\ \A n \in 1 .. Len(kern[y].out) : kern'[y].out[n].fd =
                  IF f # NoFd /\ kern[y].out[n].fd = f THEN NoFd ELSE kern[y].out[n].fd
  <2>1. PICK k \in Queues : k.out = kern[y].out /\ kern'[y] = Forget(k, f)
    OBVIOUS
  <2> HIDE DEF f
  <2>2. /\ Len(Forget(k, f).out) = Len(k.out)
        /\ \A n \in 1 .. Len(k.out) :
             Forget(k, f).out[n].fd =
               IF f # NoFd /\ k.out[n].fd = f THEN NoFd ELSE k.out[n].fd
    BY ForgetFacts
  <2> QED BY ONLY <2>1, <2>2
<1> HIDE DEF f
<1>5. Jobs'
  BY <1>1, <1>3, <1>4, JobsForgotten
<1> QED BY <1>2, <1>5 DEF DInv

LEMMA SyncFailsNames ==
  ASSUME IInv, DInv, NEW x \in Streams, wait[x] # NoWait, NEW k \in Queues, SyncFails(x, k),
         k.out = kern[x].out
  PROVE  DInv'
<1> DEFINE s == wait[x].slot
           f == wait[x].fd
<1>1. TypeOK /\ s \in Slots
  BY WaitFacts DEF IInv
<1>2. surf[x][s].fd = f
  BY DEF DInv, Names, WaitNamed
<1>3. /\ fds' = ClosedFds(f)
      /\ kern' = [y \in Streams |-> Forget(IF y = x THEN k ELSE kern[y], f)]
      /\ surf' = [surf EXCEPT ![x][s].fd = NoFd]
      /\ wait' = [wait EXCEPT ![x] = NoWait]
  BY DEF SyncFails
<1> HIDE DEF s, f
<1>4. NoFd \in Fds \cup {NoFd} /\ Renamed(x, s, NoFd)
  BY <1>3 DEF Renamed
<1>5. /\ surf'[x][s].fd = NoFd
      /\ \A y \in Streams : y # x => surf'[y] = surf[y]
      /\ \A t \in Slots : t # s => surf'[x][t] = surf[x][t]
  BY <1>1, <1>4, NewName
<1>6. \A y \in Streams : \E h \in Queues : h.out = kern[y].out /\ kern'[y] = Forget(h, f)
  BY <1>1, <1>3, StreamFields
<1>7. \A y \in Streams : \/ wait'[y] = NoWait
                         \/ wait'[y] = wait[y] /\ ~(y = x /\ wait[y].slot = s)
  BY <1>1, <1>3 DEF TypeOK
<1> QED BY <1>1, <1>2, <1>3, <1>5, <1>6, <1>7, ClosedNames

LEMMA SyncBrokenNames ==
  ASSUME IInv, DInv, NEW x \in Streams, SyncBroken(x) \/ SyncTimesOut(x)
  PROVE  DInv'
<1>1. /\ wait[x] # NoWait
      /\ \/ SyncFails(x, kern[x])
         \/ kern[x].outDone # << >> /\ SyncFails(x, [kern[x] EXCEPT !.outDone = Tail(@)])
  BY DEF SyncBroken, SyncTimesOut
<1>2. TypeOK /\ kern[x] \in Queues
  BY StreamFields DEF IInv
<1>3. CASE SyncFails(x, kern[x])
  BY <1>1, <1>2, <1>3, SyncFailsNames
<1>4. CASE kern[x].outDone # << >> /\ SyncFails(x, [kern[x] EXCEPT !.outDone = Tail(@)])
  <2> DEFINE q == Tail(kern[x].outDone)
             k == [kern[x] EXCEPT !.outDone = q]
  <2>1. q \in Seq(Index)
    BY <1>2, <1>4, TailIndex DEF Queues
  <2> HIDE DEF q
  <2>2. k \in Queues /\ k.out = kern[x].out
    BY <1>2, <2>1 DEF Queues
  <2>3. SyncFails(x, k)
    BY <1>4 DEF q
  <2> HIDE DEF k
  <2> QED BY <1>1, <2>2, <2>3, SyncFailsNames
<1> QED BY <1>1, <1>3, <1>4

LEMMA SyncRefusedNames ==
  ASSUME IInv, DInv, "second sync" \notin Faults, NEW x \in Streams, NEW s \in Slots,
         SyncRefused(x, s)
  PROVE  DInv'
<1> DEFINE f == surf[x][s].fd
<1>1. /\ TypeOK /\ wait[x].slot # s
      /\ fds' = ClosedFds(f) /\ kern' = ClosedKern(f)
      /\ surf' = [surf EXCEPT ![x][s].fd = NoFd]
      /\ wait' = wait
  BY DEF SyncRefused, IInv
<1> HIDE DEF f
<1>5. NoFd \in Fds \cup {NoFd} /\ Renamed(x, s, NoFd)
  BY <1>1 DEF Renamed
<1>2. /\ surf'[x][s].fd = NoFd
      /\ \A y \in Streams : y # x => surf'[y] = surf[y]
      /\ \A t \in Slots : t # s => surf'[x][t] = surf[x][t]
  BY <1>1, <1>5, NewName
<1>3. \A y \in Streams : \E h \in Queues : h.out = kern[y].out /\ kern'[y] = Forget(h, f)
  BY <1>1, StreamFields DEF ClosedKern
<1>4. \A y \in Streams : wait'[y] = wait[y] /\ ~(y = x /\ wait[y].slot = s)
  BY <1>1
<1> QED BY <1>1, <1>2, <1>3, <1>4, ClosedNames DEF f

LEMMA DestroySurfaceNames ==
  ASSUME IInv, DInv, NEW x \in Streams, NEW s \in Slots, DestroySurface(x, s)
  PROVE  DInv'
<1> DEFINE f == surf[x][s].fd
<1>1. /\ TypeOK /\ wait[x].slot # s /\ wait' = wait
      /\ \A y \in Streams : y # x => surf'[y] = surf[y]
      /\ \A u \in Slots : u # s => surf'[x][u] = surf[x][u]
      /\ surf'[x][s] = FreshSurface
      /\ kern' = ClosedKern(f) /\ fds' = ClosedFds(f)
  BY DestroySurfaceFacts DEF IInv
<1>2. surf'[x][s].fd = NoFd
  BY <1>1 DEF FreshSurface
<1>3. \A y \in Streams : \E h \in Queues : h.out = kern[y].out /\ kern'[y] = Forget(h, f)
  BY <1>1, StreamFields DEF ClosedKern
<1>4. \A y \in Streams : wait'[y] = wait[y] /\ ~(y = x /\ wait[y].slot = s)
  BY <1>1
<1> QED BY <1>1, <1>2, <1>3, <1>4, ClosedNames

LEMMA DestroyContextNames ==
  ASSUME IInv, DInv, NEW x \in Streams, DestroyContext(x)
  PROVE  DInv'
<1> DEFINE o == kern[x].out
           C == {j.fd : j \in Elements(o)}
<1>1. TypeOK /\ Jobs /\ Names
  BY DEF IInv, DInv
<1>2. /\ wait' = wait
      /\ \A y \in Streams : y # x => surf'[y] = surf[y]
      /\ \A s \in Slots : surf'[x][s].fd = surf[x][s].fd
      /\ \A y \in Streams : y # x => kern'[y] = kern[y]
      /\ kern'[x] = EmptyQueues
      /\ \A f \in Fds : fds'[f] = IF f \in C THEN "complete" ELSE fds[f]
  BY <1>1, DestroyContextFacts
<1>3. \A f \in C : \E n \in 1 .. Len(o) : f = o[n].fd
  BY DEF Elements
<1> HIDE DEF C
<1>4. \A f \in Fds \cap C : fds[f] = "queued"
  BY <1>1, <1>3, FdFacts DEF Jobs, JobsQueued
<1>5. Names'
  <2>1. \A f \in Fds : fds'[f] = "free" <=> fds[f] = "free"
    BY <1>2, <1>4
  <2>2. \A y \in Streams, t \in Slots : surf'[y][t].fd = surf[y][t].fd
    BY <1>2
  <2> QED BY <1>1, <1>2, <2>1, <2>2, WaitSlots, NamesKept
<1>6. \A y \in Streams : \A n \in 1 .. Len(kern'[y].out) : y # x /\ kern'[y] = kern[y]
  <2>1. kern'[x].out = << >> /\ Len(<< >>) = 0 /\ 1 .. 0 = {}
    BY <1>2, NoQueues
  <2> QED BY <1>2, <2>1
<1>7. JobsQueued'
  <2>1. SUFFICES ASSUME NEW y \in Streams, NEW n \in 1 .. Len(kern'[y].out),
                        kern'[y].out[n].fd # NoFd
                 PROVE  fds'[kern'[y].out[n].fd] = "queued"
    BY DEF JobsQueued
  <2>2. y # x /\ kern'[y] = kern[y] /\ n \in 1 .. Len(kern[y].out)
    BY <1>6
  <2>3. kern[y].out[n].fd \in Fds /\ fds[kern[y].out[n].fd] = "queued"
    BY <1>1, <2>1, <2>2, JobFds DEF Jobs, JobsQueued
  <2>4. kern[y].out[n].fd \notin C
    BY <1>1, <1>3, <2>1, <2>2 DEF Jobs, JobsDistinct
  <2> QED BY <1>2, <2>2, <2>3, <2>4
<1>8. JobsDistinct'
  <2>1. SUFFICES ASSUME NEW y \in Streams, NEW z \in Streams,
                        NEW n \in 1 .. Len(kern'[y].out), NEW m \in 1 .. Len(kern'[z].out),
                        kern'[y].out[n].fd # NoFd, kern'[y].out[n].fd = kern'[z].out[m].fd
                 PROVE  y = z /\ n = m
    BY DEF JobsDistinct
  <2>2. kern'[y] = kern[y] /\ kern'[z] = kern[z]
    BY <1>6
  <2> QED BY <1>1, <2>1, <2>2 DEF Jobs, JobsDistinct
<1> QED BY <1>5, <1>7, <1>8 DEF DInv, Jobs

LEMMA InitDInv ==
  ASSUME Init
  PROVE  DInv
<1>1. \A x \in Streams : kern[x].out = << >>
  BY NoQueues DEF Init
<1>2. Jobs
  <2>1. Len(<< >>) = 0 /\ 1 .. 0 = {}
    OBVIOUS
  <2> QED BY <1>1, <2>1 DEF Jobs, JobsQueued, JobsDistinct
<1>3. \A x \in Streams, s \in Slots : surf[x][s].fd = NoFd
  BY DEF Init, FreshSurface
<1>4. Names
  BY <1>3 DEF Names, NamesDistinct, NamesOpen, OpenNamed, WaitNamed, Init
<1> QED BY <1>2, <1>4 DEF DInv

LEMMA NextDInv ==
  ASSUME IInv, DInv, "second sync" \notin Faults, Next
  PROVE  DInv'
<1> PICK x \in Streams :
      \/ RenderPicture(x)
      \/ DestroyContext(x)
      \/ EndUnqueued(x) \/ EndHalfQueued(x) \/ EndQueued(x)
      \/ Hardware(x)
      \/ SyncDone(x) \/ SyncBroken(x) \/ SyncTimesOut(x)
      \/ \E s \in Slots : \/ BeginPicture(x, s)
                          \/ SyncRefused(x, s)
                          \/ DestroySurface(x, s)
  BY DEF Next
<1>1. CASE RenderPicture(x)
  BY <1>1, UntouchedNames DEF RenderPicture
<1>2. CASE DestroyContext(x)
  BY <1>2, DestroyContextNames
<1>3. CASE EndUnqueued(x)
  BY <1>3, EndUnqueuedNames
<1>4. CASE EndHalfQueued(x)
  BY <1>4, EndHalfQueuedNames
<1>5. CASE EndQueued(x)
  BY <1>5, EndQueuedNames
<1>6. CASE Hardware(x)
  BY <1>6, HardwareNames
<1>7. CASE SyncDone(x)
  BY <1>7, SyncDoneNames
<1>8. CASE SyncBroken(x) \/ SyncTimesOut(x)
  BY <1>8, SyncBrokenNames
<1>9. ASSUME NEW s \in Slots, BeginPicture(x, s) PROVE DInv'
  BY <1>9, BeginPictureNames
<1>10. ASSUME NEW s \in Slots, SyncRefused(x, s) PROVE DInv'
  BY <1>10, SyncRefusedNames
<1>11. ASSUME NEW s \in Slots, DestroySurface(x, s) PROVE DInv'
  BY <1>11, DestroySurfaceNames
<1> QED BY <1>1, <1>2, <1>3, <1>4, <1>5, <1>6, <1>7, <1>8, <1>9, <1>10, <1>11

\* What may fail is fixed: every behaviour in which no surface is synced while
\* another call waits for it keeps the descriptors named.
THEOREM DescriptorInvariant ==
  ASSUME "second sync" \notin Faults
  PROVE  Spec => [](IInv /\ DInv)
<1>1. Init => IInv /\ DInv
  BY InitIInv, InitDInv
<1>2. IInv /\ DInv /\ [Next]_vars => (IInv /\ DInv)'
  <2>1. SUFFICES ASSUME IInv, DInv, [Next]_vars PROVE IInv' /\ DInv'
    OBVIOUS
  <2>2. CASE Next
    BY <2>1, <2>2, NextIInv, NextDInv
  <2>3. CASE UNCHANGED vars
    BY <2>1, <2>3, StutterIInv, UntouchedNames DEF vars
  <2> QED BY <2>1, <2>2, <2>3
<1> QED BY <1>1, <1>2, PTL DEF Spec

LEMMA OneNames ==
  ASSUME DInv, NEW f \in Fds,
         NEW a \in Streams, NEW p \in Slots, surf[a][p].fd = f,
         NEW b \in Streams, NEW q \in Slots, surf[b][q].fd = f
  PROVE  b = a /\ q = p
<1>1. NamesDistinct /\ f # NoFd
  BY FdFacts DEF DInv, Names
<1>2. surf[b][q].fd # NoFd /\ surf[b][q].fd = surf[a][p].fd
  BY <1>1
<1>3. \A x, y \in Streams, s, t \in Slots :
        surf[x][s].fd # NoFd /\ surf[x][s].fd = surf[y][t].fd => x = y /\ s = t
  BY <1>1 DEF NamesDistinct
<1>4. \A y \in Streams, t \in Slots :
        surf[b][q].fd # NoFd /\ surf[b][q].fd = surf[y][t].fd => b = y /\ q = t
  BY <1>3
<1> QED BY <1>2, <1>4

\* RequestSyncSurface, RequestDestroySurfaces, RequestEndPicture: every request
\* descriptor that is open has one surface that names it and will close it, and no
\* surface names one that is closed, unless two threads sync one surface.
THEOREM DescriptorsStayOwned ==
  ASSUME "second sync" \notin Faults
  PROVE  Spec => []DescriptorsOwned
<1>1. ASSUME DInv PROVE DescriptorsOwned
  <2> DEFINE owners(f) == {o \in Streams \X Slots : surf[o[1]][o[2]].fd = f}
  <2>1. ASSUME NEW f \in Fds, fds[f] = "free" PROVE owners(f) = {}
    <3>1. \A x \in Streams, s \in Slots : surf[x][s].fd # f
      BY <1>1, <2>1, FdFacts DEF DInv, Names, NamesOpen
    <3> QED BY <3>1
  <2>2. ASSUME NEW f \in Fds, fds[f] # "free"
        PROVE  \E o \in Streams \X Slots : owners(f) = {o}
    <3>1. PICK x \in Streams, s \in Slots : surf[x][s].fd = f
      BY <1>1, <2>2 DEF DInv, Names, OpenNamed
    <3>2. \A y \in Streams, t \in Slots : surf[y][t].fd = f => y = x /\ t = s
      BY <1>1, <3>1, OneNames
    <3>3. ASSUME NEW o \in owners(f) PROVE o = <<x, s>>
      <4>1. o \in Streams \X Slots /\ surf[o[1]][o[2]].fd = f
        OBVIOUS
      <4>4. o \in Streams \X Slots
        BY <4>1
      <4>2. PICK y \in Streams, t \in Slots : o = <<y, t>>
        BY ONLY <4>4
      <4>3. surf[y][t].fd = f
        BY <4>1, <4>2
      <4> QED BY <3>2, <4>2, <4>3
    <3>4. <<x, s>> \in owners(f)
      BY <3>1
    <3>5. owners(f) = {<<x, s>>}
      BY ONLY <3>3, <3>4
    <3> QED BY <3>4, <3>5
  <2> QED BY <2>1, <2>2 DEF DescriptorsOwned
<1>2. IInv /\ DInv => DescriptorsOwned
  BY <1>1
<1> QED BY <1>2, DescriptorInvariant, PTL

-----------------------------------------------------------------------------
(* The pictures, while nothing fails.                                      *)

\* A sync waits for a number that no other surface has.
LEMMA WaitsApart ==
  ASSUME IInv, DInv, NEW y \in Streams, wait[y] # NoWait,
         NEW x \in Streams, NEW s \in Slots, ~(y = x /\ wait[y].slot = s)
  PROVE  surf[x][s].fd # wait[y].fd
<1>1. wait[y].slot \in Slots /\ wait[y].fd \in Fds
  BY WaitFacts
<1>2. surf[y][wait[y].slot].fd = wait[y].fd /\ wait[y].fd # NoFd
  BY <1>1, FdFacts DEF DInv, Names, WaitNamed
<1> QED BY <1>1, <1>2 DEF DInv, Names, NamesDistinct

\* A stream whose queues, waiting call and its request are left alone.
LEMMA PictureKept ==
  ASSUME NEW y \in Streams, OnePicture(y),
         wait'[y] = wait[y], kern'[y] = kern[y],
         wait[y] # NoWait =>
           LET t == surf[y][wait[y].slot] IN
           /\ surf'[y][wait[y].slot].src = t.src /\ surf'[y][wait[y].slot].dst = t.dst
           /\ coded[y][t.src] = wait[y].slot => coded'[y][t.src] = coded[y][t.src]
           /\ mem[y][t.dst] = wait[y].slot => mem'[y][t.dst] = mem[y][t.dst]
           /\ fds'[wait[y].fd] = fds[wait[y].fd]
  PROVE  OnePicture(y)'
<1>1. CASE wait[y] = NoWait
  BY <1>1 DEF OnePicture, NoWait, EmptyQueues
<1>2. CASE wait[y] # NoWait
  <2>1. CASE Submitted(y)
    <3>1. Submitted(y)'
      BY <1>2, <2>1 DEF Submitted
    <3>2. (wait[y] # NoWait)'
      BY <1>2 DEF NoWait
    <3> QED BY <3>1, <3>2 DEF OnePicture
  <2>2. CASE Decoded(y)
    <3>1. Decoded(y)'
      BY <1>2, <2>2 DEF Decoded
    <3>2. (wait[y] # NoWait)'
      BY <1>2 DEF NoWait
    <3> QED BY <3>1, <3>2 DEF OnePicture
  <2> QED BY <1>2, <2>1, <2>2 DEF OnePicture
<1> QED BY <1>1, <1>2

\* What is shown was shown before, in the same buffer.
LEMMA ShowsKept ==
  ASSUME NEW y \in Streams, ShowsOwn(y),
         \A s \in Slots : Shown(y, s)' =>
           /\ Shown(y, s) /\ surf'[y][s].dst = surf[y][s].dst
           /\ mem[y][surf[y][s].dst] = s => mem'[y][surf[y][s].dst] = s
  PROVE  ShowsOwn(y)'
BY DEF ShowsOwn

\* A stream none of whose state is touched, but for closed descriptors.
LEMMA StreamShows ==
  ASSUME NEW y \in Streams, OnePicture(y), ShowsOwn(y),
         surf'[y] = surf[y], wait'[y] = wait[y], kern'[y] = kern[y],
         coded'[y] = coded[y], mem'[y] = mem[y],
         wait[y] # NoWait => fds'[wait[y].fd] = fds[wait[y].fd]
  PROVE  OnePicture(y)' /\ ShowsOwn(y)'
<1>1. OnePicture(y)'
  BY PictureKept
<1>2. \A s \in Slots : Shown(y, s)' <=> Shown(y, s)
  BY DEF Shown
<1>3. ShowsOwn(y)'
  BY <1>2, ShowsKept
<1> QED BY <1>1, <1>3

\* The elements of the queues of one picture.
LEMMA ElementsOfOne ==
  Elements(<< >>) = {} /\ \A i : Elements(<<i>>) = {i}
<1>1. Len(<< >>) = 0 /\ 1 .. 0 = {}
  OBVIOUS
<1>2. ASSUME NEW i PROVE Elements(<<i>>) = {i}
  <2>1. Len(<<i>>) = 1 /\ <<i>>[1] = i
    OBVIOUS
  <2>2. 1 .. 1 = {1}
    OBVIOUS
  <2> QED BY <2>1, <2>2 DEF Elements
<1> QED BY <1>1, <1>2 DEF Elements

\* The state of the request of a call that waits.
LEMMA WaitStates ==
  ASSUME EInv, NEW y \in Streams, wait[y] # NoWait
  PROVE  fds[wait[y].fd] \in {"queued", "complete"}
BY DEF EInv, OnePicture, Submitted, Decoded

LEMMA BeginPictureShows ==
  ASSUME IInv, EInv, NEW x \in Streams, NEW s \in Slots, BeginPicture(x, s)
  PROVE  EInv'
<1>1. /\ TypeOK /\ OnePicture(x) /\ ShowsOwn(x) /\ wait[x] = NoWait
      /\ UNCHANGED <<wait, fds, kern>>
      /\ surf \in [Streams -> [Slots -> Surface]] /\ surf[x] \in [Slots -> Surface]
  BY DEF IInv, TypeOK, EInv, BeginPicture
<1>2. OnePicture(x)'
  BY <1>1, PictureKept
<1>3. CASE surf[x][s].dst = Unassigned /\ Exhausted(pool[x].cap)
  <2> DEFINE i == BoundIndex(surf[x][s].src, pool[x].out)
             n == [surf[x][s] EXCEPT !.src = i]
  <2>1. /\ surf' = [surf EXCEPT ![x] = [surf[x] EXCEPT ![s] = n]]
        /\ UNCHANGED <<coded, mem>>
    BY <1>1, <1>3 DEF BeginPicture
  <2> HIDE DEF i
  <2>2. n.dst = Unassigned
    BY <1>1, <1>3 DEF Surface
  <2> HIDE DEF n
  <2>3. /\ surf'[x][s] = n /\ \A u \in Slots : u # s => surf'[x][u] = surf[x][u]
        /\ \A y \in Streams : y # x => surf'[y] = surf[y]
    BY <1>1, <2>1
  <2>4. ShowsOwn(x)'
    <3>1. ASSUME NEW u \in Slots, Shown(x, u)'
          PROVE  Shown(x, u) /\ surf'[x][u].dst = surf[x][u].dst
      <4>1. u # s
        BY <2>2, <2>3, <3>1 DEF Shown, Unassigned
      <4> QED BY <2>3, <3>1, <4>1 DEF Shown, Unassigned
    <3> QED BY <1>1, <2>1, <3>1, ShowsKept
  <2>5. ASSUME NEW y \in Streams, y # x PROVE OnePicture(y)' /\ ShowsOwn(y)'
    BY <1>1, <2>1, <2>3, <2>5, StreamShows DEF EInv
  <2> QED BY <1>2, <2>4, <2>5 DEF EInv
<1>4. CASE ~(surf[x][s].dst = Unassigned /\ Exhausted(pool[x].cap))
  <2> DEFINE n == [status |-> "Rendering", src |-> BoundIndex(surf[x][s].src, pool[x].out),
                   dst |-> BoundIndex(surf[x][s].dst, pool[x].cap), fd |-> surf[x][s].fd]
  <2>1. /\ surf' = [surf EXCEPT ![x] = [surf[x] EXCEPT ![s] = n]]
        /\ coded' = [coded EXCEPT ![x] = Aged(@, s)]
        /\ mem' = [mem EXCEPT ![x] = Aged(@, s)]
    BY <1>1, <1>4 DEF BeginPicture
  <2>2. n.status = "Rendering"
    OBVIOUS
  <2> HIDE DEF n
  <2>3. /\ surf'[x][s] = n /\ \A u \in Slots : u # s => surf'[x][u] = surf[x][u]
        /\ \A y \in Streams : y # x => surf'[y] = surf[y]
    BY <1>1, <2>1
  <2>4. /\ \A i \in Index : mem[x][i] # s => mem'[x][i] = mem[x][i]
        /\ \A y \in Streams : y # x => coded'[y] = coded[y] /\ mem'[y] = mem[y]
    <3>1. mem[x] \in [Index -> Picture]
      BY <1>1, StreamFields
    <3>2. \A i \in Index : mem[x][i] # s => Aged(mem[x], s)[i] = mem[x][i]
      BY <3>1, AgedFacts
    <3> QED BY <1>1, <2>1, <3>2 DEF TypeOK
  <2>5. ShowsOwn(x)'
    <3>1. ASSUME NEW u \in Slots, Shown(x, u)'
          PROVE  /\ Shown(x, u) /\ surf'[x][u].dst = surf[x][u].dst
                 /\ mem[x][surf[x][u].dst] = u => mem'[x][surf[x][u].dst] = u
      <4>1. u # s
        BY <2>2, <2>3, <3>1 DEF Shown
      <4>2. Shown(x, u) /\ surf'[x][u].dst = surf[x][u].dst
        BY <2>3, <3>1, <4>1 DEF Shown, Unassigned
      <4>3. surf[x][u].dst \in Index
        BY <1>1, <4>2, SlotFields DEF Shown
      <4> QED BY <2>4, <4>1, <4>2, <4>3
    <3> QED BY <1>1, <3>1, ShowsKept
  <2>6. ASSUME NEW y \in Streams, y # x PROVE OnePicture(y)' /\ ShowsOwn(y)'
    BY <1>1, <2>3, <2>4, <2>6, StreamShows DEF EInv
  <2> QED BY <1>2, <2>5, <2>6 DEF EInv
<1> QED BY <1>3, <1>4

LEMMA RenderPictureShows ==
  ASSUME IInv, EInv, NEW x \in Streams, RenderPicture(x)
  PROVE  EInv'
<1>1. /\ coded \in [Streams -> [Index -> Picture]] /\ wait[x] = NoWait
      /\ coded' = [coded EXCEPT ![x][surf[x][open[x]].src] = open[x]]
      /\ UNCHANGED <<surf, wait, fds, kern, mem>>
  BY DEF IInv, TypeOK, RenderPicture
<1>2. OnePicture(x)'
  BY <1>1, PictureKept DEF EInv
<1>3. \A s \in Slots : Shown(x, s)' <=> Shown(x, s)
  BY <1>1 DEF Shown
<1>4. ShowsOwn(x)'
  BY <1>1, <1>3, ShowsKept DEF EInv
<1>5. ASSUME NEW y \in Streams, y # x PROVE OnePicture(y)' /\ ShowsOwn(y)'
  <2>1. coded'[y] = coded[y]
    BY <1>1, <1>5
  <2> QED BY <1>1, <2>1, StreamShows DEF EInv
<1> QED BY <1>2, <1>4, <1>5 DEF EInv

LEMMA DestroyContextShows ==
  ASSUME IInv, EInv, NEW x \in Streams, DestroyContext(x)
  PROVE  EInv'
<1>1. /\ wait[x] = NoWait /\ UNCHANGED wait
      /\ \A y \in Streams : y # x => surf'[y] = surf[y]
      /\ \A s \in Slots : surf'[x][s].dst = Unassigned
      /\ \A y \in Streams : y # x => kern'[y] = kern[y]
      /\ kern'[x] = EmptyQueues
      /\ \A f \in Fds : fds'[f] = IF f \in {j.fd : j \in Elements(kern[x].out)}
                                  THEN "complete" ELSE fds[f]
      /\ \A y \in Streams : y # x => coded'[y] = coded[y] /\ mem'[y] = mem[y]
  BY DestroyContextFacts DEF IInv
<1>2. \A f \in Fds : fds'[f] = fds[f]
  <2>1. kern[x].out = << >> /\ Len(<< >>) = 0 /\ 1 .. 0 = {}
    BY <1>1, NoQueues DEF EInv, OnePicture
  <2>2. Elements(kern[x].out) = {}
    BY <2>1 DEF Elements
  <2> QED BY <1>1, <2>2
<1>3. OnePicture(x)'
  BY <1>1 DEF OnePicture, NoWait, EmptyQueues
<1>4. ShowsOwn(x)'
  <2>1. \A s \in Slots : ~Shown(x, s)'
    BY <1>1 DEF Shown, Unassigned
  <2> QED BY <2>1 DEF ShowsOwn
<1>5. ASSUME NEW y \in Streams, y # x PROVE OnePicture(y)' /\ ShowsOwn(y)'
  <2>1. wait[y] # NoWait => fds'[wait[y].fd] = fds[wait[y].fd]
    BY <1>2, WaitFacts
  <2>2. /\ surf'[y] = surf[y] /\ wait'[y] = wait[y] /\ kern'[y] = kern[y]
        /\ coded'[y] = coded[y] /\ mem'[y] = mem[y]
    BY <1>1, <1>5
  <2> QED BY <2>1, <2>2, StreamShows DEF EInv
<1> QED BY <1>3, <1>4, <1>5 DEF EInv

\* The requests other calls wait for, while one is found or made.
LEMMA IdleIsNobodys ==
  ASSUME IInv, EInv, NEW x \in Streams, NEW s \in Slots, IdleRequest(x, s),
         NEW state \in {"idle", "queued"}, WithRequest(x, s, state)
  PROVE  \A y \in Streams : wait[y] # NoWait => fds'[wait[y].fd] = fds[wait[y].fd]
<1>1. /\ TypeOK /\ fds[RequestFd(x, s)] \in {"free", "idle"}
  BY DEF IInv, IdleRequest
<1>2. \A f \in Fds : fds'[f] = IF f = RequestFd(x, s) THEN state ELSE fds[f]
  BY <1>1, WithRequestFacts
<1>3. \A y \in Streams : wait[y] # NoWait =>
        wait[y].fd \in Fds /\ wait[y].fd # RequestFd(x, s)
  BY <1>1, WaitStates, WaitFacts
<1> QED BY <1>2, <1>3

LEMMA EndUnqueuedShows ==
  ASSUME IInv, EInv, NEW x \in Streams, EndUnqueued(x)
  PROVE  EInv'
<1> DEFINE s == open[x]
<1>1. /\ TypeOK /\ s \in Slots /\ wait[x] = NoWait
      /\ UNCHANGED <<wait, kern, coded, mem>>
  BY EndingFacts DEF EndUnqueued, IInv
<1>2. \/ UNCHANGED <<surf, fds>>
      \/ IdleRequest(x, s) /\ WithRequest(x, s, "idle")
  BY DEF EndUnqueued
<1>3. \A y \in Streams : wait[y] # NoWait => fds'[wait[y].fd] = fds[wait[y].fd]
  BY <1>1, <1>2, IdleIsNobodys
<1>4. /\ \A y \in Streams : y # x => surf'[y] = surf[y]
      /\ \A t \in Slots : /\ surf'[x][t].status = surf[x][t].status
                          /\ surf'[x][t].dst = surf[x][t].dst
  <2>1. CASE UNCHANGED <<surf, fds>>
    BY <2>1
  <2>2. CASE IdleRequest(x, s) /\ WithRequest(x, s, "idle")
    <3>1. /\ RequestFd(x, s) \in Fds /\ TypeOK /\ s \in Slots
          /\ surf' = [surf EXCEPT ![x][s].fd = RequestFd(x, s)]
      BY <1>1, <2>2, WithRequestFacts
    <3> HIDE DEF s
    <3> QED BY <3>1, NewFd
  <2> QED BY <1>2, <2>1, <2>2
<1>5. OnePicture(x)'
  BY <1>1, PictureKept DEF EInv
<1>6. ShowsOwn(x)'
  <2>1. \A t \in Slots : Shown(x, t)' => Shown(x, t) /\ surf'[x][t].dst = surf[x][t].dst
    BY <1>4 DEF Shown, Unassigned
  <2> QED BY <1>1, <2>1, ShowsKept DEF EInv
<1>7. ASSUME NEW y \in Streams, y # x PROVE OnePicture(y)' /\ ShowsOwn(y)'
  BY <1>1, <1>3, <1>4, <1>7, StreamShows DEF EInv
<1> QED BY <1>5, <1>6, <1>7 DEF EInv

\* With empty queues and no refusal the second buffer follows the first.
LEMMA NoHalfQueued ==
  ASSUME IInv, EInv, Faults = {}, NEW x \in Streams
  PROVE  ~EndHalfQueued(x)
<1>1. SUFFICES ASSUME EndHalfQueued(x) PROVE FALSE
  OBVIOUS
<1>2. wait[x] = NoWait /\ kern[x] = EmptyQueues
  BY <1>1 DEF EndHalfQueued, Ending, EInv, OnePicture
<1>3. /\ kern[x].out = << >> /\ kern[x].outDone = << >> /\ Len(<< >>) = 0 /\ 1 .. 0 = {}
  BY <1>2, NoQueues
<1>4. ~OutBusy(x, surf[x][open[x]].src)
  BY <1>3 DEF OutBusy, Elements
<1> QED BY <1>1, <1>4 DEF EndHalfQueued

LEMMA EndQueuedShows ==
  ASSUME IInv, EInv, NEW x \in Streams, EndQueued(x)
  PROVE  EInv'
<1> DEFINE s == open[x]
           f == RequestFd(x, s)
           job == [buf |-> surf[x][s].src, fd |-> f]
<1>1. /\ TypeOK /\ IdleRequest(x, s) /\ WithRequest(x, s, "queued")
  BY DEF IInv, EndQueued
<1>2. /\ s \in Slots /\ f \in Fds
      /\ surf' = [surf EXCEPT ![x][s].fd = f]
      /\ \A g \in Fds : fds'[g] = IF g = f THEN "queued" ELSE fds[g]
      /\ kern' \in [Streams -> Queues]
      /\ \A y \in Streams : y # x => kern'[y] = kern[y]
      /\ wait' = [wait EXCEPT ![x] = [slot |-> s, fd |-> f]]
      /\ wait'[x] = [slot |-> s, fd |-> f]
      /\ UNCHANGED <<coded, mem>>
  BY EndQueuedFacts
<1>3. /\ kern'[x].out = Append(kern[x].out, job)
      /\ kern'[x].cap = Append(kern[x].cap, surf[x][s].dst)
      /\ kern'[x].outDone = kern[x].outDone /\ kern'[x].capDone = kern[x].capDone
  BY EndQueuedFacts
<1>4. wait[x] = NoWait /\ coded[x][surf[x][s].src] = s
  BY EndingFacts DEF EndQueued
<1>5. kern'[x] = [out |-> <<job>>, cap |-> <<surf[x][s].dst>>, outDone |-> << >>, capDone |-> << >>]
  <2>1. kern[x] = EmptyQueues
    BY <1>4 DEF EInv, OnePicture
  <2>2. /\ kern[x].out = << >> /\ kern[x].cap = << >>
        /\ kern[x].outDone = << >> /\ kern[x].capDone = << >>
    BY <2>1, NoQueues
  <2>3. Append(<< >>, job) = <<job>> /\ Append(<< >>, surf[x][s].dst) = <<surf[x][s].dst>>
    OBVIOUS
  <2>4. kern'[x] \in Queues
    BY <1>2
  <2>5. /\ kern'[x].out = <<job>> /\ kern'[x].cap = <<surf[x][s].dst>>
        /\ kern'[x].outDone = << >> /\ kern'[x].capDone = << >>
    BY <1>3, <2>2, <2>3
  <2> HIDE DEF job, s
  <2>6. kern'[x] = [out |-> kern'[x].out, cap |-> kern'[x].cap,
                    outDone |-> kern'[x].outDone, capDone |-> kern'[x].capDone]
    BY <2>4 DEF Queues
  <2> QED BY <2>5, <2>6
<1>6. /\ \A y \in Streams : y # x => surf'[y] = surf[y]
      /\ \A t \in Slots : /\ surf'[x][t].status = surf[x][t].status
                          /\ surf'[x][t].src = surf[x][t].src
                          /\ surf'[x][t].dst = surf[x][t].dst
  <2>1. s \in Slots /\ f \in Fds /\ surf' = [surf EXCEPT ![x][s].fd = f]
    BY <1>2
  <2> HIDE DEF s, f
  <2> QED BY <1>1, <2>1, NewFd
<1>7. OnePicture(x)'
  <2>1. wait'[x].slot = s /\ wait'[x].fd = f /\ wait'[x] # NoWait
    BY <1>2, NameFacts DEF NoWait
  <2>2. fds'[f] = "queued"
    BY <1>2
  <2>3. Submitted(x)'
    BY <1>2, <1>4, <1>5, <1>6, <2>1, <2>2 DEF Submitted
  <2>4. (wait[x] # NoWait)'
    BY <2>1 DEF NoWait
  <2> QED BY <2>3, <2>4 DEF OnePicture
<1>8. ShowsOwn(x)'
  <2>1. \A t \in Slots : Shown(x, t)' => Shown(x, t) /\ surf'[x][t].dst = surf[x][t].dst
    BY <1>6 DEF Shown, Unassigned
  <2> QED BY <1>2, <2>1, ShowsKept DEF EInv
<1>9. ASSUME NEW y \in Streams, y # x PROVE OnePicture(y)' /\ ShowsOwn(y)'
  <2>1. wait'[y] = wait[y]
    BY <1>1, <1>2, <1>9 DEF TypeOK
  <2>2. wait[y] # NoWait => fds'[wait[y].fd] = fds[wait[y].fd]
    BY <1>1, <1>2, IdleIsNobodys
  <2> QED BY <1>2, <1>6, <1>9, <2>1, <2>2, StreamShows DEF EInv
<1> QED BY <1>7, <1>8, <1>9 DEF EInv

\* The device has nothing to do unless a call waits for the one picture.
LEMMA OnlySubmitted ==
  ASSUME IInv, EInv, NEW x \in Streams, kern[x].out # << >>
  PROVE  wait[x] # NoWait /\ Submitted(x)
<1>1. OnePicture(x)
  BY DEF EInv
<1>2. kern[x] # EmptyQueues
  BY NoQueues
<1>3. ~Decoded(x)
  BY DEF Decoded
<1> QED BY <1>1, <1>2, <1>3 DEF OnePicture

\* The records that decode rewrites.
LEMMA OneJob ==
  ASSUME NEW x \in Streams, Submitted(x)
  PROVE  LET t == surf[x][wait[x].slot] IN
         /\ Head(kern[x].out).buf = t.src /\ Head(kern[x].out).fd = wait[x].fd
         /\ Tail(kern[x].out) = << >>
         /\ Head(kern[x].cap) = t.dst /\ Tail(kern[x].cap) = << >>
         /\ kern[x].outDone = << >> /\ kern[x].capDone = << >>
         /\ fds[wait[x].fd] = "queued"
         /\ coded[x][t.src] = wait[x].slot
BY DEF Submitted

LEMMA HardwareShows ==
  ASSUME IInv, DInv, EInv, "corrupt" \notin Faults, NEW x \in Streams, Hardware(x)
  PROVE  EInv'
<1> DEFINE s == wait[x].slot
           b == surf[x][s].src
           c == surf[x][s].dst
           f == wait[x].fd
<1>1. TypeOK /\ IndicesOwned(x)
  BY DEF IInv, StreamOK
<1>2. wait[x] # NoWait /\ Submitted(x)
  BY <1>1, HardwareFacts, OnlySubmitted
<1>3. /\ s \in Slots /\ f \in Fds /\ b \in Index /\ c \in Index
      /\ surf[x][s].status = "Rendering"
  BY <1>2, WaitFacts
<1>4. /\ Head(kern[x].out).buf = b /\ Head(kern[x].out).fd = f
      /\ Tail(kern[x].out) = << >>
      /\ Head(kern[x].cap) = c /\ Tail(kern[x].cap) = << >>
      /\ kern[x].outDone = << >> /\ kern[x].capDone = << >>
      /\ coded[x][b] = s
  BY <1>2, OneJob
<1>5. /\ \A y \in Streams : y # x => kern'[y] = kern[y]
      /\ kern'[x] = [out |-> << >>, cap |-> << >>, outDone |-> <<b>>, capDone |-> <<c>>]
      /\ \A g \in Fds : fds'[g] = IF g = f THEN "complete" ELSE fds[g]
      /\ UNCHANGED <<surf, pool, open, wait, coded>>
  <2>1. Append(<< >>, b) = <<b>> /\ Append(<< >>, c) = <<c>>
    OBVIOUS
  <2>2. kern'[x] = [out |-> Tail(kern[x].out), cap |-> Tail(kern[x].cap),
                    outDone |-> Append(kern[x].outDone, Head(kern[x].out).buf),
                    capDone |-> Append(kern[x].capDone, Head(kern[x].cap))]
    BY <1>1, HardwareFacts
  <2>3. kern'[x] = [out |-> << >>, cap |-> << >>, outDone |-> <<b>>, capDone |-> <<c>>]
    BY <1>4, <2>1, <2>2
  <2>4. \A g \in Fds : fds'[g] = IF g = Head(kern[x].out).fd THEN "complete" ELSE fds[g]
    BY <1>1, HardwareFacts
  <2>5. /\ \A y \in Streams : y # x => kern'[y] = kern[y]
        /\ UNCHANGED <<surf, pool, open, wait, coded>>
    BY <1>1, HardwareFacts
  <2> QED BY <1>4, <2>3, <2>4, <2>5
<1>6. /\ mem'[x][c] = s
      /\ \A i \in Index : i # c => mem'[x][i] = mem[x][i]
      /\ \A y \in Streams : y # x => mem'[y] = mem[y]
  <2>1. mem' = [mem EXCEPT ![x][Head(kern[x].cap)] = coded[x][Head(kern[x].out).buf]]
    BY DEF Hardware
  <2>2. mem' = [mem EXCEPT ![x][c] = s]
    BY <1>4, <2>1
  <2>3. mem \in [Streams -> [Index -> Picture]]
    BY <1>1 DEF TypeOK
  <2> HIDE DEF c, s
  <2> QED BY <1>3, <2>2, <2>3
<1>7. OnePicture(x)'
  <2>1. Decoded(x)'
    BY <1>3, <1>5, <1>6 DEF Decoded
  <2>2. (wait[x] # NoWait)'
    BY <1>2, <1>5 DEF NoWait
  <2> QED BY <2>1, <2>2 DEF OnePicture
<1>8. ShowsOwn(x)'
  <2>1. ASSUME NEW u \in Slots, Shown(x, u)'
        PROVE  /\ Shown(x, u) /\ surf'[x][u].dst = surf[x][u].dst
               /\ mem[x][surf[x][u].dst] = u => mem'[x][surf[x][u].dst] = u
    <3>1. Shown(x, u) /\ surf'[x][u].dst = surf[x][u].dst
      BY <1>5, <2>1 DEF Shown
    <3>2. surf[x][u].dst \in Index /\ u # s /\ surf[x][u].dst # Unassigned
      BY <1>1, <1>3, <3>1, SlotFields DEF Shown
    <3>3. surf[x][u].dst # c
      BY <1>1, <1>3, <3>2 DEF IndicesOwned
    <3> QED BY <1>6, <3>1, <3>2, <3>3
  <2> QED BY <2>1, ShowsKept DEF EInv
<1>9. ASSUME NEW y \in Streams, y # x PROVE OnePicture(y)' /\ ShowsOwn(y)'
  <2>1. wait[y] # NoWait => wait[y].fd \in Fds /\ wait[y].fd # f
    <3>1. surf[x][s].fd = f
      BY <1>2 DEF DInv, Names, WaitNamed
    <3> QED BY <1>3, <1>9, <3>1, WaitFacts, WaitsApart
  <2>2. wait[y] # NoWait => fds'[wait[y].fd] = fds[wait[y].fd]
    BY <1>5, <2>1
  <2>3. /\ surf'[y] = surf[y] /\ wait'[y] = wait[y] /\ kern'[y] = kern[y]
        /\ coded'[y] = coded[y] /\ mem'[y] = mem[y] /\ OnePicture(y) /\ ShowsOwn(y)
    BY <1>5, <1>6, <1>9 DEF EInv
  <2> QED BY <2>2, <2>3, StreamShows
<1> QED BY <1>7, <1>8, <1>9 DEF EInv

\* A completed wait is for a decoded picture.
LEMMA FinishedIsDecoded ==
  ASSUME EInv, NEW x \in Streams, wait[x] # NoWait, Finished(x)
  PROVE  Decoded(x)
<1>1. SUFFICES ASSUME Submitted(x) PROVE FALSE
  BY DEF EInv, OnePicture
<1>2. /\ Len(kern[x].out) = 1 /\ kern[x].out[1].buf = surf[x][wait[x].slot].src
  BY <1>1 DEF Submitted
<1> QED BY <1>2 DEF Finished

LEMMA SyncDoneShows ==
  ASSUME IInv, DInv, EInv, NEW x \in Streams, SyncDone(x)
  PROVE  EInv'
<1> DEFINE s == wait[x].slot
           b == surf[x][s].src
           c == surf[x][s].dst
           f == wait[x].fd
<1>1. /\ wait[x] # NoWait /\ Finished(x) /\ s \in Slots /\ f \in Fds
      /\ \A y \in Streams : y # x => surf'[y] = surf[y]
      /\ \A t \in Slots : t # s => surf'[x][t] = surf[x][t]
      /\ surf'[x][s] = [status |-> "Displaying", src |-> Unassigned,
                        dst |-> surf[x][s].dst, fd |-> surf[x][s].fd]
  BY SyncDoneFacts
<1>2. /\ \A y \in Streams : y # x => kern'[y] = kern[y]
      /\ kern'[x] = [out |-> kern[x].out, cap |-> kern[x].cap,
                     outDone |-> Tail(kern[x].outDone), capDone |-> Tail(kern[x].capDone)]
      /\ \A g \in Fds : fds'[g] = IF g = wait[x].fd THEN "idle" ELSE fds[g]
      /\ wait'[x] = NoWait
      /\ \A y \in Streams : y # x => wait'[y] = wait[y]
      /\ UNCHANGED <<coded, mem>>
  <2>1. /\ \A y \in Streams : y # x => kern'[y] = kern[y]
        /\ kern'[x] = [out |-> kern[x].out, cap |-> kern[x].cap,
                       outDone |-> Tail(kern[x].outDone), capDone |-> Tail(kern[x].capDone)]
    BY SyncDoneFacts
  <2>2. /\ \A g \in Fds : fds'[g] = IF g = wait[x].fd THEN "idle" ELSE fds[g]
        /\ UNCHANGED <<coded, mem>>
    BY SyncDoneFacts
  <2>3. /\ wait'[x] = NoWait
        /\ \A y \in Streams : y # x => open'[y] = open[y] /\ wait'[y] = wait[y]
    BY SyncDoneFacts
  <2> QED BY <2>1, <2>2, <2>3
<1>3. Decoded(x)
  BY <1>1, FinishedIsDecoded
<1>4. kern'[x] = EmptyQueues
  <2>1. /\ kern[x].out = << >> /\ kern[x].cap = << >>
        /\ kern[x].outDone = <<b>> /\ kern[x].capDone = <<c>>
    BY <1>3 DEF Decoded
  <2>2. Tail(<<b>>) = << >> /\ Tail(<<c>>) = << >>
    OBVIOUS
  <2> QED BY <1>2, <2>1, <2>2 DEF EmptyQueues
<1>5. OnePicture(x)'
  BY <1>2, <1>4 DEF OnePicture, NoWait, EmptyQueues
<1>6. ShowsOwn(x)'
  <2>1. ASSUME NEW u \in Slots, Shown(x, u)' PROVE mem'[x][surf'[x][u].dst] = u
    <3>1. CASE u = s
      BY <1>1, <1>2, <1>3, <3>1 DEF Decoded
    <3>2. CASE u # s
      BY <1>1, <1>2, <2>1, <3>2 DEF EInv, ShowsOwn, Shown, Unassigned
    <3> QED BY <3>1, <3>2
  <2> QED BY <2>1 DEF ShowsOwn
<1>7. ASSUME NEW y \in Streams, y # x PROVE OnePicture(y)' /\ ShowsOwn(y)'
  <2>1. wait[y] # NoWait => wait[y].fd \in Fds /\ wait[y].fd # f
    <3>1. surf[x][s].fd = f
      BY <1>1 DEF DInv, Names, WaitNamed
    <3> QED BY <1>1, <1>7, <3>1, WaitFacts, WaitsApart
  <2>2. wait[y] # NoWait => fds'[wait[y].fd] = fds[wait[y].fd]
    BY <1>2, <2>1
  <2>3. /\ surf'[y] = surf[y] /\ wait'[y] = wait[y] /\ kern'[y] = kern[y]
        /\ coded'[y] = coded[y] /\ mem'[y] = mem[y] /\ OnePicture(y) /\ ShowsOwn(y)
    BY <1>1, <1>2, <1>7 DEF EInv
  <2> QED BY <2>2, <2>3, StreamShows
<1> QED BY <1>5, <1>6, <1>7 DEF EInv

\* A completed wait finds its request and its buffers.
LEMMA NoSyncBroken ==
  ASSUME IInv, EInv, Faults = {}, NEW x \in Streams
  PROVE  ~SyncBroken(x) /\ ~SyncTimesOut(x)
<1>1. ~SyncTimesOut(x)
  BY DEF SyncTimesOut
<1>2. SUFFICES ASSUME SyncBroken(x) PROVE FALSE
  BY <1>1
<1>3. Decoded(x)
  BY <1>2, FinishedIsDecoded DEF SyncBroken
<1>4. Reinitialisable(wait[x].fd) /\ kern[x].outDone # << >> /\ kern[x].capDone # << >>
  BY <1>3 DEF Decoded, Reinitialisable
<1> QED BY <1>2, <1>4 DEF SyncBroken

\* A descriptor that no request has: its close changes no queue.
LEMMA ForgetNone ==
  ASSUME NEW k \in Queues, NEW f,
         \A n \in 1 .. Len(k.out) : f = NoFd \/ k.out[n].fd # f
  PROVE  Forget(k, f) = k
<1> DEFINE q == k.out
           r == [n \in 1 .. Len(q) |-> IF f # NoFd /\ q[n].fd = f
                                       THEN [q[n] EXCEPT !.fd = NoFd] ELSE q[n]]
<1>1. Forget(k, f) = [k EXCEPT !.out = r]
  BY DEF Forget
<1>2. q \in Seq(Job)
  BY DEF Queues
<1>3. \A n \in 1 .. Len(q) : r[n] = q[n]
  OBVIOUS
<1>4. r = q
  <2>1. DOMAIN r = 1 .. Len(q)
    OBVIOUS
  <2> HIDE DEF r, q
  <2>2. q \in [1 .. Len(q) -> Job]
    BY <1>2
  <2>3. r = [n \in 1 .. Len(q) |-> r[n]] /\ q = [n \in 1 .. Len(q) |-> q[n]]
    BY <2>1, <2>2 DEF r
  <2> QED BY <1>3, <2>3
<1> HIDE DEF r
<1>5. [k EXCEPT !.out = k.out] = k
  BY DEF Queues
<1> QED BY <1>1, <1>4, <1>5

\* Closing the request of a surface that nobody waits for disturbs nobody.
LEMMA CloseIsApart ==
  ASSUME IInv, DInv, EInv, NEW x \in Streams, NEW s \in Slots, wait[x].slot # s
  PROVE  \A y \in Streams :
           /\ Forget(kern[y], surf[x][s].fd) = kern[y]
           /\ wait[y] # NoWait => ClosedFds(surf[x][s].fd)[wait[y].fd] = fds[wait[y].fd]
<1> DEFINE f == surf[x][s].fd
<1>1. TypeOK /\ f \in Fds \cup {NoFd}
  BY SlotFields DEF IInv
<1>2. SUFFICES ASSUME NEW y \in Streams
               PROVE  /\ Forget(kern[y], f) = kern[y]
                      /\ wait[y] # NoWait => ClosedFds(f)[wait[y].fd] = fds[wait[y].fd]
  OBVIOUS
<1>3. wait[y] # NoWait => f # wait[y].fd /\ wait[y].fd \in Fds
  BY WaitsApart, WaitFacts
<1>4. \A n \in 1 .. Len(kern[y].out) : kern[y].out[n].fd # f
  <2>1. SUFFICES ASSUME NEW n \in 1 .. Len(kern[y].out) PROVE kern[y].out[n].fd # f
    OBVIOUS
  <2>2. kern[y].out # << >>
    BY <2>1
  <2>3. wait[y] # NoWait /\ Submitted(y)
    BY <2>2, OnlySubmitted
  <2>4. kern[y].out = <<[buf |-> surf[y][wait[y].slot].src, fd |-> wait[y].fd]>>
    BY <2>3 DEF Submitted
  <2>5. n = 1 /\ kern[y].out[n].fd = wait[y].fd
    BY <2>1, <2>4
  <2> QED BY <1>3, <2>3, <2>5
<1>5. kern[y] \in Queues
  BY <1>1, StreamFields
<1>6. \A g \in Fds : ClosedFds(f)[g] = IF g = f THEN "free" ELSE fds[g]
  BY <1>1, ClosedFdsFacts
<1> HIDE DEF f
<1> QED BY <1>3, <1>4, <1>5, <1>6, ForgetNone

LEMMA SyncRefusedShows ==
  ASSUME IInv, DInv, EInv, "second sync" \notin Faults, NEW x \in Streams, NEW s \in Slots,
         SyncRefused(x, s)
  PROVE  EInv'
<1>1. /\ TypeOK /\ wait[x].slot # s
      /\ fds' = ClosedFds(surf[x][s].fd) /\ kern' = ClosedKern(surf[x][s].fd)
      /\ surf' = [surf EXCEPT ![x][s].fd = NoFd]
      /\ UNCHANGED <<wait, coded, mem>>
  BY DEF SyncRefused, IInv
<1>2. NoFd \in Fds \cup {NoFd}
  OBVIOUS
<1>3. /\ \A y \in Streams : y # x => surf'[y] = surf[y]
      /\ \A t \in Slots : /\ surf'[x][t].status = surf[x][t].status
                          /\ surf'[x][t].src = surf[x][t].src
                          /\ surf'[x][t].dst = surf[x][t].dst
  BY <1>1, <1>2, NewFd
<1>4. \A y \in Streams : /\ kern'[y] = kern[y]
                         /\ wait[y] # NoWait => fds'[wait[y].fd] = fds[wait[y].fd]
  <2> SUFFICES ASSUME NEW y \in Streams
               PROVE  /\ kern'[y] = kern[y]
                      /\ wait[y] # NoWait => fds'[wait[y].fd] = fds[wait[y].fd]
    OBVIOUS
  <2>1. /\ Forget(kern[y], surf[x][s].fd) = kern[y]
        /\ wait[y] # NoWait => ClosedFds(surf[x][s].fd)[wait[y].fd] = fds[wait[y].fd]
    BY <1>1, CloseIsApart
  <2>2. kern'[y] = Forget(kern[y], surf[x][s].fd)
    BY <1>1 DEF ClosedKern
  <2> QED BY <1>1, <2>1, <2>2, ZenonT(60)
<1>5. OnePicture(x)'
  BY <1>1, <1>3, <1>4, WaitFacts, PictureKept DEF EInv
<1>6. ShowsOwn(x)'
  <2>1. \A t \in Slots : Shown(x, t)' => Shown(x, t) /\ surf'[x][t].dst = surf[x][t].dst
    BY <1>3 DEF Shown, Unassigned
  <2> QED BY <1>1, <2>1, ShowsKept DEF EInv
<1>7. ASSUME NEW y \in Streams, y # x PROVE OnePicture(y)' /\ ShowsOwn(y)'
  BY <1>1, <1>3, <1>4, <1>7, StreamShows DEF EInv
<1> QED BY <1>5, <1>6, <1>7 DEF EInv

LEMMA DestroySurfaceShows ==
  ASSUME IInv, DInv, EInv, NEW x \in Streams, NEW s \in Slots, DestroySurface(x, s)
  PROVE  EInv'
<1>1. /\ wait[x].slot # s /\ UNCHANGED wait
      /\ \A y \in Streams : y # x => surf'[y] = surf[y]
      /\ \A u \in Slots : u # s => surf'[x][u] = surf[x][u]
      /\ surf'[x][s] = FreshSurface
      /\ kern' = ClosedKern(surf[x][s].fd) /\ fds' = ClosedFds(surf[x][s].fd)
  BY DestroySurfaceFacts
<1>2. /\ \A y \in Streams : y # x => coded'[y] = coded[y]
      /\ \A i \in Index : /\ coded[x][i] # s => coded'[x][i] = coded[x][i]
                          /\ coded[x][i] = s => coded'[x][i] = "old"
  BY DestroySurfaceFacts
<1>3. /\ \A y \in Streams : y # x => mem'[y] = mem[y]
      /\ \A i \in Index : mem[x][i] # s => mem'[x][i] = mem[x][i]
  BY DestroySurfaceFacts
<1>4. \A y \in Streams : /\ kern'[y] = kern[y]
                         /\ wait[y] # NoWait => fds'[wait[y].fd] = fds[wait[y].fd]
  <2> SUFFICES ASSUME NEW y \in Streams
               PROVE  /\ kern'[y] = kern[y]
                      /\ wait[y] # NoWait => fds'[wait[y].fd] = fds[wait[y].fd]
    OBVIOUS
  <2>1. /\ Forget(kern[y], surf[x][s].fd) = kern[y]
        /\ wait[y] # NoWait => ClosedFds(surf[x][s].fd)[wait[y].fd] = fds[wait[y].fd]
    BY <1>1, CloseIsApart
  <2>2. kern'[y] = Forget(kern[y], surf[x][s].fd)
    BY <1>1, SMTT(40) DEF ClosedKern
  <2> QED BY <1>1, <2>1, <2>2, ZenonT(60)
<1>5. OnePicture(x)'
  <2>1. wait[x] # NoWait =>
          /\ wait[x].slot \in Slots /\ wait[x].slot # s
          /\ surf[x][wait[x].slot].src \in Index /\ surf[x][wait[x].slot].dst \in Index
    BY <1>1, WaitFacts
  <2>2. wait[x] # NoWait =>
          /\ surf'[x][wait[x].slot] = surf[x][wait[x].slot]
          /\ coded[x][surf[x][wait[x].slot].src] = wait[x].slot =>
               coded'[x][surf[x][wait[x].slot].src] = coded[x][surf[x][wait[x].slot].src]
          /\ mem[x][surf[x][wait[x].slot].dst] = wait[x].slot =>
               mem'[x][surf[x][wait[x].slot].dst] = mem[x][surf[x][wait[x].slot].dst]
    BY <1>1, <1>2, <1>3, <2>1
  <2> QED BY <1>1, <1>4, <2>2, PictureKept DEF EInv
<1>6. ShowsOwn(x)'
  <2>1. ASSUME NEW u \in Slots, Shown(x, u)'
        PROVE  /\ Shown(x, u) /\ surf'[x][u].dst = surf[x][u].dst
               /\ mem[x][surf[x][u].dst] = u => mem'[x][surf[x][u].dst] = u
    <3>1. u # s
      BY <1>1, <2>1 DEF Shown, FreshSurface
    <3>2. Shown(x, u) /\ surf'[x][u].dst = surf[x][u].dst
      BY <1>1, <2>1, <3>1 DEF Shown, Unassigned
    <3>3. surf[x][u].dst \in Index
      BY <3>2, SlotFields DEF Shown, IInv
    <3> QED BY <1>3, <3>1, <3>2, <3>3
  <2> QED BY <2>1, ShowsKept DEF EInv
<1>7. ASSUME NEW y \in Streams, y # x PROVE OnePicture(y)' /\ ShowsOwn(y)'
  <2>1. /\ surf'[y] = surf[y] /\ wait'[y] = wait[y] /\ kern'[y] = kern[y]
        /\ coded'[y] = coded[y] /\ mem'[y] = mem[y] /\ OnePicture(y) /\ ShowsOwn(y)
    BY <1>1, <1>2, <1>3, <1>4, <1>7 DEF EInv
  <2> QED BY <1>4, <2>1, StreamShows
<1> QED BY <1>5, <1>6, <1>7 DEF EInv

LEMMA InitEInv == Init => EInv
<1>1. SUFFICES ASSUME Init, NEW x \in Streams PROVE OnePicture(x) /\ ShowsOwn(x)
  BY DEF EInv
<1>2. wait[x] = NoWait /\ kern[x] = EmptyQueues /\ \A s \in Slots : surf[x][s] = FreshSurface
  BY <1>1 DEF Init
<1> QED BY <1>2 DEF OnePicture, ShowsOwn, Shown, FreshSurface

LEMMA NextEInv ==
  ASSUME IInv, DInv, EInv, Faults = {}, Next
  PROVE  EInv'
<1> PICK x \in Streams :
      \/ RenderPicture(x)
      \/ DestroyContext(x)
      \/ EndUnqueued(x) \/ EndHalfQueued(x) \/ EndQueued(x)
      \/ Hardware(x)
      \/ SyncDone(x) \/ SyncBroken(x) \/ SyncTimesOut(x)
      \/ \E s \in Slots : \/ BeginPicture(x, s)
                          \/ SyncRefused(x, s)
                          \/ DestroySurface(x, s)
  BY DEF Next
<1>1. CASE RenderPicture(x)
  BY <1>1, RenderPictureShows
<1>2. CASE DestroyContext(x)
  BY <1>2, DestroyContextShows
<1>3. CASE EndUnqueued(x)
  BY <1>3, EndUnqueuedShows
<1>4. CASE EndHalfQueued(x)
  BY <1>4, NoHalfQueued
<1>5. CASE EndQueued(x)
  BY <1>5, EndQueuedShows
<1>6. CASE Hardware(x)
  BY <1>6, HardwareShows
<1>7. CASE SyncDone(x)
  BY <1>7, SyncDoneShows
<1>8. CASE SyncBroken(x) \/ SyncTimesOut(x)
  BY <1>8, NoSyncBroken
<1>9. ASSUME NEW s \in Slots, BeginPicture(x, s) PROVE EInv'
  BY <1>9, BeginPictureShows
<1>10. ASSUME NEW s \in Slots, SyncRefused(x, s) PROVE EInv'
  BY <1>10, SyncRefusedShows
<1>11. ASSUME NEW s \in Slots, DestroySurface(x, s) PROVE EInv'
  BY <1>11, DestroySurfaceShows
<1> QED BY <1>1, <1>2, <1>3, <1>4, <1>5, <1>6, <1>7, <1>8, <1>9, <1>10, <1>11

LEMMA NextEverything ==
  ASSUME Faults = {}
  PROVE  IInv /\ DInv /\ EInv /\ [Next]_vars => (IInv /\ DInv /\ EInv)'
<1>1. SUFFICES ASSUME IInv, DInv, EInv, [Next]_vars PROVE IInv' /\ DInv' /\ EInv'
  OBVIOUS
<1>2. CASE Next
  BY <1>1, <1>2, NextIInv, NextDInv, NextEInv
<1>3. CASE UNCHANGED vars
  <2>1. IInv' /\ DInv'
    BY <1>1, <1>3, StutterIInv, UntouchedNames DEF vars
  <2>2. ASSUME NEW y \in Streams PROVE OnePicture(y)' /\ ShowsOwn(y)'
    <3>1. /\ surf' = surf /\ wait' = wait /\ kern' = kern
          /\ coded' = coded /\ mem' = mem /\ fds' = fds
      BY <1>3 DEF vars
    <3>2. OnePicture(y) /\ ShowsOwn(y)
      BY <1>1 DEF EInv
    <3> QED BY <3>1, <3>2, StreamShows
  <2> QED BY <2>1, <2>2 DEF EInv
<1> QED BY <1>1, <1>2, <1>3

\* While nothing fails the queues of a session hold one picture at a time, that
\* of the call that waits, and what a surface shows is its own.
THEOREM PictureInvariant ==
  ASSUME Faults = {}
  PROVE  Spec => [](IInv /\ DInv /\ EInv)
<1>1. Init => IInv /\ DInv /\ EInv
  BY InitIInv, InitDInv, InitEInv
<1>2. IInv /\ DInv /\ EInv /\ [Next]_vars => (IInv /\ DInv /\ EInv)'
  BY NextEverything
<1> QED BY <1>1, <1>2, PTL DEF Spec

\* RequestSyncSurface: the buffer it dequeues without looking at the index that
\* comes back is, while nothing fails, the one of the surface it returns for.
THEOREM ShownStaysOwn ==
  ASSUME Faults = {}
  PROVE  Spec => []ShownIsOwn
<1>1. ASSUME IInv, EInv PROVE ShownIsOwn
  <2>1. SUFFICES ASSUME NEW x \in Streams, NEW s \in Slots, Shown(x, s)
                 PROVE  mem[x][surf[x][s].dst] = s /\ ~CapBusy(x, surf[x][s].dst)
    BY DEF ShownIsOwn
  <2>2. mem[x][surf[x][s].dst] = s
    BY <1>1, <2>1 DEF EInv, ShowsOwn
  <2>3. ~CapBusy(x, surf[x][s].dst)
    <3>1. CASE wait[x] = NoWait
      <4>1. kern[x].cap = << >> /\ kern[x].capDone = << >>
        BY <1>1, <3>1, NoQueues DEF EInv, OnePicture
      <4> QED BY <4>1 DEF CapBusy, Elements
    <3>2. CASE wait[x] # NoWait
      <4>1. /\ wait[x].slot \in Slots /\ wait[x].slot # s
            /\ surf[x][wait[x].slot].dst \in Index
        BY <1>1, <2>1, <3>2, WaitFacts DEF Shown
      <4>2. surf[x][s].dst # surf[x][wait[x].slot].dst
        BY <1>1, <2>1, <4>1 DEF IInv, StreamOK, IndicesOwned, Shown
      <4>3. Submitted(x) \/ Decoded(x)
        BY <1>1, <3>2 DEF EInv, OnePicture
      <4>5. \/ kern[x].cap = <<surf[x][wait[x].slot].dst>> /\ kern[x].capDone = << >>
            \/ kern[x].cap = << >> /\ kern[x].capDone = <<surf[x][wait[x].slot].dst>>
        <5>1. Submitted(x) => kern[x].cap = <<surf[x][wait[x].slot].dst>> /\ kern[x].capDone = << >>
          BY DEF Submitted
        <5>2. Decoded(x) => kern[x].cap = << >> /\ kern[x].capDone = <<surf[x][wait[x].slot].dst>>
          BY DEF Decoded
        <5> QED BY <4>3, <5>1, <5>2
      <4>4. Elements(kern[x].cap) \cup Elements(kern[x].capDone)
              = {surf[x][wait[x].slot].dst}
        BY <4>5, ElementsOfOne
      <4> QED BY <4>2, <4>4 DEF CapBusy
    <3> QED BY <3>1, <3>2
  <2> QED BY <2>2, <2>3
<1>2. IInv /\ DInv /\ EInv => ShownIsOwn
  BY <1>1
<1> QED BY <1>2, PictureInvariant, PTL

-----------------------------------------------------------------------------
(* What a client sees, step by step: PictureDelivery.                      *)

Phases == [x \in Streams |-> [s \in Slots |-> Phase(x, s)]]

\* The phase of a picture, given that no surface shows another one.
View(x, s) ==
  IF wait[x].slot = s THEN "submitted"
  ELSE IF open[x] = s THEN "begun"
  ELSE IF surf[x][s].status = "Rendering" THEN "stuck"
  ELSE IF Shown(x, s) THEN "shown" ELSE "idle"

LEMMA PhaseIsView ==
  IInv /\ EInv => \A x \in Streams, s \in Slots : Phase(x, s) = View(x, s)
<1>1. SUFFICES ASSUME IInv, EInv, NEW x \in Streams, NEW s \in Slots
               PROVE  Phase(x, s) = View(x, s)
  OBVIOUS
<1>2. Shown(x, s) => mem[x][surf[x][s].dst] = s /\ surf[x][s].status = "Displaying"
  BY <1>1 DEF EInv, ShowsOwn, Shown
<1>3. wait[x].slot = s => surf[x][s].status = "Rendering"
  BY <1>1, WaitFacts, NameFacts DEF NoWait
<1>4. open[x] = s => surf[x][s].status = "Rendering"
  BY <1>1, NameFacts DEF IInv, StreamOK, BegunBound
<1>9. wait[x].slot = s \/ open[x] = s => ~Shown(x, s)
  BY <1>2, <1>3, <1>4
<1>5. CASE wait[x].slot = s
  BY <1>5, <1>9 DEF Phase, View
<1>6. CASE wait[x].slot # s /\ open[x] = s
  BY <1>6, <1>9 DEF Phase, View
<1>7. CASE wait[x].slot # s /\ open[x] # s /\ Shown(x, s)
  BY <1>2, <1>7 DEF Phase, View
<1>8. CASE wait[x].slot # s /\ open[x] # s /\ ~Shown(x, s)
  BY <1>8 DEF Phase, View
<1> QED BY <1>5, <1>6, <1>7, <1>8

LEMMA PhaseIsViewNext ==
  (IInv /\ EInv => \A x \in Streams, s \in Slots : Phase(x, s) = View(x, s))'
BY PhaseIsView, PTL

\* A table of the streams' surfaces.
IsTable(P) == P = [x \in Streams |-> [s \in Slots |-> P[x][s]]]

LEMMA PhasesTable ==
  /\ IsTable(Phases)
  /\ \A x \in Streams, s \in Slots : Phases[x][s] = Phase(x, s)
<1>1. \A x \in Streams : Phases[x] = [s \in Slots |-> Phase(x, s)]
  BY DEF Phases
<1>2. \A x \in Streams, s \in Slots : Phases[x][s] = Phase(x, s)
  BY <1>1
<1>3. \A x \in Streams : Phases[x] = [s \in Slots |-> Phases[x][s]]
  <2>1. SUFFICES ASSUME NEW x \in Streams PROVE Phases[x] = [s \in Slots |-> Phases[x][s]]
    OBVIOUS
  <2>2. [s \in Slots |-> Phase(x, s)] = [s \in Slots |-> Phases[x][s]]
    BY <1>2
  <2> QED BY <1>1, <2>2
<1>4. Phases = [x \in Streams |-> Phases[x]]
  BY DEF Phases
<1>5. [x \in Streams |-> Phases[x]] = [x \in Streams |-> [s \in Slots |-> Phases[x][s]]]
  BY <1>3
<1> QED BY <1>2, <1>4, <1>5 DEF IsTable

LEMMA PhasesTableNext ==
  (/\ IsTable(Phases)
   /\ \A x \in Streams, s \in Slots : Phases[x][s] = Phase(x, s))'
BY PhasesTable, PTL

\* The phases of all surfaces before and after a step, as views.
LEMMA Views ==
  ASSUME IInv, EInv, IInv', EInv'
  PROVE  /\ IsTable(Phases) /\ IsTable(Phases')
         /\ \A x \in Streams, s \in Slots :
              Phases[x][s] = View(x, s) /\ Phases'[x][s] = View(x, s)'
<1>1. \A x \in Streams, s \in Slots : Phase(x, s) = View(x, s)
  BY PhaseIsView
<1>2. \A x \in Streams, s \in Slots : Phase(x, s)' = View(x, s)'
  BY PhaseIsViewNext
<1>3. IsTable(Phases')
  BY PhasesTableNext
<1>4. \A x \in Streams, s \in Slots : Phases'[x][s] = Phase(x, s)'
  BY PhasesTableNext
<1> QED BY <1>1, <1>2, <1>3, <1>4, PhasesTable

\* A table of which nothing, one entry, or one row changed.
LEMMA SameTable ==
  ASSUME NEW P, NEW Q, IsTable(P), IsTable(Q),
         \A y \in Streams, t \in Slots : Q[y][t] = P[y][t]
  PROVE  Q = P
<1>1. \A y \in Streams : Q[y] = P[y]
  <2>1. SUFFICES ASSUME NEW y \in Streams PROVE Q[y] = P[y]
    OBVIOUS
  <2>2. P[y] = [t \in Slots |-> P[y][t]] /\ Q[y] = [t \in Slots |-> Q[y][t]]
    BY DEF IsTable
  <2>3. [t \in Slots |-> P[y][t]] = [t \in Slots |-> Q[y][t]]
    OBVIOUS
  <2> QED BY ONLY <2>2, <2>3
<1>2. /\ P = [y \in Streams |-> P[y]] /\ Q = [y \in Streams |-> Q[y]]
  BY DEF IsTable
<1>3. [y \in Streams |-> P[y]] = [y \in Streams |-> Q[y]]
  BY <1>1
<1> QED BY ONLY <1>2, <1>3

LEMMA MovedRow ==
  ASSUME NEW P, NEW Q, IsTable(P), IsTable(Q), NEW x \in Streams,
         \A y \in Streams, t \in Slots : y # x => Q[y][t] = P[y][t]
  PROVE  Q = [P EXCEPT ![x] = Q[x]]
<1> DEFINE R == [P EXCEPT ![x] = Q[x]]
<1>1. DOMAIN P = Streams /\ R = [y \in Streams |-> IF y = x THEN Q[x] ELSE P[y]]
  BY DEF IsTable
<1>2. \A y \in Streams : Q[y] = [t \in Slots |-> Q[y][t]] /\ P[y] = [t \in Slots |-> P[y][t]]
  BY DEF IsTable
<1>3. \A y \in Streams : R[y] = [t \in Slots |-> R[y][t]]
  BY <1>1, <1>2
<1>4. IsTable(R)
  <2>1. R = [y \in Streams |-> R[y]]
    BY <1>1
  <2> HIDE DEF R
  <2>2. [y \in Streams |-> R[y]] = [y \in Streams |-> [t \in Slots |-> R[y][t]]]
    BY <1>3
  <2> QED BY <2>1, <2>2 DEF IsTable
<1>5. \A y \in Streams, t \in Slots : Q[y][t] = R[y][t]
  BY <1>1
<1> HIDE DEF R
<1>6. Q = R
  BY <1>4, <1>5, SameTable
<1> QED BY <1>6 DEF R

LEMMA MovedOne ==
  ASSUME NEW P, NEW Q, IsTable(P), IsTable(Q), NEW x \in Streams, NEW s \in Slots,
         \A y \in Streams, t \in Slots : ~(y = x /\ t = s) => Q[y][t] = P[y][t]
  PROVE  Q = [P EXCEPT ![x][s] = Q[x][s]]
<1>1. Q = [P EXCEPT ![x] = Q[x]]
  BY MovedRow
<1>2. P[x] = [t \in Slots |-> P[x][t]] /\ Q[x] = [t \in Slots |-> Q[x][t]]
  BY DEF IsTable
<1>3. Q[x] = [P[x] EXCEPT ![s] = Q[x][s]]
  <2>1. [P[x] EXCEPT ![s] = Q[x][s]] = [t \in Slots |-> IF t = s THEN Q[x][s] ELSE P[x][t]]
    BY <1>2
  <2>2. [t \in Slots |-> IF t = s THEN Q[x][s] ELSE P[x][t]] = [t \in Slots |-> Q[x][t]]
    OBVIOUS
  <2> QED BY ONLY <1>2, <2>1, <2>2
<1>4. [P EXCEPT ![x][s] = Q[x][s]] = [P EXCEPT ![x] = [P[x] EXCEPT ![s] = Q[x][s]]]
  OBVIOUS
<1> QED BY ONLY <1>1, <1>3, <1>4

\* The steps of PictureDelivery, in terms of the views.
LEMMA SameViews ==
  ASSUME IInv, EInv, IInv', EInv',
         \A y \in Streams, t \in Slots : View(y, t)' = View(y, t)
  PROVE  Phases' = Phases
<1>1. /\ IsTable(Phases) /\ IsTable(Phases')
      /\ \A y \in Streams, t \in Slots : Phases'[y][t] = Phases[y][t]
  BY Views
<1> QED BY ONLY <1>1, SameTable

LEMMA ViewMoves ==
  ASSUME IInv, EInv, IInv', EInv', NEW x \in Streams, NEW s \in Slots,
         NEW from, NEW to, View(x, s) = from, View(x, s)' = to,
         \A y \in Streams, t \in Slots : ~(y = x /\ t = s) => View(y, t)' = View(y, t)
  PROVE  Delivery!Move(x, s, from, to)
<1>1. /\ IsTable(Phases) /\ IsTable(Phases')
      /\ \A y \in Streams, t \in Slots : ~(y = x /\ t = s) => Phases'[y][t] = Phases[y][t]
      /\ Phases[x][s] = from /\ Phases'[x][s] = to
  BY Views
<1>2. Phases' = [Phases EXCEPT ![x][s] = Phases'[x][s]]
  BY ONLY <1>1, MovedOne, x \in Streams, s \in Slots
<1> QED BY <1>1, <1>2 DEF Delivery!Move, Phases

LEMMA ViewsReplaced ==
  ASSUME IInv, EInv, IInv', EInv', NEW x \in Streams,
         \A y \in Streams, t \in Slots : y # x => View(y, t)' = View(y, t)
  PROVE  Phases' = [Phases EXCEPT ![x] = Phases'[x]]
<1>1. /\ IsTable(Phases) /\ IsTable(Phases')
      /\ \A y \in Streams, t \in Slots : y # x => Phases'[y][t] = Phases[y][t]
  BY Views
<1> QED BY ONLY <1>1, MovedRow, x \in Streams

\* What View reads of a surface.
LEMMA ViewKept ==
  ASSUME NEW y \in Streams, NEW t \in Slots,
         wait'[y].slot = t <=> wait[y].slot = t, open'[y] = t <=> open[y] = t,
         surf'[y][t].status = surf[y][t].status, surf'[y][t].dst = surf[y][t].dst
  PROVE  View(y, t)' = View(y, t)
BY DEF View, Shown, Unassigned

\* EndPicture before it waits: the picture is submitted, or abandoned.
LEMMA EndQueuedDelivers ==
  ASSUME IInv, EInv, IInv', EInv', NEW x \in Streams, NEW s \in Slots, s = open[x],
         EndQueued(x)
  PROVE  Delivery!Submit(x, s)
<1> DEFINE f == RequestFd(x, s)
<1>1. /\ f \in Fds
      /\ surf' = [surf EXCEPT ![x][s].fd = f]
      /\ wait' = [wait EXCEPT ![x] = [slot |-> s, fd |-> f]]
      /\ wait'[x] = [slot |-> s, fd |-> f]
  BY EndQueuedFacts DEF IInv
<1>2. wait[x] = NoWait /\ open' = open /\ TypeOK
  BY DEF EndQueued, Ending, IInv
<1> HIDE DEF f
<1>3. /\ \A y \in Streams : y # x => surf'[y] = surf[y]
      /\ \A t \in Slots : /\ surf'[x][t].status = surf[x][t].status
                          /\ surf'[x][t].src = surf[x][t].src
                          /\ surf'[x][t].dst = surf[x][t].dst
  BY <1>1, <1>2, NewFd
<1>4. View(x, s) = "begun"
  BY <1>2, NameFacts DEF View, NoWait
<1>5. View(x, s)' = "submitted"
  BY <1>1 DEF View
<1>6. ASSUME NEW y \in Streams, NEW t \in Slots, ~(y = x /\ t = s)
      PROVE  View(y, t)' = View(y, t)
  <2>1. wait'[y].slot = t <=> wait[y].slot = t
    <3>1. CASE y = x
      BY <1>1, <1>2, <1>6, <3>1, NameFacts DEF NoWait
    <3>2. CASE y # x
      BY <1>1, <1>2, <3>2 DEF TypeOK
    <3> QED BY <3>1, <3>2
  <2>2. surf'[y][t].status = surf[y][t].status /\ surf'[y][t].dst = surf[y][t].dst
    BY <1>3
  <2> QED BY <1>2, <2>1, <2>2, ViewKept
<1>7. Delivery!Move(x, s, "begun", "submitted")
  BY <1>4, <1>5, <1>6, ViewMoves
<1> QED BY <1>7 DEF Delivery!Submit

LEMMA EndUnqueuedDelivers ==
  ASSUME IInv, EInv, IInv', EInv', NEW x \in Streams, NEW s \in Slots, s = open[x],
         EndUnqueued(x)
  PROVE  Delivery!Abandon(x, s)
<1>1. /\ TypeOK /\ wait[x] = NoWait /\ wait' = wait
      /\ surf[x][s].status = "Rendering"
  BY EndingFacts, NameFacts DEF EndUnqueued, IInv, StreamOK, BegunBound
<1>2. open' = [open EXCEPT ![x] = "none"] /\ open \in [Streams -> Slots \cup {"none"}]
  BY <1>1 DEF EndUnqueued, TypeOK
<1>3. /\ \A y \in Streams : y # x => surf'[y] = surf[y]
      /\ \A t \in Slots : /\ surf'[x][t].status = surf[x][t].status
                          /\ surf'[x][t].dst = surf[x][t].dst
  <2>1. CASE UNCHANGED <<surf, fds>>
    BY <2>1
  <2>2. CASE IdleRequest(x, s) /\ WithRequest(x, s, "idle")
    <3>1. /\ RequestFd(x, s) \in Fds
          /\ surf' = [surf EXCEPT ![x][s].fd = RequestFd(x, s)]
      BY <1>1, <2>2, WithRequestFacts
    <3> QED BY <1>1, <3>1, NewFd
  <2> QED BY <2>1, <2>2 DEF EndUnqueued
<1>4. View(x, s) = "begun"
  BY <1>1, NameFacts DEF View, NoWait
<1>5. View(x, s)' = "stuck"
  BY <1>1, <1>2, <1>3, NameFacts DEF View, NoWait
<1>6. ASSUME NEW y \in Streams, NEW t \in Slots, ~(y = x /\ t = s)
      PROVE  View(y, t)' = View(y, t)
  <2>1. open'[y] = t <=> open[y] = t
    BY <1>2, <1>6, NameFacts
  <2>2. surf'[y][t].status = surf[y][t].status /\ surf'[y][t].dst = surf[y][t].dst
    BY <1>3
  <2> QED BY <1>1, <2>1, <2>2, ViewKept
<1>7. Delivery!Move(x, s, "begun", "stuck")
  BY <1>4, <1>5, <1>6, ViewMoves
<1> QED BY <1>7 DEF Delivery!Abandon

LEMMA SyncDoneDelivers ==
  ASSUME IInv, EInv, IInv', EInv', NEW x \in Streams, NEW s \in Slots, s = wait[x].slot,
         SyncDone(x)
  PROVE  Delivery!Show(x, s)
<1>1. /\ wait[x] # NoWait /\ s = open[x]
      /\ \A y \in Streams : y # x => surf'[y] = surf[y]
      /\ \A t \in Slots : t # s => surf'[x][t] = surf[x][t]
      /\ surf'[x][s] = [status |-> "Displaying", src |-> Unassigned,
                        dst |-> surf[x][s].dst, fd |-> surf[x][s].fd]
  <2>1. /\ wait[x] # NoWait /\ wait[x].slot = open[x]
        /\ \A y \in Streams : y # x => surf'[y] = surf[y]
    BY SyncDoneFacts
  <2>2. \A t \in Slots : t # wait[x].slot => surf'[x][t] = surf[x][t]
    BY SyncDoneFacts
  <2>3. surf'[x][wait[x].slot] =
          [status |-> "Displaying", src |-> Unassigned,
           dst |-> surf[x][wait[x].slot].dst, fd |-> surf[x][wait[x].slot].fd]
    BY SyncDoneFacts
  <2> QED BY <2>1, <2>2, <2>3
<1>2. /\ open'[x] = "none" /\ wait'[x] = NoWait
      /\ \A y \in Streams : y # x => open'[y] = open[y] /\ wait'[y] = wait[y]
  BY SyncDoneFacts
<1>3. surf[x][s].dst # Unassigned
  BY <1>1, WaitFacts, IndexFacts
<1>4. View(x, s) = "submitted"
  BY DEF View
<1>5. View(x, s)' = "shown"
  BY <1>1, <1>2, <1>3, NameFacts DEF View, Shown, Unassigned, NoWait
<1>6. ASSUME NEW y \in Streams, NEW t \in Slots, ~(y = x /\ t = s)
      PROVE  View(y, t)' = View(y, t)
  <2>1. CASE y = x
    <3>1. t # s /\ wait[x].slot # t /\ open[x] # t
      BY <1>1, <1>6, <2>1
    <3>2. wait'[x].slot # t /\ open'[x] # t /\ surf'[x][t] = surf[x][t]
      BY <1>1, <1>2, <3>1, NameFacts DEF NoWait
    <3> QED BY <2>1, <3>1, <3>2, ViewKept
  <2>2. CASE y # x
    BY <1>1, <1>2, <2>2, ViewKept
  <2> QED BY <2>1, <2>2
<1>7. Delivery!Move(x, s, "submitted", "shown")
  BY <1>4, <1>5, <1>6, ViewMoves
<1> QED BY <1>7 DEF Delivery!Show

LEMMA DestroySurfaceDelivers ==
  ASSUME IInv, EInv, IInv', EInv', NEW x \in Streams, NEW s \in Slots, DestroySurface(x, s)
  PROVE  Delivery!Destroy(x, s)
<1>1. /\ wait[x].slot # s /\ wait' = wait
      /\ \A y \in Streams : y # x => surf'[y] = surf[y]
      /\ \A u \in Slots : u # s => surf'[x][u] = surf[x][u]
      /\ surf'[x][s] = FreshSurface
  BY DestroySurfaceFacts
<1>2. /\ \A y \in Streams : y # x => open'[y] = open[y]
      /\ open'[x] = IF open[x] = s THEN "none" ELSE open[x]
  BY DestroySurfaceFacts
<1>3. View(x, s) # "submitted"
  BY <1>1 DEF View
<1>4. View(x, s)' = "idle"
  BY <1>1, <1>2, NameFacts DEF View, Shown, FreshSurface
<1>5. ASSUME NEW y \in Streams, NEW t \in Slots, ~(y = x /\ t = s)
      PROVE  View(y, t)' = View(y, t)
  <2>1. CASE y = x
    BY <1>1, <1>2, <1>5, <2>1, NameFacts, ViewKept
  <2>2. CASE y # x
    BY <1>1, <1>2, <2>2, ViewKept
  <2> QED BY <2>1, <2>2
<1>6. Delivery!Move(x, s, View(x, s), "idle")
  BY <1>4, <1>5, ViewMoves
<1>7. Phases[x][s] = View(x, s)
  BY Views
<1> QED BY <1>3, <1>6, <1>7 DEF Delivery!Move, Delivery!Destroy, Phases

\* Steps of which a client sees nothing.
LEMMA UnseenSteps ==
  ASSUME IInv, EInv, IInv', EInv', NEW x \in Streams,
         RenderPicture(x) \/ Hardware(x) \/ \E s \in Slots : SyncRefused(x, s)
  PROVE  Phases' = Phases
<1>1. /\ wait' = wait /\ open' = open
      /\ \A y \in Streams, t \in Slots : /\ surf'[y][t].status = surf[y][t].status
                                         /\ surf'[y][t].dst = surf[y][t].dst
  <2>1. CASE RenderPicture(x) \/ Hardware(x)
    BY <2>1, Zenon DEF RenderPicture, Hardware
  <2>2. ASSUME NEW s \in Slots, SyncRefused(x, s)
        PROVE  /\ wait' = wait /\ open' = open
               /\ \A y \in Streams, t \in Slots : /\ surf'[y][t].status = surf[y][t].status
                                                  /\ surf'[y][t].dst = surf[y][t].dst
    <3>1. /\ TypeOK /\ wait' = wait /\ open' = open
          /\ Renamed(x, s, NoFd)
      BY <2>2 DEF SyncRefused, IInv, Renamed
    <3>2. NoFd \in Fds \cup {NoFd}
      OBVIOUS
    <3>3. \A y \in Streams, t \in Slots : /\ surf'[y][t].status = surf[y][t].status
                                         /\ surf'[y][t].dst = surf[y][t].dst
      BY <3>1, <3>2, NewState
    <3> QED BY <3>1, <3>3
  <2> QED BY <2>1, <2>2, SMTT(40)
<1>2. \A y \in Streams, t \in Slots : View(y, t)' = View(y, t)
  BY <1>1, ViewKept
<1> QED BY <1>2, SameViews

\* A row of a table, replaced.
LEMMA RowOf ==
  ASSUME NEW P, IsTable(P), NEW x \in Streams
  PROVE  P[x] = [r \in Slots |-> P[x][r]]
BY DEF IsTable

LEMMA DestroyContextDelivers ==
  ASSUME IInv, EInv, IInv', EInv', NEW x \in Streams, DestroyContext(x)
  PROVE  Delivery!Close(x)
<1>1. /\ TypeOK /\ StreamOK(x)
  BY DEF IInv
<1>2. /\ wait[x] = NoWait /\ wait' = wait
      /\ \A y \in Streams : y # x => surf'[y] = surf[y]
      /\ \A s \in Slots : surf'[x][s].dst = Unassigned
      /\ \A y \in Streams : y # x => open'[y] = open[y]
      /\ open'[x] = "none"
  BY <1>1, DestroyContextFacts
<1>3. \A s \in Slots : surf'[x][s].status = surf[x][s].status
  <2>1. /\ surf' = [surf EXCEPT ![x] = [s \in Slots |->
                     [@[s] EXCEPT !.src = Unassigned, !.dst = Unassigned]]]
    BY DEF DestroyContext
  <2>2. surf \in [Streams -> [Slots -> Surface]] /\ surf[x] \in [Slots -> Surface]
    BY <1>1 DEF TypeOK
  <2>3. SUFFICES ASSUME NEW s \in Slots PROVE surf'[x][s].status = surf[x][s].status
    OBVIOUS
  <2>4. surf'[x][s] = [surf[x][s] EXCEPT !.src = Unassigned, !.dst = Unassigned]
    BY <2>1, <2>2
  <2>5. surf[x][s] \in Surface
    BY <2>2
  <2> QED BY <2>4, <2>5 DEF Surface
<1>4. \A y \in Streams, t \in Slots : y # x => View(y, t)' = View(y, t)
  BY <1>2, ViewKept
<1>5. ASSUME NEW r \in Slots
      PROVE  /\ View(x, r) # "submitted"
             /\ View(x, r)' = IF View(x, r) \in {"begun", "stuck"} THEN "stuck" ELSE "idle"
  <2>1. wait[x].slot # r /\ wait'[x].slot # r /\ open'[x] # r
    BY <1>2, NameFacts DEF NoWait
  <2>2. ~Shown(x, r)'
    BY <1>2 DEF Shown, Unassigned
  <2>3. open[x] = r => surf[x][r].status = "Rendering"
    BY <1>1, NameFacts DEF StreamOK, BegunBound
  <2> QED BY <1>3, <2>1, <2>2, <2>3 DEF View
<1>6. Phases' = [Phases EXCEPT ![x] = Phases'[x]]
  BY <1>4, ViewsReplaced
<1>7. \A r \in Slots :
        /\ Phases[x][r] # "submitted"
        /\ Phases'[x][r] = IF Phases[x][r] \in {"begun", "stuck"} THEN "stuck" ELSE "idle"
  BY <1>5, Views
<1>8. Phases'[x] = [r \in Slots |-> Phases'[x][r]]
  BY Views, RowOf
<1>9. Phases'[x] = [r \in Slots |-> IF Phases[x][r] \in {"begun", "stuck"} THEN "stuck"
                                    ELSE "idle"]
  BY <1>7, <1>8
<1> QED BY <1>6, <1>7, <1>9 DEF Delivery!Close, Phases

LEMMA BeginPictureDelivers ==
  ASSUME IInv, EInv, IInv', EInv', NEW x \in Streams, NEW s \in Slots, BeginPicture(x, s)
  PROVE  Delivery!BeginPicture(x, s) \/ Phases' = Phases
<1>1. /\ TypeOK /\ StreamOK(x) /\ wait[x] = NoWait /\ wait' = wait
      /\ surf[x][s].status # "Rendering"
      /\ surf \in [Streams -> [Slots -> Surface]] /\ surf[x] \in [Slots -> Surface]
      /\ open \in [Streams -> Slots \cup {"none"}]
  BY DEF IInv, TypeOK, BeginPicture
<1>2. CASE surf[x][s].dst = Unassigned /\ Exhausted(pool[x].cap)
  <2> DEFINE i == BoundIndex(surf[x][s].src, pool[x].out)
             n == [surf[x][s] EXCEPT !.src = i]
  <2>1. surf' = [surf EXCEPT ![x] = [surf[x] EXCEPT ![s] = n]] /\ open' = open
    BY <1>1, <1>2 DEF BeginPicture
  <2> HIDE DEF i
  <2>2. n.dst = surf[x][s].dst /\ n.status = surf[x][s].status
    BY <1>1 DEF Surface
  <2> HIDE DEF n
  <2>3. /\ surf'[x][s] = n /\ \A u \in Slots : u # s => surf'[x][u] = surf[x][u]
        /\ \A y \in Streams : y # x => surf'[y] = surf[y]
    BY <1>1, <2>1
  <2>4. \A y \in Streams, t \in Slots : /\ surf'[y][t].status = surf[y][t].status
                                        /\ surf'[y][t].dst = surf[y][t].dst
    BY <2>2, <2>3
  <2>5. \A y \in Streams, t \in Slots : View(y, t)' = View(y, t)
    BY <1>1, <2>1, <2>4, ViewKept
  <2> QED BY <2>5, SameViews
<1>3. CASE ~(surf[x][s].dst = Unassigned /\ Exhausted(pool[x].cap))
  <2> DEFINE n == [status |-> "Rendering", src |-> BoundIndex(surf[x][s].src, pool[x].out),
                   dst |-> BoundIndex(surf[x][s].dst, pool[x].cap), fd |-> surf[x][s].fd]
  <2>1. /\ surf' = [surf EXCEPT ![x] = [surf[x] EXCEPT ![s] = n]]
        /\ open' = [open EXCEPT ![x] = s]
    BY <1>1, <1>3 DEF BeginPicture
  <2> HIDE DEF n
  <2>2. /\ \A u \in Slots : u # s => surf'[x][u] = surf[x][u]
        /\ \A y \in Streams : y # x => surf'[y] = surf[y] /\ open'[y] = open[y]
        /\ open'[x] = s
    BY <1>1, <2>1
  <2>3. \A y \in Streams, t \in Slots : y # x => View(y, t)' = View(y, t)
    BY <1>1, <2>2, ViewKept
  <2>4. \A r \in Slots : wait[x].slot # r /\ wait'[x].slot # r
    BY <1>1, NameFacts DEF NoWait
  <2>5. View(x, s) \in {"idle", "shown"}
    <3>1. open[x] # s
      BY <1>1, NameFacts DEF StreamOK, BegunBound
    <3> QED BY <1>1, <2>4, <3>1 DEF View
  <2>6. View(x, s)' = "begun"
    BY <2>2, <2>4 DEF View
  <2>7. ASSUME NEW r \in Slots, r # s
        PROVE  View(x, r)' = IF View(x, r) = "begun" THEN "stuck" ELSE View(x, r)
    <3>1. CASE open[x] = r
      <4>1. surf[x][r].status = "Rendering"
        BY <1>1, <3>1, NameFacts DEF StreamOK, BegunBound
      <4> QED BY <2>2, <2>4, <2>7, <3>1, <4>1 DEF View
    <3>2. CASE open[x] # r
      <4>1. View(x, r)' = View(x, r)
        BY <1>1, <2>2, <2>7, <3>2, ViewKept
      <4>2. View(x, r) # "begun"
        BY <2>4, <3>2 DEF View
      <4> QED BY <4>1, <4>2
    <3> QED BY <3>1, <3>2
  <2>8. \A r \in Slots : View(x, r) # "submitted"
    BY <2>4 DEF View
  <2>9. Phases' = [Phases EXCEPT ![x] = Phases'[x]]
    BY <2>3, ViewsReplaced
  <2>10. /\ Phases[x][s] \in {"idle", "shown"}
         /\ \A r \in Slots : Phases[x][r] # "submitted"
         /\ \A r \in Slots : Phases'[x][r] = IF r = s THEN "begun"
                                             ELSE IF Phases[x][r] = "begun" THEN "stuck"
                                             ELSE Phases[x][r]
    BY <2>5, <2>6, <2>7, <2>8, Views
  <2>11. Phases'[x] = [r \in Slots |-> Phases'[x][r]]
    BY Views, RowOf
  <2>12. Phases'[x] = [r \in Slots |-> IF r = s THEN "begun"
                                       ELSE IF Phases[x][r] = "begun" THEN "stuck"
                                       ELSE Phases[x][r]]
    BY <2>10, <2>11
  <2>13. Delivery!BeginPicture(x, s)
    BY <2>9, <2>10, <2>12 DEF Delivery!BeginPicture, Phases
  <2> QED BY <2>13
<1> QED BY <1>2, <1>3

LEMMA NextDelivers ==
  ASSUME Faults = {}, IInv, DInv, EInv, IInv', EInv', Next
  PROVE  Delivery!Next \/ Phases' = Phases
<1> PICK x \in Streams :
      \/ RenderPicture(x)
      \/ DestroyContext(x)
      \/ EndUnqueued(x) \/ EndHalfQueued(x) \/ EndQueued(x)
      \/ Hardware(x)
      \/ SyncDone(x) \/ SyncBroken(x) \/ SyncTimesOut(x)
      \/ \E s \in Slots : \/ BeginPicture(x, s)
                          \/ SyncRefused(x, s)
                          \/ DestroySurface(x, s)
  BY DEF Next
<1>1. CASE RenderPicture(x) \/ Hardware(x) \/ \E s \in Slots : SyncRefused(x, s)
  BY <1>1, UnseenSteps
<1>2. CASE DestroyContext(x)
  BY <1>2, DestroyContextDelivers DEF Delivery!Next
<1>3. CASE EndUnqueued(x)
  <2>1. PICK s \in Slots : s = open[x]
    BY <1>3, EndingFacts DEF EndUnqueued, IInv
  <2>2. Delivery!Abandon(x, s)
    BY <1>3, <2>1, EndUnqueuedDelivers
  <2> QED BY <2>2 DEF Delivery!Next
<1>4. CASE EndQueued(x)
  <2>1. PICK s \in Slots : s = open[x]
    BY <1>4, EndingFacts DEF EndQueued, IInv
  <2>2. Delivery!Submit(x, s)
    BY <1>4, <2>1, EndQueuedDelivers
  <2> QED BY <2>2 DEF Delivery!Next
<1>5. CASE EndHalfQueued(x) \/ SyncBroken(x) \/ SyncTimesOut(x)
  BY <1>5, NoHalfQueued, NoSyncBroken
<1>6. CASE SyncDone(x)
  <2>1. PICK s \in Slots : s = wait[x].slot
    BY <1>6, WaitFacts DEF SyncDone
  <2>2. Delivery!Show(x, s)
    BY <1>6, <2>1, SyncDoneDelivers
  <2> QED BY <2>2 DEF Delivery!Next
<1>7. ASSUME NEW s \in Slots, BeginPicture(x, s)
      PROVE  Delivery!Next \/ Phases' = Phases
  <2>1. Delivery!BeginPicture(x, s) \/ Phases' = Phases
    BY <1>7, BeginPictureDelivers
  <2> QED BY <2>1 DEF Delivery!Next
<1>8. ASSUME NEW s \in Slots, DestroySurface(x, s)
      PROVE  Delivery!Next
  <2>1. Delivery!Destroy(x, s)
    BY <1>8, DestroySurfaceDelivers
  <2> QED BY <2>1 DEF Delivery!Next
<1> QED BY <1>1, <1>2, <1>3, <1>4, <1>5, <1>6, <1>7, <1>8

LEMMA InitDelivers == Init => Delivery!Init
<1>1. SUFFICES ASSUME Init PROVE Delivery!Init
  OBVIOUS
<1>2. ASSUME NEW x \in Streams, NEW s \in Slots PROVE Phase(x, s) = "idle"
  <2>1. wait[x].slot # s /\ open[x] # s /\ surf[x][s].status = "Ready"
    BY <1>1, NameFacts DEF Init, NoWait, FreshSurface
  <2> QED BY <2>1 DEF Phase, Shown
<1> QED BY <1>2 DEF Delivery!Init

\* While nothing fails every step of the queues is one of PictureDelivery or
\* shows nothing: a picture is begun, submitted, shown on its own surface, and
\* stays there until the client begins another, destroys the surface or closes
\* the stream.  That it is shown at all is liveness, and left to the runs.
THEOREM PicturesDelivered ==
  ASSUME Faults = {}
  PROVE  Spec => Delivery!Init /\ [][Delivery!Next]_Phases
<1>1. IInv /\ DInv /\ EInv /\ (IInv /\ DInv /\ EInv)' /\ [Next]_vars
        => [Delivery!Next]_Phases
  <2>1. SUFFICES ASSUME IInv, DInv, EInv, IInv', EInv', [Next]_vars
                 PROVE  Delivery!Next \/ Phases' = Phases
    OBVIOUS
  <2>2. CASE Next
    BY <2>1, <2>2, NextDelivers
  <2>3. CASE UNCHANGED vars
    <3>1. \A y \in Streams, t \in Slots : View(y, t)' = View(y, t)
      BY <2>3, ViewKept DEF vars
    <3> QED BY <2>1, <3>1, SameViews
  <2> QED BY <2>1, <2>2, <2>3
<1> QED BY <1>1, InitDelivers, PictureInvariant, PTL DEF Spec
=============================================================================
