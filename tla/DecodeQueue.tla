----------------------------- MODULE DecodeQueue -----------------------------
(***************************************************************************)
(* What the kernel does with the buffers of a decode, and what the driver  *)
(* believes it did (va-driver/src/media.c, v4l2.c, and the halves of       *)
(* RequestEndPicture and RequestSyncSurface that talk to them).            *)
(*                                                                         *)
(* A stream is a context with its session; its surfaces are slots.  The    *)
(* driver queues a CAPTURE buffer, an OUTPUT buffer tied to a media        *)
(* request, and the request; the hardware pairs the oldest of each queue,  *)
(* decodes, and puts both on lists of done buffers.  The driver waits at   *)
(* most 300 ms for its request, without the lock, and then dequeues one    *)
(* buffer of each list: whichever is the oldest, as v4l2_dequeue_buffer    *)
(* passes an index in that VIDIOC_DQBUF does not read and looks at none of *)
(* what comes back.                                                        *)
(*                                                                         *)
(* DecodeSession models who owns a surface's buffers; here a surface       *)
(* belongs to one stream for good, and what may go wrong around it is a    *)
(* constant, so that each promise is checked under the faults it survives. *)
(* The client begins, renders and ends a picture in that order.            *)
(***************************************************************************)
EXTENDS BufferPool

CONSTANTS
  Streams,  \* decode contexts, each with a session of its own
  Slots,    \* the surfaces of a stream
  MaxFds,   \* descriptors the process may have open at once
  Faults    \* what may go wrong

ASSUME QueueAssumption ==
  /\ MaxFds \in Nat \ {0}
  /\ Faults \subseteq {"late",          \* the 300 ms pass without an answer
                       "refused",       \* an ioctl fails
                       "corrupt",       \* a decode ends in V4L2_BUF_FLAG_ERROR
                       "second sync"}   \* a surface is synced while it decodes
  /\ Slots \cap {"none", "old", "bad"} = {}

VARIABLES
  surf,   \* the surfaces, by stream and slot
  pool,   \* each session's index allocators
  open,   \* the picture each client thread has begun
  wait,   \* the sync that ends its vaEndPicture, while the lock is released
  fds,    \* the descriptor table: the state of the request behind a number
  kern,   \* each session's queues in the kernel
  coded,  \* whose picture is in an OUTPUT buffer
  mem     \* whose picture is in a CAPTURE buffer

vars == <<surf, pool, open, wait, fds, kern, coded, mem>>

Index == 0 .. MaxBuffers-1
Fds   == 0 .. MaxFds-1
NoFd  == -1

\* A surface: the sentinel Unassigned stands for an index it does not have.
Surface == [status : {"Ready", "Rendering", "Displaying"},
            src : Index \cup {Unassigned}, dst : Index \cup {Unassigned},
            fd : Fds \cup {NoFd}]

FreshSurface ==
  [status |-> "Ready", src |-> Unassigned, dst |-> Unassigned, fd |-> NoFd]

\* The call that waits: the surface, and request_fd as it was read.
NoWait == [slot |-> "none", fd |-> NoFd]

\* An OUTPUT buffer with the device, and its request if that is still open.
Job == [buf : Index, fd : Fds \cup {NoFd}]

EmptyQueues == [out |-> << >>, cap |-> << >>, outDone |-> << >>, capDone |-> << >>]

\* The picture now begun on a slot, an earlier one, one that failed to decode.
Picture == Slots \cup {"old", "bad"}

Init ==
  /\ surf = [x \in Streams |-> [s \in Slots |-> FreshSurface]]
  /\ pool = [x \in Streams |-> [out |-> NewPool(MaxBuffers),
                                cap |-> NewPool(MaxBuffers)]]
  /\ open = [x \in Streams |-> "none"]
  /\ wait = [x \in Streams |-> NoWait]
  /\ fds = [f \in Fds |-> "free"]
  /\ kern = [x \in Streams |-> EmptyQueues]
  /\ coded = [x \in Streams |-> [i \in Index |-> "old"]]
  /\ mem = [x \in Streams |-> [i \in Index |-> "old"]]

-----------------------------------------------------------------------------

Elements(q) == {q[k] : k \in 1 .. Len(q)}

\* vb2 takes a buffer only from user space's hands: not queued, not done.
OutBusy(x, i) == i \in Elements(kern[x].outDone)
                       \cup {j.buf : j \in Elements(kern[x].out)}
CapBusy(x, i) == i \in Elements(kern[x].cap) \cup Elements(kern[x].capDone)

\* close(f): the number is free.  A request on its way keeps going, with
\* nobody left to tell.
ClosedFds(f) == IF f = NoFd THEN fds ELSE [fds EXCEPT ![f] = "free"]

Forget(k, f) ==
  [k EXCEPT !.out = [n \in 1 .. Len(k.out) |->
     IF f # NoFd /\ k.out[n].fd = f THEN [k.out[n] EXCEPT !.fd = NoFd]
     ELSE k.out[n]]]

ClosedKern(f) == [x \in Streams |-> Forget(kern[x], f)]

\* open() and MEDIA_IOC_REQUEST_ALLOC return the lowest number that is free.
FreeFds == {f \in Fds : fds[f] = "free"}
LowestFd == CHOOSE f \in FreeFds : \A g \in FreeFds : f <= g

\* surface->request_fd, or a new request.
RequestFd(x, s) == IF surf[x][s].fd # NoFd THEN surf[x][s].fd ELSE LowestFd

\* A picture newly begun on s is not the one its buffers hold.
Aged(contents, s) ==
  [i \in Index |-> IF contents[i] = s THEN "old" ELSE contents[i]]

\* The index a bind takes, if the surface has none yet.
BoundIndex(i, p) == IF i = Unassigned THEN Candidate(p) ELSE i

\* Mutant of BoundPool: the index is used and not taken.
BoundPoolUntaken(i, p) == p

BoundPool(i, p) == IF i = Unassigned THEN Take(p) ELSE p

-----------------------------------------------------------------------------
(* The driver's calls.                                                     *)

\* RequestBeginPicture on a surface that is not rendering.  Without a CAPTURE
\* buffer left the OUTPUT buffer stays bound and the picture is not begun.
BeginPicture(x, s) ==
  LET t == surf[x][s]
      i == BoundIndex(t.src, pool[x].out)
      j == BoundIndex(t.dst, pool[x].cap)
      bound == [pool[x] EXCEPT !.out = BoundPool(t.src, @)]
  IN
  /\ wait[x] = NoWait
  /\ t.status # "Rendering"
  /\ t.src # Unassigned \/ ~Exhausted(pool[x].out)
  /\ IF t.dst = Unassigned /\ Exhausted(pool[x].cap)
       THEN /\ surf' = [surf EXCEPT ![x][s].src = i]
            /\ pool' = [pool EXCEPT ![x] = bound]
            /\ UNCHANGED <<open, coded, mem>>
       ELSE /\ surf' = [surf EXCEPT ![x][s] = [status |-> "Rendering", src |-> i,
                                               dst |-> j, fd |-> t.fd]]
            /\ pool' = [pool EXCEPT ![x] = [bound EXCEPT !.cap = BoundPool(t.dst, @)]]
            /\ open' = [open EXCEPT ![x] = s]
            /\ coded' = [coded EXCEPT ![x] = Aged(@, s)]
            /\ mem' = [mem EXCEPT ![x] = Aged(@, s)]
  /\ UNCHANGED <<wait, fds, kern>>

\* RequestRenderPicture copies slice data into the mapped OUTPUT buffer.
RenderPicture(x) ==
  /\ open[x] # "none" /\ wait[x] = NoWait
  /\ coded' = [coded EXCEPT ![x][surf[x][open[x]].src] = open[x]]
  /\ UNCHANGED <<surf, pool, open, wait, fds, kern, mem>>

\* RequestEndPicture, up to the point where the lock is released: the request
\* is found or made, and then ...
Ending(x) ==
  /\ open[x] # "none" /\ wait[x] = NoWait
  /\ coded[x][surf[x][open[x]].src] = open[x]
  /\ UNCHANGED <<pool, coded, mem>>

HasRequest(x, s) == surf[x][s].fd # NoFd \/ FreeFds # {}

IdleRequest(x, s) ==
  HasRequest(x, s) /\ fds[RequestFd(x, s)] \in {"free", "idle"}

WithRequest(x, s, state) ==
  /\ surf' = [surf EXCEPT ![x][s].fd = RequestFd(x, s)]
  /\ fds' = [fds EXCEPT ![RequestFd(x, s)] = state]

CaptureQueued(x, s) == [kern[x] EXCEPT !.cap = Append(@, surf[x][s].dst)]

\* ... the call fails before a buffer is queued, ...
EndUnqueued(x) ==
  LET s == open[x] IN
  /\ Ending(x)
  /\ \/ /\ ~HasRequest(x, s) \/ ~IdleRequest(x, s) \/ "refused" \in Faults
        /\ UNCHANGED <<surf, fds>>
     \/ /\ IdleRequest(x, s)
        /\ "refused" \in Faults \/ CapBusy(x, surf[x][s].dst)
        /\ WithRequest(x, s, "idle")
  /\ open' = [open EXCEPT ![x] = "none"]
  /\ UNCHANGED <<wait, kern>>

\* ... or between the two: the CAPTURE buffer stays with the kernel, ...
EndHalfQueued(x) ==
  LET s == open[x] IN
  /\ Ending(x)
  /\ IdleRequest(x, s) /\ ~CapBusy(x, surf[x][s].dst)
  /\ "refused" \in Faults \/ OutBusy(x, surf[x][s].src)
  /\ \/ WithRequest(x, s, "idle")
     \/ \* both were queued, and the request was refused and closed
        /\ ~OutBusy(x, surf[x][s].src)
        /\ surf' = [surf EXCEPT ![x][s].fd = NoFd]
        /\ fds' = ClosedFds(surf[x][s].fd)
  /\ kern' = [kern EXCEPT ![x] = CaptureQueued(x, s)]
  /\ open' = [open EXCEPT ![x] = "none"]
  /\ UNCHANGED wait

\* ... or everything is on its way.
EndQueued(x) ==
  LET s == open[x] IN
  /\ Ending(x)
  /\ IdleRequest(x, s)
  /\ ~CapBusy(x, surf[x][s].dst) /\ ~OutBusy(x, surf[x][s].src)
  /\ WithRequest(x, s, "queued")
  /\ kern' = [kern EXCEPT ![x] =
       [CaptureQueued(x, s) EXCEPT !.out =
          Append(@, [buf |-> surf[x][s].src, fd |-> RequestFd(x, s)])]]
  /\ wait' = [wait EXCEPT ![x] = [slot |-> s, fd |-> RequestFd(x, s)]]
  /\ UNCHANGED open

\* The device: the oldest coded buffer is decoded into the oldest CAPTURE
\* buffer, both are done, and the request completes.
Hardware(x) ==
  LET k == kern[x]
      job == Head(k.out)
  IN
  /\ k.out # << >> /\ k.cap # << >>
  /\ \E picture \in {coded[x][job.buf]}
                      \cup (IF "corrupt" \in Faults THEN {"bad"} ELSE {}) :
       mem' = [mem EXCEPT ![x][Head(k.cap)] = picture]
  /\ kern' = [kern EXCEPT ![x] = [out |-> Tail(k.out), cap |-> Tail(k.cap),
                                  outDone |-> Append(k.outDone, job.buf),
                                  capDone |-> Append(k.capDone, Head(k.cap))]]
  /\ fds' = IF job.fd = NoFd THEN fds ELSE [fds EXCEPT ![job.fd] = "complete"]
  /\ UNCHANGED <<surf, pool, open, wait, coded>>

\* Mutant of Finished: a timeout of select counts as an answer.
FinishedAnyway(x) == TRUE

\* The request a sync waits for has completed.
Finished(x) ==
  \A k \in 1 .. Len(kern[x].out) :
    kern[x].out[k].buf # surf[x][wait[x].slot].src

\* The number the sync read still names a request that can be reinitialised.
Reinitialisable(f) == fds[f] \in {"idle", "complete"}

\* The end of RequestSyncSurface and of vaEndPicture after a completed wait.
SyncDone(x) ==
  LET s == wait[x].slot
      k == kern[x]
  IN
  /\ wait[x] # NoWait /\ Finished(x)
  /\ Reinitialisable(wait[x].fd)
  /\ k.outDone # << >> /\ k.capDone # << >>
  /\ kern' = [kern EXCEPT ![x].outDone = Tail(@), ![x].capDone = Tail(@)]
  /\ fds' = [fds EXCEPT ![wait[x].fd] = "idle"]
  /\ surf' = [surf EXCEPT ![x][s].status = "Displaying", ![x][s].src = Unassigned]
  /\ pool' = [pool EXCEPT ![x].out = Give(@, surf[x][s].src)]
  /\ wait' = [wait EXCEPT ![x] = NoWait]
  /\ open' = [open EXCEPT ![x] = "none"]
  /\ UNCHANGED <<coded, mem>>

\* Mutant of SyncFails: the OUTPUT index goes back as after a decode.
SyncFailsRecycling(x, k) ==
  /\ fds' = ClosedFds(wait[x].fd)
  /\ kern' = [y \in Streams |-> Forget(IF y = x THEN k ELSE kern[y], wait[x].fd)]
  /\ surf' = [surf EXCEPT ![x][wait[x].slot].fd = NoFd,
                          ![x][wait[x].slot].src = Unassigned]
  /\ pool' = [pool EXCEPT ![x].out = Give(@, surf[x][wait[x].slot].src)]
  /\ wait' = [wait EXCEPT ![x] = NoWait]
  /\ open' = [open EXCEPT ![x] = "none"]
  /\ UNCHANGED <<coded, mem>>

\* Mutant of SyncFails: the surface keeps the number of a closed descriptor.
SyncFailsKeeping(x, k) ==
  /\ fds' = ClosedFds(wait[x].fd)
  /\ kern' = [y \in Streams |-> Forget(IF y = x THEN k ELSE kern[y], wait[x].fd)]
  /\ wait' = [wait EXCEPT ![x] = NoWait]
  /\ open' = [open EXCEPT ![x] = "none"]
  /\ UNCHANGED <<surf, pool, coded, mem>>

\* Its error path closes request_fd by the number it read before it waited.
SyncFails(x, k) ==
  /\ fds' = ClosedFds(wait[x].fd)
  /\ kern' = [y \in Streams |-> Forget(IF y = x THEN k ELSE kern[y], wait[x].fd)]
  /\ surf' = [surf EXCEPT ![x][wait[x].slot].fd = NoFd]
  /\ wait' = [wait EXCEPT ![x] = NoWait]
  /\ open' = [open EXCEPT ![x] = "none"]
  /\ UNCHANGED <<pool, coded, mem>>

\* ... taken when the reinit or a DQBUF fails, ...
SyncBroken(x) ==
  LET k == kern[x] IN
  /\ wait[x] # NoWait /\ Finished(x)
  /\ \/ /\ ~Reinitialisable(wait[x].fd) \/ k.outDone = << >> \/ "refused" \in Faults
        /\ SyncFails(x, k)
     \/ /\ Reinitialisable(wait[x].fd) /\ k.outDone # << >>
        /\ k.capDone = << >> \/ "refused" \in Faults
        /\ SyncFails(x, [k EXCEPT !.outDone = Tail(@)])

\* Mutant of SyncTimesOut: select waits without a timeout.
SyncNeverTimesOut(x) == FALSE /\ UNCHANGED vars

\* ... or when 300 ms pass.
SyncTimesOut(x) ==
  /\ "late" \in Faults
  /\ wait[x] # NoWait /\ ~Finished(x)
  /\ SyncFails(x, kern[x])

\* Mutant of SyncRefused: the result of MEDIA_REQUEST_IOC_QUEUE is not looked
\* at, and the function goes on to dequeue.
SyncUnrefused(x, s) ==
  /\ surf[x][s].status = "Rendering" /\ surf[x][s].fd # NoFd
  /\ surf[x][s].dst # Unassigned
  /\ wait[x].slot = s => "second sync" \in Faults
  /\ kern[x].outDone # << >> /\ kern[x].capDone # << >>
  /\ kern' = [kern EXCEPT ![x].outDone = Tail(@), ![x].capDone = Tail(@)]
  /\ surf' = [surf EXCEPT ![x][s].status = "Displaying"]
  /\ UNCHANGED <<pool, open, wait, fds, coded, mem>>

\* RequestSyncSurface of a rendering surface from any other place: from another
\* thread, or at the head of RequestBeginPicture, RequestDeriveImage or
\* RequestGetImage.  The request is queued already, or empty: MEDIA_REQUEST_IOC_QUEUE
\* fails either way, and the descriptor is closed.
SyncRefused(x, s) ==
  LET f == surf[x][s].fd IN
  /\ surf[x][s].status = "Rendering" /\ f # NoFd
  /\ surf[x][s].dst # Unassigned  \* it has a session
  /\ wait[x].slot = s => "second sync" \in Faults
  /\ fds' = ClosedFds(f)
  /\ kern' = ClosedKern(f)
  /\ surf' = [surf EXCEPT ![x][s].fd = NoFd]
  /\ UNCHANGED <<pool, open, wait, coded, mem>>

\* Mutant of Returned: the test for SURFACE_INDEX_UNASSIGNED dropped.
ReturnedUnchecked(p, i) == Give(p, i)

\* An index goes back on its stack; an unbound one does not.
Returned(p, i) == IF i = Unassigned THEN p ELSE Give(p, i)

\* RequestDestroySurfaces, and the slot is as good as new.
DestroySurface(x, s) ==
  LET t == surf[x][s] IN
  /\ wait[x].slot # s
  /\ t # FreshSurface
  /\ pool' = IF t.status = "Rendering" THEN pool
             ELSE [pool EXCEPT ![x] = [out |-> Returned(@.out, t.src),
                                       cap |-> Returned(@.cap, t.dst)]]
  /\ fds' = ClosedFds(t.fd)
  /\ kern' = ClosedKern(t.fd)
  /\ surf' = [surf EXCEPT ![x][s] = FreshSurface]
  /\ open' = [open EXCEPT ![x] = IF @ = s THEN "none" ELSE @]
  /\ coded' = [coded EXCEPT ![x] = Aged(@, s)]
  /\ mem' = [mem EXCEPT ![x] = Aged(@, s)]
  /\ UNCHANGED wait

\* RequestDestroyContext, and a new one: the session is closed, which cancels
\* what the hardware had, and its surfaces are detached as they are.
DestroyContext(x) ==
  LET cancelled == {j.fd : j \in Elements(kern[x].out)} IN
  /\ wait[x] = NoWait
  /\ surf' = [surf EXCEPT ![x] = [s \in Slots |->
                [@[s] EXCEPT !.src = Unassigned, !.dst = Unassigned]]]
  /\ pool' = [pool EXCEPT ![x] = [out |-> NewPool(MaxBuffers),
                                  cap |-> NewPool(MaxBuffers)]]
  /\ kern' = [kern EXCEPT ![x] = EmptyQueues]
  /\ fds' = [f \in Fds |-> IF f \in cancelled THEN "complete" ELSE fds[f]]
  /\ open' = [open EXCEPT ![x] = "none"]
  /\ coded' = [coded EXCEPT ![x] = [i \in Index |-> "old"]]
  /\ mem' = [mem EXCEPT ![x] = [i \in Index |-> "old"]]
  /\ UNCHANGED wait

Next ==
  \E x \in Streams :
    \/ RenderPicture(x)
    \/ DestroyContext(x)
    \/ EndUnqueued(x) \/ EndHalfQueued(x) \/ EndQueued(x)
    \/ Hardware(x)
    \/ SyncDone(x) \/ SyncBroken(x) \/ SyncTimesOut(x)
    \/ \E s \in Slots : \/ BeginPicture(x, s)
                        \/ SyncRefused(x, s)
                        \/ DestroySurface(x, s)

\* A thread returns from its wait; the device works on what it is given, unless
\* it may be late: then only the timeout is sure.
Fairness ==
  \A x \in Streams : /\ WF_vars("late" \notin Faults /\ Hardware(x))
                     /\ WF_vars(SyncDone(x) \/ SyncBroken(x) \/ SyncTimesOut(x))

Spec == Init /\ [][Next]_vars /\ Fairness

-----------------------------------------------------------------------------
(* What must hold.                                                         *)

\* Every variable stays in its type: no index the kernel never had is queued.
TypeOK ==
  /\ surf \in [Streams -> [Slots -> Surface]]
  /\ pool \in [Streams -> [out : Pool, cap : Pool]]
  /\ open \in [Streams -> Slots \cup {"none"}]
  /\ wait \in [Streams -> [slot : Slots \cup {"none"}, fd : Fds \cup {NoFd}]]
  /\ fds \in [Fds -> {"free", "idle", "queued", "complete"}]
  /\ kern \in [Streams -> [out : Seq(Job), cap : Seq(Index),
                           outDone : Seq(Index), capDone : Seq(Index)]]
  /\ coded \in [Streams -> [Index -> Picture]]
  /\ mem \in [Streams -> [Index -> Picture]]

\* surface.c, surface_release_buffers: "Do not recycle an index while its
\* request can still be in flight."  The hardware reads a coded buffer only
\* while that buffer belongs to the surface that submitted it, or to nobody:
\* whatever is late or refused, no later picture is written over it.
InFlightNotRecycled ==
  \A x \in Streams : \A k \in 1 .. Len(kern[x].out) :
    LET i == kern[x].out[k].buf IN
    /\ i \in Held(pool[x].out)
    /\ coded[x][i] \in Slots =>
         /\ surf[x][coded[x][i]].src \in {i, Unassigned}
         /\ \A s \in Slots : surf[x][s].src = i => coded[x][i] = s
    /\ \A s \in Slots : surf[x][s].src = i => surf[x][s].status = "Rendering"

\* After a completed wait both queues have a buffer to give, although earlier
\* syncs may have timed out: neither VIDIOC_DQBUF of RequestSyncSurface fails
\* with EAGAIN, and no sync dequeues one queue without the other for want of one.
NoEmptyDequeue ==
  \A x \in Streams : wait[x] # NoWait /\ Finished(x) =>
    kern[x].outDone # << >> /\ kern[x].capDone # << >>

\* A request descriptor has one owner, which closes it once: two surfaces, of
\* one stream or of two, never name one number, a named number is open, and
\* an open one is named by a surface.
DescriptorsOwned ==
  LET owners(f) == {o \in Streams \X Slots : surf[o[1]][o[2]].fd = f} IN
  \A f \in Fds : IF fds[f] = "free" THEN owners(f) = {}
                 ELSE \E o \in Streams \X Slots : owners(f) = {o}

\* A surface whose picture can be looked at.
Shown(x, s) == surf[x][s].status = "Displaying" /\ surf[x][s].dst # Unassigned

\* A surface that is shown holds the picture that was begun on it, and the
\* kernel is done with its buffer.
ShownIsOwn ==
  \A x \in Streams, s \in Slots : Shown(x, s) =>
    /\ mem[x][surf[x][s].dst] = s
    /\ ~CapBusy(x, surf[x][s].dst)

\* No thread waits for ever in vaEndPicture.
WaitEnds == \A x \in Streams : wait[x] # NoWait ~> wait[x] = NoWait

-----------------------------------------------------------------------------
(* What a client may rely on while nothing fails.                          *)

Phase(x, s) ==
  CASE wait[x].slot = s                   -> "submitted"
    [] wait[x].slot # s /\ open[x] = s    -> "begun"
    [] Shown(x, s) /\ mem[x][surf[x][s].dst] = s  -> "shown"
    [] Shown(x, s) /\ mem[x][surf[x][s].dst] # s  -> "wrong"
    [] surf[x][s].status = "Rendering" /\ open[x] # s /\ wait[x].slot # s -> "stuck"
    [] OTHER                              -> "idle"

Delivery == INSTANCE PictureDelivery WITH
  phase <- [x \in Streams |-> [s \in Slots |-> Phase(x, s)]]

\* The queues implement PictureDelivery: every picture submitted is shown, on
\* its own surface, and stays until the client begins another or destroys it.
ImplementsDelivery == Delivery!Spec

-----------------------------------------------------------------------------
(* What the source says, and the code does not always do.                  *)

\* README.md: "Syncing a surface waits for the v4l buffer to be available and
\* then dequeue it."  A surface whose sync succeeded has its buffers back.
SyncDequeues ==
  \A x \in Streams, s \in Slots : Shown(x, s) =>
    ~CapBusy(x, surf[x][s].dst)

\* surface.c again, for the CAPTURE side: an index on the free stack is not one
\* the hardware may still write into.
RecycledIsIdle ==
  \A x \in Streams : \A i \in Recycled(pool[x].cap) :
    i \notin Elements(kern[x].cap)

\* VA-DRIVER-DESIGN.md: a CAPTURE buffer with V4L2_BUF_FLAG_ERROR is refused.
ErrorsAreRefused ==
  \A x \in Streams, s \in Slots : Shown(x, s) =>
    mem[x][surf[x][s].dst] # "bad"
=============================================================================
