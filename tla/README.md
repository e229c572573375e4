# A verification of the orangepi5b VA-API driver

`src/va-driver` is a VA-API driver for the Rockchip RK3588S: it gives
applications (browsers, players, GNOME Remote Desktop) the hardware video
decoders through V4L2's stateless request interface, and the H.264 encoder
through its stateful one.  The rest of the repository builds an operating
system image around it: kernel patches, distribution patches, shell scripts.
The driver is where state is shared between threads, where calls fail half-way
and where memory is handed from one owner to another, so the driver is what
this project models.

Paths below are relative to `src/va-driver/src` unless they start with `src/`.

## 1. Inventory

| Part | State | Operations | What is hard | What makes it correct |
|---|---|---|---|---|
| **Driver lock** `sync.c` | one mutex per display | every VA entry point but `vaTerminate` is wrapped in it | the one place the lock is dropped, the hardware wait of `RequestSyncSurface` (`surface.c:520`) | whoever looked something up before the wait may still use it after |
| **Surfaces** `surface.c`, `surface.h` | session, OUTPUT and CAPTURE index, request descriptor, status, role, format, dma-buf | create, destroy, sync, query, export, derive | surfaces exist before and after the contexts that use them; a client holds dma-bufs of their buffers | a buffer has one owner; an exported buffer keeps its meaning |
| **Contexts and pictures** `context.c`, `picture.c` | the session, the surface being rendered | create, destroy, begin, render, end | half of every call may fail after it has taken something; two contexts share the surfaces | a picture's buffers stay its own until it is done; failures put back what they took |
| **Sessions** `session.c`, `session.h` | two V4L2 queues, index counters and free stacks, layout, streaming flag | open, program, adopt the probe session, switch bit depth, close | the *probe* session is opened on a guess and moved into a context later; AV1 replaces the CAPTURE queue in `vaEndPicture` | no one names a queue that is closed or was replaced |
| **Kernel queues, media requests** `v4l2.c`, `media.c` | buffers queued, being worked on, done | queue, dequeue, request alloc/queue/wait/reinit | completion is asynchronous; the driver waits 300 ms and goes on; `DQBUF` returns the oldest done buffer, whichever that is | a buffer the hardware may write is not given to another picture; a picture's sync returns that picture |
| **Encoder** `encode.c` | two rings of buffers, slots with dma-buf and mapping, packed headers, last bitstream | create, submit, collect, destroy | two queues must stay paired; a 2 s wait under the lock may time out and answer late | bitstream n is that of frame n |
| **Object heaps** `object_heap.c` | slots, free list, bucket array | allocate, look up, free, iterate, destroy | ids are recycled at once; entry 0 of a bucket | an id names one live object; free slots are not looked up |
| **Buffers, images** `buffer.c`, `image.c` | memory, derived-surface link, mapping counts | create, map, unmap, acquire, release, destroy, derive | an image of an encode surface *borrows* the kernel's mapping; its buffer must not free it, and outlives the surface | nothing borrowed is freed; nothing freed is mapped |
| **Pool sizing** `context.c:88-154` | none | `pool_depth`, `request_buffers_backoff` | divisions, clamps and halving over wide ranges | a pool always fits the free stack; back-off ends |
| **Codec controls** `h264.c h265.c vp9.c vp9_parser.c vpx_rac.c av1.c` | H.264 DPB, VP9 reference slots and loop-filter deltas, AV1 tile groups | one `*_set_controls` per picture | reference timestamps of surfaces that were destroyed or never decoded | a reference names a picture of the same stream |
| **Configs, devices** `config.c device.c request.c video.c` | config heap, the open devices | create/query config, find decoder, encoder and media nodes, initialise, terminate | error paths of initialisation; the order of `vaTerminate` | nothing is used after it was closed |
| **Subpictures, logging** `subpicture.c utils.c` | none | stubs, `fprintf` | nothing | nothing |
| **Kernel patches** `src/config/patches/linux-7.1.8` | - | - | diffs against a tree that is not here | not modelled |
| **Image build** `src/scripts src/packages src/config src/spike` | files | shell and Python around external tools | nothing concurrent | not modelled |

The parts interact by calls under one lock and by shared state: a surface names
a session, a session's queue lives in a context or in the display, a context
names the surface it renders, an image names the surface it derives from.  The
kernel acts on its own: it completes requests while the lock is free.  The
client's threads interleave arbitrarily between calls, and within
`vaEndPicture` at the hardware wait.  Nothing is persisted, so there is no
recovery to model; there are no callbacks.

## 2. Modules

| Module | Models | State of work |
|---|---|---|
| `BufferPool` | the index allocator of one V4L2 queue | done |
| `BufferPoolProofs` | its invariant, for every size | proved |
| `DecodeSession` | surfaces, contexts, sessions, and the pictures that use them | done |
| `DecodeSessionProofs` | its five invariants and both action properties, for all constants | proved |
| `DecodeQueue` | the kernel's two queues under a decode stream, requests, descriptors, time-outs, failures | done |
| `PictureDelivery` | abstract: what a client may rely on while nothing fails; `DecodeQueue` implements it | done |
| `DecodeQueueProofs` | every invariant of `DecodeQueue`, and that its steps are steps of `PictureDelivery` | proved |
| `EncodeRing` | the encoder's two rings and one call of `vaEndPicture` at a time | done |
| `EncodedStream` | abstract: what a client of the encoder may rely on whatever fails; `EncodeRing` implements it | done |
| `EncodeRingProofs` | every invariant of `EncodeRing`, and that its steps are steps of `EncodedStream` | proved |
| `ObjectHeap` | object ids and their free list, as operators on a record | done |
| `Images` | buffers, images, and the store of encode surfaces they borrow | done |
| `ImagesProofs` | what allocating and freeing preserve and change, for buckets of any size; every invariant of `Images`, for all constants | proved |
| `Positions` | what a loop keeps of a list, by the positions it picks, as operators | done |
| `DecodeControls` | what each codec tells the kernel of a picture's references and running state, as operators | done |
| `PictureParameters` | the decode parameters of a context from `vaBeginPicture` to the request, with a client and its stream | done |
| `EncodeParameters` | the encode parameters: collected, compared with what was applied, packed headers | done |
| `ContextParameters` | the two together, as `picture.c` branches on `is_encoder` | done |
| `ContextParametersProofs` | every invariant of it, for all constants | proved |
| `PoolSizing` | the arithmetic of `pool_depth` and the back-off ladder | done |
| `Av1Geometry` | what VA-API does not carry for AV1: skip mode references, uniform tiles, the tile size field, tile offsets | done |
| `Vp9Headers` | both headers of a VP9 frame, as the driver reads them and as an encoder writes them | done |
| `RangeDecoder` | the 16-bits-ahead range decoder, next to the specification's bit-by-bit one | done |
| `AnnexB` | framing of NAL units, and the search for the first slice in the result | done |
| `Capabilities` | which device nodes are opened and what is advertised of them; configs | done |
| `Algorithms` | composes the five above and `PoolSizing`: asks each function for one input at a time | done |
| `LoopProofs` | induction, folds and lists of positions: what the proofs about loops need | proved |
| `AlgorithmsProofs` | every invariant of `Algorithms`, for every input | proved |
| `MCDecodeSession`, `MCDecodeQueue`, `MCImages`, `MCContextParameters`, `MCAlgorithms` | constants, inputs and symmetry sets for TLC | - |

`DecodeSession` and `DecodeQueue` both extend `BufferPool`, whose pools are
values: the modules that own a pool keep it in their state.  `Images` extends
`ObjectHeap` in the same way.  The two decode modules divide
`RequestEndPicture` and `RequestSyncSurface` between them: `DecodeSession`
knows which session a buffer belongs to and lets the hardware answer at once or
not at all; `DecodeQueue` gives each stream its own surfaces and models what
the kernel does with the buffers in between; `PictureParameters` says what the
request carries, and takes a picture that was queued for decoded.

The pure functions are operators on sequences, sets and records, each beside a
reference definition that is not the algorithm: a largest or a nearest element
chosen from a set, an encoder that wrote the bits, a decoder that reads one bit
at a time.

### How the models correspond to the code

*One call, one action.*  All entry points in `sync.c` hold one mutex from
beginning to end, so a call is an action.  Where the code drops the lock,
`surface.c:520`, the call is cut in two: `EndPicture` (or `EndQueued`) leaves
the caller in `waiting` (`wait`), and the rest of the call is an action of its
own that any other call may precede.  `vaTerminate` takes no lock; it is
modelled in `Images`, where nothing waits.  The encoder does not drop the lock
while it polls, so only the device acts between `Submit` and `Deliver`.

*Failures.*  Every ioctl and mmap may fail; a failure is a disjunct or an
action that leaves what the code leaves.  `DecodeSession` always has them all.
`PictureParameters` cuts `vaEndPicture` into how far it gets, because what it
leaves behind differs: before the timestamp, after it, after the queues started,
after the codec changed the context, after the request was queued.  The other
stateful modules have a constant `Faults`, so that each promise is checked under
the faults it survives and the violation runs need only the one they are about.

| State | In the code |
|---|---|
| `DecodeSession!sess` | `object_context.session` of each context, `request_data.probe_session` for `Probe` |
| `DecodeSession!surf` | `object_surface`; `req` abstracts `request_fd` |
| `DecodeSession!target` | `object_context.render_surface_id` |
| `DecodeQueue!fds` | the process's descriptor table as far as media requests go |
| `DecodeQueue!kern` | vb2's queued and done lists (outside the repository) |
| `DecodeQueue!coded`, `mem` | whose picture a buffer holds: what the memory contains |
| `EncodeRing!next` | `encode_context.next_raw` and `next_coded`, always stepped together |
| `EncodeRing!kern`, `raw`, `coded` | the encoder's queues and what its buffers contain |
| `EncodeRing!given` | what each `vaEndPicture` returned (history) |
| `Images!heap`, `surface`, `buffer`, `image` | the three heaps and the objects in their slots |
| `Images!memory` | what `malloc` and the dma-heap have handed out (outside the repository) |
| `Images!source` | which images the client holds, and of which surface (history) |
| `PictureParameters!surface` | `object_surface` and the part of its `params` that outlives a picture: session, timestamp, H.264 matrix, AV1 order hint |
| `PictureParameters!sent` | the picture parameters in the target's `params` |
| `PictureParameters!context` | `vp9_state`, `av1_sequence`, `av1_sequence_sent` |
| `PictureParameters!device` | the sequence control last set, and which picture each buffer holds (the kernel, outside the repository) |
| `PictureParameters!client` | the client and its stream: reference slots, what the state should be (environment) |
| `PictureParameters!job` | of the picture just decoded, what was meant and what was told (history) |
| `EncodeParameters!encode` | `applied_*` and `sequence_seen` of `encode_context` |
| `EncodeParameters!asked`, `pairs` | what the client asked for (history) |
| `Algorithms!asked`, `answer` | a function's input and its result |

A picture, a bitstream, a block of memory is a model value or a number; sizes
are a set of model values; time does not pass, a time-out may happen at any
moment of a wait.

### What clients are assumed to do

 - One thread drives a context: begin, render and end come in order, although a
   picture may be abandoned and any other call may come from any thread.
 - Nobody destroys a surface or context that another thread is waiting on; the
   comment at `surface.c:513` says that the driver relies on it.
 - A picture whose surface was destroyed is not ended on the surface that
   recycles the id.
 - References, in `PictureParameters`.  A key picture reads nothing; another
   reads slots whose picture was decoded in this context.  A surface named by
   such a slot is neither decoded into nor destroyed.  Other slots may keep stale
   ids: without more ado in AV1 and VP9, and in H.264 and HEVC flagged
   `INVALID` or of a surface that is gone.
 - A client that sent an H.264 scaling matrix with a surface sends one with every
   later picture on it.  The driver never clears `params.h264.matrix`, although
   `h264.c:363` speaks of streams without one; VA-API leaves the case open.
 - Images and buffers are destroyed by who was given them, once.  A surface may
   be destroyed before the images derived from it; those are then only
   destroyed, not mapped.

## 3. Plan

The order is by what hurts most when it goes wrong.

 1. `BufferPool`, `DecodeSession`: who owns a V4L2 buffer (done, proved).
 2. `DecodeQueue`, `PictureDelivery`: which picture is in it (done, proved).
 3. `EncodeRing`, `EncodedStream`: which bitstream is returned (done, proved).
 4. `ObjectHeap`, `Images`: who owns memory (done, proved).
 5. `DecodeControls`, `PictureParameters`: which references, hints, matrix and
    running state a picture is decoded with (done, proved).
 6. `EncodeParameters`, `ContextParameters`: the settings and headers of an
    encoded picture (done, proved).
 7. `PoolSizing`, `Av1Geometry`, `Vp9Headers`, `RangeDecoder`, `AnnexB`,
    `Capabilities`, `Algorithms`: the pure functions (done, proved).
 8. An abstract `SlotOwnership` (buffers have owners and travel between them)
    that `DecodeSession` implements.
 9. `vaInitialize` and `vaTerminate` with their error paths, `request.c`.

Every invariant and action property that a run checks has a theorem.  Worth
proving next is that `DecodeSession` implements the abstract `SlotOwnership`,
from `Owned` and the relations between worlds that its proofs already have.

## 4. Runs

| Run | Checks | Bounds |
|---|---|---|
| `sessions` | `TypeOK SessionsAlive PictureOwned WaitIsForPicture ExportedBufferStays` | 2 contexts and the probe, 2 surfaces, 2 codecs, pools of 1 |
| `depth` | `BuffersOwned SessionsAlive ExportedBufferStays OnlyBrokenPicturesLoseIndices` | AV1, 1 context and the probe, 2 surfaces, pools of 2, NV12 and P010 |
| `sound` | `TypeOK ShownIsOwn ImplementsDelivery`, no faults | 1 stream, 3 surfaces, pools of 2 |
| `faults` | `InFlightNotRecycled NoEmptyDequeue WaitEnds`, all faults | 1 stream, 2 surfaces, pools of 3 |
| `streams` | `DescriptorsOwned`, late answers and refused ioctls | 2 streams of 2 surfaces, 3 descriptors |
| `dequeue` | `SyncDequeues`, violated by one late answer | 1 stream, 2 surfaces |
| `recycle` | `RecycledIsIdle`, violated by one refused ioctl | 1 stream, 2 surfaces |
| `encode` | `TypeOK NextIsFree OrderKept OwnUntilFailure ImplementsStream` | rings of 4, the real size; 9 pictures per context |
| `images` | `TypeOK FreeListsSound MemoryOwned ImageOwnsBuffer AliasTracksSurface` | 2 surfaces, 3 buffers, 2 images, 4 blocks, buckets of 2 |
| `parameters` | `ReferencesAreMeant ReferencesKept StateFollowsStream EncoderRunsAsAsked HeadersGoFirst` | all four codecs and the encoder; 3 surfaces, 2 slots, 2 sequences, 1 matrix, 3 calls of `vaEndPicture`; 2 encoded pictures of up to 7 buffers |
| `algorithms` | `PoolFits BackoffUsesMemory SkipModeIsNearest TilesAreTheEncoders HeadersAreRead RangeDecoderIsSpec FirstSliceIsFound RightDevices ConfigsAreHonoured` | the inputs of `MCAlgorithms` |
| `partition` | `PartitionSizeFound`, violated | the same inputs |

Why the bounds are enough:

 - *Contexts, surfaces, sessions.*  Every property of `DecodeSession` relates at
   most two surfaces and two sessions; two contexts and the probe session give
   every pair of sessions, and the adoption of the one by the other while a
   third is in use.  Pools of 1 are exhausted at once, and a second surface
   finds them so; pools of 2 in `depth` let an index be returned while another
   is out, which is where a stack could hold one twice.  The theorems below
   cover all sizes.
 - *Queues.*  Three surfaces over two buffers have one surface wait for the
   other's index (`sound`); two surfaces over three buffers leave an index to be
   recycled while one is in flight and one is late (`faults`).  Two streams
   share a table of three descriptors, so numbers are recycled between them at
   once (`streams`).
 - *Rings.*  Nine pictures go twice around a ring of four and once more, with up
   to nine failures: more than are needed to fill it.
 - *Heaps.*  Three buffers in buckets of two have the buffer heap expand; two
   surfaces and two images fill a bucket.  Four blocks are one less than the
   objects may want, so that memory also runs out without a fault, and a block
   is reused as soon as it is freed.

 - *Parameters.*  `Calls` counts the timestamps taken: with three, a picture can
   fail between the one that is referred to and the one that refers to it, a
   surface can be decoded into twice, or two references can be read by a third.
   Three surfaces are one more than the slots, so that there is a free one, and a
   stale id beside a valid one.  `MaxPacked` is 2 and `Capacity` 3 bytes in
   place of 8 and a megabyte, so that both are exceeded; seven buffers are three
   headers and a picture, or every kind of parameter at once.  `Surfaces` is
   symmetric: ids are only compared.
 - *Algorithms.*  Pool sizes: from the smallest to 8192 pixels, both codecs'
   limits and both depths.  Order hints: the whole 3-bit circle for three
   references, and fields of 0 and 1 bits.  Tiles: each width of up to 65 blocks
   of 64, one pixel less and one more.  VP9: each combination of the conditions
   in the headers.  Range decoder: each refill position.  NAL units: each with
   bytes that look like a start code.  `/dev`: each order of the nodes.

`CHECK_DEADLOCK` is on, since a surface, a context or a display can always
be destroyed and created again, but for `parameters`, which stops at its bounds.

### What each run shows

`sessions` and `depth`.  Whatever other threads call while `vaEndPicture` waits,
the surface it looked up before is still its surface, with its buffers, on its
session, rendering (`PictureOwned`); nobody names a closed session or a slot
that another context has taken (`SessionsAlive`); a buffer that was exported
keeps queue, index and layout until its surface or its context goes, also when
the probe session moves into a context or AV1 replaces the CAPTURE queue
(`ExportedBufferStays`); and no failing call loses an index, except that a
surface destroyed before its decode completed takes its own with it
(`OnlyBrokenPicturesLoseIndices`).

`sound`.  Without faults every picture that is submitted is shown, on its own
surface, and stays until the client does something to it: `DecodeQueue`
implements `PictureDelivery`.

`faults` and `streams`.  With faults less holds: a coded buffer the hardware
reads is not written over, a completed wait finds a buffer in each queue, every
wait ends, and a descriptor number has one owner.  `second sync` is not among
the faults of `streams`: it breaks `DescriptorsOwned`, see section 7.

`encode`.  A late bitstream is returned by a later call; `EncodedStream` says
what remains true then: each bitstream is returned once, was submitted, and
every call returns.  As long as fewer calls have failed than a ring has
buffers, the next buffer is free, with at most as many failures as that the
bitstreams come in order, and until the first failure each call returns its own
picture.  These bounds are tight: TLC finds counterexamples with one failure
more.

`images`.  Memory has exactly one owner at all times, so nothing is freed twice
and `vaTerminate` leaves nothing behind; an image and its buffer belong
together; the free lists stay sound when calls give back ids half-way; a
derived image borrows the store of the surface the client derived it from.

`parameters`.  Each picture is decoded from the pictures, order hints and scaling
matrix its stream means, although surfaces name pictures by an id that is
recycled and by a timestamp that a failed call may have taken
(`ReferencesAreMeant`); the device still holds what the client may read
(`ReferencesKept`); the running state follows the stream through failures
(`StateFollowsStream`), with two exceptions that are part of the property: the
updates of a VP9 header that was never read because the call failed before it,
until a picture resets them, and an AV1 sequence that went down with its
request, until it changes.  The encoder runs with what was asked for last
(`EncoderRunsAsAsked`, but for a QP of 0 asked for first), and the packed headers
go ahead of the bitstream in order, the first eight of them (`HeadersGoFirst`).

`algorithms`.  Each function gives what its reference definition says.  A VP9
header is compared field by field with what an encoder writes, so one field too
many or too few shows in all that follow.

### Fairness

`DecodeSession`, `Images`, `ContextParameters` and `Algorithms` state none: their
properties are safety.

`DecodeQueue` assumes weak fairness of the return from a wait, which is what a
thread in `poll` with a time-out of 300 ms has, and of the hardware only while
`"late"` is not among the faults.  With it the hardware need never answer, and
`WaitEnds` then rests on the time-out alone.  No fairness is assumed of the
client: it may stop calling.  `EncodeRing` assumes the same of its own poll of
2 s and of the encoder.

## 5. Findings

Each is a run that ends in a violation of what the repository itself says.

 - `dequeue`: after one time-out, each sync dequeues the buffer of the picture
   before; a surface is displayed while its own buffer is still queued.
 - `recycle`: a refused OUTPUT buffer leaves the CAPTURE buffer of its picture
   queued; its index can be recycled while the hardware has it.
 - `partition`: `vp9_parser.h:59` says that the parser exposes the same value as
   `first_partition_size`.  In an intra or error-resilient frame with
   segmentation the parser takes the updates of the map and of the data for
   implied and reads no flags for them (`vp9_parser.c:278`).  The stream codes
   both, so every field behind is read from the wrong place.

Four more disagreements with what the repository says are kept as definitions
and no run: TLC refutes each as soon as it is added to the run named here.

 - `NoIndexLeak`, to `depth`: `session.h:43` says that `vaDestroySurfaces`
   returns the indices of the surface.  When the sync of a rendering surface
   fails, they are lost, and the pool is smaller for the rest of the session.
 - `DescribedAsStored`, to `depth`: a surface created for 10 bits and exported
   from an 8-bit probe session is described as P010 over an NV12 buffer.
 - `ErrorsAreRefused`, to `faults`: a frame with `V4L2_BUF_FLAG_ERROR` is
   displayed like any other.
 - `TileSizeFound`, to `partition`: `av1.c:319` takes the gap between two tiles
   for the width of a size field.  The last tile of a group has no such field, so
   with two tiles there is no gap and the width stays at its default of four.

## 6. Proofs

`BufferPoolProofs` proves that taking, giving back and both in a row preserve
`PoolOK` and change what is held by exactly the index in question.  They are
lemmas about operators, used by name below.

`DecodeSessionProofs` proves, for any sets of contexts, surfaces, codecs, sizes
and layouts and any pool sizes, `Spec => []` of each of

| Theorem | Property |
|---|---|
| `TypeCorrect` | `TypeOK` |
| `BuffersAreOwned` | `BuffersOwned` |
| `SessionsStayAlive` | `SessionsAlive` |
| `PicturesStayOwned` | `PictureOwned` |
| `WaitsAreForPictures` | `WaitIsForPicture` |

and of the two action properties

| Theorem | Property |
|---|---|
| `ExportsKeepTheirBuffers` | `ExportedBufferStays` |
| `OnlyBrokenLoses` | `OnlyBrokenPicturesLoseIndices` |

They rest on `SessionAssumption` and `MaxBuffersAssumption` and nothing else.
The invariant is one conjunction, because none of its parts is inductive alone:

    IInv == TypeOK /\ Owned(Here) /\ SessionsAlive /\ PictureOwned /\ WaitIsForPicture

 - `Owned(w)` is `BuffersOwned` of a *world* `w`, a record of sessions and
   surfaces.  A call is a composition of helpers, each from worlds to worlds
   (release the coded buffer, bind it, bind the CAPTURE buffer, adopt the probe
   session), so each helper has a lemma that says it keeps `Owned` and what else
   it leaves alone, and a call's step composes the lemmas.
 - That a bound index is *held* by its pool needs the session the surface names
   to exist: `SessionsAlive`.  When a context is destroyed its pools are
   replaced, and that is sound because no surface is left on it.
 - `SessionsAlive` needs `PictureOwned`: an adoption replaces the context's own
   session, sound because a context that may adopt has no picture open on it.
 - A change of bit depth replaces a CAPTURE pool.  It is refused while any
   surface has a buffer of it; the surface for which it happens has none yet.
 - `WaitIsForPicture` relates the hardware's half of a call to the picture; the
   failing paths of a sync use it.

The proof that a step preserves `IInv` has one lemma per action and one step per
conjunct.  The last theorem combines them with the initial condition by PTL.

The action properties relate two worlds and are proved the same way: `Stays` and
`StaysBound` (a buffer that was bound is where it was), `LosesNothing` and
`LosesAtMostMoves` (a held index is bound to a surface, but for those of one surface)
hold of each helper and of a call by composition, from the invariant before the
step.  Only the destruction of a surface that never completed loses an index.

`ContextParametersProofs` proves `ContextSpec => []` of each of

| Theorem | Property | Invariant |
|---|---|---|
| `EncoderAsAsked` | `EncoderRunsAsAsked` | `Remembered` |
| `PicturesKept` | `ReferencesKept` | `Kept` |
| `StateFollows` | `StateFollowsStream` | `Kept /\ Follows` |
| `ReferencesMeanPictures` | `ReferencesAreMeant` | `Kept /\ Meant` |
| `HeadersInFront` | `HeadersGoFirst` | `HeadersCollected` |

for any surfaces, slots, streams, buffers and bounds, from
`PictureParametersAssumption`, `EncodeParametersAssumption`, `BuffersAssumption`
(a buffer has one of the types that `encode_params_collect` looks at; it passes
over the others) and `ContextParametersAssumption` (a context decodes one of four
codecs, or encodes).

 - `Remembered`: of each control the device has what the context remembers, or
   its own setting while the context remembers nothing.  An equal value is then
   an applied one unless it is the 0 that stands for nothing, which is why
   `Remembered` says which controls may ask for a 0, and why the level needs
   `sequence_seen`.
 - `Kept`: a slot that can be read names a live surface whose timestamp *and*
   whose buffer are those of the slot's picture, and the surface being rendered
   is none of them.  The second keeps a new timestamp or a new picture away
   from a reference; the first makes AV1's map, built from timestamps, name what
   the device holds, so that nothing is retired too early.
 - `Follows`: while a picture is between `vaRenderPicture` and `vaEndPicture`,
   what its controls will be filled from is what its stream means, unless an
   update was missed; between pictures the context's state is the stream's.
   That an inter picture never meets an uninitialised context rests on `Kept`'s
   slots: it reads something, so something was decoded.  For AV1, a sequence
   taken for sent implies streaming, so that starting the queues cannot replace
   it behind the context's back.
 - `Meant`: the surface of a slot that can be read is of this session and
   remembers the hint it was decoded with; only H.264 has a matrix, and the
   target's is the picture's.  `Kept` makes a reference's timestamp find its
   picture; what is left is that the lists of references are the right lists.
   Their loops keep some positions of a list, and `InOrder` lists a set of
   positions: the rank of a member grows with it, so rank is an injection of a
   finite set into as many numbers, so it is onto, and each position is listed
   once, at its rank (`ListedInOrder`).
 - `HeadersCollected`: of the pairs that the client sent only the last can wait
   for its data, what is pending is its parameters, and what is collected are
   the first `MaxPacked` of those that came.  The raw ones then stand at the same
   positions of both lists.

Records are described by their domains, not by a set of records, because the
prover needs no more than that a field that is updated is there.

`EncodeRingProofs` proves, for rings of any two sizes, any number of pictures and
any faults, from `RingAssumption`,

| Theorem | Property |
|---|---|
| `RingTyped` | `TypeOK` |
| `RingNextIsFree` | `NextIsFree` |
| `RingOrderKept` | `OrderKept` |
| `RingOwnUntilFailure` | `OwnUntilFailure` |
| `RingStream` | the safety half of `ImplementsStream` |

from the invariant

    IInv == TypeOK /\ LinesOK /\ Fresh /\ PendingOrdered /\ OwnUntilFailure

 - The two queues of a ring, done and queued, are one *line* of buffers, in which
   a buffer does not move when the device is done with it.  `LinesOK` says that
   no buffer stands in it twice, and that it lags behind the next one to be
   queued by no more than the calls that have failed: each call that ends puts a
   buffer at the end, and only one that succeeds takes one from the front.
 - `Fresh` and `PendingOrdered` say of the pictures in the line that they were
   not returned before and, for as long as no buffer is queued over another,
   that they are in order and later than those returned.

The first part of `ImagesProofs` has what allocating, expanding and freeing do to
the free list, for buckets of any size.  That the list ends and names each free
slot once is a numbering of the free slots that grows along the list, in place of
a walk.  The second part uses it to prove, for any number of surfaces, buffers,
images and blocks and any faults, from `ImagesAssumption` and
`HeapIncrementAssumption`,

| Theorem | Property |
|---|---|
| `ImagesTyped` | `TypeOK` |
| `FreeListsStaySound` | `FreeListsSound` |
| `MemoryHasOneOwner` | `MemoryOwned` |
| `ImagesOwnTheirBuffers` | `ImageOwnsBuffer` |
| `AliasesTrackSurfaces` | `AliasTracksSurface` |

from one invariant that adds to these properties that ids are in range, and
splits `MemoryOwned` into `BlocksOwned` (what an object will free is allocated,
what is allocated will be freed) and `BlocksDistinct` (by one of them).  They
need each other: a block that is freed is nobody else's by `BlocksDistinct`; the
buffer freed with an image is no other image's by `ImageOwnsBuffer`; and an id
handed out names nothing by the free lists.

`DecodeQueueProofs` proves, for any streams, surfaces, pool sizes and number of
descriptors, from `QueueAssumption` and `MaxBuffersAssumption`,

| Theorem | Property | Under |
|---|---|---|
| `QueueTyped` | `TypeOK` | any faults |
| `InFlightIsNotRecycled` | `InFlightNotRecycled` | any faults |
| `NoDequeueIsEmpty` | `NoEmptyDequeue` | any faults |
| `DescriptorsStayOwned` | `DescriptorsOwned` | any but `second sync` |
| `ShownStaysOwn` | `ShownIsOwn` | no faults |
| `PicturesDelivered` | the safety half of `ImplementsDelivery` | no faults |

each under the faults that its run allows, since more break it (sections 5 and 7).

 - `IInv`, under any faults: an index belongs to one surface, which holds it
   (`IndicesOwned`); a begun picture has both (`BegunBound`); what the hardware
   reads is held by a surface that renders, or by none (`ReadsOwn`); and what a
   wait is for is with the hardware or done, with no more coded buffers done
   than decoded ones (`AnswersComing`), which is what makes the second of two
   `DQBUF`s succeed even if it returns another picture.
 - `DInv`, without a second sync: the open descriptors are those of the surfaces,
   one each, a wait is for its surface's, and every job of the hardware is
   queued under a number of its own.  A closed number is forgotten by the
   kernel's queue at once, so recycling it is no danger.
 - `EInv`, without faults: the queues of a stream are empty, or hold the one
   picture that is waited for, queued or decoded; a shown surface has its own.
   Here `DQBUF` cannot return any other, which is the refinement.

`LoopProofs` is what lets a theorem speak of a loop over data of any length.  The
provers cannot instantiate an induction theorem that takes an operator, so
`Induction` takes a *set* of numbers: 0 is in it, with each number the next is,
so all are, because a set of numbers that is not empty has a least one
(`LeastNumber`).  What is to be shown of `n` is membership of `n` in the set of
numbers of which it holds.  From that, `Iterates`: a step can be taken any number
of times; and `FoldExists`: the function that a fold of the community modules
chooses exists.  So each loop of the code has a lemma `...InTurn` that unfolds
it into the sequence of values it takes, a base and an equation for each step,
and the rest of its proof is an induction over that sequence.

`AlgorithmsProofs` proves

| Theorem | Property |
|---|---|
| `PoolsFit` | `PoolFits` |
| `BackoffsUseMemory` | `BackoffUsesMemory` |
| `SkipModeNearest` | `SkipModeIsNearest` |
| `UniformTilesAreRight` | `UniformTilesAreTheEncoders`, the first half of the next |
| `TilesRight` | `TilesAreTheEncoders` |
| `HeadersRight` | `HeadersAreRead` |
| `RangeDecoderRight` | `RangeDecoderIsSpec` |
| `FirstSliceFound` | `FirstSliceIsFound` |
| `DevicesAreRight` | `RightDevices` |
| `ConfigsHonoured` | `ConfigsAreHonoured` |

for every picture size, amount of memory, list of references, tile group, header,
frame, sequence of units, order of `/dev` and list of attributes.  The invariant
`Computed` says that the answer is that of the function; the rest is about the
functions.

 - *Skip mode.*  A distance is a hint minus another, wrapped into half the range
   on each side.  The first pass keeps, on each side, the first of the nearest
   seen so far (`FirstPass`), the second the first of the nearest that are
   farther back (`SecondPass`); the reference definition takes the least of the
   squared distances, and among distances of one sign the two orders agree
   (`NearestIsFirst`).
 - *Tile groups.*  Each tile lies where its entry says, behind the tile before
   and its size field (`GroupWritten`); moving the data to a multiple of 16
   before the first tile moves all entries alike (`Rebased`); and each gap is the
   width of a field (`GapsAreFields`), which leaves nothing to measure with two
   tiles.
 - *NAL units.*  `FramedLayout` says what the buffer holds after any number of
   units: two zeros are followed by a byte below 3 where a unit begins and
   nowhere else.  A start code that the search sees is therefore a unit's
   (`UnitsFound`), and the least place is that of the first unit of a kind.
 - *Range decoder.*  Let `T[n]` be the number that the first `n` bits of the
   frame make, with zeros behind its end.  Both decoders hold a distance to a
   prefix of the frame: the specification's, at bit `n`, is `value - T[n]` above
   what has been consumed, and the driver's is the same with the bits it is ahead
   below it,

       code = (value - T[n]) * 2^16 + T[n - bits] * 2^(16 + bits)

   (`AtSame`).  What is below is less than one unit of the bit compared, so both
   compare alike with where the interval is split (`Compares`).  A
   renormalisation keeps the equation whether it fetches two bytes, one, or none
   because the frame has ended (`Renews`), so they are together again a bit later
   (`TogetherAgain`), and by induction for as long as bits are read.
 - *VP9's headers.*  Concatenation is associative and an absent field is an empty
   list, so a header is compared section by section, each section by the
   conditions of its fields.  The intra, the error-resilient and the inter frame
   are cases; `Each` of any number of features is compared position by position
   (`LoopProofs` again).  The number of bits in the tile columns' increment is the
   driver's loop against the least and the greatest logarithm that satisfy the
   specification's inequalities (`LeastTilesAgree`, `MostTilesAgree`).
 - *Configs.*  What is kept after each attribute is the attributes so far that
   have been kept, and the last format (`AttributesKeptInTurn`).

The assumptions, `AlgorithmsAssumption` and `CapabilitiesAssumption`, say what
the functions are asked for.

 - A back-off of at most 64 buffers: `pool_depth` clamps to 64.
 - At most 6 as the logarithm of AV1's tiles, since 64 columns are the most a
   frame has, and sizes of one to four bytes.  A group has at least one tile.
 - Hints of at most eight bits; a frame and its probabilities are bytes.
 - A header is one that an encoder can write (`IsHeader`, `IsCompressed`): a width
   of at most 16 bits, tile columns between the least and the greatest number;
   a lossless frame codes the smallest transform, and one that cannot predict
   from two references predicts from one.  `HeadersAreRead` leaves out intra and
   error-resilient frames with segmentation, see `partition`.
 - Units as an encoder makes them, without a start code in them and not ending
   in a zero, that fit the buffer: a picture that does not is not decoded.
 - A machine with one block of each name that is looked for, and room for at
   least one attribute.

Only model-checked:

 - that every wait ends (`WaitEnds`), and the fairness of the abstract modules in
   `ImplementsDelivery` and `ImplementsStream`: liveness needs `ENABLED`, which the
   prover does not have.  The safety half of both refinements is proved;
 - the definitions of section 5, which TLC refutes.

Every invariant and every action property of a passing run is a theorem.

## 7. Not modelled, and why

 - The driver lock's wrappers (`sync.c`): one macro, expanded per entry point;
   that a call is one action is its model.
 - Fields that a codec's `fill_*` function copies from VA-API to V4L2 one by one:
   no property tells them apart.  What is derived, looked up or remembered is
   modelled.
 - Copying an image row by row and its pitches; `vaMapBuffer` and its dma-buf
   brackets, `vaAcquireBufferHandle`; `drm_fourcc.h`, a vendored table.
 - `vaInitialize` and the order of its error paths: a straight line with no
   second actor.  Which devices it finds is `Capabilities`; `vaTerminate` is in
   `Images`.
 - Subpictures and logging: stubs.
 - AV1's late bind in `DecodeQueue`: there every CAPTURE buffer is bound by
   `vaBeginPicture`.  `DecodeSession` has both.
 - An AV1 picture in several `vaRenderPicture` tile groups: the algorithms take
   one group.
 - The encoder's entropy mode and 8x8 transform, set for each picture whatever
   was set before.
 - Rings of different lengths: the constants allow them, the run uses the real
   sizes.
 - What a free slot of a heap holds: `vaCreateSurfaces`, `vaCreateContext`,
   `vaCreateBuffer` and `vaCreateImage` set it anew.
 - Kernel patches, the image build, and the experiments.

Observations that are not runs, since no line of the repository says otherwise:

 - A wrong guess of the probe session's codec (`surface.c:243`) strands the
   surfaces that were exported through it: no context of the real codec can
   decode into them, as `context_adopt_probe_session` refuses.
 - A second `vaSyncSurface` while `vaEndPicture` waits fails to queue the
   request and closes the descriptor (`surface.c:554`), which fails the first;
   with two streams the first then closes a number that may be another stream's.
 - The encoder queues before it dequeues, so after as many failed calls as the
   coded ring has buffers every further call fails until the context is
   destroyed.
 - An image derived from a surface that cannot get a store is left in its heap,
   with its buffer, without the client knowing of it (`image.c:372`).  A failed
   copy does destroy the image.
 - A `vaEndPicture` that is tried again after a failure moves the coded data of
   a VP9 frame or of AV1 tiles to the front a second time (`picture.c:853`,
   `av1.c:798`).
 - A config's id may be recycled while a context made from it lives, and
   `vaCreateConfig` does not ask whether there is a device for the profile.  An
   `RTFormat` among the attributes beyond the tenth is ignored.
 - The parameters of the codecs share a union, so a surface that moves from
   one codec to another starts with whatever the other left as its matrix.
 - A failure of the AV1 controls loses a new sequence: it is remembered as sent.
 - A new context loses a VP9 stream's references and deltas, as it must; a client
   that goes on with an inter frame gets the defaults.
 - `vp9_parser.h` says that its output is untouched on failure; it is cleared.  A
   compressed header of fewer than three bytes is refused.
 - AV1's `SEG_ID_PRE_SKIP` is taken from segment 0 only, and uniform tiles from
   the upscaled width also under super-resolution.
 - Two order hints exactly half the range apart have no nearer one; the property
   leaves them out (`HintsInRange`).
 - The encoder's crop falls back to the context's size without a sequence; a QP
   of 0 is taken for applied at first; controls that the device refuses count as
   applied; packed headers beyond eight are dropped; an I slice forces a key
   frame; a sequence's bitrate wins over a rate control buffer of the same
   picture; of several slices the last one's fields are used.
