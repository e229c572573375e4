------------------------------- MODULE Images -------------------------------
(***************************************************************************)
(* VA buffers and images, and the store of encode surfaces they borrow      *)
(* (va-driver/src/buffer.c, image.c, encode.c).                            *)
(*                                                                         *)
(* An image is an object that names a buffer.  The buffer's data is memory *)
(* of its own, or, for an image derived from an encode surface, the memory *)
(* of that surface.  Objects live in heaps that recycle ids at once, and   *)
(* memory is recycled by malloc.  What a free slot holds is left out: no    *)
(* lookup finds it, and whoever takes the slot sets all of it.             *)
(*                                                                         *)
(* The client destroys what it was given and nothing else: images it got   *)
(* from a call that succeeded, buffers it created, surfaces in any order.  *)
(***************************************************************************)
EXTENDS ObjectHeap

CONSTANTS
  MaxSurfaces, MaxBuffers, MaxImages,  \* bounds: objects alive at a time
  Blocks,                              \* pieces of memory
  NoBlock,                             \* a NULL pointer
  Faults                               \* what may go wrong

ASSUME ImagesAssumption ==
  /\ MaxSurfaces \in Nat /\ MaxBuffers \in Nat \ {0} /\ MaxImages \in Nat
  /\ NoBlock \notin Blocks
  /\ Faults \subseteq {"memory",  \* malloc or the dma-heap gives nothing
                       "copy"}    \* surface and image do not fit each other

VARIABLES
  heap,     \* surface_heap, buffer_heap and image_heap
  surface,  \* the slots of surface_heap
  buffer,   \* the slots of buffer_heap
  image,    \* the slots of image_heap: the id of the image's buffer
  memory,   \* the blocks that are allocated
  source    \* the client's images, and the surface each was derived from

vars == <<heap, surface, buffer, image, memory, source>>

SurfaceIds == 0 .. MaxSurfaces-1
BufferIds  == 0 .. MaxBuffers-1
ImageIds   == 0 .. MaxImages-1

Roles == {"unknown", "decode", "encode"}

NoSurface == -1  \* VA_INVALID_ID
Unheld    == -2  \* the client has no such image

FreshSurface == [role |-> "unknown", store |-> NoBlock]
PlainBuffer(type, data) ==
  [type |-> type, data |-> data, borrowed |-> FALSE, derived |-> NoSurface]
Alias(store, s) ==
  [type |-> "image", data |-> store, borrowed |-> TRUE, derived |-> s]
FreeBuffer == PlainBuffer("none", NoBlock)
FreeImage  == 0

Init ==
  /\ heap = [surface |-> NewHeap, buffer |-> NewHeap, image |-> NewHeap]
  /\ surface = [s \in SurfaceIds |-> FreshSurface]
  /\ buffer = [b \in BufferIds |-> FreeBuffer]
  /\ image = [i \in ImageIds |-> FreeImage]
  /\ memory = {}
  /\ source = [i \in ImageIds |-> Unheld]

LiveSurfaces == Live(heap.surface)
LiveBuffers  == Live(heap.buffer)
LiveImages   == Live(heap.image)

\* The id that the heap hands out next is one of those modelled.
RoomFor(kind, bound) == NextId(heap[kind]) < bound

\* malloc returns any block that is not allocated.
Unused == Blocks \ memory

-----------------------------------------------------------------------------
(* Surfaces.                                                               *)

CreateSurface ==
  /\ RoomFor("surface", MaxSurfaces)
  /\ heap' = [heap EXCEPT !.surface = Allocate(@)]
  /\ surface' = [surface EXCEPT ![NextId(heap.surface)] = FreshSurface]
  /\ UNCHANGED <<buffer, image, memory, source>>

\* surface_set_role: the first claim wins.
Claimed(s, role) == IF surface[s].role = "unknown" THEN role ELSE surface[s].role

\* Mutant of Stores: a surface that has a store gets another one.
StoresAnew(s, free) == free \cup (IF "memory" \in Faults THEN {NoBlock} ELSE {})

\* What may be in the surface when encode_surface_storage has returned: the
\* store it has, a new one, or nothing if none could be had.
Stores(s, free) ==
  IF surface[s].store # NoBlock THEN {surface[s].store}
  ELSE free \cup (IF "memory" \in Faults THEN {NoBlock} ELSE {})

MemoryWith(block) == (memory \cup {block}) \ {NoBlock}

\* The surface is named to vaCreateContext, or to a decoder's vaBeginPicture.
ClaimSurface(s, role) ==
  /\ surface' = [surface EXCEPT ![s].role = Claimed(s, role)]
  /\ UNCHANGED <<heap, buffer, image, memory, source>>

\* An encoder's vaBeginPicture, which claims the surface, or an export of a
\* surface that is not a decoder's: both want the store.
StoreSurface(s, role) ==
  /\ role = "encode" \/ surface[s].role # "decode"
  /\ \E store \in Stores(s, Unused) :
       /\ memory' = MemoryWith(store)
       /\ surface' = [surface EXCEPT ![s].store = store,
                                     ![s].role = Claimed(s, role)]
  /\ UNCHANGED <<heap, buffer, image, source>>

\* The images derived from the surface are of no use to the client any more.
DestroySurface(s) ==
  /\ heap' = [heap EXCEPT !.surface = Free(@, s)]
  /\ surface' = [surface EXCEPT ![s] = FreshSurface]
  /\ memory' = memory \ {surface[s].store}
  /\ source' = [i \in ImageIds |-> IF source[i] = s THEN NoSurface ELSE source[i]]
  /\ UNCHANGED <<buffer, image>>

-----------------------------------------------------------------------------
(* Buffers and images.                                                     *)

\* vaCreateBuffer: the id is taken first, and freed again without memory.
CreateBuffer ==
  /\ RoomFor("buffer", MaxBuffers)
  /\ \/ \E data \in Unused :
          /\ heap' = [heap EXCEPT !.buffer = Allocate(@)]
          /\ buffer' = [buffer EXCEPT ![NextId(heap.buffer)] = PlainBuffer("data", data)]
          /\ memory' = memory \cup {data}
     \/ /\ "memory" \in Faults
        /\ heap' = [heap EXCEPT !.buffer = Free(Allocate(@), NextId(@))]
        /\ UNCHANGED <<buffer, memory>>
  /\ UNCHANGED <<surface, image, source>>

\* Mutant of OwnMemory: a borrowed pointer is freed too.
OwnMemoryOrBorrowed(b) == {buffer[b].data}

\* What RequestDestroyBuffer frees besides the id.
OwnMemory(b) == IF buffer[b].borrowed THEN {} ELSE {buffer[b].data}

DestroyBuffer(b) ==
  /\ buffer[b].type = "data"
  /\ heap' = [heap EXCEPT !.buffer = Free(@, b)]
  /\ memory' = memory \ OwnMemory(b)
  /\ buffer' = [buffer EXCEPT ![b] = FreeBuffer]
  /\ UNCHANGED <<surface, image, source>>

\* Mutant of NewImage: the image is freed with its buffer only if there is one.
NewImageUnfreed(data) ==
  IF data = NoBlock
  THEN [heap EXCEPT !.image = Allocate(@), !.buffer = Free(Allocate(@), NextId(@))]
  ELSE [heap EXCEPT !.image = Allocate(@), !.buffer = Allocate(@)]

\* The heaps after RequestCreateImage, and after an image was made in vain: both
\* ids are freed again.
NewImage(data) ==
  IF data = NoBlock
  THEN [heap EXCEPT !.image = Free(Allocate(@), NextId(@)),
                    !.buffer = Free(Allocate(@), NextId(@))]
  ELSE [heap EXCEPT !.image = Allocate(@), !.buffer = Allocate(@)]

RoomForImage == RoomFor("image", MaxImages) /\ RoomFor("buffer", MaxBuffers)

\* RequestCreateImage or RequestDeriveImage without memory for the buffer.
CreateImageFails ==
  /\ "memory" \in Faults
  /\ RoomForImage
  /\ heap' = NewImage(NoBlock)
  /\ UNCHANGED <<surface, buffer, image, memory, source>>

\* The client gets an image with this buffer, derived from s if that is one.
ImageMade(data, content, s) ==
  /\ heap' = NewImage(data)
  /\ buffer' = [buffer EXCEPT ![NextId(heap.buffer)] = content]
  /\ image' = [image EXCEPT ![NextId(heap.image)] = NextId(heap.buffer)]
  /\ source' = [source EXCEPT ![NextId(heap.image)] = s]

\* vaCreateImage
CreateImage ==
  /\ RoomForImage
  /\ \E data \in Unused :
       /\ ImageMade(data, PlainBuffer("image", data), NoSurface)
       /\ memory' = memory \cup {data}
  /\ UNCHANGED surface

\* image_surface_is_encode: of a surface without role or store it is a guess
\* from the contexts and configs of the display.
IsEncode(s, guess) ==
  \/ surface[s].role = "encode"
  \/ surface[s].role = "unknown" /\ (surface[s].store # NoBlock \/ guess)

\* vaDeriveImage of a decode surface: the image is a copy, and remembers the
\* surface.
DeriveCopy(s, guess) ==
  /\ ~IsEncode(s, guess)
  /\ RoomForImage
  /\ \E data \in Unused :
       /\ ImageMade(data, [PlainBuffer("image", data) EXCEPT !.derived = s], s)
       /\ memory' = memory \cup {data}
  /\ UNCHANGED surface

\* The copy fails, and the image is destroyed again.
DeriveCopyFails(s, guess) ==
  /\ "copy" \in Faults
  /\ ~IsEncode(s, guess)
  /\ RoomForImage
  /\ Unused # {}
  /\ heap' = NewImage(NoBlock)
  /\ UNCHANGED <<surface, buffer, image, memory, source>>

\* vaDeriveImage of an encode surface: the memory of the new image is freed and
\* the store of the surface takes its place.
DeriveAlias(s, guess) ==
  /\ IsEncode(s, guess)
  /\ RoomForImage
  /\ \E data \in Unused :
       \E store \in Stores(s, Unused \ {data}) \ {NoBlock} :
         /\ memory' = MemoryWith(store)
         /\ surface' = [surface EXCEPT ![s].store = store]
         /\ ImageMade(data, Alias(store, s), s)

\* No store: the call fails, and the image it made stays without the client
\* knowing of it.
DeriveAliasFails(s, guess) ==
  /\ "memory" \in Faults
  /\ IsEncode(s, guess) /\ surface[s].store = NoBlock
  /\ RoomForImage
  /\ \E data \in Unused :
       /\ ImageMade(data, PlainBuffer("image", data), Unheld)
       /\ memory' = memory \cup {data}
  /\ UNCHANGED surface

\* RequestDestroyImage destroys the buffer and then the image.
DestroyImage(i) ==
  /\ source[i] # Unheld
  /\ image[i] \in LiveBuffers
  /\ heap' = [heap EXCEPT !.buffer = Free(@, image[i]), !.image = Free(@, i)]
  /\ memory' = memory \ OwnMemory(image[i])
  /\ source' = [source EXCEPT ![i] = Unheld]
  /\ buffer' = [buffer EXCEPT ![image[i]] = FreeBuffer]
  /\ image' = [image EXCEPT ![i] = FreeImage]
  /\ UNCHANGED surface

\* vaTerminate destroys the images, the buffers and the surfaces that are left,
\* and a new display starts with empty heaps.
Terminate ==
  /\ heap' = [surface |-> NewHeap, buffer |-> NewHeap, image |-> NewHeap]
  /\ memory' = memory \ ({surface[s].store : s \in LiveSurfaces}
                           \cup UNION {OwnMemory(b) : b \in LiveBuffers})
  /\ surface' = [s \in SurfaceIds |-> FreshSurface]
  /\ buffer' = [b \in BufferIds |-> FreeBuffer]
  /\ image' = [i \in ImageIds |-> FreeImage]
  /\ source' = [i \in ImageIds |-> Unheld]

Next ==
  \/ CreateSurface \/ CreateBuffer \/ CreateImage \/ CreateImageFails \/ Terminate
  \/ \E s \in LiveSurfaces :
       \/ DestroySurface(s)
       \/ \E role \in {"decode", "encode"} : ClaimSurface(s, role)
       \/ \E role \in {"unknown", "encode"} : StoreSurface(s, role)
       \/ \E guess \in BOOLEAN :
            \/ DeriveCopy(s, guess)  \/ DeriveCopyFails(s, guess)
            \/ DeriveAlias(s, guess) \/ DeriveAliasFails(s, guess)
  \/ \E b \in LiveBuffers : DestroyBuffer(b)
  \/ \E i \in LiveImages : DestroyImage(i)

Spec == Init /\ [][Next]_vars

-----------------------------------------------------------------------------
(* What must hold.                                                         *)

\* Every variable stays in its type.
TypeOK ==
  /\ DOMAIN heap = {"surface", "buffer", "image"}
  /\ \A kind \in DOMAIN heap : heap[kind] \in Heap(heap[kind].size)
  /\ surface \in [SurfaceIds -> [role : Roles, store : Blocks \cup {NoBlock}]]
  /\ buffer \in [BufferIds -> [type : {"none", "data", "image"},
                               data : Blocks \cup {NoBlock},
                               borrowed : BOOLEAN,
                               derived : SurfaceIds \cup {NoSurface}]]
  /\ image \in [ImageIds -> BufferIds]
  /\ memory \subseteq Blocks
  /\ source \in [ImageIds -> SurfaceIds \cup {NoSurface, Unheld}]

\* Every heap's free list holds the slots that name no object, and ends,
\* although ids are taken and given back by calls that fail half-way.
FreeListsSound == \A kind \in DOMAIN heap : HeapOK(heap[kind])

Owners ==
  {<<"buffer", b>> : b \in {c \in LiveBuffers : OwnMemory(c) # {}}} \cup
  {<<"surface", s>> : s \in {t \in LiveSurfaces : surface[t].store # NoBlock}}

OwnedBy(o) == IF o[1] = "buffer" THEN OwnMemory(o[2]) ELSE {surface[o[2]].store}

\* What is allocated belongs to exactly one object, and what an object will
\* free is allocated: nothing is freed twice and nothing is left behind.
MemoryOwned ==
  /\ memory = UNION {OwnedBy(o) : o \in Owners}
  /\ \A o, p \in Owners : o # p => OwnedBy(o) \cap OwnedBy(p) = {}

\* Every image has a buffer, no two have the same one, and no buffer of an image
\* is without its image, so destroying an image destroys what is its own.
ImageOwnsBuffer ==
  /\ \A i \in ImageIds : source[i] # Unheld => i \in LiveImages
  /\ \A i \in LiveImages : image[i] \in LiveBuffers /\ buffer[image[i]].type = "image"
  /\ \A i, j \in LiveImages : image[i] = image[j] => i = j
  /\ \A b \in LiveBuffers : buffer[b].type = "image" => \E i \in LiveImages : image[i] = b

\* As long as the surface lives that the client derived an image from, the
\* image names that surface, and the memory it borrows is the surface's store.
AliasTracksSurface ==
  \A i \in ImageIds :
    source[i] \in SurfaceIds =>
      LET b == buffer[image[i]]
      IN  /\ source[i] \in LiveSurfaces /\ b.derived = source[i]
          /\ b.borrowed => b.data = surface[source[i]].store /\ b.data \in memory
=============================================================================
