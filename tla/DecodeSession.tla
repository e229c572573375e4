---------------------------- MODULE DecodeSession ----------------------------
(***************************************************************************)
(* Surfaces, decode contexts and the decoder sessions they share           *)
(* (va-driver/src/surface.c, picture.c, context.c, session.c).             *)
(*                                                                         *)
(* A session is one open of the decoder: two V4L2 queues, OUTPUT for coded *)
(* data and CAPTURE for pictures, each with a pool of buffer indices.      *)
(* Every decode context owns one; the display owns one more, the probe     *)
(* session, for surfaces exported before any context exists.  A surface    *)
(* binds an index of each queue of one session and gives both back when it *)
(* is destroyed.                                                           *)
(*                                                                         *)
(* Every entry point runs under the driver lock (sync.c), so a call is one *)
(* action; the exception is the wait for the hardware at the end of        *)
(* vaEndPicture, where the lock is released: EndPicture leaves the context *)
(* in `waiting` and EndPictureDone is the rest of the call.  Every ioctl   *)
(* and mmap may fail: a failure is a disjunct that leaves what the code    *)
(* leaves.                                                                 *)
(*                                                                         *)
(* The client is assumed to keep the contract the source relies on: one    *)
(* thread drives a context, nobody destroys a surface or context some      *)
(* thread waits on (surface.c, RequestSyncSurface), and a picture whose    *)
(* surface was destroyed is not ended on the surface that recycles its id. *)
(* Any other call may come from any thread at any time, an abandoned       *)
(* picture included.                                                       *)
(***************************************************************************)
EXTENDS BufferPool

CONSTANTS
  Contexts,   \* slots of the context heap; a slot is recycled at once
  Surfaces,   \* slots of the surface heap, recycled at once too
  Codecs,     \* codecs a config can name: each is one OUTPUT pixelformat
  LateBound,  \* the codecs whose CAPTURE buffer EndPicture binds (AV1)
  Sizes,      \* picture sizes
  Layouts,    \* the CAPTURE layouts in use: NV12, or NV12 and P010
  PoolSizes,  \* the buffer counts REQBUFS may return
  Probe,      \* driver_data->probe_session
  NoSession,  \* a NULL surface->session
  NoSurface,  \* VA_INVALID_ID in context->render_surface_id
  NoStream    \* a session programmed for nothing

ASSUME SessionAssumption ==
  /\ Probe \notin Contexts
  /\ NoSession \notin Contexts \cup {Probe}
  /\ NoSurface \notin Surfaces
  /\ NoStream \notin Codecs \X Sizes
  /\ LateBound \subseteq Codecs
  /\ Sizes # {}
  /\ "NV12" \in Layouts /\ Layouts \subseteq {"NV12", "P010"}
  /\ PoolSizes \subseteq 1 .. MaxBuffers

VARIABLES
  live,     \* the allocated context slots
  stream,   \* what each context decodes: its config's codec, its size
  sess,     \* the sessions
  surf,     \* the surface slots
  target,   \* context->render_surface_id
  waiting   \* contexts whose vaEndPicture waits with the lock released

vars == <<live, stream, sess, surf, target, waiting>>

Sessions == Contexts \cup {Probe}
Streams  == Codecs \X Sizes
Index    == {Unassigned} \cup (0 .. MaxBuffers-1)

\* `format` is session->video_format, "none" when NULL.
Session == [format : Layouts \cup {"none"}, programmed : Streams \cup {NoStream},
            out : Pool, cap : Pool, streaming : BOOLEAN]

ClosedSession == [format |-> "none", programmed |-> NoStream,
                  out |-> NoPool, cap |-> NoPool, streaming |-> FALSE]

\* `format` is what the client is told the memory holds (pixel_format).  `req`
\* is the media request behind surface->request_fd: no descriptor, an empty
\* request, or a request the hardware is working on.
Surface == [live : BOOLEAN, size : Sizes, format : Layouts,
            status : {"Ready", "Rendering", "Displaying"},
            src : Index, dst : Index, session : Sessions \cup {NoSession},
            req : {"none", "idle", "queued"}]

FreshSurface(size, format) ==
  [live |-> TRUE, size |-> size, format |-> format, status |-> "Ready", src |-> Unassigned,
   dst |-> Unassigned, session |-> NoSession, req |-> "none"]

\* A freed slot keeps its bytes in the heap; nothing reads them again because
\* RequestCreateSurfaces2 clears the body, so the model clears them at once.
FreeSlot ==
  [FreshSurface(CHOOSE size \in Sizes : TRUE, "NV12") EXCEPT !.live = FALSE]

Init ==
  /\ live = {}
  /\ stream = [c \in Contexts |-> NoStream]
  /\ sess = [x \in Sessions |-> ClosedSession]
  /\ surf = [s \in Surfaces |-> FreeSlot]
  /\ target = [c \in Contexts |-> NoSurface]
  /\ waiting = {}

-----------------------------------------------------------------------------
(* The helpers.  Each takes the sessions and surfaces as one record, a     *)
(* world, and returns the world the C function leaves.                     *)

Here == [sess |-> sess, surf |-> surf]

\* The step from the present world to w.
Becomes(w) == sess' = w.sess /\ surf' = w.surf

\* The layout request_ensure_v4l2_initialized programs: only AV1 can ask for
\* P010, and a config that allows both layouts gets NV12.
LayoutFor(codec, wanted) == IF codec \in LateBound THEN wanted ELSE "NV12"

\* request_ensure_v4l2_initialized on a session just opened.
Programmed(str, format, nout, ncap) ==
  [format |-> format, programmed |-> str,
   out |-> NewPool(nout), cap |-> NewPool(ncap), streaming |-> FALSE]

\* The contexts a surface of this size and format may borrow a buffer from.
MatchingContexts(size, format) ==
  {c \in live : sess[c].format = format /\ stream[c][2] = size}

\* find_unique_context_session, or the probe session for want of one.
BorrowedSession(size, format) ==
  IF \E c \in Contexts : MatchingContexts(size, format) = {c}
    THEN CHOOSE c \in Contexts : MatchingContexts(size, format) = {c}
    ELSE Probe

\* A context session nothing has been bound on.
Untouched(c) ==
  ~sess[c].streaming /\ sess[c].out.next = 0 /\ sess[c].cap.next = 0

\* RequestBeginPicture describes the surface of a P010 context as P010 before
\* it looks at anything else.
Relabelled(c, s) ==
  IF stream[c][1] \in LateBound /\ sess[c].format = "P010"
    THEN [Here EXCEPT !.surf[s].format = "P010"] ELSE Here

\* context_adopt_probe_session lets the surface through.
Adoptable(w, c, s) ==
  \/ w.surf[s].session \in {NoSession, c}
  \/ /\ w.surf[s].session = Probe
     /\ Untouched(c)
     /\ sess[Probe].cap.num > 0
     /\ sess[Probe].format = w.surf[s].format
     /\ sess[Probe].programmed = stream[c]

\* ... after moving the probe session, and every surface on it, to c.
Adopt(w, c, s) ==
  IF w.surf[s].session # Probe THEN w ELSE
  [sess |-> [w.sess EXCEPT ![c] = w.sess[Probe], ![Probe] = ClosedSession],
   surf |-> [r \in Surfaces |->
               IF w.surf[r].session = Probe
                 THEN [w.surf[r] EXCEPT !.session = c] ELSE w.surf[r]]]

\* A bind is possible: the surface has its index, or the pool has one left.
CanBindSource(w, x, s) ==
  w.surf[s].src # Unassigned \/ ~Exhausted(w.sess[x].out)

CanBindDestination(w, x, s) ==
  w.surf[s].dst # Unassigned \/ ~Exhausted(w.sess[x].cap)

\* bind_source_buffer; `mapped` says whether QUERYBUF and mmap worked.  The
\* failing path gives the index back but leaves surface->session behind.
BindSource(w, x, s, mapped) ==
  IF w.surf[s].src # Unassigned THEN w ELSE
  LET p == w.sess[x].out IN
  [sess |-> [w.sess EXCEPT ![x].out =
               IF mapped THEN Take(p) ELSE TakeAndGiveBack(p)],
   surf |-> [w.surf EXCEPT ![s].session = x,
               ![s].src = IF mapped THEN Candidate(p) ELSE Unassigned]]

\* request_bind_destination_buffer; its failing path restores the session.
BindDestination(w, x, s, mapped) ==
  IF w.surf[s].dst # Unassigned THEN w ELSE
  LET p == w.sess[x].cap IN
  [sess |-> [w.sess EXCEPT ![x].cap =
               IF mapped THEN Take(p) ELSE TakeAndGiveBack(p)],
   surf |-> IF mapped
              THEN [w.surf EXCEPT ![s].session = x, ![s].dst = Candidate(p)]
              ELSE w.surf]

\* Mutant of GiveBack: the test for SURFACE_INDEX_UNASSIGNED dropped.
GiveBackUnchecked(p, i) == Give(p, i)

\* An index goes back on the stack it came from; an unbound one does not.
GiveBack(p, i) == IF i = Unassigned THEN p ELSE Give(p, i)

\* Mutant of ReleaseSource: the surface keeps the index it gave back.
ReleaseSourceKept(w, x, s) ==
  [w EXCEPT !.sess[x].out = GiveBack(w.sess[x].out, w.surf[s].src)]

\* Mutant of ReleaseSource: the picture's buffer goes back with the coded one.
ReleaseSourceAndPicture(w, x, s) ==
  [sess |-> [w.sess EXCEPT ![x].out = GiveBack(w.sess[x].out, w.surf[s].src),
                           ![x].cap = GiveBack(w.sess[x].cap, w.surf[s].dst)],
   surf |-> [w.surf EXCEPT ![s].src = Unassigned, ![s].dst = Unassigned]]

\* release_source_buffer.
ReleaseSource(w, x, s) ==
  [sess |-> [w.sess EXCEPT ![x].out = GiveBack(w.sess[x].out, w.surf[s].src)],
   surf |-> [w.surf EXCEPT ![s].src = Unassigned]]

\* The tail of surface_release_buffers: both indices return to the session.
ReleaseBoth(x, s) ==
  [sess EXCEPT ![x].out = GiveBack(sess[x].out, surf[s].src),
               ![x].cap = GiveBack(sess[x].cap, surf[s].dst)]

\* Mutant of SyncRefused: the descriptor stays open and the request queued.
SyncRefusedOpen(w, s) == w

\* RequestSyncSurface on a rendering surface, from anywhere but the end of
\* vaEndPicture.  The request holds no buffer or is queued already, so
\* media_request_queue refuses it and the error path closes the descriptor;
\* without a session, or a layout for it, the function gives up before it
\* looks at the request.
SyncRefused(w, s) ==
  IF \/ w.surf[s].session = NoSession
     \/ w.sess[w.surf[s].session].format = "none"
    THEN w ELSE [w EXCEPT !.surf[s].req = "none"]

\* Mutant of MaySwitch: the session's own test for bound buffers dropped.
MaySwitchBound(c) == ~sess[c].streaming

\* request_ensure_av1_capture_bit_depth may replace the CAPTURE queue.
MaySwitch(c) ==
  ~sess[c].streaming /\ sess[c].cap.next = 0 /\ sess[c].cap.free = << >>

\* ... with this layout and pool.
Switched(c, format, pool) ==
  [Here EXCEPT !.sess[c].format = format, !.sess[c].cap = pool]

\* vaEndPicture describes the surface of an AV1 picture by its bit depth.
Described(w, c, s) ==
  IF stream[c][1] \in LateBound
    THEN [w EXCEPT !.surf[s].format = w.sess[c].format] ELSE w

\* What vaEndPicture has done to the request and the queues when it stops.
Submitted(w, c, s, req, streaming) ==
  [sess |-> [w.sess EXCEPT ![c].streaming = streaming],
   surf |-> [w.surf EXCEPT ![s].req = req]]

-----------------------------------------------------------------------------
(* The entry points.                                                       *)

\* RequestCreateSurfaces2: a cleared slot, and an eager attempt to open the
\* probe session when nothing else can describe a surface of this size.
CreateSurface(s, size, format) ==
  /\ ~surf[s].live
  /\ surf' = [surf EXCEPT ![s] = FreshSurface(size, format)]
  /\ \/ sess' = sess  \* not needed, an encoder's display, or no device
     \/ /\ sess[Probe].format = "none"
        /\ BorrowedSession(size, format) = Probe
        /\ \E codec \in Codecs :
             LET layout == LayoutFor(codec, format) IN
             \/ \* a layout was found, but S_FMT or REQBUFS failed
                sess' = [sess EXCEPT ![Probe] =
                           [ClosedSession EXCEPT !.format = layout]]
             \/ \E nout, ncap \in PoolSizes :
                  sess' = [sess EXCEPT ![Probe] =
                             Programmed(<<codec, size>>, layout, nout, ncap)]
  /\ UNCHANGED <<live, stream, target, waiting>>

\* RequestCreateContext; when the open or the set-up fails nothing remains.
CreateContext(c, str) ==
  /\ c \notin live
  /\ live' = live \cup {c}
  /\ stream' = [stream EXCEPT ![c] = str]
  /\ \E wanted \in Layouts, nout, ncap \in PoolSizes :
       sess' = [sess EXCEPT ![c] =
                  Programmed(str, LayoutFor(str[1], wanted), nout, ncap)]
  /\ UNCHANGED <<surf, target, waiting>>

\* Mutant of DestroyContext: surface_detach_session is not called.
DestroyContextUndetached(c) ==
  /\ c \in live \ waiting
  /\ live' = live \ {c}
  /\ stream' = [stream EXCEPT ![c] = NoStream]
  /\ sess' = [sess EXCEPT ![c] = ClosedSession]
  /\ target' = [target EXCEPT ![c] = NoSurface]
  /\ UNCHANGED <<surf, waiting>>

\* RequestDestroyContext with surface_detach_session and decoder_session_close.
\* A detached surface keeps its status and its request descriptor.
DestroyContext(c) ==
  /\ c \in live \ waiting
  /\ live' = live \ {c}
  /\ stream' = [stream EXCEPT ![c] = NoStream]
  /\ sess' = [sess EXCEPT ![c] = ClosedSession]
  /\ surf' = [s \in Surfaces |->
                IF surf[s].session = c
                  THEN [surf[s] EXCEPT !.src = Unassigned, !.dst = Unassigned,
                                       !.session = NoSession]
                  ELSE surf[s]]
  /\ target' = [target EXCEPT ![c] = NoSurface]
  /\ UNCHANGED waiting

\* RequestBeginPicture once the surface has passed the adoption test: refused
\* by the sync of a surface still rendering, ...
BeginRefused(c, s, w) ==
  /\ surf[s].status = "Rendering"
  /\ Becomes(SyncRefused(w, s))
  /\ UNCHANGED target

\* ... without an OUTPUT buffer (a context that lost its layout in a failed
\* switch of bit depth crashes here instead), ...
BeginWithoutSource(c, s, w) ==
  /\ surf[s].status # "Rendering"
  /\ surf[s].src = Unassigned
  /\ \/ ~CanBindSource(w, c, s) /\ Becomes(w)
     \/ CanBindSource(w, c, s) /\ Becomes(BindSource(w, c, s, FALSE))
  /\ UNCHANGED target

\* ... without a CAPTURE buffer, the OUTPUT buffer staying bound (the pool is
\* empty or the format cannot be read, or the mapping fails), ...
BeginWithoutDestination(c, s, w) ==
  /\ surf[s].status # "Rendering"
  /\ surf[s].dst = Unassigned
  /\ stream[c][1] \notin LateBound
  /\ CanBindSource(w, c, s)
  /\ LET b == BindSource(w, c, s, TRUE) IN
       \/ Becomes(b)
       \/ CanBindDestination(b, c, s) /\ Becomes(BindDestination(b, c, s, FALSE))
  /\ UNCHANGED target

\* ... or with both (an AV1 picture binds its CAPTURE buffer at the end).
BeginSucceeds(c, s, w) ==
  /\ surf[s].status # "Rendering"
  /\ CanBindSource(w, c, s)
  /\ LET b == BindSource(w, c, s, TRUE)
         d == IF stream[c][1] \in LateBound THEN b
              ELSE BindDestination(b, c, s, TRUE)
     IN  /\ stream[c][1] \in LateBound \/ CanBindDestination(b, c, s)
         /\ Becomes([d EXCEPT !.surf[s].status = "Rendering"])
  /\ target' = [target EXCEPT ![c] = s]

BeginPicture(c, s) ==
  LET h == Relabelled(c, s)
      w == Adopt(h, c, s)
  IN  /\ c \in live \ waiting
      /\ surf[s].live
      /\ stream[c][1] \in LateBound \/ surf[s].format = "NV12"
      /\ \/ ~Adoptable(h, c, s) /\ Becomes(h) /\ UNCHANGED target
         \/ /\ Adoptable(h, c, s)
            /\ \/ BeginRefused(c, s, w)
               \/ BeginWithoutSource(c, s, w)
               \/ BeginWithoutDestination(c, s, w)
               \/ BeginSucceeds(c, s, w)
      /\ UNCHANGED <<live, stream, waiting>>

\* RequestEndPicture from a world whose CAPTURE layout is the picture's, up to
\* the unlock inside RequestSyncSurface.  It fails binding the CAPTURE buffer,
\* allocating the request, anywhere from the sequence header to VIDIOC_QBUF
\* (before or after STREAMON), or queueing the request; otherwise the hardware
\* has the picture and the lock is dropped.
EndPictureIn(u, c, s) ==
  LET v == Described(u, c, s)
      w == BindDestination(v, c, s, TRUE)
  IN
  \/ Becomes(v) /\ UNCHANGED waiting
  \/ /\ CanBindDestination(v, c, s)
     /\ \/ Becomes(BindDestination(v, c, s, FALSE)) /\ UNCHANGED waiting
        \/ surf[s].req = "none" /\ Becomes(w) /\ UNCHANGED waiting
        \/ /\ \E started \in {sess[c].streaming, TRUE} :
                Becomes(Submitted(w, c, s, "idle", started))
           /\ UNCHANGED waiting
        \/ Becomes(Submitted(w, c, s, "none", TRUE)) /\ UNCHANGED waiting
        \/ /\ Becomes(Submitted(w, c, s, "queued", TRUE))
           /\ waiting' = waiting \cup {c}

\* RequestEndPicture, the bit depth of an AV1 picture settled first.  A switch
\* that fails leaves the CAPTURE queue without buffers, under the old layout,
\* none, or the new one; a switch refused because buffers are bound, or whose
\* first REQBUFS fails, changes nothing.
EndPicture(c) ==
  LET s == target[c] IN
  /\ c \in live \ waiting
  /\ s # NoSurface
  /\ sess[c].format # "none"
  /\ \/ EndPictureIn(Here, c, s)
     \/ /\ stream[c][1] \in LateBound
        /\ MaySwitch(c)
        /\ \E format \in Layouts \ {sess[c].format} :
             \/ /\ \E left \in {sess[c].format, "none", format} :
                     Becomes(Switched(c, left, NoPool))
                /\ UNCHANGED waiting
             \/ \E ncap \in PoolSizes :
                  EndPictureIn(Switched(c, format, NewPool(ncap)), c, s)
  /\ UNCHANGED <<live, stream, target>>

\* The rest of the call, the lock taken again: completion, reinit and both
\* DQBUFs worked -- the request descriptor is still the one that was queued --
\* and the OUTPUT slot is free for the next picture.
PictureDone(c) ==
  LET s == target[c] IN
  /\ c \in waiting
  /\ surf[s].req = "queued"
  /\ Becomes(ReleaseSource(
       [Here EXCEPT !.surf[s].status = "Displaying", !.surf[s].req = "idle"],
       c, s))
  /\ waiting' = waiting \ {c}
  /\ target' = [target EXCEPT ![c] = NoSurface]
  /\ UNCHANGED <<live, stream>>

\* ... or the 300 ms timeout, a failed reinit (a second sync has closed the
\* descriptor meanwhile) or a failed DQBUF: everything stays bound.
PictureFailed(c) ==
  LET s == target[c] IN
  /\ c \in waiting
  /\ Becomes(SyncRefused(Here, s))
  /\ waiting' = waiting \ {c}
  /\ UNCHANGED <<live, stream, target>>

\* RequestSyncSurface and RequestGetImage, from any thread.
SyncSurface(s) ==
  /\ surf[s].live
  /\ surf[s].status = "Rendering"
  /\ Becomes(SyncRefused(Here, s))
  /\ UNCHANGED <<live, stream, target, waiting>>

\* Mutant of DeriveImage: no sync before the surface is marked ready.
DeriveImageUnsynced(s) ==
  /\ surf[s].live
  /\ Becomes([Here EXCEPT !.surf[s].status = "Ready"])
  /\ UNCHANGED <<live, stream, target, waiting>>

\* RequestDeriveImage: the same sync, or a copy that marks the surface ready.
DeriveImage(s) ==
  /\ surf[s].live
  /\ \/ surf[s].status = "Rendering" /\ Becomes(SyncRefused(Here, s))
     \/ /\ surf[s].status # "Rendering"
        /\ Becomes([Here EXCEPT !.surf[s].status = "Ready"])
  /\ UNCHANGED <<live, stream, target, waiting>>

\* RequestExportSurfaceHandle of a decode surface: a first export binds the
\* CAPTURE buffer on the surface's session, or on a borrowed one.
ExportSurface(s) ==
  LET x == IF surf[s].session # NoSession THEN surf[s].session
           ELSE BorrowedSession(surf[s].size, surf[s].format)
  IN  /\ surf[s].live
      /\ surf[s].dst = Unassigned
      /\ sess[x].format # "none"
      /\ CanBindDestination(Here, x, s)
      /\ \E mapped \in BOOLEAN : Becomes(BindDestination(Here, x, s, mapped))
      /\ UNCHANGED <<live, stream, target, waiting>>

\* RequestDestroySurfaces, one surface: surface_release_buffers gives nothing
\* back when the sync of a rendering surface fails, and the surface goes.  A
\* context that had it open keeps an id SURFACE() no longer resolves.
DestroySurface(s) ==
  /\ surf[s].live
  /\ \A c \in waiting : target[c] # s
  /\ sess' = IF surf[s].session = NoSession \/ surf[s].status = "Rendering"
               THEN sess ELSE ReleaseBoth(surf[s].session, s)
  /\ surf' = [surf EXCEPT ![s] = FreeSlot]
  /\ target' = [c \in Contexts |->
                  IF target[c] = s THEN NoSurface ELSE target[c]]
  /\ UNCHANGED <<live, stream, waiting>>

Next ==
  \/ \E s \in Surfaces, size \in Sizes, format \in Layouts :
       CreateSurface(s, size, format)
  \/ \E c \in Contexts, str \in Streams : CreateContext(c, str)
  \/ \E c \in Contexts, s \in Surfaces : BeginPicture(c, s)
  \/ \E c \in Contexts : \/ DestroyContext(c)
                         \/ EndPicture(c)
                         \/ PictureDone(c)
                         \/ PictureFailed(c)
  \/ \E s \in Surfaces : \/ SyncSurface(s)
                         \/ DeriveImage(s)
                         \/ ExportSurface(s)
                         \/ DestroySurface(s)

Spec == Init /\ [][Next]_vars

-----------------------------------------------------------------------------
(* What must hold.                                                         *)


\* Every variable stays in its type: in particular no stack ever holds
\* SURFACE_INDEX_UNASSIGNED or an index REQBUFS did not create, and only live
\* contexts wait.
TypeOK ==
  /\ live \subseteq Contexts
  /\ stream \in [Contexts -> Streams \cup {NoStream}]
  /\ sess \in [Sessions -> Session]
  /\ surf \in [Surfaces -> Surface]
  /\ target \in [Contexts -> Surfaces \cup {NoSurface}]
  /\ waiting \subseteq live

\* The allocators never corrupt themselves.
PoolsOK == \A x \in Sessions : PoolOK(sess[x].out) /\ PoolOK(sess[x].cap)

\* A bound index was handed out by the surface's own session and not taken
\* back: no index is on a free stack while a surface decodes with it.
BoundIsHeld ==
  \A s \in Surfaces :
    /\ surf[s].src # Unassigned =>
         /\ surf[s].session # NoSession
         /\ surf[s].src \in Held(sess[surf[s].session].out)
    /\ surf[s].dst # Unassigned =>
         /\ surf[s].session # NoSession
         /\ surf[s].dst \in Held(sess[surf[s].session].cap)

\* No two surfaces use one V4L2 buffer.
NoSharedBuffer ==
  \A r, s \in Surfaces :
    r # s /\ surf[r].session = surf[s].session =>
      /\ surf[r].src # Unassigned => surf[r].src # surf[s].src
      /\ surf[r].dst # Unassigned => surf[r].dst # surf[s].dst

\* Whatever the order of binds, failed binds, adoptions, destroys and failed
\* pictures, an index has at most one owner and is never free while owned:
\* otherwise two pictures would decode into one another's memory.
BuffersOwned == PoolsOK /\ BoundIsHeld /\ NoSharedBuffer

\* A surface's session is one that exists: a live context's or the probe's,
\* and none for a recycled slot.  The queue behind a bound CAPTURE buffer has
\* its layout, whatever a switch of bit depth or an adoption did; a surface on
\* the probe session has no coded buffer, so no picture is under way on a
\* session that can still be moved; and a context without a layout, which a
\* failed switch leaves, has neither buffers nor streams to lose.
SessionsAlive ==
  /\ \A s \in Surfaces :
       /\ surf[s].session \in live \cup {Probe, NoSession}
       /\ surf[s].dst # Unassigned => sess[surf[s].session].format # "none"
       /\ surf[s].session = Probe =>
            sess[Probe].format # "none" /\ surf[s].src = Unassigned
       /\ ~surf[s].live => surf[s].session = NoSession
  /\ \A c \in live : sess[c].format = "none" =>
       /\ stream[c][1] \in LateBound
       /\ ~sess[c].streaming /\ sess[c].cap = NoPool

\* The picture a context has open, and a fortiori the one it waits for with
\* the lock released, is still that context's: nothing another thread did in
\* between took away its session, its buffers or its rendering status.  This
\* is what RequestEndPicture assumes of the surface it looked up.
PictureOwned ==
  \A c \in Contexts : target[c] # NoSurface =>
    LET s == target[c] IN
    /\ c \in live
    /\ surf[s].live
    /\ surf[s].session = c
    /\ surf[s].status = "Rendering"
    /\ surf[s].src # Unassigned
    /\ c \in waiting => surf[s].dst # Unassigned

\* A context waits only for an open picture, and a request is with the
\* hardware only while its context waits.
WaitIsForPicture ==
  /\ \A c \in waiting : target[c] # NoSurface
  /\ \A s \in Surfaces : surf[s].req = "queued" =>
       \E c \in waiting : target[c] = s

-----------------------------------------------------------------------------
(* What a step may never do.                                               *)

\* The same pool, at most one index taken, returned, or both.
OneStepOf(p) ==
  {p, Take(p), TakeAndGiveBack(p)} \cup {Give(p, i) : i \in Held(p)}

\* A compositor holds dma-bufs of the CAPTURE buffers it was given.  A surface
\* keeps its buffer -- same queue, same index, same layout -- until the surface
\* or the context behind it is destroyed; the adoption of the probe session
\* moves the queue as a whole and leaves no surface behind, and a switch of
\* bit depth never replaces a queue with a buffer bound.
ExportedBufferStays ==
  [][\A s \in Surfaces : surf[s].live /\ surf[s].dst # Unassigned =>
       \/ ~surf'[s].live
       \/ surf[s].session \in live \ live'
       \/ /\ surf'[s].dst = surf[s].dst
          /\ \/ surf'[s].session = surf[s].session
             \/ surf[s].session = Probe /\ surf'[s].session \in live'
          /\ sess'[surf'[s].session].format = sess[surf[s].session].format
          /\ sess'[surf'[s].session].cap \in
               OneStepOf(sess[surf[s].session].cap)]_vars

\* The indices of x that are neither on a free stack nor bound to a surface.
Bound(x, q) == {surf[s][q] : s \in {r \in Surfaces : surf[r].session = x}}
Lost(x) == <<Held(sess[x].out) \ Bound(x, "src"),
             Held(sess[x].cap) \ Bound(x, "dst")>>

Moved(x, y) ==
  Lost(x)'[1] \subseteq Lost(y)[1] /\ Lost(x)'[2] \subseteq Lost(y)[2]

\* Indices go missing in one way only: the destruction of a surface whose
\* decode never completed.  Every other failure path puts them back, and an
\* adoption hands over no more than the probe session had lost already.
OnlyBrokenPicturesLoseIndices ==
  [][\A x \in Sessions :
       \/ Moved(x, x)
       \/ Moved(x, Probe) /\ Lost(Probe)' = <<{}, {}>>
       \/ \E s \in Surfaces : /\ surf[s].live /\ ~surf'[s].live
                              /\ surf[s].status = "Rendering"]_vars

-----------------------------------------------------------------------------
(* What the source says, and the code does not do.                         *)

\* session.h: "vaDestroySurfaces returns the V4L2 indices owned by that
\* surface."  Every index a session has handed out is bound to a surface.
NoIndexLeak ==
  \A x \in Sessions : Lost(x)[1] = {} /\ Lost(x)[2] = {}

\* VA-DRIVER-DESIGN.md: AV1 takes both 8- and 10-bit surfaces, "the matching
\* CAPTURE is NV12 and P010", and the exported layers are R8/GR88 or R16/GR1616
\* accordingly: a surface is described as what its buffer holds.
DescribedAsStored ==
  \A s \in Surfaces : surf[s].dst # Unassigned =>
    surf[s].format = sess[surf[s].session].format
=============================================================================
