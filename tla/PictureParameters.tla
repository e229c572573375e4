------------------------- MODULE PictureParameters -------------------------
(***************************************************************************)
(* The parameters of the pictures a context decodes, from vaBeginPicture to *)
(* the request that carries them (picture.c and the *_set_controls of the   *)
(* codecs): the surface under decoding collects them, its timestamp names   *)
(* the picture, the context remembers the state of the stream, and the      *)
(* device keeps what it was last told and the pictures it still holds.      *)
(*                                                                         *)
(* What is bound to which buffer is DecodeSession's and what the queues do  *)
(* DecodeQueue's: here a picture that was queued is decoded at once.        *)
(*                                                                         *)
(* The client keeps slots, as every codec's reference picture set does, and *)
(* honours this contract.  A picture reads slots whose picture was decoded  *)
(* in this context, a key picture none.  A surface that such a slot names   *)
(* is neither decoded into nor destroyed.  Of the other slots it may keep   *)
(* ids that are stale: in AV1 and VP9 without more ado, in H.264 and HEVC   *)
(* flagged invalid or of a surface that is gone.  Having sent a scaling     *)
(* matrix with a surface it sends one whenever it decodes into it.          *)
(***************************************************************************)
EXTENDS DecodeControls

CONSTANTS
  Surfaces,     \* the ids of surfaces
  Slots,        \* how many slots a client keeps
  Codecs,       \* what contexts decode
  Sequences,    \* sequence headers
  Matrices,     \* scaling matrices, beside FlatMatrix
  Hints,        \* order hints, 1 and up
  Updates,      \* updates of a VP9 header, [deltas, features]
  Calls,        \* bound: the vaEndPicture that take a timestamp
  NoPicture, FlatMatrix, NoSequence, NoJob

ASSUME PictureParametersAssumption ==
  /\ Slots \in Nat \ {0} /\ Calls \in Nat
  /\ NoSurface \notin Surfaces /\ NoSequence \notin Sequences /\ FlatMatrix \notin Matrices
  /\ Hints \subseteq Nat \ {0}

VARIABLES
  codec,    \* of the context's config
  surface,  \* the driver's surfaces, by id
  target,   \* context_object->render_surface_id
  sent,     \* the picture parameters of the target, in its surface_object->params
  context,  \* context_object->vp9_state, av1_sequence and av1_sequence_sent
  device,   \* streaming, the sequence control, and the picture in the buffer
            \* of each surface, 0 for none
  client,   \* the client and the stream it decodes
  job       \* the picture just decoded: what was meant and what was told

vars == <<codec, surface, target, sent, context, device, client, job>>

SlotIndex == 1 .. Slots

Dead  == [live |-> FALSE, mine |-> FALSE, stamp |-> 0, hint |-> 0,
          matrix |-> FlatMatrix]
Fresh == [Dead EXCEPT !.live = TRUE]

Empty == [id |-> NoSurface, picture |-> 0, hint |-> 0]

NewState == [vp9 |-> Vp9Zero, sequence |-> NoSequence, sent |-> FALSE]

Idle == [streaming |-> FALSE, sequence |-> NoSequence, held |-> [s \in Surfaces |-> 0]]

\* slots: the id, picture and hint of each, picture 0 when it cannot be read;
\* sequence and vp9: the state of the stream; open: what the client has called;
\* gap, lost: see Misses and Loses; time: the clock.
NewStream == [slots |-> [i \in SlotIndex |-> Empty], sequence |-> NoSequence,
              vp9 |-> Vp9Reset, open |-> "end", gap |-> FALSE, lost |-> FALSE,
              time |-> 0]

Init ==
  /\ codec \in Codecs
  /\ surface = [s \in Surfaces |-> Fresh]
  /\ target = NoSurface
  /\ sent = NoPicture
  /\ context = NewState
  /\ device = Idle
  /\ client = NewStream
  /\ job = NoJob

Ids == [i \in SlotIndex |-> client.slots[i].id]
Readable == {i \in SlotIndex : client.slots[i].picture # 0}
Protected == {client.slots[i].id : i \in Readable}

-----------------------------------------------------------------------------
(* Surfaces and contexts.                                                  *)

CreateSurface(s) ==
  /\ ~surface[s].live
  /\ surface' = [surface EXCEPT ![s] = Fresh]
  /\ job' = NoJob
  /\ UNCHANGED <<codec, target, sent, context, device, client>>

DestroySurface(s) ==
  /\ surface[s].live /\ s \notin Protected /\ s # target
  /\ surface' = [surface EXCEPT ![s] = Dead]
  /\ device' = [device EXCEPT !.held[s] = 0]
  /\ job' = NoJob
  /\ UNCHANGED <<codec, target, sent, context, client>>

\* vaDestroyContext and vaCreateContext: the surfaces keep what they remember
\* and the client its slots, but no picture of the old session can be read.
NewContext ==
  /\ client.open = "end"
  /\ context # NewState \/ device # Idle
  /\ surface' = [s \in Surfaces |-> [surface[s] EXCEPT !.mine = FALSE]]
  /\ target' = NoSurface
  /\ context' = NewState
  /\ device' = Idle
  /\ client' = [client EXCEPT !.slots = [i \in SlotIndex |-> [@[i] EXCEPT !.picture = 0]],
                              !.sequence = NoSequence, !.gap = FALSE, !.lost = FALSE]
  /\ job' = NoJob
  /\ UNCHANGED <<codec, sent>>

-----------------------------------------------------------------------------
(* vaBeginPicture and vaRenderPicture.                                     *)

\* The parameters of VP9 and AV1 are zeroed.  Those of H.264 and HEVC are kept,
\* and all but the matrix are sent for every picture.
\* A buffer is bound at once but for AV1, and what was in it is given up.
BeginPicture(s) ==
  /\ client.open = "end"
  /\ surface[s].live /\ s \notin Protected
  /\ surface' = [surface EXCEPT ![s] =
       [@ EXCEPT !.mine = TRUE, !.hint = IF codec = "av1" THEN 0 ELSE @]]
  /\ device' = IF codec = "av1" THEN device ELSE [device EXCEPT !.held[s] = 0]
  /\ target' = s
  /\ client' = [client EXCEPT !.open = "begin"]
  /\ job' = NoJob
  /\ UNCHANGED <<codec, sent, context>>

AllReadable == InOrder(Readable)

\* A field that the codec does not have keeps one value.
Only(codecs, values, value) == IF codec \in codecs THEN values ELSE {value}

\* The DPB of H.264 and HEVC holds what it is told to, one slot for a picture;
\* VP9's and AV1's slots are never empty once a key picture has filled them.
HasDpb == codec \in {"h264", "hevc"}

\* The pictures that may come next in the stream: a key picture starts a
\* sequence, another reads what it can and fills one slot or none.
KeyPictures ==
  [kind : {"key"}, sequence : Sequences, hint : Only({"av1"}, Hints, 1),
   reads : {<< >>}, writes : IF HasDpb THEN {{i} : i \in SlotIndex} ELSE {SlotIndex},
   matrix : Only({"h264"}, Matrices, FlatMatrix) \cup {FlatMatrix},
   deltas : Only({"vp9"}, {u.deltas : u \in Updates}, << >>),
   features : Only({"vp9"}, {u.features : u \in Updates}, Unchanged)]

Reads ==
  CASE codec = "h264" -> {AllReadable} \ {<< >>}
    [] codec = "hevc" -> {<<i>> : i \in Readable} \cup {r \in Readable \X Readable : r[1] # r[2]}
    [] OTHER -> Readable \X Readable

InterPictures ==
  [kind : Only({"vp9"}, {"inter", "resilient"}, "inter"), sequence : {client.sequence},
   hint : Only({"av1"}, Hints, 1),
   reads : Reads, writes : {{}} \cup {{i} : i \in SlotIndex},
   matrix : Only({"h264"}, Matrices, FlatMatrix) \cup {FlatMatrix},
   deltas : Only({"vp9"}, {u.deltas : u \in Updates}, << >>),
   features : Only({"vp9"}, {u.features : u \in Updates}, Unchanged)]

Pictures ==
  {p \in KeyPictures \cup InterPictures :
     codec = "h264" /\ p.matrix = FlatMatrix => surface[target].matrix = FlatMatrix}

\* What the VP9 specification makes of the stream's state (setup_past_independence,
\* loop_filter_params, segmentation_params).
StreamState(state, p) ==
  LET past == IF p.kind = "inter" THEN state ELSE Vp9Reset
  IN [past EXCEPT
        !.deltas = [d \in DOMAIN @ |-> IF d \in DOMAIN p.deltas THEN p.deltas[d] ELSE @[d]],
        !.features = IF p.features = Unchanged THEN @ ELSE p.features]

\* A picture is no longer used for reference; its slot keeps the id.
Unuse(i) ==
  /\ HasDpb /\ client.open = "end" /\ i \in Readable
  /\ client' = [client EXCEPT !.slots[i].picture = 0]
  /\ job' = NoJob
  /\ UNCHANGED <<codec, surface, target, sent, context, device>>

RenderPicture(p) ==
  /\ sent' = p
  /\ surface' = [surface EXCEPT ![target].matrix = IF p.matrix = FlatMatrix THEN @ ELSE p.matrix]
  /\ client' = [client EXCEPT !.open = "render", !.sequence = p.sequence,
                              !.vp9 = IF codec = "vp9" THEN StreamState(@, p) ELSE @]
  /\ UNCHANGED <<codec, target, context, device, job>>

-----------------------------------------------------------------------------
(* vaEndPicture, by how far it gets.                                       *)

\* The timestamp is taken before anything that talks to the device.
Stamped == [surface EXCEPT ![target].stamp = client.time + 1]

\* codec_begin_streaming: the sequence is set on the device, but for VP9, and
\* the queues start.
Begun ==
  IF device.streaming THEN device
  ELSE [device EXCEPT !.streaming = TRUE, !.sequence = IF codec = "vp9" THEN @ ELSE sent.sequence]

\* What the controls are filled from leaves its mark on the context before they
\* are submitted: VP9's running state, and for AV1 that the sequence was sent.
Filled ==
  CASE codec = "vp9" -> [context EXCEPT !.vp9 = Vp9Running(@, sent)]
    [] codec = "av1" -> [context EXCEPT !.sequence = sent.sequence, !.sent = TRUE]
    [] OTHER -> context

\* H.264 and HEVC repeat the sequence in every request, AV1 when it changes.
SendsSequence ==
  \/ codec \in {"h264", "hevc"}
  \/ codec = "av1" /\ (~context.sent \/ context.sequence # sent.sequence)

\* A call that returns an error before a VP9 header was read misses its updates.
Misses == client.gap \/ codec = "vp9"

\* Only a picture that resets the state makes up for them.
StillMisses == client.gap /\ sent.kind = "inter"

\* An AV1 sequence that went down with its request, and was not set on the
\* device before, is taken for sent.
Loses == IF SendsSequence THEN device.streaming ELSE device.streaming /\ client.lost

Ends(gap, lost, time) ==
  /\ sent' = NoPicture /\ job' = NoJob
  /\ client' = [client EXCEPT !.open = "end", !.gap = gap, !.lost = lost, !.time = time]

\* Refused at once: a VP9 or AV1 picture without parameters, no buffer to bind.
EndRefused ==
  /\ client.open # "end"
  /\ client.open = "begin" => codec \in {"vp9", "av1"}
  /\ Ends(IF client.open = "render" THEN Misses ELSE client.gap, client.lost, client.time)
  /\ UNCHANGED <<codec, surface, target, context, device>>

Ending == client.open = "render" /\ client.time < Calls

\* No request, or the device refuses the sequence or STREAMON.
EndUnstarted ==
  /\ Ending
  /\ surface' = Stamped
  /\ \/ UNCHANGED device
     \/ ~device.streaming /\ device' = [Begun EXCEPT !.streaming = FALSE]
  /\ Ends(Misses, client.lost, client.time + 1)
  /\ UNCHANGED <<codec, target, context>>

\* The codec refuses the picture: no slice in the access unit, a VP9 header that
\* does not parse, intra block copy, a film grain that needs a second surface.
EndUnparsed ==
  /\ Ending
  /\ surface' = Stamped
  /\ device' = Begun
  /\ Ends(Misses, device.streaming /\ client.lost, client.time + 1)
  /\ UNCHANGED <<codec, target, context>>

\* Mutant of EndUnsubmitted: the context learns of what was accepted.
EndUnsubmittedForgotten ==
  /\ Ending
  /\ surface' = Stamped
  /\ device' = Begun
  /\ Ends(StillMisses, Loses, client.time + 1)
  /\ UNCHANGED <<codec, target, context>>

\* The controls are refused, or one of the buffers is; in that case an AV1
\* surface remembers the hint already.
EndUnsubmitted ==
  /\ Ending
  /\ \/ surface' = Stamped
     \/ codec = "av1" /\ surface' = [Stamped EXCEPT ![target].hint = sent.hint]
  /\ device' = Begun
  /\ context' = Filled
  /\ Ends(StillMisses, Loses, client.time + 1)
  /\ UNCHANGED <<codec, target>>

\* The kernel's vb2_find_buffer: the picture with this timestamp, 0 if no buffer
\* of the device holds it.
Found(stamp) == IF \E s \in Surfaces : device.held[s] = stamp THEN stamp ELSE 0

\* H.264's and HEVC's array: a slot that cannot be read is flagged, or names a
\* surface that is gone.
Entries ==
  [i \in SlotIndex |->
     [id |-> Ids[i],
      invalid |-> i \notin Readable /\ Known(surface, Ids[i]),
      use |-> IF sent.reads # << >> /\ sent.reads[1] = i THEN "before"
              ELSE IF Len(sent.reads) = 2 /\ sent.reads[2] = i THEN "after" ELSE "none"]]

\* The picture that each of the references comes to on the device.
References ==
  LET now == Stamped
      dpb == Dpb(Entries, now)
      before == Current(Entries, now, "before")
      after  == Current(Entries, now, "after")
      map == Av1Map(now, Ids, sent.reads)
  IN IF sent.reads = << >> THEN << >>
     ELSE CASE codec = "h264" -> [k \in DOMAIN dpb |-> Found(Register(dpb, k))]
            [] codec = "hevc" -> [k \in DOMAIN (before \o after) |->
                                    Found(Register(dpb, (before \o after)[k]))]
            [] codec = "vp9"  -> [k \in DOMAIN sent.reads |->
                                    Found(Vp9Stamp(now, Ids[sent.reads[k]]))]
            [] codec = "av1"  -> [k \in DOMAIN sent.reads |-> Found(map[sent.reads[k]])]

\* The kernel retires an AV1 frame that no slot of the map names (av1.c:181-183).
Held ==
  LET map == Av1Map(Stamped, Ids, sent.reads)
      retired(s) == codec = "av1" /\ \A i \in SlotIndex : map[i] # device.held[s]
  IN [s \in Surfaces |->
        IF s = target THEN client.time + 1 ELSE IF retired(s) THEN 0 ELSE device.held[s]]

\* The request is queued and decoded.  Only when the sync succeeds does the
\* client put the picture into its slots.
EndDecoded(synced) ==
  /\ Ending
  /\ surface' = [Stamped EXCEPT ![target].hint = IF codec = "av1" THEN sent.hint ELSE @]
  /\ context' = Filled
  /\ device' = [Begun EXCEPT !.sequence = IF SendsSequence THEN sent.sequence ELSE @,
                             !.held = Held]
  /\ target' = IF synced THEN NoSurface ELSE target
  /\ client' = [client EXCEPT
       !.open = "end", !.time = @ + 1, !.gap = StillMisses,
       !.lost = device.streaming /\ @ /\ ~SendsSequence,
       !.slots = [i \in SlotIndex |->
         IF synced /\ i \in sent.writes
           THEN [id |-> target, picture |-> client.time + 1, hint |-> sent.hint]
         ELSE IF synced /\ HasDpb /\ sent.kind = "key" THEN [@[i] EXCEPT !.picture = 0]
         ELSE @[i]]]
  /\ job' = [meant |-> [references |-> [k \in DOMAIN sent.reads |->
                                          client.slots[sent.reads[k]].picture],
                        hints |-> IF codec = "av1"
                                    THEN [k \in DOMAIN sent.reads |->
                                            client.slots[sent.reads[k]].hint] ELSE << >>,
                        matrix |-> sent.matrix],
             told  |-> [references |-> References,
                        hints |-> IF codec = "av1" THEN Av1Hints(surface, Ids, sent.reads)
                                                   ELSE << >>,
                        matrix |-> surface[target].matrix],
             state |-> [meant |-> client.vp9, told |-> context'.vp9, missed |-> StillMisses],
             sequence |-> [meant |-> sent.sequence, told |-> device'.sequence,
                           lost |-> client'.lost]]
  /\ sent' = NoPicture
  /\ UNCHANGED codec

Next ==
  \/ \E s \in Surfaces : CreateSurface(s) \/ DestroySurface(s) \/ BeginPicture(s)
  \/ NewContext
  \/ \E i \in SlotIndex : Unuse(i)
  \/ client.open = "begin" /\ \E p \in Pictures : RenderPicture(p)
  \/ EndRefused \/ EndUnstarted \/ EndUnparsed \/ EndUnsubmitted
  \/ \E synced \in BOOLEAN : EndDecoded(synced)

Spec == Init /\ [][Next]_vars

-----------------------------------------------------------------------------
(* What must hold.                                                         *)

\* Every picture is decoded from the pictures, the order hints and the scaling
\* matrix that its stream means: neither a recycled id, an id that is stale, a
\* timestamp taken by a call that failed nor a surface that is gone comes between
\* (fill_dpb, ref_timestamp_for, fill_frame).
ReferencesAreMeant ==
  job # NoJob => job.told = job.meant

\* The device holds every picture that the client may still read: an AV1 frame is
\* retired only when no slot of the client needs it (fill_frame's map).
ReferencesKept ==
  \A i \in Readable : \E s \in Surfaces : device.held[s] = client.slots[i].picture

\* Every picture is decoded under the stream's sequence, loop filter deltas and
\* segmentation features, also after calls that failed: but for the updates of a
\* VP9 header that was never read, until the next reset, and an AV1 sequence that
\* went down with its request, until it changes (vp9_state, av1_sequence).
StateFollowsStream ==
  job # NoJob =>
    IF codec = "vp9"
      THEN \/ job.state.missed
           \/ /\ job.state.told.deltas = job.state.meant.deltas
              /\ job.state.told.features = job.state.meant.features
      ELSE job.sequence.lost \/ job.sequence.told = job.sequence.meant
=============================================================================
