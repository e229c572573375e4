--------------------------- MODULE DecodeControls ---------------------------
(***************************************************************************)
(* What the kernel is told of a picture (the fill_* functions of h264.c,    *)
(* h265.c, vp9.c and av1.c), of the references and of the state that a      *)
(* stream carries from picture to picture.  The fields a codec only copies  *)
(* travel in sequence and are not told apart.                              *)
(*                                                                         *)
(* A surface is a record [live, mine, stamp, hint, ...]: is its id that of  *)
(* a surface, is its session the context's, its timestamp (0 before the     *)
(* first vaEndPicture) and its params.av1.order_hint.                       *)
(***************************************************************************)
EXTENDS Integers, Sequences, Positions

CONSTANT NoSurface   \* VA_INVALID_SURFACE

\* SURFACE(driver_data, id): id is that of a surface.
Known(surface, id) == id # NoSurface /\ surface[id].live

Stamp(surface, id) == IF Known(surface, id) THEN surface[id].stamp ELSE 0

-----------------------------------------------------------------------------
(* H.264 and HEVC.  An entry of ReferenceFrames is [id, invalid, use].     *)

\* Mutant of Packed: an entry that is skipped leaves its slot empty.
PackedWithHoles(entries, surface) ==
  [k \in DOMAIN entries |->
     IF entries[k].invalid \/ ~Known(surface, entries[k].id)
       THEN [entries[k] EXCEPT !.id = NoSurface] ELSE entries[k]]

\* The entries that name a picture, consecutively from slot zero.
Packed(entries, surface) ==
  Chosen(entries, {i \in DOMAIN entries :
                     ~entries[i].invalid /\ Known(surface, entries[i].id)})

\* The DPB of both codecs (fill_dpb).
Dpb(entries, surface) ==
  LET packed == Packed(entries, surface)
  IN [slot \in DOMAIN packed |-> Stamp(surface, packed[slot].id)]

\* The DPB slots of HEVC's list of this use: poc_st_curr_before, poc_st_curr_after.
Current(entries, surface, use) ==
  LET packed == Packed(entries, surface)
  IN InOrder({slot \in DOMAIN packed : packed[slot].use = use})

\* rkvdec reads the DPB one register per slot, up to the first that is empty
\* (h264.c:218-222).
Register(dpb, slot) ==
  IF slot \in DOMAIN dpb /\ (\A k \in 1 .. slot : dpb[k] # 0) THEN dpb[slot] ELSE 0

-----------------------------------------------------------------------------
(* VP9.                                                                    *)

\* ref_timestamp_for: a surface of another session is no reference.
Vp9Stamp(surface, id) ==
  IF Known(surface, id) /\ surface[id].mine THEN surface[id].stamp ELSE 0

\* The deltas of the reference frames, then those of the modes.
DefaultDeltas == <<1, 0, -1, -1, 0, 0>>
NoFeatures == "none"

Vp9Reset == [initialised |-> TRUE, deltas |-> DefaultDeltas, features |-> NoFeatures]

\* A new context's vp9_state is zeroed.
Vp9Zero == [initialised |-> FALSE, deltas |-> [d \in DOMAIN DefaultDeltas |-> 0],
            features |-> NoFeatures]

\* A picture is [kind, deltas, features, ...]: its header updates the deltas in
\* the domain of deltas, and all features when features is not Unchanged.
Unchanged == "unchanged"

\* fill_loop_filter and fill_segmentation on the state of the context, which
\* fill_vp9_frame resets for intra and error-resilient frames.
Vp9Running(state, picture) ==
  LET before == IF ~state.initialised \/ picture.kind \in {"key", "resilient"}
                  THEN Vp9Reset ELSE state
  IN [before EXCEPT
        !.deltas = [d \in DOMAIN @ |->
                      IF d \in DOMAIN picture.deltas THEN picture.deltas[d] ELSE @[d]],
        !.features = IF picture.features = Unchanged THEN @ ELSE picture.features]

-----------------------------------------------------------------------------
(* AV1.  ids is ref_frame_map, reads is ref_frame_idx.                     *)

\* Mutant of Av1Map: the slots that this frame reads.
Av1MapRead(surface, ids, reads) ==
  [slot \in DOMAIN ids |->
     IF \E k \in DOMAIN reads : reads[k] = slot THEN Stamp(surface, ids[slot]) ELSE 0]

\* reference_frame_ts: every slot of the map.
Av1Map(surface, ids, reads) == [slot \in DOMAIN ids |-> Stamp(surface, ids[slot])]

\* order_hints: the hint each reference was decoded with.
Av1Hints(surface, ids, reads) ==
  [k \in DOMAIN reads |->
     IF Known(surface, ids[reads[k]]) THEN surface[ids[reads[k]]].hint ELSE 0]
=============================================================================
