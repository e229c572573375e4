-------------------------- MODULE EncodeParameters --------------------------
(***************************************************************************)
(* The parameters of the pictures a context encodes (encode.c): collected   *)
(* from the buffers of vaRenderPicture, applied to the device by            *)
(* vaEndPicture when they differ from what was applied last, and the packed *)
(* headers that go ahead of the bitstream.  EncodeRing says what becomes of *)
(* the picture itself.                                                     *)
(*                                                                         *)
(* A sequence is [level, bitrate, shown], its size after cropping; a        *)
(* picture [qp, idr], a slice [delta, intra].                              *)
(***************************************************************************)
EXTENDS Integers, Sequences, SequencesExt, FiniteSetsExt, Positions

CONSTANTS
  Buffers,      \* what the client renders: [type, short, ...]
  Absent,       \* sets of controls that a device may lack
  MaxPacked,    \* REQUEST_ENCODE_MAX_PACKED_HEADERS
  Capacity,     \* bytes of a coded buffer
  ContextSize,  \* <<width, height>> of vaCreateContext
  RawSize,      \* <<width, height>> of the raw buffers
  MaxBuffers,   \* bound: buffers of a picture
  MaxEncoded,   \* bound: pictures that reach the device
  None          \* nothing of the kind

ASSUME EncodeParametersAssumption ==
  /\ MaxPacked \in Nat /\ Capacity \in Nat /\ MaxBuffers \in Nat /\ MaxEncoded \in Nat

\* A buffer of any other type changes nothing (encode_params_collect).
ASSUME BuffersAssumption ==
  /\ None \notin Buffers
  /\ \A b \in Buffers : b.short \/ b.type \in {"sequence", "picture", "slice", "rate_control",
                                               "frame_rate", "packed", "packed_data"}

VARIABLES
  params,   \* context_object->encode_params, None between pictures
  encode,   \* the context's applied_* and sequence_seen
  encoder,  \* the device: its controls and the ones it lacks
  asked,    \* what the client has asked for, in the pictures that were applied
  pairs,    \* the packed headers it rendered for this picture
  coded,    \* the packed headers in the coded buffer, None before vaEndPicture
  used      \* buffers of this picture, and pictures so far

encodeVars == <<params, encode, encoder, asked, pairs, coded, used>>

Qps == {"qp_i", "qp_p"}
Controls == {"level", "bitrate", "framerate", "qp_min", "qp_max"} \cup Qps

\* The device's own setting of a control.
Default == -1

NoRate == <<0, 0>>
Zero(id) == IF id = "framerate" THEN NoRate ELSE 0

\* encode_params_reset.
Reset == [sequence |-> None, picture |-> None, slice |-> None, bitrate |-> 0,
          qp_min |-> 0, qp_max |-> 0, framerate |-> NoRate, packed |-> << >>, pending |-> None]

EncodeInit ==
  /\ params = None
  /\ encode = [applied |-> [id \in Controls |-> Zero(id)], seen |-> FALSE]
  /\ \E lacks \in Absent :
       encoder = [control |-> [id \in Controls |-> Default], crop |-> None, lacks |-> lacks,
                  idr |-> FALSE]
  /\ asked = [id \in {} |-> 0]
  /\ pairs = << >> /\ coded = None
  /\ used = <<0, 0>>

-----------------------------------------------------------------------------
(* encode_params_collect.  A packed header is announced, with how many bits *)
(* there are to take of the data that follows.                             *)

Header(pending, b) == [raw |-> pending.raw, bits |-> pending.bits, data |-> b.data, size |-> b.size]

\* Mutant of CollectPacked: what is said of one header stays for the next.
CollectPackedAgain(p, b) ==
  IF b.type = "packed" THEN [p EXCEPT !.pending = b]
  ELSE IF p.pending = None THEN p
  ELSE [p EXCEPT !.packed = IF Len(@) < MaxPacked THEN Append(@, Header(p.pending, b)) ELSE @]

CollectPacked(p, b) ==
  IF b.type = "packed" THEN [p EXCEPT !.pending = b]
  ELSE IF p.pending = None THEN p
  ELSE [p EXCEPT !.pending = None,
                 !.packed = IF Len(@) < MaxPacked THEN Append(@, Header(p.pending, b)) ELSE @]

CollectMisc(p, b) ==
  IF b.type = "rate_control"
    THEN [p EXCEPT !.bitrate = b.bitrate, !.qp_min = b.qp_min, !.qp_max = b.qp_max]
    ELSE [p EXCEPT !.framerate = <<b.num, IF b.den = 0 THEN 1 ELSE b.den>>]

\* A buffer that is too short for its type is refused, or passed over when it is
\* one that need not be there.
Collect(p, b) ==
  IF b.short THEN p
  ELSE CASE b.type \in {"sequence", "picture", "slice"} -> [p EXCEPT ![b.type] = b.value]
         [] b.type \in {"rate_control", "frame_rate"} -> CollectMisc(p, b)
         [] b.type \in {"packed", "packed_data"} -> CollectPacked(p, b)

EncodeBegin ==
  /\ params = None /\ used[2] < MaxEncoded
  /\ params' = Reset
  /\ pairs' = << >> /\ coded' = None
  /\ used' = <<0, used[2]>>
  /\ UNCHANGED <<encode, encoder, asked>>

\* The client sends the parameters of a packed header, then its data.
Complete(pair) == Len(pair) = 2

\* The pairs of which both came; parameters are only waiting for their data as
\* long as no others follow.
Sent == IF pairs = << >> \/ Complete(Last(pairs)) THEN pairs ELSE Front(pairs)

EncodeRender(b) ==
  /\ params # None /\ used[1] < MaxBuffers
  /\ params' = Collect(params, b)
  /\ pairs' =
       IF b.short THEN pairs
       ELSE CASE b.type = "packed" -> Append(Sent, <<b>>)
              [] b.type = "packed_data" -> [k \in DOMAIN pairs |->
                   IF Complete(pairs[k]) THEN pairs[k] ELSE <<pairs[k][1], b>>]
              [] OTHER -> pairs
  /\ used' = <<used[1] + 1, used[2]>>
  /\ UNCHANGED <<encode, encoder, asked, coded>>

-----------------------------------------------------------------------------
(* vaEndPicture.                                                           *)

\* encode_append_packed: how much of a header's buffer is taken.
Bytes(header) == Min({(header.bits + 7) \div 8, header.size})

Written(packed) ==
  LET raw == Chosen(packed, {k \in DOMAIN packed : packed[k].raw})
  IN [k \in DOMAIN raw |-> <<raw[k].data, Bytes(raw[k])>>]

Fits(packed) == FoldSeq(LAMBDA w, total : total + w[2], 0, Written(packed)) <= Capacity

\* encode_set_crop; a size that wraps below zero is larger than any buffer.
Crop(p) ==
  LET size == IF p.sequence = None THEN ContextSize ELSE p.sequence.shown
  IN IF size[1] = 0 \/ size[2] = 0 THEN encoder.crop
     ELSE [k \in {1, 2} |-> IF size[k] < 0 THEN RawSize[k] ELSE Min({size[k], RawSize[k]})]

ClampQp(qp) == CASE qp < 0 -> 0 [] qp > 51 -> 51 [] OTHER -> qp

\* encode_level_menu: V4L2's menu, where level 1b comes after level 1.
Menu == <<10, 9, 11, 12, 13, 20, 21, 22, 30, 31, 32, 40, 41, 42, 50, 51, 52, 60, 61, 62>>

Level(idc) ==
  (CHOOSE k \in DOMAIN Menu : Menu[k] = IF idc \in ToSet(Menu) THEN idc ELSE 40) - 1

\* What the parameters ask of the controls; a value of 0 asks for nothing, but
\* for a level, which is the menu's number, and a QP.
Wanted(p) ==
  LET has(buffer) == p[buffer] # None
      bitrate == IF has("sequence") /\ p.sequence.bitrate # 0 THEN p.sequence.bitrate
                                                             ELSE p.bitrate
      delta   == IF has("slice") THEN p.slice.delta ELSE 0
      asks    == {id \in Controls :
                    CASE id = "level"     -> has("sequence")
                      [] id = "bitrate"   -> bitrate # 0
                      [] id = "framerate" -> p.framerate[1] # 0
                      [] id \in Qps       -> has("picture")
                      [] OTHER            -> p[id] # 0}
  IN [id \in asks |->
        CASE id = "level"   -> Level(p.sequence.level)
          [] id = "bitrate" -> bitrate
          [] id = "qp_i"    -> ClampQp(p.picture.qp)
          [] id = "qp_p"    -> ClampQp(p.picture.qp + delta)
          [] OTHER          -> p[id]]

\* Mutant of Changed: the P frames' QP is compared with that of the I frames.
ChangedQp(wanted) ==
  {id \in DOMAIN wanted :
     \/ wanted[id] # encode.applied[IF id = "qp_p" THEN "qp_i" ELSE id]
     \/ id = "level" /\ ~encode.seen}

\* The controls to set: encode_apply_params remembers what it applied.
Changed(wanted) ==
  {id \in DOMAIN wanted :
     \/ wanted[id] # encode.applied[id]
     \/ id = "level" /\ ~encode.seen}

\* An I slice forces a key frame, as an IDR picture does.
Idr(p) == p.picture.idr \/ (p.slice # None /\ p.slice.intra)

Updated(f, g) == [id \in DOMAIN f \cup DOMAIN g |-> IF id \in DOMAIN g THEN g[id] ELSE f[id]]

\* No picture parameters, no coded buffer, or packed headers that do not fit; the
\* client gives the picture up.
EncodeRefused ==
  /\ params # None
  /\ params' = None
  /\ UNCHANGED <<encode, encoder, asked, pairs, coded, used>>

\* The controls are set one by one; one that the device lacks fails unnoticed.
\* The picture may still fail, and its parameters stay applied.
EncodeApplied ==
  /\ params # None /\ params.picture # None
  /\ Fits(params.packed)
  /\ LET wanted == Wanted(params)
     IN /\ encode' = [applied |-> Updated(encode.applied, wanted),
                      seen |-> (encode.seen \/ params.sequence # None)]
        /\ encoder' = [encoder EXCEPT
             !.control = [id \in Controls |->
               IF id \in Changed(wanted) \ encoder.lacks THEN wanted[id] ELSE @[id]],
             !.crop = Crop(params), !.idr = Idr(params)]
        /\ asked' = Updated(asked, wanted)
  /\ coded' = Written(params.packed)
  /\ params' = None
  /\ used' = <<used[1], used[2] + 1>>
  /\ UNCHANGED pairs

EncodeNext ==
  \/ EncodeBegin
  \/ \E b \in Buffers : EncodeRender(b)
  \/ EncodeRefused \/ EncodeApplied

-----------------------------------------------------------------------------

\* Whatever was applied before it, a picture is encoded under the settings asked
\* for last, those that the device has; only a QP of 0 is taken for already
\* applied as long as no other has been (encode_apply_params).
EncoderRunsAsAsked ==
  \A id \in DOMAIN asked \ encoder.lacks :
    \/ encoder.control[id] = asked[id]
    \/ id \in Qps /\ asked[id] = 0 /\ encoder.control[id] = Default

\* The coded buffer starts with the raw headers that the client sent, in its
\* order, each cut to its bits and its buffer; those after the first MaxPacked
\* are lost (encode_collect_packed, encode_append_packed).
HeadersGoFirst ==
  coded # None =>
    LET kept == 1 .. Min({Len(Sent), MaxPacked})
        raw  == Chosen(Sent, {k \in kept : Sent[k][1].raw})
    IN coded = [k \in DOMAIN raw |->
                  <<raw[k][2].data, Min({(raw[k][1].bits + 7) \div 8, raw[k][2].size})>>]
=============================================================================
