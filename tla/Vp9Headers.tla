------------------------------ MODULE Vp9Headers ------------------------------
(***************************************************************************)
(* The two headers of a VP9 frame as the driver reads them (va-driver/src/ *)
(* vp9_parser.c, vp9.c) and as the specification writes them.  Everything  *)
(* is read in sequence, so a field is found where it is only if every field *)
(* before it was taken for what it is: a header is the sequence of its     *)
(* fields, each with its width.  h says what kind of header it is.         *)
(***************************************************************************)
EXTENDS Integers, FiniteSetsExt, SequencesExt

Bit(name)      == << <<name, 1>> >>
Bits(name, n)  == << <<name, n>> >>
When(cond, s)  == IF cond THEN s ELSE << >>
Each(n, F(_))  == FlattenSeq([k \in 1 .. n |-> F(k)])

FrameKinds == {"key", "intra_only", "inter"}

-----------------------------------------------------------------------------
(* vp9_parser.c *)

\* compute_log2_tile_cols_range: tiles are at most 64 superblocks wide and at
\* least 4.
SbCols(width) == (((width + 7) \div 8) + 7) \div 8
MinTileLog2(width) == Min({k \in 0 .. 10 : 64 * 2 ^ k >= SbCols(width)})
MaxTileLog2(width) ==
  LET mx == Min({k \in 1 .. 12 : SbCols(width) \div 2 ^ k < 4}) - 1
  IN Max({mx, MinTileLog2(width)})

\* skip_frame_size and skip_frame_size_with_refs: h.found is the reference the
\* size is taken from, 0 if it is coded.
RenderSize(h) ==
  Bit("render_differs")
    \o When(h.render, Bits("render_width", 16) \o Bits("render_height", 16))
FrameSize(h) == Bits("width", 16) \o Bits("height", 16) \o RenderSize(h)
FrameSizeWithRefs(h) ==
  Each(IF h.found = 0 THEN 3 ELSE h.found, LAMBDA k : Bit("found_ref"))
    \o When(h.found = 0, Bits("width", 16) \o Bits("height", 16))
    \o RenderSize(h)

LoopFilter(h) ==
  LET Delta(name, k) == Bit("update_delta") \o When(k \in h.deltas, Bits(name, 7))
  IN Bits("level", 6) \o Bits("sharpness", 3) \o Bit("delta_enabled")
       \o When(h.lf # "off", Bit("delta_update"))
       \o When(h.lf = "update", Each(4, LAMBDA k : Delta("ref_delta", k))
                                  \o Each(2, LAMBDA k : Delta("mode_delta", k + 4)))

Quantization(h) ==
  Bits("base_q_idx", 8)
    \o Each(3, LAMBDA k : Bit("delta_coded") \o When(k \in h.quant, Bits("delta_q", 5)))

Features(h) ==
  LET Feature(k, name, n) ==
        Bit("feature_enabled") \o When(name \in h.features[k], Bits(name, n))
  IN Bit("abs_delta")
       \o Each(Len(h.features),
               LAMBDA k : Feature(k, "alt_q", 9) \o Feature(k, "alt_l", 7)
                            \o Feature(k, "ref", 2) \o Feature(k, "skip", 0))

MapProbs(h) ==
  Each(7, LAMBDA k : Bit("prob_coded") \o When(h.probs, Bits("tree_prob", 8)))
    \o Bit("temporal_update")
    \o When(h.temporal,
            Each(3, LAMBDA k : Bit("prob_coded") \o When(h.probs, Bits("pred_prob", 8))))

\* An intra frame, or one that does not depend on others, is taken to update
\* everything without saying so.
Segmentation(h) ==
  LET implied == h.frame # "inter" \/ h.er
  IN Bit("segmentation_enabled")
       \o When(h.seg /\ ~implied, Bit("update_map") \o When(h.map, MapProbs(h))
                                    \o Bit("update_data"))
       \o When(h.seg /\ (implied \/ h.data), Features(h))

TileInfo(h) ==
  Each(h.cols - MinTileLog2(h.width) + (IF h.cols < MaxTileLog2(h.width) THEN 1 ELSE 0),
       LAMBDA k : Bit("increment_cols"))
    \o Bit("tile_rows") \o When(h.rows > 0, Bit("increment_rows"))

\* vp9_parse_uncompressed_header, for the profile the driver offers.
UncompressedRead(h) ==
  Bits("frame_marker", 2) \o Bits("profile", 2) \o Bit("show_existing_frame")
    \o Bit("frame_type") \o Bit("show_frame") \o Bit("error_resilient")
    \o (CASE h.frame = "key" ->
               Bits("sync_code", 24) \o Bits("color_space", 3) \o Bit("color_range")
                 \o FrameSize(h)
          [] h.frame # "key" ->
               When(~h.show, Bit("intra_only"))
                 \o When(~h.er, Bits("reset_frame_context", 2))
                 \o When(h.frame = "intra_only",
                         Bits("sync_code", 24) \o Bits("refresh_flags", 8) \o FrameSize(h))
                 \o When(h.frame = "inter",
                         Bits("refresh_flags", 8)
                           \o Each(3, LAMBDA k : Bits("ref_idx", 3) \o Bit("sign_bias"))
                           \o FrameSizeWithRefs(h) \o Bit("high_precision_mv")
                           \o Bit("switchable")
                           \o When(~h.switchable, Bits("filter", 2))))
    \o When(~h.er, Bit("refresh_context") \o Bit("parallel_mode"))
    \o Bits("context_idx", 2)
    \o LoopFilter(h) \o Quantization(h) \o Segmentation(h) \o TileInfo(h)
    \o Bits("first_partition_size", 16)

-----------------------------------------------------------------------------
(* vp9.c, vp9_fill_compressed_hdr: here a width is a number of probabilities. *)

\* The sizes of transform whose coefficients follow: the loop ends at tx_mode.
LastTransform(h) == IF h.tx > 3 THEN 3 ELSE h.tx

\* Mutant of InterProbs: the filter's probabilities are read whatever the filter.
InterProbsUnconditional(h) ==
  Bits("inter_mode", 21) \o Bits("interp_filter", 8) \o Bits("is_inter", 4)

InterProbs(h) ==
  Bits("inter_mode", 21)
    \o When(h.switchable, Bits("interp_filter", 8))
    \o Bits("is_inter", 4)
    \o When(h.compound, Bit("reference_select")
                          \o When(h.pred > 0, Bit("reference_select_2"))
                          \o When(h.pred = 2, Bits("comp_mode", 5)))
    \o When(h.pred # 1, Bits("single_ref", 10))
    \o When(h.pred # 0, Bits("comp_ref", 5))
    \o Bits("y_mode", 36) \o Bits("partition", 48) \o Bits("joint", 3)
    \o Each(2, LAMBDA k : Bit("sign") \o Bits("classes", 10) \o Bit("class0_bit")
                            \o Bits("bits", 10))
    \o Each(2, LAMBDA k : Bits("class0_fr", 6) \o Bits("fr", 3))
    \o When(h.hp, Each(2, LAMBDA k : Bit("class0_hp") \o Bit("hp")))

CompressedRead(h) ==
  When(~h.lossless, Bits("tx_mode", 2) \o When(h.tx >= 3, Bit("tx_mode_select"))
                      \o When(h.tx = 4, Bits("tx8", 2) \o Bits("tx16", 4) \o Bits("tx32", 6)))
    \o Each(LastTransform(h) + 1,
            LAMBDA k : Bit("update_coef") \o When(k \in h.coefs, Bits("coef", 396)))
    \o Bits("skip", 3)
    \o When(h.frame = "inter", InterProbs(h))

-----------------------------------------------------------------------------
(* The VP9 bitstream specification: uncompressed_header() of 6.2 and the    *)
(* compressed header of 6.3 as tables of rows: a field, its width, and when *)
(* it is there.                                                            *)

Row(name, width, present) == IF present THEN << <<name, width>> >> ELSE << >>

\* Rows in pairs: a flag, and a value if it is set.
Flagged(n, flag, name, width, present, set) ==
  FlattenSeq([k \in 1 .. n |-> Row(flag, 1, present) \o Row(name, width, present /\ k \in set)])

\* From the type of frame on to what is there in every frame again.
FrameRows(h) ==
  LET key == h.frame = "key"  inter == h.frame = "inter"
      sized == ~inter \/ h.found = 0
      Reference == Row("ref_idx", 3, inter) \o Row("sign_bias", 1, inter)
  IN Row("intra_only", 1, ~key /\ ~h.show) \o Row("reset_frame_context", 2, ~key /\ ~h.er)
     \o Row("sync_code", 24, ~inter)
     \o Row("color_space", 3, key) \o Row("color_range", 1, key)
     \o Row("refresh_flags", 8, ~key)
     \o Reference \o Reference \o Reference
     \o Row("found_ref", 1, inter) \o Row("found_ref", 1, inter /\ h.found # 1)
     \o Row("found_ref", 1, inter /\ h.found \notin {1, 2})
     \o Row("width", 16, sized) \o Row("height", 16, sized)
     \o Row("render_differs", 1, TRUE)
     \o Row("render_width", 16, h.render) \o Row("render_height", 16, h.render)
     \o Row("high_precision_mv", 1, inter) \o Row("switchable", 1, inter)
     \o Row("filter", 2, inter /\ ~h.switchable)

LoopFilterRows(h) ==
  LET upd == h.lf = "update"
  IN Row("level", 6, TRUE) \o Row("sharpness", 3, TRUE) \o Row("delta_enabled", 1, TRUE)
     \o Row("delta_update", 1, h.lf # "off")
     \o Flagged(4, "update_delta", "ref_delta", 7, upd, h.deltas)
     \o Flagged(2, "update_delta", "mode_delta", 7, upd, {k - 4 : k \in h.deltas})

SegmentationRows(h) ==
  LET all  == IF h.probs THEN 1 .. 7 ELSE {}
      map  == h.seg /\ h.map
      feat == h.seg /\ h.data
      Feature(k, name, width) ==
        Row("feature_enabled", 1, feat) \o Row(name, width, feat /\ name \in h.features[k])
  IN Row("segmentation_enabled", 1, TRUE) \o Row("update_map", 1, h.seg)
     \o Flagged(7, "prob_coded", "tree_prob", 8, map, all)
     \o Row("temporal_update", 1, map)
     \o Flagged(3, "prob_coded", "pred_prob", 8, map /\ h.temporal, all)
     \o Row("update_data", 1, h.seg) \o Row("abs_delta", 1, feat)
     \o FlattenSeq([k \in DOMAIN h.features |->
                      Feature(k, "alt_q", 9) \o Feature(k, "alt_l", 7)
                        \o Feature(k, "ref", 2) \o Feature(k, "skip", 0)])

\* calc_min_log2_tile_cols and calc_max_log2_tile_cols.
LeastTileLog2(width) ==
  CHOOSE k \in 0 .. 10 : /\ 64 * 2 ^ k >= SbCols(width)
                         /\ \A j \in 0 .. k-1 : 64 * 2 ^ j < SbCols(width)
MostTileLog2(width) ==
  Max({LeastTileLog2(width)} \cup {k \in 0 .. 10 : SbCols(width) >= 4 * 2 ^ k})

TileRows(h) ==
  FlattenSeq([k \in 1 .. h.cols - LeastTileLog2(h.width) |-> Row("increment_cols", 1, TRUE)])
    \o Row("increment_cols", 1, h.cols < MostTileLog2(h.width))
    \o Row("tile_rows", 1, TRUE) \o Row("increment_rows", 1, h.rows # 0)

UncompressedWritten(h) ==
  Row("frame_marker", 2, TRUE) \o Row("profile", 2, TRUE)
    \o Row("show_existing_frame", 1, TRUE) \o Row("frame_type", 1, TRUE)
    \o Row("show_frame", 1, TRUE) \o Row("error_resilient", 1, TRUE)
    \o FrameRows(h)
    \o Row("refresh_context", 1, ~h.er) \o Row("parallel_mode", 1, ~h.er)
    \o Row("context_idx", 2, TRUE)
    \o LoopFilterRows(h)
    \o Row("base_q_idx", 8, TRUE) \o Flagged(3, "delta_coded", "delta_q", 5, TRUE, h.quant)
    \o SegmentationRows(h) \o TileRows(h)
    \o Row("first_partition_size", 16, TRUE)

InterRows(h) ==
  LET inter == h.frame = "inter"
      both  == inter /\ h.compound
      Mv    == Row("sign", 1, inter) \o Row("classes", 10, inter)
                 \o Row("class0_bit", 1, inter) \o Row("bits", 10, inter)
      Fr    == Row("class0_fr", 6, inter) \o Row("fr", 3, inter)
      Hp    == Row("class0_hp", 1, inter /\ h.hp) \o Row("hp", 1, inter /\ h.hp)
  IN Row("inter_mode", 21, inter)
     \o Row("interp_filter", 8, inter /\ h.switchable) \o Row("is_inter", 4, inter)
     \o Row("reference_select", 1, both)
     \o Row("reference_select_2", 1, both /\ h.pred # 0)
     \o Row("comp_mode", 5, both /\ h.pred = 2)
     \o Row("single_ref", 10, inter /\ h.pred \in {0, 2})
     \o Row("comp_ref", 5, inter /\ h.pred \in {1, 2})
     \o Row("y_mode", 36, inter) \o Row("partition", 48, inter) \o Row("joint", 3, inter)
     \o Mv \o Mv \o Fr \o Fr \o Hp \o Hp

CompressedWritten(h) ==
  LET Coef(t) == Row("update_coef", 1, t <= h.tx)
                   \o Row("coef", 396, t <= h.tx /\ t+1 \in h.coefs)
  IN Row("tx_mode", 2, ~h.lossless)
     \o Row("tx_mode_select", 1, ~h.lossless /\ h.tx \in {3, 4})
     \o Row("tx8", 2, h.tx = 4) \o Row("tx16", 4, h.tx = 4) \o Row("tx32", 6, h.tx = 4)
     \o Coef(0) \o Coef(1) \o Coef(2) \o Coef(3)
     \o Row("skip", 3, TRUE) \o InterRows(h)

\* A width is coded in sixteen bits.
MaxFrameWidth == 65536

\* What a header of either kind is.
IsHeader(h) ==
  /\ h.frame \in FrameKinds /\ h.found \in 0 .. 3 /\ h.lf \in {"off", "kept", "update"}
  /\ {h.show, h.er, h.render, h.switchable, h.seg, h.map, h.probs, h.temporal, h.data}
       \subseteq BOOLEAN
  /\ h.deltas \subseteq 1 .. 6 /\ h.quant \subseteq 1 .. 3
  /\ h.features \in Seq(SUBSET {"alt_q", "alt_l", "ref", "skip"})
  /\ h.width \in 1 .. MaxFrameWidth /\ h.rows \in 0 .. 2
  /\ h.cols \in MinTileLog2(h.width) .. MaxTileLog2(h.width)

IsCompressed(h) ==
  /\ h.frame \in FrameKinds /\ h.tx \in 0 .. 4 /\ h.pred \in 0 .. 2
  /\ {h.lossless, h.switchable, h.compound, h.hp} \subseteq BOOLEAN
  /\ h.lossless => h.tx = 0
  /\ ~h.compound => h.pred = 0

\* Whether the driver takes the segmentation of this header for implied.
SegmentationImplied(h) == h.seg /\ (h.frame # "inter" \/ h.er)
=============================================================================
