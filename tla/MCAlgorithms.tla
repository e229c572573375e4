----------------------------- MODULE MCAlgorithms -----------------------------
(* The inputs for checking Algorithms. *)
EXTENDS Algorithms

MCPoolAsks ==
  {16, 720, 1920, 2560, 3840, 4096, 7680, 8192} \X {16, 64, 1080, 1440, 2160, 4320}
    \X {12, 24} \X BOOLEAN

MCBackoffAsks == {9, 20, 25, 32, 33, 64} \X (0 .. 70)

MCSkipModeAsks ==
  ({3} \X [1 .. 3 -> 0 .. 7] \X (0 .. 7)) \cup ({0, 1} \X [1 .. 3 -> {0, 1}] \X {0, 1})

MCTileAsks ==
  {64 * n - d : n \in 1 .. 65, d \in {0, 1, 63}} \X BOOLEAN \X (0 .. 6)

MCTileGroupAsks ==
  {0, 1, 2, 16, 30, 33} \X (1 .. 4) \X (UNION {[1 .. n -> 1 .. 3] : n \in 1 .. 4})

Features1 == {<<{}, {}>>, <<{"alt_q", "skip"}, {"ref", "alt_l"}>>}

\* Kinds of frame with everything after them fixed, and the reverse.
HeaderShapes ==
  [frame : FrameKinds, show : BOOLEAN, er : BOOLEAN, found : 0 .. 3, render : BOOLEAN,
   switchable : BOOLEAN, lf : {"update"}, deltas : {{1, 6}}, quant : {{2}}, seg : BOOLEAN,
   map : {TRUE}, probs : {TRUE}, temporal : {TRUE}, data : {TRUE}, features : Features1,
   width : {352}, cols : {0}, rows : {1}]
HeaderTails ==
  [frame : {"inter", "key"}, show : {TRUE}, er : {FALSE}, found : {2}, render : {FALSE},
   switchable : {TRUE}, lf : {"off", "kept", "update"}, deltas : {{}, {1, 6}},
   quant : {{}, {1, 3}}, seg : BOOLEAN, map : BOOLEAN, probs : BOOLEAN, temporal : BOOLEAN,
   data : BOOLEAN, features : {<<{"alt_q"}, {}>>},
   width : {256, 1920, 8192}, cols : 0 .. 4, rows : 0 .. 2]

MCHeaderAsks ==
  {h \in HeaderShapes \cup HeaderTails :
     /\ h.frame = "intra_only" => ~h.show
     /\ h.cols \in MinTileLog2(h.width) .. MaxTileLog2(h.width)}

MCCompressedAsks ==
  {h \in [frame : FrameKinds, lossless : BOOLEAN, tx : 0 .. 4, coefs : {{}, {1, 3}, 1 .. 4},
          switchable : BOOLEAN, compound : BOOLEAN, pred : 0 .. 2, hp : BOOLEAN] :
     (h.lossless => h.tx = 0) /\ (~h.compound => h.pred = 0)}

\* Twenty bits take the decoder past its first refill, and past the end.
ProbPatterns ==
  {[k \in 1 .. 20 |-> Even], [k \in 1 .. 20 |-> 252],
   [k \in 1 .. 20 |-> IF k % 3 = 0 THEN 252 ELSE Even],
   [k \in 1 .. 12 |-> IF k % 2 = 0 THEN 1 ELSE 252]}
MCRangeAsks ==
  (UNION {[1 .. n -> {0, 127, 170, 255}] : n \in 2 .. 5}) \X ProbPatterns

\* Headers of H.264 and HEVC units: 1 and 65 are slices of the first, 0, 2 and
\* 38 of the second; 6, 78 and 103 are not.
MCUnitAsks ==
  LET Units(heads, rest, n) == {u \in {<<h>> \o r : h \in heads, r \in UNION {[1 .. k -> rest] : k \in 1 .. n}} : IsUnit(u)}
      long  == Units({1, 6, 38, 65, 78, 103}, {0, 1, 3}, 3)
      short == Units({0, 2, 6, 65, 78}, {1, 5}, 1)
  IN {<<u>> : u \in long} \cup {<<u, v>> : u \in long, v \in short}
       \cup {<<u, v, w>> : u \in short, v \in short, w \in short} \cup {<< >>}

Node(path, name, output, capture) ==
  [path |-> path, opens |-> TRUE, streams |-> TRUE, name |-> name, bus |-> name,
   output |-> output, capture |-> capture]
Rkvdec  == Node("v0", "rkvdec", {"H264_SLICE", "HEVC_SLICE", "VP9_FRAME"}, {"NV12"})
Hantro  == Node("v1", "hantro", {"H264_SLICE"}, {"NV12"})
Av1     == Node("v2", "av1", {"AV1_FRAME"}, {"NV12"})
Encoder == Node("v3", "VEPU580", {"NV12"}, {"H264"})
Jpeg    == Node("v4", "VEPU121", {"NV12"}, {"JPEG"})
Camera  == [Node("v5", "camera", {}, {"H264"}) EXCEPT !.streams = FALSE]
Dead    == [Rkvdec EXCEPT !.opens = FALSE]

Media(path, bus) == [path |-> path, bus |-> bus]
MCMachineAsks ==
  {a \in (UNION {[1 .. n -> {Rkvdec, Hantro, Av1, Encoder, Jpeg, Camera, Dead}] : n \in 0 .. 4})
           \X {<< >>, <<Media("m0", "av1"), Media("m1", "rkvdec")>>, <<Media("m1", "rkvdec"), Media("m2", "hantro")>>}
           \X [video : {NoPath, "v1", "v5"}, media : {NoPath, "m2"}] :
     IsInjective([k \in DOMAIN a[1] |-> a[1][k].path])}

Machines ==
  [formats : {{}, {"H264_SLICE"}, {"H264_SLICE", "HEVC_SLICE", "VP9_FRAME"}},
   av1 : BOOLEAN, encoder : BOOLEAN]
Attributes ==
  {<<"RTFormat", {"YUV420"}>>, <<"RTFormat", {"YUV420", "YUV420_10"}>>,
   <<"RTFormat", {"YUV422"}>>, <<"RTFormat", {}>>, <<"RateControl", {"CQP"}>>}
MCConfigAsks ==
  Machines \X {"H264Main", "HEVCMain", "AV1Profile0", "MPEG2Main"} \X Entrypoints
    \X (UNION {[1 .. n -> Attributes] : n \in 0 .. 3}
          \cup [1 .. 4 -> {<<"RateControl", {"CQP"}>>, <<"RTFormat", {"YUV420"}>>}])
=============================================================================
