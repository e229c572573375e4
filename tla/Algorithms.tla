------------------------------ MODULE Algorithms ------------------------------
(***************************************************************************)
(* The driver's pure functions, each asked for one input at a time and      *)
(* answered by what the code computes.  The properties compare the answer   *)
(* with a definition of what it should be that is not the algorithm's.     *)
(***************************************************************************)
EXTENDS PoolSizing, Av1Geometry, RangeDecoder, Vp9Headers, AnnexB, Capabilities

CONSTANTS
  PoolAsks,        \* <<width, height, bits per pixel, is it AV1>>
  BackoffAsks,     \* <<buffers wanted, buffers there is memory for>>
  SkipModeAsks,    \* <<bits of a hint, hints of the references, hint of the frame>>
  TileAsks,        \* <<pixels, superblocks of 128, log2 of the tiles>>
  TileGroupAsks,   \* <<bytes of header, bytes of a size, sizes of the tiles>>
  HeaderAsks,      \* uncompressed headers, h of Vp9Headers
  CompressedAsks,  \* compressed headers
  RangeAsks,       \* <<bytes, probabilities>>
  UnitAsks,        \* sequences of NAL units
  SourceSize,      \* source_size: the bytes there are for a compressed picture
  MachineAsks,     \* <<video nodes, media nodes, environment>>
  ConfigAsks       \* <<machine, profile, entrypoint, attributes>>

\* A pool is asked for as pool_depth says, or at the floor (context.c:257, 410),
\* and a bitstream codes up to 64 tiles across a frame and the size of a tile in
\* one to four bytes.  Hints have up to eight bits.  Headers are those that an
\* encoder writes.  A picture fits its buffer: one that does not is not decoded.
ASSUME AlgorithmsAssumption ==
  /\ PoolAsks \subseteq Nat \X Nat \X Nat \X BOOLEAN
  /\ BackoffAsks \subseteq (0 .. 64) \X Nat
  /\ TileAsks \subseteq (Nat \ {0}) \X BOOLEAN \X (0 .. 6)
  /\ TileGroupAsks \subseteq Nat \X (1 .. 4) \X (Seq(Nat) \ {<< >>})
  /\ RangeAsks \subseteq Seq(0 .. 255) \X Seq(0 .. 255)
  /\ \A h \in HeaderAsks : IsHeader(h)
  /\ \A h \in CompressedAsks : IsCompressed(h)
  /\ SkipModeAsks \subseteq (0 .. 8) \X Seq(Nat) \X Nat
  /\ SourceSize \in Nat
  /\ \A units \in UnitAsks : IsPicture(units, SourceSize)
  /\ \A machine \in MachineAsks : IsMachine(machine[1], machine[2])
  /\ \A config \in ConfigAsks : config[4] \in Seq(STRING \X SUBSET STRING)

VARIABLES
  asked,   \* what was asked for and of what
  answer

vars == <<asked, answer>>

Init == asked = <<"nothing">> /\ answer = <<"nothing">>

Ask(kind, inputs, Compute(_)) ==
  /\ asked[1] = "nothing"
  /\ \E input \in inputs : asked' = <<kind, input>> /\ answer' = <<kind, Compute(input)>>

AskPoolDepth   == Ask("pool", PoolAsks, LAMBDA i : PoolDepth(i[1], i[2], i[3], i[4]))
AskBackoff     == Ask("backoff", BackoffAsks, LAMBDA i : Backoff(i[1], 0 .. i[2]))
AskSkipMode    == Ask("skip", SkipModeAsks, LAMBDA i : SkipModeFrames(i[1], i[2], i[3]))
AskTiles       == Ask("tiles", TileAsks,
                      LAMBDA i : LET sbs == SbCount(i[1], i[2])
                                 IN UniformTiles(sbs, Len(CodedTiles(sbs, i[3]))))
AskTileGroup   == Ask("group", TileGroupAsks,
                      LAMBDA i : LET group == TileGroup(i[1], i[2], i[3])
                                 IN [width   |-> TileSizeBytes(group.tiles),
                                     entries |-> TileEntries(group.tiles, Len(group.data)),
                                     data    |-> CodedData(group.data, group.tiles)])
AskHeader      == Ask("header", HeaderAsks, UncompressedRead)
AskCompressed  == Ask("compressed", CompressedAsks, CompressedRead)
AskRangeDecoder == Ask("range", RangeAsks, LAMBDA i : CompressedBits(i[1], i[2]))
AskFirstSlice  == Ask("slice", UnitAsks,
                      LAMBDA i : LET data == Framed(i, SourceSize)
                                 IN <<H264Header(data), HevcSliceType(data)>>)
AskMachine     == Ask("machine", MachineAsks, LAMBDA i : Machine(i[1], i[2], i[3]))
AskConfig      == Ask("config", ConfigAsks, LAMBDA i : CreateConfig(i[1], i[2], i[3], i[4]))

Forget ==
  /\ asked[1] # "nothing"
  /\ asked' = <<"nothing">> /\ answer' = <<"nothing">>

Next ==
  \/ AskPoolDepth \/ AskBackoff \/ AskSkipMode \/ AskTiles \/ AskTileGroup
  \/ AskHeader \/ AskCompressed \/ AskRangeDecoder \/ AskFirstSlice
  \/ AskMachine \/ AskConfig
  \/ Forget

Spec == Init /\ [][Next]_vars

\* What an answer to a question of this kind satisfies.
Answers(kind, Right(_, _)) == asked[1] = kind => Right(asked[2], answer[2])

-----------------------------------------------------------------------------

\* A pool is never smaller than the codec's references need and never larger
\* than its cap, and between the two it is the largest that fits the memory
\* next to the AV1 decoder's private frames (pool_depth).
PoolFits ==
  Answers("pool", LAMBDA i, depth : IsPoolDepth(depth, i[1], i[2], i[3], i[4]))

\* When the memory is too fragmented for the pool wanted, a stream still starts
\* if a reference and the current frame fit, and it gets more than half of the
\* buffers there was room for (request_buffers_backoff).
BackoffUsesMemory ==
  Answers("backoff", LAMBDA i, count : IsBackoff(count, i[1], i[2]))

\* The skip mode references are the nearest frame before this one and the
\* nearest after it, or else the two nearest before it, by distances that wrap
\* with the hints (derive_skip_mode_frame).
SkipModeIsNearest ==
  Answers("skip", LAMBDA i, pair :
    HintsInRange(i[1], i[2], i[3]) => IsSkipModeFrames(pair, i[1], i[2], i[3]))

\* The tiles the hardware is told of are the encoder's: uniform ones although
\* only their number is known, and in the compressed data each where its entry
\* says, the first within 16 bytes of the start, with the width of the size
\* fields that separate them (derive_uniform_tiles, fill_tile_info,
\* av1_set_controls).  With two tiles in a group there is nothing to tell the
\* width from: see TileSizeFound.
UniformTilesAreTheEncoders ==
  Answers("tiles", LAMBDA i, tiles : tiles = CodedTiles(SbCount(i[1], i[2]), i[3]))
TilesAreTheEncoders ==
  /\ UniformTilesAreTheEncoders
  /\ Answers("group", LAMBDA i, told :
       /\ told.entries[1].offset < 16
       /\ \A k \in DOMAIN told.entries :
            SubSeq(told.data, told.entries[k].offset + 1,
                   told.entries[k].offset + told.entries[k].size) = TileData(k, i[3][k])
       /\ Len(told.entries) > 2 => told.width = i[2])

\* The width of the size field is found whenever a frame has more than one tile
\* (av1.c:319: "the gap between where one tile ends and the next begins is the
\* value itself").
TileSizeFound ==
  Answers("group", LAMBDA i, told : Len(told.entries) > 1 => told.width = i[2])

\* Every field of the two headers of a VP9 frame is read from where it was
\* written, so what follows from them, the size of the compressed header above
\* all, is the encoder's.  Segmentation in an intra or error-resilient frame is
\* the exception: see PartitionSizeFound.
HeadersAreRead ==
  /\ Answers("header", LAMBDA h, fields :
       ~SegmentationImplied(h) => fields = UncompressedWritten(h))
  /\ Answers("compressed", LAMBDA h, fields : fields = CompressedWritten(h))

\* The first partition's size is the one VA-API would have reported
\* (vp9_parser.h:59: "exposes the same value as `first_partition_size`").
PartitionSizeFound ==
  LET Before(fields) == FoldLeft(LAMBDA n, field : n + field[2], 0, fields)
  IN Answers("header", LAMBDA h, fields : Before(fields) = Before(UncompressedWritten(h)))

\* The decoder that works ahead on sixteen bits returns the bits that the
\* specification's returns, through every refill and past the end of the data
\* (vpx_rac_renorm), and every probability delta it reads is in the table.
RangeDecoderIsSpec ==
  /\ Answers("range", LAMBDA i, bits :
       bits = IF Len(i[1]) < 3 \/ BoolBits(i[1], <<128>>) = <<1>> THEN Refused
              ELSE Tail(BoolBits(i[1], <<128>> \o i[2])))
  /\ DeltasCover

\* The type of the first slice is found in the framed picture whatever bytes
\* the units hold, and never taken from within one (first_vcl_nal_header,
\* first_slice_nal_type).
FirstSliceIsFound ==
  Answers("slice", LAMBDA units, told :
    /\ told[1] = FirstSlice(units, H264Slice, 0)
    /\ LET byte == FirstSlice(units, HevcSlice, -1)
       IN told[2] = IF byte = -1 THEN 255 ELSE HevcType(byte))

\* Unless the environment says otherwise the driver runs on the machine's own
\* blocks in whatever order /dev lists them, never on a device that does not
\* decode, with the media node of the same device (decoder_device_open_format,
\* encoder_device_find).
RightDevices ==
  Answers("machine", LAMBDA i, found :
    LET dev == i[1]  media == i[2]  env == i[3]
    IN /\ env = [video |-> NoPath, media |-> NoPath] =>
            /\ IsOwn(found.decoder, dev, media, "rkvdec", CodedFormats)
            /\ IsReal(found.decoder, dev, CodedFormats)
       /\ env.video # NoPath /\ env.media = NoPath /\ found.decoder[1] # NoPath
            /\ (\E k \in DOMAIN dev : dev[k].opens /\ dev[k].path = env.video)
            => found.decoder[1] = env.video
       /\ IsOwn(found.av1, dev, media, "av1", {"AV1_FRAME"})
       /\ IsReal(found.av1, dev, {"AV1_FRAME"})
       /\ \A k \in DOMAIN dev : Encodes(dev[k]) /\ dev[k].name = "VEPU580" =>
            found.encoder = dev[k].path
       /\ found.encoder # NoPath =>
            \E k \in DOMAIN dev : dev[k].path = found.encoder /\ Encodes(dev[k]))

\* What the driver advertises can be had, in every format it says, and a config
\* keeps the format and the attributes it was made with, as far as they fit
\* (RequestQueryConfigProfiles, RequestGetConfigAttributes, RequestCreateConfig).
ConfigsAreHonoured ==
  Answers("config", LAMBDA i, made : IsHonoured(made, i[1], i[2], i[3], i[4]))
=============================================================================
