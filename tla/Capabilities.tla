----------------------------- MODULE Capabilities -----------------------------
(***************************************************************************)
(* Which devices the driver opens (va-driver/src/device.c, request.c) and   *)
(* what it tells clients it can do with them (config.c).                   *)
(*                                                                         *)
(* A video node is a record: its path, whether it opens and streams, the    *)
(* formats of its two queues, the name it goes by and the bus it is on.    *)
(* /dev is a sequence: readdir has an order, which means nothing.          *)
(***************************************************************************)
EXTENDS Integers, FiniteSetsExt, SequencesExt, Positions

CONSTANTS
  MaxConfigAttributes,  \* V4L2_REQUEST_MAX_CONFIG_ATTRIBUTES
  NoPath                \* an unset environment variable, a device not found

ASSUME CapabilitiesAssumption == MaxConfigAttributes \in Nat \ {0}

\* What makes a node the first decoder; AV1 has a block of its own.
CodedFormats == {"H264_SLICE", "HEVC_SLICE", "VP9_FRAME"}

-----------------------------------------------------------------------------
(* Discovery. *)

\* /dev as it can be: the nodes have paths, and of the blocks that the driver
\* looks for by name there is one each.
IsMachine(dev, media) ==
  /\ DOMAIN dev = 1 .. Len(dev) /\ Len(dev) \in Nat
  /\ DOMAIN media = 1 .. Len(media) /\ Len(media) \in Nat
  /\ \A k \in DOMAIN dev : dev[k].path # NoPath
  /\ \A m \in DOMAIN media : media[m].path # NoPath
  /\ \A j, k \in DOMAIN dev :
       /\ dev[j].opens /\ dev[k].opens
       /\ dev[j].name = dev[k].name /\ dev[j].name \in {"rkvdec", "av1", "VEPU580"}
       => j = k

\* rank_device: what the environment names wins whatever it is.
RankDecoder(node, wanted, formats, name) ==
  IF wanted = node.path THEN 3
  ELSE IF ~node.streams \/ node.output \cap formats = {} THEN 0
  ELSE IF node.name = name THEN 2
  ELSE 1

\* Mutant of RankEncoder: the decoder's side is probed.
RankEncoderOutput(node, wanted) ==
  IF wanted = node.path THEN 3
  ELSE IF ~node.streams \/ "H264" \notin node.output THEN 0 ELSE 1

\* rank_encoder: a stateful encoder writes its coded format.
RankEncoder(node, wanted) ==
  IF wanted = node.path THEN 3
  ELSE IF ~node.streams \/ "H264" \notin node.capture THEN 0
  ELSE IF node.name = "VEPU580" THEN 2
  ELSE 1

\* The node read first among those of the highest rank; 0 if none is any good.
Best(dev, rank) ==
  LET good == {k \in DOMAIN dev : dev[k].opens /\ rank[k] > 0}
  IN IF good = {} THEN 0
     ELSE Min({k \in good : \A j \in good : rank[j] <= rank[k]})

\* media_node_for_bus, over <<path, bus>> of the media nodes that open.
MediaNode(media, bus) ==
  LET same == {k \in DOMAIN media : media[k].bus = bus}
  IN IF same = {} THEN NoPath ELSE media[Min(same)].path

\* decoder_device_open_format: the video and the media node, or neither.
OpenDecoder(dev, media, env, formats, name) ==
  LET k == Best(dev, [j \in DOMAIN dev |-> RankDecoder(dev[j], env.video, formats, name)])
      m == IF env.media # NoPath THEN env.media ELSE MediaNode(media, dev[k].bus)
  IN IF k = 0 THEN <<NoPath, NoPath>>
     ELSE IF m \notin {media[j].path : j \in DOMAIN media} THEN <<NoPath, NoPath>>
     ELSE <<dev[k].path, m>>

FindEncoder(dev, wanted) ==
  LET k == Best(dev, [j \in DOMAIN dev |-> RankEncoder(dev[j], wanted)])
  IN IF k = 0 THEN NoPath ELSE dev[k].path

\* VA_DRIVER_INIT_FUNC: no driver without the first; the others are optional.
Machine(dev, media, env) ==
  [decoder |-> OpenDecoder(dev, media, env, CodedFormats, "rkvdec"),
   av1     |-> OpenDecoder(dev, media, [video |-> NoPath, media |-> NoPath],
                           {"AV1_FRAME"}, "av1"),
   encoder |-> FindEncoder(dev, NoPath)]

\* A node that a rank other than the environment's can be given to.
Decodes(node, formats) == node.opens /\ node.streams /\ node.output \cap formats # {}
Encodes(node) == node.opens /\ node.streams /\ "H264" \in node.capture

\* The machine's own block, if it is there, is taken with the media node of the
\* same device, or nothing is when that node is missing.
IsOwn(pair, dev, media, name, formats) ==
  \A k \in DOMAIN dev : Decodes(dev[k], formats) /\ dev[k].name = name =>
    IF \E m \in DOMAIN media : media[m].bus = dev[k].bus
    THEN \E m \in DOMAIN media :
           media[m].bus = dev[k].bus /\ pair = <<dev[k].path, media[m].path>>
    ELSE pair = <<NoPath, NoPath>>

IsReal(pair, dev, formats) ==
  pair[1] # NoPath => \E k \in DOMAIN dev : dev[k].path = pair[1] /\ Decodes(dev[k], formats)

-----------------------------------------------------------------------------
(* Configurations. has: the coded formats of the first decoder, and whether *)
(* there is an AV1 decoder and an encoder.                                  *)

H264Profiles == {"H264ConstrainedBaseline", "H264Main", "H264High"}
VaProfiles   == H264Profiles \cup {"HEVCMain", "VP9Profile0", "AV1Profile0", "MPEG2Main"}
Entrypoints  == {"VLD", "EncSlice", "EncPicture"}

FormatOf(profile) ==
  CASE profile \in H264Profiles -> "H264_SLICE"
    [] profile = "HEVCMain"     -> "HEVC_SLICE"
    [] profile = "VP9Profile0"  -> "VP9_FRAME"
    [] profile = "AV1Profile0"  -> "AV1_FRAME"
    [] OTHER                    -> "none"

\* RequestQueryConfigProfiles and RequestQueryConfigEntrypoints.
QueryProfiles(has) ==
  {p \in VaProfiles : FormatOf(p) \in has.formats \cup (IF has.av1 THEN {"AV1_FRAME"} ELSE {})}

QueryEntrypoints(has, profile) ==
  CASE profile \in H264Profiles -> {"VLD"} \cup (IF has.encoder THEN {"EncSlice"} ELSE {})
    [] profile \in {"HEVCMain", "VP9Profile0"} -> {"VLD"}
    [] profile = "AV1Profile0"  -> IF has.av1 THEN {"VLD"} ELSE {}
    [] OTHER                    -> {}

\* config_profile_rt_formats
RtFormats(profile) ==
  IF profile = "AV1Profile0" THEN {"YUV420", "YUV420_10"} ELSE {"YUV420"}

NotSupported == {}

\* RequestGetConfigAttributes, of the format of the pictures.
GetRtFormats(has, profile, entrypoint) ==
  IF entrypoint = "EncSlice" /\ profile \in H264Profiles /\ has.encoder
  THEN {"YUV420"}
  ELSE IF entrypoint = "VLD" /\ FormatOf(profile) # "none" /\ (profile = "AV1Profile0" => has.av1)
  THEN RtFormats(profile)
  ELSE NotSupported

\* The pairs for which RequestCreateConfig makes a config.
Creatable(has, profile, entrypoint) ==
  \/ profile \in H264Profiles
     /\ (entrypoint = "VLD" \/ (entrypoint = "EncSlice" /\ has.encoder))
  \/ profile \in {"HEVCMain", "VP9Profile0"} /\ entrypoint = "VLD"
  \/ profile = "AV1Profile0" /\ has.av1 /\ entrypoint = "VLD"

Refusal == [ok |-> FALSE]

\* Mutant of CreateConfig: the room for the format of the pictures is forgotten.
CreateConfigOneMore(has, profile, entrypoint, asked) ==
  LET kept    == SubSeq(asked, 1, Min({Len(asked), MaxConfigAttributes}))
      formats == SelectSeq(kept, LAMBDA a : a[1] = "RTFormat")
  IN IF ~Creatable(has, profile, entrypoint)
        \/ \E k \in DOMAIN formats : formats[k][2] = {} \/ ~(formats[k][2] \subseteq RtFormats(profile))
     THEN Refusal
     ELSE [ok |-> TRUE, others |-> SelectSeq(kept, LAMBDA a : a[1] # "RTFormat"),
           rt |-> IF formats = << >> THEN {"YUV420"} ELSE Last(formats)[2]]

\* RequestCreateConfig.  An attribute is <<type, value>>; the format of the
\* pictures is kept first, one that is not offered refuses the config, and what
\* there is no room for ends the loop.
Offered(profile, value) == value # {} /\ value \subseteq RtFormats(profile)

NoAttributes == [ok |-> TRUE, ended |-> FALSE, rt |-> {"YUV420"}, others |-> << >>]

KeepAttribute(profile, c, a) ==
  IF c.ended \/ ~c.ok THEN c
  ELSE IF a[1] = "RTFormat"
  THEN [c EXCEPT !.ok = Offered(profile, a[2]), !.rt = a[2]]
  ELSE IF 1 + Len(c.others) >= MaxConfigAttributes
  THEN [c EXCEPT !.ended = TRUE]
  ELSE [c EXCEPT !.others = Append(@, a)]

CreateConfig(has, profile, entrypoint, asked) ==
  LET kept == SubSeq(asked, 1, Min({Len(asked), MaxConfigAttributes}))
      made == FoldLeft(LAMBDA c, a : KeepAttribute(profile, c, a), NoAttributes, kept)
  IN IF ~Creatable(has, profile, entrypoint) \/ ~made.ok THEN Refusal
     ELSE [ok |-> TRUE, rt |-> made.rt, others |-> made.others]

\* What is advertised can be had, and of the attributes that are looked at the
\* last format is the config's, with as many of the others as fit, in order.
IsHonoured(made, has, profile, entrypoint, asked) ==
  LET kept    == SubSeq(asked, 1, Min({Len(asked), MaxConfigAttributes}))
      formats == {k \in DOMAIN kept : kept[k][1] = "RTFormat"}
      others  == Chosen(kept, DOMAIN kept \ formats)
      told    == GetRtFormats(has, profile, entrypoint)
  IN /\ /\ profile \in QueryProfiles(has) /\ entrypoint \in QueryEntrypoints(has, profile)
        /\ \A k \in formats : kept[k][2] # {} /\ kept[k][2] \subseteq told
        => made.ok
     /\ made.ok =>
          /\ formats # {} => made.rt = kept[Max(formats)][2]
          /\ made.rt \subseteq told /\ made.rt # {}
          /\ made.others = SubSeq(others, 1, Min({Len(others), MaxConfigAttributes - 1}))
=============================================================================
