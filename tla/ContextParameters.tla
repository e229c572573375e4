-------------------------- MODULE ContextParameters --------------------------
(***************************************************************************)
(* vaBeginPicture, vaRenderPicture and vaEndPicture branch on is_encoder:   *)
(* a context decodes a codec, or it encodes.                               *)
(***************************************************************************)
EXTENDS PictureParameters, EncodeParameters

ASSUME ContextParametersAssumption ==
  Codecs \subseteq {"h264", "hevc", "vp9", "av1", "encoder"}

IsEncoder == codec = "encoder"

ContextInit == Init /\ EncodeInit /\ (~IsEncoder => encoder.lacks = {})

ContextNext ==
  \/ ~IsEncoder /\ Next /\ UNCHANGED encodeVars
  \/ IsEncoder /\ EncodeNext /\ UNCHANGED vars

ContextSpec == ContextInit /\ [][ContextNext]_<<vars, encodeVars>>
=============================================================================
