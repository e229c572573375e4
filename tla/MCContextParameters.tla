------------------------ MODULE MCContextParameters ------------------------
(* Model-checking instance of ContextParameters.                           *)
EXTENDS ContextParameters, TLC

\* One delta, all features, or neither.
MCUpdates == {[deltas |-> << >>, features |-> Unchanged],
              [deltas |-> 2 :> 5, features |-> "some"]}

SurfaceSymmetry == Permutations(Surfaces)

Buffer(type, value) == [type |-> type, short |-> FALSE, value |-> value]

\* Level 1 is 0 in the menu; cropped to nothing, and below nothing.
MCBuffers ==
  {Buffer("sequence", [level |-> 10, bitrate |-> 0, shown |-> <<16, 10>>]),
   Buffer("sequence", [level |-> 9, bitrate |-> 2, shown |-> <<0, -6>>]),
   [type |-> "sequence", short |-> TRUE],
   [type |-> "rate_control", short |-> FALSE, bitrate |-> 1, qp_min |-> 10, qp_max |-> 0],
   [type |-> "frame_rate", short |-> FALSE, num |-> 30, den |-> 0],
   Buffer("picture", [qp |-> 0, idr |-> FALSE]),
   Buffer("picture", [qp |-> 50, idr |-> TRUE]),
   Buffer("slice", [delta |-> 3, intra |-> FALSE]),
   [type |-> "packed", short |-> FALSE, raw |-> TRUE, bits |-> 9],
   [type |-> "packed", short |-> FALSE, raw |-> FALSE, bits |-> 40],
   [type |-> "packed_data", short |-> FALSE, data |-> "sps", size |-> 4],
   [type |-> "packed_data", short |-> FALSE, data |-> "sei", size |-> 1]}

MCContextSize == <<16, 16>>
MCRawSize == <<16, 12>>

MCAbsent == {{}, {"level", "qp_min"}}
=============================================================================
