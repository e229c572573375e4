CONSTANTS
  Surfaces = {s1, s2, s3}
  Slots = 2
  Codecs = {"h264", "hevc", "vp9", "av1", "encoder"}
  Sequences = {q1, q2}
  Matrices = {m1}
  Hints = {1, 2}
  Updates <- MCUpdates
  Calls = 3
  NoSurface = NoSurface
  NoPicture = NoPicture
  FlatMatrix = FlatMatrix
  NoSequence = NoSequence
  NoJob = NoJob
  Buffers <- MCBuffers
  Absent <- MCAbsent
  MaxPacked = 2
  Capacity = 3
  ContextSize <- MCContextSize
  RawSize <- MCRawSize
  MaxBuffers = 7
  MaxEncoded = 2
  None = None
SPECIFICATION ContextSpec
SYMMETRY SurfaceSymmetry
INVARIANTS
  ReferencesAreMeant ReferencesKept StateFollowsStream
  EncoderRunsAsAsked 
CHECK_DEADLOCK FALSE
