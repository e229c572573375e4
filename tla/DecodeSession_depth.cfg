CONSTANTS
  c1 = c1  c2 = c2  s1 = s1  s2 = s2  s3 = s3
  Contexts = {c1}
  Surfaces = {s1, s2}
  Codecs = {"av1"}
  LateBound = {"av1"}
  Sizes = {"hd"}
  Layouts = {"NV12", "P010"}
  PoolSizes = {2}
  MaxBuffers = 2
  Probe = Probe
  NoSession = NoSession
  NoSurface = NoSurface
  NoStream = NoStream
SPECIFICATION Spec
SYMMETRY Symmetry
INVARIANTS BuffersOwned SessionsAlive
PROPERTIES ExportedBufferStays OnlyBrokenPicturesLoseIndices
