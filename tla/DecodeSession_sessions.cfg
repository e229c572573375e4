CONSTANTS
  c1 = c1  c2 = c2  s1 = s1  s2 = s2  s3 = s3
  Contexts = {c1, c2}
  Surfaces = {s1, s2}
  Codecs = {"h264", "av1"}
  LateBound = {"av1"}
  Sizes = {"hd"}
  Layouts = {"NV12"}
  PoolSizes = {1}
  MaxBuffers = 1
  Probe = Probe
  NoSession = NoSession
  NoSurface = NoSurface
  NoStream = NoStream
SPECIFICATION Spec
SYMMETRY Symmetry
INVARIANTS TypeOK SessionsAlive PictureOwned WaitIsForPicture
PROPERTIES ExportedBufferStays
