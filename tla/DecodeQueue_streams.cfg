CONSTANTS
  x1 = x1  x2 = x2  s1 = s1  s2 = s2  s3 = s3
  Streams = {x1, x2}
  Slots = {s1, s2}
  MaxBuffers = 1
  MaxFds = 3
  Faults = {"late", "refused"}
SPECIFICATION Spec
INVARIANTS DescriptorsOwned
SYMMETRY Symmetry
