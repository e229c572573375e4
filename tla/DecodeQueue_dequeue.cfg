CONSTANTS
  x1 = x1  x2 = x2  s1 = s1  s2 = s2  s3 = s3
  Streams = {x1}
  Slots = {s1, s2}
  MaxBuffers = 2
  MaxFds = 2
  Faults = {"late"}
SPECIFICATION Spec
INVARIANT SyncDequeues
