CONSTANTS
  HeapIncrement = 2
  MaxSurfaces = 2
  MaxBuffers = 3
  MaxImages = 2
  Blocks = {m1, m2, m3, m4}
  NoBlock = NoBlock
  Faults = {"memory", "copy"}
SYMMETRY Symmetry
SPECIFICATION Spec
INVARIANTS TypeOK FreeListsSound MemoryOwned ImageOwnsBuffer AliasTracksSurface
