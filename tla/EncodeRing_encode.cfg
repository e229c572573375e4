CONSTANTS
  NumRaw = 4
  NumCoded = 4
  MaxPictures = 9
  Faults = {"late", "refused"}
SPECIFICATION Spec
INVARIANTS TypeOK NextIsFree OrderKept OwnUntilFailure
PROPERTY ImplementsStream
