CONSTANTS
  MaxFileSize = 2
  Sizes = {0, 1, 2, 3, 4, 5}
  FiveMB = 1
  Enlarges = {"orient"}
SPECIFICATION FairSpec
INVARIANTS TypeOK SavedFits PercentSane SmallIsAccepted CommandsBounded
PROPERTIES ChainEnds
