CONSTANTS
  MaxSize = 3
  MaxRanges = 3
  BlockSize = 2
  Asks <- MCAsks
SPECIFICATION Spec
INVARIANT RangesExact
INVARIANT BodyAsAnnounced
CHECK_DEADLOCK FALSE
