CONSTANTS
  Existing = 3
  NumEntries = 4
  NumNames = 4
  Requests = {r1, r2}
  MaxLimit = 2
  Second = 4
SYMMETRY Symmetry
SPECIFICATION Spec
INVARIANT PagesExact
INVARIANT ActivityNeverRepeats
INVARIANT ETagMeansCurrent
CHECK_DEADLOCK FALSE
