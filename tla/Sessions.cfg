CONSTANTS
  Window = {w1, w2, w3}
  Task = {a, b}
  NoTask = NoTask
  Torn = Torn
  NoKey = NoKey
  MaxSerial = 4
  MaxOverlap = 3
  MaxSegments = 4
  Segment <- MCSegment
  Root <- MCRoot
  Dirs <- MCDirs
  Link <- MCLink
  Ending <- MCEnding
  NoRef = NoRef
SPECIFICATION MCSpec
SYMMETRY Symmetry
INVARIANTS NativeNeverBorrows NoBorrowWhileWriting PointersSound
PROPERTIES ImplementsPointers LosesOnlyAlone
\* The bounds stop the model.
CHECK_DEADLOCK FALSE
