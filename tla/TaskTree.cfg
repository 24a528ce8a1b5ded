CONSTANTS
  Task = {a, b, c}
  Window = {w1, w2}
  NoTask = NoTask
  NoJson = NoJson
  ta = a
  tc = c
  EndsWith <- MCEndsWith
  MaxRunning = 2
  Existing = {a, b}
  MaxSerial = 4
  MaxOverlap = 2
SPECIFICATION MCSpec
SYMMETRY Symmetry
INVARIANTS PointersOK ListHidesOnlyLoops
PROPERTIES LinksStayTwoSided DoneNeverRegresses 
CHECK_DEADLOCK FALSE
