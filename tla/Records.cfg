CONSTANTS
  Window = {w1, w2}
  Session = {"short", "long", "huge"}
  Size <- MCSize
  Header = 1
  MaxLines = 3
  NoSession = NoSession
  NoFile = NoFile
  Torn = Torn
  Task = {a, b}
  NoTask = NoTask
  MaxVersion = 3
  MaxCommands <- MCMaxCommands
  MaxKills = 1
SPECIFICATION MCSpec
SYMMETRY Symmetry
INVARIANTS HistoryOK ListedSessionsWritten NoPhantomDelete
PROPERTIES SessionsKept CommitScope CommitKeepsTask
CHECK_DEADLOCK FALSE
