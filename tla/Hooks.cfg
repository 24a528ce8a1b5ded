CONSTANTS
  Name <- MCName
  Artifact <- MCArtifact
  File <- MCFile
  MaxFiles = 2
  HeadSize = 1
  CutSize = 1
  NoteSize = 1
  MaxLines = 3
  MaxText = 6
  MaxRows = 4
  Task = {"parent", "child"}
  Process = {p, q}
  Parent <- MCParent
  NoTask = "none"
  MaxIssues = 3
  MaxCommands = 4
  Word = {"x", "y", "auto", "inline", "sub-agent", "junk", "0", "1", "3", "4", "7"}
  SettingKey = {"a", "b", "k", "l", "codex", "dispatch_mode", "context_injection", "max_file_bytes",
                "max_total_bytes"}
  Platform = {"codex-inline", "codex-sub-agent", "kilo"}
  Status = {"x"}
  StepId = {1, 2}
SPECIFICATION MCSpec
INVARIANTS ReadersAgree SettingsReadBack InjectionComplete InlinedWithinTotal WorkflowPartitioned VersionPrecedence  IssueFollowsTask
\* Reading ends when the last file is read.
CHECK_DEADLOCK FALSE
