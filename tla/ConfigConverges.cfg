SPECIFICATION FairSpec
CONSTANTS
    s1 = s1
    s2 = s2
    n1 = n1
    n2 = n2
    u1 = u1
    NoNode = NoNode
    Servers = {s1, s2}
    Nodes = {n1, n2}
    Users = {u1}
    Home <- HomeOf
    Contents = {0}
    UnlinksFirst = TRUE
    MaxTime = 1
    MaxOps = 2
    Self = s1
    Overlap = FALSE
    MaxCrashes = 0
PROPERTIES
    Converges
\* The bounds stop the model.
CHECK_DEADLOCK FALSE
