SPECIFICATION Spec
CONSTANTS
    s1 = s1
    s2 = s2
    n1 = n1
    n2 = n2
    n3 = n3
    u1 = u1
    NoNode = NoNode
    Servers = {s1, s2}
    Nodes = {n1, n2, n3}
    Users = {u1}
    Home <- HomeOf
    Contents = {0}
    UnlinksFirst = TRUE
    MaxTime = 1
    MaxOps = 4
INVARIANTS
    TablesOK
PROPERTIES
    RenderChangeBumps
    ExpiryBumps
\* The bounds stop the model.
CHECK_DEADLOCK FALSE
