SPECIFICATION FairSpec
CONSTANTS
    s1 = s1
    s2 = s2
    a = a
    b = b
    Users = {1}
    Nodes = {1, 2}
    Ips = {a, b}
    Servers = {s1, s2}
    Home <- HomeOf
    Self = s1
    MaxBatchRecords = 1
    Faults = {"blind", "revoke", "user", "server"}
    Day = 0
    MaxTime = 1
    MaxSeq = 2
    MaxFaults = 1
INVARIANTS
    TypeOK
    CountMatchesRows
PROPERTIES
    NeverWedged
\* The bounds stop the model.
CHECK_DEADLOCK FALSE
