SPECIFICATION Spec
CONSTANTS
    s1 = s1
    s2 = s2
    a = a
    b = b
    Users = {1, 2}
    Nodes = {1}
    Ips = {a}
    Servers = {s1}
    Home <- HomeOf
    Self = s1
    MaxBatchRecords = 1
    Faults = {"crash", "delay", "node"}
    Day = 1
    MaxTime = 1
    MaxSeq = 3
    MaxFaults = 1
PROPERTIES SnapshotReplaces
\* The bounds stop the model.
CHECK_DEADLOCK FALSE
