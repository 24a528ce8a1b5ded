SPECIFICATION FairSpec
CONSTANTS
    Pairs = {1, 2}
    MaxBatchRecords = 1
    Faults = {"crash", "age"}
    MaxBytes = 1
    MaxSeq = 6
    MaxFaults = 1
PROPERTIES
    EventuallySettled
\* The bounds stop the model.
CHECK_DEADLOCK FALSE
