SPECIFICATION Spec
CONSTANTS
    Pairs = {1, 2}
    MaxBatchRecords = 1
    Faults = {"crash", "revoke", "delay"}
    MaxBytes = 1
    MaxSeq = 3
    MaxFaults = 2
INVARIANTS NoSilentLoss
PROPERTIES ResumesAboveRecorded
\* The bounds stop the model.
CHECK_DEADLOCK FALSE
