SPECIFICATION Spec
CONSTANTS
    Pairs = {1, 2}
    MaxBatchRecords = 1
    Faults = {"crash", "blind", "delay"}
    MaxBytes = 2
    MaxSeq = 3
    MaxFaults = 1
INVARIANTS
    NoDoubleCounting
    KeyIdentifiesPayload
PROPERTIES
    ImplementsLedger
\* The bounds stop the model.
CHECK_DEADLOCK FALSE
