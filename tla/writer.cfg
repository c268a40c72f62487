SPECIFICATION Spec
CONSTANTS
    r1 = r1
    r2 = r2
    r3 = r3
    Rows <- MCRows
    BatchSize <- MCBatchSize
CHECK_DEADLOCK FALSE
INVARIANTS
    TypeOK
    DrainLosesNothing
PROPERTIES
    SinkSpec
    TaskEnds
