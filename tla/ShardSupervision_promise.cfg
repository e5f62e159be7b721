SPECIFICATION Spec
CONSTANTS NumWorkers = 3 MaxAttempts = 2
INVARIANTS AllShardsAccounted
PROPERTIES OneAfterAnother
CHECK_DEADLOCK FALSE
