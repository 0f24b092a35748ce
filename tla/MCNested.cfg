CONSTANT Readings <- NestedReadings
SPECIFICATION Spec
INVARIANT TextsMean
CHECK_DEADLOCK FALSE
