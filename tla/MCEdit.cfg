CONSTANT Jobs <- EditJobs
SPECIFICATION Spec
INVARIANT IncrementalIsFull
CHECK_DEADLOCK FALSE
