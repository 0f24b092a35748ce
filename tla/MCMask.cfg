CONSTANT Jobs <- MaskJobs
SPECIFICATION Spec
INVARIANT ValidTokenKept
CHECK_DEADLOCK FALSE
