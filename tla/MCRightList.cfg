CONSTANT Jobs <- RightJobs
SPECIFICATION Spec
INVARIANT NoFalseReject
CHECK_DEADLOCK FALSE
