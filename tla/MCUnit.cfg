CONSTANT Jobs <- UnitJobs
SPECIFICATION Spec
INVARIANT RootIsAccepted
CHECK_DEADLOCK FALSE
