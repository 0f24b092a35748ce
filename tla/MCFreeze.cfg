CONSTANT Jobs <- FreezeJobs
SPECIFICATION Spec
INVARIANT FrozenSpansNest
CHECK_DEADLOCK FALSE
