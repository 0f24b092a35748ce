CONSTANT Inputs <- SumInput
CONSTANT LargeThreshold = 5
SPECIFICATION Spec
INVARIANT AcceptIsComplete
CHECK_DEADLOCK FALSE
