CONSTANT Inputs <- HelloInput
CONSTANT LargeThreshold = 5
SPECIFICATION Spec
INVARIANT SplitFaithful
CHECK_DEADLOCK FALSE
