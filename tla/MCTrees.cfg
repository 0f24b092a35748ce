CONSTANT Readings <- MCReadings
SPECIFICATION Spec
INVARIANT ReadersTypeOK WalkIsPreorder DeepestFound MarkedExactly QueryComplete PaintedByPriority TextsMean CutRefused
PROPERTY Returns
CHECK_DEADLOCK FALSE
