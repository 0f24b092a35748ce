CONSTANT Inputs <- MCInputs
CONSTANT Files <- MCFiles
CONSTANT LargeThreshold = 5
CONSTANT MaxDepth = 2
SPECIFICATION CompilerSpec
INVARIANT TableTypeOK SetsExact MovesEntered ConflictsDecided SplitServes CompilerTypeOK SameStrings MarksFollow RefusedRightly
PROPERTY OnlyLosersGo Generates
CHECK_DEADLOCK FALSE
