CONSTANT Inputs <- MCInputs
SPECIFICATION Spec
INVARIANT LexTypeOK LongestMatch Contiguous PositionsAgree
PROPERTY Drains
CHECK_DEADLOCK FALSE
