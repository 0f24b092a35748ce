CONSTANT Jobs <- MCJobs
SPECIFICATION Spec
INVARIANT TypeOK NoRework SpansBracket NodesAreProductions EdgesYield NoFalseReject NoFalseAccept RootIsAccepted SiblingChainsEnd HeadsAligned EarliestResync SurvivorsKept
PROPERTY HeadsAdvance Terminates ImplementsCalculus
CHECK_DEADLOCK FALSE
