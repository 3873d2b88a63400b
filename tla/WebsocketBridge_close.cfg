SPECIFICATION Spec
CONSTANT MaxMessages = 3
INVARIANT CloseReachesAgent
\* the connection is over in the end
CHECK_DEADLOCK FALSE
