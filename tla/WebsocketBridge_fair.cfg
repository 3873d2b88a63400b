SPECIFICATION FairSpec
CONSTANT MaxMessages = 3
INVARIANTS TypeOK OneWriter NothingAfterClose
PROPERTIES LeavingEndsHandler LeavingEndsStream StreamEndEndsReceiver
\* the connection is over in the end
CHECK_DEADLOCK FALSE
