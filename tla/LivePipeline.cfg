CONSTANTS
    Budget = 2
SPECIFICATION FairSpec
INVARIANTS StoppedIsClosed
PROPERTIES OutcomeKept StopJoined RebuildDone
CHECK_DEADLOCK FALSE
