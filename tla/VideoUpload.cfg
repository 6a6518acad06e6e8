SPECIFICATION FairSpec
CONSTANTS
    u1 = u1
    u2 = u2
    Uploads = {u1, u2}
    Cleaners = {k1, k2}
    Readers = {r1}
    Stored = {u2}
    Limit = 2
    SourceFps = 5
    DefaultMode = "frames_per_second"
    DefaultFps = 3
    Inputs <- Asked
INVARIANTS SourceBacked LeavesNothing
PROPERTY EventuallyMarked
CHECK_DEADLOCK FALSE
