SPECIFICATION FairProtocol
CONSTANTS
    Tracks = {1}
    Max16 = 3
    Max24 = 4
    Max31 = 5
    Max32 = 6
    Max63 = 7
    MaxObservations = 2
    MaxJpeg = 2
    SettingsRange <- MCSettings
    OddFrames <- MCOddFrames
    MaxMessages = 2
INVARIANTS Understood SameVerdict
PROPERTY StartSettles
CHECK_DEADLOCK FALSE
