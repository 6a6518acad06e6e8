SPECIFICATION FairSpec
CONSTANTS
    Sessions = {s1}
    Clients = {k1, k2}
    Workers = {w1}
    Reported = {"ACTIVE"}
    NoSession = NoSession
    MaxGenerations = 2
    MaxAttempts = 1
    MaxRequests = 3
INVARIANT OneRunning
PROPERTIES PathKept ReplacedIsTold
CHECK_DEADLOCK FALSE
