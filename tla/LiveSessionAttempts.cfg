SPECIFICATION Spec
CONSTANTS
    Sessions = {s1}
    Clients = {k1}
    Workers = {w1, w2}
    Reported = {"ACTIVE"}
    NoSession = NoSession
    MaxGenerations = 1
    MaxAttempts = 2
    MaxRequests = 3
SYMMETRY Symmetry
INVARIANT StatesAgree
PROPERTY AttemptsKept
CHECK_DEADLOCK FALSE
