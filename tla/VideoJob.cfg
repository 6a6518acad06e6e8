SPECIFICATION FairSpec
CONSTANTS
    Jobs = {1}
    Workers = {w1, w2}
    Clients = {c1, c2}
    MaxAttempts = 2
    MaxConcurrent = 1
INVARIANTS FinalizeFenced OutcomeConsistent
PROPERTIES CancelledNeverCompletes NewestAttemptPublishes EventuallySettled
