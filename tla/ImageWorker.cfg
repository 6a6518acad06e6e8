SPECIFICATION FairSpec
CONSTANTS
    c1 = c1
    c2 = c2
    c3 = c3
    c4 = c4
    NumWorkers = 1
    Slots = 2
    Clients = {c1, c2, c3, c4}
    Batch <- Sizes
    Untimed = {c2, c4}
    Undecodable <- Bad
    Malformed <- Odd
    Room = 1
INVARIANTS OwnAnswer WaitIsExact
PROPERTY ServerReturns
