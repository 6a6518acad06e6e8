SPECIFICATION FairSpec
CONSTANTS
    Cameras = {c1}
    Workers = {w1}
    Clients = {k1, k2}
    NoCamera = NoCamera
    Reported = {"ACTIVE"}
    MaxGenerations = 3
INVARIANT OneOwner
PROPERTIES LedgerKept DeletedStaysDown UnwantedIsTold WantedIsServed
