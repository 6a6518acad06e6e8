SPECIFICATION AnalysisSpec
CONSTANTS
    a = a
    b = b
    Nobody = Nobody
    Trackers = {1, 2, 3}
    Frames = 5
    Sources <- Clips
    EveryN = 2
    MaxEvent = 2
    Attempts = 2
    MaxGap = 2
    Cosine <- Likeness
    Reconciliation = 95
    Known = {a}
    Anonymous = {b}
    Score <- Matches
    Weight <- Weights
    Recognition = 40
    Unnamed = 78
    Floor = 40
    MinCount = 2
    MinRatio = 60
    MinMargin = 5
INVARIANTS ResultIsWhole PersonsApart IntervalsExact FacesApart
CHECK_DEADLOCK FALSE
