SPECIFICATION Spec
CONSTANTS
    t1 = t1
    t2 = t2
    Tracks = {t1, t2}
    Faces = {f1, f2}
    NoFace = NoFace
    NoTrack = NoTrack
    Streak = 2
    Window = 1
    EvidenceCapacity = 1
    WorkCapacity = 2
    CommandCapacity = 1
    MaxEvidence <- Evidences
    MaxPipe = 1
SYMMETRY Symmetry
INVARIANTS EpochAgrees ShownIsRecorded
PROPERTY NamesNeverSwap
