SPECIFICATION FairSpec
CONSTANTS
    Calls = {c1, c2}
    NoCall = NoCall
    MaxPerHour = 2
    MaxAttempts = 2
    MaxStored = 2
INVARIANTS
    OverlapNeedsSweep
PROPERTIES
    ParkedLeftAlone
    MobileFrees
