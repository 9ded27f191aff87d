SPECIFICATION FairSpec
CONSTANTS
    p1 = p1  p2 = p2
    Procs = {p1}
    Threshold <- MCThreshold
    Gap <- MCGap
    Deadline = 3
    Floor = 2
    Cooldown = 1
    MaxFailed = 2
    Backoff = 1
    ResetAfter = 2
    AgeCap = 13
    GapCap = 2
    FailCap = 3
    Legacy <- MCLegacy
    MaxCrashes = 1
    MaxReturns = 1
CHECK_DEADLOCK FALSE
INVARIANTS
    RotatedIsPrepared
PROPERTIES
    ImplementsAccount RevokeOnlyBehindPassword StepsSpaced
    AgeNeverStrands SupplyArrives
