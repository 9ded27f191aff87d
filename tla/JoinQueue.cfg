SPECIFICATION Spec
CONSTANTS
    m1 = m1  m2 = m2  s1 = s1  s2 = s2  r1 = r1
    Mobiles = {m1, m2}
    NoMobile = NoMobile
    Slots = {s1, s2}
    Refills = {r1}
    Batch = 2
    JoinCap = 1
    RoundJoins = 2
    LeaveCap = 1
    LeaveBatch = 2
    MaxFailures = 1
    MaxMapSize = 2
    MaxTimers = 1
    MaxSweeps = 1
    MaxRestarts = 1
    MaxDays = 1
CONSTRAINT MCBound
SYMMETRY MCSymmetry
CHECK_DEADLOCK FALSE
INVARIANTS
    FlagsOwned LeaveNeverStalls DailyCaps
