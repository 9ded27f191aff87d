SPECIFICATION FairSpec
CONSTANTS
    m1 = m1  m2 = m2  q1 = q1
    Mobiles = {m1, m2}
    InitMain = m1
    Reports = {q1}
    Job = Job
    MaxAttempts = 2
    MaxDeaths = 1
    MaxReports = 2
    MaxChanges = 1
CHECK_DEADLOCK FALSE
INVARIANTS
    EvidenceIsCurrent MarkerIsCurrent AttemptsBounded
PROPERTIES
    DeadSwapJustified EvidenceAnswered AttemptsEnd
