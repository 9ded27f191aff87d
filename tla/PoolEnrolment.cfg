SPECIFICATION FairSpec
CONSTANTS
    Attempts = {a1, a2}
    NoAttempt = NoAttempt
    Procs <- MCHosts
    Entries <- MCSplit
    Prompt = TRUE
    MaxFaults = 2
INVARIANTS
    OnePool
PROPERTIES
    ImplementsMembership
    TakesOnlyRaced
    EnrolmentsEnd
    ClaimFrees
