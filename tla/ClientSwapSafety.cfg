SPECIFICATION Spec
CONSTANTS
    p1 = p1  p2 = p2  c1 = c1  c2 = c2  m1 = m1  m2 = m2  m3 = m3  m4 = m4  m5 = m5
    Procs = {p1, p2}
    Clients = {c1, c2}
    Mobiles = {m1, m2, m3}
    NoClient = NoClient
    NoMobile = NoMobile
    NoOwner = NoOwner
    Gone = Gone
    InitMain <- MCMain
    InitOwner <- MCOwner3
    Persona <- MCSiblings
    Kinds = {"dead", "normal", "upgrade"}
    SparesAfter = 0
    RenewalFails = FALSE
    Frail = {}
    MaxStarts = 2
    MaxCrashes = 0
SYMMETRY MCSymmetry
CHECK_DEADLOCK FALSE
INVARIANTS
    LeaseMutex PickExclusive
PROPERTIES
    PenaltySparesMain ImplementsAssignment
