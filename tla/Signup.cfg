SPECIFICATION FairSpec
CONSTANTS
    Calls = {c1, c2}
    Sessions = {s1}
    Clients = {k1, k2, k3}
    None = None
INVARIANTS
    OrphansNeedOverlap
    SessionsExpire
    CallMatchesStage
PROPERTIES
    RejectionsHonoured
    CallsAnswered
