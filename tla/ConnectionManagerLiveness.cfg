SPECIFICATION FairSpec
CONSTANTS
    Mobiles = {a1}
    Calls = {k1, k2}
    NoCall = NoCall
    Stopper = Stopper
    MaxConnections = 1
    EvictTarget = 1
    Keeps = {FALSE}
    Forces = {FALSE, TRUE}
CHECK_DEADLOCK FALSE
PROPERTIES
    CallsEnd
