SPECIFICATION Spec
CONSTANTS
    Mobiles = {a1, a2}
    Calls = {k1, k2, k3}
    NoCall = NoCall
    Stopper = Stopper
    MaxConnections = 2
    EvictTarget = 1
    Keeps = {FALSE}
    Forces = {FALSE}
SYMMETRY MCSymmetry
CHECK_DEADLOCK FALSE
INVARIANTS
    SingleConnection NoLeak
