SPECIFICATION Spec
CONSTANTS
    Calls = {c1, c2}
    Sessions = {s1, s2}
    Clients = {k1, k2, k3}
    None = None
SYMMETRY Symmetry
PROPERTIES
    FloodKeepsSession
