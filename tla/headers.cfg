SPECIFICATION Spec
CONSTANTS
    Processes = {p1, p2, p3}
    Headers = {h1, h2}
    None = None
    MaxFaults = 2
SYMMETRY Symmetry
CHECK_DEADLOCK FALSE
INVARIANTS TypeOK HeadersReady
PROPERTIES RemovalIsComplete
