CONSTANTS
    Clis = {c1, c2}
    Servers = {s1}
    Relative = {c2}
    Runs = {r1, r2, r3}
    Paths = {d1}
    NoRun = NoRun
    NoPath = NoPath
    MaxOwn = 1
    MaxActive = 2
    MaxFaults = 1
SPECIFICATION Spec
INVARIANTS TypeOK HostRestored BoundaryHeld Paired DeliverableFiled FiledOnce
SYMMETRY Symmetry
CHECK_DEADLOCK FALSE
