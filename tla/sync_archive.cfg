CONSTANTS
    h1 = h1
    h2 = h2
    s1 = s1
    s2 = s2
    s3 = s3
    Hosts = {h1, h2}
    Syncs = {s1, s3}
    HostOf <- Placement
    Ids = {e1, e2, e3}
    MaxSeq = 3
    MaxFaults = 1
SPECIFICATION Spec
INVARIANTS TypeOK CloudOrder HostOrder
SYMMETRY Symmetry
