CONSTANTS
    h1 = h1
    h2 = h2
    s1 = s1
    s2 = s2
    s3 = s3
    Hosts = {h1, h2}
    Syncs = {s1, s2, s3}
    HostOf <- Placement
    Ids = {e1, e2}
    MaxSeq = 0
    MaxFaults = 2
SPECIFICATION FairSpec
INVARIANT CausalOrder
PROPERTY EventuallyEverywhere
