SPECIFICATION Spec
CONSTANTS
    Requests = {r1, r2}
    Queries <- Asked
    cap = 3
    max_resident_bytes = 6
    estimate_bytes <- Bytes
    shared_prefix_min = 1
    restore_point_spacing = 0
    Disk = TRUE
    Faults = TRUE
SYMMETRY Symmetric
INVARIANTS PayloadMatchesKey CapturesExclusive
PROPERTY EvictedStaysReachable
