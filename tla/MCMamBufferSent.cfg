CONSTANTS
    u1 = u1
    u2 = u2
    t1 = t1
    t2 = t2
    NoUUID = NoUUID
    UUID <- TwoUuids
    Thread <- TwoThreads
    MaxReaders = 2
    MaxFaults = 0
    MaxCrashes = 0
SPECIFICATION Spec
SYMMETRY Symmetry
INVARIANT
    SentIsPublished
