CONSTANTS
    u1 = u1
    u2 = u2
    t1 = t1
    t2 = t2
    NoUUID = NoUUID
    UUID <- TwoUuids
    Thread <- OneThread
    BundleLen = 2
    Capacity = 1
    MaxReaders = 3
    MaxFaults = 0
    MaxCrashes = 0
SPECIFICATION FairSpec
PROPERTY
    BroadcastResumes
