CONSTANTS
    Addresses <- MCAddrs
    Sources = {"s", "t"}
    NewBuckets = {1, 2}
    TriedBuckets = {1}
    GetNewBucket <- MCNewBucket
    GetTriedBucket <- MCTriedBucket
    NewBucketSize = 1
    TriedBucketSize = 2
    BucketsPerAddress = 2
    InspectOnEvict = 2
    GetAddrPct = 75
    GetAddrMax = 2
    MaxId = 4
    MaxTime = 3
SPECIFICATION AddrManSpec
INVARIANTS
    CheckPasses
    BucketsBounded
    DumpIsFaithful
PROPERTIES
    TriedNeverDeleted
CHECK_DEADLOCK FALSE
