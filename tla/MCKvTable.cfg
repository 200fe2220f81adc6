\* One thread that puts and deletes, one that reads and subscribes; three
\* keys, two of them in one bucket, in a table of two entries.
SPECIFICATION Spec
CONSTANTS
    t1 = t1
    t2 = t2
    k1 = k1
    k2 = k2
    k3 = k3
    v1 = v1
    v2 = v2
    None = None
    Threads <- MCThreads
    Writers <- OneWriter
    Watchers <- OneWatcher
    Keys <- MCKeys
    Vals <- MCVals
    Bucket <- MCBucket
    Capacity = 2
INVARIANTS
    TypeOK
    EntryInOnePlace
    PointerStable
    ToldLatest
PROPERTIES
    ImplementsMap
