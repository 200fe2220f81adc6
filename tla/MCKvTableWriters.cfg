\* Both threads put and delete.
SPECIFICATION Spec
CONSTANTS
    t1 = t1
    t2 = t2
    k1 = k1
    k2 = k2
    k3 = k3
    v1 = v1
    v2 = v2
    None = None
    Threads <- MCThreads
    Writers <- TwoWriters
    Watchers <- OneWatcher
    Keys <- MCKeys
    Vals <- MCVals
    Bucket <- MCBucket
    Capacity = 2
INVARIANT
    NoEntryTakenTwice
