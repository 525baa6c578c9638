\* Two writers and the flush thread: no handle outlives the Db, every counted write is flushed
SPECIFICATION Spec
CONSTANTS
    t1 = t1
    t2 = t2
    Threads <- MCThreads
    MaxUpdates = 3
    MaxOpens = 4
INVARIANT TypeOK
PROPERTY CountedWritesFlushed
