\* Loads, reorders, crashes and failed writes: the file keeps the positions in use
SPECIFICATION Spec
CONSTANTS
    N <- MCN
    MaxLoads = 3
    WriteMayFail = TRUE
    Crashes = TRUE
    AcEntries <- MCAcEntries
    Named <- MCNoEntries
INVARIANT TypeOK
INVARIANT DiskMatchesMemory
CHECK_DEADLOCK FALSE
