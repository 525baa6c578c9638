\* ReorderTransactions, with no crash and no failure, gives two transactions one position
SPECIFICATION Spec
CONSTANTS
    N <- MCN
    MaxLoads = 3
    WriteMayFail = FALSE
    Crashes = FALSE
    AcEntries <- MCNoEntries
    Named <- MCNoEntries
INVARIANT PositionsDistinct
CHECK_DEADLOCK FALSE
