\* A store of one task, three commands for two tasks, one restart.
SPECIFICATION FairSpec
CONSTANTS
    t1 = t1  t2 = t2 
    Task = {t1, t2}
    Served = {t1, t2}
    Deadline <- MCDeadline
    Skew = 1  NonceTtl = 3  MaxEntries = 1
    Offset = {1}  MaxCommands = 3  MaxTime = 3  MaxRestarts = 1
INVARIANTS TypeOK AcceptedOnce WorkNotRepeated RetryNeverConflicts
PROPERTIES ExecutionsEnd KeepsContract
CHECK_DEADLOCK FALSE
