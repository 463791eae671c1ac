SPECIFICATION Spec
CONSTANTS
    Readers = {computer, display}
    CountFirst = {display}
    Slots = 2
    MaxSnapshots = 2
    MaxRuns = 2
INVARIANTS
    TypeOK
    SemaphoresExclude
    CleanReadIsWhole
PROPERTIES
    ReadsAreAtomic
CHECK_DEADLOCK FALSE
