SPECIFICATION Spec
CONSTANTS
    Readers = {computer, display}
    CountFirst = {display}
    Slots = 2
    MaxSnapshots = 2
    MaxRuns = 1
INVARIANT
    SnapshotsAreWhole
CHECK_DEADLOCK FALSE
