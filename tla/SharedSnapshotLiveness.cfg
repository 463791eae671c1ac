SPECIFICATION FairSpec
CONSTANTS
    Readers = {computer, display}
    CountFirst = {display}
    Slots = 2
    MaxSnapshots = 1
    MaxRuns = 1
PROPERTIES
    ReaderUnblocked
    ReadersStop
CHECK_DEADLOCK FALSE
