SPECIFICATION FairSpec
CONSTANTS
    Axes = {x}
    Constraint <- MCConstraint
    NegligibleDifference = 1
    Pictures <- MCPictures2
    DefaultConstraint = 2
    NewConstraints = {1}
    Capacity = 3
    MaxSnapshots = 2
    MaxCommands = 1
PROPERTIES
    ConflictShown
    AllClearShown
    OperatorServed
CHECK_DEADLOCK FALSE
