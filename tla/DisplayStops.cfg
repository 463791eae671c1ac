SPECIFICATION FairSpec
CONSTANTS
    Axes = {x}
    Constraint <- MCConstraint
    NegligibleDifference = 1
    Pictures <- MCPictures2
    DefaultConstraint = 2
    NewConstraints <- MCNewConstraints
    Capacity = 3
    MaxSnapshots = 2
    MaxCommands = 1
PROPERTY
    DisplayStops
CHECK_DEADLOCK FALSE
