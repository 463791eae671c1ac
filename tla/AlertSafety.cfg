SPECIFICATION Spec
CONSTANTS
    Axes = {x}
    Constraint <- MCConstraint
    NegligibleDifference = 1
    Pictures <- MCPictures
    DefaultConstraint = 2
    NewConstraints <- MCNewConstraints
    Capacity = 3
    MaxSnapshots = 2
    MaxCommands = 1
INVARIANTS
    TypeOK
    AlertsAreSound
    SmallAlertsFit
PROPERTIES
    ScreenAdvances
    NoAlertOverwritten
CHECK_DEADLOCK FALSE
