SPECIFICATION Spec
CONSTANTS
    Axes = {x}
    Constraint <- MCConstraint
    NegligibleDifference = 1
    Pictures <- CrowdPictures
    DefaultConstraint = 2
    NewConstraints <- MCNewConstraints
    Capacity = 2
    MaxSnapshots = 2
    MaxCommands = 1
INVARIANT
    AlertFits
CHECK_DEADLOCK FALSE
