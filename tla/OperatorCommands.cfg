SPECIFICATION FairSpec
CONSTANTS
    Planes = {"p1", "p2"}
    Axes = {"x", "z"}
    Vertical = "z"
    Low <- MCLow
    High <- MCHigh
    Start <- MCStart
    Orders <- MCOrders
    MaxCommands = 2
    Constraint <- MCConstraint
    NegligibleDifference = 1
    TimeConstraint = 2
CHECK_DEADLOCK FALSE
INVARIANTS TypeOK ReportsInside ReportsPredict TargetReached SentIsObeyed ClearIsSafe
PROPERTIES CommandsInOrder CommandsQueue PollAnswered ConsoleServed
