SPECIFICATION FairSpec
CONSTANTS
    Planes = {p1, p2}
    NoPlane = NoPlane
    MaxMoves = 3
INVARIANTS
    TypeOK
    ReportedStaysTracked
    OneReportPerPlane
    PollIsComplete
    EmptyWriteIsEmpty
    NobodyLeftBehind
    CrashIsLate
PROPERTIES
    ReportsAdvance
    NoDropouts
    PublishesTraffic
    PollerUnblocked
    ReportedFliesOn
    DepartedIsForgotten
    ShutdownCompletes
