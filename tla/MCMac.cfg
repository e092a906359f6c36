SPECIFICATION MacSpec
CONSTANTS
    AbsenceTimeout = 10
    BootTimeout = 10
    GazeIsKeepAwake = TRUE
    WatchdogTimeout = 60
    Rules <- RuleSet
    Events <- EventSet
    Listens <- ListensTo
    Condition <- HoldsOf
    Throws <- ThrowsOn
    Debounce <- DebounceOf
    MaxRestarts = 2
    CallTimeout = 3
    MaxCalls = 2
    Others = {"none", "sleepnow"}
    MaxDenials = 1
    Phones = {p1, p2}
    None = none
    MaxLists = 2
    MaxAdb = 2
    Configs = {c1, c2}
    FirstConfig = c1
    Unknown = unknown
    MaxInvokes = 2
    Cap = 3
    MaxLines = 6
    CurrentVersion <- Running
    Releases <- Reported
    NoRelease = norelease
    MaxChecks = 2
    DefaultPlugins <- TwoPlugins
    DefaultTiles <- Widgets
    DefaultTimeout = 6
    MinTimeout = 4
    StepTime = 2
    HandWritten <- ByHand
    MaxEdits = 3
INVARIANTS
    WorkersInv
    PermissionsAgree
    HistoryInv
    TunnelInv
    WindowInv
    TrayInv
    ConfigFileInv
    LogHasNoGap
PROPERTIES
    KeepsPromise
    MaybeAbsentResolves
    ReportIsEarned
    SilenceIsReported
    InvocationIsEarned
    DebounceEnds
    CallsSettle
    CrashIsHandled
    DockLeadsToLaunch
    WindowCatchesUp
