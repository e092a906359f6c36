SPECIFICATION FairSpec
CONSTANTS
    AbsenceTimeout = 1
    BootTimeout = 1
    WatchdogTimeout = 1
    PresenceDebounce = 1
    GazeIsKeepAwake = TRUE
    WakeEnabled = TRUE
    SignalOrder <- FaceOnly
    CameraStates = {"active", "released"}
    Switches = FALSE
    Failures = FALSE
    UplinkBound = 1
    MaxExecs = 1
PROPERTY DisplayWakesOnReturn
