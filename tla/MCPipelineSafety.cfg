SPECIFICATION Spec
CONSTANTS
    AbsenceTimeout = 2
    BootTimeout = 1
    WatchdogTimeout = 1
    PresenceDebounce = 1
    GazeIsKeepAwake = TRUE
    WakeEnabled = TRUE
    SignalOrder <- FaceAndMotion
    CameraStates = {"active", "released"}
    Switches = TRUE
    Failures = TRUE
    UplinkBound = 1
    MaxExecs = 1
INVARIANTS
    AbsenceIsShared
    TypeOK
PROPERTIES
    WakeNeedsEvidence
    SleepIsDeserved
