SPECIFICATION PhonePartsSpec
CONSTANTS
    Graces = {2, 3}
    LightLimit = 3
    VisibleLists = {{"light"}}
    Everything = everything
    Visits = {v1, v2}
    NativeFails = TRUE
    SignalOrder <- Signals
    Scenes <- Views
    Dwell = 1
    Minutes = {1, 2}
    DefaultMinutes = 2
    MaxEdits = 2
    HeartbeatTimeout = 3
    MaxDrops = 3
    Skies = {s1, s2}
    NoReading = none
    Configured = {"weather"}
    ShowsAll = all
    Polls = {p1, p2}
    Titles = {t1, t2}
    NoTitle = notitle
    PausedGrace = 2
    Reads = {r1, r2}
INVARIANTS
    CameraInv
    SyncInv
    ConnectionInv
    
    PausedCardStays
    BrightnessFollowsTheLight
PROPERTIES
    WeatherArrives
    DeadRegistrationFades
    AbandonedSleeps
    KeepsToSensor
    StillSceneIsHeard
    SidesAgree
    FailureIsRetried
