SPECIFICATION WorkerHostSpec
CONSTANTS
    MaxRestarts = 2
    CallTimeout = 3
    MaxCalls = 1
PROPERTY OnlyTheSlowAreTerminated
