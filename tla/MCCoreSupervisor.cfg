SPECIFICATION CoreSupervisorSpec
CONSTANTS
    MaxRestarts = 1
    MaxEdits = 2
    MaxMail = 1
INVARIANTS
    SupervisorInv
PROPERTY SnapshotsMoveForward
