SPECIFICATION SyncSpec
CONSTANTS
    Minutes = {1, 2}
    DefaultMinutes = 2
    MaxEdits = 2
INVARIANT PhoneIsPersisted
