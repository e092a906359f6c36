SPECIFICATION TunnelSpec
CONSTANTS
    Phones = {p1}
    None = none
    MaxLists = 2
    MaxAdb = 1
INVARIANT ReplugIsReissued
