SPECIFICATION FairSpec
CONSTANTS
    Boards = {a}
    Keys = {k}
    None = None
    NotInstalled = NotInstalled
    LegacyValues <- MCLegacyValues
    MaxTabs = 2
    MaxLosses = 1
    MaxSaves = 2
PROPERTIES SavesReturn LoadsEventually
CHECK_DEADLOCK FALSE
