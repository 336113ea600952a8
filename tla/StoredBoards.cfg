SPECIFICATION Spec
CONSTANTS
    Boards = {a, b}
    Keys = {k, l}
    None = None
    NotInstalled = NotInstalled
    LegacyValues <- MCNotInstalled
    MaxTabs = 2
    MaxLosses = 1
    MaxSaves = 2
SYMMETRY MCSymmetry
INVARIANTS TypeOK SavedUnlessBlind
CHECK_DEADLOCK FALSE
