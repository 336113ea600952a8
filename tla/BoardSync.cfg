SPECIFICATION FairSpec
CONSTANTS
    Own = {own}
    Others = {other}
    None = None
    MaxTroubles = 1
INVARIANTS TypeOK ChangesNoticed SeenWhenIdle
PROPERTIES ComesToRest
CHECK_DEADLOCK FALSE
