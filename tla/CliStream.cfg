SPECIFICATION FairSpec
CONSTANTS
    Author = author
    MaxTime = 4
    Commands <- SomeCommands
INVARIANTS TypeOK ShownOnce OldStaysOld NoPhantoms
PROPERTIES PollingShowsAll
CHECK_DEADLOCK FALSE
