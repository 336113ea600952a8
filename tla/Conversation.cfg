SPECIFICATION FairSpec
CONSTANTS
    Self = self
    Other = other
    Emojis = {e1, e2}
    Privileged = {self, other}
    MaxTime = 4
    Workloads <- SomeWorkloads
INVARIANTS TypeOK ViewIsMeaning OneReactionEach MessagesFindable NothingSlipsBy
PROPERTIES NothingComesBack ReadWhenWatched
CHECK_DEADLOCK FALSE
