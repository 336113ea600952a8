SPECIFICATION FairSpec
CONSTANTS
    Own = {}
    Others = {}
    None = None
    MaxTroubles = 0
PROPERTIES InvitationsSettle
CHECK_DEADLOCK FALSE
