SPECIFICATION Spec
CONSTANTS
    Owner = o
    Members = {a, b, c, d}
INVARIANTS WalksAgree
PROPERTIES WalksTerminate
CHECK_DEADLOCK FALSE
