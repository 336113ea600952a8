SPECIFICATION SigningSpec
CONSTANTS
    boardsData = boardsData
    settings = settings
    boardsText = boardsText
    settingsText = settingsText
    Origins = {app, other}
    Keys = {boardsData, settings}
    Texts = {boardsText, settingsText, keyIndex}
    TextOf <- MCTextOf
    KeyIndexSuffix = keyIndex
    Values = {v1, v2}
    Boards = {board}
    SigningKeys = {owner, first, second}
    SigningPrefix = signing_key
    None = None
    Web = app
    Board = board
    OwnerKey = owner
    owner = owner
    first = first
    second = second
    Uses <- SomeUses
INVARIANTS TypeOK SignedByAuthor ImportHeals
PROPERTIES KeepsPromise
SYMMETRY MCSymmetry
CHECK_DEADLOCK FALSE
