\* Two transactions of two operations, undone and redone in any order.
CONSTANTS
    Blocks = {1, 2}
    ModelSpace = 1
    PaperSpace = 2
    FirstHandle = 5
    Loaded <- MCLoaded
    NewNext = 3
    Clears = FALSE
    Sweeps = FALSE
    Explicit = {}
    Seeds = {6}
    Strays = {}
    Vals = {v1, v2}
    v1 = v1
    v2 = v2
    NoRaw = NoRaw
    Images = {}
    AllowDuplicates = FALSE
    Transactional = TRUE
    MaxHandle = 6
    MaxSlots = 3
    MaxListed = 3
    MaxEdits = 2
    MaxHistory = 2
SPECIFICATION HistorySpec
CHECK_DEADLOCK FALSE
INVARIANTS HistoryBelowAllocator ListedByOwner
PROPERTIES UndoRestores
