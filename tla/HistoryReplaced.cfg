\* The user clears the drawing, or brings back the handle of an entity it
\* removed, in the middle of a transaction.
CONSTANTS
    Blocks = {1, 2}
    ModelSpace = 1
    PaperSpace = 2
    FirstHandle = 5
    Loaded <- MCLoaded
    NewNext = 3
    Clears = TRUE
    Sweeps = TRUE
    Explicit = {4}
    Seeds = {1}
    Strays = {}
    Vals = {v1, v2}
    v1 = v1
    v2 = v2
    NoRaw = NoRaw
    Images = {}
    AllowDuplicates = FALSE
    Transactional = TRUE
    MaxHandle = 5
    MaxSlots = 3
    MaxListed = 3
    MaxEdits = 3
    MaxHistory = 1
SPECIFICATION FairHistorySpec
CHECK_DEADLOCK FALSE
INVARIANTS BeforeImagesFaithful RawFaithful
PROPERTIES UndoRestores UndoCompletes
