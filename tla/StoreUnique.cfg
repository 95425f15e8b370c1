\* Callers bring only handles the store does not hold; a recorder comes and goes.
CONSTANTS
    Blocks = {1, 2}
    ModelSpace = 1
    PaperSpace = 2
    FirstHandle = 3
    Explicit = {5}
    Seeds = {4}
    Strays = {}
    Vals = {v1}
    v1 = v1
    v2 = v2
    NoRaw = NoRaw
    Images <- MCImages
    AllowDuplicates = FALSE
    Transactional = TRUE
    MaxHandle = 4
    MaxSlots = 3
    MaxListed = 1
SPECIFICATION Spec
CHECK_DEADLOCK FALSE
INVARIANTS TypeOk SlotsReachable AllocatorAbove
PROPERTIES ImplementsMap
