\* Entries sharing a name and without handles.
CONSTANTS
    Names <- MCNames
    Fold <- MCFold
    Protected = {"0"}
    Ents = {e1}
    NoSuffix = NoSuffix
    SwapsAllowed = FALSE
    MaxHandle = 3
    MaxEntries = 3
SPECIFICATION Spec
CHECK_DEADLOCK FALSE
PROPERTIES AssignsEvery
