\* Two entries that exchange names before one resync.
CONSTANTS
    Names <- MCNames
    Fold <- MCFold
    Protected = {"0"}
    Ents = {e1}
    NoSuffix = NoSuffix
    SwapsAllowed = TRUE
    MaxHandle = 3
    MaxEntries = 3
SPECIFICATION Spec
CHECK_DEADLOCK FALSE
PROPERTIES ResyncedReachable
