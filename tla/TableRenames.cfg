\* Several in-place renames before one resync.
CONSTANTS
    Names <- MCNames
    Fold <- MCFold
    Protected = {"0"}
    Ents = {e1}
    NoSuffix = NoSuffix
    SwapsAllowed = TRUE
    MaxHandle = 2
    MaxEntries = 3
SPECIFICATION Spec
CHECK_DEADLOCK FALSE
INVARIANTS EntriesUnique
PROPERTIES ReferencesFollow RenameKeepsReferences ResyncKeepsEntries
CONSTRAINTS OneReferenceMoved
