\* The document API changes the object map, a caller removes at most one object
\* from it; a group may be created under the name of another.
CONSTANTS
    Ents = {1, 2}
    RootDict = 3
    GroupDict = 4
    GroupKey = "ACAD_GROUP"
    SubKeys = {"NOTES"}
    GroupNames = {"STEEL"}
    AutoNames <- MCAutoNames
    RecordKeys = {"DATA"}
    NoXdic = NoXdic
    FirstHandle = 5
    ReuseNames = TRUE
    MaxPurges = 1
    MaxHandle = 7
SPECIFICATION Spec
CHECK_DEADLOCK FALSE
INVARIANTS GroupsRegistered EntriesResolve AttachedBothWays ReactorsMatchGroups
PROPERTIES EnsuredFound
