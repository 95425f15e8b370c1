\* Every placement of four records, shards of at most two.
CONSTANTS
    Records = {1, 2, 3, 4}
    Lists <- MCLists
    Shared = Shared
    Model = Model
    Loose = Loose
    NoList = NoList
    MaxEntities = 2
    MaxOwnerDepth = 2
    MaxReads = 2
SPECIFICATION FairSpec
CHECK_DEADLOCK FALSE
INVARIANTS ReadOnce ChildrenStay Bounded ListOrderKept
PROPERTIES ReadEnds
