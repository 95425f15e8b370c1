\* Batches of two chunks of four records: the file takes two batches.
CONSTANTS
    Files <- MCFiles
    ModelSpace = 1
    PaperSpace = 2
    ChunkSize = 4
    BatchChunks = 2
SPECIFICATION Spec
CHECK_DEADLOCK FALSE
INVARIANTS RecordsAccounted ChildrenInDrawingOrder BlocksHoldTheirEntities
