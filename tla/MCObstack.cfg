CONSTANTS
    Top = 14
    Starts = {1, 4, 5, 9}
    Header = 1
    Mask = 1
    ChunkSize = 3
    Slack = 1
    MaxSize = 2
    MaxObjects = 3
SPECIFICATION Spec
INVARIANTS TypeOK ObjectsPlaced ChunksOwned
PROPERTIES ObjectsKept
