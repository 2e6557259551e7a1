CONSTANTS
    Files <- MCFiles
    Imports <- MCImports
    MaxVersion = 3
    Unparsable = {3}
    RawCap = 2
    PendingCap = 1
    ChanCap = 1
    QueueCap = 1
    MaxHeads = 2
    MaxChanges = 3
    Disturbances = {"move", "editor", "kill", "fail"}
SPECIFICATION FairSpec
INVARIANTS TypeOK  NoOrphanEdges
PROPERTY Drains
CHECK_DEADLOCK FALSE
