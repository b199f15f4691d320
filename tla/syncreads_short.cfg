SPECIFICATION SyncSpec
CONSTANTS
    MaxReads = 0
    Sizes = {1}
    Chunk = 2
    Width = 6
    ReadsWhileDirty = FALSE
    CallbackCommands = FALSE
    MaxSyncReads = 1
    SyncSizes = {2, 3}
PROPERTIES
    SyncReadIsComplete
