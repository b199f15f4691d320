SPECIFICATION SyncSpec
CONSTANTS
    MaxReads = 2
    Sizes = {1, 3}
    Chunk = 2
    Width = 6
    ReadsWhileDirty = TRUE
    CallbackCommands = TRUE
    MaxSyncReads = 2
    SyncSizes = {2, 3}
INVARIANTS
    QuietReadsDoNotMix
PROPERTIES
    QuietSyncReadIsWhole
    SyncReturns
