SPECIFICATION FairSpec
CONSTANTS
    MaxReads = 2
    Sizes = {1, 3}
    Chunk = 2
    Width = 4
    ReadsWhileDirty = TRUE
    CallbackCommands = FALSE
PROPERTIES
    EveryReadEnds
