SPECIFICATION FairSpec
CONSTANTS
    MaxReads = 3
    Sizes = {1, 2, 3}
    Chunk = 2
    Width = 4
    ReadsWhileDirty = FALSE
    CallbackCommands = FALSE
INVARIANTS
    TypeOK
    AnswersAreForHead
    DataContinuesBuffer
    EventMeansBuffer
    HeadIsInFlight
    NoReadsWhenDisconnected
PROPERTIES
    EveryReadEnds
    ImplementsService
