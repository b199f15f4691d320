SPECIFICATION Spec
CONSTANTS
    Remotes = 2
    Fds = {0, 1, 2, 3}
INVARIANTS
    SocketsAreOwned
    TidyDoesNotLeak
PROPERTIES
    PollReportsLoss
    PollCountsEvents
