SPECIFICATION Spec
CONSTANTS
    Remotes = 1
    Fds = {0, 1, 2, 3}
PROPERTIES
    DisconnectDisconnects
