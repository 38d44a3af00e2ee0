SPECIFICATION HostsSpec
CONSTANTS
    MaxHosts = 3
    MaxIds = 4
    Edits = {}
    Original = original
PROPERTY ReorderOnlyMoves
CHECK_DEADLOCK FALSE
