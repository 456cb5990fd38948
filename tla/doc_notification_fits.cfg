\* A build with assertions, one subscriber or none, one client that updates.
CONSTANTS
    ChunkSiz = 3
    Clients = {c1, c2}
    PyClients = {}
    PyCommands = {"GETC"}
    CCommands = {"SPWN", "UPDT", "SUBS"}
    Idents <- LogAndCfg
    NameSizes = {1}
    CfgSizes = {3, 4}
    Options <- DebugBuild
    MaxQueue = 0
    MaxWire = 1
    MaxCid = 2
    MaxPending = 1
SPECIFICATION Spec
INVARIANTS NotificationFits
CHECK_DEADLOCK FALSE
