\* A Python client that pipelines and subscribes, a C program with any command.
\* Configurations of one and of three chunks; the second reaches the flag CHUNKEXT.
CONSTANTS
    ChunkSiz = 3
    Clients = {py, c}
    PyClients = {py}
    PyCommands = {"GETC", "SUBS"}
    CCommands = {"DELE", "DUMP", "EXIT", "KILL", "LIST", "PIDS", "READ", "SPWN", "SUBS", "UPDT", "????"}
    Idents <- AllEvents
    NameSizes = {1, 9}
    CfgSizes = {3, 9}
    Options <- BothOptions
    MaxQueue = 0
    MaxWire = 1
    MaxCid = 3
    MaxPending = 2
SPECIFICATION FairSpec
INVARIANTS TypeOK SubscribersConnected RepliesConserved CidsTellApart ReadAsWritten
PROPERTIES Answered
\* the server exits or aborts, the clients have closed
CHECK_DEADLOCK FALSE
