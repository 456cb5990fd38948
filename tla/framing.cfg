\* Three requests of every kind, in all fragments, with a buffer that holds two.
CONSTANTS
    ChunkSiz = 17
    MaxReqs = 3
    Requests <- Various
SPECIFICATION FairSpec
INVARIANTS TypeOK NothingWaits
PROPERTIES InOrder Served
CHECK_DEADLOCK FALSE
