\* A request with cid 0.
CONSTANTS
    ChunkSiz = 10
    MaxReqs = 2
    Requests <- WithZero
SPECIFICATION Spec
PROPERTIES InOrder
CHECK_DEADLOCK FALSE
