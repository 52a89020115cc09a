\* At most six blocks; requests that split, fit exactly and leave too little.
CONSTANTS
    first = 32
    last = 160
    Request = {1, 8, 36}
    Alignment = {32}
    ReallocAligned = FALSE
SPECIFICATION Spec
INVARIANTS
    BlocksTile
    NoFreeNeighbours
    PointersApart
    NothingLost
    CopyStaysInside
