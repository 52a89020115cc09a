\* One line for two sectors and the block past the end, a flush after two polls,
\* transfers of one sector through the lines and of two past them; the translation
\* layer may fail any read or write, and the power may go between any two steps.
CONSTANTS
    CACHE_MAX_NUM = 1
    MinFree = 1
    TotalSec = 2
    MaxCount = 2
    MaxVersion = 1
    FtlFaults = TRUE
    FlushAfter = 2
    SectorCountStep = 1
SPECIFICATION DiskFairSpec
INVARIANTS
    DirtyInside
    ZeroMeansClean
PROPERTIES
    CallReturns
    HandedOverDurable
    IdleFlushes
