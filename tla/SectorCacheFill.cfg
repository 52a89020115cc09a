\* Two lines for the two sectors and the blocks past the end that reads cache:
\* the cache fills, evictions of both kinds happen, and two versions tell an old
\* copy of a sector in a line, the layer or the medium from a newer one.
CONSTANTS
    CACHE_MAX_NUM = 2
    MinFree = 2
    TotalSec = 2
    MaxCount = 2
    MaxVersion = 2
    FtlFaults = FALSE
SPECIFICATION Spec
INVARIANTS
    TypeOK
    LinesDistinct
    CursorIndexesALine
    RetryFindsALine
    CleanIsCurrent
    SyncedIsDurable
PROPERTIES
    IsABlockDevice
    NoStaleWriteBack
