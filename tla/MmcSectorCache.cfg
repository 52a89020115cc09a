\* Three lines, of which two are found, for three sectors of two cards, which are
\* pulled out and put in at any point; another card comes while none is mounted.
CONSTANTS
    Card = {c1, c2}
    CACHE_MAX_NUM = 3
    MinFree = 3
    TotalSec = 3
    MaxCount = 2
    MaxVersion = 1
    Remounts = TRUE
SPECIFICATION Spec
INVARIANTS
    RetryFindsALine
    OnlyThisCard
    CleanIsCurrent
PROPERTIES
    NoStaleWriteBack
