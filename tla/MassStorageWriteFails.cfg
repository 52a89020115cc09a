\* The card is pulled out during a write.
CONSTANTS
    Chunk = 1
    HostKeepsUp = FALSE
    ControlTraffic = FALSE
    TotalSec = 1
    MaxCount = 1
    MaxVersion = 1
    LUNs = {1}
    Removable = {1}
    EmptyWrites = TRUE
SPECIFICATION Spec
INVARIANTS
    PassedMeansDone
