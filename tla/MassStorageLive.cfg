\* The memory card, which comes and goes at any time, and a host that behaves
\* (see the README): stalls and sense, and every command ends.
CONSTANTS
    Chunk = 1
    HostKeepsUp = TRUE
    ControlTraffic = FALSE
    TotalSec = 1
    MaxCount = 1
    MaxVersion = 1
    LUNs = {1}
    Removable = {1}
    EmptyWrites = FALSE
SPECIFICATION FairSpec
INVARIANTS
    ReadyAfterAttention
PROPERTIES
    Answered
