\* The NAND: reads and writes cut into parts, resets and pulled cables, control traffic.
CONSTANTS
    Chunk = 1
    HostKeepsUp = FALSE
    ControlTraffic = TRUE
    TotalSec = 2
    MaxCount = 2
    MaxVersion = 1
    LUNs = {0}
    Removable = {}
    EmptyWrites = TRUE
SPECIFICATION Spec
INVARIANTS
    TypeOK
    PhaseAgreement
    StatusTruthful
    SectorSizeKnown
PROPERTIES
    IsAHostDisk
