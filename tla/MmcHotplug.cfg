\* Two tasks that use the slot, and a card that moves at any time; in one initial
\* state it may also be exchanged within a pass of the detection task.
CONSTANTS
    Client = {"udc", "fs"}
    AloneAtFirstUse = TRUE
    DmaHangs = FALSE
SPECIFICATION FairSpec
INVARIANTS
    TypeOK
    OneAtATime
PROPERTIES
    UnknownOnlyWhileInitializing
    CardIsInitialised
    CardStateSettles
