CONSTANTS
    Client = {"udc", "fs"}
    AloneAtFirstUse = FALSE
    DmaHangs = FALSE
SPECIFICATION Spec
INVARIANTS OneAtATime
