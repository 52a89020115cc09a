\* A transfer may never end once its card is gone; then every task may wait for it,
\* and a card that is not exchanged within a pass does not move any more either.
CONSTANTS
    Client = {"udc", "fs"}
    AloneAtFirstUse = TRUE
    DmaHangs = TRUE
SPECIFICATION FairSpec
PROPERTIES CardStateSettles
CHECK_DEADLOCK FALSE
