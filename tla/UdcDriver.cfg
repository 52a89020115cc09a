\* Refusals, suspends, time-outs and requests of the application at any point;
\* the cable moves outside the windows in which the driver is deaf to it.
CONSTANTS
    CableStill = TRUE
    FlagsAtomic = TRUE
    MaxPosts = 2
SPECIFICATION FairSpec
INVARIANTS
    TypeOK
    MaskedIsOwed
    TriggersRight
    NoPassWhenStopped
    UpperAgrees
PROPERTIES
    EventServed
