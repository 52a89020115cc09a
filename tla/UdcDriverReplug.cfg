\* The cable may move at any time, and be pulled and plugged again while the
\* driver deals with it.
CONSTANTS
    CableStill = FALSE
    FlagsAtomic = TRUE
    MaxPosts = 2
SPECIFICATION Spec
INVARIANT TriggersRight
