\* Limits of one to three blocks in the order of the code's seconds, so that
\* every verdict is given and withdrawn within a few blocks.
CONSTANTS
    InitialLimit = 2
    DelayLimit = 1
    StrongLimit = 3
    StartLimit = 1
    ResetLimit = 0
    SanityStart = 1
    SanityLimit = 2
    NonConvergedLimit = 1
    ActiveLimit = 2
    ConvergedLimit = 1
    DivergedLimit = 2
    Headroom = 0
    FilterDelays = {1, 6}
    BoundedErl = FALSE
    LinearAndStable = TRUE
    UseLinearFilter = TRUE
SPECIFICATION Spec
INVARIANTS
    CountsAgree
    PhasesInOrder
    EvidenceExpires
