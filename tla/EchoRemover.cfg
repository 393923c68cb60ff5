\* A main filter that grows over two blocks and a shadow filter that grows by one.
CONSTANTS
    InitialLimit = 3
    MainInitial = 1
    Main = 3
    ShadowInitial = 1
    Shadow = 2
    ChangeBlocks = 2
SPECIFICATION Spec
INVARIANTS
    PhasesAgree
    LearnsOnlyWhenReady
PROPERTY
    PeakIsInside
