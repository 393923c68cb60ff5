\* The proportions of the default configuration: the filter grows by one block,
\* and the ramp takes fewer blocks than the initial phase.
CONSTANTS
    InitialLimit = 3
    MainInitial = 2
    Main = 3
    ShadowInitial = 2
    Shadow = 3
    ChangeBlocks = 2
SPECIFICATION Spec
PROPERTY
    PeakAlwaysInside
