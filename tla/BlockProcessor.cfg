\* A low-rate buffer of 4 blocks and a filter of 3: overrun, underrun, excess
\* and a delay clipped at MaxDelay = 4 are all a few calls away.
CONSTANTS
    LowRateSize = 4
    FilterLength = 3
    DefaultDelay = 2
    DetectionInterval = 3
    MaxExcess = 1
    UseExternalEstimator = FALSE
    Unset = Unset
    Estimates = {0, 1, 3}
    ExternalDelays = {0, 2, 6}
    MaxSkew = 0
SPECIFICATION Spec
INVARIANTS
    TypeOK
    ReadsBehindEstimator
    Lockstep
    DelayIsNotExceeded
    BufferFollowsEstimate
    JumpIsReported
    ExcessIsLasting
    ExcessIsBounded
