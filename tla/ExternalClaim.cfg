\* The external estimator: the calls may differ in number by half as much again
\* as the ring has blocks, which takes more than one overrun.
CONSTANTS
    LowRateSize = 4
    FilterLength = 3
    DefaultDelay = 2
    DetectionInterval = 3
    MaxExcess = 1
    UseExternalEstimator = TRUE
    Unset = Unset
    Estimates = {}
    ExternalDelays = {0, 2}
    MaxSkew = 12
SPECIFICATION Spec
INVARIANT
    ExternalOffsetAllowed
