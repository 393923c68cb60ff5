\* A ring of 8 low-rate blocks and a threshold of 4, so that a frame of three
\* blocks fits as it does in the default configuration (153 blocks and 8).
CONSTANTS
    LowRateSize = 8
    FilterLength = 3
    DefaultDelay = 5
    DetectionInterval = 4
    MaxExcess = 4
    UseExternalEstimator = FALSE
    Unset = Unset
    Estimates = {0, 2, 5}
    ExternalDelays = {0, 6}
    MaxSkew = 0
SPECIFICATION StreamSpec
INVARIANTS
    StreamIsSmooth
    StreamIsAligned
PROPERTY
    EstimateSurvives
