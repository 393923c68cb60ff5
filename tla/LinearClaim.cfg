\* Callers that sometimes leave out the linear output although it is configured.
CONSTANTS
    QueueSize = 3
    CaptureDelay = 3
    LinearSkipped = TRUE
    Cycle = 60
    NoFrame = NoFrame
SPECIFICATION Spec
INVARIANT
    LinearFramerFits
