\* Three frames fill the queue; the captured signal is delayed by three units, so
\* that the delay line wraps in the middle of a frame.
CONSTANTS
    QueueSize = 3
    CaptureDelay = 3
    LinearSkipped = FALSE
    Cycle = 60
    NoFrame = NoFrame
SPECIFICATION Spec
INVARIANTS
    TypeOK
    OutputIsDelayedCapture
    LinearOutputIsAligned
    RenderIsContinuous
PROPERTY
    QueuedIsBuffered
