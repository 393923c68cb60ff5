\* Five frames hold two polls of the abort flag, two apart, and a rest; two
\* recordings let a run follow another one's result.
CONSTANTS
    Recordings = {m1, m2}
    Frames = 5
    PollInterval = 2
    Percents = 3
    LinearFails = TRUE
    NoFile = NoFile
    NoRecording = NoRecording
SPECIFICATION Spec
INVARIANTS
    CancelIsPrompt
    AbortWasAsked
    PlayableIsComplete
    ProgressIsCurrent
    RestIsClean
PROPERTY
    RunEnds
