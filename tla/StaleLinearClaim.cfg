\* One recording, and directories that may refuse the linear output.
CONSTANTS
    Recordings = {m1}
    Frames = 3
    PollInterval = 2
    Percents = 3
    LinearFails = TRUE
    NoFile = NoFile
    NoRecording = NoRecording
SPECIFICATION Spec
INVARIANT
    ReportedLinearIsNew
