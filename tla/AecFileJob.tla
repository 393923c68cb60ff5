----------------------------- MODULE AecFileJob -----------------------------
(***************************************************************************)
(* AEC_ProcessAudioFilesEx of api/aec_c_api.cc, run on a worker thread: it *)
(* opens two recordings, creates the output and the linear output, and     *)
(* processes frame by frame, polling an abort flag that another thread     *)
(* writes.  What its callers learn of a run are the messages it posts (the *)
(* progress callback and the return value) and the files it leaves.        *)
(*                                                                         *)
(* A file is "absent"; "partial" (created, and without all the frames of   *)
(* the recordings); "complete"; or "killed" (partial when its process      *)
(* ended).  The samples in it are left out, and so are short reads and     *)
(* failing writes, whose results the code ignores.                         *)
(***************************************************************************)
EXTENDS Integers, Sequences

CONSTANTS
    Recordings,     \* microphone recordings, each with outputs of its own
    Frames,         \* usable_frames
    PollInterval,   \* frames between two polls of the abort flag
    Percents,       \* steps of the progress display
    LinearFails,    \* whether creating the linear output may fail
    NoFile, NoRecording

ASSUME FramesAssumption ==
    Frames \in Nat /\ PollInterval \in Nat \ {0} /\ Percents \in Nat \ {0}
ASSUME LinearAssumption == LinearFails \in BOOLEAN

VARIABLES
    abort_flag,   \* g_abort_flag
    files,        \* the output files
    job,          \* the recording that is processed, or NoRecording
    pc,           \* where the native call is
    i,            \* frames processed
    rc,           \* the return code of the last call so far
    linear,       \* the file behind its h_linear, or NoFile
    last_percent, \* _lastPercent of the callback
    messages,     \* posted to the caller's thread, oldest first
    late          \* history: frames processed since the flag was set

native == <<job, pc, i, rc, linear, last_percent, messages, late>>

Out(r) == <<r, "out">>
Linear(r) == <<r, "linear">>
Fallback == <<NoRecording, "linear.wav">>
Fallback2 == <<NoRecording, "linear_new.wav">>
Files == (Recordings \X {"out", "linear"}) \cup {Fallback, Fallback2}

ASSUME NamesAssumption == NoRecording \notin Recordings /\ NoFile \notin Files

JobInit ==
    /\ abort_flag = 0
    /\ files = [f \in Files |-> "absent"]
    /\ job = NoRecording
    /\ pc = "off"
    /\ i = 0
    /\ rc = "OK"
    /\ linear = NoFile
    /\ last_percent = -1
    /\ messages = <<>>
    /\ late = 0

-----------------------------------------------------------------------------
\* The caller's thread starts the call.
Call(r) ==
    /\ job' = r
    /\ pc' = "open"
    /\ i' = 0
    /\ rc' = "OK"
    /\ linear' = NoFile
    /\ late' = 0

\* The recordings are opened and their formats compared; the caller checked
\* both before, but the files may have changed since.
OpenRecordings ==
    /\ pc = "open"
    /\ \/ pc' = "create" /\ UNCHANGED rc
       \/ pc' = "return" /\ rc' = "FAILED"
    /\ UNCHANGED <<abort_flag, files, job, i, linear, last_percent, messages,
                   late>>

CreateOutput ==
    /\ pc = "create"
    /\ \/ /\ files' = [files EXCEPT ![Out(job)] = "partial"]
          /\ pc' = "linear"
          /\ UNCHANGED rc
       \/ /\ pc' = "return" /\ rc' = "FAILED"
          /\ UNCHANGED files
    /\ UNCHANGED <<abort_flag, job, i, linear, last_percent, messages, late>>

\* Where the linear output may go: next to the output, else to the working
\* directory, else nowhere.
LinearTargets ==
    IF LinearFails
      THEN {Linear(job), NoFile,
            IF files[Fallback] = "absent" THEN Fallback ELSE Fallback2}
      ELSE {Linear(job)}

\* Also AEC_Create and the frame buffers, which may fail.
CreateLinear ==
    /\ pc = "linear"
    /\ linear' \in LinearTargets
    /\ files' = IF linear' = NoFile THEN files
                ELSE [files EXCEPT ![linear'] = "partial"]
    /\ \/ pc' = "loop" /\ UNCHANGED rc
       \/ pc' = "close" /\ rc' = "FAILED"
    /\ UNCHANGED <<abort_flag, job, i, last_percent, messages, late>>

-----------------------------------------------------------------------------
\* Variant: the flag is looked at before the first frame only.
BugPolls == i = 0

Polls == i % PollInterval = 0

More == i < Frames

Aborts ==
    /\ pc = "loop"
    /\ More /\ Polls /\ abort_flag # 0
    /\ rc' = "ABORTED"
    /\ pc' = "close"
    /\ UNCHANGED <<abort_flag, files, job, i, linear, last_percent, messages,
                   late>>

Continues ==
    /\ pc = "loop"
    /\ More /\ ~ (Polls /\ abort_flag # 0)
    /\ pc' = "frame"
    /\ UNCHANGED <<abort_flag, files, job, i, rc, linear, last_percent,
                   messages, late>>

Percent(n) == (n * Percents) \div Frames

\* Variant: every frame posts its progress.
BugProgress(n) == <<[kind |-> "progress", percent |-> Percent(n)]>>

\* OnNativeProgress: one message per percent.
Progress(n) ==
    IF Percent(n) = last_percent THEN <<>>
    ELSE <<[kind |-> "progress", percent |-> Percent(n)]>>

\* Neither reading an open recording nor processing it reports a failure.
ProcessFrame ==
    /\ pc = "frame"
    /\ i' = i + 1
    /\ pc' = "loop"
    /\ messages' = messages \o Progress(i + 1)
    /\ last_percent' = Percent(i + 1)
    /\ late' = late + abort_flag
    /\ UNCHANGED <<abort_flag, files, job, rc, linear>>

LastFrame ==
    /\ pc = "loop"
    /\ ~ More
    /\ pc' = "close"
    /\ UNCHANGED <<abort_flag, files, job, i, rc, linear, last_percent,
                   messages, late>>

\* CloseWavs: wav_write_close completes the headers, whatever was written.
CloseWavs ==
    /\ pc = "close"
    /\ files' = IF rc = "OK"
                  THEN [f \in Files |-> IF f \in {Out(job), linear}
                                         THEN "complete" ELSE files[f]]
                  ELSE files
    /\ pc' = "return"
    /\ UNCHANGED <<abort_flag, job, i, rc, linear, last_percent, messages,
                   late>>

\* Variant: the return overtakes the progress posted before it.
BugPosted(message) == <<message>> \o messages

Posted(message) == Append(messages, message)

Return ==
    /\ pc = "return"
    /\ messages' = Posted([kind |-> "done", rc |-> rc])
    /\ pc' = "off" /\ i' = 0 /\ late' = 0
    /\ UNCHANGED <<abort_flag, files, job, rc, linear, last_percent>>

Native == OpenRecordings \/ CreateOutput \/ CreateLinear \/ Aborts
            \/ Continues \/ ProcessFrame \/ LastFrame \/ CloseWavs \/ Return

-----------------------------------------------------------------------------
JobTypeOK ==
    /\ abort_flag \in {0, 1}
    /\ files \in [Files -> {"absent", "partial", "complete", "killed"}]
    /\ job \in Recordings \cup {NoRecording}
    /\ pc \in {"off", "open", "create", "linear", "loop", "frame", "close",
               "return"}
    /\ i \in 0 .. Frames
    /\ rc \in {"OK", "FAILED", "ABORTED"}
    /\ linear \in Files \cup {NoFile}
    /\ last_percent \in -1 .. Percents
    /\ late \in Nat
=============================================================================
