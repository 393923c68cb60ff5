------------------------------ MODULE AecTool ------------------------------
(***************************************************************************)
(* The window AecToolApp_2/Form1.cs over the native job: the user starts,  *)
(* cancels and closes; the native thread posts its progress and its return *)
(* into the message queue of the UI thread, which handles one message or   *)
(* one click at a time.  Closing the window ends the process and with it   *)
(* the worker thread, wherever it is; the next start finds its files.      *)
(***************************************************************************)
EXTENDS AecFileJob

VARIABLES
    _busy,
    _cancelRequested,
    playOut,        \* btnPlayOut.Enabled
    _lastOutPath,   \* the recording whose output it names, or NoRecording
    _lastLinearPath,\* the same for the linear output
    shown           \* the percentage the progress bar shows

ui == <<_busy, _cancelRequested, playOut, _lastOutPath, _lastLinearPath, shown>>
vars == <<abort_flag, files, native, ui>>

ToolInit ==
    /\ _busy = FALSE
    /\ _cancelRequested = FALSE
    /\ playOut = TRUE
    /\ _lastOutPath = NoRecording
    /\ _lastLinearPath = NoRecording
    /\ shown = 0

Init == JobInit /\ ToolInit

-----------------------------------------------------------------------------
\* Variant: the flag of the run before stays set.
BugResetCancel == abort_flag

ResetCancel == 0

\* Variant: the last result stays playable while the next one is written.
BugPlayWhileBusy == playOut

PlayWhileBusy == FALSE

\* btnProcess_Click up to its await.
StartClick(r) ==
    /\ ~ _busy
    /\ _busy' = TRUE
    /\ _cancelRequested' = FALSE
    /\ playOut' = PlayWhileBusy
    /\ last_percent' = -1
    /\ shown' = 0
    /\ abort_flag' = ResetCancel
    /\ Call(r)
    /\ UNCHANGED <<files, messages, _lastOutPath, _lastLinearPath>>

\* btnCancel_Click.
CancelClick ==
    /\ _busy /\ ~ _cancelRequested
    /\ _cancelRequested' = TRUE
    /\ abort_flag' = 1
    /\ UNCHANGED <<files, native, _busy, playOut, _lastOutPath, _lastLinearPath,
                   shown>>

\* The action the progress callback posted.
HandleProgress ==
    /\ messages # <<>> /\ Head(messages).kind = "progress"
    /\ shown' = Head(messages).percent
    /\ messages' = Tail(messages)
    /\ UNCHANGED <<abort_flag, files, job, pc, i, rc, linear, last_percent,
                   late, _busy, _cancelRequested, playOut, _lastOutPath,
                   _lastLinearPath>>

\* Variant: the linear output is left.
BugDiscardPartialOutputs == [files EXCEPT ![Out(job)] = "absent"]

DiscardPartialOutputs ==
    [files EXCEPT ![Out(job)] = "absent", ![Linear(job)] = "absent"]

\* The path is reported if a file is there.
LinearReported == IF files[Linear(job)] # "absent" THEN job ELSE NoRecording

\* Variant: the buttons are only given back after a success.
BugBusyAfter(outcome) == outcome # "OK"

BusyAfter(outcome) == FALSE

\* btnProcess_Click from its await on.
HandleDone ==
    /\ messages # <<>> /\ Head(messages).kind = "done"
    /\ IF Head(messages).rc = "OK"
         THEN /\ _lastOutPath' = job
              /\ _lastLinearPath' = LinearReported
              /\ playOut' = TRUE
              /\ shown' = Percents
              /\ UNCHANGED files
         ELSE /\ files' = DiscardPartialOutputs
              /\ UNCHANGED <<_lastOutPath, _lastLinearPath, playOut, shown>>
    /\ _busy' = BusyAfter(Head(messages).rc)
    /\ job' = NoRecording
    /\ messages' = Tail(messages)
    /\ UNCHANGED <<abort_flag, pc, i, rc, linear, last_percent, late,
                   _cancelRequested>>

\* The window is closed, during a run or not, and the tool started again.
CloseAndReopen ==
    /\ abort_flag' = 0
    /\ job' = NoRecording /\ pc' = "off" /\ i' = 0 /\ rc' = "OK"
    /\ linear' = NoFile /\ last_percent' = -1 /\ messages' = <<>> /\ late' = 0
    /\ _busy' = FALSE /\ _cancelRequested' = FALSE /\ playOut' = TRUE
    /\ _lastOutPath' = NoRecording /\ _lastLinearPath' = NoRecording
    /\ shown' = 0
    /\ files' = [f \in Files |->
                    IF files[f] = "partial" THEN "killed" ELSE files[f]]

Worker == Native /\ UNCHANGED ui
Messages == HandleProgress \/ HandleDone

Next ==
    \/ \E r \in Recordings : StartClick(r)
    \/ CancelClick \/ CloseAndReopen
    \/ Worker \/ Messages

\* The operating system runs the worker thread, and Windows delivers messages.
Spec == Init /\ [][Next]_vars /\ WF_vars(Worker) /\ WF_vars(Messages)

-----------------------------------------------------------------------------
ToolTypeOK ==
    /\ JobTypeOK
    /\ {_busy, _cancelRequested, playOut} \subseteq BOOLEAN
    /\ {_lastOutPath, _lastLinearPath} \subseteq Recordings \cup {NoRecording}
    /\ shown \in 0 .. Percents

\* A cancel is obeyed within one poll interval: no more frames than that are
\* processed once the flag is set.
CancelIsPrompt == late <= PollInterval

\* A run is only aborted by a click that was made during this very run.
AbortWasAsked == rc = "ABORTED" /\ _busy => _cancelRequested

\* What the play button would play is a complete result.
PlayableIsComplete ==
    playOut /\ _lastOutPath # NoRecording
      => files[Out(_lastOutPath)] = "complete"

\* Progress is only shown for the run that is going on, and never goes back.
ProgressIsCurrent ==
    \A k \in DOMAIN messages :
        messages[k].kind = "progress" =>
            /\ _busy
            /\ shown <= messages[k].percent
            /\ \A m \in 1 .. k - 1 : messages[m].kind = "progress"
                                       /\ messages[m].percent < messages[k].percent

\* Between runs no unfinished output lies next to a recording, unless the
\* process ended before it could be removed.
RestIsClean ==
    ~ _busy => \A f \in Files \ {Fallback, Fallback2} : files[f] # "partial"

\* A run, cancelled or not, ends and gives the buttons back.
RunEnds == _busy ~> ~ _busy

-----------------------------------------------------------------------------
(* A claim of a comment that a run refutes                                 *)

\* The reported linear output is one of the most recent successful run.
ReportedLinearIsNew ==
    ~ _busy /\ rc = "OK" /\ _lastLinearPath # NoRecording
      => linear = Linear(_lastLinearPath)
=============================================================================
