--------------------------- MODULE BlockProcessor ---------------------------
(***************************************************************************)
(* aec3/block_processor.cc: render blocks arrive through BufferRender and  *)
(* capture blocks through ProcessCapture, in any order and at any pace.    *)
(* It drives the render delay buffer and the delay controller, and tells   *)
(* the echo remover how the echo path changed.                             *)
(*                                                                         *)
(* The delay controller is seen from here as the estimate it holds: after  *)
(* a Reset none, and from its first estimate on some delay, which any      *)
(* capture block may revise.                                               *)
(***************************************************************************)
EXTENDS RenderDelayBuffer

CONSTANTS
    Estimates,       \* delays (in blocks) the controller may find
    ExternalDelays,  \* delays (in blocks) SetAudioBufferDelay may report
    MaxSkew          \* bound on |render calls - capture calls|

ASSUME EstimatesAssumption == Estimates \subseteq Nat
ASSUME ExternalAssumption == ExternalDelays \subseteq Int
ASSUME MaxSkewAssumption == MaxSkew \in Nat

VARIABLES
    buf,                        \* render_buffer_
    render_properly_started_,
    capture_properly_started_,
    render_event_,              \* event of the last Insert, until a capture
    estimate,                   \* delay_controller_'s delay_
    heard,                      \* what the echo remover was last told
    moved,                      \* history: an Insert reset the buffer since then
    highRun                     \* history: captures in a row with high latency

vars == <<buf, render_properly_started_, capture_properly_started_,
          render_event_, estimate, heard, moved, highRun>>

Nothing == [change |-> "none", estimate |-> Unset, jumped |-> FALSE,
            stalled |-> FALSE, reported |-> FALSE, total |-> 0,
            excess |-> FALSE, run |-> 0]

Init ==
    /\ buf = Initial
    /\ render_properly_started_ = FALSE
    /\ capture_properly_started_ = FALSE
    /\ render_event_ = "none"
    /\ estimate = Unset
    /\ heard = Nothing
    /\ moved = FALSE
    /\ highRun = 0

-----------------------------------------------------------------------------
SkewBounded(b) == b.skew \in - MaxSkew .. MaxSkew

BufferRender ==
    /\ buf' = Insert(buf)
    /\ SkewBounded(buf')
    /\ render_event_' = IF InsertOverruns(buf) THEN "overrun" ELSE "none"
    /\ render_properly_started_' = TRUE
    /\ moved' = (moved \/ InsertOverruns(buf))
    /\ highRun' = IF InsertOverruns(buf) THEN 0 ELSE highRun
    /\ UNCHANGED <<capture_properly_started_, estimate, heard>>

SetAudioBufferDelay_(blocks) ==
    /\ buf' = SetAudioBufferDelay(buf, blocks)
    /\ UNCHANGED <<render_properly_started_, capture_properly_started_,
                   render_event_, estimate, heard, moved, highRun>>

-----------------------------------------------------------------------------
(* ProcessCapture.  Before the first render block it returns at once.      *)

FirstCapture == ~ capture_properly_started_

\* render_buffer_ when PrepareCaptureProcessing is called.
Entered == IF FirstCapture THEN Reset(buf) ELSE buf

Event == PrepareEvent(Entered)
Prepared == PrepareCaptureProcessing(Entered)

\* Variant: a reported delay resets the delay controller.
BugControllerReset ==
    \/ FirstCapture \/ render_event_ = "overrun" \/ Event = "underrun"
    \/ HasReceivedBufferDelay(buf)

\* The three places that reset the delay controller.
ControllerReset ==
    FirstCapture \/ render_event_ = "overrun" \/ Event = "underrun"

\* RenderDelayController::GetDelay, from the estimate it holds.
GetDelay(held) == {held} \cup Estimates

\* The echo remover is aligned by the controller's estimate, or by the
\* external delay when the controller is switched off.
Aligned(found) ==
    IF UseExternalEstimator THEN AlignFromExternalDelay(Prepared)
    ELSE IF found # Unset THEN AlignFromDelay(Prepared, found)
    ELSE Prepared

\* EchoPathVariability::delay_change: a new delay hides a buffer flush.
DelayChange(found) ==
    IF ~ UseExternalEstimator /\ found # Unset
         /\ AlignmentChanges(Prepared, found) THEN "new_delay"
    ELSE IF render_event_ = "overrun" THEN "flush"
    ELSE "none"

HighLatency == BufferLatency(Entered) > MaxExcess
Run == IF ~ HighLatency THEN 0 ELSE IF FirstCapture THEN 1 ELSE highRun + 1

ProcessCapture ==
    /\ render_properly_started_
    /\ \E found \in IF UseExternalEstimator THEN {Unset}
                    ELSE GetDelay(IF ControllerReset THEN Unset ELSE estimate) :
         /\ buf' = Aligned(found)
         /\ estimate' = found
         /\ heard' =
              [change   |-> DelayChange(found),
               estimate |-> found,
               jumped   |-> moved \/ FirstCapture
                              \/ buf'.b_read # IncIndex(buf.b_read, BlocksSize),
               stalled  |-> Event = "underrun" /\ BlocksMeet(Entered),
               reported |-> /\ moved \/ FirstCapture \/ Event = "overrun"
                            /\ HasReceivedBufferDelay(Prepared),
               total    |-> IF UseExternalEstimator
                                 /\ HasReceivedBufferDelay(Prepared)
                              THEN ExternalTotalDelay(Prepared) ELSE 0,
               excess   |-> ExcessDetected(Entered),
               run      |-> Run]
    /\ SkewBounded(buf')
    /\ capture_properly_started_' = TRUE
    /\ render_event_' = "none"
    /\ moved' = FALSE
    /\ highRun' = IF Event = "overrun" THEN 0 ELSE Run
    /\ UNCHANGED render_properly_started_

Next ==
    \/ BufferRender
    \/ ProcessCapture
    \/ \E blocks \in ExternalDelays : SetAudioBufferDelay_(blocks)

Spec == Init /\ [][Next]_vars

-----------------------------------------------------------------------------
TypeOK ==
    /\ buf \in BufferType
    /\ render_properly_started_ \in BOOLEAN
    /\ capture_properly_started_ \in BOOLEAN
    /\ render_event_ \in {"none", "overrun"}
    /\ estimate \in Estimates \cup {Unset}
    /\ moved \in BOOLEAN
    /\ highRun \in Nat

\* The echo remover never reads a block the delay estimator has not seen, so
\* Delay(), handed on as a size_t and shown in milliseconds by GetMetrics, is
\* never negative.  A reset leaves one unread block, so this takes a default
\* delay of at least one block, which Validate does not ask for
\* (echo_canceller3_config.cc:111).
ReadsBehindEstimator == NotAhead(buf)

\* Blocks, spectra and FFTs stay at one distance although they run in
\* opposite directions and are realigned, reset and starved.
Lockstep == InLockstep(buf)

\* The delay in effect is never above the one last asked for.
DelayIsNotExceeded == NotExceeded(buf)

\* Unless an Insert has since reset the buffer, it is set to the estimate the
\* controller holds.
BufferFollowsEstimate ==
    estimate # Unset /\ ~ moved => buf.delay = estimate

\* Whenever the read position jumps, for whatever reason (a realignment, an
\* overrun whose event a later Insert overwrote, an excess reset nobody
\* handles), and the controller has an estimate, the echo remover learns of a
\* change of the echo path in the same call.  Two exceptions: a starved buffer
\* that stands still, and a reset since the last capture to an externally
\* reported delay, which the estimate may happen to confirm.
JumpIsReported ==
    heard.jumped /\ heard.estimate # Unset
      => heard.change # "none" \/ heard.stalled \/ heard.reported

\* Excess render is acted on only when the latency was high at more than a
\* whole detection interval of captures in a row, ...
ExcessIsLasting == heard.excess => heard.run > DetectionInterval

\* ... and no excess survives two intervals of captures.
ExcessIsBounded == highRun < 2 * DetectionInterval

-----------------------------------------------------------------------------
(* A claim of the source that a run refutes                                *)

\* The assertion of OffsetIndex, for the delay of the external estimator.
ExternalOffsetAllowed == OffsetAllowed(heard.total, BlocksSize)
=============================================================================
