----------------------------- MODULE AecStream -----------------------------
(***************************************************************************)
(* The streaming use of echo control that api/aec_c_api.cc makes: for each *)
(* 10 ms frame AEC_Process calls AnalyzeRender and then ProcessCapture on  *)
(* the same thread, so EmptyRenderQueue finds exactly this one frame.  At  *)
(* the level of blocks: all render blocks of a frame, then as many capture *)
(* blocks, two and three of them in turn (160 samples against 64).         *)
(*                                                                         *)
(* BlockProcessor must cope with calls in any order; this module asks what *)
(* it never has to cope with when it is called like this.                  *)
(***************************************************************************)
EXTENDS BlockProcessor

\* What the default configuration, which AEC_Create uses, makes sure of: the
\* three blocks of a frame fit into the filter and the ring and are no excess,
\* the delay to begin with is positive and lies in the ring, and no matched
\* filter reaches the last two blocks of it.
ASSUME StreamAssumption ==
    /\ ~ UseExternalEstimator
    /\ LowRateSize >= 4 /\ FilterLength >= 3 /\ MaxExcess >= 3
    /\ DefaultDelay \in 1 .. LowRateSize
    /\ \A d \in Estimates : d + 2 <= LowRateSize

VARIABLES
    renderLeft, captureLeft,  \* blocks of this frame still to be passed on
    third,                    \* whether the next frame completes a third block
    settled                   \* history: the first frame is behind us

frame == <<renderLeft, captureLeft, third, settled>>
allVars == <<vars, frame>>

StreamInit ==
    /\ Init
    /\ renderLeft = 0 /\ captureLeft = 0
    /\ third = FALSE /\ settled = FALSE

BetweenFrames == renderLeft = 0 /\ captureLeft = 0

\* Variant: the capture side forgets the block that remains.
BugCaptureBlocks == 2

\* A capture frame gives as many blocks as a render frame: both blockers start
\* empty and get the same lengths.
CaptureBlocks == IF third THEN 3 ELSE 2

AEC_Process ==
    /\ BetweenFrames
    /\ renderLeft' = IF third THEN 3 ELSE 2
    /\ captureLeft' = CaptureBlocks
    /\ third' = ~ third
    /\ settled' = capture_properly_started_
    /\ UNCHANGED vars

RenderBlock ==
    /\ renderLeft > 0
    /\ BufferRender
    /\ renderLeft' = renderLeft - 1
    /\ UNCHANGED <<captureLeft, third, settled>>

CaptureBlock ==
    /\ renderLeft = 0 /\ captureLeft > 0
    /\ ProcessCapture
    /\ captureLeft' = captureLeft - 1
    /\ UNCHANGED <<renderLeft, third, settled>>

AEC_SetAudioBufferDelay(blocks) ==
    /\ BetweenFrames
    /\ blocks >= 0
    /\ SetAudioBufferDelay_(blocks)
    /\ UNCHANGED frame

StreamNext ==
    \/ AEC_Process \/ RenderBlock \/ CaptureBlock
    \/ \E blocks \in ExternalDelays : AEC_SetAudioBufferDelay(blocks)

StreamSpec == StreamInit /\ [][StreamNext]_allVars

-----------------------------------------------------------------------------
StreamTypeOK ==
    /\ TypeOK
    /\ renderLeft \in 0 .. 3 /\ captureLeft \in 0 .. 3
    /\ {third, settled} \subseteq BOOLEAN

\* Nothing is reset or starved once the first frame is through: no overrun, no
\* underrun, no excess render, whatever the estimates, and the delay estimator
\* has caught up whenever a call returns.  (In the first frame the reset of the
\* first capture block drops all but one of the render blocks, so its second
\* capture block always runs into an underrun.)
StreamIsSmooth ==
    /\ render_event_ # "overrun"
    /\ settled /\ captureLeft > 0 /\ renderLeft = 0 => Event = "none"
    /\ BetweenFrames /\ capture_properly_started_ => BufferLatency(buf) = 0

\* An estimate, once found after the first frame, is never lost again.
EstimateSurvives == [][settled /\ estimate # Unset => estimate' # Unset]_allVars

\* The delay in effect is the controller's estimate as soon as there is one.
\* (In general calls it may be less: underruns and clipping take from it.)
StreamIsAligned == settled /\ estimate # Unset => ComputeDelay(buf) = estimate

=============================================================================
