--------------------------- MODULE EchoCanceller3 ---------------------------
(***************************************************************************)
(* aec3/echo_canceller3.cc with its framing helpers.  The render thread    *)
(* puts 10 ms frames into the transfer queue (AnalyzeRender).  The capture *)
(* thread (ProcessCapture) first drains the queue, cutting the frames into *)
(* blocks for the block processor, and then cuts its own frame into blocks *)
(* and pastes the processed blocks together to an output frame.            *)
(*                                                                         *)
(* Audio is counted in units of 16 samples, the common divisor of all the  *)
(* lengths.  A unit is the position it has in its stream, modulo Cycle;    *)
(* what the block processor does to a block leaves its position alone, and *)
(* the zeros a buffer starts with are the positions before the first.      *)
(***************************************************************************)
EXTENDS Integers, SequencesExt

CONSTANTS
    QueueSize,    \* kRenderTransferQueueSizeFrames
    CaptureDelay, \* config.delay.fixed_capture_delay_samples, in units
    LinearSkipped,\* whether callers may leave out the linear output
    Cycle,        \* bound: positions are counted modulo Cycle
    NoFrame       \* content of a queue slot that was never filled

Block == 4          \* kBlockSize
SubFrame == 5       \* kSubFrameLength
Frame == 2 * SubFrame

ASSUME CycleAssumption ==
    /\ QueueSize \in Nat \ {0} /\ CaptureDelay \in Nat
    /\ LinearSkipped \in BOOLEAN
    /\ Cycle \in Nat /\ Cycle % Frame = 0
    /\ Cycle > Frame * (QueueSize + 1) /\ Cycle > Frame + Block + CaptureDelay

VARIABLES
    \* the render thread
    written,                   \* position of the next render frame
    render_transfer_queue_,    \* frames, each as its first position
    \* the capture thread
    pc,                        \* between calls, or in EmptyRenderQueue
    render_queue_output_frame_,
    render_blocker_,
    buffered,                  \* history: units given to BufferRender
    render_blocks,             \* the blocks of the last frame drained
    captured,                  \* position of the next capture frame
    block_delay_buffer_,       \* [buf, last_insert]
    capture_blocker_,
    output_framer_,
    linear_output_framer_,
    out, linear_out            \* the frames the last call returned

Queue == INSTANCE BoundedFifo WITH
            Capacity <- QueueSize, Items <- 0 .. Cycle - 1, NoItem <- NoFrame,
            fifo <- render_transfer_queue_, taken <- render_queue_output_frame_

capturing == <<captured, block_delay_buffer_, capture_blocker_, output_framer_,
               linear_output_framer_, out, linear_out>>
rendering == <<render_queue_output_frame_, render_blocker_, buffered,
               render_blocks>>
vars == <<written, render_transfer_queue_, pc, rendering, capturing>>

Units(from, n) == [k \in 1 .. n |-> (from + k - 1) % Cycle]
SubFrameOf(frame, i) == SubSeq(frame, i * SubFrame + 1, (i + 1) * SubFrame)

-----------------------------------------------------------------------------
(* FrameBlocker and BlockFramer: one channel of one band                   *)

\* Variant: what does not fill a block is dropped.
BugInsertSubFrameAndExtractBlock(buffer, sub) ==
    [block |-> SubSeq(buffer \o sub, 1, Block), buffer |-> <<>>]

InsertSubFrameAndExtractBlock(buffer, sub) ==
    LET all == buffer \o sub
    IN  [block |-> SubSeq(all, 1, Block),
         buffer |-> SubSeq(all, Block + 1, Len(all))]

IsBlockAvailable(buffer) == Len(buffer) = Block

InsertBlockAndExtractSubFrame(buffer, block) ==
    LET all == buffer \o block
    IN  [sub |-> SubSeq(all, 1, SubFrame),
         buffer |-> SubSeq(all, SubFrame + 1, Len(all))]

InsertBlock(buffer, block) == block \o buffer

-----------------------------------------------------------------------------
(* BlockDelayBuffer: a ring that swaps each unit with the one that was put *)
(* there CaptureDelay units before                                         *)

\* The ring's content, oldest first, and the frame behind it.
Line(delay, frame) ==
    [k \in 1 .. CaptureDelay |->
        delay.buf[((delay.last_insert + k - 1) % CaptureDelay) + 1]] \o frame

\* Variant: every frame is inserted at the start of the ring.
BugNextInsert(delay) == 0

NextInsert(delay) == (delay.last_insert + Frame) % CaptureDelay

DelaySignal(delay, frame) ==
    IF CaptureDelay = 0 THEN [delay |-> delay, frame |-> frame]
    ELSE LET line == Line(delay, frame)
             Kept(i) == line[Frame + 1 + ((i - delay.last_insert - Frame)
                                            % CaptureDelay)]
         IN  [delay |-> [buf |-> [i \in 1 .. CaptureDelay |-> Kept(i - 1)],
                         last_insert |-> NextInsert(delay)],
              frame |-> SubSeq(line, 1, Frame)]

-----------------------------------------------------------------------------
Init ==
    /\ written = 0
    /\ render_transfer_queue_ = <<>>
    /\ pc = "idle"
    /\ render_queue_output_frame_ = NoFrame
    /\ render_blocker_ = <<>>
    /\ buffered = 0
    /\ render_blocks = <<>>
    /\ captured = 0
    /\ block_delay_buffer_ =
         [buf |-> Units(- CaptureDelay, CaptureDelay), last_insert |-> 0]
    /\ capture_blocker_ = <<>>
    /\ output_framer_ = Units(- CaptureDelay - Block, Block)
    /\ linear_output_framer_ = Units(- CaptureDelay - Block, Block)
    /\ out = Units(- CaptureDelay - Block - Frame, Frame)
    /\ linear_out = out

-----------------------------------------------------------------------------
(* The render thread: AnalyzeRender, RenderWriter::Insert                  *)

\* Variant: a full queue takes one more frame.
BugAnalyzeRender ==
    /\ render_transfer_queue_' = Append(render_transfer_queue_, written)
    /\ written' = (written + Frame) % Cycle
    /\ UNCHANGED <<pc, rendering, capturing>>

\* A frame that finds the queue full is dropped; nobody is told.
AnalyzeRender ==
    /\ IF Len(render_transfer_queue_) < QueueSize
         THEN /\ Queue!Put(written)
              /\ written' = (written + Frame) % Cycle
         ELSE UNCHANGED <<render_transfer_queue_, render_queue_output_frame_,
                          written>>
    /\ UNCHANGED <<pc, render_blocker_, buffered, render_blocks, capturing>>

-----------------------------------------------------------------------------
(* The capture thread: ProcessCapture                                      *)

\* The call begins; EmptyRenderQueue follows.
ProcessCapture ==
    /\ pc = "idle"
    /\ pc' = "draining"
    /\ UNCHANGED <<written, render_transfer_queue_, rendering, capturing>>

\* The blocks of a frame and what stays in the blocker: one for each subframe,
\* and one more when the rest fills it.
Blocked(blocker, frame) ==
    LET first == InsertSubFrameAndExtractBlock(blocker, SubFrameOf(frame, 0))
        second == InsertSubFrameAndExtractBlock(first.buffer,
                                                SubFrameOf(frame, 1))
        two == <<first.block, second.block>>
    IN  IF IsBlockAvailable(second.buffer)
          THEN [blocks |-> Append(two, second.buffer), buffer |-> <<>>]
          ELSE [blocks |-> two, buffer |-> second.buffer]

\* EmptyRenderQueue, one frame: BufferRenderFrameContent for its subframes and
\* BufferRemainingRenderFrameContent.
EmptyRenderQueue ==
    /\ pc = "draining"
    /\ Queue!Get
    /\ LET cut == Blocked(render_blocker_,
                          Units(render_queue_output_frame_', Frame))
       IN  /\ render_blocker_' = cut.buffer
           /\ render_blocks' = cut.blocks
           /\ buffered' = (buffered + Block * Len(cut.blocks)) % Cycle
    /\ UNCHANGED <<written, pc, capturing>>

\* Variant: a queue that still holds a frame passes for empty.
BugRenderQueueEmpty == Len(render_transfer_queue_) <= 1

RenderQueueEmpty == render_transfer_queue_ = <<>>

\* What a framer makes of the blocks of a frame: a subframe for each of the
\* first two, and the third, if there is one, is inserted alone.
Framed(framer, blocks) ==
    LET first == InsertBlockAndExtractSubFrame(framer, blocks[1])
        second == InsertBlockAndExtractSubFrame(first.buffer, blocks[2])
    IN  [frame |-> first.sub \o second.sub,
         buffer |-> IF Len(blocks) = 3
                      THEN InsertBlock(second.buffer, blocks[3])
                      ELSE second.buffer]

\* Variant: the remaining block overtakes the two before it.
BugLinearFramed(blocks, wanted) ==
    Framed(linear_output_framer_,
           IF Len(blocks) = 3 THEN <<blocks[3], blocks[1], blocks[2]>>
                              ELSE blocks)

\* Without a linear output only the remaining block reaches its framer.
LinearFramed(blocks, wanted) ==
    IF wanted THEN Framed(linear_output_framer_, blocks)
    ELSE [frame |-> linear_out,
          buffer |-> IF Len(blocks) = 3
                       THEN InsertBlock(linear_output_framer_, blocks[3])
                       ELSE linear_output_framer_]

\* The rest of the call, once EmptyRenderQueue found the queue empty.
ProcessCaptureFrame ==
    /\ pc = "draining"
    /\ RenderQueueEmpty
    /\ \E wanted \in IF LinearSkipped THEN BOOLEAN ELSE {TRUE} :
         LET delayed == DelaySignal(block_delay_buffer_, Units(captured, Frame))
             cut == Blocked(capture_blocker_, delayed.frame)
             pasted == Framed(output_framer_, cut.blocks)
             linear == LinearFramed(cut.blocks, wanted)
         IN  /\ block_delay_buffer_' = delayed.delay
             /\ capture_blocker_' = cut.buffer
             /\ output_framer_' = pasted.buffer
             /\ out' = pasted.frame
             /\ linear_output_framer_' = linear.buffer
             /\ linear_out' = linear.frame
    /\ captured' = (captured + Frame) % Cycle
    /\ pc' = "idle"
    /\ UNCHANGED <<written, render_transfer_queue_, rendering>>

Capture == ProcessCapture \/ EmptyRenderQueue \/ ProcessCaptureFrame

Next == AnalyzeRender \/ Capture

\* The audio device calls ProcessCapture every 10 ms, and each call goes on.
Spec == Init /\ [][Next]_vars /\ WF_vars(Capture)

-----------------------------------------------------------------------------
\* Between calls a blocker or framer holds a whole number of units up to a
\* block; positions stay in the bound.
TypeOK ==
    /\ pc \in {"idle", "draining"}
    /\ {written, captured, buffered} \subseteq 0 .. Cycle - 1
    /\ {Len(render_blocker_), Len(capture_blocker_),
        Len(output_framer_)} \subseteq 0 .. Block
    /\ Len(render_transfer_queue_) <= QueueSize

\* The output is the captured signal, without a gap, a repetition or a swap,
\* later by one block and the configured delay.
OutputIsDelayedCapture ==
    out = Units(captured - Frame - Block - CaptureDelay, Frame)

\* The linear output is the same stretch of time as the output.
LinearOutputIsAligned == linear_out = out

\* The block processor gets the queued render signal in order and whole: what
\* the last frame's blocks held, and the blocker's rest after them.
RenderIsContinuous ==
    /\ \A k \in 1 .. Len(render_blocks) :
         render_blocks[k]
           = Units(buffered - Block * (Len(render_blocks) - k + 1), Block)
    /\ render_blocker_ = Units(buffered, Len(render_blocker_))

\* A render frame that was queued reaches the block processor in the end, also
\* when the render thread never pauses.
QueuedIsBuffered ==
    \A frame \in {f \in 0 .. Cycle - 1 : f % Frame = 0} :
        frame \in ToSet(render_transfer_queue_)
            ~> frame \notin ToSet(render_transfer_queue_)

-----------------------------------------------------------------------------
(* A claim of the source that a run refutes                                *)

\* The linear framer is never asked to hold more than a block, whichever of
\* the two ProcessCapture overloads the caller uses.
LinearFramerFits == Len(linear_output_framer_) <= Block
=============================================================================
