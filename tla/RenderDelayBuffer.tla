------------------------- MODULE RenderDelayBuffer -------------------------
(***************************************************************************)
(* aec3/render_delay_buffer.cc: the ring buffers of render blocks that the *)
(* capture side reads with a delay.  Every method is an operator from a    *)
(* buffer state (a record) to the next, so that BlockProcessor, its only   *)
(* caller, can run several of them in one handler.                         *)
(*                                                                         *)
(* lr is the downsampled buffer of the delay estimator, counted in blocks  *)
(* (every offset the code applies to it is one sub-block), b the blocks of *)
(* the echo remover, s its spectra; the FFT buffer moves with s.  lr and s *)
(* run downwards, b upwards.  Left out: the audio itself, the jitter       *)
(* counters (only logged) and the render activity flag.                    *)
(***************************************************************************)
EXTENDS Integers

CONSTANTS
    LowRateSize,          \* low_rate_.buffer.size() / sub_block_size_
    FilterLength,         \* config.filter.main.length_blocks
    DefaultDelay,         \* config.delay.default_delay
    DetectionInterval,    \* excess_render_detection_interval_blocks
    MaxExcess,            \* max_allowed_excess_render_blocks
    UseExternalEstimator, \* config.delay.use_external_delay_estimator
    Unset                 \* an empty absl::optional

\* The low-rate ring has 33 blocks and 24 more for each matched filter.
\* Validate lets a detection interval of 0 pass, which counts like one of 1.
ASSUME SizeAssumption ==
    /\ LowRateSize \in Nat \ {0, 1}
    /\ FilterLength \in Nat \ {0}
    /\ DefaultDelay \in Nat
    /\ DetectionInterval \in Nat \ {0}
    /\ MaxExcess \in Nat
    /\ UseExternalEstimator \in BOOLEAN
    /\ Unset \notin Int

\* GetRenderDelayBufferSize.
BlocksSize == LowRateSize + FilterLength + 1

\* The largest total delay that leaves the filter its own length of blocks.
MaxDelay == BlocksSize - 1 - FilterLength

Indices(size) == 0 .. size - 1
Smaller(i, j) == IF i < j THEN i ELSE j
Larger(i, j) == IF i > j THEN i ELSE j

-----------------------------------------------------------------------------
(* Ring buffer indices: block_buffer.h, and alike in its three siblings    *)

IncIndex(i, size) == IF i < size - 1 THEN i + 1 ELSE 0
DecIndex(i, size) == IF i > 0 THEN i - 1 ELSE size - 1

\* C's remainder takes the sign of the dividend: the index is below zero when
\* the offset is below -size - index.
OffsetIndex(i, offset, size) ==
    LET sum == size + i + offset
    IN  IF sum >= 0 THEN sum % size ELSE - ((- sum) % size)

\* What OffsetIndex asserts about an offset it is given.
OffsetAllowed(offset, size) == size >= offset

-----------------------------------------------------------------------------
(* What the indices mean                                                   *)

\* Render blocks the capture side has not yet passed to the delay estimator.
BufferLatency(buf) ==
    (LowRateSize + buf.lr_read - buf.lr_write) % LowRateSize

\* How far the echo remover reads behind the newest block.
InternalDelay(buf) ==
    IF buf.s_read >= buf.s_write
      THEN buf.s_read - buf.s_write
      ELSE BlocksSize + buf.s_read - buf.s_write

\* Delay(), which its callers see converted to size_t.
ComputeDelay(buf) == InternalDelay(buf) - BufferLatency(buf)

LowRateMeets(buf) == buf.lr_read = buf.lr_write
BlocksMeet(buf) == buf.b_read = buf.b_write

-----------------------------------------------------------------------------
(* Moving the indices                                                      *)

ApplyTotalDelay(buf, delay) ==
    [buf EXCEPT !.b_read = OffsetIndex(buf.b_write, - delay, BlocksSize),
                !.s_read = OffsetIndex(buf.s_write, delay, BlocksSize)]

\* Variant: the spectra are left behind.
BugIncrementWriteIndices(buf) ==
    [buf EXCEPT !.lr_write = DecIndex(@, LowRateSize),
                !.b_write = IncIndex(@, BlocksSize)]

IncrementWriteIndices(buf) ==
    [buf EXCEPT !.lr_write = DecIndex(@, LowRateSize),
                !.b_write = IncIndex(@, BlocksSize),
                !.s_write = DecIndex(@, BlocksSize)]

IncrementLowRateReadIndices(buf) ==
    [buf EXCEPT !.lr_read = DecIndex(@, LowRateSize)]

IncrementReadIndices(buf) ==
    IF BlocksMeet(buf)
      THEN buf
      ELSE [buf EXCEPT !.b_read = IncIndex(@, BlocksSize),
                       !.s_read = DecIndex(@, BlocksSize)]

-----------------------------------------------------------------------------
(* Reset                                                                   *)

\* Variant: no floor of one block.
BugFeasibleExternalDelay(ext) == Smaller(ext - 2, MaxDelay)

\* The external delay less its headroom of two blocks, at least one block.
FeasibleExternalDelay(ext) ==
    Smaller(IF ext <= 2 THEN 1 ELSE ext - 2, MaxDelay)

\* Variant: the delay last asked for survives the reset.
BugReset(buf) ==
    ApplyTotalDelay([buf EXCEPT !.min_latency = 0,
                                !.excess_counter = 0,
                                !.lr_read = IncIndex(buf.lr_write, LowRateSize)],
                    DefaultDelay)

Reset(buf) ==
    LET cleared == [buf EXCEPT !.min_latency = 0,
                               !.excess_counter = 0,
                               !.lr_read = IncIndex(buf.lr_write, LowRateSize)]
    IN  IF buf.external # Unset
          THEN LET set == ApplyTotalDelay(cleared,
                                          FeasibleExternalDelay(buf.external))
               IN  [set EXCEPT !.delay = ComputeDelay(set)]
          ELSE [ApplyTotalDelay(cleared, DefaultDelay) EXCEPT !.delay = Unset]

\* The constructor: zeroed indices, then Reset.
Initial ==
    Reset([lr_write |-> 0, lr_read |-> 0, b_write |-> 0, b_read |-> 0,
           s_write |-> 0, s_read |-> 0, delay |-> DefaultDelay,
           external |-> Unset, min_latency |-> 0, excess_counter |-> 0,
           skew |-> 0])

-----------------------------------------------------------------------------
(* Insert: a new render block                                              *)

\* render_call_counter_ - capture_call_counter_, which only the external
\* estimator's mode reads.
CountCall(buf, n) ==
    IF UseExternalEstimator THEN [buf EXCEPT !.skew = @ + n] ELSE buf

RenderOverrun(buf) == LowRateMeets(buf) \/ BlocksMeet(buf)

InsertOverruns(buf) == RenderOverrun(IncrementWriteIndices(buf))

Insert(buf) ==
    LET written == IncrementWriteIndices(CountCall(buf, 1))
    IN  IF InsertOverruns(buf) THEN Reset(written) ELSE written

-----------------------------------------------------------------------------
(* PrepareCaptureProcessing: one capture block                             *)

MinLatency(buf) == Smaller(buf.min_latency, BufferLatency(buf))

\* Variant: one capture too late.
BugIntervalEnds(buf) == buf.excess_counter >= DetectionInterval

\* The minimum latency is examined once every DetectionInterval captures.
IntervalEnds(buf) == buf.excess_counter + 1 >= DetectionInterval

\* Variant: only the latency of the moment is examined.
BugExcessDetected(buf) == IntervalEnds(buf) /\ BufferLatency(buf) > MaxExcess

ExcessDetected(buf) == IntervalEnds(buf) /\ MinLatency(buf) > MaxExcess

\* Variant: the minimum is not restarted at the end of an interval.
BugDetectExcessRenderBlocks(buf) ==
    [buf EXCEPT !.min_latency = MinLatency(buf),
                !.excess_counter = IF IntervalEnds(buf) THEN 0 ELSE @ + 1]

DetectExcessRenderBlocks(buf) ==
    IF IntervalEnds(buf)
      THEN [buf EXCEPT !.min_latency = BufferLatency(buf),
                       !.excess_counter = 0]
      ELSE [buf EXCEPT !.min_latency = MinLatency(buf),
                       !.excess_counter = @ + 1]

\* Low-rate read and write meet: nothing new to estimate the delay from.
RenderUnderrun(buf) == LowRateMeets(buf)

\* Variant: the delay is counted down, but the reading does not move on.
BugAfterUnderrun(buf) ==
    IF buf.delay # Unset /\ buf.delay > 0
      THEN [buf EXCEPT !.delay = @ - 1] ELSE buf

AfterUnderrun(buf) ==
    LET moved == IncrementReadIndices(buf)
    IN  IF buf.delay # Unset /\ buf.delay > 0
          THEN [moved EXCEPT !.delay = buf.delay - 1]
          ELSE moved

PrepareEvent(buf) ==
    IF ExcessDetected(buf) THEN "overrun"
    ELSE IF RenderUnderrun(buf) THEN "underrun"
    ELSE "none"

PrepareCaptureProcessing(buf) ==
    LET seen == DetectExcessRenderBlocks(CountCall(buf, -1))
    IN  CASE PrepareEvent(buf) = "overrun"  -> Reset(seen)
          [] PrepareEvent(buf) = "underrun" -> AfterUnderrun(seen)
          [] PrepareEvent(buf) = "none" ->
               IncrementReadIndices(IncrementLowRateReadIndices(seen))

-----------------------------------------------------------------------------
(* Alignment                                                               *)

\* Whether AlignFromDelay does anything: it compares with the delay it was
\* last asked for, not with the one in effect.
AlignmentChanges(buf, delay) == buf.delay # delay

\* Variant: the latency is forgotten.
BugLimitedDelay(buf, delay) == Smaller(MaxDelay, Larger(delay, 0))

\* MapDelayToTotalDelay and the limits of AlignFromDelay.
LimitedDelay(buf, delay) ==
    Smaller(MaxDelay, Larger(BufferLatency(buf) + delay, 0))

\* Variant: the delay asked for is not remembered.
BugAlignFromDelay(buf, delay) ==
    IF AlignmentChanges(buf, delay)
      THEN ApplyTotalDelay(buf, LimitedDelay(buf, delay))
      ELSE buf

AlignFromDelay(buf, delay) ==
    IF AlignmentChanges(buf, delay)
      THEN ApplyTotalDelay([buf EXCEPT !.delay = delay],
                           LimitedDelay(buf, delay))
      ELSE buf

\* The total delay the calls so far and the reported delay amount to.
ExternalTotalDelay(buf) == buf.skew + buf.external

AlignFromExternalDelay(buf) ==
    IF buf.external # Unset
      THEN ApplyTotalDelay(buf, ExternalTotalDelay(buf))
      ELSE buf

SetAudioBufferDelay(buf, blocks) == [buf EXCEPT !.external = blocks]

HasReceivedBufferDelay(buf) == buf.external # Unset

-----------------------------------------------------------------------------
(* What a buffer state promises, whatever calls led to it                  *)

BufferType ==
    [lr_write : Indices(LowRateSize), lr_read : Indices(LowRateSize),
     b_write : Indices(BlocksSize), b_read : Indices(BlocksSize),
     s_write : Indices(BlocksSize), s_read : Indices(BlocksSize),
     delay : Nat \cup {Unset}, external : Int \cup {Unset},
     min_latency : Indices(LowRateSize),
     excess_counter : Indices(DetectionInterval), skew : Int]

\* The echo remover's blocks and spectra are at the same distance.
InLockstep(buf) ==
    (buf.b_write - buf.b_read + BlocksSize) % BlocksSize = InternalDelay(buf)

\* The echo remover does not read ahead of the delay estimator.
NotAhead(buf) == InternalDelay(buf) >= BufferLatency(buf)

\* The delay in effect does not exceed the one asked for.
NotExceeded(buf) == buf.delay # Unset => ComputeDelay(buf) <= buf.delay
=============================================================================
