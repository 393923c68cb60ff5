--------------------------- MODULE AecStreamProofs ---------------------------
(***************************************************************************)
(* Called in the order of the streaming C API, the block processor never   *)
(* resets, starves or loses its estimate once the first frame is through,  *)
(* for all buffer sizes, filter lengths, delays and reports of a delay     *)
(* that a frame of three blocks fits into.                                 *)
(***************************************************************************)
EXTENDS AecStream, BlockProcessorProofs

\* A buffer whose delay in effect is the one it believes in, and no longer
\* than the ring.
Steady(b) ==
    /\ Good(b)
    /\ b.delay # Unset => ComputeDelay(b) = b.delay
    /\ ComputeDelay(b) <= LowRateSize

\* Where in a frame the calls are.  The first frame has two blocks; its first
\* capture block resets the buffer.
FrameInv ==
    /\ captureLeft \in 0 .. 3 /\ renderLeft \in 0 .. captureLeft
    /\ third \in BOOLEAN /\ settled \in BOOLEAN
    /\ settled => capture_properly_started_
    /\ ~ capture_properly_started_ =>
         captureLeft \in {0, 2} /\ (captureLeft = 0 => ~ third)
    /\ capture_properly_started_ /\ ~ settled => renderLeft = 0 /\ captureLeft <= 1

\* The render blocks that wait: those of this frame whose capture block is
\* still to come, and before the first capture block the one a reset leaves.
Waiting ==
    IF settled THEN captureLeft - renderLeft
    ELSE IF capture_properly_started_ THEN 0
    ELSE 1 + captureLeft - renderLeft

\* The inductive invariant of the stream, on top of the block processor's.
SInv ==
    /\ Steady(buf)
    /\ render_event_ = "none" /\ moved = FALSE
    /\ FrameInv
    /\ BufferLatency(buf) = Waiting

-----------------------------------------------------------------------------
(* The buffer                                                              *)

\* The default delay of the stream is one that every lemma on the buffer takes.
LEMMA StreamDefault ==
    /\ DefaultAllowed /\ DefaultIsBehind
    /\ DefaultDelay \in 1 .. MaxDelay /\ MaxDelay = LowRateSize
    /\ LowRateSize \in Nat
  BY SizeAssumption, StreamAssumption
  DEF DefaultAllowed, DefaultIsBehind, OffsetAllowed, MaxDelay, BlocksSize

\* A reset leaves a buffer whose delay is exact.
LEMMA ResetSteady ==
    ASSUME NEW b \in BufferType
    PROVE  Steady(Reset(b)) /\ BufferLatency(Reset(b)) = 1
  <1>1. /\ Good(Reset(b)) /\ BufferLatency(Reset(b)) = 1
        /\ InternalDelay(Reset(b)) \in 1 .. MaxDelay
        /\ Reset(b).delay # Unset => ComputeDelay(Reset(b)) = Reset(b).delay
    BY ResetGood, StreamDefault
  <1>3. ComputeDelay(Reset(b)) <= LowRateSize
    BY <1>1, StreamDefault DEF ComputeDelay
  <1> QED
    BY <1>1, <1>3 DEF Steady

\* A render block of a frame finds room in both rings.
LEMMA InsertSteady ==
    ASSUME NEW b, Steady(b), BufferLatency(b) <= 2
    PROVE  /\ ~ InsertOverruns(b)
           /\ Steady(Insert(b))
           /\ BufferLatency(Insert(b)) = BufferLatency(b) + 1
  <1> DEFINE c == IncrementWriteIndices(b)
  <1>0. /\ LowRateSize \in Nat /\ FilterLength \in Nat
        /\ LowRateSize >= 4 /\ FilterLength >= 3 /\ ~ UseExternalEstimator
        /\ BlocksSize = LowRateSize + FilterLength + 1
    BY SizeAssumption, StreamAssumption DEF BlocksSize
  <1>1. b \in BufferType /\ InLockstep(b) /\ ComputeDelay(b) <= LowRateSize
    BY DEF Steady, Good
  <1>2. /\ BufferLatency(b) \in 0 .. LowRateSize - 1
        /\ BufferLatency(b) = IF b.lr_read >= b.lr_write
                                THEN b.lr_read - b.lr_write
                                ELSE LowRateSize + b.lr_read - b.lr_write
        /\ InternalDelay(b) \in 0 .. BlocksSize - 1
        /\ InternalDelay(b) = IF b.b_write >= b.b_read
                                THEN b.b_write - b.b_read
                                ELSE BlocksSize + b.b_write - b.b_read
    BY <1>1, Distances
  <1>3. /\ b.lr_read \in 0 .. LowRateSize - 1 /\ b.lr_write \in 0 .. LowRateSize - 1
        /\ b.b_read \in 0 .. BlocksSize - 1 /\ b.b_write \in 0 .. BlocksSize - 1
    BY <1>1 DEF BufferType, Indices
  <1>4. InternalDelay(b) <= LowRateSize + 2
    BY <1>0, <1>1, <1>2 DEF ComputeDelay
  <1>5. /\ c.lr_read = b.lr_read /\ c.b_read = b.b_read
        /\ c.lr_write = DecIndex(b.lr_write, LowRateSize)
        /\ c.b_write = IncIndex(b.b_write, BlocksSize)
    BY <1>1 DEF IncrementWriteIndices, BufferType
  <1>6. ~ LowRateMeets(c)
    BY <1>0, <1>2, <1>3, <1>5 DEF LowRateMeets, DecIndex
  <1>7. ~ BlocksMeet(c)
    BY <1>0, <1>2, <1>3, <1>4, <1>5 DEF BlocksMeet, IncIndex
  <1>8. ~ InsertOverruns(b) /\ Insert(b) = c
    BY <1>0, <1>6, <1>7 DEF InsertOverruns, RenderOverrun, Insert, CountCall
  <1>9. /\ c.delay = b.delay
        /\ BufferLatency(c) = BufferLatency(b) + 1
        /\ InternalDelay(c) = InternalDelay(b) + 1
    BY <1>1, <1>6, <1>7, WriteFacts
  <1>10. ComputeDelay(c) = ComputeDelay(b)
    BY <1>0, <1>2, <1>9 DEF ComputeDelay
  <1>11. Good(c)
    BY <1>0, <1>8, InsertGood, StreamDefault DEF Steady
  <1> QED
    BY <1>8, <1>9, <1>10, <1>11 DEF Steady

\* A capture block reads a waiting render block, or starves when none waits;
\* three that wait are no excess.
LEMMA PrepareSteady ==
    ASSUME NEW b, Steady(b), BufferLatency(b) <= 3
    PROVE  LET c == PrepareCaptureProcessing(b)
           IN  /\ Steady(c)
               /\ BufferLatency(b) > 0 =>
                    /\ PrepareEvent(b) = "none"
                    /\ BufferLatency(c) = BufferLatency(b) - 1
               /\ BufferLatency(b) = 0 => BufferLatency(c) = 0
  <1> DEFINE c == PrepareCaptureProcessing(b)
             seen == DetectExcessRenderBlocks(b)
             latency == BufferLatency(b)
             distance == InternalDelay(b)
  <1>0. /\ LowRateSize \in Nat /\ MaxExcess \in Nat /\ MaxExcess >= 3
        /\ ~ UseExternalEstimator /\ Unset \notin Int
    BY SizeAssumption, StreamAssumption
  <1>1. /\ Good(b) /\ b \in BufferType /\ NotAhead(b)
        /\ b.delay # Unset => ComputeDelay(b) = b.delay
        /\ ComputeDelay(b) <= LowRateSize
    BY StreamDefault DEF Steady, Good
  <1>2. /\ latency \in Nat /\ distance \in Nat /\ distance >= latency
        /\ b.delay \in Nat \cup {Unset} /\ b.min_latency \in Nat
    BY <1>0, <1>1, Distances DEF NotAhead, BufferType, Indices
  <1>3. ~ ExcessDetected(b)
    BY <1>0, <1>2 DEF ExcessDetected, MinLatency, Smaller
  <1>4. LowRateMeets(b) <=> latency = 0
    BY <1>0, <1>1, Distances DEF LowRateMeets, BufferType, Indices
  <1>5. /\ Good(seen) /\ seen \in BufferType /\ InLockstep(seen)
        /\ BufferLatency(seen) = latency /\ InternalDelay(seen) = distance
        /\ seen.delay = b.delay
    BY <1>1, DetectFacts DEF Good
  <1>6. CountCall(b, -1) = b
    BY <1>0 DEF CountCall
  <1>7. Good(c)
    BY <1>0, <1>1, PrepareGood, StreamDefault
  <1>8. CASE latency > 0
    <2> DEFINE l == IncrementLowRateReadIndices(seen)
    <2>1. PrepareEvent(b) = "none"
      BY <1>2, <1>3, <1>4, <1>8 DEF PrepareEvent, RenderUnderrun
    <2>2. c = IncrementReadIndices(l)
      BY <1>6, <2>1 DEF PrepareCaptureProcessing
    <2>3. /\ l \in BufferType /\ l.delay = b.delay /\ InLockstep(l)
          /\ BufferLatency(l) = latency - 1 /\ InternalDelay(l) = distance
      BY <1>5, <1>8, LowRateReadFacts
    <2> HIDE DEF c, l, seen, latency, distance
    <2>4. /\ c.delay = b.delay /\ BufferLatency(c) = latency - 1
          /\ InternalDelay(c) = IF distance = 0 THEN 0 ELSE distance - 1
      BY <2>2, <2>3, ReadFacts
    <2>5. ComputeDelay(c) = ComputeDelay(b)
      BY <1>2, <1>8, <2>4 DEF ComputeDelay, latency, distance
    <2>6. Steady(c)
      BY <1>1, <1>7, <2>4, <2>5 DEF Steady
    <2> QED
      BY <1>2, <1>8, <2>1, <2>4, <2>6 DEF c, latency
  <1>9. CASE latency = 0
    <2> DEFINE r == IncrementReadIndices(seen)
    <2>1. PrepareEvent(b) = "underrun"
      BY <1>3, <1>4, <1>9 DEF PrepareEvent, RenderUnderrun
    <2>2. c = IF b.delay # Unset /\ b.delay > 0
                THEN [r EXCEPT !.delay = b.delay - 1] ELSE r
      BY <1>5, <1>6, <2>1 DEF PrepareCaptureProcessing, AfterUnderrun
    <2>3. /\ r \in BufferType /\ r.delay = b.delay /\ BufferLatency(r) = 0
          /\ InternalDelay(r) = IF distance = 0 THEN 0 ELSE distance - 1
      BY <1>5, <1>9, ReadFacts
    <2> HIDE DEF c, r, seen, latency, distance
    <2>4. /\ c.delay = IF b.delay # Unset /\ b.delay > 0
                         THEN b.delay - 1 ELSE b.delay
          /\ BufferLatency(c) = 0 /\ InternalDelay(c) = InternalDelay(r)
      BY <2>2, <2>3 DEF BufferType, BufferLatency, InternalDelay
    <2>5. /\ ComputeDelay(b) = distance
          /\ ComputeDelay(c) = IF distance = 0 THEN 0 ELSE distance - 1
      BY <1>2, <1>9, <2>3, <2>4 DEF ComputeDelay, latency, distance
    <2>6. c.delay # Unset => ComputeDelay(c) = c.delay
      BY <1>0, <1>1, <1>2, <2>4, <2>5
    <2>7. ComputeDelay(c) <= LowRateSize
      BY <1>0, <1>1, <1>2, <2>5
    <2>8. Steady(c)
      BY <1>7, <2>6, <2>7 DEF Steady
    <2> QED
      BY <1>9, <2>4, <2>8 DEF c, latency
  <1> QED
    BY <1>2, <1>8, <1>9

\* An estimate that fits into the ring is put into effect in full.
LEMMA AlignSteady ==
    ASSUME NEW b, Steady(b), BufferLatency(b) <= 2, NEW d \in Estimates
    PROVE  LET c == AlignFromDelay(b, d)
           IN  /\ Steady(c) /\ c.delay = d
               /\ BufferLatency(c) = BufferLatency(b)
  <1> DEFINE c == AlignFromDelay(b, d)
  <1>0. d \in Nat /\ d + 2 <= LowRateSize /\ LowRateSize \in Nat
    BY EstimatesAssumption, StreamAssumption, SizeAssumption
  <1>1. Good(b) /\ b \in BufferType /\ BufferLatency(b) \in Nat
    BY <1>0, Distances DEF Steady, Good
  <1>2. CASE b.delay = d
    BY <1>2 DEF AlignFromDelay, AlignmentChanges
  <1>3. CASE b.delay # d
    <2> DEFINE asked == [b EXCEPT !.delay = d]
               t == LimitedDelay(b, d)
    <2>1. /\ asked \in BufferType /\ asked.delay = d
          /\ BufferLatency(asked) = BufferLatency(b)
      BY <1>0, <1>1 DEF BufferType, BufferLatency
    <2>2. t = BufferLatency(b) + d /\ t \in 0 .. BlocksSize - 1
      BY <1>0, <1>1, SizeAssumption
      DEF LimitedDelay, Smaller, Larger, MaxDelay, BlocksSize
    <2>3. c = ApplyTotalDelay(asked, t)
      BY <1>3 DEF AlignFromDelay, AlignmentChanges
    <2> HIDE DEF asked, t, c
    <2>4. /\ InternalDelay(c) = t /\ BufferLatency(c) = BufferLatency(b)
          /\ c.delay = d
      BY <2>1, <2>2, <2>3, ApplyFacts
    <2>5. Good(c)
      BY <1>0, <1>1, AlignGood DEF c
    <2>6. ComputeDelay(c) = d
      BY <1>0, <1>1, <2>2, <2>4 DEF ComputeDelay
    <2> QED
      BY <1>0, <2>4, <2>5, <2>6 DEF Steady, c
  <1> QED
    BY <1>2, <1>3

-----------------------------------------------------------------------------
(* The stream                                                              *)

\* The stream is one of the orders of calls BlockProcessor allows.
THEOREM StreamUsesBlockProcessor == StreamSpec => Spec
  <1>1. StreamInit => Init
    BY DEF StreamInit
  <1>2. [StreamNext]_allVars => [Next]_vars
    <2> SUFFICES ASSUME [StreamNext]_allVars PROVE [Next]_vars
      OBVIOUS
    <2>1. CASE AEC_Process
      BY <2>1 DEF AEC_Process
    <2>2. CASE RenderBlock
      BY <2>2 DEF RenderBlock, Next
    <2>3. CASE CaptureBlock
      BY <2>3 DEF CaptureBlock, Next
    <2>4. ASSUME NEW blocks \in ExternalDelays, AEC_SetAudioBufferDelay(blocks)
          PROVE  Next
      BY <2>4 DEF AEC_SetAudioBufferDelay, Next
    <2>5. CASE UNCHANGED allVars
      BY <2>5 DEF allVars
    <2> QED
      BY <2>1, <2>2, <2>3, <2>4, <2>5 DEF StreamNext
  <1> QED
    BY <1>1, <1>2, PTL DEF StreamSpec, Spec

\* So the block processor's invariant holds in it.
LEMMA BlockInvariance == StreamSpec => []IInv
  <1>1. Spec => []IInv
    BY Inductive, StreamAssumption, StreamDefault
  <1> QED
    BY <1>1, StreamUsesBlockProcessor, PTL

\* The constructed buffer is steady, and between frames.
LEMMA InitSInv == StreamInit => SInv
  <1> SUFFICES ASSUME StreamInit PROVE SInv
    OBVIOUS
  <1> DEFINE zero == [lr_write |-> 0, lr_read |-> 0, b_write |-> 0,
                      b_read |-> 0, s_write |-> 0, s_read |-> 0,
                      delay |-> DefaultDelay, external |-> Unset,
                      min_latency |-> 0, excess_counter |-> 0, skew |-> 0]
  <1>1. zero \in BufferType
    BY SizeAssumption DEF BufferType, BlocksSize, Indices
  <1>2. buf = Reset(zero)
    BY DEF StreamInit, Init, Initial
  <1> HIDE DEF zero
  <1>3. Steady(buf) /\ BufferLatency(buf) = 1
    BY <1>1, <1>2, ResetSteady
  <1>4. /\ renderLeft = 0 /\ captureLeft = 0 /\ third = FALSE /\ settled = FALSE
        /\ capture_properly_started_ = FALSE
        /\ render_event_ = "none" /\ moved = FALSE
    BY DEF StreamInit, Init
  <1>5. FrameInv
    <2>1. captureLeft \in 0 .. 3 /\ renderLeft \in 0 .. captureLeft
      BY <1>4
    <2>2. third \in BOOLEAN /\ settled \in BOOLEAN
      BY <1>4
    <2>3. ~ settled /\ ~ capture_properly_started_ /\ ~ third /\ captureLeft = 0
      BY <1>4
    <2> QED
      BY <2>1, <2>2, <2>3 DEF FrameInv
  <1>6. Waiting = 1
    BY <1>4 DEF Waiting
  <1> QED
    BY <1>3, <1>4, <1>5, <1>6 DEF SInv

\* A new frame.
LEMMA FrameStep ==
    ASSUME IInv, SInv, AEC_Process PROVE SInv'
  <1>1. /\ buf' = buf /\ render_event_' = render_event_ /\ moved' = moved
        /\ capture_properly_started_' = capture_properly_started_
        /\ renderLeft = 0 /\ captureLeft = 0
        /\ renderLeft' = (IF third THEN 3 ELSE 2) /\ captureLeft' = renderLeft'
        /\ third' = ~ third /\ settled' = capture_properly_started_
    BY DEF AEC_Process, BetweenFrames, CaptureBlocks, vars
  <1>2. capture_properly_started_ \in BOOLEAN
    BY DEF IInv, TypeOK
  <1>3. ~ capture_properly_started_ => ~ third /\ ~ settled
    BY <1>1 DEF SInv, FrameInv
  <1>4. FrameInv'
    BY <1>1, <1>2, <1>3 DEF SInv, FrameInv
  <1>5. Waiting' = Waiting
    BY <1>1, <1>2, <1>3 DEF SInv, FrameInv, Waiting
  <1> QED
    BY <1>1, <1>4, <1>5 DEF SInv

\* A render block of it.
LEMMA RenderStep ==
    ASSUME SInv, RenderBlock PROVE SInv'
  <1>1. /\ renderLeft > 0 /\ renderLeft' = renderLeft - 1
        /\ UNCHANGED <<captureLeft, third, settled, capture_properly_started_>>
        /\ buf' = Insert(buf)
        /\ render_event_' = IF InsertOverruns(buf) THEN "overrun" ELSE "none"
        /\ moved' = (moved \/ InsertOverruns(buf))
    BY DEF RenderBlock, BufferRender
  <1>2. BufferLatency(buf) <= 2
    BY <1>1 DEF SInv, FrameInv, Waiting
  <1>3. /\ ~ InsertOverruns(buf) /\ Steady(buf')
        /\ BufferLatency(buf') = BufferLatency(buf) + 1
    BY <1>1, <1>2, InsertSteady DEF SInv
  <1>4. FrameInv'
    BY <1>1 DEF SInv, FrameInv
  <1>5. Waiting' = Waiting + 1
    BY <1>1 DEF SInv, FrameInv, Waiting
  <1> QED
    BY <1>1, <1>3, <1>4, <1>5 DEF SInv

\* What a capture block finds and leaves.
LEMMA CaptureFacts ==
    ASSUME IInv, SInv, CaptureBlock
    PROVE  /\ Steady(buf')
           /\ BufferLatency(buf') = IF settled THEN captureLeft - 1 ELSE 0
           /\ settled => Event = "none" /\ ~ ControllerReset
  <1>0. ~ UseExternalEstimator
    BY StreamAssumption
  <1>1. buf \in BufferType /\ Steady(buf)
    BY DEF SInv, Steady, Good
  <1>2. renderLeft = 0 /\ captureLeft \in 1 .. 3 /\ ProcessCapture
    BY DEF CaptureBlock, SInv, FrameInv
  <1>3. /\ Steady(Entered)
        /\ BufferLatency(Entered) = IF settled THEN captureLeft
                                    ELSE IF FirstCapture THEN 1 ELSE 0
    <2>1. CASE FirstCapture
      BY <1>1, <2>1, ResetSteady DEF Entered, FirstCapture, SInv, FrameInv
    <2>2. CASE ~ FirstCapture
      BY <1>1, <1>2, <2>2 DEF Entered, FirstCapture, SInv, FrameInv, Waiting
    <2> QED
      BY <2>1, <2>2
  <1>4. BufferLatency(Entered) \in 0 .. 3
    BY <1>2, <1>3
  <1>5. /\ Steady(Prepared)
        /\ BufferLatency(Prepared) = IF settled THEN captureLeft - 1 ELSE 0
        /\ settled => Event = "none"
    <2>1. LET c == PrepareCaptureProcessing(Entered)
          IN  /\ Steady(c)
              /\ BufferLatency(Entered) > 0 =>
                   /\ PrepareEvent(Entered) = "none"
                   /\ BufferLatency(c) = BufferLatency(Entered) - 1
              /\ BufferLatency(Entered) = 0 => BufferLatency(c) = 0
      BY <1>3, <1>4, PrepareSteady
    <2> QED
      BY <1>2, <1>3, <2>1 DEF Prepared, Event
  <1>6. PICK found \in GetDelay(IF ControllerReset THEN Unset ELSE estimate) :
          buf' = Aligned(found)
    BY <1>0, <1>2 DEF ProcessCapture
  <1>7. found \in Estimates \/ found = Unset
    BY <1>6 DEF GetDelay, IInv, TypeOK
  <1>8. BufferLatency(Prepared) \in 0 .. 2
    BY <1>2, <1>5
  <1>9. Steady(buf') /\ BufferLatency(buf') = BufferLatency(Prepared)
    <2>1. CASE found = Unset
      BY <1>0, <1>5, <1>6, <2>1 DEF Aligned
    <2>2. CASE found # Unset
      <3>1. buf' = AlignFromDelay(Prepared, found) /\ found \in Estimates
        BY <1>0, <1>6, <1>7, <2>2 DEF Aligned
      <3> QED
        BY <1>5, <1>8, <3>1, AlignSteady
    <2> QED
      BY <2>1, <2>2
  <1>10. settled => ~ ControllerReset
    BY <1>5 DEF ControllerReset, FirstCapture, SInv, FrameInv
  <1> QED
    BY <1>5, <1>9, <1>10

\* A capture block of the frame.
LEMMA CaptureStep ==
    ASSUME IInv, SInv, CaptureBlock PROVE SInv'
  <1>1. /\ renderLeft = 0 /\ captureLeft > 0 /\ captureLeft' = captureLeft - 1
        /\ UNCHANGED <<renderLeft, third, settled>>
        /\ capture_properly_started_' = TRUE
        /\ render_event_' = "none" /\ moved' = FALSE
    BY DEF CaptureBlock, ProcessCapture
  <1>2. /\ Steady(buf')
        /\ BufferLatency(buf') = IF settled THEN captureLeft - 1 ELSE 0
    BY CaptureFacts
  <1>3. FrameInv'
    BY <1>1 DEF SInv, FrameInv
  <1>4. Waiting' = IF settled THEN captureLeft - 1 ELSE 0
    BY <1>1 DEF SInv, FrameInv, Waiting
  <1> QED
    BY <1>1, <1>2, <1>3, <1>4 DEF SInv

\* A report of the audio buffer delay: it waits for a reset.
LEMMA ReportStep ==
    ASSUME SInv, NEW blocks \in ExternalDelays, AEC_SetAudioBufferDelay(blocks)
    PROVE  SInv'
  <1>1. blocks \in Int
    BY ExternalAssumption
  <1>2. buf' = [buf EXCEPT !.external = blocks] /\ buf \in BufferType
    BY DEF AEC_SetAudioBufferDelay, SetAudioBufferDelay_, SetAudioBufferDelay,
           SInv, Steady, Good
  <1>3. /\ buf' \in BufferType /\ buf'.delay = buf.delay
        /\ BufferLatency(buf') = BufferLatency(buf)
        /\ InternalDelay(buf') = InternalDelay(buf)
        /\ InLockstep(buf') <=> InLockstep(buf)
    BY <1>1, <1>2 DEF BufferType, BufferLatency, InternalDelay, InLockstep
  <1>4. Steady(buf')
    BY <1>3 DEF SInv, Steady, Good, NotAhead, NotExceeded, ComputeDelay
  <1>5. UNCHANGED <<capture_properly_started_, render_event_, moved, renderLeft,
                    captureLeft, third, settled>>
    BY DEF AEC_SetAudioBufferDelay, SetAudioBufferDelay_, frame
  <1> QED
    BY <1>3, <1>4, <1>5 DEF SInv, FrameInv, Waiting

\* The invariant of the stream is inductive.
LEMMA StreamInductive == StreamSpec => []SInv
  <1>1. IInv /\ SInv /\ [StreamNext]_allVars => SInv'
    <2> SUFFICES ASSUME IInv, SInv, [StreamNext]_allVars PROVE SInv'
      OBVIOUS
    <2>1. CASE UNCHANGED allVars
      BY <2>1
      DEF allVars, vars, frame, SInv, Steady, Good, InLockstep, NotAhead,
          NotExceeded, ComputeDelay, InternalDelay, BufferLatency, FrameInv, Waiting
    <2> QED
      BY <2>1, FrameStep, RenderStep, CaptureStep, ReportStep DEF StreamNext
  <1> QED
    BY <1>1, InitSInv, BlockInvariance, PTL DEF StreamSpec

-----------------------------------------------------------------------------
\* All variables of the stream keep their types.
THEOREM StreamTypes == StreamSpec => []StreamTypeOK
  <1>1. IInv /\ SInv => StreamTypeOK
    BY DEF IInv, SInv, FrameInv, StreamTypeOK
  <1> QED
    BY <1>1, BlockInvariance, StreamInductive, PTL

\* AEC_Process never makes the render delay buffer overrun, starve or report
\* excess render after its first frame.
THEOREM SmoothStream == StreamSpec => []StreamIsSmooth
  <1>1. SInv => StreamIsSmooth
    <2> SUFFICES ASSUME SInv PROVE StreamIsSmooth
      OBVIOUS
    <2>1. ASSUME settled, captureLeft > 0, renderLeft = 0 PROVE Event = "none"
      <3>1. Entered = buf /\ BufferLatency(buf) \in 1 .. 3
        BY <2>1 DEF Entered, FirstCapture, SInv, FrameInv, Waiting
      <3> QED
        BY <3>1, PrepareSteady DEF SInv, Event
    <2>2. BetweenFrames /\ capture_properly_started_ => BufferLatency(buf) = 0
      BY DEF BetweenFrames, SInv, FrameInv, Waiting
    <2> QED
      BY <2>1, <2>2 DEF StreamIsSmooth, SInv
  <1> QED
    BY <1>1, StreamInductive, PTL

\* The delay in effect is the estimate of the delay controller.
THEOREM AlignedStream == StreamSpec => []StreamIsAligned
  <1>1. IInv /\ SInv => StreamIsAligned
    BY DEF IInv, TypeOK, SInv, Steady, BufferFollowsEstimate, StreamIsAligned
  <1> QED
    BY <1>1, BlockInvariance, StreamInductive, PTL

\* No call of the streaming C API makes the controller forget its estimate.
THEOREM SurvivingEstimate == StreamSpec => EstimateSurvives
  <1>1. /\ IInv /\ SInv /\ [StreamNext]_allVars
        => [settled /\ estimate # Unset => estimate' # Unset]_allVars
    <2> SUFFICES ASSUME IInv, SInv, [StreamNext]_allVars,
                        settled, estimate # Unset, ~ UNCHANGED allVars
                 PROVE  estimate' # Unset
      OBVIOUS
    <2>1. CASE AEC_Process
      BY <2>1 DEF AEC_Process, vars
    <2>2. CASE RenderBlock
      BY <2>2 DEF RenderBlock, BufferRender
    <2>3. CASE CaptureBlock
      <3>1. ~ ControllerReset
        BY <2>3, CaptureFacts
      <3>0. ~ UseExternalEstimator /\ ProcessCapture
        BY <2>3, StreamAssumption DEF CaptureBlock
      <3>2. PICK found \in GetDelay(IF ControllerReset THEN Unset ELSE estimate) :
              estimate' = found
        BY <3>0 DEF ProcessCapture
      <3>3. ASSUME Unset \in Estimates PROVE FALSE
        <4>1. Unset \in Nat
          BY <3>3, EstimatesAssumption
        <4> QED
          BY <4>1, SizeAssumption
      <3> QED
        BY <3>1, <3>2, <3>3 DEF GetDelay
    <2>4. ASSUME NEW blocks \in ExternalDelays, AEC_SetAudioBufferDelay(blocks)
          PROVE  estimate' # Unset
      BY <2>4 DEF AEC_SetAudioBufferDelay, SetAudioBufferDelay_
    <2> QED
      BY <2>1, <2>2, <2>3, <2>4 DEF StreamNext
  <1> QED
    BY <1>1, BlockInvariance, StreamInductive, PTL DEF StreamSpec, EstimateSurvives
=============================================================================
