# A formal model of the AEC3 port and its desktop tool

This directory specifies, in TLA+, the control logic of the echo canceller in
this repository: WebRTC's AEC3 (`src/AEC3-master`), the C API around it
(`src/AEC3-master/api`) and the C# window that uses it (`src/AecToolApp_2`).
The modules are model-checked with TLC on small instances, and the most
important safety properties are proved with TLAPS for every value of their
constants. Paths below are relative to `src/`; `aec3/` stands for
`AEC3-master/audio_processing/aec3/`.

## The system

Audio flows through five layers.

| Component | Code | State | Operations |
|---|---|---|---|
| Desktop tool | `AecToolApp_2/Form1.cs`, `NativeAec.cs` | busy and cancel flags, last output paths, last percentage, progress bar | start, cancel, progress callback, completion, play, close |
| File C API | `AEC3-master/api/aec_c_api.cc:297` | abort flag, file handles, frame counter, return code | `AEC_ProcessAudioFilesEx`: open, create, frame loop with polling, close |
| Streaming C API | `aec_c_api.cc:93-283` | one context with buffers and an `EchoCanceller3` | create, process one 10 ms frame, report a delay, metrics |
| Echo control | `aec3/echo_canceller3.cc` | render transfer queue, blockers, framers, fixed delay line, saturation flag | `AnalyzeRender` (render thread), `AnalyzeCapture`, `ProcessCapture` (capture thread), `SetAudioBufferDelay`, `GetMetrics` |
| Swap queue | `base/rtc_base/swap_queue.h` | ring of slots, atomic count, two private indices | `Insert` (producer), `Remove`, `Clear`, `SizeAtLeast` (consumer) |
| Framing | `aec3/frame_blocker.cc`, `block_framer.cc`, `block_delay_buffer.cc` | partial block, delay ring | cut 80-sample subframes into 64-sample blocks and paste them together |
| Block processor | `aec3/block_processor.cc` | "properly started" flags, pending render event, estimate | `BufferRender`, `ProcessCapture`, `SetAudioBufferDelay` |
| Render delay buffer | `aec3/render_delay_buffer.cc` | four rings with write and read positions, delay asked for, reported delay, latency statistics | `Insert`, `PrepareCaptureProcessing`, `AlignFromDelay`, `AlignFromExternalDelay`, `Reset` |
| Delay controller | `aec3/render_delay_controller.cc`, `echo_path_delay_estimator.cc`, `matched_filter_lag_aggregator.cc`, `clockdrift_detector.cc` | histogram of lags, delay with hysteresis, drift level | `GetDelay`, `Reset` |
| Echo remover | `aec3/echo_remover.cc`, `aec_state.cc`, `subtractor.cc`, `suppression_gain.cc` and helpers | what is believed of the echo path, sizes of the filters, counters of their update gains, phase of the suppressor; and the numbers | `ProcessCapture` per block |
| Metrics | `aec3/*_metrics.cc` | counters | update, report |

How they interact:

* The render thread calls `AnalyzeRender`, which puts a copy of the frame into
  the swap queue. Nothing else is shared with the capture thread.
* The capture thread calls `ProcessCapture`. It first drains the queue into
  the block processor (`BufferRender`), then cuts its own frame into blocks,
  processes each, and pastes the results together.
* The block processor writes render blocks into the delay buffer and moves its
  read positions for each capture block. It asks the delay controller for an
  estimate, aligns the buffer to it, and tells the echo remover, through an
  `EchoPathVariability`, how the path changed.
* The C API calls both sides on one thread, render first. The file API runs
  that loop on a worker thread; the window's thread writes the abort flag the
  loop polls and receives progress and completion as posted messages.

What is hard here: two threads on a lock-free queue whose indices step after
the atomic count; 80-sample frames against 64-sample blocks; four rings moved
by eight code paths in two directions; overruns, underruns, excess render and
estimates in any order; estimates that are believed although the buffer has
moved; a phase of the call that is kept in five places and five counters of
the same blocks, each reset on its own; cancellation, failure and process exit at any step of a file run. The
list with lines is under `hazards` in `PROJECT.json`.

What makes each component correct:

* Swap queue: no two threads in one slot, FIFO order, nothing lost or doubled.
* Framing: the output is the input later by a constant, both outputs alike.
* Render transfer: what was queued reaches the processor, in order, in time.
* Delay buffer: blocks and spectra in lockstep, the echo remover never ahead of
  the delay estimator, the delay never above what was asked for.
* Block processor: every jump of the read position is announced.
* Echo remover: its parts agree on the phase of the call and on what they
  counted, no filter learns from a saturated block or an outdated echo path,
  and evidence of an echo that is no longer there expires.
* Tool: only its own cancel aborts a run, cancel is prompt, what can be played
  is complete, nothing unfinished is left, every run ends.

## Modules

| Module | Models | Used by |
|---|---|---|
| `BoundedFifo` | the abstract queue: put, get, drop all | `SwapQueue`, `EchoCanceller3` (INSTANCE) |
| `SwapQueue` | `swap_queue.h`, one step per access to shared memory | |
| `SwapQueueProofs` | theorems about it | |
| `RenderDelayBuffer` | positions, counters and statistics of `render_delay_buffer.cc` as operators on a record `buf` | `BlockProcessor` |
| `BlockProcessor` | `block_processor.cc` over the delay buffer, calls in every order | `AecStream`, proofs |
| `BlockProcessorProofs` | theorems about it | |
| `DelayController` | the abstract controller: the delay follows the mode of a sliding window of lags | `DelayEstimation` (INSTANCE) |
| `DelayEstimation` | `render_delay_controller.cc` with the estimator, the lag aggregator and the clock drift detector | |
| `DelayEstimationProofs` | theorems about it | |
| `EchoCanceller3` | `echo_canceller3.cc`, the framing classes, over `BoundedFifo` | proofs |
| `EchoCanceller3Proofs` | theorems about it | |
| `AecStream` | `BlockProcessor` called in the order of the streaming C API | proofs |
| `AecStreamProofs` | theorems about it, on top of `BlockProcessorProofs` | |
| `InitialState` | the initial phase, a class of `aec_state.cc`, as operators | `AecState`, `EchoRemover` |
| `AecState` | `aec_state.cc`: filter delay, transparent mode, filter quality, their counters | proofs |
| `AecStateProofs` | theorems about it | |
| `EchoRemover` | `echo_remover.cc` with the sizes and update gains of the main and shadow filters, the phase of the suppressor and the filter analyzer | proofs |
| `EchoRemoverProofs` | theorems about it | |
| `AecFileJob` | `AEC_ProcessAudioFilesEx` with its posted messages | `AecTool` |
| `AecTool` | `Form1.cs` over the file job | proofs |
| `AecToolProofs` | theorems about the two together | |

The stacking follows the code: `EchoCanceller3` uses the queue through its
abstract specification, which `SwapQueue` is shown (by TLC and by proof) to
implement. Its blocks are the calls of `BlockProcessor`, of which `AecStream`
takes the order the C API produces. Each capture block that `BlockProcessor`
passes on is a step of `EchoRemover`, whose parameter `change` is the jump that
`JumpIsReported` announces, and inside it a step of `AecState`; the two share
`InitialState` and are composed by nothing else, for the remover reads of
`AecState` only the initial phase and numbers.

### State and code

`SwapQueue` has the five variables of the class (`num_elements`, the two
indices, `queue`) and the item each thread holds. `pcP` and `pcC` say where a
thread is in its call. `promised` remembers what the last `SizeAtLeast`
returned.

`RenderDelayBuffer` keeps, for each ring, a write and a read position:
`lr_*` for the downsampled buffer, `b_*` for the blocks, `s_*` for spectra and
FFTs (always moved together in the code). Blocks move upwards, the others
downwards, as in the source. `delay` is `delay_`, `external` is
`external_audio_buffer_delay_`. `skew` is the difference of the two call
counters, of which only the difference matters. The samples are left out.

`BlockProcessor` has the fields of `BlockProcessorImpl`; the delay controller
is the estimate it holds, which any capture call may replace by one of
`Estimates` and a reset forgets. `heard` records what the last capture call
told the echo remover; `moved` and `highRun` are history.

`DelayEstimation` has the fields of the four classes. A matched filter is the
environment: in a block it reports one of `ReliableLags` or nothing.
`delay_history_` and the histogram are as in the code; counters that nothing
here reads are left out, and `stability_counter_` is bounded just above its
limit. `entries` counts how many estimates the drift detector has seen. The
abstract `DelayController` has neither ring nor histogram: a window of the last
lags, of which a most frequent one is found. The ring, read from its oldest
slot and without the zeros it starts with, is that window. `BlockProcessor`
sees of all this an estimate that may come, change and go, which covers it.

`EchoCanceller3` counts audio in units of 16 samples (64 = 4, 80 = 5,
160 = 10). A unit is its position in its stream, so that a lost, repeated or
swapped stretch is visible; positions are counted modulo `Cycle`. The
insertions and removals of the transfer queue are atomic here.

`AecState` has one variable per class of `aec_state.cc` it models:
`phase` is `initial_state_`, and `delay_state_`, `transparent_state_` and
`filter_quality_state_` carry the fields of `FilterDelay`, `TransparentMode` and
`FilteringQualityAnalyzer`; `strong` is
`strong_not_saturated_render_blocks_`. One action, `Block`, is what a capture
block does: saturation, `HandleEchoPathChange` if there is one, `Update`, in that
order. What the block showed (activity, convergence, a consistent filter, the
delay the analyzer found) is chosen freely, but for the two facts of the code that
no filter is converged while all are diverged and that "sane" needs a delay
below five blocks. A counter that is only compared with a limit stops above it.
`clean` is history.

`EchoRemover` follows one capture channel through `ProcessCapture`. `main` and
`shadow` are the size fields of the two `AdaptiveFirFilter`s; the interpolated
size is computed in `float` and truncated, so a whole result may come out one
less, and the model allows both. `main_gain` and `shadow_gain` are the counters
of the two update gains, which decide whether a block may update the filter;
whether the excitation was poor or the filter misadjusted is chosen. `peak` is
the block of `peak_index` in the filter analyzer. `last`, `since`, `coincided`
and `early` are history. The counter `poor` starts at 1000
(`kPoorExcitationCounterInitial`) and stops at `Main`, the largest size it is
compared with. `last` keeps two numbers of an update: the partitions the gain was
computed for (`asked`) and those that were changed (`adapted`). On a ramp the
second is larger, because `Adapt` first lengthens the filter
(`adaptive_fir_filter.cc:614`) and then applies the gain to all of it.

`AecFileJob` keeps the abort flag, the status of each output file and the
position in the call; `AecTool` adds the fields of the form. `messages` is the
Windows message queue. Between two actions of the window's thread the worker
takes any number of steps. Closing the window ends the process (the worker is
a background thread); the action includes the next start, which finds the
files as they are.

Each module holds, before some of its definitions, a variant named `Bug...`:
the same definition with a plausible mistake. The variants are not used; each
is the form of a mutation under which a property of the runs must fail
(`mutants` in `PROJECT.json`).

## Runs

| Run | Question | Bounds |
|---|---|---|
| `swap_queue` | Do two threads over the atomic steps of the queue ever meet in a slot, disagree on its content, or see another queue than a FIFO? | 3 slots, 2 items: both threads inside calls on different slots with one more full or empty |
| `block_processor` | Does every order of calls keep the delay buffer aligned and the echo remover informed? | low-rate ring 4, filter 3, interval 3, threshold 1: overrun, underrun, excess and clipping are each a few calls away |
| `echo_canceller3` | Do both signals pass the queue, the cutting and the pasting whole, in order and in time? | 3 queued frames, a delay line of 3 units (shorter than a frame, so it wraps inside one), positions modulo 60 |
| `delay_estimation` | Does the controller find the frequent lag, keep the echo in view and keep its confidence, whatever is observed and reset? | 1 filter with 4 reliable lags, as many as a drift of three samples needs; a window of 3, thresholds 1 and 2, hysteresis 1 |
| `aec_stream` | Called in the C API's order, what does the block processor never have to cope with? | ring 8, threshold 4, three estimates, a reported delay |
| `aec_state` | Do the counts, the verdicts and the evidence on the echo path stay consistent, whatever the blocks show and whenever the delay changes? | limits of 0 to 3 blocks in the order of the code's seconds, one filter delay below five blocks and one above |
| `echo_remover` | Do filters, update gains, analyzer and suppressor follow delay changes and the end of the initial phase together? | a main filter that grows from 1 to 3, a shadow filter from 1 to 2, over 2 blocks; an initial phase of 3 blocks, so that a delay change meets every stage |
| `aec_tool` | Do start, cancel, close and failures at every step leave flags, files and buttons consistent? | 2 recordings, 5 frames, a poll every 2 frames, 3 percentages |

Bounds are enough in this sense: the rings wrap, each branch of each operator
is taken (TLC's coverage shows every action and disjunct), and the runs have no
bound on the number of calls. `Cycle` exceeds every distance between two
positions that are held at once. The default configuration (queue of 100
frames, ring of 153 blocks, filter of 13) has the same order of sizes; the
proofs cover it for every safety property of a run.

What the properties say, in the order of the runs:

* `NoSharedSlot`, `SizeIsALowerBound`, `IndicesAgree` and the refinement
  `IsBoundedFifo`: an `Insert` takes effect at its atomic add, a `Remove` at
  its swap.
* `ReadsBehindEstimator` (the value returned as `size_t` is never negative),
  `Lockstep`, `DelayIsNotExceeded`, `BufferFollowsEstimate`, `JumpIsReported`,
  `ExcessIsLasting`, `ExcessIsBounded`. `JumpIsReported` excepts a starved buffer
  that stands still, and a reset since the last capture block to a reported delay,
  which the estimate may happen to confirm; a delay that was reported earlier
  excuses nothing.
* `HistogramCounts`, `DelayCoversEcho`, `FrequentLagIsUsed`,
  `RefinedIsSignificant`, `DriftWasObserved`, and the refinement
  `IsDelayController`. The initial zeros of the ring are never counted, so the
  count of lag 0 is the number of zeros left less the window's size, never above
  zero, and lag 0 cannot win; the zeros of the drift history cannot make a drift because
  reliable lags start at 3.
* `OutputIsDelayedCapture`, `LinearOutputIsAligned`, `RenderIsContinuous`,
  and `QueuedIsBuffered` (liveness).
* `StreamIsSmooth` (with the latency of a frame), `StreamIsAligned`,
  `EstimateSurvives`. The last one also settles a comment: `aec_c_api.h:129`
  warns that repeated calls of `AEC_SetAudioBufferDelay` "keep resetting the
  delay estimate", which no call does.
  The run made one thing visible: the reset of the very first capture block
  drops all but one render block of the first frame, so the second capture
  block always starves; the stream is smooth from the second frame on.
* `CountsAgree`: four counters of the same blocks, reset at four places
  (`aec_state.cc:134-143`), show one number. `PhasesInOrder`: the initial
  phase, the use of the filter's own delay, the usable filter and the transparent
  mode come in the order the limits suggest, and no filter is used on a path that was
  declared transparent. `EvidenceExpires`: nothing keeps the transparent mode
  away for longer than `ActiveLimit` active blocks without a convergence, although
  `finite_erl` is a latch fed by a counter that another one clears.
* `PhasesAgree`: sizes of both filters and the suppressor are in one phase.
  Two exceptions are stated in it because the code has them: the block between the end of the initial
  phase and `ExitInitialState`, and a delay change that meets a pending
  transition, which `InitialState::Reset` leaves set, so that the new phase ends
  for the filters at once. `LearnsOnlyWhenReady`: a filter stands still until every
  partition it changes has seen render from after the last delay change. Two
  exceptions are in the property. A delay change together with a gain change leaves
  the counters of the main filter running. And the counters are compared with the
  length before the ramp's next step: when the ramp begins before the filter's
  full length of blocks has passed (after a pending transition, or with an initial
  phase shorter than the filter), the partitions just added may be changed from
  render that is older, and only those the gain was computed for are covered.
  `PeakIsInside`: the remembered peak lies in the filter, unless the second
  exception above has shrunk it.
* `CancelIsPrompt`, `AbortWasAsked`, `PlayableIsComplete`,
  `ProgressIsCurrent`, `RestIsClean`, and `RunEnds` (liveness).

### Runs that show a disagreement

| Run | What the code does | What is said |
|---|---|---|
| `external_claim` | the delay of the external estimator grows with every overrun past the asserted range | assertion `spectrum_buffer.h:41` |
| `linear_claim` | the linear framer is fed even when nobody takes its output | assertion `block_framer.cc:44` |
| `peak_claim` | a delay change in the block after the initial phase ended lets the filter grow at once and shrink again while the peak is kept | assertion `filter_analyzer.cc:119` |
| `stale_linear_claim` | a linear output of an earlier run is reported as this run's | comment `Form1.cs:17` |

Two smaller ones need no run: the comment `aec_c_api.h:129` above, and
`docs/技术细节.md:29`, by which a cancelled run leaves no partial file; the
fallback `linear.wav` in the working directory stays, which `RestIsClean` has as
its exception.

Every state module has a type invariant. Those of `AecState`, `EchoRemover`,
`AecStream` and `AecTool` are not in the runs, where the theorems replace them.

## Fairness

* `EchoCanceller3`: weak fairness of the capture thread as a whole. The audio
  device calls `ProcessCapture` every 10 ms, and a call goes on until it
  returns. The render thread needs none; it may stop, or never pause.
  `EmptyRenderQueue` then may loop for long, but the queue moves on.
* `AecTool`: weak fairness of the worker (the thread pool runs it) and of
  message handling (Windows delivers posted messages). No fairness for clicks.
* The other specifications have safety properties only and state none.

## Proofs

All theorems hold for every value of the constants under the assumptions that
the modules name: `QueueSizeAssumption`, `NoItemAssumption`,
`SizeAssumption`, `EstimatesAssumption`, `ExternalAssumption`,
`MaxSkewAssumption`, `FiltersAssumption`, `ThresholdsAssumption`,
`UnsetAssumption`, `InitialLimitAssumption`, `LimitsAssumption`,
`DelaysAssumption`, `FlagsAssumption`, `SizesAssumption`,
`ChangeBlocksAssumption`, `NamesAssumption`, `FramesAssumption`, `LinearAssumption`,
`CycleAssumption`, `StreamAssumption`. TLC evaluates these assumptions in
the runs. `LimitsAssumption` orders
only the two pairs of limits the arguments need and the code's constants satisfy,
`SizesAssumption` is what the configuration check ensures,
and `ChangeBlocksAssumption` is asserted in `adaptive_fir_filter.cc:491`.
`SizeAssumption` takes any default delay, but a detection interval of at least 1
(0 counts like 1). The order of the thresholds in `ThresholdsAssumption` is asserted
in `matched_filter_lag_aggregator.cc:28`.

The configuration check allows default delays of 0 to 5000 blocks
(`AEC3-master/api/echo_canceller3_config.cc:111`), and not with all of them is the
delay buffer correct. The theorems of `BlockProcessorProofs` therefore name what they
ask of it as a hypothesis. A default delay up to the size of the ring
(`OffsetAllowed(DefaultDelay, BlocksSize)`, the assertion of `OffsetIndex`) is enough
for all but one. `DelayNeverNegative` needs it to be at least 1 and less than the
ring; without that, `AskedDelayNeverNegative` says that the delay is not negative
while the buffer is set to an estimate or to a reported delay. Both hypotheses are
needed: `ZeroDefaultIsNegative` shows that with 0 the delay is -1 from the
constructor on, `LongDefaultLeavesRing` that with more than the ring the first read
position is negative. The default of `default_delay` is 5, the default ring has 167
blocks.

`StreamAssumption` holds of the default configuration, with which
`AEC_Create` builds the canceller (`aec_c_api.cc:213`): no external estimator, a
default delay of at least a block that lies in the low-rate ring, and room in the ring for a frame of three blocks behind the largest estimate
(153 blocks; the matched filters see no lag above 128).
`ThresholdsAssumption` lets the converged threshold reach the size of the window,
as the configuration does (`AEC3-master/api/echo_canceller3_config.cc:118-119`).
`CycleAssumption` only says that positions are counted modulo a number larger
than any distance between them.

`SwapQueueProofs`. The inductive invariant `IInv` is the conjunction of types,
`SizeIsALowerBound` and `IndicesAgree`. The latter says that the distance of
the indices, as they will be once each call in progress has stepped (`ReadAt`,
`WriteAt`), is the count. Taken without the calls in progress it is not even
true: the count changes before the index does. From it follow
`TypeCorrect`, `RaceFree` (equal indices with both threads in a swap would need
a count that is both below the size and above zero), `SizeIsSafe` and
`IndicesAlwaysAgree`. A second invariant (`Published`: published slots hold
items)
serves the refinement `SwapQueueIsAFifo`: each step maps to a put, a get, a
drop or a stutter of `BoundedFifo`.

`BlockProcessorProofs`. `Good(buf)` joins types, lockstep, "not ahead of the
estimator" and "delay not exceeded", with the facts about the rings that make
them inductive. One lemma per operator of the delay buffer shows that it
preserves `Good`, and `BelievedInv` says when `delay` may be trusted. "Not ahead"
is in `Good` only for a default delay inside the ring or a buffer that was set to a
delay asked for, since a reset to a default of 0 puts the reader ahead.
`IInv` is their conjunction with the types; `InitIInv` and one lemma per action
show that it is inductive; the theorems on the alignment follow. They assume that
the delay controller is in use (`~ UseExternalEstimator`); with the external
estimator the bounds do not hold, as `external_claim` shows. The excess detector is
another matter: it reads the low-rate ring only, and `ExcessLasts` and
`ExcessEnds` hold with either estimator. Their invariant `DetectionInv` asks of
the buffer only `LowRateType`, in which the positions of the echo remover are any
integers, and `DetectorInv` relates the run of captures with high latency to the
detector's counter. `LockstepWhileAllowed` says what the refuted assertion is worth:
with the external estimator indices and lockstep are safe as long as the total delay
passes the assertion of `OffsetIndex` in both its uses, with the delay and with its
negative. Modular arithmetic is replaced once, in
`RingFacts`, by case distinctions the solver can decide.

`DelayEstimationProofs`. `IInv` joins the types, the safety invariants of the run
and two facts that make them inductive: the ring holds reliable lags and zeros
only (`DataInv`), and the drift history holds as many real estimates as were
made and zeros behind them (`HistoryInv`). `CandidateIsMode` shows that the most
frequent lag exists (a bounded set of counts has a largest, by the well-founded
order of finite subsets), `Overwritten` that overwriting a slot moves one count,
so that the histogram stays the cardinalities of the ring. One lemma per handler
part (`AggregateStep`, `UseEstimateStep`, `UpdateDriftStep`, `AgreeStep`), one
per action. At a converged threshold that equals the window (250, which the
configuration admits) the histogram bounds every count by the threshold, and
`NeverRefined` follows: no candidate becomes significant, every delay stays coarse.

`ControllerRefined` is the refinement of `DelayController`: one step of the ring is
one append to the window or one append and the loss of its oldest lag. It
needs the stronger invariant `RInv`. `RingInv`: the zeros that are left are the
oldest slots, without which the window would have holes. `EmptyInv`: there is no
delay without a lag, because the controller decides by the one what the abstract
one decides by the other. `ExactInv`: a coarse estimate is followed to the block.
The code recomputes the delay in every block, also when no filter is reliable, which
must be a stutter of the abstract controller; with a coarse estimate there is no
hysteresis to keep the delay in place, only that it is exact already. `WindowOf` and the lemmas on
it (`SecondTurn`, `WindowIs` and those between) do the arithmetic of the
ring once; `Occurrences` of the abstract module is shown to be the histogram.

The same invariant gives the two facts on which the layer below relies:
`DelayFitsBuffer`, that no delay exceeds the blocks the matched filters reach
back, and `EstimateIsKept`, that only a reset loses the estimate, which
`BlockProcessor` builds into its `GetDelay`.

`ConfidenceIsKept` (only a reset that asks for it
loses confidence) and `DriftIsSticky` are action properties of that module that
are proved only.

`AecStateProofs`. `IInv` joins the types, `CountsAgree`, `PhasesInOrder`,
`EvidenceExpires` and what makes them inductive: each verdict held
at the last block follows from the counters as they are now. The
counters stop at different limits, so `CountsAgree` is carried by lemmas on `Shown`:
counting and then showing is showing and then counting. `EvidenceExpires` needs
that the two counts of blocks without a convergence keep their order as long as it matters,
which is where `NonConvergedLimit <= ActiveLimit` is used.

`EchoRemoverProofs`. `IInv` joins the types, the two state invariants and the
relations of the history to the counters: calls and good blocks of an update gain
never exceed the blocks since the last delay change, but for the coincidence
the property names. One lemma per operator (`UpdateSize`, `Prepared`, the gains)
and one per conjunct of the invariant. `RampInv` is what `LearnsOnlyWhenReady` needs
of the clock: the blocks that end an initial phase come after the delay change that
began it, so unless the exit was early a ramp begins later than `InitialLimit`
blocks after the change, by when a filter no longer than that has seen render in
every partition. The averages that `UpdateSize` chooses
from are bounded by the two sizes they lie between, a product of naturals the
solver is given in steps. `PeakInside` is an action property: `IInv` says
that a filter that does not grow by an early exit never shrinks.

`AecStreamProofs`. A stream is a behaviour of `BlockProcessor`
(`StreamUsesBlockProcessor`), so the invariant of that module holds of it, and
`SInv` adds what only the order of calls gives: the buffer is `Steady` (its delay
is the one it believes in), no event is pending, and its latency is `Waiting`,
the render blocks of the frame whose capture block is still to come. The
latency is what the invariant needs and no property of the buffer
alone gives: without it an overrun could not be excluded. `FrameInv` says where in
a frame the two first blocks of a stream differ from all later ones.

`EchoCanceller3Proofs`. A stretch of a signal is `Units(from, n)`; two stretches that
follow each other are one (`UnitsConcat`), a part of one is one (`UnitsSub`), and
whole turns of the position do not matter (`UnitsWrap`, from the arithmetic of
remainders in `Turns`). With these the cutting (`BlockedFacts`), the pasting
(`FramedFacts`) and the ring (`DelayFacts`) map stretches to stretches. `EInv` says
which: the queue continues what the render blocker holds (`RenderInv`); delay
line, capture blocker and framer hold the units before the next frame, without
a gap between them (`CaptureInv`). `AlignedLinear` assumes that the linear
output is always taken; `linear_claim` shows what happens otherwise.
`QueueIsUsedAsPromised` closes the gap between the two modules of the queue: every
step is a step of `BoundedFifo` or leaves the queue alone, so what `SwapQueue` is
proved to implement is what is used. `RenderIsConserved` is the balance of the
render side: what was accepted is what was buffered plus what the blocker and
the queue hold. `QueueMovesOn` says that a draining capture step takes the oldest
frame and nothing else moves one, which is `QueuedIsBuffered` but for fairness.

`AecToolProofs`. `IInv` joins types, what a call in progress implies about flags,
files and messages (`CallInv`), and one conjunct for each property
(`CancelInv`, `FilesInv`, `PlayInv`, `MessagesInv`). `CancelIsPrompt` needs
that the frames since the cancel are those since the last poll (`PollFacts`),
`ProgressIsCurrent` that a percentage only grows with the frame it is computed
from (`PercentFacts`). One lemma per action and conjunct. For `RunEnds` there are
`RunIsNeverStuck` (while a run goes on, the call is under way or its return is
among the messages) and `RunComesNearer`: `Left`, the steps the call has before it and
the messages posted, is a natural number that no step of a run raises, and every
step of the worker and every message handled lowers it.

Only model-checked: liveness (`QueuedIsBuffered`, `RunEnds`). The step from the
measures above to the conclusion needs that a fair action is enabled, and ENABLED is
out of the prover's reach; that step is TLC's.

## Not modelled

* Samples, spectra, coefficients and gains: matched filters, subtraction,
  suppression, comfort noise, FFT, filter banks, resampling. They are numerics.
* In the echo remover: the estimators of ERL, ERLE, reverberation and echo
  saturation, the dominant near-end detector, the ramps of the gain
  configurations, the partition that is constrained next, the choice and fading of the output.
  Only numbers depend on them, and no control of the parts modelled reads them.
* The matched filters, which report lags: a choice per block.
* `AnalyzeCapture`, `GetMetrics`, metrics, logging, JSON configuration.
* WAV chunk parsing and write errors; the file pickers, playback and the
  exceptions of a missing library in the window; deleting a file is assumed to
  succeed.
* Vendored libraries, build files, scripts and test programs. They are nearly
  all of the repository's lines: abseil and jsoncpp alone are most of them, so
  the share of all lines that is modelled is about one in a hundred, though the
  program's own control is covered. The vendored code is called for containers,
  locks and JSON only.

## Plan

Done, in this order: `SwapQueue` with refinement and proofs,
`RenderDelayBuffer` and `BlockProcessor` with proofs, `EchoCanceller3` with
framing, `AecStream`, `AecFileJob` and `AecTool`, `DelayEstimation` with its
abstract `DelayController` and proofs, `AecState` and `EchoRemover` with proofs,
proofs for the tool, the stream and the framing; the proof that the delay
estimation implements `DelayController`, the contracts between the layers
(queue, estimate, largest delay), the safety parts of both liveness properties,
and the excess detector and the lockstep for either estimator.

What could follow, in this order: the dominant near-end detector and the gain
ramps; call metrics (`api_call_jitter_metrics.cc`).
