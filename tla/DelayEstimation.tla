--------------------------- MODULE DelayEstimation ---------------------------
(***************************************************************************)
(* The render delay controller: render_delay_controller.cc with the        *)
(* estimator, the lag aggregator and the clock drift detector it owns.     *)
(*                                                                         *)
(* The matched filters are the environment: for each capture block the     *)
(* most accurate of their reliable, updated lags, or none.  Lags are in    *)
(* downsampled samples.  The counters of blocks since the last change and  *)
(* update of the estimate, which nothing here reads, are left out.         *)
(***************************************************************************)
EXTENDS Integers, Sequences, FiniteSets

CONSTANTS
    NumFilters, FilterSize, Shift,  \* of the matched filters, their lags
    LowEdge, HighEdge,              \* peaks this near to an end are unreliable
    HistorySize,          \* histogram_data_.size()
    Initial, Converged,   \* delay_selection_thresholds
    ConsistentLimit,      \* kNumBlocksPerSecondBy2
    StableLimit,          \* estimates in a row that end a clock drift
    DownSampling, Headroom, Hysteresis, BlockSize,
    Unset                 \* an empty optional

ASSUME FiltersAssumption ==
    /\ NumFilters \in Nat
    /\ {FilterSize, Shift, DownSampling, BlockSize} \subseteq Nat \ {0}
    /\ {LowEdge, HighEdge, Headroom, Hysteresis} \subseteq Nat
    /\ LowEdge >= 2
\* Validate limits the thresholds to 1 .. 250, the length of the history; that
\* they are in order is asserted by the aggregator (its line 28).
ASSUME ThresholdsAssumption ==
    /\ {HistorySize, ConsistentLimit, StableLimit} \subseteq Nat \ {0}
    /\ Initial \in Nat /\ Converged \in Nat
    /\ Initial <= Converged /\ Converged <= HistorySize
ASSUME UnsetAssumption == Unset \notin Int

VARIABLES
    \* MatchedFilterLagAggregator
    histogram_, histogram_data_, histogram_data_index_,
    significant_candidate_found_,
    \* EchoPathDelayEstimator
    old_aggregated_lag_, consistent_estimate_counter_,
    \* ClockdriftDetector
    level_, stability_counter_, delay_history_,
    \* RenderDelayControllerImpl
    delay_samples_,   \* the last estimate: its lag, or Unset
    last_delay_estimate_quality_,
    delay_,
    entries           \* history: estimates in delay_history_ and before, up to 4

aggregator == <<histogram_, histogram_data_, histogram_data_index_,
                significant_candidate_found_>>
drift == <<level_, stability_counter_, delay_history_, entries>>
vars == <<aggregator, old_aggregated_lag_, consistent_estimate_counter_, drift,
          delay_samples_, last_delay_estimate_quality_, delay_>>

MaxFilterLag == NumFilters * Shift + FilterSize
Lags == 0 .. MaxFilterLag
Slots == 0 .. HistorySize - 1

\* Variant: a peak at the very start of a filter passes for reliable.
BugReliableLags ==
    {n * Shift + peak : n \in 0 .. NumFilters - 1,
                        peak \in 1 .. FilterSize - HighEdge - 1}

\* The lags a matched filter may report as reliable.
ReliableLags ==
    {n * Shift + peak : n \in 0 .. NumFilters - 1,
                        peak \in LowEdge + 1 .. FilterSize - HighEdge - 1}

Init ==
    /\ histogram_ = [lag \in Lags |-> 0]
    /\ histogram_data_ = [k \in Slots |-> 0]
    /\ histogram_data_index_ = 0
    /\ significant_candidate_found_ = FALSE
    /\ old_aggregated_lag_ = Unset
    /\ consistent_estimate_counter_ = 0
    /\ level_ = "none"
    /\ stability_counter_ = 0
    /\ delay_history_ = <<0, 0, 0>>
    /\ delay_samples_ = Unset
    /\ last_delay_estimate_quality_ = "coarse"
    /\ delay_ = Unset
    /\ entries = 0

-----------------------------------------------------------------------------
(* MatchedFilterLagAggregator::Aggregate, of the lag the filters prefer    *)

\* Variant: the lag that leaves the window keeps its count.
BugCounted(best) == [histogram_ EXCEPT ![best] = @ + 1]

\* The lag that leaves the window loses a count, the new one gains one.
Counted(best) ==
    LET less == [histogram_ EXCEPT
                     ![histogram_data_[histogram_data_index_]] = @ - 1]
    IN  [less EXCEPT ![best] = @ + 1]

\* The first of the most frequent lags.
Candidate(counts) ==
    CHOOSE lag \in Lags :
        /\ \A other \in Lags : counts[other] <= counts[lag]
        /\ \A other \in 0 .. lag - 1 : counts[other] < counts[lag]

Significant(count) == significant_candidate_found_ \/ count > Converged

Quality == IF significant_candidate_found_' THEN "refined" ELSE "coarse"

\* Variant: a candidate found significant once is only returned before.
BugAggregated(candidate, count) ==
    IF (count > Converged \/ count > Initial) /\ ~ Significant(count)
      THEN candidate ELSE Unset

\* What Aggregate returns, given the count of the candidate.
Aggregated(candidate, count) ==
    IF \/ count > Converged
       \/ count > Initial /\ ~ Significant(count)
      THEN candidate ELSE Unset

-----------------------------------------------------------------------------
(* ClockdriftDetector::Update, of a refined lag                            *)

Back(k, lag) == delay_history_[k] - lag

\* Two estimates in a row moved by one sample, or by two and back by one.
ProbableDrift(lag, sign) ==
    <<Back(1, lag), Back(2, lag)>> \in {<<sign, 2 * sign>>, <<2 * sign, sign>>}

Drift(lag) == \E sign \in {-1, 1} :
                ProbableDrift(lag, sign) /\ Back(3, lag) = 3 * sign

Level(lag) ==
    IF Drift(lag) THEN "verified"
    ELSE IF level_ = "none" /\ \E sign \in {-1, 1} : ProbableDrift(lag, sign)
      THEN "probable"
    ELSE level_

\* The counter is only compared with its limit and is bounded just above it.
UpdateDrift(lag) ==
    IF lag = delay_history_[1]
      THEN /\ stability_counter_' = IF stability_counter_ > StableLimit
                                      THEN stability_counter_
                                      ELSE stability_counter_ + 1
           /\ level_' = IF stability_counter_' > StableLimit
                          THEN "none" ELSE level_
           /\ UNCHANGED <<delay_history_, entries>>
      ELSE /\ stability_counter_' = 0
           /\ level_' = Level(lag)
           /\ delay_history_' = <<lag, delay_history_[1], delay_history_[2]>>
           /\ entries' = IF entries < 4 THEN entries + 1 ELSE entries

-----------------------------------------------------------------------------
(* RenderDelayControllerImpl                                               *)

\* The blocks a lag asks for.
Blocks(lag) ==
    LET samples == lag * DownSampling - Headroom
    IN  IF samples < 0 THEN 0 ELSE samples \div BlockSize

\* Variant: the hysteresis holds in both directions.
BugComputeBufferDelay(lag, limit) ==
    IF /\ delay_ # Unset
       /\ Blocks(lag) <= delay_ + limit /\ delay_ <= Blocks(lag) + limit
      THEN delay_ ELSE Blocks(lag)

ComputeBufferDelay(lag, limit) ==
    IF delay_ # Unset /\ Blocks(lag) > delay_ /\ Blocks(lag) <= delay_ + limit
      THEN delay_ ELSE Blocks(lag)

\* The quality of the estimate in use: an estimate that stays keeps its own.
UsedQuality(lag) == IF lag = Unset THEN last_delay_estimate_quality_ ELSE Quality

UseEstimate(lag) ==
    /\ delay_samples_' = IF lag = Unset THEN delay_samples_ ELSE lag
    /\ IF delay_samples_' = Unset
         THEN UNCHANGED <<delay_, last_delay_estimate_quality_>>
         ELSE /\ delay_' = ComputeBufferDelay(delay_samples_',
                             IF /\ last_delay_estimate_quality_ = "refined"
                                /\ UsedQuality(lag) = "refined"
                               THEN Hysteresis ELSE 0)
              /\ last_delay_estimate_quality_' = UsedQuality(lag)

\* EchoPathDelayEstimator::EstimateDelay: after half a second of the same lag
\* the matched filters start anew, and so does the count.
Agree(lag) ==
    LET count == IF lag # Unset /\ lag = old_aggregated_lag_
                   THEN consistent_estimate_counter_ + 1 ELSE 0
    IN  IF count > ConsistentLimit
          THEN old_aggregated_lag_' = Unset /\ consistent_estimate_counter_' = 0
          ELSE old_aggregated_lag_' = lag /\ consistent_estimate_counter_' = count

\* A capture block in which a matched filter is reliable.
GetDelay(best) ==
    LET counts == Counted(best)
        candidate == Candidate(counts)
        lag == Aggregated(candidate, counts[candidate])
    IN  /\ histogram_' = counts
        /\ histogram_data_' = [histogram_data_ EXCEPT
                                   ![histogram_data_index_] = best]
        /\ histogram_data_index_' = (histogram_data_index_ + 1) % HistorySize
        /\ significant_candidate_found_' = Significant(counts[candidate])
        /\ IF lag # Unset /\ Quality = "refined"
             THEN UpdateDrift(lag) ELSE UNCHANGED drift
        /\ Agree(lag)
        /\ UseEstimate(lag)

\* A capture block in which none is.
GetNoDelay ==
    /\ UNCHANGED <<aggregator, drift>>
    /\ Agree(Unset)
    /\ UseEstimate(Unset)

-----------------------------------------------------------------------------
\* Variant: the window of lags survives, and only their counts start anew.
BugForgottenData == histogram_data_

ForgottenData == [k \in Slots |-> 0]

\* Variant: every reset forgets that a candidate was significant.
BugKeptSignificance(reset_delay_confidence) == FALSE

KeptSignificance(reset_delay_confidence) ==
    significant_candidate_found_ /\ ~ reset_delay_confidence

\* Variant: the controller's own quality is not reset.
BugKeptQuality(reset_delay_confidence) == last_delay_estimate_quality_

KeptQuality(reset_delay_confidence) ==
    IF reset_delay_confidence THEN "coarse" ELSE last_delay_estimate_quality_

\* The clock drift detector has no reset.
Reset(reset_delay_confidence) ==
    /\ delay_' = Unset
    /\ delay_samples_' = Unset
    /\ last_delay_estimate_quality_' = KeptQuality(reset_delay_confidence)
    /\ histogram_' = [lag \in Lags |-> 0]
    /\ histogram_data_' = ForgottenData
    /\ histogram_data_index_' = 0
    /\ significant_candidate_found_' = KeptSignificance(reset_delay_confidence)
    /\ old_aggregated_lag_' = Unset
    /\ consistent_estimate_counter_' = 0
    /\ UNCHANGED drift

Capture == GetNoDelay \/ \E best \in ReliableLags : GetDelay(best)

Next == Capture \/ \E hard \in BOOLEAN : Reset(hard)

Spec == Init /\ [][Next]_vars

-----------------------------------------------------------------------------
TypeOK ==
    /\ histogram_ \in [Lags -> - HistorySize .. HistorySize]
    /\ histogram_data_ \in [Slots -> Lags]
    /\ histogram_data_index_ \in Slots
    /\ significant_candidate_found_ \in BOOLEAN
    /\ old_aggregated_lag_ \in Lags \cup {Unset}
    /\ consistent_estimate_counter_ \in 0 .. ConsistentLimit
    /\ level_ \in {"none", "probable", "verified"}
    /\ stability_counter_ \in 0 .. StableLimit + 1
    /\ delay_history_ \in Lags \X Lags \X Lags
    /\ delay_samples_ \in Lags \cup {Unset}
    /\ last_delay_estimate_quality_ \in {"coarse", "refined"}
    /\ delay_ \in Nat \cup {Unset}
    /\ entries \in 0 .. 4

\* Each count is the number of times the window holds the lag.  Lag 0, which
\* fills the empty window without being counted and leaves it with a
\* subtraction, stays below by the whole window, so it never wins.
HistogramCounts ==
    \A lag \in Lags :
        histogram_[lag] = Cardinality({k \in Slots : histogram_data_[k] = lag})
                            - (IF lag = 0 THEN HistorySize ELSE 0)

\* The render signal is never delayed more than the echo, and lags behind by no
\* more than the hysteresis: the linear filter always has the echo in view.
DelayCoversEcho ==
    delay_samples_ # Unset =>
        /\ delay_ # Unset
        /\ delay_ <= Blocks(delay_samples_)
        /\ Blocks(delay_samples_) <= delay_ + Hysteresis

\* A lag that fills enough of the window is the estimate in use: an echo whose
\* delay stays is found after Converged + 1 reliable blocks at the latest, and
\* stays found while the filters are silent.
FrequentLagIsUsed ==
    LET lag == Candidate(histogram_)
    IN  histogram_[lag] > Converged => delay_samples_ = lag

\* What the controller takes for refined the aggregator has found significant:
\* the two resets of one confidence never come apart.
RefinedIsSignificant ==
    last_delay_estimate_quality_ = "refined" => significant_candidate_found_

\* Once refined, estimates stay refined until confidence is reset on purpose.
ConfidenceIsKept ==
    [][last_delay_estimate_quality_ = "refined" =>
         last_delay_estimate_quality_' = "refined" \/ Reset(TRUE)]_vars

\* A drift is verified by four estimates and never by the zeros the history
\* starts with.
DriftWasObserved == level_ = "verified" => entries = 4

\* A verified drift ends by stability alone.
DriftIsSticky ==
    [][level_ = "verified" /\ level_' # "verified"
         => stability_counter_' > StableLimit]_vars

\* The slot of the k-th oldest entry of the ring.
SlotOf(k) == (histogram_data_index_ + k - 1) % HistorySize

\* How many lags the ring holds: the zeros it starts with are none.
Filled == Cardinality({k \in Slots : histogram_data_[k] # 0})

\* The lags in the ring, oldest first.
Window == [k \in 1 .. Filled |-> histogram_data_[SlotOf(HistorySize - Filled + k)]]

Controller == INSTANCE DelayController WITH
    Lags <- ReliableLags, WindowSize <- HistorySize,
    window <- Window, confident <- significant_candidate_found_,
    lag <- delay_samples_, delay <- delay_

\* Ring, counts, thresholds, hysteresis and partial resets together find the
\* most frequent of the last reliable lags, and blocks without one change
\* nothing.
IsDelayController == Controller!Spec
=============================================================================
