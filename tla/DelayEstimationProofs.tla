------------------------ MODULE DelayEstimationProofs ------------------------
(***************************************************************************)
(* Theorems about the render delay controller, for every number and length *)
(* of matched filters, every window and all thresholds.                    *)
(***************************************************************************)
EXTENDS DelayEstimation, FiniteSetTheorems, SequenceTheorems,
        WellFoundedInduction, TLAPS

-----------------------------------------------------------------------------
(* Data: lags, blocks, counts                                              *)

\* Every reliable lag is one the histogram has a place for, and beyond the
\* reach of a drift of two from the zeros a history starts with.
LEMMA LagRange == ReliableLags \subseteq Lags /\ \A lag \in ReliableLags : lag >= 3
<1> SUFFICES ASSUME NEW lag \in ReliableLags PROVE lag \in Lags /\ lag >= 3
  OBVIOUS
<1>1. PICK n \in 0 .. NumFilters - 1, peak \in LowEdge + 1 .. FilterSize - HighEdge - 1 :
        lag = n * Shift + peak
  BY DEF ReliableLags
<1>2. {NumFilters, FilterSize, Shift} \subseteq Nat \ {0} /\ LowEdge \in Nat /\ HighEdge \in Nat /\ LowEdge >= 2
  BY FiltersAssumption
<1>3. n * Shift \in Nat /\ NumFilters * Shift \in Nat /\ n * Shift <= NumFilters * Shift
  <2>1. n \in Nat /\ NumFilters - n \in Nat /\ Shift \in Nat
    BY <1>2
  <2>2. n * Shift \in Nat /\ (NumFilters - n) * Shift \in Nat
    BY <2>1
  <2>3. NumFilters * Shift = n * Shift + (NumFilters - n) * Shift
    BY <1>2, <2>1
  <2> QED BY <2>2, <2>3
<1> DEFINE offset == n * Shift  end == NumFilters * Shift
<1>4. offset + peak \in 0 .. end + FilterSize /\ offset + peak >= 3
  <2> HIDE DEF offset, end
  <2>1. offset \in Nat /\ end \in Nat /\ offset <= end
    BY <1>3 DEF offset, end
  <2> QED BY <1>2, <2>1
<1> QED BY <1>1, <1>4 DEF Lags, MaxFilterLag

LEMMA LagsAreNaturals == MaxFilterLag \in Nat /\ Lags \subseteq Nat /\ 0 \in Lags
<1>1. {NumFilters, FilterSize, Shift} \subseteq Nat
  BY FiltersAssumption
<1>2. NumFilters * Shift \in Nat
  BY <1>1
<1>3. MaxFilterLag \in Nat
  BY <1>1, <1>2 DEF MaxFilterLag
<1> QED BY <1>3 DEF Lags

\* The delay a lag asks for is a number of blocks.
LEMMA BlocksType == \A lag \in Lags : Blocks(lag) \in Nat
<1> TAKE lag \in Lags
<1>1. DownSampling \in Nat /\ Headroom \in Nat /\ BlockSize \in Nat \ {0} /\ lag \in Nat
  BY FiltersAssumption, LagsAreNaturals
<1> DEFINE samples == lag * DownSampling - Headroom
<1>2. samples \in Int
  BY <1>1
<1>3. samples >= 0 => samples \div BlockSize \in Nat
  <2> HIDE DEF samples
  <2> QED BY <1>1, <1>2
<1>4. Blocks(lag) = IF samples < 0 THEN 0 ELSE samples \div BlockSize
  BY DEF Blocks
<1> QED
  <2> HIDE DEF samples
  <2> QED BY <1>2, <1>3, <1>4

\* A set of naturals has a least element.
LEMMA Least ==
  ASSUME NEW T \in SUBSET Nat, T # {}
  PROVE  \E x \in T : \A y \in T : x <= y
<1> DEFINE Upto == {0 .. x : x \in T}
<1>1. Upto \subseteq FiniteSubsetsOf(Nat) /\ Upto # {}
  <2>1. \A x \in T : IsFiniteSet(0 .. x) /\ 0 .. x \subseteq Nat
    BY FS_Interval
  <2> QED BY <2>1 DEF FiniteSubsetsOf
<1>2. PICK first \in Upto :
        \A other \in Upto : <<other, first>> \notin StrictSubsetOrdering(Nat)
  <2> HIDE DEF Upto
  <2> QED BY <1>1, WFMin, FS_StrictSubsetOrderingWellFounded
<1>3. PICK x \in T : first = 0 .. x
  BY <1>2
<1>4. ASSUME NEW y \in T, y < x PROVE FALSE
  <2>1. <<0 .. y, 0 .. x>> \in StrictSubsetOrdering(Nat)
    <3>1. 0 .. y \subseteq 0 .. x /\ x \in 0 .. x /\ x \notin 0 .. y
      BY <1>4
    <3> QED BY <3>1 DEF StrictSubsetOrdering
  <2> QED BY <1>2, <1>3, <2>1
<1> QED BY <1>4

\* The candidate exists: of bounded counts one is the largest, and of the lags
\* that have it one is the first.
LEMMA CandidateIsMode ==
  ASSUME NEW counts \in [Lags -> Int],
         \A lag \in Lags : counts[lag] <= HistorySize
  PROVE  /\ Candidate(counts) \in Lags
         /\ \A other \in Lags : counts[other] <= counts[Candidate(counts)]
<1> DEFINE Gap(lag) == HistorySize - counts[lag]
<1>1. HistorySize \in Nat
  BY ThresholdsAssumption
<1>2. PICK least \in {Gap(lag) : lag \in Lags} :
        \A gap \in {Gap(lag) : lag \in Lags} : least <= gap
  <2>1. {Gap(lag) : lag \in Lags} \in SUBSET Nat
    BY <1>1
  <2>2. {Gap(lag) : lag \in Lags} # {}
    BY LagsAreNaturals
  <2> HIDE DEF Gap
  <2> QED BY <2>1, <2>2, Least
<1>3. PICK first \in {lag \in Lags : Gap(lag) = least} :
        \A lag \in {l \in Lags : Gap(l) = least} : first <= lag
  <2>1. {lag \in Lags : Gap(lag) = least} # {}
    BY <1>2
  <2>2. {lag \in Lags : Gap(lag) = least} \in SUBSET Nat
    BY LagsAreNaturals
  <2> HIDE DEF Gap
  <2> QED BY <2>1, <2>2, Least
<1>4. \A other \in Lags : counts[other] <= counts[first]
  BY <1>1, <1>2, <1>3
<1>5. \A other \in 0 .. first - 1 : counts[other] < counts[first]
  <2> TAKE other \in 0 .. first - 1
  <2>1. other \in Lags /\ other < first
    BY <1>3, LagsAreNaturals DEF Lags
  <2>2. Gap(other) # least
    BY <2>1, <1>3, LagsAreNaturals
  <2> QED BY <1>1, <1>3, <1>4, <2>1, <2>2
<1> QED BY <1>3, <1>4, <1>5 DEF Candidate

-----------------------------------------------------------------------------
(* The window of lags                                                      *)

Places(data, lag) == {k \in Slots : data[k] = lag}

LEMMA SlotsSize == IsFiniteSet(Slots) /\ Cardinality(Slots) = HistorySize
<1>1. HistorySize \in Nat \ {0}
  BY ThresholdsAssumption
<1>2. 0 \in Int /\ HistorySize - 1 \in Int /\ ~ (0 > HistorySize - 1)
  BY <1>1
<1>3. Cardinality(0 .. HistorySize - 1) = (HistorySize - 1) - 0 + 1
  BY <1>2, FS_Interval
<1> QED BY <1>1, <1>2, <1>3, FS_Interval DEF Slots

LEMMA PlacesAreFinite ==
  ASSUME NEW data, NEW lag
  PROVE  /\ IsFiniteSet(Places(data, lag))
         /\ Cardinality(Places(data, lag)) \in 0 .. HistorySize
<1>1. Places(data, lag) \in SUBSET Slots
  BY DEF Places
<1> QED BY <1>1, SlotsSize, FS_Subset, FS_CardinalityType, ThresholdsAssumption

\* Overwriting a slot takes a place from the lag that leaves and gives one to
\* the lag that comes.
LEMMA Overwritten ==
  ASSUME NEW data \in [Slots -> Lags], NEW i \in Slots, NEW best \in Lags,
         NEW lag \in Lags
  PROVE  Cardinality(Places([data EXCEPT ![i] = best], lag))
           = Cardinality(Places(data, lag))
               - (IF data[i] = lag THEN 1 ELSE 0) + (IF best = lag THEN 1 ELSE 0)
<1> DEFINE rest == Places(data, lag) \ {i}
           after == Places([data EXCEPT ![i] = best], lag)
<1>1. IsFiniteSet(Places(data, lag)) /\ Cardinality(Places(data, lag)) \in Nat
  BY PlacesAreFinite
<1>2. /\ IsFiniteSet(rest)
      /\ Cardinality(rest) = Cardinality(Places(data, lag))
                               - (IF data[i] = lag THEN 1 ELSE 0)
  <2>1. i \in Places(data, lag) <=> data[i] = lag
    BY DEF Places
  <2> QED BY <1>1, <2>1, FS_RemoveElement
<1>3. after = IF best = lag THEN rest \cup {i} ELSE rest
  BY DEF Places
<1>4. Cardinality(after) = Cardinality(rest) + (IF best = lag THEN 1 ELSE 0)
  <2> HIDE DEF rest, after
  <2>1. i \notin rest
    BY DEF rest
  <2>2. Cardinality(rest \cup {i}) = Cardinality(rest) + 1
    BY <1>2, <2>1, FS_AddElement
  <2>3. Cardinality(rest) \in Nat
    BY <1>2, FS_CardinalityType
  <2> QED BY <1>3, <2>2, <2>3
<1> QED BY <1>1, <1>2, <1>4 DEF after

-----------------------------------------------------------------------------
(* The inductive invariant                                                 *)

\* Only reliable lags and the initial zeros are in the window.
DataInv == histogram_data_ \in [Slots -> ReliableLags \cup {0}]

\* The latest estimates are real, those before the first are zero.
HistoryInv ==
    \A k \in 1 .. 3 : IF k <= entries THEN delay_history_[k] \in ReliableLags
                                      ELSE delay_history_[k] = 0

IInv == /\ TypeOK
        /\ DataInv
        /\ HistogramCounts
        /\ HistoryInv
        /\ DriftWasObserved
        /\ DelayCoversEcho
        /\ FrequentLagIsUsed
        /\ RefinedIsSignificant

\* What the window says about the counts, whatever window and counts.
Counts(h, data) ==
    \A lag \in Lags : h[lag] = Cardinality(Places(data, lag))
                                - (IF lag = 0 THEN HistorySize ELSE 0)

LEMMA CountFacts ==
  ASSUME NEW h \in [Lags -> Int], NEW data \in [Slots -> ReliableLags \cup {0}],
         Counts(h, data), NEW lag \in Lags
  PROVE  /\ h[lag] \in - HistorySize .. HistorySize
         /\ h[lag] > 0 => lag \in ReliableLags
<1>1. HistorySize \in Nat
  BY ThresholdsAssumption
<1>2. Cardinality(Places(data, lag)) \in 0 .. HistorySize
  BY PlacesAreFinite
<1>3. h[lag] = Cardinality(Places(data, lag)) - (IF lag = 0 THEN HistorySize ELSE 0)
  BY DEF Counts
<1>4. ASSUME h[lag] > 0 PROVE lag \in ReliableLags
  <2>1. lag # 0 /\ Cardinality(Places(data, lag)) # 0
    BY <1>1, <1>2, <1>3, <1>4
  <2>2. Places(data, lag) # {}
    BY <2>1, FS_EmptySet
  <2>3. PICK k \in Slots : data[k] = lag
    BY <2>2 DEF Places
  <2> QED BY <2>1, <2>3
<1> QED BY <1>1, <1>2, <1>3, <1>4

LEMMA InitIInv == Init => IInv
<1> SUFFICES ASSUME Init PROVE IInv
  OBVIOUS
<1>1. HistorySize \in Nat \ {0} /\ ConsistentLimit \in Nat /\ StableLimit \in Nat /\ Converged \in Nat
  BY ThresholdsAssumption
<1>2. Slots # {} /\ 0 \in Slots
  BY <1>1 DEF Slots
<1>3. HistogramCounts
  <2> SUFFICES ASSUME NEW lag \in Lags
               PROVE  0 = Cardinality({k \in Slots : histogram_data_[k] = lag})
                            - (IF lag = 0 THEN HistorySize ELSE 0)
    BY DEF HistogramCounts, Init
  <2>1. CASE lag = 0
    <3>1. {k \in Slots : histogram_data_[k] = lag} = Slots
      BY <2>1 DEF Init
    <3> QED BY <2>1, <3>1, SlotsSize, <1>1
  <2>2. CASE lag # 0
    <3>1. {k \in Slots : histogram_data_[k] = lag} = {}
      BY <2>2 DEF Init
    <3> QED BY <2>2, <3>1, FS_EmptySet
  <2> QED BY <2>1, <2>2
<1>4. FrequentLagIsUsed
  <2>1. Candidate(histogram_) \in Lags
    <3>1. histogram_ \in [Lags -> Int] /\ \A lag \in Lags : histogram_[lag] <= HistorySize
      BY <1>1 DEF Init
    <3> QED BY <3>1, CandidateIsMode
  <2>2. ~ (histogram_[Candidate(histogram_)] > Converged)
    BY <2>1, <1>1 DEF Init
  <2> QED BY <2>2 DEF FrequentLagIsUsed
<1>5. TypeOK
  <2>1. 0 \in - HistorySize .. HistorySize /\ 0 \in 0 .. ConsistentLimit
         /\ 0 \in 0 .. StableLimit + 1 /\ 0 \in 0 .. 4
    BY <1>1
  <2>2. histogram_ \in [Lags -> - HistorySize .. HistorySize]
    BY <2>1 DEF Init
  <2>3. delay_history_ \in Lags \X Lags \X Lags
    BY LagsAreNaturals DEF Init
  <2> QED BY <1>2, <2>1, <2>2, <2>3, LagsAreNaturals DEF TypeOK, Init
<1>6. DataInv /\ HistoryInv /\ DriftWasObserved /\ DelayCoversEcho /\ RefinedIsSignificant
  BY DEF Init, DataInv, HistoryInv, DriftWasObserved, DelayCoversEcho, RefinedIsSignificant
<1> QED BY <1>3, <1>4, <1>5, <1>6 DEF IInv

-----------------------------------------------------------------------------
(* The parts of a capture block                                            *)

\* Aggregate: the window slides and the counts with it, and what it returns is
\* a reliable lag, the candidate whenever that is frequent enough.
LEMMA AggregateStep ==
  ASSUME TypeOK, DataInv, HistogramCounts, NEW best \in ReliableLags
  PROVE  LET counts == Counted(best)
             data == [histogram_data_ EXCEPT ![histogram_data_index_] = best]
             candidate == Candidate(counts)
             lag == Aggregated(candidate, counts[candidate])
         IN  /\ counts \in [Lags -> - HistorySize .. HistorySize]
             /\ data \in [Slots -> ReliableLags \cup {0}]
             /\ Counts(counts, data)
             /\ lag \in ReliableLags \cup {Unset}
             /\ counts[candidate] > Converged => lag = candidate
<1> DEFINE counts == Counted(best)
           data == [histogram_data_ EXCEPT ![histogram_data_index_] = best]
           candidate == Candidate(counts)
           lag == Aggregated(candidate, counts[candidate])
           old == histogram_data_[histogram_data_index_]
<1>1. best \in Lags /\ old \in Lags /\ histogram_data_index_ \in Slots
  BY LagRange DEF TypeOK
<1>2. histogram_ \in [Lags -> Int] /\ histogram_data_ \in [Slots -> Lags]
  BY DEF TypeOK
<1>3. counts \in [Lags -> Int]
  BY <1>1, <1>2 DEF Counted
<1>4. \A l \in Lags : counts[l] = histogram_[l] - (IF old = l THEN 1 ELSE 0)
                                   + (IF best = l THEN 1 ELSE 0)
  <2> DEFINE less == [histogram_ EXCEPT ![old] = @ - 1]
  <2>1. counts = [less EXCEPT ![best] = @ + 1]
    BY DEF Counted
  <2>2. /\ less \in [Lags -> Int]
        /\ \A l \in Lags : less[l] = histogram_[l] - (IF old = l THEN 1 ELSE 0)
    BY <1>1, <1>2
  <2> HIDE DEF less, old
  <2>3. \A l \in Lags : counts[l] = IF best = l THEN less[l] + 1 ELSE less[l]
    BY <1>1, <2>1, <2>2
  <2> QED BY <1>1, <1>2, <2>2, <2>3
<1>5. data \in [Slots -> ReliableLags \cup {0}]
  BY DEF DataInv
<1>6. Counts(counts, data)
  <2> SUFFICES ASSUME NEW l \in Lags
               PROVE  counts[l] = Cardinality(Places(data, l))
                                    - (IF l = 0 THEN HistorySize ELSE 0)
    BY DEF Counts
  <2>1. histogram_[l] = Cardinality(Places(histogram_data_, l))
                          - (IF l = 0 THEN HistorySize ELSE 0)
    BY DEF HistogramCounts, Places
  <2>2. Cardinality(Places(data, l)) = Cardinality(Places(histogram_data_, l))
           - (IF old = l THEN 1 ELSE 0) + (IF best = l THEN 1 ELSE 0)
    <3>1. \A d \in [Slots -> Lags], i \in Slots, b \in Lags, m \in Lags :
            Cardinality(Places([d EXCEPT ![i] = b], m))
              = Cardinality(Places(d, m))
                  - (IF d[i] = m THEN 1 ELSE 0) + (IF b = m THEN 1 ELSE 0)
      BY Overwritten
    <3> HIDE DEF Places
    <3> QED BY <1>1, <1>2, <3>1, ZenonT(30)
  <2>3. Cardinality(Places(histogram_data_, l)) \in Int /\ HistorySize \in Int
    BY PlacesAreFinite, ThresholdsAssumption
  <2>4. counts[l] = histogram_[l] - (IF old = l THEN 1 ELSE 0)
                                  + (IF best = l THEN 1 ELSE 0)
    BY <1>4
  <2> HIDE DEF counts, data, old
  <2> QED BY <2>1, <2>2, <2>3, <2>4
<1>7. \A l \in Lags :
        /\ counts[l] \in - HistorySize .. HistorySize
        /\ counts[l] > 0 => l \in ReliableLags
  <2> HIDE DEF counts, data
  <2> QED BY <1>3, <1>5, <1>6, CountFacts
<1>8. candidate \in Lags
  <2> HIDE DEF counts
  <2>1. \A l \in Lags : counts[l] <= HistorySize
    BY <1>7, ThresholdsAssumption
  <2> QED BY <1>3, <2>1, CandidateIsMode
<1>9. lag \in ReliableLags \cup {Unset} /\ (counts[candidate] > Converged => lag = candidate)
  <2> HIDE DEF counts, candidate
  <2>1. counts[candidate] > 0 => candidate \in ReliableLags
    BY <1>7, <1>8
  <2>2. Initial \in Nat /\ Converged \in Nat /\ counts[candidate] \in Int
    BY <1>3, <1>8, ThresholdsAssumption
  <2>3. counts[candidate] > Initial \/ counts[candidate] > Converged => counts[candidate] > 0
    BY <2>2
  <2> QED BY <2>1, <2>3 DEF Aggregated
<1>10. counts \in [Lags -> - HistorySize .. HistorySize]
  <2> HIDE DEF counts
  <2> QED BY <1>3, <1>7
<1> QED BY <1>5, <1>6, <1>9, <1>10

LEMMA AgreeStep ==
  ASSUME TypeOK, NEW lag \in Lags \cup {Unset}, Agree(lag)
  PROVE  /\ old_aggregated_lag_' \in Lags \cup {Unset}
         /\ consistent_estimate_counter_' \in 0 .. ConsistentLimit
<1>1. ConsistentLimit \in Nat
  BY ThresholdsAssumption
<1> QED BY <1>1 DEF TypeOK, Agree

\* UseEstimate: the delay follows the lag, at most the hysteresis behind.
LEMMA UseEstimateStep ==
  ASSUME TypeOK, DelayCoversEcho, significant_candidate_found_' \in BOOLEAN,
         NEW lag \in Lags \cup {Unset}, UseEstimate(lag)
  PROVE  /\ delay_samples_' = IF lag = Unset THEN delay_samples_ ELSE lag
         /\ delay_samples_' \in Lags \cup {Unset}
         /\ delay_' \in Nat \cup {Unset}
         /\ last_delay_estimate_quality_' \in
              {last_delay_estimate_quality_,
               IF lag = Unset THEN last_delay_estimate_quality_ ELSE Quality}
         /\ DelayCoversEcho'
<1>1. delay_samples_' = IF lag = Unset THEN delay_samples_ ELSE lag
  BY DEF UseEstimate
<1>2. delay_samples_' \in Lags \cup {Unset}
  BY <1>1 DEF TypeOK
<1>3. CASE delay_samples_' = Unset
  BY <1>1, <1>2, <1>3 DEF UseEstimate, TypeOK, DelayCoversEcho
<1>4. CASE delay_samples_' # Unset
  <2>1. PICK limit \in {Hysteresis, 0} :
          delay_' = ComputeBufferDelay(delay_samples_', limit)
    BY <1>4 DEF UseEstimate
  <2>2. Blocks(delay_samples_') \in Nat /\ Hysteresis \in Nat
    BY <1>2, <1>4, BlocksType, FiltersAssumption
  <2>3. Unset \notin Nat
    BY UnsetAssumption
  <2>4. delay_ \in Nat \cup {Unset}
    BY DEF TypeOK
  <2> DEFINE blocks == Blocks(delay_samples_')
  <2>5. delay_' = IF delay_ # Unset /\ blocks > delay_ /\ blocks <= delay_ + limit
                    THEN delay_ ELSE blocks
    BY <2>1 DEF ComputeBufferDelay
  <2>6. delay_' \in Nat /\ delay_' <= blocks /\ blocks <= delay_' + Hysteresis
    <3> HIDE DEF blocks
    <3>1. blocks \in Nat
      BY <2>2 DEF blocks
    <3> QED BY <2>2, <2>3, <2>4, <2>5, <3>1
  <2>7. DelayCoversEcho'
    BY <2>3, <2>6 DEF DelayCoversEcho, Blocks
  <2>8. last_delay_estimate_quality_' = UsedQuality(lag)
    BY <1>4 DEF UseEstimate
  <2> QED BY <1>1, <1>2, <2>6, <2>7, <2>8 DEF UsedQuality
<1> QED BY <1>3, <1>4

\* UpdateDrift: only four real estimates make a verified drift.
LEMMA UpdateDriftStep ==
  ASSUME TypeOK, HistoryInv, DriftWasObserved, NEW lag \in ReliableLags,
         UpdateDrift(lag)
  PROVE  /\ level_' \in {"none", "probable", "verified"}
         /\ stability_counter_' \in 0 .. StableLimit + 1
         /\ delay_history_' \in Lags \X Lags \X Lags
         /\ entries' \in 0 .. 4
         /\ HistoryInv'
         /\ DriftWasObserved'
<1>1. StableLimit \in Nat
  BY ThresholdsAssumption
<1>2. CASE lag = delay_history_[1]
  BY <1>1, <1>2 DEF UpdateDrift, TypeOK, HistoryInv, DriftWasObserved
<1>3. CASE lag # delay_history_[1]
  <2>1. /\ stability_counter_' = 0
        /\ level_' = Level(lag)
        /\ delay_history_' = <<lag, delay_history_[1], delay_history_[2]>>
        /\ entries' = IF entries < 4 THEN entries + 1 ELSE entries
    BY <1>3 DEF UpdateDrift
  <2>2. /\ delay_history_[1] \in Lags /\ delay_history_[2] \in Lags
        /\ delay_history_[3] \in Lags /\ entries \in 0 .. 4
    BY DEF TypeOK
  <2>3. /\ lag \in Nat /\ lag >= 3 /\ lag \in Lags
        /\ \A k \in 1 .. 3 :
             /\ delay_history_[k] \in Nat
             /\ k <= entries => delay_history_[k] >= 3
             /\ k > entries => delay_history_[k] = 0
    <3>1. \A l \in ReliableLags : l \in Nat /\ l >= 3 /\ l \in Lags
      BY LagRange, LagsAreNaturals
    <3>2. \A k \in 1 .. 3 : \/ k <= entries /\ delay_history_[k] \in ReliableLags
                            \/ ~ (k <= entries) /\ delay_history_[k] = 0
      BY DEF HistoryInv
    <3>3. \A k \in 1 .. 3 : k > entries <=> ~ (k <= entries)
      BY <2>2
    <3> QED BY <3>1, <3>2, <3>3
  <2>4. HistoryInv'
    <3>1. \A k \in 1 .. 3 : k <= entries' => delay_history_'[k] \in ReliableLags
      BY <2>1, <2>2 DEF HistoryInv
    <3>2. \A k \in 1 .. 3 : k > entries' => delay_history_'[k] = 0
      BY <2>1, <2>2 DEF HistoryInv
    <3> QED BY <2>1, <2>2, <3>1, <3>2 DEF HistoryInv
  <2>5. Drift(lag) => entries >= 3
    <3> SUFFICES ASSUME Drift(lag), entries \in 0 .. 2 PROVE FALSE
      BY <2>2
    <3>1. PICK sign \in {-1, 1} : ProbableDrift(lag, sign) /\ Back(3, lag) = 3 * sign
      BY DEF Drift
    <3>2. delay_history_[3] = 0 /\ delay_history_[1] \in Nat /\ delay_history_[2] \in Nat
      BY <2>3
    <3>3. sign = -1 /\ lag = 3
      BY <2>3, <3>1, <3>2 DEF Back
    <3>4. delay_history_[1] \in {1, 2}
      BY <3>1, <3>2, <3>3 DEF ProbableDrift, Back
    <3> QED BY <2>3, <3>4
  <2>6. Level(lag) \in {"none", "probable", "verified"}
    BY DEF Level, TypeOK
  <2>7. Level(lag) = "verified" => level_ = "verified" \/ Drift(lag)
    BY DEF Level
  <2>8. DriftWasObserved'
    BY <2>1, <2>2, <2>5, <2>7 DEF DriftWasObserved
  <2> QED BY <1>1, <2>1, <2>2, <2>3, <2>4, <2>6, <2>8
<1> QED BY <1>2, <1>3

-----------------------------------------------------------------------------
(* The actions                                                             *)

LEMMA GetDelayIInv ==
  ASSUME IInv, NEW best \in ReliableLags, GetDelay(best)
  PROVE  IInv'
<1> DEFINE counts == Counted(best)
           data == [histogram_data_ EXCEPT ![histogram_data_index_] = best]
           candidate == Candidate(counts)
           lag == Aggregated(candidate, counts[candidate])
<1>1. /\ counts \in [Lags -> - HistorySize .. HistorySize]
      /\ data \in [Slots -> ReliableLags \cup {0}]
      /\ Counts(counts, data)
      /\ lag \in ReliableLags \cup {Unset}
      /\ counts[candidate] > Converged => lag = candidate
  BY AggregateStep DEF IInv
<1>2. /\ histogram_' = counts
      /\ histogram_data_' = data
      /\ histogram_data_index_' = (histogram_data_index_ + 1) % HistorySize
      /\ significant_candidate_found_' = Significant(counts[candidate])
      /\ IF lag # Unset /\ Quality = "refined"
           THEN UpdateDrift(lag) ELSE UNCHANGED drift
      /\ Agree(lag)
      /\ UseEstimate(lag)
  BY DEF GetDelay
<1> HIDE DEF counts, data, lag
<1>3. lag \in Lags \cup {Unset} /\ Unset \notin ReliableLags
  <2>1. ReliableLags \subseteq Lags /\ Lags \subseteq Nat /\ Unset \notin Nat
    BY LagRange, LagsAreNaturals, UnsetAssumption
  <2> HIDE DEF candidate
  <2> QED BY <1>1, <2>1
<1>4. TypeOK /\ DelayCoversEcho /\ HistoryInv /\ DriftWasObserved /\ RefinedIsSignificant
  BY DEF IInv
<1>5. significant_candidate_found_' \in BOOLEAN
      /\ (significant_candidate_found_ => significant_candidate_found_')
  BY <1>2, <1>4 DEF Significant, TypeOK
<1>6. /\ delay_samples_' = IF lag = Unset THEN delay_samples_ ELSE lag
      /\ delay_samples_' \in Lags \cup {Unset}
      /\ delay_' \in Nat \cup {Unset}
      /\ last_delay_estimate_quality_' \in
           {last_delay_estimate_quality_,
            IF lag = Unset THEN last_delay_estimate_quality_ ELSE Quality}
      /\ DelayCoversEcho'
  BY <1>2, <1>3, <1>4, <1>5, UseEstimateStep
<1>7. /\ old_aggregated_lag_' \in Lags \cup {Unset}
      /\ consistent_estimate_counter_' \in 0 .. ConsistentLimit
  BY <1>2, <1>3, <1>4, AgreeStep
<1>8. /\ level_' \in {"none", "probable", "verified"}
      /\ stability_counter_' \in 0 .. StableLimit + 1
      /\ delay_history_' \in Lags \X Lags \X Lags
      /\ entries' \in 0 .. 4
      /\ HistoryInv'
      /\ DriftWasObserved'
  <2>1. CASE UpdateDrift(lag) /\ lag \in ReliableLags
    BY <2>1, <1>4, UpdateDriftStep
  <2>2. CASE UNCHANGED drift
    BY <2>2, <1>4 DEF drift, TypeOK, HistoryInv, DriftWasObserved
  <2> QED BY <1>1, <1>2, <2>1, <2>2
<1>9. histogram_data_' \in [Slots -> Lags]
  BY <1>1, <1>2, LagRange, LagsAreNaturals
<1>10. histogram_data_index_' \in Slots
  <2>1. HistorySize \in Nat \ {0} /\ histogram_data_index_ + 1 \in Nat
    BY <1>4, ThresholdsAssumption DEF TypeOK, Slots
  <2> DEFINE next == histogram_data_index_ + 1
  <2>2. next % HistorySize \in 0 .. HistorySize - 1
    <3> HIDE DEF next
    <3>1. next \in Nat
      BY <2>1 DEF next
    <3> QED BY <2>1, <3>1
  <2> QED BY <1>2, <2>2 DEF Slots
<1>11. last_delay_estimate_quality_' \in {"coarse", "refined"} /\ RefinedIsSignificant'
  BY <1>4, <1>5, <1>6 DEF TypeOK, Quality, RefinedIsSignificant
<1>12. TypeOK'
  BY <1>1, <1>2, <1>5, <1>6, <1>7, <1>8, <1>9, <1>10, <1>11 DEF TypeOK
<1>13. HistogramCounts'
  BY <1>1, <1>2 DEF HistogramCounts, Counts, Places
<1>14. FrequentLagIsUsed'
  <2>1. candidate = Candidate(histogram_')
    BY <1>2
  <2>2. histogram_'[candidate] > Converged => candidate \in ReliableLags /\ delay_samples_' = candidate
    <3>1. candidate \in Lags
      <4>1. \A l \in Lags : counts[l] \in Int /\ counts[l] <= HistorySize
        BY <1>1, ThresholdsAssumption
      <4>2. counts \in [Lags -> Int]
        BY <1>1, <4>1
      <4> QED BY <4>1, <4>2, CandidateIsMode
    <3> HIDE DEF candidate
    <3>2. candidate # Unset
      BY <3>1, LagsAreNaturals, UnsetAssumption
    <3> QED BY <1>1, <1>2, <1>6, <3>2
  <2> QED BY <2>1, <2>2 DEF FrequentLagIsUsed, Candidate
<1>15. DataInv'
  BY <1>1, <1>2 DEF DataInv
<1> QED BY <1>6, <1>8, <1>11, <1>12, <1>13, <1>14, <1>15 DEF IInv

LEMMA GetNoDelayIInv ==
  ASSUME IInv, GetNoDelay
  PROVE  IInv'
<1>1. UNCHANGED <<aggregator, drift>> /\ Agree(Unset) /\ UseEstimate(Unset)
  BY DEF GetNoDelay
<1>2. TypeOK /\ DelayCoversEcho /\ significant_candidate_found_' \in BOOLEAN
  BY <1>1 DEF IInv, TypeOK, aggregator
<1>3. /\ delay_samples_' = delay_samples_
      /\ delay_samples_' \in Lags \cup {Unset}
      /\ delay_' \in Nat \cup {Unset}
      /\ last_delay_estimate_quality_' = last_delay_estimate_quality_
      /\ DelayCoversEcho'
  BY <1>1, <1>2, UseEstimateStep
<1>4. /\ old_aggregated_lag_' \in Lags \cup {Unset}
      /\ consistent_estimate_counter_' \in 0 .. ConsistentLimit
  BY <1>1, <1>2, AgreeStep
<1>5. TypeOK'
  BY <1>1, <1>2, <1>3, <1>4 DEF TypeOK, aggregator, drift
<1>6. HistogramCounts' /\ FrequentLagIsUsed'
  BY <1>1, <1>3 DEF IInv, HistogramCounts, FrequentLagIsUsed, Candidate, aggregator
<1>7. DataInv' /\ HistoryInv' /\ DriftWasObserved' /\ RefinedIsSignificant'
  BY <1>1, <1>3 DEF IInv, DataInv, HistoryInv, DriftWasObserved, RefinedIsSignificant,
                    aggregator, drift
<1> QED BY <1>3, <1>5, <1>6, <1>7 DEF IInv

LEMMA ResetIInv ==
  ASSUME IInv, NEW hard \in BOOLEAN, Reset(hard)
  PROVE  IInv'
<1>1. HistorySize \in Nat \ {0} /\ ConsistentLimit \in Nat /\ Converged \in Nat
  BY ThresholdsAssumption
<1>2. /\ histogram_' = [lag \in Lags |-> 0]
      /\ histogram_data_' = [k \in Slots |-> 0]
      /\ histogram_data_index_' = 0 /\ 0 \in Slots
      /\ delay_' = Unset /\ delay_samples_' = Unset
      /\ old_aggregated_lag_' = Unset /\ consistent_estimate_counter_' = 0
      /\ UNCHANGED drift
  BY <1>1 DEF Reset, ForgottenData, Slots
<1>3. /\ significant_candidate_found_' = (significant_candidate_found_ /\ ~ hard)
      /\ last_delay_estimate_quality_'
           = IF hard THEN "coarse" ELSE last_delay_estimate_quality_
  BY DEF Reset, KeptSignificance, KeptQuality
<1>4. TypeOK'
  <2>1. histogram_' \in [Lags -> - HistorySize .. HistorySize]
    <3>1. 0 \in - HistorySize .. HistorySize
      BY <1>1
    <3> QED BY <1>2, <3>1
  <2>2. /\ significant_candidate_found_' \in BOOLEAN
        /\ last_delay_estimate_quality_' \in {"coarse", "refined"}
    BY <1>3 DEF IInv, TypeOK
  <2>3. histogram_data_' \in [Slots -> Lags]
    BY <1>2, LagsAreNaturals
  <2>4. /\ level_' \in {"none", "probable", "verified"}
        /\ stability_counter_' \in 0 .. StableLimit + 1
        /\ delay_history_' \in Lags \X Lags \X Lags
        /\ entries' \in 0 .. 4
    BY <1>2 DEF IInv, TypeOK, drift
  <2> QED BY <1>1, <1>2, <2>1, <2>2, <2>3, <2>4 DEF TypeOK
<1>5. HistogramCounts'
  <2> SUFFICES ASSUME NEW lag \in Lags
               PROVE  0 = Cardinality({k \in Slots : histogram_data_'[k] = lag})
                            - (IF lag = 0 THEN HistorySize ELSE 0)
    BY <1>2 DEF HistogramCounts
  <2>1. CASE lag = 0
    <3>1. {k \in Slots : histogram_data_'[k] = lag} = Slots
      BY <2>1, <1>2
    <3> QED BY <2>1, <3>1, SlotsSize, <1>1
  <2>2. CASE lag # 0
    <3>1. {k \in Slots : histogram_data_'[k] = lag} = {}
      BY <2>2, <1>2
    <3> QED BY <2>2, <3>1, FS_EmptySet
  <2> QED BY <2>1, <2>2
<1>6. FrequentLagIsUsed'
  <2> DEFINE zeros == [lag \in Lags |-> 0]
  <2>1. Candidate(zeros) \in Lags
    <3>1. zeros \in [Lags -> Int] /\ \A lag \in Lags : zeros[lag] <= HistorySize
      BY <1>1
    <3> HIDE DEF zeros
    <3> QED BY <3>1, CandidateIsMode
  <2>2. ~ (zeros[Candidate(zeros)] > Converged)
    BY <2>1, <1>1
  <2> HIDE DEF zeros
  <2>3. histogram_' = zeros
    BY <1>2 DEF zeros
  <2> QED BY <2>2, <2>3 DEF FrequentLagIsUsed, Candidate
<1>7. DataInv' /\ DelayCoversEcho'
  BY <1>2 DEF DataInv, DelayCoversEcho
<1>8. HistoryInv' /\ DriftWasObserved'
  BY <1>2 DEF IInv, HistoryInv, DriftWasObserved, drift
<1>9. RefinedIsSignificant'
  BY <1>3 DEF IInv, RefinedIsSignificant
<1> QED BY <1>4, <1>5, <1>6, <1>7, <1>8, <1>9 DEF IInv

LEMMA NextIInv == IInv /\ [Next]_vars => IInv'
<1> SUFFICES ASSUME IInv, [Next]_vars PROVE IInv'
  OBVIOUS
<1>1. CASE \E best \in ReliableLags : GetDelay(best)
  BY <1>1, GetDelayIInv
<1>2. CASE GetNoDelay
  BY <1>2, GetNoDelayIInv
<1>3. CASE \E hard \in BOOLEAN : Reset(hard)
  BY <1>3, ResetIInv
<1>4. CASE UNCHANGED vars
  BY <1>4 DEF IInv, vars, aggregator, drift, TypeOK, DataInv, HistogramCounts,
              HistoryInv, DriftWasObserved, DelayCoversEcho, FrequentLagIsUsed,
              RefinedIsSignificant, Candidate
<1> QED BY <1>1, <1>2, <1>3, <1>4 DEF Next, Capture

LEMMA Inductive == Spec => []IInv
<1> QED BY InitIInv, NextIInv, PTL DEF Spec

-----------------------------------------------------------------------------
(* The ring and the window it holds                                        *)

\* The remainder of less than two turns.
LEMMA SecondTurn ==
  ASSUME NEW d \in Nat \ {0}, NEW x \in d .. 2 * d - 1
  PROVE  x % d = x - d
<1> DEFINE q == x \div d
           r == x % d
<1>1. q \in Int /\ r \in 0 .. d - 1 /\ x = d * q + r
  BY SMT
<1> HIDE DEF q, r
<1>2. ~ (q <= 0)
  <2> SUFFICES ASSUME q <= 0 PROVE FALSE
    OBVIOUS
  <2>1. - q \in Nat /\ d \in Nat
    BY <1>1
  <2>2. d * (- q) \in Nat
    BY <2>1
  <2>3. d * q = - (d * (- q))
    BY <1>1
  <2> QED BY <1>1, <2>2, <2>3
<1>3. ~ (q >= 2)
  <2> SUFFICES ASSUME q >= 2 PROVE FALSE
    OBVIOUS
  <2>1. q - 2 \in Nat /\ d \in Nat
    BY <1>1
  <2>2. d * (q - 2) \in Nat
    BY <2>1
  <2>3. d * q = d * (q - 2) + 2 * d
    BY <1>1
  <2> QED BY <1>1, <2>2, <2>3
<1>4. q = 1
  BY <1>1, <1>2, <1>3
<1>5. r = x - d
  BY <1>1, <1>4
<1> QED BY <1>5 DEF r

\* The slot of the k-th oldest entry, of the ring written at i next.
Turn(i, k) == (i + k - 1) % HistorySize

LEMMA TurnValue ==
  ASSUME NEW i \in Slots, NEW k \in 1 .. HistorySize
  PROVE  Turn(i, k) = IF i + k - 1 < HistorySize THEN i + k - 1 ELSE (i + k - 1) - HistorySize
<1>1. HistorySize \in Nat \ {0} /\ i \in 0 .. HistorySize - 1
  BY ThresholdsAssumption DEF Slots
<1> DEFINE x == i + k - 1
<1>2. x \in 0 .. 2 * HistorySize - 1
  BY <1>1
<1>3. x % HistorySize = IF x < HistorySize THEN x ELSE x - HistorySize
  <2> HIDE DEF x
  <2>1. CASE x < HistorySize
    BY <1>1, <1>2, <2>1, SMT
  <2>2. CASE ~ (x < HistorySize)
    <3>1. x \in HistorySize .. 2 * HistorySize - 1
      BY <1>1, <1>2, <2>2
    <3>2. x % HistorySize = x - HistorySize
      BY <1>1, <3>1, SecondTurn
    <3> QED BY <2>2, <3>2
  <2> QED BY <2>1, <2>2
<1> QED BY <1>3 DEF Turn

\* The slot after the one written last.
LEMMA NextIndex ==
  ASSUME NEW i \in Slots
  PROVE  (i + 1) % HistorySize = IF i + 1 < HistorySize THEN i + 1 ELSE 0
<1>1. HistorySize \in Nat \ {0} /\ i \in 0 .. HistorySize - 1
  BY ThresholdsAssumption DEF Slots
<1> DEFINE x == i + 1
<1>2. x \in 1 .. HistorySize
  BY <1>1
<1>3. x % HistorySize = IF x < HistorySize THEN x ELSE 0
  <2> HIDE DEF x
  <2>1. CASE x < HistorySize
    BY <1>1, <1>2, <2>1, SMT
  <2>2. CASE ~ (x < HistorySize)
    <3>1. x = HistorySize /\ x \in HistorySize .. 2 * HistorySize - 1
      BY <1>1, <1>2, <2>2
    <3>2. x % HistorySize = x - HistorySize
      BY <1>1, <3>1, SecondTurn
    <3> QED BY <1>1, <2>2, <3>1, <3>2
  <2> QED BY <2>1, <2>2
<1> QED BY <1>3

\* The turns of an index name every slot once, and move on with it.
LEMMA TurnFacts ==
  ASSUME NEW i \in Slots
  PROVE  /\ \A k \in 1 .. HistorySize : Turn(i, k) \in Slots
         /\ \A k, m \in 1 .. HistorySize : Turn(i, k) = Turn(i, m) => k = m
         /\ \A p \in Slots : \E k \in 1 .. HistorySize : Turn(i, k) = p
         /\ Turn(i, 1) = i
<1>1. HistorySize \in Nat \ {0} /\ i \in 0 .. HistorySize - 1
  BY ThresholdsAssumption DEF Slots
<1>2. \A k \in 1 .. HistorySize : Turn(i, k) = IF i + k - 1 < HistorySize THEN i + k - 1 ELSE (i + k - 1) - HistorySize
  BY TurnValue
<1>3. \A k \in 1 .. HistorySize : Turn(i, k) \in Slots
  BY <1>1, <1>2 DEF Slots
<1>4. \A k, m \in 1 .. HistorySize : Turn(i, k) = Turn(i, m) => k = m
  BY <1>1, <1>2
<1>5. ASSUME NEW p \in Slots PROVE \E k \in 1 .. HistorySize : Turn(i, k) = p
  <2> DEFINE k == IF p >= i THEN p + 1 - i ELSE p + 1 + HistorySize - i
  <2>1. p \in 0 .. HistorySize - 1
    BY DEF Slots
  <2>2. k \in 1 .. HistorySize
    BY <1>1, <2>1
  <2>3. IF i + k - 1 < HistorySize THEN i + k - 1 = p ELSE (i + k - 1) - HistorySize = p
    BY <1>1, <2>1
  <2> HIDE DEF k
  <2> QED BY <1>2, <2>2, <2>3
<1>6. Turn(i, 1) = i
  BY <1>1, <1>2
<1> QED BY <1>3, <1>4, <1>5, <1>6

LEMMA TurnMoves ==
  ASSUME NEW i \in Slots, NEW k \in 1 .. HistorySize
  PROVE  Turn((i + 1) % HistorySize, k) = IF k = HistorySize THEN i ELSE Turn(i, k + 1)
<1>1. HistorySize \in Nat \ {0} /\ i \in 0 .. HistorySize - 1
  BY ThresholdsAssumption DEF Slots
<1> DEFINE j == (i + 1) % HistorySize
<1>2. j = IF i + 1 < HistorySize THEN i + 1 ELSE 0
  BY NextIndex
<1> HIDE DEF j
<1>3. j \in Slots
  BY <1>1, <1>2 DEF Slots
<1>4. Turn(j, k) = IF j + k - 1 < HistorySize THEN j + k - 1 ELSE (j + k - 1) - HistorySize
  BY <1>3, TurnValue
<1>5. CASE k = HistorySize
  BY <1>1, <1>2, <1>4, <1>5 DEF j
<1>6. CASE k # HistorySize
  <2>1. k + 1 \in 1 .. HistorySize
    BY <1>1, <1>6
  <2>2. Turn(i, k + 1) = IF i + (k + 1) - 1 < HistorySize THEN i + (k + 1) - 1 ELSE (i + (k + 1) - 1) - HistorySize
    BY <2>1, TurnValue
  <2>3. Turn(j, k) = Turn(i, k + 1)
    BY <1>1, <1>2, <1>4, <1>6, <2>2
  <2> QED BY <1>6, <2>3 DEF j
<1> QED BY <1>5, <1>6

\* Entries that are not lags yet.
Zeros(data) == Cardinality(Places(data, 0))

\* The zeros of a ring are its oldest entries.
ZerosFirst(data, i) ==
    \A k \in 1 .. HistorySize : data[Turn(i, k)] = 0 <=> k <= Zeros(data)

WindowOf(data, i) ==
    [k \in 1 .. HistorySize - Zeros(data) |-> data[Turn(i, Zeros(data) + k)]]

LEMMA ZerosType == ASSUME NEW data PROVE Zeros(data) \in 0 .. HistorySize
  BY PlacesAreFinite DEF Zeros

\* A new lag takes the place of a zero as long as there is one.
LEMMA ZerosStep ==
  ASSUME NEW data \in [Slots -> ReliableLags \cup {0}], NEW i \in Slots,
         ZerosFirst(data, i), NEW best \in ReliableLags
  PROVE  /\ data[i] = 0 <=> Zeros(data) > 0
         /\ Zeros([data EXCEPT ![i] = best])
              = IF Zeros(data) > 0 THEN Zeros(data) - 1 ELSE 0
<1>1. HistorySize \in Nat \ {0} /\ 1 \in 1 .. HistorySize
  BY ThresholdsAssumption
<1>2. Turn(i, 1) = i /\ Zeros(data) \in 0 .. HistorySize
  BY TurnFacts, ZerosType
<1>3. data[i] = 0 <=> 1 <= Zeros(data)
  <2>1. data[Turn(i, 1)] = 0 <=> 1 <= Zeros(data)
    BY <1>1 DEF ZerosFirst
  <2> QED BY <1>2, <2>1
<1>4. best \in Lags /\ 0 \in Lags /\ best # 0 /\ data \in [Slots -> Lags]
  <2>1. best \in Lags /\ best >= 3 /\ 0 \in Lags /\ ReliableLags \cup {0} \subseteq Lags
    BY LagRange, LagsAreNaturals
  <2>2. best # 0
    BY <2>1
  <2> QED BY <2>1, <2>2
<1>5. Cardinality(Places([data EXCEPT ![i] = best], 0))
           = Cardinality(Places(data, 0))
               - (IF data[i] = 0 THEN 1 ELSE 0) + (IF best = 0 THEN 1 ELSE 0)
  BY <1>4, Overwritten
<1>6. Zeros([data EXCEPT ![i] = best]) = Zeros(data) - (IF data[i] = 0 THEN 1 ELSE 0)
  BY <1>2, <1>4, <1>5 DEF Zeros
<1> QED BY <1>2, <1>3, <1>6

\* Where the entries of the ring are after a step.
LEMMA RingStep ==
  ASSUME NEW data \in [Slots -> ReliableLags \cup {0}], NEW i \in Slots,
         NEW best \in ReliableLags, NEW k \in 1 .. HistorySize
  PROVE  [data EXCEPT ![i] = best][Turn((i + 1) % HistorySize, k)]
           = IF k = HistorySize THEN best ELSE data[Turn(i, k + 1)]
<1> DEFINE new == [data EXCEPT ![i] = best]
           j == (i + 1) % HistorySize
<1>1. HistorySize \in Nat \ {0} /\ 1 \in 1 .. HistorySize
  BY ThresholdsAssumption
<1>2. Turn(j, k) = IF k = HistorySize THEN i ELSE Turn(i, k + 1)
  BY TurnMoves
<1>3. \A p \in Slots : new[p] = IF p = i THEN best ELSE data[p]
  OBVIOUS
<1> HIDE DEF new, j
<1>4. CASE k = HistorySize
  BY <1>2, <1>3, <1>4 DEF new, j
<1>5. CASE k # HistorySize
  <2>1. k + 1 \in 1 .. HistorySize /\ k + 1 # 1
    BY <1>1, <1>5
  <2>2. Turn(i, k + 1) \in Slots /\ Turn(i, k + 1) # i
    BY <1>1, <2>1, TurnFacts
  <2> QED BY <1>2, <1>3, <1>5, <2>2 DEF new, j
<1> QED BY <1>4, <1>5

LEMMA ZerosFirstStep ==
  ASSUME NEW data \in [Slots -> ReliableLags \cup {0}], NEW i \in Slots,
         ZerosFirst(data, i), NEW best \in ReliableLags
  PROVE  ZerosFirst([data EXCEPT ![i] = best], (i + 1) % HistorySize)
<1> DEFINE new == [data EXCEPT ![i] = best]
           j == (i + 1) % HistorySize
<1>1. HistorySize \in Nat \ {0} /\ best # 0
  BY ThresholdsAssumption, LagRange
<1>2. \A k \in 1 .. HistorySize :
        new[Turn(j, k)] = IF k = HistorySize THEN best ELSE data[Turn(i, k + 1)]
  BY RingStep
<1>3. Zeros(new) = IF Zeros(data) > 0 THEN Zeros(data) - 1 ELSE 0
  BY ZerosStep
<1> HIDE DEF new, j
<1>4. ASSUME NEW k \in 1 .. HistorySize
      PROVE  new[Turn(j, k)] = 0 <=> k <= Zeros(new)
  <2>1. Zeros(data) \in 0 .. HistorySize
    BY ZerosType
  <2>2. CASE k = HistorySize
    BY <1>1, <1>2, <1>3, <2>1, <2>2
  <2>3. CASE k # HistorySize
    <3>1. k + 1 \in 1 .. HistorySize
      BY <1>1, <2>3
    <3>2. data[Turn(i, k + 1)] = 0 <=> k + 1 <= Zeros(data)
      BY <3>1 DEF ZerosFirst
    <3>3. k + 1 <= Zeros(data) <=> k <= Zeros(new)
      BY <1>3, <2>1
    <3> QED BY <1>2, <2>3, <3>2, <3>3
  <2> QED BY <2>2, <2>3
<1>5. ZerosFirst(new, j)
  BY <1>4 DEF ZerosFirst
<1> QED BY <1>5 DEF new, j

LEMMA WindowType ==
  ASSUME NEW data \in [Slots -> ReliableLags \cup {0}], NEW i \in Slots,
         ZerosFirst(data, i)
  PROVE  /\ WindowOf(data, i) \in Seq(ReliableLags)
         /\ Len(WindowOf(data, i)) = HistorySize - Zeros(data)
<1> DEFINE n == HistorySize - Zeros(data)
<1>1. Zeros(data) \in 0 .. HistorySize /\ n \in Nat /\ HistorySize \in Nat
  BY ZerosType, ThresholdsAssumption
<1>2. ASSUME NEW k \in 1 .. n
      PROVE  data[Turn(i, Zeros(data) + k)] \in ReliableLags
  <2>1. Zeros(data) + k \in 1 .. HistorySize /\ ~ (Zeros(data) + k <= Zeros(data))
    BY <1>1
  <2>2. Turn(i, Zeros(data) + k) \in Slots
    BY <2>1, TurnFacts
  <2>3. data[Turn(i, Zeros(data) + k)] # 0
    BY <2>1 DEF ZerosFirst
  <2> QED BY <2>2, <2>3
<1>3. WindowOf(data, i) = [k \in 1 .. n |-> data[Turn(i, Zeros(data) + k)]]
  BY DEF WindowOf
<1>4. WindowOf(data, i) \in [1 .. n -> ReliableLags]
  BY <1>2, <1>3
<1> HIDE DEF n
<1>5. WindowOf(data, i) \in Seq(ReliableLags)
  BY <1>1, <1>4, SeqDef
<1>6. Len(WindowOf(data, i)) = n
  BY <1>1, <1>4, <1>5, LenProperties
<1> QED BY <1>5, <1>6 DEF n

\* The window of the promise, after one more lag.
SlidOf(w, best) ==
    IF Len(w) < HistorySize THEN Append(w, best) ELSE Append(Tail(w), best)

LEMMA WindowStep ==
  ASSUME NEW data \in [Slots -> ReliableLags \cup {0}], NEW i \in Slots,
         ZerosFirst(data, i), NEW best \in ReliableLags
  PROVE  WindowOf([data EXCEPT ![i] = best], (i + 1) % HistorySize)
           = SlidOf(WindowOf(data, i), best)
<1> DEFINE new == [data EXCEPT ![i] = best]
           j == (i + 1) % HistorySize
           w == WindowOf(data, i)
           v == WindowOf(new, j)
           z == Zeros(data)
           y == Zeros(new)
<1>1. HistorySize \in Nat \ {0} /\ z \in 0 .. HistorySize
  BY ThresholdsAssumption, ZerosType
<1>2. y = IF z > 0 THEN z - 1 ELSE 0
  BY ZerosStep
<1>3. \A k \in 1 .. HistorySize :
        new[Turn(j, k)] = IF k = HistorySize THEN best ELSE data[Turn(i, k + 1)]
  BY RingStep
<1>4. w \in Seq(ReliableLags) /\ Len(w) = HistorySize - z
  BY WindowType
<1>5. \A k \in 1 .. HistorySize - z : w[k] = data[Turn(i, z + k)]
  BY DEF WindowOf
<1>6. v \in Seq(ReliableLags) /\ Len(v) = HistorySize - y
  <2>1. new \in [Slots -> ReliableLags \cup {0}]
    OBVIOUS
  <2>2. j \in Slots
    BY NextIndex, <1>1 DEF Slots
  <2>3. ZerosFirst(new, j)
    BY ZerosFirstStep
  <2> HIDE DEF new, j
  <2> QED BY <2>1, <2>2, <2>3, WindowType
<1>7. \A k \in 1 .. HistorySize - y : v[k] = new[Turn(j, y + k)]
  BY DEF WindowOf
<1> HIDE DEF new, j, w, v, z, y
<1>8. CASE z > 0
  <2>1. Len(w) < HistorySize /\ y = z - 1 /\ Len(v) = Len(w) + 1
    BY <1>1, <1>2, <1>4, <1>6, <1>8
  <2>2. Append(w, best) \in Seq(ReliableLags) /\ Len(Append(w, best)) = Len(w) + 1
    BY <1>4
  <2>3. ASSUME NEW k \in 1 .. Len(v) PROVE v[k] = Append(w, best)[k]
    <3>1. y + k \in 1 .. HistorySize /\ k \in 1 .. HistorySize - y
      BY <1>1, <1>6, <2>1
    <3>2. v[k] = IF y + k = HistorySize THEN best ELSE data[Turn(i, (y + k) + 1)]
      BY <1>3, <1>7, <3>1
    <3>3. CASE y + k = HistorySize
      <4>1. k = Len(w) + 1
        BY <1>1, <1>4, <2>1, <3>3
      <4> QED BY <1>4, <3>2, <3>3, <4>1
    <3>4. CASE y + k # HistorySize
      <4>1. k \in 1 .. Len(w) /\ (y + k) + 1 = z + k /\ k \in 1 .. HistorySize - z
        BY <1>1, <1>4, <2>1, <3>1, <3>4
      <4>2. Append(w, best)[k] = w[k]
        BY <1>4, <4>1
      <4> QED BY <1>5, <3>2, <3>4, <4>1, <4>2
    <3> QED BY <3>3, <3>4
  <2>4. v = Append(w, best)
    BY <1>6, <2>1, <2>2, <2>3, SeqEqual
  <2> QED BY <2>1, <2>4 DEF SlidOf, v, w, new, j
<1>9. CASE ~ (z > 0)
  <2>1. ~ (Len(w) < HistorySize) /\ y = 0 /\ z = 0 /\ Len(v) = Len(w) /\ Len(w) = HistorySize
    BY <1>1, <1>2, <1>4, <1>6, <1>9
  <2>2. /\ Tail(w) \in Seq(ReliableLags) /\ Len(Tail(w)) = HistorySize - 1
        /\ \A k \in 1 .. HistorySize - 1 : Tail(w)[k] = w[k + 1]
    <3>1. w # <<>>
      BY <1>1, <2>1
    <3> QED BY <1>1, <1>4, <2>1, <3>1, HeadTailProperties
  <2>3. /\ Append(Tail(w), best) \in Seq(ReliableLags)
        /\ Len(Append(Tail(w), best)) = Len(v)
    BY <1>1, <2>1, <2>2
  <2>4. ASSUME NEW k \in 1 .. Len(v) PROVE v[k] = Append(Tail(w), best)[k]
    <3>1. k \in 1 .. HistorySize /\ y + k = k /\ k \in 1 .. HistorySize - y
      BY <1>1, <2>1
    <3>2. v[k] = IF k = HistorySize THEN best ELSE data[Turn(i, k + 1)]
      BY <1>3, <1>7, <3>1
    <3>3. CASE k = HistorySize
      <4>1. k = Len(Tail(w)) + 1
        BY <1>1, <2>2, <3>3
      <4> QED BY <2>2, <3>2, <3>3, <4>1
    <3>4. CASE k # HistorySize
      <4>1. k \in 1 .. HistorySize - 1 /\ k + 1 \in 1 .. HistorySize - z /\ z + (k + 1) = k + 1
        BY <1>1, <2>1, <3>1, <3>4
      <4>2. Append(Tail(w), best)[k] = w[k + 1]
        BY <2>2, <4>1
      <4> QED BY <1>5, <3>2, <3>4, <4>1, <4>2
    <3> QED BY <3>3, <3>4
  <2>5. v = Append(Tail(w), best)
    BY <1>6, <2>1, <2>3, <2>4, SeqEqual
  <2> QED BY <2>1, <2>5 DEF SlidOf, v, w, new, j
<1> QED BY <1>8, <1>9

\* A lag is as often in the window as in the ring.
LEMMA OccurrencesAreCounts ==
  ASSUME NEW data \in [Slots -> ReliableLags \cup {0}], NEW i \in Slots,
         ZerosFirst(data, i), NEW lag \in ReliableLags
  PROVE  Cardinality({k \in DOMAIN WindowOf(data, i) : WindowOf(data, i)[k] = lag})
           = Cardinality(Places(data, lag))
<1> DEFINE z == Zeros(data)
           n == HistorySize - z
           w == WindowOf(data, i)
           S == {k \in 1 .. n : w[k] = lag}
           T == Places(data, lag)
           f == [k \in S |-> Turn(i, z + k)]
<1>1. HistorySize \in Nat \ {0} /\ z \in 0 .. HistorySize /\ n \in Nat
  BY ThresholdsAssumption, ZerosType
<1>2. DOMAIN w = 1 .. n /\ \A k \in 1 .. n : w[k] = data[Turn(i, z + k)]
  BY DEF WindowOf
<1>3. \A k \in 1 .. n : z + k \in 1 .. HistorySize
  <2> HIDE DEF z
  <2> QED BY <1>1
<1> HIDE DEF z, n, w
<1>4. f \in [S -> T]
  <2>1. ASSUME NEW k \in S PROVE Turn(i, z + k) \in T
    <3>1. Turn(i, z + k) \in Slots
      BY <1>3, TurnFacts
    <3> QED BY <1>2, <3>1 DEF Places
  <2> QED BY <2>1
<1>5. \A a, b \in S : f[a] = f[b] => a = b
  <2> TAKE a \in S, b \in S
  <2> HAVE f[a] = f[b]
  <2>1. z + a \in 1 .. HistorySize /\ z + b \in 1 .. HistorySize
    BY <1>3
  <2>2. z + a = z + b
    BY <2>1, TurnFacts
  <2>3. a \in Int /\ b \in Int /\ z \in Int
    BY <1>1
  <2> QED BY <2>2, <2>3
<1>6. \A p \in T : \E k \in S : f[k] = p
  <2> TAKE p \in T
  <2>1. p \in Slots /\ data[p] = lag /\ lag # 0
    BY LagRange DEF Places
  <2>2. PICK m \in 1 .. HistorySize : Turn(i, m) = p
    BY <2>1, TurnFacts
  <2>3. ~ (m <= z)
    BY <2>1, <2>2 DEF ZerosFirst, z
  <2>4. m - z \in 1 .. n /\ z + (m - z) = m
    BY <1>1, <2>3 DEF n
  <2>5. m - z \in S
    BY <1>2, <2>1, <2>2, <2>4
  <2> QED BY <2>2, <2>4, <2>5
<1>7. IsFiniteSet(S)
  <2>1. IsFiniteSet(1 .. n)
    BY <1>1, FS_Interval
  <2> QED BY <2>1, FS_Subset
<1>8. f \in Bijection(S, T)
  <2> HIDE DEF S, T, f
  <2> QED BY <1>4, <1>5, <1>6 DEF Bijection, Injection, Surjection, IsInjective
<1>9. Cardinality(T) = Cardinality(S)
  <2> HIDE DEF S, T, f
  <2> QED BY <1>7, <1>8, FS_Bijection DEF ExistsBijection
<1>10. S = {k \in DOMAIN w : w[k] = lag}
  BY <1>2
<1> QED BY <1>9, <1>10 DEF w

-----------------------------------------------------------------------------
(* The refinement                                                          *)

\* What the refinement needs besides: the ring is filled in order, there is no
\* delay without a lag, and a coarse estimate is followed at once.
RingInv == ZerosFirst(histogram_data_, histogram_data_index_)

EmptyInv == delay_samples_ = Unset => delay_ = Unset

ExactInv ==
    last_delay_estimate_quality_ = "coarse" /\ delay_samples_ # Unset
        => delay_ = Blocks(delay_samples_)

RInv == IInv /\ RingInv /\ EmptyInv /\ ExactInv

\* The window of the refinement is the window of the lemmas.
LEMMA WindowIs == DataInv => Window = WindowOf(histogram_data_, histogram_data_index_)
<1> SUFFICES ASSUME DataInv
             PROVE  Window = WindowOf(histogram_data_, histogram_data_index_)
  OBVIOUS
<1> DEFINE zeros == Places(histogram_data_, 0)
           z == Zeros(histogram_data_)
<1>1. Filled = HistorySize - z
  <2>1. {k \in Slots : histogram_data_[k] # 0} = Slots \ zeros /\ Slots \cap zeros = zeros
    BY DEF Places
  <2>2. Cardinality(Slots \ zeros) = Cardinality(Slots) - Cardinality(Slots \cap zeros)
    BY SlotsSize, FS_Difference
  <2> QED BY <2>1, <2>2, SlotsSize DEF Filled, Zeros
<1>2. HistorySize \in Nat /\ z \in 0 .. HistorySize
  BY ThresholdsAssumption, ZerosType
<1>3. HistorySize - Filled = z
  <2> HIDE DEF z
  <2> QED BY <1>1, <1>2
<1>4. Window = [k \in 1 .. Filled |-> histogram_data_[Turn(histogram_data_index_, HistorySize - Filled + k)]]
  BY DEF Window, SlotOf, Turn
<1> QED BY <1>1, <1>3, <1>4 DEF WindowOf

LEMMA WindowIsNext ==
  DataInv' => Window' = WindowOf(histogram_data_, histogram_data_index_)'
<1>1. (DataInv => Window = WindowOf(histogram_data_, histogram_data_index_))'
  BY WindowIs, PTL
<1> QED BY <1>1

\* An empty ring.
LEMMA EmptyRing ==
  LET data == [k \in Slots |-> 0]
  IN  ZerosFirst(data, 0) /\ WindowOf(data, 0) = <<>>
<1> DEFINE data == [k \in Slots |-> 0]
<1>1. HistorySize \in Nat \ {0}
  BY ThresholdsAssumption
<1>2. Places(data, 0) = Slots
  BY DEF Places
<1>3. Zeros(data) = HistorySize
  BY <1>2, SlotsSize DEF Zeros
<1>4. ZerosFirst(data, 0)
  <2>1. 0 \in Slots
    BY <1>1 DEF Slots
  <2>2. ASSUME NEW k \in 1 .. HistorySize
        PROVE  data[Turn(0, k)] = 0 /\ k <= Zeros(data)
    <3>1. Turn(0, k) \in Slots
      BY <2>1, TurnFacts
    <3>2. k <= Zeros(data)
      BY <1>1, <1>3
    <3> QED BY <3>1, <3>2
  <2> QED BY <2>2 DEF ZerosFirst
<1>5. WindowOf(data, 0) = <<>>
  <2>1. HistorySize - Zeros(data) = 0 /\ 1 .. 0 = {}
    BY <1>1, <1>3
  <2> HIDE DEF data
  <2> QED BY <2>1 DEF WindowOf
<1> QED BY <1>4, <1>5

\* The most frequent lag of the histogram is one of the window.
LEMMA CandidateOfWindow ==
  ASSUME NEW counts \in [Lags -> Int], NEW data \in [Slots -> ReliableLags \cup {0}],
         Counts(counts, data), NEW p \in Slots, data[p] # 0
  PROVE  /\ Candidate(counts) \in ReliableLags
         /\ counts[Candidate(counts)] = Cardinality(Places(data, Candidate(counts)))
         /\ \A other \in ReliableLags :
              Cardinality(Places(data, other)) <= Cardinality(Places(data, Candidate(counts)))
<1> DEFINE best == data[p]  top == Candidate(counts)
<1>1. HistorySize \in Nat /\ ReliableLags \subseteq Lags /\ 0 \notin ReliableLags
  BY ThresholdsAssumption, LagRange
<1>2. \A lag \in Lags : counts[lag] \in - HistorySize .. HistorySize
                          /\ (counts[lag] > 0 => lag \in ReliableLags)
  BY CountFacts
<1>3. top \in Lags /\ \A other \in Lags : counts[other] <= counts[top]
  <2>1. \A lag \in Lags : counts[lag] <= HistorySize
    BY <1>1, <1>2
  <2> QED BY <2>1, CandidateIsMode
<1> HIDE DEF top
<1>4. \A lag \in ReliableLags : counts[lag] = Cardinality(Places(data, lag))
  <2> TAKE lag \in ReliableLags
  <2>1. lag \in Lags /\ lag # 0
    BY <1>1
  <2>2. counts[lag] = Cardinality(Places(data, lag)) - 0
    BY <2>1 DEF Counts
  <2> QED BY <2>2, PlacesAreFinite
<1>5. best \in ReliableLags
  OBVIOUS
<1>6. counts[best] > 0
  <2>1. p \in Places(data, best)
    BY DEF Places
  <2>2. IsFiniteSet(Places(data, best)) /\ Cardinality(Places(data, best)) \in 0 .. HistorySize
    BY PlacesAreFinite
  <2>3. Cardinality(Places(data, best)) # 0
    BY <2>1, <2>2, FS_EmptySet
  <2> HIDE DEF best
  <2> QED BY <1>1, <1>4, <1>5, <2>2, <2>3
<1>7. top \in ReliableLags
  <2>1. counts[best] <= counts[top] /\ counts[best] \in Int /\ counts[top] \in Int
    BY <1>1, <1>3, <1>5
  <2>2. counts[top] > 0
    BY <1>6, <2>1
  <2> QED BY <1>2, <1>3, <2>2
<1>8. \A other \in ReliableLags : Cardinality(Places(data, other)) <= Cardinality(Places(data, top))
  BY <1>1, <1>3, <1>4, <1>7
<1> QED BY <1>4, <1>7, <1>8 DEF top

\* The delay the controller uses, given its lag.
LEMMA FollowStep ==
  ASSUME TypeOK, DelayCoversEcho, EmptyInv, ExactInv,
         significant_candidate_found_' \in BOOLEAN,
         NEW lag \in Lags \cup {Unset}, UseEstimate(lag)
  PROVE  /\ Controller!Follow
         /\ EmptyInv'
         /\ ExactInv'
         /\ lag = Unset => delay_' = delay_
<1>1. delay_samples_' = IF lag = Unset THEN delay_samples_ ELSE lag
  BY DEF UseEstimate
<1>2. delay_samples_' \in Lags \cup {Unset} /\ Unset \notin Nat
  BY <1>1, UnsetAssumption DEF TypeOK
<1>3. CASE delay_samples_' = Unset
  <2>1. delay_samples_ = Unset /\ lag = Unset
    BY <1>1, <1>3
  <2>2. delay_' = delay_ /\ delay_ = Unset
    BY <1>3, <2>1 DEF UseEstimate, EmptyInv
  <2> QED BY <1>3, <2>2 DEF Controller!Follow, EmptyInv, ExactInv
<1>4. CASE delay_samples_' # Unset
  <2> DEFINE both == last_delay_estimate_quality_ = "refined" /\ UsedQuality(lag) = "refined"
             blocks == Blocks(delay_samples_')
  <2>1. /\ delay_' = ComputeBufferDelay(delay_samples_', IF both THEN Hysteresis ELSE 0)
        /\ last_delay_estimate_quality_' = UsedQuality(lag)
    BY <1>4 DEF UseEstimate
  <2>2. blocks \in Nat /\ Hysteresis \in Nat
    BY <1>2, <1>4, BlocksType, FiltersAssumption
  <2>3. delay_ \in Nat \cup {Unset}
    BY DEF TypeOK
  <2>4. PICK limit \in {Hysteresis, 0} :
          /\ limit = IF both THEN Hysteresis ELSE 0
          /\ delay_' = ComputeBufferDelay(delay_samples_', limit)
    BY <2>1
  <2>5. delay_' = IF delay_ # Unset /\ blocks > delay_ /\ blocks <= delay_ + limit
                    THEN delay_ ELSE blocks
    BY <2>4 DEF ComputeBufferDelay
  <2> HIDE DEF blocks, both
  <2>6. \/ delay_' = blocks
        \/ delay_ # Unset /\ blocks \in delay_ + 1 .. delay_ + Hysteresis /\ delay_' = delay_
    BY <1>2, <2>2, <2>3, <2>5
  <2>7. ~ both => delay_' = blocks
    BY <1>2, <2>2, <2>3, <2>4, <2>5
  <2>8. delay_' # Unset
    BY <1>2, <2>2, <2>3, <2>6
  <2>9. Controller!Follow
    BY <1>4, <2>6 DEF Controller!Follow, blocks
  <2>10. ExactInv'
    <3>1. last_delay_estimate_quality_' = "coarse" => ~ both
      BY <2>1 DEF both
    <3> QED BY <2>7, <3>1 DEF ExactInv, blocks, Blocks
  <2>11. ASSUME lag = Unset PROVE delay_' = delay_
    <3>1. delay_samples_' = delay_samples_ /\ delay_samples_ # Unset
      BY <1>1, <1>4, <2>11
    <3>2. delay_ # Unset /\ delay_ <= blocks /\ blocks <= delay_ + Hysteresis
      BY <3>1 DEF DelayCoversEcho, blocks, Blocks
    <3>3. CASE both
      BY <1>2, <2>2, <2>3, <2>4, <2>5, <3>2, <3>3
    <3>4. CASE ~ both
      <4>1. last_delay_estimate_quality_ = "coarse"
        BY <2>11, <3>4 DEF both, UsedQuality, TypeOK
      <4>2. delay_ = blocks
        BY <3>1, <4>1 DEF ExactInv, blocks, Blocks
      <4> QED BY <2>7, <3>4, <4>2
    <3> QED BY <3>3, <3>4
  <2> QED BY <1>4, <2>9, <2>10, <2>11 DEF EmptyInv
<1> QED BY <1>3, <1>4

\* A block with a reliable lag is an observation.
LEMMA GetDelayRefines ==
  ASSUME RInv, NEW best \in ReliableLags, GetDelay(best)
  PROVE  Controller!Observe(best) /\ RingInv' /\ EmptyInv' /\ ExactInv'
<1> DEFINE counts == Counted(best)
           data == [histogram_data_ EXCEPT ![histogram_data_index_] = best]
           candidate == Candidate(counts)
           lag == Aggregated(candidate, counts[candidate])
           count == counts[candidate]
<1>1. /\ TypeOK /\ DataInv /\ HistogramCounts /\ DelayCoversEcho
      /\ RingInv /\ EmptyInv /\ ExactInv
  BY DEF RInv, IInv
<1>2. /\ counts \in [Lags -> - HistorySize .. HistorySize]
      /\ data \in [Slots -> ReliableLags \cup {0}]
      /\ Counts(counts, data)
      /\ lag \in ReliableLags \cup {Unset}
  BY <1>1, AggregateStep
<1>3. /\ histogram_data_' = data
      /\ histogram_data_index_' = (histogram_data_index_ + 1) % HistorySize
      /\ significant_candidate_found_' = Significant(count)
      /\ UseEstimate(lag)
  BY DEF GetDelay
<1>4. /\ histogram_data_ \in [Slots -> ReliableLags \cup {0}]
      /\ histogram_data_index_ \in Slots
      /\ ZerosFirst(histogram_data_, histogram_data_index_)
  BY <1>1 DEF DataInv, TypeOK, RingInv
<1>5. /\ ZerosFirst(data, (histogram_data_index_ + 1) % HistorySize)
      /\ WindowOf(data, (histogram_data_index_ + 1) % HistorySize)
           = SlidOf(WindowOf(histogram_data_, histogram_data_index_), best)
  BY <1>4, ZerosFirstStep, WindowStep
<1>6. data[histogram_data_index_] # 0
  BY <1>4, LagRange
<1> HIDE DEF data
<1>7. RingInv'
  BY <1>3, <1>5 DEF RingInv, ZerosFirst, Zeros, Places, Turn
<1>8. Window' = Controller!Slid(best)
  <2>1. Window = WindowOf(histogram_data_, histogram_data_index_)
    BY <1>1, WindowIs
  <2>2. DataInv'
    BY <1>2, <1>3 DEF DataInv
  <2>3. Window' = WindowOf(histogram_data_', histogram_data_index_')
    BY <2>2, WindowIsNext
  <2>4. Window' = SlidOf(Window, best)
    BY <1>3, <1>5, <2>1, <2>3
  <2> QED BY <2>4 DEF SlidOf, Controller!Slid
<1>9. \A l \in ReliableLags :
        Controller!Occurrences(Controller!Slid(best), l) = Cardinality(Places(data, l))
  <2> TAKE l \in ReliableLags
  <2> DEFINE j == (histogram_data_index_ + 1) % HistorySize
  <2>1. j \in Slots
    <3>1. HistorySize \in Nat \ {0} /\ histogram_data_index_ \in 0 .. HistorySize - 1
      BY <1>4, ThresholdsAssumption DEF Slots
    <3> QED BY <1>4, <3>1, NextIndex DEF Slots
  <2>2. DataInv'
    BY <1>2, <1>3 DEF DataInv
  <2>3. Window' = WindowOf(data, j)
    BY <1>3, <2>2, WindowIsNext
  <2> HIDE DEF j
  <2>4. ZerosFirst(data, j)
    BY <1>5 DEF j
  <2>5. Cardinality({k \in DOMAIN WindowOf(data, j) : WindowOf(data, j)[k] = l})
           = Cardinality(Places(data, l))
    BY <1>2, <2>1, <2>4, OccurrencesAreCounts
  <2>6. Controller!Slid(best) = WindowOf(data, j)
    BY <1>8, <2>3
  <2>7. Controller!Occurrences(WindowOf(data, j), l) = Cardinality(Places(data, l))
    BY <2>5 DEF Controller!Occurrences, Controller!Cardinality, Cardinality
  <2> QED BY <2>6, <2>7
<1>10. /\ candidate \in ReliableLags
       /\ count = Cardinality(Places(data, candidate))
       /\ \A other \in ReliableLags :
            Cardinality(Places(data, other)) <= Cardinality(Places(data, candidate))
  <2>1. counts \in [Lags -> Int]
    BY <1>2, ThresholdsAssumption
  <2> HIDE DEF counts
  <2> QED BY <1>2, <1>4, <1>6, <2>1, CandidateOfWindow
<1> HIDE DEF candidate, lag, counts
<1>11. candidate \in Controller!Modes(Controller!Slid(best))
  BY <1>9, <1>10 DEF Controller!Modes
<1>12. Controller!Occurrences(Controller!Slid(best), candidate) = count
  BY <1>9, <1>10
<1>13. count \in Nat /\ Initial \in Nat /\ Converged \in Nat /\ Unset \notin Nat /\ candidate \in Nat
  <2>1. Initial \in Nat /\ Converged \in Nat /\ Unset \notin Nat
    BY ThresholdsAssumption, UnsetAssumption
  <2>2. candidate \in Nat
    BY <1>10, LagRange, LagsAreNaturals
  <2>3. Cardinality(Places(data, candidate)) \in 0 .. HistorySize /\ HistorySize \in Nat
    BY PlacesAreFinite, ThresholdsAssumption
  <2> QED BY <1>10, <2>1, <2>2, <2>3
<1>14. lag \in Lags \cup {Unset}
  BY <1>2, LagRange
<1>15. significant_candidate_found_' \in BOOLEAN
       /\ significant_candidate_found_' = (significant_candidate_found_ \/ count > Converged)
  BY <1>1, <1>3 DEF Significant, TypeOK
<1>16. Controller!Follow /\ EmptyInv' /\ ExactInv'
  BY <1>1, <1>3, <1>14, <1>15, FollowStep
<1>17. delay_samples_' = IF count > (IF significant_candidate_found_' THEN Converged ELSE Initial)
                           THEN candidate ELSE delay_samples_
  <2>1. delay_samples_' = IF lag = Unset THEN delay_samples_ ELSE lag
    BY <1>3 DEF UseEstimate
  <2>2. lag = IF count > Converged \/ (count > Initial /\ ~ Significant(count))
                THEN candidate ELSE Unset
    BY DEF lag, Aggregated
  <2>3. count > Converged \/ (count > Initial /\ ~ Significant(count))
          <=> count > (IF significant_candidate_found_' THEN Converged ELSE Initial)
    BY <1>1, <1>13, <1>15 DEF Significant, TypeOK
  <2>4. candidate # Unset
    BY <1>13
  <2> QED BY <2>1, <2>2, <2>3, <2>4
<1>18. Controller!Observe(best)
  BY <1>8, <1>11, <1>12, <1>15, <1>16, <1>17 DEF Controller!Observe
<1> QED BY <1>7, <1>16, <1>18

\* A block without one changes nothing of the promise.
LEMMA GetNoDelayRefines ==
  ASSUME RInv, GetNoDelay
  PROVE  /\ UNCHANGED <<Window, significant_candidate_found_, delay_samples_, delay_>>
         /\ RingInv' /\ EmptyInv' /\ ExactInv'
<1>1. /\ TypeOK /\ DelayCoversEcho /\ RingInv /\ EmptyInv /\ ExactInv
      /\ UNCHANGED aggregator /\ UseEstimate(Unset)
  BY DEF RInv, IInv, GetNoDelay
<1>2. significant_candidate_found_' \in BOOLEAN
  BY <1>1 DEF aggregator, TypeOK
<1>3. EmptyInv' /\ ExactInv' /\ delay_' = delay_
  BY <1>1, <1>2, FollowStep
<1>4. delay_samples_' = delay_samples_
  BY <1>1 DEF UseEstimate
<1>5. RingInv'
  BY <1>1 DEF RingInv, aggregator, ZerosFirst, Zeros, Places, Turn
<1>6. Window' = Window
  BY <1>1 DEF Window, Filled, SlotOf, aggregator
<1> QED BY <1>1, <1>3, <1>4, <1>5, <1>6 DEF aggregator

LEMMA ResetRefines ==
  ASSUME RInv, NEW hard \in BOOLEAN, Reset(hard)
  PROVE  Controller!Reset /\ RingInv' /\ EmptyInv' /\ ExactInv'
<1>1. /\ histogram_data_' = [k \in Slots |-> 0]
      /\ histogram_data_index_' = 0
      /\ delay_' = Unset /\ delay_samples_' = Unset
      /\ significant_candidate_found_' = (significant_candidate_found_ /\ ~ hard)
  BY DEF Reset, ForgottenData, KeptSignificance
<1> DEFINE data == [k \in Slots |-> 0]
<1>2. ZerosFirst(data, 0) /\ WindowOf(data, 0) = <<>>
  BY EmptyRing
<1>3. DataInv'
  BY <1>1 DEF DataInv
<1>4. Window' = <<>>
  <2>1. Window' = WindowOf(histogram_data_', histogram_data_index_')
    BY <1>3, WindowIsNext
  <2> QED BY <1>1, <1>2, <2>1
<1>5. RingInv'
  BY <1>1, <1>2 DEF RingInv, ZerosFirst, Zeros, Places, Turn
<1>6. significant_candidate_found_' \in {significant_candidate_found_, FALSE}
  BY <1>1 DEF RInv, IInv, TypeOK
<1>7. EmptyInv' /\ ExactInv'
  BY <1>1 DEF EmptyInv, ExactInv
<1> QED BY <1>1, <1>4, <1>5, <1>6, <1>7 DEF Controller!Reset

LEMMA InitRefines == Init => RInv /\ Controller!Init
<1> SUFFICES ASSUME Init PROVE RInv /\ Controller!Init
  OBVIOUS
<1>1. IInv
  BY InitIInv
<1>2. ZerosFirst(histogram_data_, 0) /\ WindowOf(histogram_data_, 0) = <<>>
  BY EmptyRing DEF Init
<1>3. RingInv /\ EmptyInv /\ ExactInv
  BY <1>2 DEF Init, RingInv, EmptyInv, ExactInv
<1>4. Window = <<>>
  <2>1. DataInv
    BY <1>1 DEF IInv
  <2> QED BY <1>2, <2>1, WindowIs DEF Init
<1> QED BY <1>1, <1>3, <1>4 DEF RInv, Controller!Init, Init

LEMMA StepRefines ==
  RInv /\ [Next]_vars =>
    RInv' /\ [Controller!Next]_<<Window, significant_candidate_found_, delay_samples_, delay_>>
<1> SUFFICES ASSUME RInv, [Next]_vars
             PROVE  RInv' /\ [Controller!Next]_<<Window, significant_candidate_found_, delay_samples_, delay_>>
  OBVIOUS
<1>1. IInv'
  BY NextIInv DEF RInv
<1>2. CASE \E best \in ReliableLags : GetDelay(best)
  BY <1>1, <1>2, GetDelayRefines DEF RInv, Controller!Next
<1>3. CASE GetNoDelay
  BY <1>1, <1>3, GetNoDelayRefines DEF RInv
<1>4. CASE \E hard \in BOOLEAN : Reset(hard)
  BY <1>1, <1>4, ResetRefines DEF RInv, Controller!Next
<1>5. CASE UNCHANGED vars
  <2>1. RingInv' /\ EmptyInv' /\ ExactInv'
    BY <1>5 DEF RInv, RingInv, EmptyInv, ExactInv, vars, aggregator, ZerosFirst, Zeros,
                Places, Turn, Blocks
  <2>2. Window' = Window
    BY <1>5 DEF Window, Filled, SlotOf, vars, aggregator
  <2> QED BY <1>1, <1>5, <2>1, <2>2 DEF RInv, vars, aggregator
<1> QED BY <1>2, <1>3, <1>4, <1>5 DEF Next, Capture

-----------------------------------------------------------------------------
(* The theorems                                                            *)

\* Every variable keeps its range: no count leaves the window's size, and the
\* index stays inside the ring.
THEOREM TypeCorrect == Spec => []TypeOK
<1>1. IInv => TypeOK
  BY DEF IInv
<1> QED BY <1>1, Inductive, PTL

\* The histogram never drifts away from the ring of lags it counts.
THEOREM CountsMatchWindow == Spec => []HistogramCounts
<1>1. IInv => HistogramCounts
  BY DEF IInv
<1> QED BY <1>1, Inductive, PTL

\* The render delay covers the echo, whatever the hysteresis did.
THEOREM EchoStaysInView == Spec => []DelayCoversEcho
<1>1. IInv => DelayCoversEcho
  BY DEF IInv
<1> QED BY <1>1, Inductive, PTL

\* A lag more frequent than the converged threshold is the one in use.
THEOREM FrequentLagFound == Spec => []FrequentLagIsUsed
<1>1. IInv => FrequentLagIsUsed
  BY DEF IInv
<1> QED BY <1>1, Inductive, PTL

\* The confidence of the controller and of the aggregator never come apart.
THEOREM ConfidenceAgrees == Spec => []RefinedIsSignificant
<1>1. IInv => RefinedIsSignificant
  BY DEF IInv
<1> QED BY <1>1, Inductive, PTL

\* The zeros of a new history never verify a drift.
THEOREM DriftIsReal == Spec => []DriftWasObserved
<1>1. IInv => DriftWasObserved
  BY DEF IInv
<1> QED BY <1>1, Inductive, PTL

\* Only a reset of the confidence makes the estimates coarse again.
THEOREM ConfidenceLasts == Spec => ConfidenceIsKept
<1> DEFINE Kept == last_delay_estimate_quality_ = "refined" =>
                     last_delay_estimate_quality_' = "refined" \/ Reset(TRUE)
<1>1. IInv /\ [Next]_vars => [Kept]_vars
  <2> SUFFICES ASSUME IInv, Next, last_delay_estimate_quality_ = "refined", ~ Reset(TRUE)
               PROVE  last_delay_estimate_quality_' = "refined"
    OBVIOUS
  <2>1. TypeOK /\ DataInv /\ HistogramCounts /\ DelayCoversEcho /\ significant_candidate_found_
    BY DEF IInv, RefinedIsSignificant
  <2>2. ASSUME NEW best \in ReliableLags, GetDelay(best)
        PROVE  last_delay_estimate_quality_' = "refined"
    <3>1. significant_candidate_found_' = TRUE
      BY <2>1, <2>2 DEF GetDelay, Significant
    <3>2. Quality = "refined"
      BY <3>1 DEF Quality
    <3>3. PICK lag : UseEstimate(lag)
      BY <2>2 DEF GetDelay
    <3> QED BY <3>2, <3>3 DEF UseEstimate, UsedQuality
  <2>3. CASE GetNoDelay
    BY <2>3 DEF GetNoDelay, UseEstimate, UsedQuality
  <2>4. CASE Reset(FALSE)
    BY <2>4 DEF Reset, KeptQuality
  <2> QED BY <2>2, <2>3, <2>4 DEF Next, Capture
<1> QED BY <1>1, Inductive, PTL DEF Spec, ConfidenceIsKept

\* A verified drift is only given up when the estimate has stood still.
THEOREM DriftLasts == Spec => DriftIsSticky
<1> DEFINE Sticky == level_ = "verified" /\ level_' # "verified"
                       => stability_counter_' > StableLimit
<1>1. [Next]_vars => [Sticky]_vars
  <2> SUFFICES ASSUME Next, level_ = "verified", level_' # "verified"
               PROVE  stability_counter_' > StableLimit
    OBVIOUS
  <2>1. ~ UNCHANGED drift
    BY DEF drift
  <2>2. PICK lag : UpdateDrift(lag)
    BY <2>1 DEF Next, Capture, GetDelay, GetNoDelay, Reset
  <2>3. Level(lag) = "verified"
    BY DEF Level
  <2> QED BY <2>2, <2>3 DEF UpdateDrift
<1> QED BY <1>1, PTL DEF Spec, DriftIsSticky

\* The detailed controller keeps the promise of the abstract one.
THEOREM ControllerRefined == Spec => IsDelayController
<1>1. Init => RInv /\ Controller!Init
  BY InitRefines
<1>2. RInv /\ [Next]_vars =>
        RInv' /\ [Controller!Next]_<<Window, significant_candidate_found_, delay_samples_, delay_>>
  BY StepRefines
<1> QED BY <1>1, <1>2, PTL DEF Spec, IsDelayController, Controller!Spec

\* With the converged threshold the configuration may set to the size of the
\* window, no count is above it: no lag is ever significant and every estimate
\* stays coarse, so the clock drift detector and the hysteresis never work.
THEOREM NeverRefined ==
  ASSUME Converged = HistorySize
  PROVE  Spec => [](/\ ~ significant_candidate_found_
                   /\ last_delay_estimate_quality_ = "coarse")
<1> DEFINE Coarse == ~ significant_candidate_found_ /\ last_delay_estimate_quality_ = "coarse"
<1>1. Init => Coarse
  BY DEF Init
<1>2. IInv /\ Coarse /\ [Next]_vars => Coarse'
  <2> SUFFICES ASSUME IInv, Coarse, [Next]_vars PROVE Coarse'
    OBVIOUS
  <2>1. ASSUME NEW best \in ReliableLags, GetDelay(best) PROVE Coarse'
    <3> DEFINE counts == Counted(best)
               candidate == Candidate(counts)
               lag == Aggregated(candidate, counts[candidate])
    <3>1. counts \in [Lags -> - HistorySize .. HistorySize]
      BY AggregateStep DEF IInv
    <3>2. significant_candidate_found_' = Significant(counts[candidate]) /\ UseEstimate(lag)
      BY <2>1 DEF GetDelay
    <3> HIDE DEF counts, lag
    <3>3. \A l \in Lags : counts[l] \in Int /\ counts[l] <= HistorySize
      BY <3>1, ThresholdsAssumption
    <3>4. candidate \in Lags
      <4>1. counts \in [Lags -> Int]
        BY <3>1, <3>3
      <4> QED BY <3>3, <4>1, CandidateIsMode
    <3> HIDE DEF candidate
    <3>5. ~ (counts[candidate] > Converged)
      BY <3>3, <3>4, ThresholdsAssumption
    <3>6. ~ significant_candidate_found_'
      BY <3>2, <3>5 DEF Significant
    <3>7. last_delay_estimate_quality_' = "coarse"
      BY <3>2, <3>6 DEF UseEstimate, UsedQuality, Quality
    <3> QED BY <3>6, <3>7
  <2>2. CASE GetNoDelay
    BY <2>2 DEF GetNoDelay, aggregator, UseEstimate, UsedQuality
  <2>3. CASE \E hard \in BOOLEAN : Reset(hard)
    BY <2>3 DEF Reset, KeptSignificance, KeptQuality
  <2>4. CASE UNCHANGED vars
    BY <2>4 DEF vars, aggregator
  <2> QED BY <2>1, <2>2, <2>3, <2>4 DEF Next, Capture
<1> QED BY <1>1, <1>2, Inductive, PTL DEF Spec

\* No lag asks for more blocks than its samples fill.
LEMMA BlocksBound ==
  ASSUME NEW lag \in Lags, NEW n \in Nat, lag * DownSampling <= n * BlockSize
  PROVE  Blocks(lag) <= n
<1>1. DownSampling \in Nat /\ Headroom \in Nat /\ BlockSize \in Nat \ {0} /\ lag \in Nat
  BY FiltersAssumption, LagsAreNaturals
<1> DEFINE samples == lag * DownSampling - Headroom
           q == samples \div BlockSize
           whole == n * BlockSize
<1>2. samples \in Int /\ whole \in Int /\ samples <= whole
  <2> DEFINE product == lag * DownSampling
  <2>1. product \in Nat /\ whole \in Nat
    BY <1>1
  <2> HIDE DEF product, whole
  <2>2. product <= whole
    BY DEF product, whole
  <2> QED BY <1>1, <2>1, <2>2 DEF product
<1>3. samples >= 0 => q \in Nat /\ BlockSize * q <= samples
  <2> HIDE DEF samples
  <2> QED BY <1>1, <1>2, SMT
<1>4. ASSUME samples >= 0, q > n PROVE FALSE
  <2> HIDE DEF samples, q
  <2>1. q \in Nat /\ BlockSize * q <= samples /\ q - n - 1 \in Nat
    BY <1>3, <1>4
  <2> DEFINE d == q - n - 1
  <2>2. d \in Nat /\ BlockSize * d \in Nat /\ q = d + n + 1
    BY <1>1, <2>1
  <2>3. BlockSize * q = BlockSize * d + n * BlockSize + BlockSize
    <3> HIDE DEF d
    <3>1. BlockSize * q = BlockSize * (d + n + 1)
      BY <2>2
    <3> QED BY <1>1, <2>2, <3>1
  <2> DEFINE p == BlockSize * d
             r == BlockSize * q
  <2> HIDE DEF d, p, r, whole
  <2>4. r = p + whole + BlockSize /\ p \in Nat /\ r <= samples
    BY <2>1, <2>2, <2>3 DEF p, r, whole
  <2> QED BY <1>1, <1>2, <2>4
<1>5. Blocks(lag) = IF samples < 0 THEN 0 ELSE q
  BY DEF Blocks
<1> QED
  <2> HIDE DEF samples, q
  <2> QED BY <1>2, <1>3, <1>4, <1>5

\* The render buffer is given one block more than the matched filters span
\* (n blocks): a delay of the controller always has a place in it.
THEOREM DelayFitsBuffer ==
  ASSUME NEW n \in Nat, MaxFilterLag * DownSampling <= n * BlockSize
  PROVE  Spec => [](delay_ # Unset => delay_ \in 0 .. n)
<1>1. RInv => (delay_ # Unset => delay_ \in 0 .. n)
  <2> SUFFICES ASSUME RInv, delay_ # Unset PROVE delay_ \in 0 .. n
    OBVIOUS
  <2>1. delay_ \in Nat /\ delay_samples_ \in Lags /\ delay_ <= Blocks(delay_samples_)
    BY DEF RInv, IInv, TypeOK, EmptyInv, DelayCoversEcho
  <2>2. delay_samples_ * DownSampling <= n * BlockSize
    <3> DEFINE d == MaxFilterLag - delay_samples_
    <3>1. /\ DownSampling \in Nat /\ MaxFilterLag \in Nat /\ BlockSize \in Nat
          /\ delay_samples_ \in Nat /\ d \in Nat /\ MaxFilterLag = d + delay_samples_
      BY <2>1, FiltersAssumption, LagsAreNaturals DEF Lags
    <3> HIDE DEF d
    <3>2. d * DownSampling \in Nat /\ delay_samples_ * DownSampling \in Nat
          /\ MaxFilterLag * DownSampling = d * DownSampling + delay_samples_ * DownSampling
      BY <3>1
    <3> DEFINE a == MaxFilterLag * DownSampling
               b == d * DownSampling
               c == delay_samples_ * DownSampling
               e == n * BlockSize
    <3>3. a = b + c /\ b \in Nat /\ c \in Nat /\ a <= e /\ e \in Nat
      BY <3>1, <3>2
    <3>4. c <= e
      <4> HIDE DEF a, b, c, e
      <4> QED BY <3>3
    <3> QED BY <3>4
  <2>3. Blocks(delay_samples_) <= n
    BY <2>1, <2>2, BlocksBound
  <2>4. Blocks(delay_samples_) \in Nat
    BY <2>1, BlocksType
  <2> QED BY <2>1, <2>3, <2>4
<1>2. Init => RInv
  BY InitRefines
<1>3. RInv /\ [Next]_vars => RInv'
  BY StepRefines
<1> QED BY <1>1, <1>2, <1>3, PTL DEF Spec

\* What the block processor relies on: no capture block loses the estimate.
THEOREM EstimateIsKept ==
  Spec => [][delay_ # Unset => delay_' # Unset \/ \E hard \in BOOLEAN : Reset(hard)]_vars
<1> DEFINE Kept == delay_ # Unset => delay_' # Unset \/ \E hard \in BOOLEAN : Reset(hard)
<1>1. RInv /\ RInv' /\ [Next]_vars => [Kept]_vars
  <2> SUFFICES ASSUME RInv, RInv', Next, delay_ # Unset, ~ \E hard \in BOOLEAN : Reset(hard)
               PROVE  delay_' # Unset
    OBVIOUS
  <2>1. delay_samples_ # Unset
    BY DEF RInv, EmptyInv
  <2>2. delay_samples_' # Unset
    BY <2>1 DEF Next, Capture, GetDelay, GetNoDelay, UseEstimate
  <2> QED BY <2>2 DEF RInv, IInv, DelayCoversEcho
<1>2. Init => RInv
  BY InitRefines
<1>3. RInv /\ [Next]_vars => RInv'
  BY StepRefines
<1> QED BY <1>1, <1>2, <1>3, PTL DEF Spec
=============================================================================
