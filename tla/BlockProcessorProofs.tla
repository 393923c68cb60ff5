------------------------ MODULE BlockProcessorProofs ------------------------
(***************************************************************************)
(* The alignment of the render delay buffer under every order of calls of  *)
(* the block processor, for all buffer sizes, filter lengths and delays,   *)
(* with the delay estimated by the delay controller; its excess detector,  *)
(* for all detection intervals and with either estimator; and what is left *)
(* of the alignment with the external one.                                 *)
(*                                                                         *)
(* Validate lets any default delay from 0 to 5000 blocks pass              *)
(* (api/echo_canceller3_config.cc:111).  Each theorem states what it needs *)
(* of it: mostly that OffsetIndex accepts it, and for a delay that is      *)
(* never negative at least one block.                                      *)
(***************************************************************************)
EXTENDS BlockProcessor, TLAPS

-----------------------------------------------------------------------------
(* Indices                                                                 *)

\* An index moved back or forward by less than the ring.
LEMMA RingFacts ==
    ASSUME NEW n \in Nat \ {0}, NEW i \in 0 .. n - 1, NEW j \in 0 .. n - 1
    PROVE  /\ OffsetIndex(i, - j, n) = IF i >= j THEN i - j ELSE n + i - j
           /\ OffsetIndex(i, j, n) = IF i + j < n THEN i + j ELSE i + j - n
  <1> DEFINE down == n + i - j
             up == n + i + j
  <1>1. down \in Nat /\ down < 2 * n /\ up \in Nat /\ up >= n /\ up < 3 * n
    OBVIOUS
  <1>2. n + i + (- j) = down /\ n + i + j = up
    OBVIOUS
  <1> HIDE DEF down, up
  <1>3. down % n = IF down < n THEN down ELSE down - n
    BY <1>1
  <1>4. up % n = IF up < 2 * n THEN up - n ELSE up - 2 * n
    BY <1>1
  <1>5. /\ OffsetIndex(i, - j, n) = down % n
        /\ OffsetIndex(i, j, n) = up % n
    BY <1>1, <1>2 DEF OffsetIndex
  <1> QED
    BY <1>2, <1>3, <1>4, <1>5 DEF down, up

\* A stepped index stays in its ring.
LEMMA StepFacts ==
    ASSUME NEW n \in Nat \ {0}, NEW i \in Indices(n)
    PROVE  IncIndex(i, n) \in Indices(n) /\ DecIndex(i, n) \in Indices(n)
  BY DEF IncIndex, DecIndex, Indices

\* Both distances in terms of the indices, and lockstep as their equality.
LEMMA Distances ==
    ASSUME NEW b \in BufferType
    PROVE  /\ BlocksSize = LowRateSize + FilterLength + 1
           /\ MaxDelay = LowRateSize
           /\ BufferLatency(b) = IF b.lr_read >= b.lr_write
                                   THEN b.lr_read - b.lr_write
                                   ELSE LowRateSize + b.lr_read - b.lr_write
           /\ BufferLatency(b) \in 0 .. LowRateSize - 1
           /\ InternalDelay(b) \in 0 .. BlocksSize - 1
           /\ InLockstep(b) <=>
                InternalDelay(b) = IF b.b_write >= b.b_read
                                     THEN b.b_write - b.b_read
                                     ELSE BlocksSize + b.b_write - b.b_read
  <1> USE SizeAssumption
  <1>1. /\ BlocksSize = LowRateSize + FilterLength + 1
        /\ MaxDelay = LowRateSize
    BY DEF BlocksSize, MaxDelay
  <1>2. /\ b.lr_read \in 0 .. LowRateSize - 1
        /\ b.lr_write \in 0 .. LowRateSize - 1
        /\ b.s_read \in 0 .. BlocksSize - 1
        /\ b.s_write \in 0 .. BlocksSize - 1
        /\ b.b_read \in 0 .. BlocksSize - 1
        /\ b.b_write \in 0 .. BlocksSize - 1
    BY DEF BufferType, Indices
  <1> DEFINE latency == LowRateSize + b.lr_read - b.lr_write
             distance == b.b_write - b.b_read + BlocksSize
  <1>3. /\ latency \in 1 .. 2 * LowRateSize - 1
        /\ distance \in 1 .. 2 * BlocksSize - 1
    BY <1>1, <1>2
  <1> HIDE DEF latency, distance
  <1>4. latency % LowRateSize
          = IF latency < LowRateSize THEN latency ELSE latency - LowRateSize
    BY <1>3
  <1>5. distance % BlocksSize
          = IF distance < BlocksSize THEN distance ELSE distance - BlocksSize
    BY <1>1, <1>3
  <1>6. BufferLatency(b) = latency % LowRateSize
    BY DEF BufferLatency, latency
  <1>7. InLockstep(b) <=> distance % BlocksSize = InternalDelay(b)
    BY DEF InLockstep, distance
  <1>8. InternalDelay(b) \in 0 .. BlocksSize - 1
    BY <1>1, <1>2 DEF InternalDelay
  <1> QED
    BY <1>1, <1>2, <1>4, <1>5, <1>6, <1>7, <1>8 DEF latency, distance

\* Applying a total delay within the ring sets the distance to it.
LEMMA ApplyFacts ==
    ASSUME NEW b \in BufferType, NEW d \in 0 .. BlocksSize - 1
    PROVE  LET c == ApplyTotalDelay(b, d)
           IN  /\ c \in BufferType
               /\ InLockstep(c)
               /\ InternalDelay(c) = d
               /\ BufferLatency(c) = BufferLatency(b)
               /\ c.delay = b.delay
               /\ c.external = b.external
  <1> USE SizeAssumption
  <1> DEFINE c == ApplyTotalDelay(b, d)
             r == OffsetIndex(b.b_write, - d, BlocksSize)
             s == OffsetIndex(b.s_write, d, BlocksSize)
  <1>1. BlocksSize \in Nat \ {0}
    BY DEF BlocksSize
  <1>2. /\ b.b_write \in 0 .. BlocksSize - 1
        /\ b.s_write \in 0 .. BlocksSize - 1
    BY DEF BufferType, Indices
  <1>3. r = IF b.b_write >= d THEN b.b_write - d ELSE BlocksSize + b.b_write - d
    BY <1>1, <1>2, RingFacts
  <1>4. s = IF b.s_write + d < BlocksSize THEN b.s_write + d
            ELSE b.s_write + d - BlocksSize
    BY <1>1, <1>2, RingFacts
  <1>5. r \in 0 .. BlocksSize - 1 /\ s \in 0 .. BlocksSize - 1
    BY <1>1, <1>2, <1>3, <1>4
  <1> HIDE DEF r, s
  <1>6. c = [b EXCEPT !.b_read = r, !.s_read = s]
    BY DEF ApplyTotalDelay, r, s
  <1>7. c \in BufferType
    BY <1>5, <1>6 DEF BufferType, Indices
  <1>8. /\ c.b_read = r /\ c.s_read = s
        /\ c.b_write = b.b_write /\ c.s_write = b.s_write
        /\ c.lr_read = b.lr_read /\ c.lr_write = b.lr_write
        /\ c.delay = b.delay /\ c.external = b.external
    BY <1>6 DEF BufferType
  <1> HIDE DEF c
  <1>9. InternalDelay(c) = d
    BY <1>1, <1>2, <1>4, <1>8 DEF InternalDelay
  <1>10. InLockstep(c)
    BY <1>1, <1>2, <1>3, <1>7, <1>8, <1>9, Distances
  <1>11. BufferLatency(c) = BufferLatency(b)
    BY <1>8 DEF BufferLatency
  <1> QED
    BY <1>7, <1>8, <1>9, <1>10, <1>11 DEF c

\* Indices in their rings, and blocks and spectra at one distance.
Paired(b) == b \in BufferType /\ InLockstep(b)

\* A remainder of less than three turns.
LEMMA ThirdTurn ==
    ASSUME NEW n \in Nat \ {0}, NEW x \in 0 .. 3 * n - 1
    PROVE  x % n = IF x < n THEN x ELSE IF x < 2 * n THEN x - n ELSE x - 2 * n
  <1>1. CASE x < n
    BY <1>1
  <1>2. CASE n <= x /\ x < 2 * n
    BY <1>2
  <1>3. CASE 2 * n <= x
    BY <1>3
  <1> QED
    BY <1>1, <1>2, <1>3

\* A delay of up to a ring in either direction keeps the pairs together.
LEMMA ApplyPaired ==
    ASSUME NEW b \in BufferType, NEW d \in Int,
           d <= BlocksSize, - d <= BlocksSize
    PROVE  Paired(ApplyTotalDelay(b, d))
  <1> DEFINE n == BlocksSize
             up == n + b.s_write + d
             down == n + b.b_write - d
             r == down % n
             s == up % n
             c == ApplyTotalDelay(b, d)
  <1>1. /\ n \in Nat \ {0}
        /\ b.b_write \in 0 .. n - 1 /\ b.s_write \in 0 .. n - 1
    BY SizeAssumption DEF BlocksSize, BufferType, Indices
  <1>2. up \in 0 .. 3 * n - 1 /\ down \in 0 .. 3 * n - 1
    BY <1>1
  <1>3. /\ OffsetIndex(b.b_write, - d, n) = r
        /\ OffsetIndex(b.s_write, d, n) = s
    <2>1. n + b.b_write + (- d) = down
      BY <1>1
    <2>2. OffsetIndex(b.b_write, - d, n) = r
      BY <1>2, <2>1 DEF OffsetIndex
    <2>3. OffsetIndex(b.s_write, d, n) = s
      BY <1>2 DEF OffsetIndex
    <2> QED
      BY <2>2, <2>3
  <1>4. /\ s = IF up < n THEN up ELSE IF up < 2 * n THEN up - n ELSE up - 2 * n
        /\ r = IF down < n THEN down
               ELSE IF down < 2 * n THEN down - n ELSE down - 2 * n
    <2> HIDE DEF n, up, down
    <2> QED
      BY <1>1, <1>2, ThirdTurn
  <1>5. c = [b EXCEPT !.b_read = r, !.s_read = s]
    BY <1>3 DEF ApplyTotalDelay
  <1>6. r \in 0 .. n - 1 /\ s \in 0 .. n - 1
    BY <1>1, <1>2, <1>4
  <1> HIDE DEF c, r, s
  <1>7. /\ c \in BufferType
        /\ c.b_read = r /\ c.s_read = s
        /\ c.b_write = b.b_write /\ c.s_write = b.s_write
    BY <1>5, <1>6 DEF BufferType, Indices
  <1>8. InLockstep(c)
    <2>1. InternalDelay(c) = IF s >= b.s_write THEN s - b.s_write
                             ELSE n + s - b.s_write
      BY <1>7 DEF InternalDelay
    <2>2. InternalDelay(c) = IF b.b_write >= r THEN b.b_write - r
                             ELSE n + b.b_write - r
      BY <1>1, <1>4, <1>6, <2>1
    <2> QED
      BY <1>7, <2>2, Distances
  <1> QED
    BY <1>7, <1>8 DEF Paired, c

-----------------------------------------------------------------------------
(* The buffer                                                              *)

\* The assertion of OffsetIndex, for the delay a reset applies.
DefaultAllowed == OffsetAllowed(DefaultDelay, BlocksSize)

\* A default delay that leaves a reset buffer behind the estimator: OffsetIndex
\* takes a delay of the whole ring for none.
DefaultIsBehind == DefaultDelay \in 1 .. BlocksSize - 1

\* What every method preserves.  Only a reset to the default delay can put the
\* echo remover ahead of the estimator, and it leaves no delay to believe in.
Good(b) ==
    /\ b \in BufferType
    /\ InLockstep(b)
    /\ DefaultIsBehind \/ b.delay # Unset => NotAhead(b)
    /\ NotExceeded(b)

\* Reset needs nothing of the buffer but types: whatever the indices were, it
\* leaves one unread block and an aligned echo remover.
LEMMA ResetGood ==
    ASSUME DefaultAllowed, NEW b \in BufferType
    PROVE  /\ Good(Reset(b))
           /\ BufferLatency(Reset(b)) = 1
           /\ Reset(b).external = b.external
           /\ b.external = Unset => Reset(b).delay = Unset
           /\ b.external # Unset => Reset(b).delay # Unset
           /\ b.external # Unset \/ DefaultDelay \in 1 .. MaxDelay =>
                InternalDelay(Reset(b)) \in 1 .. MaxDelay
           /\ Reset(b).delay # Unset => ComputeDelay(Reset(b)) = Reset(b).delay
  <1> USE SizeAssumption
  <1> DEFINE c == [b EXCEPT !.min_latency = 0,
                            !.excess_counter = 0,
                            !.lr_read = IncIndex(b.lr_write, LowRateSize)]
  <1>1. /\ BlocksSize \in Nat /\ MaxDelay = LowRateSize
        /\ MaxDelay < BlocksSize
    BY DEF BlocksSize, MaxDelay
  <1>2. /\ c \in BufferType
        /\ c.external = b.external
        /\ c.lr_write = b.lr_write
        /\ c.lr_read = IncIndex(b.lr_write, LowRateSize)
    <2> DEFINE i == IncIndex(b.lr_write, LowRateSize)
    <2>1. i \in Indices(LowRateSize)
      BY StepFacts DEF BufferType
    <2>2. 0 \in Indices(LowRateSize) /\ 0 \in Indices(DetectionInterval)
      BY DEF Indices
    <2> HIDE DEF i
    <2>3. c = [b EXCEPT !.min_latency = 0, !.excess_counter = 0, !.lr_read = i]
      BY DEF i
    <2>4. c \in BufferType /\ c.lr_read = i
      BY <2>1, <2>2, <2>3 DEF BufferType
    <2> QED
      BY <2>3, <2>4 DEF BufferType, i
  <1> HIDE DEF c
  <1>3. BufferLatency(c) = 1
    BY <1>2, Distances DEF IncIndex, BufferType, Indices
  <1>4. CASE b.external # Unset
    <2> DEFINE d == FeasibleExternalDelay(b.external)
               set == ApplyTotalDelay(c, d)
    <2>1. b.external \in Int
      BY <1>4 DEF BufferType
    <2>2. d \in 1 .. MaxDelay
      BY <1>1, <2>1 DEF FeasibleExternalDelay, Smaller
    <2>3. d \in 0 .. BlocksSize - 1
      BY <1>1, <2>2
    <2> HIDE DEF d
    <2>4. /\ set \in BufferType /\ InLockstep(set)
          /\ InternalDelay(set) = d /\ BufferLatency(set) = 1
          /\ set.external = b.external
      BY <1>2, <1>3, <2>3, ApplyFacts
    <2>5. Reset(b) = [set EXCEPT !.delay = ComputeDelay(set)]
      BY <1>2, <1>4 DEF Reset, c, d
    <2> HIDE DEF set
    <2>6. ComputeDelay(set) \in Nat
      BY <1>1, <2>2, <2>4 DEF ComputeDelay
    <2>7. /\ Reset(b) \in BufferType
          /\ Reset(b).delay = ComputeDelay(set)
          /\ Reset(b).external = b.external
          /\ InternalDelay(Reset(b)) = InternalDelay(set)
          /\ BufferLatency(Reset(b)) = BufferLatency(set)
          /\ InLockstep(Reset(b))
      BY <2>4, <2>5, <2>6
      DEF BufferType, InternalDelay, BufferLatency, InLockstep
    <2> QED
      BY <1>1, <1>4, <2>2, <2>4, <2>6, <2>7
      DEF Good, NotAhead, NotExceeded, ComputeDelay
  <1>5. CASE b.external = Unset
    <2> DEFINE set == ApplyTotalDelay(c, DefaultDelay)
    <2>1. /\ DefaultDelay \in Int /\ DefaultDelay <= BlocksSize
          /\ - DefaultDelay <= BlocksSize
      BY <1>1 DEF DefaultAllowed, OffsetAllowed
    <2>2. set \in BufferType /\ InLockstep(set)
      BY <1>2, <2>1, ApplyPaired DEF Paired
    <2>3. /\ BufferLatency(set) = 1
          /\ set.external = b.external
      BY <1>2, <1>3 DEF ApplyTotalDelay, BufferType, BufferLatency
    <2>4. DefaultIsBehind => InternalDelay(set) = DefaultDelay
      BY <1>2, ApplyFacts DEF DefaultIsBehind
    <2>5. Reset(b) = [set EXCEPT !.delay = Unset]
      BY <1>2, <1>5 DEF Reset, c
    <2> HIDE DEF set
    <2>6. /\ Reset(b) \in BufferType
          /\ Reset(b).delay = Unset
          /\ Reset(b).external = b.external
          /\ InternalDelay(Reset(b)) = InternalDelay(set)
          /\ BufferLatency(Reset(b)) = BufferLatency(set)
          /\ InLockstep(Reset(b))
      BY <2>2, <2>3, <2>5
      DEF BufferType, InternalDelay, BufferLatency, InLockstep
    <2>7. DefaultIsBehind => NotAhead(Reset(b))
      BY <1>1, <2>3, <2>4, <2>6 DEF NotAhead, DefaultIsBehind
    <2>8. DefaultDelay \in 1 .. MaxDelay => InternalDelay(Reset(b)) \in 1 .. MaxDelay
      BY <1>1, <2>4, <2>6 DEF DefaultIsBehind
    <2> QED
      BY <1>5, <2>3, <2>6, <2>7, <2>8 DEF Good, NotExceeded
  <1> QED
    BY <1>4, <1>5

\* A written block moves both distances up by one, unless a write index runs
\* into a read index.
LEMMA WriteFacts ==
    ASSUME NEW b \in BufferType, InLockstep(b)
    PROVE  LET c == IncrementWriteIndices(b)
           IN  /\ c \in BufferType
               /\ c.delay = b.delay /\ c.external = b.external
               /\ ~ LowRateMeets(c) => BufferLatency(c) = BufferLatency(b) + 1
               /\ ~ BlocksMeet(c) =>
                    InLockstep(c) /\ InternalDelay(c) = InternalDelay(b) + 1
  <1> USE SizeAssumption
  <1> DEFINE c == IncrementWriteIndices(b)
  <1>1. BlocksSize \in Nat \ {0}
    BY DEF BlocksSize
  <1>2. /\ c \in BufferType
        /\ c.lr_write = DecIndex(b.lr_write, LowRateSize)
        /\ c.b_write = IncIndex(b.b_write, BlocksSize)
        /\ c.s_write = DecIndex(b.s_write, BlocksSize)
        /\ c.lr_read = b.lr_read /\ c.b_read = b.b_read
        /\ c.s_read = b.s_read
        /\ c.delay = b.delay /\ c.external = b.external
    <2> DEFINE i == DecIndex(b.lr_write, LowRateSize)
               j == IncIndex(b.b_write, BlocksSize)
               k == DecIndex(b.s_write, BlocksSize)
    <2>1. /\ i \in Indices(LowRateSize)
          /\ j \in Indices(BlocksSize) /\ k \in Indices(BlocksSize)
      BY <1>1, StepFacts DEF BufferType
    <2> HIDE DEF i, j, k
    <2>2. c = [b EXCEPT !.lr_write = i, !.b_write = j, !.s_write = k]
      BY DEF IncrementWriteIndices, i, j, k
    <2>3. c \in BufferType
      BY <2>1, <2>2 DEF BufferType
    <2> QED
      BY <2>2, <2>3 DEF BufferType, i, j, k
  <1> HIDE DEF c
  <1>3. ASSUME ~ LowRateMeets(c)
        PROVE  BufferLatency(c) = BufferLatency(b) + 1
    BY <1>2, <1>3, Distances DEF LowRateMeets, DecIndex, BufferType, Indices
  <1>4. ASSUME ~ BlocksMeet(c)
        PROVE  InLockstep(c) /\ InternalDelay(c) = InternalDelay(b) + 1
    <2>1. /\ b.b_write \in 0 .. BlocksSize - 1
          /\ b.b_read \in 0 .. BlocksSize - 1
          /\ b.s_write \in 0 .. BlocksSize - 1
          /\ b.s_read \in 0 .. BlocksSize - 1
      BY DEF BufferType, Indices
    <2>2. InternalDelay(b) = IF b.b_write >= b.b_read
                               THEN b.b_write - b.b_read
                               ELSE BlocksSize + b.b_write - b.b_read
      BY Distances
    <2>3. InternalDelay(c) = InternalDelay(b) + 1
      <3>1. InternalDelay(b) # BlocksSize - 1
        BY <1>1, <1>2, <1>4, <2>1, <2>2 DEF BlocksMeet, IncIndex
      <3>2. c.s_write = IF b.s_write > 0 THEN b.s_write - 1 ELSE BlocksSize - 1
        BY <1>2 DEF DecIndex
      <3> QED
        BY <1>1, <1>2, <2>1, <3>1, <3>2 DEF InternalDelay
    <2>4. InternalDelay(c) = IF c.b_write >= c.b_read
                               THEN c.b_write - c.b_read
                               ELSE BlocksSize + c.b_write - c.b_read
      BY <1>1, <1>2, <1>4, <2>1, <2>2, <2>3 DEF BlocksMeet, IncIndex
    <2> QED
      BY <1>2, <2>3, <2>4, Distances
  <1> QED
    BY <1>2, <1>3, <1>4 DEF c

\* Insert: an overrun resets the buffer, any other block is one more to read.
LEMMA InsertGood ==
    ASSUME DefaultAllowed, NEW b, Good(b), ~ UseExternalEstimator
    PROVE  /\ Good(Insert(b))
           /\ Insert(b).external = b.external
           /\ ~ InsertOverruns(b) => Insert(b).delay = b.delay
  <1> DEFINE c == IncrementWriteIndices(b)
  <1>1. Insert(b) = IF InsertOverruns(b) THEN Reset(c) ELSE c
    BY DEF Insert, CountCall
  <1>2. InsertOverruns(b) <=> LowRateMeets(c) \/ BlocksMeet(c)
    BY DEF InsertOverruns, RenderOverrun
  <1>3. /\ c \in BufferType
        /\ c.delay = b.delay /\ c.external = b.external
        /\ ~ LowRateMeets(c) => BufferLatency(c) = BufferLatency(b) + 1
        /\ ~ BlocksMeet(c) =>
             InLockstep(c) /\ InternalDelay(c) = InternalDelay(b) + 1
    BY WriteFacts DEF Good
  <1> HIDE DEF c
  <1>4. CASE InsertOverruns(b)
    BY <1>1, <1>3, <1>4, ResetGood
  <1>5. CASE ~ InsertOverruns(b)
    <2>1. /\ BufferLatency(b) \in Nat /\ InternalDelay(b) \in Nat
      BY Distances DEF Good
    <2>2. b.delay # Unset => b.delay \in Nat
      BY DEF Good, BufferType
    <2>3. /\ NotAhead(b) => NotAhead(c)
          /\ NotExceeded(c)
      BY <1>2, <1>3, <1>5, <2>1, <2>2
      DEF Good, NotAhead, NotExceeded, ComputeDelay
    <2> QED
      BY <1>1, <1>2, <1>3, <1>5, <2>3 DEF Good
  <1> QED
    BY <1>4, <1>5

\* Reading a block moves the echo remover one closer to the newest, unless it
\* has caught up; the latency does not change.
LEMMA ReadFacts ==
    ASSUME NEW b \in BufferType, InLockstep(b)
    PROVE  LET c == IncrementReadIndices(b)
           IN  /\ c \in BufferType
               /\ c.delay = b.delay /\ c.external = b.external
               /\ BufferLatency(c) = BufferLatency(b)
               /\ InLockstep(c)
               /\ InternalDelay(c) = IF InternalDelay(b) = 0 THEN 0
                                     ELSE InternalDelay(b) - 1
  <1> USE SizeAssumption
  <1> DEFINE c == IncrementReadIndices(b)
  <1>1. BlocksSize \in Nat \ {0}
    BY DEF BlocksSize
  <1>2. /\ b.b_write \in 0 .. BlocksSize - 1
        /\ b.b_read \in 0 .. BlocksSize - 1
        /\ b.s_write \in 0 .. BlocksSize - 1
        /\ b.s_read \in 0 .. BlocksSize - 1
    BY DEF BufferType, Indices
  <1>3. InternalDelay(b) = IF b.b_write >= b.b_read
                             THEN b.b_write - b.b_read
                             ELSE BlocksSize + b.b_write - b.b_read
    BY Distances
  <1>4. BlocksMeet(b) <=> InternalDelay(b) = 0
    BY <1>1, <1>2, <1>3 DEF BlocksMeet
  <1>5. CASE BlocksMeet(b)
    BY <1>4, <1>5 DEF IncrementReadIndices
  <1>6. CASE ~ BlocksMeet(b)
    <2> DEFINE i == IncIndex(b.b_read, BlocksSize)
               j == DecIndex(b.s_read, BlocksSize)
    <2>1. i \in Indices(BlocksSize) /\ j \in Indices(BlocksSize)
      BY <1>1, StepFacts DEF BufferType
    <2>2. c = [b EXCEPT !.b_read = i, !.s_read = j]
      BY <1>6 DEF IncrementReadIndices
    <2> HIDE DEF i, j, c
    <2>3. /\ c \in BufferType
          /\ c.delay = b.delay /\ c.external = b.external
          /\ c.lr_read = b.lr_read /\ c.lr_write = b.lr_write
          /\ c.b_write = b.b_write /\ c.s_write = b.s_write
          /\ c.b_read = i /\ c.s_read = j
      BY <2>1, <2>2 DEF BufferType
    <2>4. /\ c.b_read = IF b.b_read < BlocksSize - 1 THEN b.b_read + 1 ELSE 0
          /\ c.s_read = IF b.s_read > 0 THEN b.s_read - 1 ELSE BlocksSize - 1
      BY <2>3 DEF i, j, IncIndex, DecIndex
    <2>5. InternalDelay(c) = InternalDelay(b) - 1
      BY <1>1, <1>2, <1>4, <1>6, <2>3, <2>4 DEF InternalDelay
    <2>6. InternalDelay(c) = IF c.b_write >= c.b_read
                               THEN c.b_write - c.b_read
                               ELSE BlocksSize + c.b_write - c.b_read
      BY <1>1, <1>2, <1>3, <1>6, <2>3, <2>4, <2>5 DEF BlocksMeet
    <2>7. BufferLatency(c) = BufferLatency(b)
      BY <2>3 DEF BufferLatency
    <2> QED
      BY <1>4, <1>6, <2>3, <2>5, <2>6, <2>7, Distances DEF c
  <1> QED
    BY <1>5, <1>6

\* Reading the low-rate buffer lowers a positive latency by one.
LEMMA LowRateReadFacts ==
    ASSUME NEW b \in BufferType, BufferLatency(b) > 0
    PROVE  LET c == IncrementLowRateReadIndices(b)
           IN  /\ c \in BufferType
               /\ c.delay = b.delay /\ c.external = b.external
               /\ BufferLatency(c) = BufferLatency(b) - 1
               /\ InLockstep(c) <=> InLockstep(b)
               /\ InternalDelay(c) = InternalDelay(b)
  <1> USE SizeAssumption
  <1> DEFINE c == IncrementLowRateReadIndices(b)
             i == DecIndex(b.lr_read, LowRateSize)
  <1>1. i \in Indices(LowRateSize)
    BY StepFacts DEF BufferType
  <1>2. c = [b EXCEPT !.lr_read = i]
    BY DEF IncrementLowRateReadIndices
  <1> HIDE DEF i, c
  <1>3. /\ c \in BufferType
        /\ c.delay = b.delay /\ c.external = b.external
        /\ c.lr_read = i /\ c.lr_write = b.lr_write
        /\ c.b_write = b.b_write /\ c.s_write = b.s_write
        /\ c.b_read = b.b_read /\ c.s_read = b.s_read
    BY <1>1, <1>2 DEF BufferType
  <1>4. BufferLatency(c) = BufferLatency(b) - 1
    BY <1>3, Distances DEF i, DecIndex, BufferType, Indices
  <1>5. InternalDelay(c) = InternalDelay(b) /\ (InLockstep(c) <=> InLockstep(b))
    BY <1>3 DEF InternalDelay, InLockstep
  <1> QED
    BY <1>3, <1>4, <1>5 DEF c

\* The bookkeeping of the excess detector touches nothing else.
LEMMA DetectFacts ==
    ASSUME NEW b, Good(b)
    PROVE  LET c == DetectExcessRenderBlocks(b)
           IN  /\ Good(c)
               /\ BufferLatency(c) = BufferLatency(b)
               /\ InternalDelay(c) = InternalDelay(b)
               /\ c.delay = b.delay /\ c.external = b.external
  <1> USE SizeAssumption
  <1> DEFINE c == DetectExcessRenderBlocks(b)
             m == IF IntervalEnds(b) THEN BufferLatency(b) ELSE MinLatency(b)
             n == IF IntervalEnds(b) THEN 0 ELSE b.excess_counter + 1
  <1>0. b \in BufferType
    BY DEF Good
  <1>1. m \in Indices(LowRateSize) /\ n \in Indices(DetectionInterval)
    BY <1>0, Distances
    DEF MinLatency, Smaller, IntervalEnds, BufferType, Indices
  <1>2. c = [b EXCEPT !.min_latency = m, !.excess_counter = n]
    BY <1>0 DEF DetectExcessRenderBlocks, BufferType
  <1> HIDE DEF c, m, n
  <1>3. /\ c \in BufferType
        /\ c.delay = b.delay /\ c.external = b.external
        /\ c.lr_read = b.lr_read /\ c.lr_write = b.lr_write
        /\ c.b_write = b.b_write /\ c.s_write = b.s_write
        /\ c.b_read = b.b_read /\ c.s_read = b.s_read
    BY <1>0, <1>1, <1>2 DEF BufferType
  <1>4. /\ BufferLatency(c) = BufferLatency(b)
        /\ InternalDelay(c) = InternalDelay(b)
        /\ InLockstep(c) <=> InLockstep(b)
    BY <1>3 DEF BufferLatency, InternalDelay, InLockstep
  <1>5. Good(c)
    BY <1>3, <1>4 DEF Good, NotAhead, NotExceeded, ComputeDelay
  <1> QED
    BY <1>3, <1>4, <1>5 DEF c, m, n

\* PrepareCaptureProcessing in its three outcomes.
LEMMA PrepareGood ==
    ASSUME DefaultAllowed, NEW b, Good(b), ~ UseExternalEstimator
    PROVE  LET c == PrepareCaptureProcessing(b)
           IN  /\ Good(c)
               /\ c.external = b.external
  <1> DEFINE c == PrepareCaptureProcessing(b)
             seen == DetectExcessRenderBlocks(b)
  <1>1. CountCall(b, -1) = b
    BY DEF CountCall
  <1>2. /\ Good(seen)
        /\ BufferLatency(seen) = BufferLatency(b)
        /\ InternalDelay(seen) = InternalDelay(b)
        /\ seen.delay = b.delay /\ seen.external = b.external
    BY DetectFacts
  <1>3. /\ PrepareEvent(b) = "overrun" => c = Reset(seen)
        /\ PrepareEvent(b) = "underrun" => c = AfterUnderrun(seen)
        /\ PrepareEvent(b) = "none" =>
             c = IncrementReadIndices(IncrementLowRateReadIndices(seen))
    BY <1>1 DEF PrepareCaptureProcessing
  <1>4. PrepareEvent(b) \in {"overrun", "underrun", "none"}
    BY DEF PrepareEvent
  <1> HIDE DEF c, seen
  <1>5. CASE PrepareEvent(b) = "overrun"
    BY <1>2, <1>3, <1>5, ResetGood DEF Good, c
  <1>6. CASE PrepareEvent(b) = "underrun"
    <2>1. BufferLatency(seen) = 0
      <3>1. LowRateMeets(b)
        BY <1>6 DEF PrepareEvent, RenderUnderrun
      <3> QED
        BY <1>2, <3>1, Distances, SizeAssumption
        DEF LowRateMeets, Good, BufferType, Indices
    <2> DEFINE r == IncrementReadIndices(seen)
    <2>2. /\ r \in BufferType
          /\ r.delay = seen.delay /\ r.external = seen.external
          /\ BufferLatency(r) = 0
          /\ InLockstep(r)
          /\ InternalDelay(r) = IF InternalDelay(seen) = 0 THEN 0
                                ELSE InternalDelay(seen) - 1
      BY <1>2, <2>1, ReadFacts DEF Good
    <2>3. c = IF seen.delay # Unset /\ seen.delay > 0
                THEN [r EXCEPT !.delay = seen.delay - 1] ELSE r
      BY <1>3, <1>6 DEF AfterUnderrun
    <2> HIDE DEF r
    <2>4. seen.delay # Unset => seen.delay \in Nat
      BY <1>2 DEF Good, BufferType
    <2>5. InternalDelay(seen) \in Nat
      BY <1>2, Distances DEF Good
    <2>6. /\ c \in BufferType
          /\ c.delay = IF seen.delay # Unset /\ seen.delay > 0
                         THEN seen.delay - 1 ELSE seen.delay
          /\ c.external = r.external
          /\ BufferLatency(c) = BufferLatency(r)
          /\ InternalDelay(c) = InternalDelay(r)
          /\ InLockstep(c)
      <3>1. CASE seen.delay # Unset /\ seen.delay > 0
        <4>1. seen.delay - 1 \in Nat
          BY <2>4, <3>1
        <4> QED
          BY <2>2, <2>3, <3>1, <4>1
          DEF BufferType, BufferLatency, InternalDelay, InLockstep
      <3>2. CASE ~ (seen.delay # Unset /\ seen.delay > 0)
        BY <2>2, <2>3, <3>2
      <3> QED
        BY <3>1, <3>2
    <2>7. NotAhead(c) /\ NotExceeded(c)
      <3>1. seen.delay # Unset => InternalDelay(seen) <= seen.delay
        BY <1>2, <2>1, <2>5 DEF Good, NotExceeded, ComputeDelay
      <3> QED
        BY <2>1, <2>2, <2>4, <2>5, <2>6, <3>1, SizeAssumption
        DEF NotAhead, NotExceeded, ComputeDelay
    <2> QED
      BY <1>2, <1>6, <2>2, <2>6, <2>7 DEF Good, c
  <1>7. CASE PrepareEvent(b) = "none"
    <2>1. BufferLatency(seen) > 0
      <3>1. ~ LowRateMeets(b)
        BY <1>7 DEF PrepareEvent, RenderUnderrun
      <3> QED
        BY <1>2, <3>1, Distances, SizeAssumption
        DEF LowRateMeets, Good, BufferType, Indices
    <2> DEFINE l == IncrementLowRateReadIndices(seen)
    <2>2. /\ l \in BufferType
          /\ l.delay = seen.delay /\ l.external = seen.external
          /\ BufferLatency(l) = BufferLatency(seen) - 1
          /\ InLockstep(l)
          /\ InternalDelay(l) = InternalDelay(seen)
      BY <1>2, <2>1, LowRateReadFacts DEF Good
    <2>3. c = IncrementReadIndices(l)
      BY <1>3, <1>7
    <2> HIDE DEF l
    <2>4. /\ c \in BufferType
          /\ c.delay = l.delay /\ c.external = l.external
          /\ BufferLatency(c) = BufferLatency(l)
          /\ InLockstep(c)
          /\ InternalDelay(c) = IF InternalDelay(l) = 0 THEN 0
                                ELSE InternalDelay(l) - 1
      BY <2>2, <2>3, ReadFacts
    <2>5. BufferLatency(seen) \in Nat /\ InternalDelay(seen) \in Nat
      BY <1>2, Distances DEF Good
    <2>6. DefaultIsBehind \/ seen.delay # Unset => NotAhead(c)
      BY <1>2, <2>1, <2>2, <2>4, <2>5 DEF Good, NotAhead
    <2>7. NotExceeded(c)
      <3> SUFFICES ASSUME seen.delay # Unset PROVE ComputeDelay(c) <= seen.delay
        BY <2>2, <2>4 DEF NotExceeded
      <3>1. InternalDelay(seen) >= BufferLatency(seen)
        BY <1>2 DEF Good, NotAhead
      <3>2. ComputeDelay(c) = ComputeDelay(seen)
        BY <2>1, <2>2, <2>4, <2>5, <3>1 DEF ComputeDelay
      <3> QED
        BY <1>2, <3>2 DEF Good, NotExceeded
    <2> QED
      BY <1>2, <1>7, <2>2, <2>4, <2>6, <2>7 DEF Good, c
  <1> QED
    BY <1>4, <1>5, <1>6, <1>7

\* AlignFromDelay limits what it applies, so it never reads ahead of the
\* estimator nor beyond the delay asked for.
LEMMA AlignGood ==
    ASSUME NEW b, Good(b), NEW d \in Nat
    PROVE  LET c == AlignFromDelay(b, d)
           IN  /\ Good(c)
               /\ c.delay = d
               /\ c.external = b.external
  <1> DEFINE c == AlignFromDelay(b, d)
  <1>1. CASE b.delay = d
    BY <1>1 DEF AlignFromDelay, AlignmentChanges
  <1>2. CASE b.delay # d
    <2> DEFINE asked == [b EXCEPT !.delay = d]
               t == LimitedDelay(b, d)
    <2>1. /\ asked \in BufferType /\ asked.delay = d
          /\ asked.external = b.external
          /\ BufferLatency(asked) = BufferLatency(b)
      BY DEF Good, BufferType, BufferLatency
    <2>2. /\ BufferLatency(b) \in 0 .. LowRateSize - 1
          /\ MaxDelay = LowRateSize
          /\ BlocksSize = LowRateSize + FilterLength + 1
      BY Distances DEF Good
    <2>3. /\ t \in 0 .. BlocksSize - 1
          /\ t >= BufferLatency(b) /\ t - BufferLatency(b) <= d
      BY <2>2, SizeAssumption DEF LimitedDelay, Smaller, Larger
    <2>4. c = ApplyTotalDelay(asked, t)
      BY <1>2 DEF AlignFromDelay, AlignmentChanges
    <2> HIDE DEF asked, t, c
    <2>5. /\ c \in BufferType /\ InLockstep(c)
          /\ InternalDelay(c) = t /\ BufferLatency(c) = BufferLatency(b)
          /\ c.delay = d /\ c.external = b.external
      BY <2>1, <2>3, <2>4, ApplyFacts
    <2> QED
      BY <2>3, <2>5 DEF Good, NotAhead, NotExceeded, ComputeDelay, c
  <1> QED
    BY <1>1, <1>2

-----------------------------------------------------------------------------
(* The block processor                                                     *)

\* Without an external delay a reset leaves no believed delay behind, so a
\* believed delay means that the controller has set it since.
BelievedInv ==
    ~ HasReceivedBufferDelay(buf) /\ buf.delay # Unset
      => ~ moved /\ capture_properly_started_

\* The inductive invariant.
IInv ==
    /\ TypeOK
    /\ Good(buf)
    /\ BelievedInv
    /\ BufferFollowsEstimate
    /\ JumpIsReported

\* The constructor's buffer is aligned.
LEMMA InitIInv == DefaultAllowed /\ Init => IInv
  <1> SUFFICES ASSUME DefaultAllowed, Init PROVE IInv
    OBVIOUS
  <1> DEFINE zero == [lr_write |-> 0, lr_read |-> 0, b_write |-> 0,
                      b_read |-> 0, s_write |-> 0, s_read |-> 0,
                      delay |-> DefaultDelay, external |-> Unset,
                      min_latency |-> 0, excess_counter |-> 0, skew |-> 0]
  <1>1. zero \in BufferType
    BY SizeAssumption DEF BufferType, BlocksSize, Indices
  <1>2. zero.external = Unset
    OBVIOUS
  <1>3. buf = Reset(zero)
    BY DEF Init, Initial
  <1> HIDE DEF zero
  <1>4. Good(buf) /\ buf.delay = Unset
    BY <1>1, <1>2, <1>3, ResetGood
  <1>5. /\ render_properly_started_ = FALSE
        /\ capture_properly_started_ = FALSE
        /\ render_event_ = "none" /\ estimate = Unset
        /\ moved = FALSE /\ highRun = 0
        /\ heard.jumped = FALSE
    BY DEF Init, Nothing
  <1>6. TypeOK /\ BelievedInv
    BY <1>4, <1>5 DEF TypeOK, Good, BelievedInv
  <1>7. BufferFollowsEstimate /\ JumpIsReported
    BY <1>5 DEF BufferFollowsEstimate, JumpIsReported
  <1> QED
    BY <1>4, <1>6, <1>7 DEF IInv

\* A render block.
LEMMA BufferRenderIInv ==
    ASSUME DefaultAllowed, ~ UseExternalEstimator, IInv, BufferRender
    PROVE  IInv'
  <1>1. /\ Good(buf') /\ buf'.external = buf.external
        /\ ~ InsertOverruns(buf) => buf'.delay = buf.delay
    BY InsertGood DEF IInv, BufferRender
  <1>2. /\ moved' = (moved \/ InsertOverruns(buf))
        /\ highRun' = IF InsertOverruns(buf) THEN 0 ELSE highRun
        /\ UNCHANGED <<capture_properly_started_, estimate, heard>>
        /\ render_event_' \in {"none", "overrun"}
        /\ render_properly_started_' = TRUE
    BY DEF BufferRender
  <1>3. TypeOK'
    BY <1>1, <1>2 DEF IInv, TypeOK, Good
  <1>4. InsertOverruns(buf) /\ buf.external = Unset => buf'.delay = Unset
    <2>1. ASSUME InsertOverruns(buf), buf.external = Unset
          PROVE  buf'.delay = Unset
      <3> DEFINE c == IncrementWriteIndices(buf)
      <3>1. buf' = Reset(c)
        BY <2>1 DEF BufferRender, Insert, CountCall
      <3>2. c \in BufferType /\ c.external = Unset
        BY <2>1, WriteFacts DEF IInv, Good
      <3> QED
        BY <3>1, <3>2, ResetGood
    <2> QED
      BY <2>1
  <1>5. BelievedInv'
    BY <1>1, <1>2, <1>4 DEF IInv, BelievedInv, HasReceivedBufferDelay
  <1>6. BufferFollowsEstimate'
    BY <1>1, <1>2 DEF IInv, TypeOK, BufferFollowsEstimate
  <1>7. JumpIsReported'
    BY <1>1, <1>2 DEF IInv, JumpIsReported
  <1> QED
    BY <1>1, <1>3, <1>5, <1>6, <1>7 DEF IInv

\* A report of the audio buffer delay, which takes effect at the next reset.
LEMMA SetAudioBufferDelayIInv ==
    ASSUME IInv, NEW blocks \in ExternalDelays, SetAudioBufferDelay_(blocks)
    PROVE  IInv'
  <1>1. blocks \in Int /\ blocks # Unset
    BY ExternalAssumption, SizeAssumption
  <1>2. /\ buf' = [buf EXCEPT !.external = blocks]
        /\ UNCHANGED <<render_properly_started_, capture_properly_started_,
                       render_event_, estimate, heard, moved, highRun>>
    BY DEF SetAudioBufferDelay_, SetAudioBufferDelay
  <1>3. /\ buf' \in BufferType
        /\ buf'.external = blocks
        /\ buf'.delay = buf.delay
        /\ buf'.lr_read = buf.lr_read /\ buf'.lr_write = buf.lr_write
        /\ buf'.b_write = buf.b_write /\ buf'.s_write = buf.s_write
        /\ buf'.b_read = buf.b_read /\ buf'.s_read = buf.s_read
    BY <1>1, <1>2 DEF IInv, TypeOK, BufferType
  <1>4. Good(buf')
    BY <1>3
    DEF IInv, Good, InLockstep, NotAhead, NotExceeded, ComputeDelay,
        InternalDelay, BufferLatency
  <1> QED
    BY <1>1, <1>2, <1>3, <1>4
    DEF IInv, TypeOK, BelievedInv, BufferFollowsEstimate, JumpIsReported,
        HasReceivedBufferDelay

\* A capture block.  Its two halves: the buffer the handler prepares, then
\* what the estimate found makes of it.
LEMMA EnteredGood ==
    ASSUME DefaultAllowed, ~ UseExternalEstimator, IInv
    PROVE  /\ Good(Entered) /\ Good(Prepared)
           /\ Entered.external = buf.external
           /\ Prepared.external = buf.external
           /\ ~ FirstCapture => Entered = buf
  <1>1. buf \in BufferType /\ Good(buf)
    BY DEF IInv, TypeOK
  <1>2. /\ Good(Entered) /\ Entered.external = buf.external
        /\ ~ FirstCapture => Entered = buf
    BY <1>1, ResetGood DEF Entered
  <1>3. Good(Prepared) /\ Prepared.external = Entered.external
    BY <1>2, PrepareGood DEF Prepared
  <1> QED
    BY <1>2, <1>3

\* A reset since the last capture block.
ResetSince == moved \/ FirstCapture \/ Event = "overrun"

\* Without a reset to an external delay, a buffer that keeps a believed delay
\* through a capture block advanced by a block or stood still.
LEMMA BelievedAdvances ==
    ASSUME DefaultAllowed, ~ UseExternalEstimator, IInv,
           ~ (ResetSince /\ buf.external # Unset), Prepared.delay # Unset
    PROVE  /\ ~ FirstCapture /\ ~ moved
           /\ \/ Prepared.b_read = IncIndex(buf.b_read, BlocksSize)
              \/ Event = "underrun" /\ BlocksMeet(Entered)
  <1> DEFINE seen == DetectExcessRenderBlocks(Entered)
  <1>1. /\ Good(seen) /\ seen.external = buf.external
        /\ seen.delay = Entered.delay
        /\ BufferLatency(seen) = BufferLatency(Entered)
    BY EnteredGood, DetectFacts
  <1>2. /\ Event = "overrun" => Prepared = Reset(seen)
        /\ Event = "underrun" => Prepared = AfterUnderrun(seen)
        /\ Event = "none" => Prepared =
             IncrementReadIndices(IncrementLowRateReadIndices(seen))
    BY DEF Event, Prepared, PrepareCaptureProcessing, CountCall
  <1>3. /\ seen.b_read = Entered.b_read /\ seen.b_write = Entered.b_write
        /\ seen.lr_read = Entered.lr_read /\ seen.lr_write = Entered.lr_write
    BY EnteredGood DEF DetectExcessRenderBlocks, Good, BufferType
  <1> HIDE DEF seen
  <1>4. Event # "overrun"
    BY <1>1, <1>2, ResetGood DEF Good, ResetSince
  <1>5. Event \in {"underrun", "none"}
    BY <1>4 DEF Event, PrepareEvent
  <1>6. Entered.delay # Unset
    <2>1. CASE Event = "underrun"
      <3>1. seen.delay = Unset => Prepared = IncrementReadIndices(seen)
        BY <1>2, <2>1 DEF AfterUnderrun
      <3>2. IncrementReadIndices(seen).delay = seen.delay
        BY <1>1, ReadFacts DEF Good
      <3> QED
        BY <1>1, <3>1, <3>2
    <2>2. CASE Event = "none"
      <3> DEFINE l == IncrementLowRateReadIndices(seen)
      <3>1. BufferLatency(seen) > 0
        <4>1. ~ LowRateMeets(Entered)
          BY <2>2 DEF Event, PrepareEvent, RenderUnderrun
        <4> QED
          BY <1>1, <4>1, EnteredGood, Distances, SizeAssumption
          DEF LowRateMeets, Good, BufferType, Indices
      <3>2. l \in BufferType /\ InLockstep(l) /\ l.delay = seen.delay
        BY <1>1, <3>1, LowRateReadFacts DEF Good
      <3>3. Prepared = IncrementReadIndices(l)
        BY <1>2, <2>2
      <3> HIDE DEF l
      <3> QED
        BY <1>1, <3>2, <3>3, ReadFacts
    <2> QED
      BY <1>5, <2>1, <2>2
  <1>7. ~ FirstCapture
    <2>1. FirstCapture /\ buf.external = Unset => Entered.delay = Unset
      BY ResetGood DEF Entered, IInv, TypeOK
    <2> QED
      BY <1>6, <2>1 DEF ResetSince
  <1>8. Entered = buf
    BY <1>7, EnteredGood
  <1>9. ~ moved
    BY <1>6, <1>8 DEF IInv, BelievedInv, HasReceivedBufferDelay, ResetSince
  <1>10. BlocksMeet(seen) <=> BlocksMeet(Entered)
    BY <1>3 DEF BlocksMeet
  <1>11. CASE Event = "underrun" /\ ~ BlocksMeet(Entered)
    <2> DEFINE i == IncIndex(seen.b_read, BlocksSize)
               r == IncrementReadIndices(seen)
    <2>1. r = [seen EXCEPT !.b_read = i,
                           !.s_read = DecIndex(seen.s_read, BlocksSize)]
      BY <1>10, <1>11 DEF IncrementReadIndices
    <2>2. r.b_read = i
      BY <1>1, <2>1 DEF Good, BufferType
    <2>3. r \in BufferType
      BY <1>1, ReadFacts DEF Good
    <2>4. Prepared = r \/ Prepared = [r EXCEPT !.delay = seen.delay - 1]
      BY <1>2, <1>11 DEF AfterUnderrun
    <2> HIDE DEF i, r
    <2>5. Prepared.b_read = r.b_read
      BY <2>3, <2>4 DEF BufferType
    <2> QED
      BY <1>3, <1>7, <1>8, <1>9, <2>2, <2>5 DEF i
  <1>12. CASE Event = "none"
    <2> DEFINE l == IncrementLowRateReadIndices(seen)
               i == IncIndex(l.b_read, BlocksSize)
    <2>1. BufferLatency(seen) > 0
      <3>1. ~ LowRateMeets(Entered)
        BY <1>12 DEF Event, PrepareEvent, RenderUnderrun
      <3> QED
        BY <1>1, <3>1, EnteredGood, Distances, SizeAssumption
        DEF LowRateMeets, Good, BufferType, Indices
    <2>2. /\ l \in BufferType /\ InLockstep(l)
          /\ l.b_read = seen.b_read /\ l.b_write = seen.b_write
          /\ InternalDelay(l) = InternalDelay(seen)
      BY <1>1, <2>1, LowRateReadFacts
      DEF Good, IncrementLowRateReadIndices, BufferType
    <2>3. InternalDelay(l) > 0
      BY <1>1, <1>6, <2>1, <2>2, Distances DEF Good, NotAhead
    <2>4. ~ BlocksMeet(l)
      BY <2>2, <2>3, Distances, SizeAssumption
      DEF BlocksMeet, BufferType, Indices, BlocksSize
    <2>5. Prepared = [l EXCEPT !.b_read = i,
                               !.s_read = DecIndex(l.s_read, BlocksSize)]
      BY <1>2, <1>12, <2>4 DEF IncrementReadIndices
    <2> HIDE DEF l
    <2>6. Prepared.b_read = i
      BY <2>2, <2>5 DEF BufferType
    <2> QED
      BY <1>3, <1>7, <1>8, <1>9, <2>2, <2>6
  <1> QED
    BY <1>5, <1>7, <1>9, <1>11, <1>12

\* The whole capture block.
LEMMA ProcessCaptureIInv ==
    ASSUME DefaultAllowed, ~ UseExternalEstimator, IInv, ProcessCapture
    PROVE  IInv'
  <1>1. PICK found \in GetDelay(IF ControllerReset THEN Unset ELSE estimate) :
          /\ buf' = Aligned(found)
          /\ estimate' = found
          /\ heard'.change = DelayChange(found)
          /\ heard'.estimate = found
          /\ heard'.jumped =
               (moved \/ FirstCapture
                 \/ buf'.b_read # IncIndex(buf.b_read, BlocksSize))
          /\ heard'.stalled = (Event = "underrun" /\ BlocksMeet(Entered))
          /\ heard'.reported = (/\ moved \/ FirstCapture \/ Event = "overrun"
                                /\ HasReceivedBufferDelay(Prepared))
    BY DEF ProcessCapture
  <1>2. /\ capture_properly_started_' = TRUE
        /\ render_properly_started_' \in BOOLEAN
        /\ render_event_' = "none"
        /\ moved' = FALSE
        /\ highRun' = IF Event = "overrun" THEN 0 ELSE Run
        /\ highRun' \in Nat
    BY DEF ProcessCapture, IInv, TypeOK, Run
  <1>3. /\ found \in Estimates \cup {Unset}
        /\ found # Unset => found \in Nat
    BY EstimatesAssumption DEF GetDelay, IInv, TypeOK
  <1>4. /\ found # Unset => buf' = AlignFromDelay(Prepared, found)
        /\ found = Unset => buf' = Prepared
    BY <1>1 DEF Aligned
  <1>5. /\ Good(buf') /\ buf'.external = buf.external
        /\ found # Unset => buf'.delay = found
    <2>1. CASE found # Unset
      <3>1. found \in Nat /\ Good(Prepared)
        BY <1>3, <2>1, EnteredGood
      <3>2. LET c == AlignFromDelay(Prepared, found)
            IN  /\ Good(c)
                /\ c.delay = found
                /\ c.external = Prepared.external
        BY <3>1, AlignGood
      <3>3. buf' = AlignFromDelay(Prepared, found)
        BY <1>4, <2>1
      <3>4. Prepared.external = buf.external
        BY EnteredGood
      <3> QED
        BY <3>2, <3>3, <3>4
    <2>2. CASE found = Unset
      BY <1>4, <2>2, EnteredGood
    <2> QED
      BY <2>1, <2>2
  <1>6. TypeOK'
    BY <1>1, <1>2, <1>3, <1>5 DEF TypeOK, Good
  <1>7. BelievedInv' /\ BufferFollowsEstimate'
    BY <1>1, <1>2, <1>5 DEF BelievedInv, BufferFollowsEstimate
  <1>8. JumpIsReported'
    <2> SUFFICES ASSUME heard'.jumped, found # Unset,
                        ~ heard'.reported, ~ heard'.stalled
                 PROVE  heard'.change # "none"
      BY <1>1 DEF JumpIsReported
    <2>0. ~ (ResetSince /\ buf.external # Unset)
      <3>1. ~ (ResetSince /\ HasReceivedBufferDelay(Prepared))
        BY <1>1 DEF ResetSince
      <3>2. HasReceivedBufferDelay(Prepared) <=> buf.external # Unset
        BY EnteredGood DEF HasReceivedBufferDelay
      <3> QED
        BY <3>1, <3>2
    <2>1. Prepared.delay # found
      <3> SUFFICES ASSUME Prepared.delay = found PROVE FALSE
        OBVIOUS
      <3>1. buf' = Prepared
        BY <1>4 DEF AlignFromDelay, AlignmentChanges
      <3>2. /\ ~ FirstCapture /\ ~ moved
            /\ Prepared.b_read = IncIndex(buf.b_read, BlocksSize)
        BY <1>1, <1>3, <2>0, BelievedAdvances, SizeAssumption
      <3> QED
        BY <1>1, <3>1, <3>2
    <2> QED
      BY <1>1, <2>1 DEF DelayChange, AlignmentChanges
  <1> QED
    BY <1>5, <1>6, <1>7, <1>8 DEF IInv

\* The inductive invariant, with the delay controller in charge of the delay.
LEMMA Inductive ==
    ~ UseExternalEstimator /\ DefaultAllowed => (Spec => []IInv)
  <1> SUFFICES ASSUME ~ UseExternalEstimator, DefaultAllowed PROVE Spec => []IInv
    OBVIOUS
  <1>1. IInv /\ [Next]_vars => IInv'
    <2> SUFFICES ASSUME IInv, [Next]_vars PROVE IInv'
      OBVIOUS
    <2>1. CASE UNCHANGED vars
      BY <2>1
      DEF vars, IInv, TypeOK, Good, BelievedInv, BufferFollowsEstimate,
          JumpIsReported
    <2>2. CASE Next
      BY <2>2, BufferRenderIInv, ProcessCaptureIInv, SetAudioBufferDelayIInv
      DEF Next
    <2> QED
      BY <2>1, <2>2
  <1>2. Init => IInv
    BY InitIInv
  <1> QED
    BY <1>1, <1>2, PTL DEF Spec

\* The indices stay in their rings and the detector's counters in bounds, if
\* the default delay is one that OffsetIndex accepts (render_delay_buffer.cc).
THEOREM TypeCorrect ==
    ~ UseExternalEstimator /\ OffsetAllowed(DefaultDelay, BlocksSize)
      => (Spec => []TypeOK)
  <1>1. IInv => TypeOK
    BY DEF IInv
  <1> QED
    BY <1>1, Inductive, PTL DEF DefaultAllowed

\* The assumption is needed: with the default delays up to a ring beyond that
\* (Validate allows 5000 blocks, the default ring has 167) the constructor's
\* Reset already leaves the read position of the blocks below zero.
THEOREM LongDefaultLeavesRing ==
    DefaultDelay \in BlocksSize + 1 .. 2 * BlocksSize - 1
      => (Init => buf.b_read < 0 /\ ~ TypeOK)
  <1> SUFFICES ASSUME DefaultDelay \in BlocksSize + 1 .. 2 * BlocksSize - 1, Init
               PROVE  buf.b_read < 0 /\ ~ TypeOK
    OBVIOUS
  <1> DEFINE n == BlocksSize
             d == DefaultDelay
             sum == n + 0 + (- d)
             r == OffsetIndex(0, - d, n)
  <1>1. n \in Nat \ {0} /\ d \in Nat /\ sum < 0 /\ - sum \in 1 .. n - 1
    BY SizeAssumption DEF BlocksSize
  <1>2. buf.b_read = r
    BY DEF Init, Initial, Reset, ApplyTotalDelay
  <1>3. r = - ((- sum) % n)
    <2>1. ~ (sum >= 0)
      BY <1>1
    <2> QED
      BY <2>1 DEF OffsetIndex
  <1> HIDE DEF n, sum, r
  <1>4. (- sum) % n = - sum
    <2> DEFINE x == - sum
    <2>1. x \in 1 .. n - 1
      BY <1>1
    <2> HIDE DEF x
    <2>2. x % n = x
      BY <1>1, <2>1
    <2> QED
      BY <2>2 DEF x
  <1>5. buf.b_read < 0
    BY <1>1, <1>2, <1>3, <1>4
  <1>6. ~ (buf.b_read \in Indices(BlocksSize))
    BY <1>5, SizeAssumption DEF Indices, BlocksSize
  <1> QED
    BY <1>5, <1>6 DEF TypeOK, BufferType

\* The delay that GetMetrics reports as a size_t is never negative, if the
\* default delay is at least a block and less than the ring.
THEOREM DelayNeverNegative ==
    ~ UseExternalEstimator /\ DefaultDelay \in 1 .. BlocksSize - 1
      => (Spec => []ReadsBehindEstimator)
  <1> SUFFICES ASSUME ~ UseExternalEstimator, DefaultIsBehind
               PROVE  Spec => []ReadsBehindEstimator
    BY DEF DefaultIsBehind
  <1>1. DefaultAllowed
    BY SizeAssumption DEF DefaultIsBehind, DefaultAllowed, OffsetAllowed, BlocksSize
  <1>2. IInv => ReadsBehindEstimator
    BY DEF IInv, Good, ReadsBehindEstimator
  <1> QED
    BY <1>1, <1>2, Inductive, PTL

\* With a default delay of no block, which Validate allows
\* (echo_canceller3_config.cc:111), it is -1 from the constructor on: a reset
\* leaves one unread block (render_delay_buffer.cc:357).
THEOREM ZeroDefaultIsNegative ==
    DefaultDelay = 0 => (Init => ComputeDelay(buf) = -1 /\ ~ ReadsBehindEstimator)
  <1> SUFFICES ASSUME DefaultDelay = 0, Init
               PROVE  ComputeDelay(buf) = -1 /\ ~ ReadsBehindEstimator
    OBVIOUS
  <1> DEFINE zero == [lr_write |-> 0, lr_read |-> 0, b_write |-> 0,
                      b_read |-> 0, s_write |-> 0, s_read |-> 0,
                      delay |-> DefaultDelay, external |-> Unset,
                      min_latency |-> 0, excess_counter |-> 0, skew |-> 0]
             s == OffsetIndex(0, DefaultDelay, BlocksSize)
  <1>0. BlocksSize \in Nat \ {0} /\ LowRateSize \in Nat \ {0, 1}
    BY SizeAssumption DEF BlocksSize
  <1>1. DefaultAllowed
    BY <1>0 DEF DefaultAllowed, OffsetAllowed
  <1>2. zero \in BufferType
    BY SizeAssumption DEF BufferType, BlocksSize, Indices
  <1>3. buf = Reset(zero)
    BY DEF Init, Initial
  <1>4. /\ buf.s_read = s /\ buf.s_write = 0
    BY <1>3 DEF Reset, ApplyTotalDelay
  <1> HIDE DEF zero, s
  <1>5. s = 0
    <2>1. 0 \in 0 .. BlocksSize - 1
      BY <1>0
    <2>2. OffsetIndex(0, 0, BlocksSize) = 0
      BY <1>0, <2>1, RingFacts
    <2> QED
      BY <2>2 DEF s
  <1>6. InternalDelay(buf) = 0
    BY <1>0, <1>4, <1>5 DEF InternalDelay
  <1>7. BufferLatency(buf) = 1
    BY <1>1, <1>2, <1>3, ResetGood
  <1> QED
    BY <1>6, <1>7 DEF ComputeDelay, ReadsBehindEstimator, NotAhead

\* And never once a delay has been asked for, whatever the default: only a
\* reset to it takes the echo remover ahead, and it forgets the delay.
THEOREM AskedDelayNeverNegative ==
    ~ UseExternalEstimator /\ OffsetAllowed(DefaultDelay, BlocksSize)
      => (Spec => [](buf.delay # Unset => ReadsBehindEstimator))
  <1>1. IInv => (buf.delay # Unset => ReadsBehindEstimator)
    BY DEF IInv, Good, ReadsBehindEstimator
  <1> QED
    BY <1>1, Inductive, PTL DEF DefaultAllowed

\* The blocks and the spectra of the echo remover never drift apart, for every
\* default delay that OffsetIndex accepts.
THEOREM AlwaysInLockstep ==
    ~ UseExternalEstimator /\ OffsetAllowed(DefaultDelay, BlocksSize)
      => (Spec => []Lockstep)
  <1>1. IInv => Lockstep
    BY DEF IInv, Good, Lockstep
  <1> QED
    BY <1>1, Inductive, PTL DEF DefaultAllowed

\* Whatever underruns, overruns and limits do, the delay in effect does not
\* exceed the one last asked for.
THEOREM DelayNeverExceeded ==
    ~ UseExternalEstimator /\ OffsetAllowed(DefaultDelay, BlocksSize)
      => (Spec => []DelayIsNotExceeded)
  <1>1. IInv => DelayIsNotExceeded
    BY DEF IInv, Good, DelayIsNotExceeded
  <1> QED
    BY <1>1, Inductive, PTL DEF DefaultAllowed

\* The buffer is set to the estimate the controller holds, unless an Insert has
\* reset it since.
THEOREM FollowsEstimate ==
    ~ UseExternalEstimator /\ OffsetAllowed(DefaultDelay, BlocksSize)
      => (Spec => []BufferFollowsEstimate)
  <1>1. IInv => BufferFollowsEstimate
    BY DEF IInv
  <1> QED
    BY <1>1, Inductive, PTL DEF DefaultAllowed

\* The echo remover hears of every jump of the render signal it could not
\* have foreseen while the controller has an estimate.
THEOREM JumpsAreReported ==
    ~ UseExternalEstimator /\ OffsetAllowed(DefaultDelay, BlocksSize)
      => (Spec => []JumpIsReported)
  <1>1. IInv => JumpIsReported
    BY DEF IInv
  <1> QED
    BY <1>1, Inductive, PTL DEF DefaultAllowed

-----------------------------------------------------------------------------
(* The excess detector.  It reads the low-rate ring only, so what it       *)
(* promises holds with the external estimator as well, whose delay may     *)
(* take the read positions of the echo remover anywhere.                   *)

\* What is sure of the buffer in both modes.
LowRateType ==
    [lr_write : Indices(LowRateSize), lr_read : Indices(LowRateSize),
     b_write : Int, b_read : Int, s_write : Int, s_read : Int,
     delay : Int \cup {Unset}, external : Int \cup {Unset},
     min_latency : Indices(LowRateSize),
     excess_counter : Indices(DetectionInterval), skew : Int]

\* The detector has seen no capture since b.
DetectorUnchanged(c, b) ==
    c.min_latency = b.min_latency /\ c.excess_counter = b.excess_counter

LEMMA LatencyInRing ==
    ASSUME NEW b \in LowRateType
    PROVE  BufferLatency(b) \in Indices(LowRateSize)
  <1> DEFINE latency == LowRateSize + b.lr_read - b.lr_write
  <1>1. LowRateSize \in Nat \ {0}
    BY SizeAssumption
  <1>2. latency \in Nat
    BY <1>1 DEF LowRateType, Indices
  <1>3. BufferLatency(b) = latency % LowRateSize
    BY DEF BufferLatency
  <1> HIDE DEF latency
  <1>4. latency % LowRateSize \in 0 .. LowRateSize - 1
    BY <1>1, <1>2
  <1> QED
    BY <1>3, <1>4 DEF Indices

\* A read position is an integer, whatever delay is applied.
LEMMA OffsetIsInt ==
    ASSUME NEW n \in Nat \ {0}, NEW i \in Int, NEW d \in Int
    PROVE  OffsetIndex(i, d, n) \in Int
  <1> DEFINE sum == n + i + d
  <1>1. sum \in Int
    OBVIOUS
  <1>2. OffsetIndex(i, d, n) = IF sum >= 0 THEN sum % n ELSE - ((- sum) % n)
    BY DEF OffsetIndex
  <1> HIDE DEF sum
  <1>3. - sum \in Int
    BY <1>1
  <1>4. sum % n \in Int /\ (- sum) % n \in Int
    BY <1>1, <1>3
  <1>5. - ((- sum) % n) \in Int
    BY <1>4
  <1> QED
    BY <1>2, <1>4, <1>5

\* Applying a delay moves the echo remover only.
LEMMA ApplyLowRate ==
    ASSUME NEW b \in LowRateType, NEW d \in Int
    PROVE  LET c == ApplyTotalDelay(b, d)
           IN  /\ c \in LowRateType
               /\ DetectorUnchanged(c, b)
               /\ c.lr_read = b.lr_read /\ c.lr_write = b.lr_write
  <1> DEFINE r == OffsetIndex(b.b_write, - d, BlocksSize)
             s == OffsetIndex(b.s_write, d, BlocksSize)
             c == ApplyTotalDelay(b, d)
  <1>1. BlocksSize \in Nat \ {0}
    BY SizeAssumption DEF BlocksSize
  <1>2. b.b_write \in Int /\ b.s_write \in Int /\ - d \in Int
    BY DEF LowRateType
  <1>3. r \in Int /\ s \in Int
    BY <1>1, <1>2, OffsetIsInt
  <1>4. c = [b EXCEPT !.b_read = r, !.s_read = s]
    BY DEF ApplyTotalDelay
  <1> HIDE DEF r, s, c
  <1> QED
    BY <1>3, <1>4 DEF LowRateType, DetectorUnchanged, c

\* Reset restarts the detector behind a latency of one block.
LEMMA ResetDetector ==
    ASSUME NEW b \in LowRateType
    PROVE  /\ Reset(b) \in LowRateType
           /\ Reset(b).min_latency = 0
           /\ Reset(b).excess_counter = 0
           /\ BufferLatency(Reset(b)) = 1
  <1> DEFINE i == IncIndex(b.lr_write, LowRateSize)
             c == [b EXCEPT !.min_latency = 0, !.excess_counter = 0,
                            !.lr_read = i]
             d == IF b.external # Unset
                    THEN FeasibleExternalDelay(b.external) ELSE DefaultDelay
             set == ApplyTotalDelay(c, d)
  <1>1. /\ LowRateSize \in Nat \ {0, 1}
        /\ MaxDelay = LowRateSize
    BY SizeAssumption DEF MaxDelay, BlocksSize
  <1>2. /\ i \in Indices(LowRateSize)
        /\ 0 \in Indices(LowRateSize) /\ 0 \in Indices(DetectionInterval)
    <2>1. b.lr_write \in Indices(LowRateSize)
      BY DEF LowRateType
    <2>2. i \in Indices(LowRateSize)
      BY <1>1, <2>1, StepFacts
    <2> QED
      BY <2>2, SizeAssumption DEF Indices
  <1>3. i = IF b.lr_write < LowRateSize - 1 THEN b.lr_write + 1 ELSE 0
    BY DEF IncIndex
  <1> HIDE DEF i
  <1>4. /\ c \in LowRateType
        /\ c.min_latency = 0 /\ c.excess_counter = 0
        /\ c.lr_read = i /\ c.lr_write = b.lr_write
        /\ c.external = b.external
    BY <1>2 DEF LowRateType
  <1>5. d \in Int
    <2>1. b.external # Unset => b.external \in Int
      BY DEF LowRateType
    <2> QED
      BY <1>1, <2>1, SizeAssumption DEF FeasibleExternalDelay, Smaller
  <1> HIDE DEF d, c
  <1>6. /\ set \in LowRateType
        /\ set.min_latency = 0 /\ set.excess_counter = 0
        /\ set.lr_read = i /\ set.lr_write = b.lr_write
    BY <1>4, <1>5, ApplyLowRate DEF DetectorUnchanged
  <1>7. \E delay \in Int \cup {Unset} : Reset(b) = [set EXCEPT !.delay = delay]
    <2>1. CASE b.external # Unset
      <3>1. Reset(b) = [set EXCEPT !.delay = ComputeDelay(set)]
        BY <2>1, <1>4 DEF Reset, c, d, i
      <3>2. BufferLatency(set) \in Int
        BY <1>6, LatencyInRing DEF Indices
      <3>3. InternalDelay(set) \in Int
        <4> HIDE DEF set
        <4> QED
          BY <1>6, SizeAssumption DEF InternalDelay, LowRateType, BlocksSize
      <3>4. ComputeDelay(set) \in Int
        BY <3>2, <3>3 DEF ComputeDelay
      <3> QED
        BY <3>1, <3>4
    <2>2. CASE b.external = Unset
      <3>1. Reset(b) = [set EXCEPT !.delay = Unset]
        BY <2>2, <1>4 DEF Reset, c, d, i
      <3> QED
        BY <3>1
    <2> QED
      BY <2>1, <2>2
  <1> HIDE DEF set
  <1>8. /\ Reset(b) \in LowRateType
        /\ Reset(b).min_latency = 0 /\ Reset(b).excess_counter = 0
        /\ Reset(b).lr_read = i /\ Reset(b).lr_write = b.lr_write
    BY <1>6, <1>7 DEF LowRateType
  <1>9. BufferLatency(Reset(b)) = 1
    <2> DEFINE sum == LowRateSize + i - b.lr_write
    <2>1. b.lr_write \in 0 .. LowRateSize - 1
      BY DEF LowRateType, Indices
    <2>2. sum = 1 \/ sum = LowRateSize + 1
      BY <1>1, <1>3, <2>1
    <2>3. BufferLatency(Reset(b)) = sum % LowRateSize
      BY <1>8 DEF BufferLatency
    <2> HIDE DEF sum
    <2>4. CASE sum = 1
      BY <1>1, <2>3, <2>4
    <2>5. CASE sum = LowRateSize + 1
      BY <1>1, <2>3, <2>5
    <2> QED
      BY <2>2, <2>4, <2>5
  <1> QED
    BY <1>8, <1>9

\* The call counters are the detector's concern no more than the indices of
\* the echo remover.
LEMMA CountLowRate ==
    ASSUME NEW b \in LowRateType, NEW n \in Int
    PROVE  LET c == CountCall(b, n)
           IN  /\ c \in LowRateType
               /\ DetectorUnchanged(c, b)
               /\ c.lr_read = b.lr_read /\ c.lr_write = b.lr_write
  BY DEF CountCall, LowRateType, DetectorUnchanged

\* A render block leaves the detector alone or restarts it.
LEMMA InsertDetector ==
    ASSUME NEW b \in LowRateType
    PROVE  /\ Insert(b) \in LowRateType
           /\ ~ InsertOverruns(b) => DetectorUnchanged(Insert(b), b)
           /\ InsertOverruns(b) => /\ Insert(b).min_latency = 0
                                   /\ Insert(b).excess_counter = 0
  <1> DEFINE counted == CountCall(b, 1)
             written == IncrementWriteIndices(counted)
             i == DecIndex(counted.lr_write, LowRateSize)
             j == IncIndex(counted.b_write, BlocksSize)
             k == DecIndex(counted.s_write, BlocksSize)
  <1>1. counted \in LowRateType /\ DetectorUnchanged(counted, b)
    BY CountLowRate
  <1>2. Insert(b) = IF InsertOverruns(b) THEN Reset(written) ELSE written
    BY DEF Insert
  <1>3. written = [counted EXCEPT !.lr_write = i, !.b_write = j, !.s_write = k]
    BY DEF IncrementWriteIndices
  <1> HIDE DEF counted
  <1>4. i \in Indices(LowRateSize)
    <2>1. counted.lr_write \in Indices(LowRateSize) /\ LowRateSize \in Nat \ {0}
      BY <1>1, SizeAssumption DEF LowRateType
    <2> QED
      BY <2>1, StepFacts
  <1>5. j \in Int /\ k \in Int
    <2>1. /\ counted.b_write \in Int /\ counted.s_write \in Int
          /\ BlocksSize \in Int
      BY <1>1, SizeAssumption DEF LowRateType, BlocksSize
    <2> QED
      BY <2>1 DEF IncIndex, DecIndex
  <1> HIDE DEF i, j, k, written
  <1>6. written \in LowRateType /\ DetectorUnchanged(written, b)
    BY <1>1, <1>3, <1>4, <1>5 DEF LowRateType, DetectorUnchanged
  <1> QED
    BY <1>2, <1>6, ResetDetector

\* Moving the read positions of either side is none of its concern.
LEMMA ReadLowRate ==
    ASSUME NEW b \in LowRateType
    PROVE  /\ IncrementReadIndices(b) \in LowRateType
           /\ DetectorUnchanged(IncrementReadIndices(b), b)
           /\ IncrementLowRateReadIndices(b) \in LowRateType
           /\ DetectorUnchanged(IncrementLowRateReadIndices(b), b)
           /\ AfterUnderrun(b) \in LowRateType
           /\ DetectorUnchanged(AfterUnderrun(b), b)
  <1> DEFINE i == IncIndex(b.b_read, BlocksSize)
             j == DecIndex(b.s_read, BlocksSize)
             k == DecIndex(b.lr_read, LowRateSize)
             r == IncrementReadIndices(b)
  <1>1. i \in Int /\ j \in Int
    <2>1. b.b_read \in Int /\ b.s_read \in Int /\ BlocksSize \in Int
      BY SizeAssumption DEF LowRateType, BlocksSize
    <2> QED
      BY <2>1 DEF IncIndex, DecIndex
  <1>2. k \in Indices(LowRateSize)
    <2>1. b.lr_read \in Indices(LowRateSize) /\ LowRateSize \in Nat \ {0}
      BY SizeAssumption DEF LowRateType
    <2> QED
      BY <2>1, StepFacts
  <1>3. r = IF BlocksMeet(b) THEN b ELSE [b EXCEPT !.b_read = i, !.s_read = j]
    BY DEF IncrementReadIndices
  <1>4. IncrementLowRateReadIndices(b) = [b EXCEPT !.lr_read = k]
    BY DEF IncrementLowRateReadIndices
  <1> HIDE DEF i, j, k, r
  <1>5. r \in LowRateType /\ DetectorUnchanged(r, b)
    BY <1>1, <1>3 DEF LowRateType, DetectorUnchanged
  <1>6. /\ IncrementLowRateReadIndices(b) \in LowRateType
        /\ DetectorUnchanged(IncrementLowRateReadIndices(b), b)
    BY <1>2, <1>4 DEF LowRateType, DetectorUnchanged
  <1>7. AfterUnderrun(b) \in LowRateType /\ DetectorUnchanged(AfterUnderrun(b), b)
    <2>1. AfterUnderrun(b) = IF b.delay # Unset /\ b.delay > 0
                               THEN [r EXCEPT !.delay = b.delay - 1] ELSE r
      BY DEF AfterUnderrun, r
    <2>2. b.delay # Unset => b.delay - 1 \in Int
      BY DEF LowRateType
    <2> QED
      BY <1>5, <2>1, <2>2 DEF LowRateType, DetectorUnchanged
  <1> QED
    BY <1>5, <1>6, <1>7 DEF r

\* A capture block: an excess restarts the detector, any other block is
\* entered in its books.
LEMMA PrepareDetector ==
    ASSUME NEW b \in LowRateType
    PROVE  LET c == PrepareCaptureProcessing(b)
           IN  /\ c \in LowRateType
               /\ ExcessDetected(b) =>
                    c.min_latency = 0 /\ c.excess_counter = 0
               /\ ~ ExcessDetected(b) =>
                    /\ c.min_latency = IF IntervalEnds(b) THEN BufferLatency(b)
                                                          ELSE MinLatency(b)
                    /\ c.excess_counter = IF IntervalEnds(b) THEN 0
                                          ELSE b.excess_counter + 1
  <1> DEFINE counted == CountCall(b, -1)
             seen == DetectExcessRenderBlocks(counted)
             c == PrepareCaptureProcessing(b)
             m == IF IntervalEnds(b) THEN BufferLatency(b) ELSE MinLatency(b)
             n == IF IntervalEnds(b) THEN 0 ELSE b.excess_counter + 1
  <1>1. /\ counted \in LowRateType
        /\ DetectorUnchanged(counted, b)
        /\ BufferLatency(counted) = BufferLatency(b)
    BY CountLowRate DEF BufferLatency
  <1>2. /\ IntervalEnds(counted) <=> IntervalEnds(b)
        /\ MinLatency(counted) = MinLatency(b)
    BY <1>1 DEF IntervalEnds, MinLatency, DetectorUnchanged
  <1>3. m \in Indices(LowRateSize) /\ n \in Indices(DetectionInterval)
    <2>1. /\ BufferLatency(b) \in Indices(LowRateSize)
          /\ b.min_latency \in Indices(LowRateSize)
          /\ b.excess_counter \in Indices(DetectionInterval)
      BY LatencyInRing DEF LowRateType
    <2> QED
      BY <2>1, SizeAssumption DEF Indices, MinLatency, Smaller, IntervalEnds
  <1>4. seen = [counted EXCEPT !.min_latency = m, !.excess_counter = n]
    BY <1>1, <1>2
    DEF DetectExcessRenderBlocks, LowRateType, DetectorUnchanged
  <1>5. /\ PrepareEvent(b) = "overrun" => c = Reset(seen)
        /\ PrepareEvent(b) = "underrun" => c = AfterUnderrun(seen)
        /\ PrepareEvent(b) = "none" =>
             c = IncrementReadIndices(IncrementLowRateReadIndices(seen))
    BY DEF PrepareCaptureProcessing
  <1>6. /\ PrepareEvent(b) \in {"overrun", "underrun", "none"}
        /\ PrepareEvent(b) = "overrun" <=> ExcessDetected(b)
    BY DEF PrepareEvent
  <1> HIDE DEF counted, seen, c, m, n
  <1>7. seen \in LowRateType /\ seen.min_latency = m /\ seen.excess_counter = n
    BY <1>1, <1>3, <1>4 DEF LowRateType
  <1>8. CASE ExcessDetected(b)
    BY <1>5, <1>6, <1>7, <1>8, ResetDetector DEF c
  <1>9. CASE ~ ExcessDetected(b)
    <2>1. c \in LowRateType /\ DetectorUnchanged(c, seen)
      <3> DEFINE l == IncrementLowRateReadIndices(seen)
      <3>1. CASE PrepareEvent(b) = "underrun"
        BY <1>5, <1>7, <3>1, ReadLowRate
      <3>2. CASE PrepareEvent(b) = "none"
        <4>1. l \in LowRateType /\ DetectorUnchanged(l, seen)
          BY <1>7, ReadLowRate
        <4>2. c = IncrementReadIndices(l)
          BY <1>5, <3>2
        <4> HIDE DEF l
        <4>3. /\ IncrementReadIndices(l) \in LowRateType
              /\ DetectorUnchanged(IncrementReadIndices(l), l)
          BY <4>1, ReadLowRate
        <4> QED
          BY <4>1, <4>2, <4>3 DEF DetectorUnchanged
      <3> QED
        BY <1>6, <1>9, <3>1, <3>2
    <2> QED
      BY <1>7, <1>9, <2>1 DEF DetectorUnchanged, c, m, n
  <1> QED
    BY <1>8, <1>9

\* Neither alignment touches it.
LEMMA AlignedDetector ==
    ASSUME NEW b \in LowRateType, NEW d \in Nat
    PROVE  /\ AlignFromDelay(b, d) \in LowRateType
           /\ DetectorUnchanged(AlignFromDelay(b, d), b)
           /\ AlignFromExternalDelay(b) \in LowRateType
           /\ DetectorUnchanged(AlignFromExternalDelay(b), b)
  <1> DEFINE asked == [b EXCEPT !.delay = d]
             t == LimitedDelay(b, d)
  <1>1. asked \in LowRateType /\ DetectorUnchanged(asked, b)
    BY DEF LowRateType, DetectorUnchanged
  <1>2. t \in Int
    <2>1. BufferLatency(b) \in Int /\ MaxDelay \in Int
      BY LatencyInRing, SizeAssumption DEF Indices, MaxDelay, BlocksSize
    <2> QED
      BY <2>1 DEF LimitedDelay, Smaller, Larger
  <1>3. AlignFromDelay(b, d) = IF AlignmentChanges(b, d)
                                 THEN ApplyTotalDelay(asked, t) ELSE b
    BY DEF AlignFromDelay
  <1> HIDE DEF asked, t
  <1>4. /\ AlignFromDelay(b, d) \in LowRateType
        /\ DetectorUnchanged(AlignFromDelay(b, d), b)
    BY <1>1, <1>2, <1>3, ApplyLowRate DEF DetectorUnchanged
  <1>5. b.external # Unset => ExternalTotalDelay(b) \in Int
    BY DEF LowRateType, ExternalTotalDelay
  <1>6. /\ AlignFromExternalDelay(b) \in LowRateType
        /\ DetectorUnchanged(AlignFromExternalDelay(b), b)
    BY <1>5, ApplyLowRate DEF AlignFromExternalDelay, DetectorUnchanged
  <1> QED
    BY <1>4, <1>6

\* What the excess detector knows about the captures so far: a high minimum
\* is backed by a run of high latencies, and a run it has not seen the start
\* of is no longer than the interval before.
DetectorInv ==
    /\ buf.min_latency > MaxExcess =>
         /\ highRun > buf.excess_counter
         /\ highRun <= buf.excess_counter + DetectionInterval
    /\ buf.min_latency <= MaxExcess => highRun <= buf.excess_counter

\* The detector's part of the invariant, which both modes keep.
DetectionInv ==
    /\ buf \in LowRateType
    /\ highRun \in Nat
    /\ estimate \in Estimates \cup {Unset}
    /\ DetectorInv
    /\ ExcessIsLasting

LEMMA InitDetection == Init => DetectionInv
  <1> SUFFICES ASSUME Init PROVE DetectionInv
    OBVIOUS
  <1> DEFINE zero == [lr_write |-> 0, lr_read |-> 0, b_write |-> 0,
                      b_read |-> 0, s_write |-> 0, s_read |-> 0,
                      delay |-> DefaultDelay, external |-> Unset,
                      min_latency |-> 0, excess_counter |-> 0, skew |-> 0]
  <1>1. zero \in LowRateType
    BY SizeAssumption DEF LowRateType, Indices
  <1>2. buf = Reset(zero)
    BY DEF Init, Initial
  <1> HIDE DEF zero
  <1>3. buf \in LowRateType /\ buf.min_latency = 0 /\ buf.excess_counter = 0
    BY <1>1, <1>2, ResetDetector
  <1>4. highRun = 0 /\ estimate = Unset /\ ~ heard.excess
    BY DEF Init, Nothing
  <1> QED
    BY <1>3, <1>4, SizeAssumption
    DEF DetectionInv, DetectorInv, ExcessIsLasting

\* A render block: a reset ends the run, as it ends the excess.
LEMMA RenderDetection ==
    ASSUME DetectionInv, BufferRender
    PROVE  DetectionInv'
  <1>1. /\ buf' \in LowRateType
        /\ ~ InsertOverruns(buf) => /\ buf'.min_latency = buf.min_latency
                                    /\ buf'.excess_counter = buf.excess_counter
        /\ InsertOverruns(buf) => /\ buf'.min_latency = 0
                                  /\ buf'.excess_counter = 0
    BY InsertDetector DEF DetectionInv, BufferRender, DetectorUnchanged
  <1>2. /\ highRun' = IF InsertOverruns(buf) THEN 0 ELSE highRun
        /\ UNCHANGED <<estimate, heard>>
    BY DEF BufferRender
  <1>3. DetectorInv'
    BY <1>1, <1>2, SizeAssumption DEF DetectionInv, DetectorInv
  <1> QED
    BY <1>1, <1>2, <1>3 DEF DetectionInv, ExcessIsLasting

\* A report of the audio buffer delay.
LEMMA ReportDetection ==
    ASSUME DetectionInv, NEW blocks \in ExternalDelays,
           SetAudioBufferDelay_(blocks)
    PROVE  DetectionInv'
  <1>1. /\ buf' = [buf EXCEPT !.external = blocks]
        /\ UNCHANGED <<estimate, heard, highRun>>
    BY DEF SetAudioBufferDelay_, SetAudioBufferDelay
  <1>2. blocks \in Int
    BY ExternalAssumption
  <1>3. buf' \in LowRateType /\ DetectorUnchanged(buf', buf)
    BY <1>1, <1>2 DEF DetectionInv, LowRateType, DetectorUnchanged
  <1> QED
    BY <1>1, <1>3
    DEF DetectionInv, DetectorInv, ExcessIsLasting, DetectorUnchanged

\* The detector's bookkeeping over one capture block.
LEMMA DetectionStep ==
    ASSUME DetectionInv
    PROVE  /\ Run \in Nat
           /\ Prepared \in LowRateType
           /\ ExcessDetected(Entered) => Run > DetectionInterval
           /\ LET run == IF Event = "overrun" THEN 0 ELSE Run
              IN  /\ Prepared.min_latency > MaxExcess =>
                       /\ run > Prepared.excess_counter
                       /\ run <= Prepared.excess_counter + DetectionInterval
                  /\ Prepared.min_latency <= MaxExcess =>
                       run <= Prepared.excess_counter
  <1> USE SizeAssumption
  <1> DEFINE m == Entered.min_latency
             n == Entered.excess_counter
             l == BufferLatency(Entered)
             h == IF FirstCapture THEN 0 ELSE highRun
  <1>0. /\ Entered \in LowRateType
        /\ FirstCapture => m = 0 /\ n = 0
        /\ ~ FirstCapture => Entered = buf
    BY ResetDetector DEF DetectionInv, Entered
  <1>1. /\ m \in Nat /\ n \in 0 .. DetectionInterval - 1 /\ l \in Nat
        /\ h \in Nat
    <2>1. m \in Nat /\ n \in 0 .. DetectionInterval - 1
      BY <1>0 DEF LowRateType, Indices
    <2>2. l \in Nat
      BY <1>0, LatencyInRing DEF Indices
    <2> QED
      BY <2>1, <2>2 DEF DetectionInv
  <1>2. /\ m > MaxExcess => h > n /\ h <= n + DetectionInterval
        /\ m <= MaxExcess => h <= n
    BY <1>0, <1>1 DEF DetectionInv, DetectorInv
  <1>3. Run = IF l > MaxExcess THEN h + 1 ELSE 0
    BY <1>1 DEF Run, HighLatency
  <1>4. /\ IntervalEnds(Entered) <=> n = DetectionInterval - 1
        /\ MinLatency(Entered) = IF m < l THEN m ELSE l
        /\ ExcessDetected(Entered) <=>
             n = DetectionInterval - 1 /\ m > MaxExcess /\ l > MaxExcess
    BY <1>1 DEF IntervalEnds, MinLatency, Smaller, ExcessDetected
  <1>5. Event = "overrun" <=> ExcessDetected(Entered)
    BY DEF Event, PrepareEvent
  <1>6. /\ Prepared \in LowRateType
        /\ Event = "overrun" =>
             Prepared.min_latency = 0 /\ Prepared.excess_counter = 0
        /\ Event # "overrun" =>
             /\ Prepared.min_latency = IF IntervalEnds(Entered) THEN l
                                       ELSE MinLatency(Entered)
             /\ Prepared.excess_counter = IF IntervalEnds(Entered) THEN 0
                                          ELSE n + 1
    BY <1>0, <1>5, PrepareDetector DEF Prepared
  <1> HIDE DEF m, n, l, h
  <1> QED
    BY <1>1, <1>2, <1>3, <1>4, <1>5, <1>6

\* A capture block.
LEMMA CaptureDetection ==
    ASSUME DetectionInv, ProcessCapture
    PROVE  DetectionInv'
  <1>1. PICK found \in IF UseExternalEstimator THEN {Unset}
                       ELSE GetDelay(IF ControllerReset THEN Unset
                                     ELSE estimate) :
          /\ buf' = Aligned(found)
          /\ estimate' = found
          /\ heard'.excess = ExcessDetected(Entered)
          /\ heard'.run = Run
    BY DEF ProcessCapture
  <1>2. highRun' = IF Event = "overrun" THEN 0 ELSE Run
    BY DEF ProcessCapture
  <1>3. /\ found \in Estimates \cup {Unset}
        /\ found # Unset => found \in Nat
    BY <1>1, EstimatesAssumption DEF GetDelay, DetectionInv
  <1>4. buf' \in LowRateType /\ DetectorUnchanged(buf', Prepared)
    <2>1. Prepared \in LowRateType
      BY DetectionStep
    <2>2. CASE UseExternalEstimator
      <3>1. buf' = AlignFromExternalDelay(Prepared)
        BY <1>1, <2>2 DEF Aligned
      <3>2. 0 \in Nat
        OBVIOUS
      <3> QED
        BY <2>1, <3>1, <3>2, AlignedDetector
    <2>3. CASE ~ UseExternalEstimator /\ found # Unset
      <3>1. buf' = AlignFromDelay(Prepared, found) /\ found \in Nat
        BY <1>1, <1>3, <2>3 DEF Aligned
      <3> QED
        BY <2>1, <3>1, AlignedDetector
    <2>4. CASE ~ UseExternalEstimator /\ found = Unset
      BY <1>1, <2>1, <2>4 DEF Aligned, DetectorUnchanged
    <2> QED
      BY <2>2, <2>3, <2>4
  <1>5. highRun' \in Nat
    BY <1>2, DetectionStep
  <1>6. DetectorInv'
    BY <1>2, <1>4, DetectionStep DEF DetectorInv, DetectorUnchanged
  <1>7. ExcessIsLasting'
    BY <1>1, DetectionStep DEF ExcessIsLasting
  <1> QED
    BY <1>1, <1>3, <1>4, <1>5, <1>6, <1>7 DEF DetectionInv

LEMMA DetectionInductive == Spec => []DetectionInv
  <1>1. DetectionInv /\ [Next]_vars => DetectionInv'
    <2> SUFFICES ASSUME DetectionInv, [Next]_vars PROVE DetectionInv'
      OBVIOUS
    <2>1. CASE UNCHANGED vars
      BY <2>1 DEF vars, DetectionInv, DetectorInv, ExcessIsLasting
    <2>2. CASE Next
      BY <2>2, RenderDetection, CaptureDetection, ReportDetection DEF Next
    <2> QED
      BY <2>1, <2>2
  <1> QED
    BY InitDetection, <1>1, PTL DEF Spec

\* Only a lasting excess of render blocks resets the buffer, whichever
\* estimator is in use, ...
THEOREM ExcessLasts == Spec => []ExcessIsLasting
  <1>1. DetectionInv => ExcessIsLasting
    BY DEF DetectionInv
  <1> QED
    BY <1>1, DetectionInductive, PTL

\* ... and an excess that lasts does, within two detection intervals.
THEOREM ExcessEnds == Spec => []ExcessIsBounded
  <1>1. DetectionInv => ExcessIsBounded
    BY SizeAssumption
    DEF DetectionInv, DetectorInv, ExcessIsBounded, LowRateType, Indices
  <1> QED
    BY <1>1, DetectionInductive, PTL

-----------------------------------------------------------------------------
(* The external estimator, while its delay is one that OffsetIndex accepts *)

\* OffsetIndex asserts of its offset that it is no larger than the ring; it is
\* called with the delay and with its negative.
OffsetsAllowed ==
    /\ OffsetAllowed(heard.total, BlocksSize)
    /\ OffsetAllowed(- heard.total, BlocksSize)

LEMMA CountPaired ==
    ASSUME NEW b, Paired(b), NEW n \in Int
    PROVE  Paired(CountCall(b, n))
  BY DEF CountCall, Paired, BufferType, InLockstep, InternalDelay

\* The insertion of a render block.
LEMMA InsertPaired ==
    ASSUME DefaultAllowed, NEW b, Paired(b)
    PROVE  Paired(Insert(b))
  <1> DEFINE counted == CountCall(b, 1)
             written == IncrementWriteIndices(counted)
  <1>1. Paired(counted)
    BY CountPaired
  <1>2. Insert(b) = IF InsertOverruns(b) THEN Reset(written) ELSE written
    BY DEF Insert
  <1>3. InsertOverruns(b) <=> RenderOverrun(written)
    BY DEF InsertOverruns, RenderOverrun, LowRateMeets, BlocksMeet,
           IncrementWriteIndices, CountCall, Paired, BufferType
  <1> HIDE DEF counted
  <1>4. written \in BufferType
    BY <1>1, WriteFacts DEF Paired
  <1>5. ~ BlocksMeet(written) => InLockstep(written)
    BY <1>1, WriteFacts DEF Paired
  <1> HIDE DEF written
  <1> QED
    BY <1>2, <1>3, <1>4, <1>5, ResetGood DEF Paired, Good, RenderOverrun

\* The bookkeeping and the reading of a capture block.
LEMMA PreparePaired ==
    ASSUME DefaultAllowed, NEW b, Paired(b)
    PROVE  Paired(PrepareCaptureProcessing(b))
  <1> DEFINE counted == CountCall(b, -1)
             m == IF IntervalEnds(counted) THEN BufferLatency(counted)
                                           ELSE MinLatency(counted)
             n == IF IntervalEnds(counted) THEN 0
                                           ELSE counted.excess_counter + 1
             seen == DetectExcessRenderBlocks(counted)
             c == PrepareCaptureProcessing(b)
  <1>1. Paired(counted)
    BY CountPaired
  <1> HIDE DEF counted
  <1>2. m \in Indices(LowRateSize) /\ n \in Indices(DetectionInterval)
    BY <1>1, Distances, SizeAssumption
    DEF Paired, MinLatency, Smaller, IntervalEnds, BufferType, Indices
  <1>3. seen = [counted EXCEPT !.min_latency = m, !.excess_counter = n]
    BY <1>1 DEF DetectExcessRenderBlocks, Paired, BufferType
  <1> HIDE DEF seen, m, n
  <1>4. Paired(seen)
    BY <1>1, <1>2, <1>3 DEF Paired, BufferType, InLockstep, InternalDelay
  <1>5. /\ PrepareEvent(b) = "overrun" => c = Reset(seen)
        /\ PrepareEvent(b) = "underrun" => c = AfterUnderrun(seen)
        /\ PrepareEvent(b) = "none" =>
             c = IncrementReadIndices(IncrementLowRateReadIndices(seen))
    BY DEF PrepareCaptureProcessing, seen, counted
  <1>6. PrepareEvent(b) \in {"overrun", "underrun", "none"}
    BY DEF PrepareEvent
  <1> HIDE DEF c
  <1>7. CASE PrepareEvent(b) = "overrun"
    BY <1>4, <1>5, <1>7, ResetGood DEF Paired, Good, c
  <1>8. CASE PrepareEvent(b) = "underrun"
    <2> DEFINE r == IncrementReadIndices(seen)
    <2>1. Paired(r)
      BY <1>4, ReadFacts DEF Paired
    <2>2. c = IF seen.delay # Unset /\ seen.delay > 0
                THEN [r EXCEPT !.delay = seen.delay - 1] ELSE r
      BY <1>5, <1>8 DEF AfterUnderrun
    <2> HIDE DEF r
    <2>3. seen.delay # Unset /\ seen.delay > 0 => seen.delay - 1 \in Nat
      BY <1>4 DEF Paired, BufferType
    <2> QED
      BY <2>1, <2>2, <2>3
      DEF Paired, BufferType, InLockstep, InternalDelay, c
  <1>9. CASE PrepareEvent(b) = "none"
    <2> DEFINE i == DecIndex(seen.lr_read, LowRateSize)
               l == IncrementLowRateReadIndices(seen)
    <2>1. i \in Indices(LowRateSize)
      BY <1>4, StepFacts, SizeAssumption DEF Paired, BufferType
    <2>2. l = [seen EXCEPT !.lr_read = i]
      BY DEF IncrementLowRateReadIndices
    <2> HIDE DEF i, l
    <2>3. Paired(l)
      BY <1>4, <2>1, <2>2 DEF Paired, BufferType, InLockstep, InternalDelay
    <2>4. c = IncrementReadIndices(l)
      BY <1>5, <1>9 DEF l
    <2> QED
      BY <2>3, <2>4, ReadFacts DEF Paired, c
  <1> QED
    BY <1>6, <1>7, <1>8, <1>9

\* While its delay, and the default one, is one that OffsetIndex accepts, the
\* external estimator too leaves every index in its ring and the spectra with
\* their blocks.
THEOREM LockstepWhileAllowed ==
    UseExternalEstimator /\ DefaultAllowed =>
      (Spec /\ []OffsetsAllowed => [](TypeOK /\ Lockstep))
  <1> SUFFICES ASSUME UseExternalEstimator, DefaultAllowed
               PROVE  Spec /\ []OffsetsAllowed => [](TypeOK /\ Lockstep)
    OBVIOUS
  <1> DEFINE PInv == TypeOK /\ Lockstep
  <1>1. Init => PInv
    BY InitIInv DEF IInv, Good, Lockstep
  <1>2. PInv /\ OffsetsAllowed' /\ [Next]_vars => PInv'
    <2> SUFFICES ASSUME PInv, OffsetsAllowed', [Next]_vars PROVE PInv'
      OBVIOUS
    <2>0. Paired(buf)
      BY DEF TypeOK, Lockstep, Paired
    <2>1. CASE UNCHANGED vars
      BY <2>1 DEF vars, TypeOK, Lockstep
    <2>2. CASE BufferRender
      <3>1. Paired(buf')
        BY <2>0, <2>2, InsertPaired DEF BufferRender
      <3> QED
        BY <2>2, <3>1 DEF BufferRender, TypeOK, Lockstep, Paired
    <2>3. ASSUME NEW blocks \in ExternalDelays, SetAudioBufferDelay_(blocks)
          PROVE  PInv'
      <3>1. blocks \in Int /\ buf' = [buf EXCEPT !.external = blocks]
        BY <2>3, ExternalAssumption
        DEF SetAudioBufferDelay_, SetAudioBufferDelay
      <3>2. Paired(buf')
        BY <2>0, <3>1 DEF Paired, BufferType, InLockstep, InternalDelay
      <3> QED
        BY <2>3, <3>2 DEF SetAudioBufferDelay_, TypeOK, Lockstep, Paired
    <2>4. CASE ProcessCapture
      <3>1. PICK found \in {Unset} :
              /\ buf' = Aligned(found)
              /\ estimate' = found
              /\ heard'.total = IF HasReceivedBufferDelay(Prepared)
                                  THEN ExternalTotalDelay(Prepared) ELSE 0
        BY <2>4 DEF ProcessCapture
      <3>2. buf' = AlignFromExternalDelay(Prepared)
        BY <3>1 DEF Aligned
      <3>3. Paired(Entered)
        BY <2>0, ResetGood DEF Entered, Paired, Good
      <3>4. Paired(Prepared)
        BY <3>3, PreparePaired DEF Prepared
      <3>5. Paired(buf')
        <4>1. CASE Prepared.external = Unset
          BY <3>2, <3>4, <4>1 DEF AlignFromExternalDelay
        <4>2. CASE Prepared.external # Unset
          <5> DEFINE d == ExternalTotalDelay(Prepared)
          <5>1. d \in Int
            BY <3>4, <4>2 DEF Paired, BufferType, ExternalTotalDelay
          <5>2. heard'.total = d
            BY <3>1, <4>2 DEF HasReceivedBufferDelay
          <5>3. buf' = ApplyTotalDelay(Prepared, d)
            BY <3>2, <4>2 DEF AlignFromExternalDelay
          <5> HIDE DEF d
          <5>4. d <= BlocksSize /\ - d <= BlocksSize
            <6>1. BlocksSize' = BlocksSize /\ BlocksSize \in Int
              BY SizeAssumption DEF BlocksSize
            <6> QED
              BY <5>1, <5>2, <6>1 DEF OffsetsAllowed, OffsetAllowed
          <5> QED
            BY <3>4, <5>1, <5>3, <5>4, ApplyPaired DEF Paired
        <4> QED
          BY <4>1, <4>2
      <3>6. highRun' \in Nat
        BY <2>4 DEF ProcessCapture, TypeOK, Run
      <3> QED
        BY <2>4, <3>1, <3>5, <3>6
        DEF ProcessCapture, TypeOK, Lockstep, Paired
    <2> QED
      BY <2>1, <2>2, <2>3, <2>4 DEF Next
  <1> QED
    BY <1>1, <1>2, PTL DEF Spec
=============================================================================
