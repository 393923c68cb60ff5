------------------------ MODULE EchoCanceller3Proofs ------------------------
(***************************************************************************)
(* Both signals pass echo_canceller3.cc whole, in order and in time, for   *)
(* every length of the transfer queue and of the fixed capture delay.      *)
(***************************************************************************)
EXTENDS EchoCanceller3, SequenceTheorems, TLAPS

\* The frames in the queue follow each other up to the next one written, and
\* the first one follows what the render blocker holds.
RenderInv ==
    /\ written \in 0 .. Cycle - 1 /\ buffered \in 0 .. Cycle - 1
    /\ render_transfer_queue_ \in Seq(0 .. Cycle - 1)
    /\ Len(render_transfer_queue_) <= QueueSize
    /\ \A k \in 1 .. Len(render_transfer_queue_) :
         render_transfer_queue_[k]
           = (written - Frame * (Len(render_transfer_queue_) - k + 1)) % Cycle
    /\ Len(render_blocker_) \in {0, 2}
    /\ (buffered + Len(render_blocker_)) % Cycle
         = (written - Frame * Len(render_transfer_queue_)) % Cycle
    /\ RenderIsContinuous

\* A ring that holds the units before the position next, the oldest where the
\* next one is inserted.
DelayLine(delay, next) ==
    CaptureDelay > 0 =>
      /\ delay.last_insert \in 0 .. CaptureDelay - 1
      /\ \A k \in 1 .. CaptureDelay :
           delay.buf[((delay.last_insert + k - 1) % CaptureDelay) + 1]
             = (next - CaptureDelay + k - 1) % Cycle

\* The delay line holds the units before the next capture frame, the blocker
\* those before them that fill no block yet, and the framers the rest of the
\* block before those.
CaptureInv ==
    /\ captured \in 0 .. Cycle - 1
    /\ DelayLine(block_delay_buffer_, captured)
    /\ \E n \in {0, 2} :
         /\ capture_blocker_ = Units(captured - CaptureDelay - n, n)
         /\ output_framer_ = Units(captured - CaptureDelay - Block, Block - n)
    /\ OutputIsDelayedCapture
    /\ ~ LinearSkipped =>
         /\ linear_output_framer_ = output_framer_
         /\ LinearOutputIsAligned

EInv == pc \in {"idle", "draining"} /\ RenderInv /\ CaptureInv

-----------------------------------------------------------------------------
(* Positions                                                               *)

\* A product grows with its factor.
LEMMA Product ==
    ASSUME NEW a \in Nat, NEW b \in Nat, NEW d \in Nat, a <= b
    PROVE  a * d <= b * d
  <1>1. PICK e \in Nat : b = a + e
    <2>1. b - a \in Nat /\ b = a + (b - a)
      OBVIOUS
    <2> QED
      BY <2>1
  <1>2. b * d = a * d + e * d /\ e * d \in Nat
    BY <1>1
  <1> QED
    BY <1>2

\* Whole turns of a ring do not matter.
LEMMA Turns ==
    ASSUME NEW d \in Nat \ {0}, NEW x \in Int, NEW q \in Int
    PROVE  (x + d * q) % d = x % d
  <1> DEFINE e == x \div d
             r == x % d
             y == x + d * q
             f == y \div d
             s == y % d
  <1>1. d * q \in Int /\ y \in Int
    OBVIOUS
  <1> HIDE DEF y
  <1>2. /\ e \in Int /\ r \in 0 .. d - 1 /\ x = d * e + r
        /\ f \in Int /\ s \in 0 .. d - 1 /\ y = d * f + s
    BY <1>1
  <1> HIDE DEF e, r, f, s
  <1> DEFINE g == f - e - q
  <1>3. g \in Int /\ d * g = d * f - d * e - d * q
    BY <1>2
  <1>4. d * g = r - s
    BY <1>1, <1>2, <1>3 DEF y
  <1> HIDE DEF g
  <1>5. ASSUME g >= 1 PROVE FALSE
    <2>1. g \in Nat /\ 1 * d <= g * d
      BY <1>3, <1>5, Product
    <2> QED
      BY <1>2, <1>3, <1>4, <2>1
  <1>6. ASSUME g <= -1 PROVE FALSE
    <2>1. - g \in Nat /\ 1 * d <= (- g) * d
      BY <1>3, <1>6, Product
    <2>2. (- g) * d = - (d * g)
      BY <1>3
    <2> QED
      BY <1>2, <1>3, <1>4, <2>1, <2>2
  <1>7. g = 0
    BY <1>3, <1>5, <1>6
  <1>8. r = s
    BY <1>2, <1>4, <1>7
  <1> QED
    BY <1>8 DEF r, s, y

\* Remainders may be taken early.
LEMMA EarlyRemainder ==
    ASSUME NEW d \in Nat \ {0}, NEW x \in Int, NEW y \in Int
    PROVE  ((x % d) + y) % d = (x + y) % d
  <1> DEFINE e == x \div d
             r == x % d
  <1>1. e \in Int /\ r \in 0 .. d - 1 /\ x = d * e + r
    BY SMT
  <1> HIDE DEF e, r
  <1> DEFINE q == - e
  <1>2. q \in Int /\ d * q = - (d * e) /\ d * e \in Int /\ x + y \in Int
    BY <1>1
  <1> HIDE DEF q
  <1>3. r + y = (x + y) + d * q
    BY <1>1, <1>2
  <1>4. ((x + y) + d * q) % d = (x + y) % d
    BY <1>2, Turns
  <1>5. (r + y) % d = (x + y) % d
    BY <1>3, <1>4
  <1> QED
    BY <1>5 DEF r

\* Where a remainder is.
LEMMA Remainders ==
    ASSUME NEW d \in Nat \ {0}, NEW x \in Int
    PROVE  /\ x % d \in 0 .. d - 1
           /\ x \in 0 .. d - 1 => x % d = x
  BY SMT

\* The size of the bound on positions.
LEMMA CycleFacts ==
    Cycle \in Nat \ {0} /\ Frame = 10 /\ Block = 4 /\ SubFrame = 5
  <1>1. Frame = 10 /\ Block = 4 /\ SubFrame = 5
    BY DEF Frame, Block, SubFrame
  <1>2. Cycle \in Nat /\ CaptureDelay \in Nat /\ Cycle > Frame + Block + CaptureDelay
    BY CycleAssumption
  <1> QED
    BY <1>1, <1>2

\* A position taken early is the same position.
LEMMA Wrap ==
    ASSUME NEW x \in Int, NEW y \in Int
    PROVE  /\ x % Cycle \in 0 .. Cycle - 1
           /\ ((x % Cycle) + y) % Cycle = (x + y) % Cycle
  <1>0. Cycle \in Nat \ {0}
    BY CycleFacts
  <1> QED
    BY <1>0, Remainders, EarlyRemainder

\* The same for a position further back.
LEMMA WrapMinus ==
    ASSUME NEW x \in Int, NEW y \in Int
    PROVE  ((x % Cycle) - y) % Cycle = (x - y) % Cycle
  <1> DEFINE z == - y
  <1>2. z \in Int /\ x % Cycle \in Int
    BY Wrap
  <1>4. (x % Cycle) + z = (x % Cycle) - y /\ x + z = x - y
    BY <1>2
  <1> HIDE DEF z
  <1>3. ((x % Cycle) + z) % Cycle = (x + z) % Cycle
    BY <1>2, Wrap
  <1> QED
    BY <1>3, <1>4

-----------------------------------------------------------------------------
(* Stretches of a stream                                                   *)

\* A stretch has the length asked for and its positions in order.
LEMMA UnitsFacts ==
    ASSUME NEW a \in Int, NEW n \in Nat
    PROVE  /\ Units(a, n) \in Seq(0 .. Cycle - 1)
           /\ Len(Units(a, n)) = n
           /\ \A k \in 1 .. n : Units(a, n)[k] = (a + k - 1) % Cycle
  <1>1. \A k \in 1 .. n : (a + k - 1) % Cycle \in 0 .. Cycle - 1
    BY CycleFacts, Remainders, EarlyRemainder
  <1>2. Units(a, n) \in [1 .. n -> 0 .. Cycle - 1]
    BY <1>1 DEF Units
  <1>3. Units(a, n) \in Seq(0 .. Cycle - 1)
    BY <1>2, SeqDef
  <1>4. DOMAIN Units(a, n) = 1 .. n /\ DOMAIN Units(a, n) = 1 .. Len(Units(a, n))
    BY <1>2, <1>3, LenProperties
  <1>5. Len(Units(a, n)) \in Nat
    BY <1>3, LenProperties
  <1>6. Len(Units(a, n)) = n
    BY <1>4, <1>5
  <1> QED
    BY <1>3, <1>6 DEF Units

\* A sequence that has the length and the positions of a stretch is one.
LEMMA IsUnits ==
    ASSUME NEW a \in Int, NEW n \in Nat, NEW s \in Seq(0 .. Cycle - 1),
           Len(s) = n, \A k \in 1 .. n : s[k] = (a + k - 1) % Cycle
    PROVE  s = Units(a, n)
  <1>1. Units(a, n) \in Seq(0 .. Cycle - 1) /\ Len(Units(a, n)) = n
    BY UnitsFacts
  <1>2. \A k \in 1 .. Len(s) : s[k] = Units(a, n)[k]
    BY UnitsFacts
  <1> QED
    BY <1>1, <1>2, SeqEqual

\* Two stretches that follow each other are one.
LEMMA UnitsConcat ==
    ASSUME NEW a \in Int, NEW m \in Nat, NEW n \in Nat
    PROVE  Units(a, m) \o Units(a + m, n) = Units(a, m + n)
  <1> DEFINE s == Units(a, m) \o Units(a + m, n)
  <1>0. a + m \in Int /\ m + n \in Nat
    OBVIOUS
  <1>1. /\ Units(a, m) \in Seq(0 .. Cycle - 1)
        /\ Units(a + m, n) \in Seq(0 .. Cycle - 1)
        /\ Len(Units(a, m)) = m /\ Len(Units(a + m, n)) = n
    BY <1>0, UnitsFacts
  <1>2. s \in Seq(0 .. Cycle - 1) /\ Len(s) = m + n
    BY <1>1, ConcatProperties
  <1>3. ASSUME NEW k \in 1 .. m + n
        PROVE  s[k] = (a + k - 1) % Cycle
    <2>1. s[k] = IF k <= m THEN Units(a, m)[k] ELSE Units(a + m, n)[k - m]
      BY <1>1, ConcatProperties
    <2>2. CASE k <= m
      BY <2>1, <2>2, UnitsFacts
    <2>3. CASE k > m
      <3>1. k - m \in 1 .. n /\ (a + m) + (k - m) - 1 = a + k - 1
        BY <2>3
      <3>2. \A j \in 1 .. n : Units(a + m, n)[j] = ((a + m) + j - 1) % Cycle
        BY <1>0, UnitsFacts
      <3>3. Units(a + m, n)[k - m] = (a + k - 1) % Cycle
        BY <3>1, <3>2
      <3>4. ~ k <= m
        BY <2>3
      <3> QED
        BY <2>1, <3>3, <3>4
    <2>4. k <= m \/ k > m
      OBVIOUS
    <2> QED
      BY <2>2, <2>3, <2>4
  <1> HIDE DEF s
  <1>4. s = Units(a, m + n)
    BY <1>0, <1>2, <1>3, IsUnits
  <1> QED
    BY <1>4 DEF s

\* A part of a stretch is a stretch.
LEMMA UnitsSub ==
    ASSUME NEW a \in Int, NEW n \in Nat, NEW i \in 1 .. n + 1, NEW j \in i - 1 .. n
    PROVE  SubSeq(Units(a, n), i, j) = Units(a + i - 1, j - i + 1)
  <1> DEFINE s == SubSeq(Units(a, n), i, j)
  <1>0. a + i - 1 \in Int /\ j - i + 1 \in Nat /\ i \in Int /\ j \in Int
    OBVIOUS
  <1>1. ASSUME NEW k \in i .. j PROVE Units(a, n)[k] \in 0 .. Cycle - 1
    <2>1. k \in 1 .. n
      BY <1>0
    <2>2. Units(a, n) \in Seq(0 .. Cycle - 1) /\ Len(Units(a, n)) = n
      BY UnitsFacts
    <2> QED
      BY <2>1, <2>2, ElementOfSeq
  <1>2. /\ s \in Seq(0 .. Cycle - 1) /\ Len(s) = j - i + 1
        /\ \A k \in 1 .. j - i + 1 : s[k] = Units(a, n)[i + k - 1]
    <2>1. /\ s \in Seq(0 .. Cycle - 1)
          /\ Len(s) = IF i <= j THEN j - i + 1 ELSE 0
          /\ \A k \in 1 .. j - i + 1 : s[k] = Units(a, n)[i + k - 1]
      BY <1>0, <1>1, SubSeqProperties
    <2> QED
      BY <2>1
  <1>3. ASSUME NEW k \in 1 .. j - i + 1
        PROVE  s[k] = ((a + i - 1) + k - 1) % Cycle
    <2>1. i + k - 1 \in 1 .. n /\ a + (i + k - 1) - 1 = (a + i - 1) + k - 1
      OBVIOUS
    <2>2. Units(a, n)[i + k - 1] = (a + (i + k - 1) - 1) % Cycle
      BY <2>1, UnitsFacts
    <2> QED
      BY <1>2, <2>1, <2>2
  <1> HIDE DEF s
  <1>4. s = Units(a + i - 1, j - i + 1)
    BY <1>0, <1>2, <1>3, IsUnits
  <1> QED
    BY <1>4 DEF s

\* A stretch depends on where its positions are, not on the turns before them.
LEMMA UnitsWrap ==
    ASSUME NEW a \in Int, NEW b \in Int, NEW n \in Nat
    PROVE  Units((a % Cycle) + b, n) = Units(a + b, n)
  <1>0. a % Cycle \in Int
    BY CycleFacts, Remainders, EarlyRemainder
  <1>1. ASSUME NEW k \in 1 .. n
        PROVE  ((a % Cycle) + (b + k - 1)) % Cycle = (a + (b + k - 1)) % Cycle
    <2> DEFINE y == b + k - 1
    <2>1. y \in Int
      OBVIOUS
    <2> HIDE DEF y
    <2>2. ((a % Cycle) + y) % Cycle = (a + y) % Cycle
      BY <2>1, CycleFacts, Remainders, EarlyRemainder
    <2> QED
      BY <2>2 DEF y
  <1>2. \A k \in 1 .. n :
          /\ ((a % Cycle) + b) + k - 1 = (a % Cycle) + (b + k - 1)
          /\ (a + b) + k - 1 = a + (b + k - 1)
    BY <1>0
  <1> QED
    BY <1>1, <1>2 DEF Units

\* A buffer that is empty holds a stretch without length.
LEMMA UnitsEmpty ==
    ASSUME NEW a \in Int
    PROVE  Units(a, 0) = <<>>
  <1>1. Units(a, 0) \in Seq(0 .. Cycle - 1) /\ Len(Units(a, 0)) = 0
    BY UnitsFacts
  <1> QED
    BY <1>1, EmptySeq

-----------------------------------------------------------------------------
(* Blocker and framer                                                      *)

\* The two subframes of a frame.
LEMMA SubFrames ==
    ASSUME NEW a \in Int
    PROVE  /\ SubFrameOf(Units(a, Frame), 0) = Units(a, 5)
           /\ SubFrameOf(Units(a, Frame), 1) = Units(a + 5, 5)
  <1>1. /\ SubFrameOf(Units(a, Frame), 0) = SubSeq(Units(a, 10), 1, 5)
        /\ SubFrameOf(Units(a, Frame), 1) = SubSeq(Units(a, 10), 6, 10)
    BY CycleFacts DEF SubFrameOf
  <1>2. /\ SubSeq(Units(a, 10), 1, 5) = Units(a + 1 - 1, 5 - 1 + 1)
        /\ SubSeq(Units(a, 10), 6, 10) = Units(a + 6 - 1, 10 - 6 + 1)
    <2>1. /\ 10 \in Nat /\ 1 \in 1 .. 10 + 1 /\ 5 \in 1 - 1 .. 10
          /\ 6 \in 1 .. 10 + 1 /\ 10 \in 6 - 1 .. 10
      OBVIOUS
    <2> QED
      BY <2>1, UnitsSub
  <1>3. a + 1 - 1 = a /\ 5 - 1 + 1 = 5 /\ a + 6 - 1 = a + 5 /\ 10 - 6 + 1 = 5
    OBVIOUS
  <1> QED
    BY <1>1, <1>2, <1>3

\* A blocker that holds n units and gets the subframe behind them hands out a
\* block and keeps the rest.
LEMMA InsertedSubFrame ==
    ASSUME NEW a \in Int, NEW n \in Nat
    PROVE  LET cut == InsertSubFrameAndExtractBlock(Units(a, n), Units(a + n, 5))
           IN  cut.block = Units(a, 4) /\ cut.buffer = Units(a + 4, n + 1)
  <1> DEFINE cut == InsertSubFrameAndExtractBlock(Units(a, n), Units(a + n, 5))
  <1>1. Units(a, n) \o Units(a + n, 5) = Units(a, n + 5)
    BY UnitsConcat
  <1>2. n + 5 \in Nat /\ Len(Units(a, n + 5)) = n + 5
    BY UnitsFacts
  <1>3. /\ cut.block = SubSeq(Units(a, n + 5), 1, 4)
        /\ cut.buffer = SubSeq(Units(a, n + 5), 5, n + 5)
    BY <1>1, <1>2, CycleFacts DEF InsertSubFrameAndExtractBlock
  <1>4. 1 \in 1 .. (n + 5) + 1 /\ 4 \in 1 - 1 .. n + 5
    OBVIOUS
  <1>5. SubSeq(Units(a, n + 5), 1, 4) = Units(a + 1 - 1, 4 - 1 + 1)
    BY <1>2, <1>4, UnitsSub
  <1>6. 5 \in 1 .. (n + 5) + 1 /\ n + 5 \in 5 - 1 .. n + 5
    OBVIOUS
  <1>7. SubSeq(Units(a, n + 5), 5, n + 5) = Units(a + 5 - 1, (n + 5) - 5 + 1)
    BY <1>2, <1>6, UnitsSub
  <1>8. /\ a + 1 - 1 = a /\ 4 - 1 + 1 = 4
        /\ a + 5 - 1 = a + 4 /\ (n + 5) - 5 + 1 = n + 1
    OBVIOUS
  <1> HIDE DEF cut
  <1>9. cut.block = Units(a, 4) /\ cut.buffer = Units(a + 4, n + 1)
    BY <1>3, <1>5, <1>7, <1>8
  <1> QED
    BY <1>9 DEF cut

\* A framer that holds n units and gets the block behind them hands out a
\* subframe, when together they fill one, and keeps the rest.
LEMMA InsertedBlock ==
    ASSUME NEW a \in Int, NEW n \in Nat \ {0}
    PROVE  LET cut == InsertBlockAndExtractSubFrame(Units(a, n), Units(a + n, 4))
           IN  cut.sub = Units(a, 5) /\ cut.buffer = Units(a + 5, n - 1)
  <1> DEFINE cut == InsertBlockAndExtractSubFrame(Units(a, n), Units(a + n, 4))
  <1>1. Units(a, n) \o Units(a + n, 4) = Units(a, n + 4)
    BY UnitsConcat
  <1>2. n + 4 \in Nat /\ Len(Units(a, n + 4)) = n + 4
    BY UnitsFacts
  <1>3. /\ cut.sub = SubSeq(Units(a, n + 4), 1, 5)
        /\ cut.buffer = SubSeq(Units(a, n + 4), 6, n + 4)
    BY <1>1, <1>2, CycleFacts DEF InsertBlockAndExtractSubFrame
  <1>4. 1 \in 1 .. (n + 4) + 1 /\ 5 \in 1 - 1 .. n + 4
    OBVIOUS
  <1>5. SubSeq(Units(a, n + 4), 1, 5) = Units(a + 1 - 1, 5 - 1 + 1)
    BY <1>2, <1>4, UnitsSub
  <1>6. 6 \in 1 .. (n + 4) + 1 /\ n + 4 \in 6 - 1 .. n + 4
    OBVIOUS
  <1>7. SubSeq(Units(a, n + 4), 6, n + 4) = Units(a + 6 - 1, (n + 4) - 6 + 1)
    BY <1>2, <1>6, UnitsSub
  <1>8. /\ a + 1 - 1 = a /\ 5 - 1 + 1 = 5
        /\ a + 6 - 1 = a + 5 /\ (n + 4) - 6 + 1 = n - 1
    OBVIOUS
  <1> HIDE DEF cut
  <1>9. cut.sub = Units(a, 5) /\ cut.buffer = Units(a + 5, n - 1)
    BY <1>3, <1>5, <1>7, <1>8
  <1> QED
    BY <1>9 DEF cut

\* A block that is appended to two is the third.
LEMMA AppendedThird ==
    ASSUME NEW x, NEW y, NEW z
    PROVE  Append(<<x, y>>, z) = <<x, y, z>>
  <1> DEFINE s == Append(<<x, y>>, z)
             t == <<x, y, z>>
             S == {x, y, z}
  <1>1. <<x, y>> \in Seq(S) /\ t \in Seq(S) /\ z \in S /\ Len(<<x, y>>) = 2 /\ Len(t) = 3
    OBVIOUS
  <1>2. /\ s \in Seq(S) /\ Len(s) = 3
        /\ s[1] = x /\ s[2] = y /\ s[3] = z
    BY <1>1
  <1>3. t[1] = x /\ t[2] = y /\ t[3] = z
    OBVIOUS
  <1> HIDE DEF s, t, S
  <1>4. \A i \in 1 .. Len(s) : s[i] = t[i]
    BY <1>2, <1>3
  <1>5. s = t
    BY <1>1, <1>2, <1>4, SeqEqual
  <1> QED
    BY <1>5 DEF s, t

\* What a blocker makes of a frame that follows what it holds: two blocks, or
\* three when it held half a block.
LEMMA BlockedFacts ==
    ASSUME NEW a \in Int, NEW n \in {0, 2}
    PROVE  LET cut == Blocked(Units(a, n), Units(a + n, Frame))
           IN  IF n = 0
                 THEN /\ cut.blocks = <<Units(a, 4), Units(a + 4, 4)>>
                      /\ cut.buffer = Units(a + 8, 2)
                 ELSE /\ cut.blocks = <<Units(a, 4), Units(a + 4, 4), Units(a + 8, 4)>>
                      /\ cut.buffer = Units(a + 12, 0)
  <1> DEFINE cut == Blocked(Units(a, n), Units(a + n, Frame))
             first == InsertSubFrameAndExtractBlock(Units(a, n),
                                                    SubFrameOf(Units(a + n, Frame), 0))
             second == InsertSubFrameAndExtractBlock(first.buffer,
                                                     SubFrameOf(Units(a + n, Frame), 1))
  <1>0. /\ n \in Nat /\ n + 1 \in Nat /\ a + n \in Int /\ a + 4 \in Int
        /\ (a + n) + 5 = (a + 4) + (n + 1) /\ (a + 4) + 4 = a + 8
        /\ (n + 1) + 1 = n + 2 /\ a + 8 \in Int /\ n + 2 \in Nat
    OBVIOUS
  <1>1. /\ SubFrameOf(Units(a + n, Frame), 0) = Units(a + n, 5)
        /\ SubFrameOf(Units(a + n, Frame), 1) = Units((a + 4) + (n + 1), 5)
    BY <1>0, SubFrames
  <1>2. first.block = Units(a, 4) /\ first.buffer = Units(a + 4, n + 1)
    BY <1>0, <1>1, InsertedSubFrame
  <1>3. second = InsertSubFrameAndExtractBlock(Units(a + 4, n + 1),
                                               Units((a + 4) + (n + 1), 5))
    BY <1>1, <1>2
  <1>4. second.block = Units(a + 4, 4) /\ second.buffer = Units((a + 4) + 4, (n + 1) + 1)
    BY <1>0, <1>3, InsertedSubFrame
  <1>5. second.buffer = Units(a + 8, n + 2)
    BY <1>0, <1>4
  <1> HIDE DEF first, second
  <1>6. IsBlockAvailable(second.buffer) <=> n = 2
    <2>1. Len(second.buffer) = n + 2
      BY <1>0, <1>5, UnitsFacts
    <2>2. (n + 2 = 4) <=> (n = 2)
      OBVIOUS
    <2> QED
      BY <2>1, <2>2, CycleFacts DEF IsBlockAvailable
  <1>7. cut = IF IsBlockAvailable(second.buffer)
                THEN [blocks |-> Append(<<first.block, second.block>>, second.buffer),
                      buffer |-> <<>>]
                ELSE [blocks |-> <<first.block, second.block>>, buffer |-> second.buffer]
    BY DEF Blocked, first, second
  <1> HIDE DEF cut
  <1>8. CASE n = 0
    <2>1. cut = [blocks |-> <<first.block, second.block>>, buffer |-> second.buffer]
      BY <1>6, <1>7, <1>8
    <2>2. n + 2 = 2
      BY <1>8
    <2>3. /\ cut.blocks = <<Units(a, 4), Units(a + 4, 4)>>
          /\ cut.buffer = Units(a + 8, 2)
      BY <2>1, <2>2, <1>2, <1>4, <1>5
    <2> QED
      BY <2>3, <1>8 DEF cut
  <1>9. CASE n = 2
    <2>1. cut = [blocks |-> Append(<<first.block, second.block>>, second.buffer),
                 buffer |-> <<>>]
      BY <1>6, <1>7, <1>9
    <2>2. n + 2 = 4 /\ a + 12 \in Int
      BY <1>9
    <2>3. Append(<<Units(a, 4), Units(a + 4, 4)>>, Units(a + 8, 4))
            = <<Units(a, 4), Units(a + 4, 4), Units(a + 8, 4)>>
      BY AppendedThird
    <2>4. /\ cut.blocks = <<Units(a, 4), Units(a + 4, 4), Units(a + 8, 4)>>
          /\ cut.buffer = Units(a + 12, 0)
      BY <2>1, <2>2, <2>3, <1>2, <1>4, <1>5, UnitsEmpty
    <2> QED
      BY <2>4, <1>9 DEF cut
  <1> QED
    BY <1>8, <1>9

\* What a framer makes of blocks that follow what it holds.
LEMMA FramedFacts ==
    ASSUME NEW a \in Int, NEW n \in {2, 4}, NEW blocks,
           blocks = IF n = 4 THEN <<Units(a + 4, 4), Units(a + 8, 4)>>
                    ELSE <<Units(a + 2, 4), Units(a + 6, 4), Units(a + 10, 4)>>
    PROVE  LET cut == Framed(Units(a, n), blocks)
           IN  /\ cut.frame = Units(a, 10)
               /\ cut.buffer = Units(a + 10, 6 - n)
  <1> DEFINE cut == Framed(Units(a, n), blocks)
             first == InsertBlockAndExtractSubFrame(Units(a, n), blocks[1])
             second == InsertBlockAndExtractSubFrame(first.buffer, blocks[2])
  <1>0. /\ n \in Nat \ {0} /\ n - 1 \in Nat \ {0} /\ a + 5 \in Int
        /\ (a + n) + 4 = (a + 5) + (n - 1) /\ (a + 5) + 5 = a + 10
        /\ (n - 1) - 1 = n - 2 /\ n - 2 \in Nat /\ a + 10 \in Int
    OBVIOUS
  <1>1. /\ blocks[1] = Units(a + n, 4)
        /\ blocks[2] = Units((a + n) + 4, 4)
        /\ n = 2 => Len(blocks) = 3 /\ blocks[3] = Units(a + 10, 4)
        /\ n = 4 => Len(blocks) = 2
    <2>1. CASE n = 2
      <3>1. /\ Len(blocks) = 3 /\ blocks[1] = Units(a + 2, 4)
            /\ blocks[2] = Units(a + 6, 4) /\ blocks[3] = Units(a + 10, 4)
        BY <2>1
      <3>2. a + n = a + 2 /\ (a + n) + 4 = a + 6
        BY <2>1
      <3> QED
        BY <2>1, <3>1, <3>2
    <2>2. CASE n = 4
      <3>1. /\ Len(blocks) = 2 /\ blocks[1] = Units(a + 4, 4)
            /\ blocks[2] = Units(a + 8, 4)
        BY <2>2
      <3>2. a + n = a + 4 /\ (a + n) + 4 = a + 8
        BY <2>2
      <3> QED
        BY <2>2, <3>1, <3>2
    <2> QED
      BY <2>1, <2>2
  <1>2. first.sub = Units(a, 5) /\ first.buffer = Units(a + 5, n - 1)
    BY <1>0, <1>1, InsertedBlock
  <1>3. second = InsertBlockAndExtractSubFrame(Units(a + 5, n - 1),
                                               Units((a + 5) + (n - 1), 4))
    BY <1>0, <1>1, <1>2
  <1>4. second.sub = Units(a + 5, 5) /\ second.buffer = Units((a + 5) + 5, (n - 1) - 1)
    BY <1>0, <1>3, InsertedBlock
  <1>5. second.buffer = Units(a + 10, n - 2)
    BY <1>0, <1>4
  <1>6. cut = [frame |-> first.sub \o second.sub,
               buffer |-> IF Len(blocks) = 3 THEN InsertBlock(second.buffer, blocks[3])
                          ELSE second.buffer]
    BY DEF Framed
  <1> HIDE DEF cut, first, second
  <1>7. first.sub \o second.sub = Units(a, 10)
    <2>1. Units(a, 5) \o Units(a + 5, 5) = Units(a, 5 + 5)
      BY UnitsConcat
    <2> QED
      BY <2>1, <1>2, <1>4
  <1>8. CASE n = 2
    <2>1. Len(blocks) = 3 /\ blocks[3] = Units(a + 10, 4) /\ n - 2 = 0 /\ 6 - n = 4
      BY <1>1, <1>8
    <2>2. second.buffer = <<>>
      BY <1>0, <1>5, <2>1, UnitsEmpty
    <2>3. Units(a + 10, 4) \in Seq(0 .. Cycle - 1)
      BY <1>0, UnitsFacts
    <2>4. InsertBlock(second.buffer, blocks[3]) = Units(a + 10, 4)
      BY <2>1, <2>2, <2>3, ConcatEmptySeq DEF InsertBlock
    <2>5. cut.frame = Units(a, 10) /\ cut.buffer = Units(a + 10, 6 - n)
      BY <1>6, <1>7, <2>1, <2>4
    <2> QED
      BY <2>5 DEF cut
  <1>9. CASE n = 4
    <2>1. Len(blocks) # 3 /\ n - 2 = 6 - n
      BY <1>1, <1>9
    <2>2. cut.frame = Units(a, 10) /\ cut.buffer = Units(a + 10, 6 - n)
      BY <1>5, <1>6, <1>7, <2>1
    <2> QED
      BY <2>2 DEF cut
  <1> QED
    BY <1>8, <1>9

-----------------------------------------------------------------------------
(* The delay line                                                          *)

\* A frame through the delay line comes out CaptureDelay units old, and the
\* ring then holds the units before the next frame.
LEMMA DelayFacts ==
    ASSUME NEW delay, NEW c \in Int, DelayLine(delay, c)
    PROVE  LET d == DelaySignal(delay, Units(c, Frame))
           IN  /\ d.frame = Units(c - CaptureDelay, Frame)
               /\ DelayLine(d.delay, (c + Frame) % Cycle)
  <1> DEFINE d == DelaySignal(delay, Units(c, Frame))
             D == CaptureDelay
             last == delay.last_insert
             line == Line(delay, Units(c, Frame))
             next == (last + 10) % D
  <1>0. D \in Nat
    BY CycleAssumption
  <1>1. CASE D = 0
    <2>1. d = [delay |-> delay, frame |-> Units(c, Frame)] /\ c - D = c /\ ~ D > 0
      BY <1>1 DEF DelaySignal
    <2> QED
      BY <2>1 DEF DelayLine
  <1>2. CASE D > 0
    <2>0. D \in Nat \ {0} /\ c - D \in Int /\ (c - D) + D = c /\ D + 10 \in Nat
      BY <1>0, <1>2
    <2>1. /\ last \in 0 .. D - 1
          /\ \A k \in 1 .. D :
               delay.buf[((last + k - 1) % D) + 1] = (c - D + k - 1) % Cycle
      BY <1>2 DEF DelayLine
    <2>2. line = Units(c - D, D + 10)
      <3>1. [k \in 1 .. D |-> delay.buf[((last + k - 1) % D) + 1]] = Units(c - D, D)
        BY <2>1 DEF Units
      <3>2. line = Units(c - D, D) \o Units((c - D) + D, 10)
        BY <2>0, <3>1, CycleFacts DEF Line
      <3>3. 10 \in Nat /\ Units(c - D, D) \o Units((c - D) + D, 10) = Units(c - D, D + 10)
        BY <2>0, UnitsConcat
      <3> QED
        BY <3>2, <3>3
    <2>3. next \in 0 .. D - 1
      <3>1. last + 10 \in Int
        BY <2>1
      <3> QED
        BY <2>0, <3>1, Remainders, EarlyRemainder
    <2>4. d = [delay |-> [buf |-> [i \in 1 .. D |->
                                     line[10 + 1 + ((i - 1 - last - 10) % D)]],
                          last_insert |-> next],
               frame |-> SubSeq(line, 1, 10)]
      BY <1>2, CycleFacts DEF DelaySignal, NextInsert
    <2> HIDE DEF line, d
    <2>5. SubSeq(line, 1, 10) = Units(c - D, 10)
      <3>1. 1 \in 1 .. (D + 10) + 1 /\ 10 \in 1 - 1 .. D + 10
        BY <1>0
      <3>2. SubSeq(Units(c - D, D + 10), 1, 10) = Units((c - D) + 1 - 1, 10 - 1 + 1)
        BY <2>0, <3>1, UnitsSub
      <3>3. (c - D) + 1 - 1 = c - D /\ 10 - 1 + 1 = 10
        BY <2>0
      <3> QED
        BY <2>2, <3>2, <3>3
    <2>6. ASSUME NEW k \in 1 .. D
          PROVE  d.delay.buf[((next + k - 1) % D) + 1]
                   = (((c + Frame) % Cycle) - D + k - 1) % Cycle
      <3> DEFINE i == (next + k - 1) % D
                 y == - last - 10
                 z == k - 1 - last - 10
                 w == k - 1 - D
      <3>1. k \in Int /\ next \in Int /\ last \in Int /\ D \in Int
        BY <2>0, <2>1, <2>3
      <3>2. y \in Int /\ z \in Int /\ w \in Int /\ next + k - 1 \in Int /\ last + 10 \in Int
        BY <3>1
      <3>3. i \in 0 .. D - 1 /\ (i + y) % D = ((next + k - 1) + y) % D
        <4> HIDE DEF y
        <4> DEFINE x == next + k - 1
        <4>1. x \in Int
          BY <3>2
        <4> HIDE DEF x, next
        <4>2. x % D \in 0 .. D - 1 /\ ((x % D) + y) % D = (x + y) % D
          BY <2>0, <3>2, <4>1, Remainders, EarlyRemainder
        <4> QED
          BY <4>2 DEF x
      <3>4. (next + z) % D = ((last + 10) + z) % D
        <4> HIDE DEF z
        <4> DEFINE x == last + 10
        <4>1. x \in Int
          BY <3>2
        <4> HIDE DEF x
        <4>2. ((x % D) + z) % D = (x + z) % D
          BY <2>0, <3>2, <4>1, Remainders, EarlyRemainder
        <4> QED
          BY <4>2 DEF x
      <3> HIDE DEF i, next
      <3>5. (next + k - 1) + y = next + z /\ (last + 10) + z = k - 1
        BY <3>1
      <3>6. k - 1 \in 0 .. D - 1 /\ k - 1 \in Int
        BY <2>0
      <3>7. (k - 1) % D = k - 1
        BY <2>0, <3>6, Remainders, EarlyRemainder
      <3>8. (i + y) % D = k - 1
        BY <3>3, <3>4, <3>5, <3>7
      <3>9. i \in Int /\ i + 1 \in 1 .. D /\ (i + 1) - 1 - last - 10 = i + y
        BY <3>1, <3>3
      <3>10. d.delay.buf[i + 1] = line[10 + 1 + (((i + 1) - 1 - last - 10) % D)]
        BY <2>4, <3>9
      <3>11. d.delay.buf[i + 1] = line[10 + 1 + (k - 1)]
        BY <3>8, <3>9, <3>10
      <3>12. 10 + 1 + (k - 1) \in 1 .. D + 10 /\ 10 + 1 + (k - 1) = 10 + k
        BY <3>1
      <3>13. line[10 + k] = ((c - D) + (10 + k) - 1) % Cycle
        <4>1. \A j \in 1 .. D + 10 : line[j] = ((c - D) + j - 1) % Cycle
          BY <2>0, <2>2, UnitsFacts
        <4> QED
          BY <3>12, <4>1
      <3>14. (c - D) + (10 + k) - 1 = (c + 10) + w
        BY <3>1
      <3>15. ((c + 10) + w) % Cycle = (((c + 10) % Cycle) + w) % Cycle
        <4> HIDE DEF w
        <4> DEFINE x == c + 10
        <4>1. x \in Int
          OBVIOUS
        <4> HIDE DEF x
        <4>2. ((x % Cycle) + w) % Cycle = (x + w) % Cycle
          BY <3>2, <4>1, Wrap
        <4> QED
          BY <4>2 DEF x
      <3>16. (c + 10) % Cycle \in Int
        BY CycleFacts, Remainders, EarlyRemainder
      <3>17. ((c + 10) % Cycle) + w = ((c + 10) % Cycle) - D + k - 1
        BY <3>1, <3>16
      <3>18. d.delay.buf[i + 1] = (((c + 10) % Cycle) - D + k - 1) % Cycle
        BY <3>11, <3>12, <3>13, <3>14, <3>15, <3>17
      <3> QED
        BY <3>18, CycleFacts DEF i
    <2>7. d.delay.last_insert = next /\ d.frame = Units(c - D, 10)
      BY <2>4, <2>5
    <2>8. d.frame = Units(c - CaptureDelay, Frame)
      BY <2>7, CycleFacts
    <2>9. DelayLine(d.delay, (c + Frame) % Cycle)
      <3> HIDE DEF next
      <3> QED
        BY <2>3, <2>6, <2>7 DEF DelayLine
    <2> QED
      BY <2>8, <2>9 DEF d
  <1> QED
    BY <1>0, <1>1, <1>2

-----------------------------------------------------------------------------
(* The invariant                                                           *)

\* All buffers start with zeros, the positions before the first.
LEMMA InitEInv == Init => EInv
  <1> SUFFICES ASSUME Init PROVE EInv
    OBVIOUS
  <1>0. CaptureDelay \in Nat /\ 0 \in 0 .. Cycle - 1
    BY CycleAssumption, CycleFacts
  <1>1. pc \in {"idle", "draining"}
    BY DEF Init
  <1>2. RenderInv
    <2>1. /\ written = 0 /\ buffered = 0 /\ render_transfer_queue_ = <<>>
          /\ render_blocker_ = <<>> /\ render_blocks = <<>>
      BY DEF Init
    <2>2. /\ render_transfer_queue_ \in Seq(0 .. Cycle - 1)
          /\ Len(render_transfer_queue_) = 0 /\ Len(render_blocker_) = 0
          /\ Len(render_blocks) = 0
      BY <2>1
    <2>3. render_blocker_ = Units(buffered, Len(render_blocker_))
      BY <2>1, <2>2, UnitsEmpty
    <2>4. RenderIsContinuous
      BY <2>2, <2>3 DEF RenderIsContinuous
    <2>5. 0 <= QueueSize
      BY CycleAssumption
    <2>6. (buffered + Len(render_blocker_)) % Cycle
            = (written - Frame * Len(render_transfer_queue_)) % Cycle
      <3>1. buffered + Len(render_blocker_) = 0
            /\ written - Frame * Len(render_transfer_queue_) = 0
        <4>1. Frame * 0 = 0
          BY CycleFacts
        <4> QED
          BY <2>1, <2>2, <4>1
      <3> QED
        BY <3>1
    <2> QED
      BY <1>0, <2>1, <2>2, <2>4, <2>5, <2>6 DEF RenderInv
  <1>3. CaptureInv
    <2>1. /\ captured = 0
          /\ block_delay_buffer_ = [buf |-> Units(0 - CaptureDelay, CaptureDelay),
                                    last_insert |-> 0]
          /\ capture_blocker_ = <<>>
          /\ output_framer_ = Units(0 - CaptureDelay - 4, 4)
          /\ linear_output_framer_ = output_framer_
          /\ out = Units(0 - 10 - 4 - CaptureDelay, 10)
          /\ linear_out = out
      <3>1. /\ - CaptureDelay = 0 - CaptureDelay
            /\ - CaptureDelay - 4 = 0 - CaptureDelay - 4
            /\ - CaptureDelay - 4 - 10 = 0 - 10 - 4 - CaptureDelay
        BY <1>0
      <3> QED
        BY <3>1, CycleFacts DEF Init
    <2>2. DelayLine(block_delay_buffer_, captured)
      <3>1. SUFFICES ASSUME CaptureDelay > 0
                     PROVE  DelayLine(block_delay_buffer_, captured)
        BY DEF DelayLine
      <3>2. ASSUME NEW k \in 1 .. CaptureDelay
            PROVE  block_delay_buffer_.buf[((0 + k - 1) % CaptureDelay) + 1]
                     = (0 - CaptureDelay + k - 1) % Cycle
        <4>1. k - 1 \in 0 .. CaptureDelay - 1 /\ k - 1 \in Int
              /\ CaptureDelay \in Nat \ {0} /\ 0 - CaptureDelay \in Int
              /\ 0 + k - 1 = k - 1 /\ (k - 1) + 1 = k
          BY <1>0
        <4>2. (k - 1) % CaptureDelay = k - 1
          BY <4>1, Remainders, EarlyRemainder
        <4>3. \A j \in 1 .. CaptureDelay :
                Units(0 - CaptureDelay, CaptureDelay)[j] = (0 - CaptureDelay + j - 1) % Cycle
          BY <1>0, <4>1, UnitsFacts
        <4> QED
          BY <2>1, <4>1, <4>2, <4>3
      <3>3. 0 \in 0 .. CaptureDelay - 1
        BY <1>0, <3>1
      <3> QED
        BY <2>1, <3>2, <3>3 DEF DelayLine
    <2>3. /\ capture_blocker_ = Units(captured - CaptureDelay - 0, 0)
          /\ output_framer_ = Units(captured - CaptureDelay - Block, Block - 0)
      <3>1. captured - CaptureDelay - 0 \in Int
        BY <1>0, <2>1
      <3> QED
        BY <2>1, <3>1, UnitsEmpty, CycleFacts
    <2>4. OutputIsDelayedCapture
      BY <2>1, CycleFacts DEF OutputIsDelayedCapture
    <2>5. LinearOutputIsAligned
      BY <2>1 DEF LinearOutputIsAligned
    <2>6. \E n \in {0, 2} :
            /\ capture_blocker_ = Units(captured - CaptureDelay - n, n)
            /\ output_framer_ = Units(captured - CaptureDelay - Block, Block - n)
      BY <2>3
    <2>7. captured \in 0 .. Cycle - 1
      BY <1>0, <2>1
    <2> QED
      BY <2>1, <2>2, <2>4, <2>5, <2>6, <2>7 DEF CaptureInv
  <1> QED
    BY <1>1, <1>2, <1>3 DEF EInv

\* A frame that is put into the queue follows the one before it.
LEMMA AnalyzeRenderKeeps ==
    ASSUME RenderInv, AnalyzeRender
    PROVE  RenderInv'
  <1> DEFINE n == Len(render_transfer_queue_)
  <1>1. /\ written \in 0 .. Cycle - 1 /\ buffered \in 0 .. Cycle - 1
        /\ render_transfer_queue_ \in Seq(0 .. Cycle - 1)
        /\ n \in Nat /\ QueueSize \in Nat /\ n <= QueueSize
        /\ Len(render_blocker_) \in {0, 2}
        /\ (buffered + Len(render_blocker_)) % Cycle = (written - 10 * n) % Cycle
        /\ RenderIsContinuous
    BY CycleAssumption, CycleFacts, LenProperties DEF RenderInv
  <1>2. \A k \in 1 .. n :
          render_transfer_queue_[k] = (written - 10 * (n - k + 1)) % Cycle
    BY CycleFacts DEF RenderInv
  <1>3. UNCHANGED <<buffered, render_blocker_, render_blocks>>
    BY DEF AnalyzeRender
  <1>4. RenderIsContinuous'
    BY <1>1, <1>3 DEF RenderIsContinuous
  <1>5. CASE n < QueueSize
    <2>1. /\ render_transfer_queue_' = Append(render_transfer_queue_, written)
          /\ written' = (written + 10) % Cycle
      BY <1>5, CycleFacts DEF AnalyzeRender, Queue!Put
    <2>2. /\ render_transfer_queue_' \in Seq(0 .. Cycle - 1)
          /\ Len(render_transfer_queue_') = n + 1
          /\ \A k \in 1 .. n : render_transfer_queue_'[k] = render_transfer_queue_[k]
          /\ render_transfer_queue_'[n + 1] = written
      BY <1>1, <2>1
    <2>3. written + 10 \in Int /\ written' \in 0 .. Cycle - 1
      BY <1>1, <2>1, Wrap
    <2>4. ASSUME NEW y \in Int
          PROVE  (written' - y) % Cycle = (written + 10 - y) % Cycle
      <3> DEFINE x == written + 10
      <3>1. x \in Int /\ written' = x % Cycle
        BY <2>1, <2>3
      <3> HIDE DEF x
      <3>2. ((x % Cycle) - y) % Cycle = (x - y) % Cycle
        BY <3>1, WrapMinus
      <3>3. x - y = written + 10 - y
        BY <1>1 DEF x
      <3> QED
        BY <3>1, <3>2, <3>3, Zenon
    <2>5. ASSUME NEW k \in 1 .. n + 1
          PROVE  render_transfer_queue_'[k] = (written' - 10 * ((n + 1) - k + 1)) % Cycle
      <3>1. k \in Int /\ 10 * ((n + 1) - k + 1) \in Int
        BY <1>1
      <3>2. (written' - 10 * ((n + 1) - k + 1)) % Cycle
              = (written + 10 - 10 * ((n + 1) - k + 1)) % Cycle
        BY <2>4, <3>1
      <3>3. written + 10 - 10 * ((n + 1) - k + 1) = written - 10 * (n - k + 1)
        BY <1>1, <3>1
      <3>4. CASE k <= n
        <4>1. k \in 1 .. n
          BY <3>4
        <4> QED
          BY <1>2, <2>2, <3>2, <3>3, <4>1
      <3>5. CASE k = n + 1
        <4>1. written - 10 * (n - k + 1) = written
          BY <1>1, <3>5
        <4>2. written % Cycle = written
          <5>1. Cycle \in Nat \ {0} /\ written \in Int
            BY <1>1, CycleFacts
          <5> QED
            BY <1>1, <5>1, Remainders, EarlyRemainder
        <4> QED
          BY <2>2, <3>2, <3>3, <3>5, <4>1, <4>2
      <3>6. k <= n \/ k = n + 1
        BY <1>1
      <3> QED
        BY <3>4, <3>5, <3>6
    <2>6. (written' - 10 * (n + 1)) % Cycle = (written - 10 * n) % Cycle
      <3>1. 10 * (n + 1) \in Int /\ written + 10 - 10 * (n + 1) = written - 10 * n
        BY <1>1
      <3> QED
        BY <2>4, <3>1
    <2>7. n + 1 <= QueueSize
      BY <1>1, <1>5
    <2> HIDE DEF n
    <2> QED
      BY <1>1, <1>3, <1>4, <2>2, <2>3, <2>5, <2>6, <2>7, CycleFacts DEF RenderInv
  <1>6. CASE ~ n < QueueSize
    <2>1. UNCHANGED <<render_transfer_queue_, written>>
      BY <1>6 DEF AnalyzeRender
    <2> QED
      BY <1>3, <1>4, <2>1 DEF RenderInv
  <1> QED
    BY <1>5, <1>6

\* A frame that leaves the queue is cut to blocks that follow the ones before.
LEMMA EmptyRenderQueueKeeps ==
    ASSUME RenderInv, EmptyRenderQueue
    PROVE  RenderInv'
  <1> DEFINE n == Len(render_blocker_)
             q == Len(render_transfer_queue_)
             cut == Blocked(render_blocker_, Units(render_queue_output_frame_', Frame))
  <1>1. /\ written \in 0 .. Cycle - 1 /\ buffered \in 0 .. Cycle - 1
        /\ render_transfer_queue_ \in Seq(0 .. Cycle - 1)
        /\ q \in Nat /\ QueueSize \in Nat /\ q <= QueueSize
        /\ n \in {0, 2}
        /\ (buffered + n) % Cycle = (written - 10 * q) % Cycle
        /\ render_blocker_ = Units(buffered, n)
    BY CycleAssumption, CycleFacts, LenProperties DEF RenderInv, RenderIsContinuous
  <1>2. \A k \in 1 .. q :
          render_transfer_queue_[k] = (written - 10 * (q - k + 1)) % Cycle
    BY CycleFacts DEF RenderInv
  <1>3. /\ render_transfer_queue_ # <<>>
        /\ render_queue_output_frame_' = Head(render_transfer_queue_)
        /\ render_transfer_queue_' = Tail(render_transfer_queue_)
        /\ render_blocker_' = cut.buffer
        /\ render_blocks' = cut.blocks
        /\ buffered' = (buffered + 4 * Len(cut.blocks)) % Cycle
        /\ written' = written
    BY CycleFacts DEF EmptyRenderQueue, Queue!Get
  <1>4. /\ q \in Nat \ {0}
        /\ Head(render_transfer_queue_) = render_transfer_queue_[1]
        /\ render_transfer_queue_' \in Seq(0 .. Cycle - 1)
        /\ Len(render_transfer_queue_') = q - 1
        /\ \A k \in 1 .. q - 1 : render_transfer_queue_'[k] = render_transfer_queue_[k + 1]
    <2>1. q \in Nat \ {0}
      BY <1>1, <1>3, EmptySeq
    <2>2. /\ render_transfer_queue_' \in Seq(0 .. Cycle - 1)
          /\ Len(render_transfer_queue_') = q - 1
          /\ \A k \in 1 .. Len(render_transfer_queue_') :
               render_transfer_queue_'[k] = render_transfer_queue_[k + 1]
      BY <1>1, <1>3, HeadTailProperties
    <2> QED
      BY <2>1, <2>2
  <1>5. /\ buffered \in Int /\ written \in Int /\ n \in Int /\ q \in Int
        /\ buffered + n \in Int /\ written - 10 * q \in Int
    BY <1>1
  <1>6. Units(render_queue_output_frame_', Frame) = Units(buffered + n, Frame)
    <2>1. written - 10 * (q - 1 + 1) = written - 10 * q /\ 1 \in 1 .. q
      BY <1>4, <1>5
    <2>2. render_queue_output_frame_' = (buffered + n) % Cycle
      BY <1>1, <1>2, <1>3, <1>4, <2>1
    <2> DEFINE x == buffered + n
    <2>3. x \in Int /\ x + 0 = x
      BY <1>5
    <2>4. (x % Cycle) \in Int
      BY <2>3, Wrap
    <2>5. (x % Cycle) + 0 = x % Cycle
      BY <2>4
    <2>6. render_queue_output_frame_' = x % Cycle
      BY <2>2
    <2> HIDE DEF x
    <2>7. Units((x % Cycle) + 0, Frame) = Units(x + 0, Frame)
      BY <2>3, CycleFacts, UnitsWrap
    <2> QED
      BY <2>3, <2>5, <2>6, <2>7 DEF x
  <1>7. cut = Blocked(Units(buffered, n), Units(buffered + n, Frame))
    BY <1>1, <1>6
  <1> HIDE DEF cut, n, q
  \* The new positions.
  <1>8. PICK m \in {0, 2} :
          /\ Len(render_blocks') = 2 + (n \div 2)
          /\ m = 2 - n
          /\ buffered' = (buffered + 8 + 2 * n) % Cycle
          /\ render_blocker_' = Units(buffered + 8 + 2 * n, m)
          /\ \A k \in 1 .. 2 + (n \div 2) :
               render_blocks'[k] = Units(buffered + 4 * (k - 1), 4)
    <2>1. CASE n = 0
      <3>1. cut.blocks = <<Units(buffered, 4), Units(buffered + 4, 4)>>
            /\ cut.buffer = Units(buffered + 8, 2)
        BY <1>1, <1>5, <1>7, <2>1, BlockedFacts
      <3>2. /\ Len(render_blocks') = 2 /\ render_blocks'[1] = Units(buffered, 4)
            /\ render_blocks'[2] = Units(buffered + 4, 4)
        BY <1>3, <3>1
      <3>3. /\ 2 + (n \div 2) = 2 /\ 2 - n = 2 /\ 2 \in {0, 2}
            /\ buffered + 8 + 2 * n = buffered + 8 /\ 4 * 2 = 8
        BY <1>5, <2>1
      <3>4. buffered + 4 * (1 - 1) = buffered /\ buffered + 4 * (2 - 1) = buffered + 4
        BY <1>5
      <3>5. \A k \in 1 .. 2 : render_blocks'[k] = Units(buffered + 4 * (k - 1), 4)
        <4>1. \A k \in 1 .. 2 : k = 1 \/ k = 2
          OBVIOUS
        <4> QED
          BY <3>2, <3>4, <4>1
      <3>6. Len(cut.blocks) = 2
        BY <3>1
      <3> QED
        BY <1>3, <3>1, <3>2, <3>3, <3>5, <3>6
    <2>2. CASE n = 2
      <3>1. /\ cut.blocks = <<Units(buffered, 4), Units(buffered + 4, 4),
                              Units(buffered + 8, 4)>>
            /\ cut.buffer = Units(buffered + 12, 0)
        <4>1. n # 0
          BY <2>2
        <4>2. buffered \in Int /\ n \in {0, 2}
          BY <1>1, <1>5
        <4> QED
          BY <1>7, <4>1, <4>2, BlockedFacts
      <3>2. /\ Len(render_blocks') = 3 /\ render_blocks'[1] = Units(buffered, 4)
            /\ render_blocks'[2] = Units(buffered + 4, 4)
            /\ render_blocks'[3] = Units(buffered + 8, 4)
        BY <1>3, <3>1
      <3>3. /\ 2 + (n \div 2) = 3 /\ 2 - n = 0 /\ 0 \in {0, 2}
            /\ buffered + 8 + 2 * n = buffered + 12 /\ 4 * 3 = 12
        BY <1>5, <2>2
      <3>4. /\ buffered + 4 * (1 - 1) = buffered /\ buffered + 4 * (2 - 1) = buffered + 4
            /\ buffered + 4 * (3 - 1) = buffered + 8
        BY <1>5
      <3>5. \A k \in 1 .. 3 : render_blocks'[k] = Units(buffered + 4 * (k - 1), 4)
        <4>1. \A k \in 1 .. 3 : k = 1 \/ k = 2 \/ k = 3
          OBVIOUS
        <4> QED
          BY <3>2, <3>4, <4>1
      <3>6. Len(cut.blocks) = 3
        BY <3>1
      <3> QED
        BY <1>3, <3>1, <3>2, <3>3, <3>5, <3>6
    <2> QED
      BY <1>1, <2>1, <2>2
  <1> DEFINE x == buffered + 8 + 2 * n
             b == 2 + (n \div 2)
  <1>9. /\ x \in Int /\ m \in Nat /\ b \in Nat /\ 4 * b = 8 + 2 * n
        /\ x + m = buffered + n + 10
    <2>1. CASE n = 0
      BY <1>5, <1>8, <2>1
    <2>2. CASE n = 2
      BY <1>5, <1>8, <2>2
    <2> QED
      BY <1>1, <2>1, <2>2
  <1>10. buffered' = x % Cycle /\ buffered' \in 0 .. Cycle - 1 /\ buffered' \in Int
    <2>1. buffered' = x % Cycle
      BY <1>8
    <2> HIDE DEF x
    <2>2. x % Cycle \in 0 .. Cycle - 1
      BY <1>9, Wrap
    <2> QED
      BY <2>1, <2>2
  <1>11. ASSUME NEW y \in Int, NEW l \in Nat
         PROVE  Units(buffered' + y, l) = Units(x + y, l)
    <2> HIDE DEF x
    <2> QED
      BY <1>9, <1>10, UnitsWrap
  <1>12. Len(render_blocker_') = m
    <2> HIDE DEF x
    <2> QED
      BY <1>8, <1>9, UnitsFacts DEF x
  <1>13. RenderIsContinuous'
    <2>1. render_blocker_' = Units(buffered', m)
      <3>1. Units(buffered' + 0, m) = Units(x + 0, m)
        BY <1>9, <1>11
      <3>2. buffered' + 0 = buffered' /\ x + 0 = x
        BY <1>9, <1>10
      <3> QED
        BY <1>8, <3>1, <3>2
    <2>2. ASSUME NEW k \in 1 .. b
          PROVE  render_blocks'[k] = Units(buffered' - 4 * (b - k + 1), 4)
      <3> DEFINE y == - (4 * (b - k + 1))
      <3>1. y \in Int /\ buffered' + y = buffered' - 4 * (b - k + 1)
        BY <1>9, <1>10
      <3>2. x + y = buffered + 4 * (k - 1)
        BY <1>5, <1>9
      <3> HIDE DEF x, y
      <3>3. Units(buffered' + y, 4) = Units(x + y, 4)
        BY <1>11, <3>1
      <3> QED
        BY <1>8, <3>1, <3>2, <3>3
    <2> HIDE DEF b
    <2>3. Len(render_blocks') = b
      BY <1>8 DEF b
    <2> QED
      BY <1>12, <2>1, <2>2, <2>3, CycleFacts DEF RenderIsContinuous
  <1>14. (buffered' + m) % Cycle = (written - 10 * (q - 1)) % Cycle
    <2>1. (buffered' + m) % Cycle = (x + m) % Cycle
      <3> HIDE DEF x
      <3> QED
        BY <1>9, <1>10, Wrap
    <2> DEFINE u == buffered + n
               v == written - 10 * q
    <2>2. u \in Int /\ v \in Int /\ u % Cycle = v % Cycle /\ x + m = u + 10
          /\ written - 10 * (q - 1) = v + 10
      BY <1>1, <1>5, <1>9 DEF n, q
    <2> HIDE DEF u, v
    <2>3. ((u % Cycle) + 10) % Cycle = (u + 10) % Cycle
      BY <2>2, Wrap
    <2>4. ((v % Cycle) + 10) % Cycle = (v + 10) % Cycle
      BY <2>2, Wrap
    <2> QED
      BY <2>1, <2>2, <2>3, <2>4
  <1>15. ASSUME NEW k \in 1 .. q - 1
         PROVE  render_transfer_queue_'[k] = (written - 10 * ((q - 1) - k + 1)) % Cycle
    <2>1. k + 1 \in 1 .. q /\ 10 * (q - (k + 1) + 1) = 10 * ((q - 1) - k + 1)
      BY <1>5
    <2> QED
      BY <1>2, <1>4, <2>1 DEF q
  <1>16. q - 1 <= QueueSize
    BY <1>1, <1>4 DEF q
  <1> QED
    BY <1>1, <1>3, <1>4, <1>8, <1>10, <1>12, <1>13, <1>14, <1>15, <1>16, CycleFacts
    DEF RenderInv

\* A capture frame is delayed, cut to blocks and pasted together again, and the
\* frame that comes out follows the one before.
LEMMA ProcessCaptureFrameKeeps ==
    ASSUME CaptureInv, ProcessCaptureFrame
    PROVE  CaptureInv'
  <1> DEFINE D == CaptureDelay
             c == captured
             delayed == DelaySignal(block_delay_buffer_, Units(captured, Frame))
             cut == Blocked(capture_blocker_, delayed.frame)
             pasted == Framed(output_framer_, cut.blocks)
  <1>1. c \in 0 .. Cycle - 1 /\ c \in Int /\ D \in Nat /\ DelayLine(block_delay_buffer_, c)
    BY CycleAssumption, CycleFacts DEF CaptureInv
  <1>2. PICK n \in {0, 2} :
          /\ capture_blocker_ = Units(c - D - n, n)
          /\ output_framer_ = Units(c - D - 4, 4 - n)
    BY CycleFacts DEF CaptureInv
  <1>3. /\ block_delay_buffer_' = delayed.delay
        /\ capture_blocker_' = cut.buffer
        /\ output_framer_' = pasted.buffer
        /\ out' = pasted.frame
        /\ captured' = (c + Frame) % Cycle
    BY DEF ProcessCaptureFrame
  <1>4. ~ LinearSkipped => /\ linear_output_framer_' = Framed(linear_output_framer_, cut.blocks).buffer
                           /\ linear_out' = Framed(linear_output_framer_, cut.blocks).frame
    BY DEF ProcessCaptureFrame, LinearFramed
  <1>5. ~ LinearSkipped => linear_output_framer_ = output_framer_
    BY DEF CaptureInv
  <1>6. /\ delayed.frame = Units(c - D, Frame)
        /\ DelayLine(delayed.delay, (c + Frame) % Cycle)
    BY <1>1, DelayFacts
  <1> HIDE DEF delayed
  <1> DEFINE a == c - D - n
             f == c - D - 4
  <1>7. /\ a \in Int /\ f \in Int /\ a + n = c - D
        /\ n = 0 => a = f + 4
        /\ n = 2 => a = f + 2
    BY <1>1
  <1>8. cut = Blocked(Units(a, n), Units(a + n, Frame))
    BY <1>2, <1>6, <1>7
  <1> DEFINE blocks == cut.blocks
  <1>9. /\ n = 0 => /\ blocks = <<Units(f + 4, 4), Units(f + 8, 4)>>
                    /\ cut.buffer = Units(f + 12, 2)
        /\ n = 2 => /\ blocks = <<Units(f + 2, 4), Units(f + 6, 4), Units(f + 10, 4)>>
                    /\ cut.buffer = Units(f + 14, 0)
    <2> HIDE DEF cut, a, f
    <2>1. CASE n = 0
      <3>1. a + 4 = f + 8 /\ a + 8 = f + 12 /\ a = f + 4
        BY <1>7, <2>1
      <3>2. /\ cut.blocks = <<Units(a, 4), Units(a + 4, 4)>>
            /\ cut.buffer = Units(a + 8, 2)
        BY <1>7, <1>8, <2>1, BlockedFacts
      <3> QED
        BY <2>1, <3>1, <3>2
    <2>2. CASE n = 2
      <3>1. a + 4 = f + 6 /\ a + 8 = f + 10 /\ a + 12 = f + 14 /\ a = f + 2
        BY <1>7, <2>2
      <3>2. /\ cut.blocks = <<Units(a, 4), Units(a + 4, 4), Units(a + 8, 4)>>
            /\ cut.buffer = Units(a + 12, 0)
        <4>1. n # 0
          BY <2>2
        <4> QED
          BY <1>7, <1>8, <4>1, BlockedFacts
      <3> QED
        BY <2>2, <3>1, <3>2
    <2> QED
      BY <2>1, <2>2
  <1>10. /\ pasted.frame = Units(f, 10)
         /\ pasted.buffer = Units(f + 10, 2 + n)
    <2> HIDE DEF cut, f
    <2> DEFINE m == 4 - n
    <2>1. m \in {2, 4} /\ 6 - m = 2 + n /\ (m = 4 <=> n = 0) /\ (m # 4 => n = 2)
      BY <1>2
    <2> HIDE DEF m
    <2>2. blocks = IF m = 4 THEN <<Units(f + 4, 4), Units(f + 8, 4)>>
                   ELSE <<Units(f + 2, 4), Units(f + 6, 4), Units(f + 10, 4)>>
      BY <1>9, <2>1
    <2>3. output_framer_ = Units(f, m)
      BY <1>2 DEF f, m
    <2>4. pasted = Framed(Units(f, m), blocks)
      BY <2>3
    <2>5. /\ pasted.frame = Units(f, 10)
          /\ pasted.buffer = Units(f + 10, 6 - m)
      BY <1>7, <2>1, <2>2, <2>4, FramedFacts
    <2> QED
      BY <2>1, <2>5
  <1> HIDE DEF cut, pasted
  \* Positions counted from the next frame.
  <1>11. ASSUME NEW b \in Int, NEW l \in Nat
         PROVE  Units(captured' + b, l) = Units(c + 10 + b, l)
    <2> DEFINE x == c + 10
    <2>1. x \in Int /\ captured' = x % Cycle /\ c + 10 + b = x + b
      BY <1>1, <1>3, CycleFacts
    <2> HIDE DEF x
    <2>2. Units((x % Cycle) + b, l) = Units(x + b, l)
      BY <2>1, UnitsWrap
    <2> QED
      BY <2>1, <2>2
  <1>12. captured' \in 0 .. Cycle - 1 /\ captured' \in Int
    <2> DEFINE x == c + Frame
    <2>1. x \in Int /\ captured' = x % Cycle
      BY <1>1, <1>3, CycleFacts
    <2> HIDE DEF x
    <2>2. x % Cycle \in 0 .. Cycle - 1
      BY <2>1, Wrap
    <2> QED
      BY <2>1, <2>2
  <1>13. \E k \in {0, 2} :
           /\ capture_blocker_' = Units(captured' - D - k, k)
           /\ output_framer_' = Units(captured' - D - 4, 4 - k)
    <2> DEFINE k == 2 - n
               b == - D - k
               g == - D - 4
    <2>1. /\ k \in {0, 2} /\ k \in Nat /\ 4 - k = 2 + n /\ 4 - k \in Nat
          /\ b \in Int /\ g \in Int
      BY <1>1, <1>2
    <2>2. /\ captured' + b = captured' - D - k /\ captured' + g = captured' - D - 4
          /\ n = 0 => c + 10 + b = f + 12
          /\ n = 2 => c + 10 + b = f + 14
          /\ n = 0 => k = 2
          /\ n = 2 => k = 0
          /\ c + 10 + g = f + 10
      BY <1>1, <1>2, <1>12
    <2> HIDE DEF k, b, g, f
    <2>3. /\ Units(captured' + b, k) = Units(c + 10 + b, k)
          /\ Units(captured' + g, 4 - k) = Units(c + 10 + g, 4 - k)
      BY <2>1, <1>11
    <2>4. capture_blocker_' = Units(c + 10 + b, k)
      BY <1>2, <1>3, <1>9, <2>2
    <2>5. output_framer_' = Units(c + 10 + g, 4 - k)
      BY <1>3, <1>10, <2>1, <2>2
    <2> QED
      BY <2>1, <2>2, <2>3, <2>4, <2>5
  <1>14. OutputIsDelayedCapture'
    <2> DEFINE b == - 10 - 4 - D
    <2>1. /\ b \in Int /\ 10 \in Nat /\ c + 10 + b = f
          /\ captured' + b = captured' - 10 - 4 - D
      BY <1>1, <1>12
    <2> HIDE DEF b, f
    <2>2. Units(captured' + b, 10) = Units(c + 10 + b, 10)
      BY <2>1, <1>11
    <2>3. out' = Units(captured' - 10 - 4 - D, 10)
      BY <1>3, <1>10, <2>1, <2>2
    <2> QED
      BY <2>3, CycleFacts DEF OutputIsDelayedCapture
  <1>15. ~ LinearSkipped => /\ linear_output_framer_' = output_framer_'
                            /\ LinearOutputIsAligned'
    <2>1. ~ LinearSkipped => /\ linear_output_framer_' = pasted.buffer
                             /\ linear_out' = pasted.frame
      BY <1>4, <1>5 DEF pasted
    <2> QED
      BY <1>3, <2>1 DEF LinearOutputIsAligned
  <1>16. DelayLine(block_delay_buffer_, captured)'
    <2>1. DelayLine(block_delay_buffer_', captured')
      BY <1>3, <1>6
    <2> QED
      BY <2>1 DEF DelayLine
  <1> QED
    BY <1>12, <1>13, <1>14, <1>15, <1>16, CycleFacts DEF CaptureInv

-----------------------------------------------------------------------------
(* The theorems                                                            *)

\* Every step of either thread keeps both halves.
LEMMA NextEInv == EInv /\ [Next]_vars => EInv'
  <1> SUFFICES ASSUME EInv, [Next]_vars
               PROVE  EInv'
    OBVIOUS
  <1>0. RenderInv /\ CaptureInv
    BY DEF EInv
  <1>1. CASE AnalyzeRender
    <2>1. UNCHANGED <<pc, capturing>>
      BY <1>1 DEF AnalyzeRender
    <2>2. CaptureInv'
      BY <1>0, <2>1 DEF CaptureInv, DelayLine, OutputIsDelayedCapture,
                        LinearOutputIsAligned, capturing
    <2> QED
      BY <1>0, <1>1, <2>1, <2>2, AnalyzeRenderKeeps DEF EInv
  <1>2. CASE ProcessCapture
    <2>1. pc' = "draining" /\ UNCHANGED <<written, render_transfer_queue_, rendering, capturing>>
      BY <1>2 DEF ProcessCapture
    <2>2. CaptureInv'
      BY <1>0, <2>1 DEF CaptureInv, DelayLine, OutputIsDelayedCapture,
                        LinearOutputIsAligned, capturing
    <2>3. RenderInv'
      BY <1>0, <2>1 DEF RenderInv, RenderIsContinuous, rendering
    <2> QED
      BY <2>1, <2>2, <2>3 DEF EInv
  <1>3. CASE EmptyRenderQueue
    <2>1. UNCHANGED <<pc, capturing>>
      BY <1>3 DEF EmptyRenderQueue
    <2>2. CaptureInv'
      BY <1>0, <2>1 DEF CaptureInv, DelayLine, OutputIsDelayedCapture,
                        LinearOutputIsAligned, capturing
    <2> QED
      BY <1>0, <1>3, <2>1, <2>2, EmptyRenderQueueKeeps DEF EInv
  <1>4. CASE ProcessCaptureFrame
    <2>1. pc' = "idle" /\ UNCHANGED <<written, render_transfer_queue_, rendering>>
      BY <1>4 DEF ProcessCaptureFrame
    <2>2. RenderInv'
      BY <1>0, <2>1 DEF RenderInv, RenderIsContinuous, rendering
    <2> QED
      BY <1>0, <1>4, <2>1, <2>2, ProcessCaptureFrameKeeps DEF EInv
  <1>5. CASE UNCHANGED vars
    <2>1. UNCHANGED <<written, render_transfer_queue_, pc, rendering, capturing>>
      BY <1>5 DEF vars
    <2>2. CaptureInv'
      BY <1>0, <2>1 DEF CaptureInv, DelayLine, OutputIsDelayedCapture,
                        LinearOutputIsAligned, capturing
    <2>3. RenderInv'
      BY <1>0, <2>1 DEF RenderInv, RenderIsContinuous, rendering
    <2> QED
      BY <2>1, <2>2, <2>3 DEF EInv
  <1> QED
    BY <1>1, <1>2, <1>3, <1>4, <1>5 DEF Next, Capture

\* The invariant of echo control holds in every state.
LEMMA Invariance == Spec => []EInv
  BY InitEInv, NextEInv, PTL DEF Spec

\* Blockers and framers never hold more than a block, and the queue never more
\* frames than it has slots.
LEMMA EInvTypes == EInv => TypeOK
  <1> SUFFICES ASSUME EInv PROVE TypeOK
    OBVIOUS
  <1>1. RenderInv /\ CaptureInv /\ pc \in {"idle", "draining"}
    BY DEF EInv
  <1>2. {written, captured, buffered} \subseteq 0 .. Cycle - 1
    BY <1>1 DEF RenderInv, CaptureInv
  <1>3. Len(render_blocker_) \in 0 .. 4 /\ Len(render_transfer_queue_) <= QueueSize
    BY <1>1 DEF RenderInv
  <1>4. PICK n \in {0, 2} :
          /\ capture_blocker_ = Units(captured - CaptureDelay - n, n)
          /\ output_framer_ = Units(captured - CaptureDelay - 4, 4 - n)
    BY <1>1, CycleFacts DEF CaptureInv
  <1>5. /\ captured - CaptureDelay - n \in Int /\ captured - CaptureDelay - 4 \in Int
        /\ n \in Nat /\ 4 - n \in Nat /\ n \in 0 .. 4 /\ 4 - n \in 0 .. 4
    BY <1>1, CycleAssumption, CycleFacts DEF CaptureInv
  <1>6. Len(capture_blocker_) = n /\ Len(output_framer_) = 4 - n
    BY <1>4, <1>5, UnitsFacts
  <1>7. {Len(render_blocker_), Len(capture_blocker_), Len(output_framer_)} \subseteq 0 .. Block
    BY <1>3, <1>5, <1>6, CycleFacts
  <1> QED
    BY <1>1, <1>2, <1>3, <1>7 DEF TypeOK

\* Queue, blockers, framers and positions of every state of echo control.
THEOREM EchoTypes == Spec => []TypeOK
  BY Invariance, EInvTypes, PTL

\* What ProcessCapture returns is the captured signal, whole and in order, later
\* by a block and the fixed capture delay, however long that delay is.
THEOREM DelayedCapture == Spec => []OutputIsDelayedCapture
  <1>1. EInv => OutputIsDelayedCapture
    BY DEF EInv, CaptureInv
  <1> QED
    BY <1>1, Invariance, PTL

\* The block processor gets what AnalyzeRender could queue, whole and in order,
\* however the two threads alternate and however long the queue is.
THEOREM ContinuousRender == Spec => []RenderIsContinuous
  <1>1. EInv => RenderIsContinuous
    BY DEF EInv, RenderInv
  <1> QED
    BY <1>1, Invariance, PTL

\* A caller that always takes the linear output gets it for the stretch of time
\* that the output is of.
THEOREM AlignedLinear ==
    ASSUME ~ LinearSkipped
    PROVE  Spec => []LinearOutputIsAligned
  <1>1. EInv => LinearOutputIsAligned
    BY DEF EInv, CaptureInv
  <1> QED
    BY <1>1, Invariance, PTL

\* Echo control puts and gets one frame at a time and nothing else: it is a
\* client the transfer queue's promise is made for.
THEOREM QueueIsUsedAsPromised == Spec => Queue!Spec
  <1>1. Init => Queue!Init
    BY DEF Init, Queue!Init
  <1>2. EInv /\ [Next]_vars => [Queue!Next]_(Queue!vars)
    <2> SUFFICES ASSUME EInv, [Next]_vars PROVE [Queue!Next]_(Queue!vars)
      OBVIOUS
    <2>1. CASE AnalyzeRender
      <3>1. written \in 0 .. Cycle - 1
        BY DEF EInv, RenderInv
      <3> QED
        BY <2>1, <3>1 DEF AnalyzeRender, Queue!Next, Queue!vars
    <2>2. CASE EmptyRenderQueue
      BY <2>2 DEF EmptyRenderQueue, Queue!Next
    <2>3. CASE ProcessCapture \/ ProcessCaptureFrame \/ UNCHANGED vars
      BY <2>3 DEF ProcessCapture, ProcessCaptureFrame, vars, rendering, Queue!vars
    <2> QED
      BY <2>1, <2>2, <2>3 DEF Next, Capture
  <1> QED
    BY <1>1, <1>2, Invariance, PTL DEF Spec, Queue!Spec

\* No render audio is lost behind a successful Insert: what was queued is in the
\* queue, in the blocker, or was given to the block processor.
THEOREM RenderIsConserved ==
    Spec => [](written = (buffered + Len(render_blocker_)
                           + Frame * Len(render_transfer_queue_)) % Cycle)
  <1> DEFINE n == Len(render_transfer_queue_)
             r == Len(render_blocker_)
  <1>1. EInv => written = (buffered + r + Frame * n) % Cycle
    <2> SUFFICES ASSUME EInv PROVE written = (buffered + r + Frame * n) % Cycle
      OBVIOUS
    <2>1. /\ written \in 0 .. Cycle - 1 /\ buffered \in 0 .. Cycle - 1
          /\ n \in Nat /\ r \in Nat
          /\ (buffered + r) % Cycle = (written - Frame * n) % Cycle
      BY DEF EInv, RenderInv
    <2> DEFINE x == buffered + r
               y == Frame * n
    <2>2. x \in Int /\ y \in Int /\ Cycle \in Nat \ {0}
      BY <2>1, CycleFacts
    <2>3. x % Cycle = (written - y) % Cycle
      BY <2>1
    <2> HIDE DEF x, y
    <2>4. ((x % Cycle) + y) % Cycle = (x + y) % Cycle
      BY <2>2, EarlyRemainder
    <2>5. (((written - y) % Cycle) + y) % Cycle = ((written - y) + y) % Cycle
      <3> DEFINE z == written - y
      <3>1. z \in Int
        BY <2>1, <2>2
      <3> HIDE DEF z
      <3>2. ((z % Cycle) + y) % Cycle = (z + y) % Cycle
        BY <2>2, <3>1, EarlyRemainder
      <3> QED
        BY <3>2 DEF z
    <2>6. (written - y) + y = written
      BY <2>1, <2>2
    <2>7. written % Cycle = written
      BY <2>1, <2>2, Remainders
    <2>8. (x + y) % Cycle = written
      BY <2>3, <2>4, <2>5, <2>6, <2>7
    <2> QED
      BY <2>8 DEF x, y
  <1> QED
    BY <1>1, Invariance, PTL

\* A capture step of a call that finds frames in the queue takes the oldest one
\* and goes on with the call; every other step leaves the frames in their places.
QueueMoves ==
    LET q == render_transfer_queue_
    IN  IF Capture /\ pc = "draining"
          THEN q # <<>> => /\ q' = Tail(q)
                           /\ render_queue_output_frame_' = Head(q)
                           /\ pc' = "draining"
          ELSE \A k \in 1 .. Len(q) : k <= Len(q') /\ q'[k] = q[k]

\* The place of a queued frame is a measure that no step raises and every capture
\* step of a draining call lowers: what QueuedIsBuffered needs besides fairness.
THEOREM QueueMovesOn == Spec => [][QueueMoves]_vars
  <1> DEFINE q == render_transfer_queue_
  <1>1. EInv /\ [Next]_vars => [QueueMoves]_vars
    <2> SUFFICES ASSUME EInv, Next PROVE QueueMoves
      OBVIOUS
    <2>1. q \in Seq(0 .. Cycle - 1) /\ written \in 0 .. Cycle - 1
      BY DEF EInv, RenderInv
    <2>2. ASSUME Capture, pc = "draining", q # <<>>
          PROVE  /\ q' = Tail(q)
                 /\ render_queue_output_frame_' = Head(q)
                 /\ pc' = "draining"
      BY <2>2 DEF Capture, ProcessCapture, EmptyRenderQueue, ProcessCaptureFrame,
                  RenderQueueEmpty, Queue!Get
    <2>3. ASSUME ~ (pc = "draining" /\ Capture), NEW k \in 1 .. Len(q)
          PROVE  k <= Len(q') /\ q'[k] = q[k]
      <3>1. CASE AnalyzeRender /\ Len(q) < QueueSize
        <4>1. q' = Append(q, written)
          BY <3>1 DEF AnalyzeRender, Queue!Put
        <4> QED
          BY <2>1, <4>1
      <3>2. CASE q' = q
        BY <2>1, <3>2
      <3>3. (AnalyzeRender /\ Len(q) < QueueSize) \/ q' = q
        BY <2>3 DEF Next, AnalyzeRender, Capture, ProcessCapture, EmptyRenderQueue,
                    ProcessCaptureFrame
      <3> QED
        BY <3>1, <3>2, <3>3
    <2> QED
      BY <2>2, <2>3 DEF QueueMoves
  <1> QED
    BY <1>1, Invariance, PTL DEF Spec
=============================================================================
