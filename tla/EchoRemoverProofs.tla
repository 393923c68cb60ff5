-------------------------- MODULE EchoRemoverProofs --------------------------
(***************************************************************************)
(* The phases of the filters and the suppressor, the filters' waiting for  *)
(* render from after a delay change, and the place of the analyzer's peak, *)
(* for all filter lengths, ramps and initial phases.                       *)
(***************************************************************************)
EXTENDS EchoRemover, Integers, TLAPS

\* What a ramp has reached, times ChangeBlocks.
Sum(f) == f.old_target * f.counter + f.target * (ChangeBlocks - f.counter)

\* A filter on its only ramp since a delay change, or not on one.
OnRamp(f) ==
    f.counter > 0 => /\ f.old_target = MainInitial /\ f.target = Main
                     /\ f.size * ChangeBlocks <= Sum(f)

\* The phase of the call is over exactly when its count is complete.
PhaseInv ==
    /\ phase.triggered => ~ phase.initial
    /\ ~ phase.initial => phase.count = InitialLimit

\* Before a ramp the filters have their initial sizes.
SizesInv ==
    /\ suppressor_initial => main = Filter(MainInitial) /\ shadow = Filter(ShadowInitial)
    /\ ~ early /\ MainInitial < Main => OnRamp(main) /\ peak < main.size

\* No counter of a gain is ahead of the blocks since the delay change, but for
\* the main gain's after a gain change.
GainsInv ==
    /\ shadow_gain.calls <= since
    /\ ~ coincided => main_gain.calls <= since

\* The blocks that end an initial phase have come since the delay change that
\* began it, so its ramp is no sooner.  since stops at Main + Shadow.
RampInv ==
    /\ phase.count <= since \/ since = Main + Shadow
    /\ ~ early /\ ~ suppressor_initial => since > InitialLimit \/ since = Main + Shadow

IInv == /\ TypeOK /\ PhasesAgree /\ LearnsOnlyWhenReady
        /\ PhaseInv /\ SizesInv /\ GainsInv /\ RampInv

-----------------------------------------------------------------------------
(* The size of a filter                                                    *)

\* A positive factor may be cancelled.
LEMMA Cancel ==
    ASSUME NEW a \in Nat, NEW b \in Nat, NEW d \in Nat \ {0}
    PROVE  /\ a * d <= b * d => a <= b
           /\ a * d < b * d => a < b
  <1>1. CASE a >= b + 1
    <2>1. PICK e \in Nat : a = b + 1 + e
      <3>1. a - (b + 1) \in Nat /\ a = b + 1 + (a - (b + 1))
        BY <1>1
      <3> QED
        BY <3>1
    <2>2. a * d = b * d + d + e * d
      BY <2>1
    <2>3. e * d \in Nat /\ b * d \in Nat /\ d > 0
      OBVIOUS
    <2> QED
      BY <2>2, <2>3
  <1>2. CASE a = b
    BY <1>2
  <1>3. CASE a < b
    BY <1>3
  <1> QED
    BY <1>1, <1>2, <1>3

\* A filter at rest is typed and in its phase.
LEMMA FilterFacts ==
    ASSUME NEW max \in Nat, NEW size \in 1 .. max
    PROVE  Filter(size) \in FilterType(max) /\ InPhase(Filter(size), size)
  <1>1. 0 \in 0 .. ChangeBlocks
    BY ChangeBlocksAssumption
  <1> QED
    BY <1>1 DEF Filter, FilterType, InPhase

\* SetSizePartitions keeps a filter's type and sends it into its new phase.
LEMMA SetSizeFacts ==
    ASSUME NEW max \in Nat, NEW f \in FilterType(max), NEW size \in 1 .. max,
           NEW g, g = SetSizePartitions(f, size)
    PROVE  /\ g \in FilterType(max) /\ InPhase(g, size)
           /\ g.size = f.size /\ g.old_target = f.old_target
           /\ g.target = size /\ g.counter = ChangeBlocks
  <1>1. ChangeBlocks \in 0 .. ChangeBlocks /\ ChangeBlocks # 0
    BY ChangeBlocksAssumption
  <1> QED
    BY <1>1 DEF SetSizePartitions, FilterType, InPhase

\* UpdateSize keeps a filter's type and its phase.
LEMMA UpdateSizeFacts ==
    ASSUME NEW max \in Nat, NEW f \in FilterType(max), NEW g \in UpdateSize(f, max)
    PROVE  /\ g \in FilterType(max)
           /\ \A size : InPhase(f, size) => InPhase(g, size)
           /\ f.counter = 0 => g = [f EXCEPT !.size = f.target, !.old_target = f.target]
           /\ f.counter > 0 =>
                /\ g = [f EXCEPT !.size = g.size, !.counter = f.counter - 1]
                /\ g.size \in Averages(f.old_target, f.target, f.counter - 1, max)
  <1>0. /\ ChangeBlocks \in Nat \ {0} /\ f.size \in 1 .. max /\ f.target \in 1 .. max
        /\ f.old_target \in 1 .. max /\ f.counter \in 0 .. ChangeBlocks
    BY ChangeBlocksAssumption DEF FilterType
  <1>1. CASE f.counter > 0
    <2>1. PICK n \in Averages(f.old_target, f.target, f.counter - 1, max) :
             g = [f EXCEPT !.size = n, !.counter = f.counter - 1]
      BY <1>1 DEF UpdateSize
    <2>2. n \in 1 .. max
      BY <2>1 DEF Averages
    <2>3. f.counter - 1 \in 0 .. ChangeBlocks
      BY <1>0, <1>1
    <2>4. g \in FilterType(max)
      BY <2>1, <2>2, <2>3 DEF FilterType
    <2>5. g.size = n /\ g.counter = f.counter - 1 /\ g.target = f.target
      BY <2>1 DEF FilterType
    <2>6. f.counter - 1 = 0 => n = f.target
      <3>1. SUFFICES ASSUME f.counter - 1 = 0 PROVE n = f.target
        OBVIOUS
      <3>2. /\ n * ChangeBlocks <= f.target * ChangeBlocks
            /\ f.target * ChangeBlocks < (n + 1) * ChangeBlocks
        <4>1. f.old_target * 0 + f.target * (ChangeBlocks - 0) = f.target * ChangeBlocks
          BY <1>0
        <4>2. n \in Nat /\ f.target \in Nat
          BY <1>0, <2>2
        <4>3. /\ n * ChangeBlocks <= f.target * ChangeBlocks
              /\ f.target * ChangeBlocks <= (n + 1) * ChangeBlocks
              /\ f.target * ChangeBlocks # (n + 1) * ChangeBlocks
          BY <2>1, <3>1, <4>1 DEF Averages
        <4> QED
          BY <1>0, <4>2, <4>3
      <3>3. n <= f.target /\ f.target < n + 1
        BY <1>0, <2>2, <3>2, Cancel
      <3> QED
        BY <1>0, <2>2, <3>3
    <2>7. ASSUME NEW size, InPhase(f, size) PROVE InPhase(g, size)
      BY <2>5, <2>6, <2>7 DEF InPhase
    <2> QED
      BY <1>1, <2>1, <2>4, <2>5, <2>7
  <1>2. CASE f.counter = 0
    <2>1. g = [f EXCEPT !.size = f.target, !.old_target = f.target]
      BY <1>2 DEF UpdateSize
    <2>2. g \in FilterType(max)
      BY <1>0, <2>1 DEF FilterType
    <2>3. g.size = f.target /\ g.counter = f.counter /\ g.target = f.target
      BY <2>1 DEF FilterType
    <2> QED
      BY <1>2, <2>1, <2>2, <2>3 DEF InPhase
  <1> QED
    BY <1>0, <1>1, <1>2

\* On its ramp a filter does not get shorter.
LEMMA RampFacts ==
    ASSUME MainInitial < Main, NEW f \in FilterType(Main), f.counter > 0, OnRamp(f),
           NEW g \in UpdateSize(f, Main)
    PROVE  g.size >= f.size /\ OnRamp(g)
  <1> DEFINE d == ChangeBlocks
             c == f.counter
             n == g.size
  <1>1. /\ g = [f EXCEPT !.size = n, !.counter = c - 1]
        /\ n \in Averages(f.old_target, f.target, c - 1, Main)
    BY SizesAssumption, UpdateSizeFacts
  <1>2. /\ d \in Nat \ {0} /\ c \in Nat \ {0} /\ c <= d /\ f.size \in Nat
        /\ Main \in Nat /\ MainInitial \in Nat
    BY ChangeBlocksAssumption, SizesAssumption DEF FilterType
  <1>3. /\ f.old_target = MainInitial /\ f.target = Main
        /\ f.size * d <= MainInitial * c + Main * (d - c)
    BY DEF OnRamp, Sum
  <1>4. /\ n \in Nat
        /\ n * d <= MainInitial * (c - 1) + Main * (d - (c - 1))
        /\ MainInitial * (c - 1) + Main * (d - (c - 1)) <= (n + 1) * d
    BY <1>1, <1>3, SizesAssumption DEF Averages
  <1> HIDE DEF d, c, n
  <1>5. MainInitial * (c - 1) + Main * (d - (c - 1))
          = (MainInitial * c + Main * (d - c)) + (Main - MainInitial)
    BY <1>2
  <1>6. f.size * d < (n + 1) * d
    <2> DEFINE u == f.size * d
               v == MainInitial * c + Main * (d - c)
               w == (n + 1) * d
    <2>1. u <= v /\ v + (Main - MainInitial) <= w
      BY <1>3, <1>4, <1>5
    <2>2. u \in Int /\ v \in Int /\ w \in Int
      BY <1>2, <1>4
    <2> HIDE DEF u, v, w
    <2>3. u < w
      BY <1>2, <2>1, <2>2
    <2> QED
      BY <2>3 DEF u, w
  <1>7. f.size < n + 1
    BY <1>2, <1>4, <1>6, Cancel
  <1>8. n >= f.size
    BY <1>2, <1>4, <1>7
  <1>9. /\ g.old_target = MainInitial /\ g.target = Main /\ g.counter = c - 1
        /\ g.size = n
    BY <1>1, <1>3 DEF FilterType, n, c
  <1>10. OnRamp(g)
    BY <1>4, <1>9 DEF OnRamp, Sum, d
  <1> QED
    BY <1>8, <1>9, <1>10

-----------------------------------------------------------------------------
(* The invariant                                                           *)

LastType == [saturated : BOOLEAN, main : UpdateType(Main), shadow : UpdateType(Shadow)]

\* The main gain is new with no calls and, for filters of at most 1000 blocks,
\* as if the excitation had been good for a whole filter.
LEMMA NewMainGainFacts ==
    /\ NewMainGain \in GainType(Main)
    /\ NewMainGain.calls = 0
  <1>1. UpTo(PoorInitial, Main) \in 0 .. Main
    BY SizesAssumption DEF UpTo, PoorInitial
  <1>2. 0 \in 0 .. Main + 1
    BY SizesAssumption
  <1> QED
    BY <1>1, <1>2 DEF NewMainGain, GainType

\* The constructors' state satisfies the invariant.
LEMMA InitIInv == Init => IInv
  <1> SUFFICES ASSUME Init PROVE IInv
    OBVIOUS
  <1> USE SizesAssumption, ChangeBlocksAssumption, InitialLimitAssumption
  <1>1. /\ Filter(MainInitial) \in FilterType(Main)
        /\ InPhase(Filter(MainInitial), MainInitial)
        /\ Filter(ShadowInitial) \in FilterType(Shadow)
        /\ InPhase(Filter(ShadowInitial), ShadowInitial)
    BY FilterFacts
  <1>2. phase \in PhaseType
    BY DEF Init, NewPhase, PhaseType
  <1>3. main_gain \in GainType(Main) /\ shadow_gain \in GainType(Shadow)
    BY NewMainGainFacts DEF Init, GainType
  <1>4. TypeOK
    <2>1. /\ 0 \in 0 .. 2 /\ 0 \in 0 .. Main - 1 /\ 0 \in 0 .. Main
          /\ 0 \in 0 .. Shadow /\ 0 \in 0 .. Main + Shadow
      OBVIOUS
    <2>2. /\ gain_change_hangover_ \in 0 .. 2 /\ peak \in 0 .. Main - 1
          /\ since \in 0 .. Main + Shadow
      BY <2>1 DEF Init
    <2>3. last \in LastType
      BY <2>1 DEF Init, LastType, UpdateType, None
    <2>4. suppressor_initial \in BOOLEAN /\ coincided \in BOOLEAN /\ early \in BOOLEAN
      BY DEF Init
    <2>5. main \in FilterType(Main) /\ shadow \in FilterType(Shadow)
      BY <1>1 DEF Init
    <2> QED
      BY <1>2, <1>3, <2>2, <2>3, <2>4, <2>5 DEF TypeOK, LastType
  <1>5. PhasesAgree
    BY <1>1 DEF Init, PhasesAgree, NewPhase
  <1>6. LearnsOnlyWhenReady /\ PhaseInv /\ GainsInv /\ RampInv
    BY DEF Init, LearnsOnlyWhenReady, PhaseInv, GainsInv, RampInv, NewPhase, NewMainGain
  <1>7. SizesInv
    BY DEF Init, SizesInv, OnRamp, Filter
  <1> QED
    BY <1>4, <1>5, <1>6, <1>7 DEF IInv

\* The phase of the call keeps its type, and triggers only as it ends.
LEMMA PhaseFacts ==
    ASSUME NEW p \in PhaseType, NEW counts \in BOOLEAN, NEW u,
           u = UpdatePhase(p, counts)
    PROVE  /\ u \in PhaseType
           /\ u.triggered <=> ~ u.initial /\ p.initial
           /\ ~ u.initial => u.count = InitialLimit
           /\ p.count = InitialLimit => ~ u.initial
           /\ u.count <= p.count + 1
           /\ ResetPhase(p) \in PhaseType /\ ResetPhase(p).initial
           /\ ResetPhase(p).triggered = p.triggered /\ ResetPhase(p).count = 0
  <1> DEFINE count == IF counts /\ p.count < InitialLimit THEN p.count + 1 ELSE p.count
             short == count < InitialLimit
             triggered == count >= InitialLimit /\ p.initial
  <1>1. /\ p.count \in 0 .. InitialLimit
        /\ p.initial \in BOOLEAN /\ p.triggered \in BOOLEAN
    BY DEF PhaseType
  <1>2. u = [initial |-> short, triggered |-> triggered, count |-> count]
    BY DEF UpdatePhase
  <1>3. /\ count \in 0 .. InitialLimit /\ (p.count = InitialLimit => count = InitialLimit)
        /\ count <= p.count + 1
    BY <1>1, InitialLimitAssumption
  <1>4. /\ short \in BOOLEAN /\ triggered \in BOOLEAN
        /\ triggered <=> ~ short /\ p.initial
        /\ ~ short => count = InitialLimit
        /\ p.count = InitialLimit => ~ short
    BY <1>1, <1>3, InitialLimitAssumption
  <1>5. 0 \in 0 .. InitialLimit
    BY InitialLimitAssumption
  <1>6. /\ ResetPhase(p) = [initial |-> TRUE, triggered |-> p.triggered, count |-> 0]
    BY DEF ResetPhase
  <1> HIDE DEF count, short, triggered
  <1>7. u \in PhaseType
    BY <1>2, <1>3, <1>4 DEF PhaseType
  <1>8. u.initial = short /\ u.triggered = triggered /\ u.count = count
    BY <1>2
  <1>9. ResetPhase(p) \in PhaseType
    BY <1>1, <1>5, <1>6 DEF PhaseType
  <1>10. /\ ResetPhase(p).initial = TRUE /\ ResetPhase(p).triggered = p.triggered
         /\ ResetPhase(p).count = 0
    BY <1>6
  <1> QED
    BY <1>3, <1>4, <1>7, <1>8, <1>9, <1>10

\* A Compute keeps the type of the counters and stays behind the blocks.
LEMMA CountedFacts ==
    ASSUME NEW max \in Nat, NEW g \in GainType(max), NEW poorly \in BOOLEAN,
           NEW n \in Nat, NEW limit \in Nat, max + 1 <= limit, n <= limit
    PROVE  /\ Counted(g, poorly, max) \in GainType(max)
           /\ Counted(g, poorly, max).calls <= g.calls + 1
           /\ g.calls <= n => Counted(g, poorly, max).calls <= UpTo(n + 1, limit)
  <1> DEFINE calls == UpTo(g.calls + 1, max + 1)
             poor == UpTo((IF poorly THEN 0 ELSE g.poor) + 1, max)
  <1>1. g.calls \in 0 .. max + 1 /\ g.poor \in 0 .. max
    BY DEF GainType
  <1>2. calls \in 0 .. max + 1 /\ poor \in 0 .. max /\ calls <= g.calls + 1
    BY <1>1 DEF UpTo
  <1>3. g.calls <= n => calls <= UpTo(n + 1, limit)
    BY <1>1 DEF UpTo
  <1>4. Counted(g, poorly, max) = [calls |-> calls, poor |-> poor]
    BY DEF Counted
  <1> HIDE DEF calls, poor
  <1>5. Counted(g, poorly, max) \in GainType(max)
    BY <1>2, <1>4 DEF GainType
  <1>6. Counted(g, poorly, max).calls = calls
    BY <1>4
  <1> QED
    BY <1>2, <1>3, <1>5, <1>6

\* The filter of a kind that is handed to Subtractor::Process.
LEMMA PreparedFacts ==
    ASSUME NEW max \in Nat, NEW initial \in 1 .. max,
           NEW f \in FilterType(max), NEW change \in BOOLEAN, NEW exits \in BOOLEAN,
           NEW g, g = Prepared(f, initial, max, change, exits)
    PROVE  /\ g \in FilterType(max)
           /\ exits => InPhase(g, max)
           /\ change /\ ~ exits => g = Filter(initial)
           /\ ~ change /\ ~ exits => g = f
           /\ ~ change /\ exits => g = SetSizePartitions(f, max)
  <1>1. Filter(initial) \in FilterType(max) /\ max \in 1 .. max
    BY FilterFacts
  <1>2. CASE change
    <2>1. CASE exits
      <3>1. g = SetSizePartitions(Filter(initial), max)
        BY <1>2, <2>1 DEF Prepared
      <3> QED
        BY <1>1, <1>2, <2>1, <3>1, SetSizeFacts
    <2>2. CASE ~ exits
      BY <1>1, <1>2, <2>2 DEF Prepared
    <2> QED
      BY <2>1, <2>2
  <1>3. CASE ~ change
    <2>1. CASE exits
      <3>1. g = SetSizePartitions(f, max)
        BY <1>3, <2>1 DEF Prepared
      <3> QED
        BY <1>1, <1>3, <2>1, <3>1, SetSizeFacts
    <2>2. CASE ~ exits
      BY <1>3, <2>2 DEF Prepared
    <2> QED
      BY <2>1, <2>2
  <1> QED
    BY <1>2, <1>3

\* What a gain's counters show when its filter is updated.
LEMMA UpdatedFacts ==
    ASSUME NEW max \in Nat, NEW g \in GainType(max), NEW asked \in 1 .. max,
           NEW grown \in 1 .. max, NEW saturated \in BOOLEAN,
           NEW u, u = Updated(g, asked, grown, saturated)
    PROVE  /\ u \in UpdateType(max)
           /\ u # None => /\ u.asked = asked /\ u.adapted = grown
                          /\ ~ saturated /\ g.calls > asked
  <1>1. CASE g.poor >= asked /\ ~ saturated /\ g.calls > asked
    BY <1>1 DEF Updated, UpdateType
  <1>2. CASE ~ (g.poor >= asked /\ ~ saturated /\ g.calls > asked)
    <2>1. u = None
      BY <1>2 DEF Updated
    <2>2. None \in UpdateType(max)
      BY DEF None, UpdateType
    <2> QED
      BY <2>1, <2>2
  <1> QED
    BY <1>1, <1>2

-----------------------------------------------------------------------------
(* One block                                                               *)

Told(change) == IF change THEN ResetPhase(phase) ELSE phase
MainPrepared(change) ==
    Prepared(main, MainInitial, Main, change, phase.triggered)
ShadowPrepared(change) ==
    Prepared(shadow, ShadowInitial, Shadow, change, phase.triggered)

\* The phase through one block: a pending ExitInitialState is carried out, also
\* when it was pending over a delay change.
LEMMA PhaseStep ==
    ASSUME IInv, NEW change \in BOOLEAN, NEW gain \in BOOLEAN,
           NEW saturated \in BOOLEAN, NEW active \in BOOLEAN,
           NEW poorly \in BOOLEAN, NEW misadjusted \in BOOLEAN,
           ProcessCapture(change, gain, saturated, active, poorly, misadjusted)
    PROVE  /\ phase' \in PhaseType
           /\ phase'.triggered <=> ~ phase'.initial /\ (change \/ phase.initial)
           /\ ~ phase'.initial => phase'.count = InitialLimit
           /\ ~ change /\ ~ phase.initial => ~ phase'.initial
           /\ suppressor_initial' = SuppressorInitial(change, phase.triggered)
           /\ early' = IF change THEN phase.triggered ELSE early
           /\ main' \in UpdateSize(MainPrepared(change), Main)
           /\ shadow' \in UpdateSize(ShadowPrepared(change), Shadow)
           /\ phase.triggered \in BOOLEAN /\ phase.initial \in BOOLEAN
           /\ phase'.count <= (IF change THEN 0 ELSE phase.count) + 1
  <1>1. phase \in PhaseType
    BY DEF IInv, TypeOK
  <1>2. phase.triggered \in BOOLEAN /\ phase.initial \in BOOLEAN
    BY <1>1 DEF PhaseType
  <1> DEFINE counts == active /\ ~ (saturated /\ ~ change)
             told == Told(change)
  <1>3. counts \in BOOLEAN
    OBVIOUS
  <1>4. /\ ResetPhase(phase) \in PhaseType /\ ResetPhase(phase).initial
        /\ ResetPhase(phase).triggered = phase.triggered /\ ResetPhase(phase).count = 0
    BY <1>1, <1>3, PhaseFacts
  <1>5. /\ told.count = IF change THEN 0 ELSE phase.count
        /\ told \in PhaseType /\ told.triggered = phase.triggered
        /\ change => told.initial
        /\ ~ change => told = phase
    BY <1>1, <1>4 DEF Told
  <1>6. phase' = UpdatePhase(told, counts)
    BY DEF ProcessCapture, Told
  <1>7. /\ suppressor_initial' = SuppressorInitial(change, told.triggered)
        /\ early' = IF change THEN told.triggered ELSE early
        /\ main' \in UpdateSize(Prepared(main, MainInitial, Main, change, told.triggered), Main)
        /\ shadow' \in UpdateSize(Prepared(shadow, ShadowInitial, Shadow, change, told.triggered), Shadow)
    BY DEF ProcessCapture, Told
  <1> HIDE DEF counts, told
  <1>8. /\ phase' \in PhaseType
        /\ phase'.triggered <=> ~ phase'.initial /\ told.initial
        /\ ~ phase'.initial => phase'.count = InitialLimit
        /\ told.count = InitialLimit => ~ phase'.initial
        /\ phase'.count <= told.count + 1
    BY <1>3, <1>5, <1>6, PhaseFacts
  <1>9. ~ phase.initial => phase.count = InitialLimit
    BY DEF IInv, PhaseInv
  <1>10. phase'.triggered <=> ~ phase'.initial /\ (change \/ phase.initial)
    BY <1>5, <1>8
  <1>11. ~ change /\ ~ phase.initial => ~ phase'.initial
    BY <1>5, <1>8, <1>9
  <1>12. /\ suppressor_initial' = SuppressorInitial(change, phase.triggered)
         /\ early' = IF change THEN phase.triggered ELSE early
         /\ main' \in UpdateSize(MainPrepared(change), Main)
         /\ shadow' \in UpdateSize(ShadowPrepared(change), Shadow)
    BY <1>5, <1>7 DEF MainPrepared, ShadowPrepared
  <1> QED
    BY <1>2, <1>5, <1>8, <1>10, <1>11, <1>12

\* A filter is in the phase of the suppressor again after the block, for the
\* main filter and for the shadow filter alike.
LEMMA FilterStep ==
    ASSUME NEW max \in Nat, NEW initial \in 1 .. max, NEW f \in FilterType(max),
           NEW change \in BOOLEAN, NEW exits \in BOOLEAN, NEW suppressor \in BOOLEAN,
           InPhase(f, IF suppressor THEN initial ELSE max),
           NEW p, p = Prepared(f, initial, max, change, exits),
           NEW g \in UpdateSize(p, max)
    PROVE  /\ p \in FilterType(max) /\ g \in FilterType(max)
           /\ InPhase(g, IF (change \/ suppressor) /\ ~ exits THEN initial ELSE max)
  <1>1. /\ p \in FilterType(max)
        /\ exits => InPhase(p, max)
        /\ change /\ ~ exits => p = Filter(initial)
        /\ ~ change /\ ~ exits => p = f
    BY PreparedFacts
  <1>2. InPhase(p, IF (change \/ suppressor) /\ ~ exits THEN initial ELSE max)
    <2>1. CASE exits
      BY <1>1, <2>1
    <2>2. CASE change /\ ~ exits
      BY <1>1, <2>2, FilterFacts
    <2>3. CASE ~ change /\ ~ exits
      BY <1>1, <2>3
    <2> QED
      BY <2>1, <2>2, <2>3
  <1>3. /\ g \in FilterType(max)
        /\ \A size : InPhase(p, size) => InPhase(g, size)
    BY <1>1, UpdateSizeFacts
  <1> QED
    BY <1>1, <1>2, <1>3

\* PhasesAgree and PhaseInv through one block.
LEMMA PhasesStep ==
    ASSUME IInv, NEW change \in BOOLEAN, NEW gain \in BOOLEAN,
           NEW saturated \in BOOLEAN, NEW active \in BOOLEAN,
           NEW poorly \in BOOLEAN, NEW misadjusted \in BOOLEAN,
           ProcessCapture(change, gain, saturated, active, poorly, misadjusted)
    PROVE  /\ PhasesAgree' /\ PhaseInv'
           /\ MainPrepared(change) \in FilterType(Main) /\ main' \in FilterType(Main)
           /\ ShadowPrepared(change) \in FilterType(Shadow) /\ shadow' \in FilterType(Shadow)
           /\ suppressor_initial' \in BOOLEAN /\ early' \in BOOLEAN
  <1>1. /\ phase'.triggered <=> ~ phase'.initial /\ (change \/ phase.initial)
        /\ ~ phase'.initial => phase'.count = InitialLimit
        /\ ~ change /\ ~ phase.initial => ~ phase'.initial
        /\ suppressor_initial' = SuppressorInitial(change, phase.triggered)
        /\ early' = IF change THEN phase.triggered ELSE early
        /\ main' \in UpdateSize(MainPrepared(change), Main)
        /\ shadow' \in UpdateSize(ShadowPrepared(change), Shadow)
        /\ phase.triggered \in BOOLEAN /\ phase.initial \in BOOLEAN
        /\ phase' \in PhaseType
    BY PhaseStep
  <1>2. /\ suppressor_initial \in BOOLEAN /\ early \in BOOLEAN
        /\ main \in FilterType(Main) /\ shadow \in FilterType(Shadow)
    BY DEF IInv, TypeOK
  <1>3. /\ InPhase(main, IF suppressor_initial THEN MainInitial ELSE Main)
        /\ InPhase(shadow, IF suppressor_initial THEN ShadowInitial ELSE Shadow)
        /\ ~ phase.initial => suppressor_initial = (phase.triggered /\ ~ early)
        /\ phase.initial => suppressor_initial = ~ early
    BY DEF IInv, PhasesAgree
  <1>4. phase.triggered => ~ phase.initial
    BY DEF IInv, PhaseInv
  <1>5. suppressor_initial' = ((change \/ suppressor_initial) /\ ~ phase.triggered)
    BY <1>1 DEF SuppressorInitial
  <1>6. /\ MainPrepared(change) \in FilterType(Main) /\ main' \in FilterType(Main)
        /\ InPhase(main', IF (change \/ suppressor_initial) /\ ~ phase.triggered
                          THEN MainInitial ELSE Main)
    BY <1>1, <1>2, <1>3, FilterStep, SizesAssumption DEF MainPrepared
  <1>7. /\ ShadowPrepared(change) \in FilterType(Shadow) /\ shadow' \in FilterType(Shadow)
        /\ InPhase(shadow', IF (change \/ suppressor_initial) /\ ~ phase.triggered
                            THEN ShadowInitial ELSE Shadow)
    BY <1>1, <1>2, <1>3, FilterStep, SizesAssumption DEF ShadowPrepared
  <1>8. /\ InPhase(main', IF suppressor_initial' THEN MainInitial ELSE Main)
        /\ InPhase(shadow', IF suppressor_initial' THEN ShadowInitial ELSE Shadow)
    BY <1>5, <1>6, <1>7
  <1>9. phase'.triggered \in BOOLEAN /\ phase'.initial \in BOOLEAN
    BY <1>1 DEF PhaseType
  <1>10. suppressor_initial' \in BOOLEAN /\ early' \in BOOLEAN
    <2>1. ((change \/ suppressor_initial) /\ ~ phase.triggered) \in BOOLEAN
      OBVIOUS
    <2>2. (IF change THEN phase.triggered ELSE early) \in BOOLEAN
      BY <1>1, <1>2
    <2> QED
      BY <1>1, <1>5, <2>1, <2>2
  <1>11. /\ ~ phase'.initial => suppressor_initial' = (phase'.triggered /\ ~ early')
         /\ phase'.initial => suppressor_initial' = ~ early'
    <2>1. CASE change
      <3>1. /\ suppressor_initial' = ~ phase.triggered
            /\ early' = phase.triggered
            /\ ~ phase'.initial => phase'.triggered
        BY <1>1, <1>5, <2>1
      <3> QED
        BY <3>1, <1>1, <1>9
    <2>2. CASE ~ change /\ phase.initial
      <3>1. /\ suppressor_initial' = suppressor_initial /\ early' = early
            /\ suppressor_initial = ~ early
            /\ ~ phase'.initial => phase'.triggered
        BY <1>1, <1>2, <1>3, <1>4, <1>5, <2>2
      <3> QED
        BY <3>1, <1>2, <1>9
    <2>3. CASE ~ change /\ ~ phase.initial
      <3>1. /\ ~ phase'.initial /\ ~ phase'.triggered /\ early' = early
            /\ suppressor_initial' = (suppressor_initial /\ ~ phase.triggered)
            /\ suppressor_initial = (phase.triggered /\ ~ early)
        BY <1>1, <1>3, <1>5, <2>3
      <3> QED
        BY <3>1, <1>1, <1>2
    <2> QED
      BY <2>1, <2>2, <2>3
  <1>12. PhasesAgree'
    BY <1>8, <1>11 DEF PhasesAgree
  <1>13. PhaseInv'
    BY <1>1 DEF PhaseInv
  <1> QED
    BY <1>6, <1>7, <1>10, <1>12, <1>13

\* A filter at rest stays as it is.
LEMMA RestFacts ==
    ASSUME NEW max \in Nat, NEW size \in 1 .. max, NEW g \in UpdateSize(Filter(size), max)
    PROVE  g = Filter(size)
  <1>1. Filter(size).counter = 0 /\ Filter(size) \in FilterType(max)
    BY FilterFacts DEF Filter
  <1>2. g = [Filter(size) EXCEPT !.size = Filter(size).target,
                                 !.old_target = Filter(size).target]
    BY <1>1, UpdateSizeFacts
  <1> QED
    BY <1>2 DEF Filter

\* SizesInv through one block, and what PeakIsInside asks of the block.
LEMMA SizesStep ==
    ASSUME IInv, NEW change \in BOOLEAN, NEW gain \in BOOLEAN,
           NEW saturated \in BOOLEAN, NEW active \in BOOLEAN,
           NEW poorly \in BOOLEAN, NEW misadjusted \in BOOLEAN,
           ProcessCapture(change, gain, saturated, active, poorly, misadjusted)
    PROVE  /\ SizesInv' /\ peak' \in 0 .. Main - 1
           /\ MainInitial < Main /\ ~ early' => peak < main'.size \/ since' = 1
           /\ suppressor_initial' => /\ main'.size = MainPrepared(change).size
                                     /\ shadow'.size = ShadowPrepared(change).size
  <1> USE SizesAssumption
  <1>1. /\ suppressor_initial' = SuppressorInitial(change, phase.triggered)
        /\ early' = IF change THEN phase.triggered ELSE early
        /\ main' \in UpdateSize(MainPrepared(change), Main)
        /\ shadow' \in UpdateSize(ShadowPrepared(change), Shadow)
        /\ phase.triggered \in BOOLEAN
    BY PhaseStep
  <1>2. /\ suppressor_initial \in BOOLEAN /\ main \in FilterType(Main)
        /\ shadow \in FilterType(Shadow) /\ peak \in 0 .. Main - 1
        /\ since \in 0 .. Main + Shadow
    BY DEF IInv, TypeOK
  <1>3. /\ suppressor_initial => main = Filter(MainInitial) /\ shadow = Filter(ShadowInitial)
        /\ ~ early /\ MainInitial < Main => OnRamp(main) /\ peak < main.size
    BY DEF IInv, SizesInv
  <1>4. /\ change /\ ~ phase.triggered =>
             /\ MainPrepared(change) = Filter(MainInitial)
             /\ ShadowPrepared(change) = Filter(ShadowInitial)
        /\ ~ change /\ ~ phase.triggered =>
             /\ MainPrepared(change) = main
             /\ ShadowPrepared(change) = shadow
        /\ ~ change /\ phase.triggered =>
             MainPrepared(change) = SetSizePartitions(main, Main)
    BY DEF MainPrepared, ShadowPrepared, Prepared
  <1>5. main' \in FilterType(Main) /\ main'.size \in 1 .. Main
    BY PhasesStep DEF FilterType
  <1>6. /\ peak' \in FindPeak(PeakBefore(change), main'.size)
        /\ since' = UpTo((IF change THEN 0 ELSE since) + 1, Main + Shadow)
    BY DEF ProcessCapture
  <1>7. suppressor_initial' =>
          /\ main' = Filter(MainInitial) /\ shadow' = Filter(ShadowInitial)
          /\ main'.size = MainPrepared(change).size
          /\ shadow'.size = ShadowPrepared(change).size
    <2>1. SUFFICES ASSUME suppressor_initial'
                   PROVE  /\ main' = Filter(MainInitial) /\ shadow' = Filter(ShadowInitial)
                          /\ main'.size = MainPrepared(change).size
                          /\ shadow'.size = ShadowPrepared(change).size
      OBVIOUS
    <2>2. ~ phase.triggered /\ (change \/ suppressor_initial)
      BY <1>1, <2>1 DEF SuppressorInitial
    <2>3. /\ MainPrepared(change) = Filter(MainInitial)
          /\ ShadowPrepared(change) = Filter(ShadowInitial)
      BY <1>3, <1>4, <2>2
    <2>4. Main \in Nat /\ Shadow \in Nat
      OBVIOUS
    <2> QED
      BY <1>1, <2>3, <2>4, RestFacts
  <1>8. ASSUME MainInitial < Main, ~ early'
        PROVE  /\ OnRamp(main') /\ peak' < main'.size
               /\ peak < main'.size \/ since' = 1
    <2>1. CASE change
      <3>1. ~ phase.triggered
        BY <1>1, <1>8, <2>1
      <3>2. main' = Filter(MainInitial)
        <4>1. Main \in Nat
          OBVIOUS
        <4> QED
          BY <1>1, <1>4, <2>1, <3>1, <4>1, RestFacts
      <3>3. OnRamp(main')
        BY <3>2 DEF OnRamp, Filter
      <3>4. peak' < main'.size
        BY <1>5, <1>6, <2>1 DEF FindPeak, PeakBefore
      <3>5. since' = 1
        BY <1>6, <2>1 DEF UpTo
      <3> QED
        BY <3>3, <3>4, <3>5
    <2>2. CASE ~ change
      <3>1. ~ early /\ OnRamp(main) /\ peak < main.size
        BY <1>1, <1>3, <1>8, <2>2
      <3>2. main'.size >= main.size /\ OnRamp(main')
        <4>1. CASE phase.triggered
          <5>1. ~ phase.initial /\ suppressor_initial
            <6>1. /\ phase.triggered => ~ phase.initial
                  /\ ~ phase.initial => suppressor_initial = (phase.triggered /\ ~ early)
              BY DEF IInv, PhasesAgree, PhaseInv
            <6> QED
              BY <6>1, <4>1, <3>1
          <5>2. main = Filter(MainInitial)
            BY <1>3, <5>1
          <5> DEFINE m == MainPrepared(change)
          <5>3. m = SetSizePartitions(main, Main)
            BY <1>4, <2>2, <4>1
          <5>4. m \in FilterType(Main)
            BY PhasesStep
          <5>5. /\ m.size = MainInitial /\ m.old_target = MainInitial
                /\ m.target = Main /\ m.counter = ChangeBlocks
            BY <5>2, <5>3 DEF SetSizePartitions, Filter
          <5>6. MainInitial * ChangeBlocks
                  <= MainInitial * ChangeBlocks + Main * (ChangeBlocks - ChangeBlocks)
            BY ChangeBlocksAssumption
          <5>7. OnRamp(m) /\ m.counter > 0
            BY <5>5, <5>6, ChangeBlocksAssumption DEF OnRamp, Sum
          <5>8. main' \in UpdateSize(m, Main)
            BY <1>1
          <5> HIDE DEF m
          <5>9. main'.size >= m.size /\ OnRamp(main')
            BY <1>8, <5>4, <5>7, <5>8, RampFacts
          <5> QED
            BY <5>2, <5>5, <5>9 DEF Filter
        <4>2. CASE ~ phase.triggered
          <5>1. main' \in UpdateSize(main, Main)
            BY <1>1, <1>4, <2>2, <4>2
          <5>2. CASE main.counter > 0
            BY <1>2, <1>8, <3>1, <5>1, <5>2, RampFacts
          <5>3. CASE main.counter = 0
            <6>1. main.size = main.target
              BY <5>3 DEF IInv, PhasesAgree, InPhase
            <6>2. main' = [main EXCEPT !.size = main.target, !.old_target = main.target]
              <7>1. Main \in Nat
                OBVIOUS
              <7> QED
                BY <1>2, <5>1, <5>3, <7>1, UpdateSizeFacts
            <6>3. main'.size = main.size /\ main'.counter = 0 /\ main.size \in 1 .. Main
              BY <1>2, <5>3, <6>1, <6>2 DEF FilterType
            <6> QED
              BY <6>3 DEF OnRamp
          <5>4. main.counter \in Nat
            BY <1>2, ChangeBlocksAssumption DEF FilterType
          <5> QED
            BY <5>2, <5>3, <5>4
        <4> QED
          BY <4>1, <4>2
      <3>3. main.size \in 1 .. Main
        BY <1>2 DEF FilterType
      <3>4. peak < main'.size
        BY <1>2, <1>5, <3>1, <3>2, <3>3
      <3>5. peak' < main'.size
        BY <1>5, <1>6, <2>2, <3>4 DEF FindPeak, PeakBefore
      <3> QED
        BY <3>2, <3>4, <3>5
    <2> QED
      BY <2>1, <2>2
  <1>9. SizesInv'
    BY <1>7, <1>8 DEF SizesInv
  <1>10. peak' \in 0 .. Main - 1
    <2>1. PeakBefore(change) \in 0 .. Main - 1
      BY <1>2 DEF PeakBefore
    <2> QED
      BY <1>5, <1>6, <2>1 DEF FindPeak
  <1> QED
    BY <1>7, <1>8, <1>9, <1>10

\* RampInv through one block.
LEMMA RampStep ==
    ASSUME IInv, NEW change \in BOOLEAN, NEW gain \in BOOLEAN,
           NEW saturated \in BOOLEAN, NEW active \in BOOLEAN,
           NEW poorly \in BOOLEAN, NEW misadjusted \in BOOLEAN,
           ProcessCapture(change, gain, saturated, active, poorly, misadjusted)
    PROVE  RampInv'
  <1> DEFINE limit == Main + Shadow
  <1>1. /\ suppressor_initial' = SuppressorInitial(change, phase.triggered)
        /\ early' = IF change THEN phase.triggered ELSE early
        /\ phase'.count <= (IF change THEN 0 ELSE phase.count) + 1
        /\ phase' \in PhaseType /\ phase.triggered \in BOOLEAN
    BY PhaseStep
  <1>2. since' = UpTo((IF change THEN 0 ELSE since) + 1, limit)
    BY DEF ProcessCapture
  <1>3. /\ phase \in PhaseType /\ since \in 0 .. limit
        /\ suppressor_initial \in BOOLEAN /\ early \in BOOLEAN
    BY DEF IInv, TypeOK
  <1>4. /\ phase.count <= since \/ since = limit
        /\ ~ early /\ ~ suppressor_initial => since > InitialLimit \/ since = limit
        /\ phase.triggered => phase.count = InitialLimit
    BY DEF IInv, RampInv, PhaseInv
  <1>5. /\ limit \in Nat \ {0} /\ InitialLimit \in Nat
        /\ phase.count \in Nat /\ phase'.count \in Nat
    BY <1>1, <1>3, SizesAssumption, InitialLimitAssumption DEF PhaseType
  <1> HIDE DEF limit
  <1>6. CASE change
    <2>1. since' = 1 /\ phase'.count <= 1
      BY <1>1, <1>2, <1>5, <1>6 DEF UpTo
    <2>2. ~ (~ early' /\ ~ suppressor_initial')
      BY <1>1, <1>6 DEF SuppressorInitial
    <2> QED
      BY <2>1, <2>2 DEF RampInv, limit
  <1>7. CASE ~ change
    <2>1. /\ since' = IF since + 1 <= limit THEN since + 1 ELSE limit
          /\ phase'.count <= phase.count + 1
      BY <1>1, <1>2, <1>7 DEF UpTo
    <2>2. phase'.count <= since' \/ since' = limit
      BY <1>3, <1>4, <1>5, <2>1
    <2>3. ASSUME ~ early', ~ suppressor_initial' PROVE since' > InitialLimit \/ since' = limit
      <3>1. ~ early /\ (~ suppressor_initial \/ phase.triggered)
        BY <1>1, <1>3, <1>7, <2>3 DEF SuppressorInitial
      <3>2. since >= InitialLimit \/ since = limit
        BY <1>3, <1>4, <1>5, <3>1
      <3>3. ~ suppressor_initial => since > InitialLimit \/ since = limit
        BY <1>4, <3>1
      <3>4. since + 1 > InitialLimit \/ since = limit
        BY <1>3, <1>5, <3>2
      <3> QED
        BY <1>3, <1>5, <2>1, <3>4
    <2> QED
      BY <2>2, <2>3 DEF RampInv, limit
  <1> QED
    BY <1>6, <1>7

\* GainsInv and LearnsOnlyWhenReady through one block.
LEMMA GainsStep ==
    ASSUME IInv, NEW change \in BOOLEAN, NEW gain \in BOOLEAN,
           NEW saturated \in BOOLEAN, NEW active \in BOOLEAN,
           NEW poorly \in BOOLEAN, NEW misadjusted \in BOOLEAN,
           ProcessCapture(change, gain, saturated, active, poorly, misadjusted)
    PROVE  /\ GainsInv' /\ LearnsOnlyWhenReady'
           /\ main_gain' \in GainType(Main) /\ shadow_gain' \in GainType(Shadow)
           /\ last' \in LastType
           /\ since' \in 0 .. Main + Shadow /\ coincided' \in BOOLEAN
  <1> USE SizesAssumption
  <1> DEFINE acted == gain /\ gain_change_hangover_ = 0
             seen == saturated /\ ~ change
             n == IF change THEN 0 ELSE since
             limit == Main + Shadow
             mg == IF change THEN ResetMainGain(main_gain, acted) ELSE main_gain
             sg == IF change THEN ResetShadowGain(shadow_gain) ELSE shadow_gain
             msize == MainPrepared(change).size
             ssize == ShadowPrepared(change).size
             mgrown == main'.size
             sgrown == shadow'.size
  <1>1. /\ main_gain \in GainType(Main) /\ shadow_gain \in GainType(Shadow)
        /\ since \in 0 .. limit /\ coincided \in BOOLEAN
        /\ shadow_gain.calls <= since
        /\ ~ coincided => main_gain.calls <= since
    BY DEF IInv, TypeOK, GainsInv
  <1>2. acted \in BOOLEAN /\ seen \in BOOLEAN
    OBVIOUS
  <1>3. /\ main_gain' = IF misadjusted THEN mg ELSE Counted(mg, poorly, Main)
        /\ shadow_gain' = Counted(sg, poorly, Shadow)
        /\ since' = UpTo(n + 1, limit)
        /\ coincided' = IF change THEN acted ELSE coincided
    BY DEF ProcessCapture
  <1>4. Prepared(main, MainInitial, Main, change, Told(change).triggered) = MainPrepared(change)
        /\ Prepared(shadow, ShadowInitial, Shadow, change, Told(change).triggered)
             = ShadowPrepared(change)
    <2>1. Told(change).triggered = phase.triggered
      BY DEF Told, ResetPhase
    <2> QED
      BY <2>1 DEF MainPrepared, ShadowPrepared
  <1>5. last' = [saturated |-> saturated,
                 main   |-> IF misadjusted THEN None
                            ELSE Updated(main_gain', msize, mgrown, seen),
                 shadow |-> Updated(shadow_gain', ssize, sgrown, seen)]
    BY <1>4 DEF ProcessCapture, Told
  <1>6. /\ msize \in 1 .. Main /\ ssize \in 1 .. Shadow
        /\ mgrown \in 1 .. Main /\ sgrown \in 1 .. Shadow
    BY PhasesStep DEF FilterType
  <1>7. n \in Nat /\ limit \in Nat /\ n <= limit /\ Main + 1 <= limit /\ Shadow + 1 <= limit
        /\ Main \in Nat /\ Shadow \in Nat
    BY <1>1
  <1>8. /\ mg \in GainType(Main) /\ sg \in GainType(Shadow)
        /\ sg.calls <= n
        /\ ~ coincided' => mg.calls <= n
    <2>1. CASE change
      <3>1. sg = [calls |-> 0, poor |-> 0]
        BY <2>1 DEF ResetShadowGain
      <3>2. acted => mg = main_gain
        BY <2>1 DEF ResetMainGain
      <3>3. ~ acted => mg = NewMainGain
        BY <2>1 DEF ResetMainGain
      <3>4. /\ [calls |-> 0, poor |-> 0] \in GainType(Shadow)
            /\ NewMainGain \in GainType(Main) /\ NewMainGain.calls = 0
        BY NewMainGainFacts DEF GainType
      <3>5. coincided' = acted /\ n = 0
        BY <1>3, <2>1
      <3> HIDE DEF acted, mg, sg, n
      <3> QED
        BY <1>1, <1>2, <3>1, <3>2, <3>3, <3>4, <3>5
    <2>2. CASE ~ change
      BY <1>1, <1>3, <2>2
    <2> QED
      BY <2>1, <2>2
  <1> HIDE DEF acted, seen, n, limit, mg, sg, msize, ssize, mgrown, sgrown
  <1>9. /\ Counted(sg, poorly, Shadow) \in GainType(Shadow)
        /\ Counted(sg, poorly, Shadow).calls <= UpTo(n + 1, limit)
        /\ Counted(mg, poorly, Main) \in GainType(Main)
        /\ mg.calls <= n => Counted(mg, poorly, Main).calls <= UpTo(n + 1, limit)
    BY <1>7, <1>8, CountedFacts
  <1>10. main_gain' \in GainType(Main) /\ shadow_gain' \in GainType(Shadow)
    BY <1>3, <1>8, <1>9
  <1>11. /\ since' \in Nat /\ since' <= limit /\ n <= since'
         /\ change => since' = 1
    BY <1>3, <1>7 DEF UpTo, n
  <1>12. shadow_gain'.calls <= since'
    BY <1>3, <1>9
  <1>13. ~ coincided' => main_gain'.calls <= since'
    <2>1. mg.calls \in Nat
      BY <1>8 DEF GainType
    <2>2. CASE misadjusted
      BY <1>3, <1>7, <1>8, <1>11, <2>1, <2>2
    <2>3. CASE ~ misadjusted
      BY <1>3, <1>8, <1>9, <2>3
    <2> QED
      BY <2>2, <2>3
  <1>14. coincided' \in BOOLEAN
    BY <1>1, <1>2, <1>3
  <1> DEFINE mu == Updated(main_gain', msize, mgrown, seen)
             su == Updated(shadow_gain', ssize, sgrown, seen)
  <1>15. /\ mu \in UpdateType(Main)
         /\ mu # None => /\ mu.asked = msize /\ mu.adapted = mgrown
                         /\ ~ seen /\ main_gain'.calls > msize
         /\ su \in UpdateType(Shadow)
         /\ su # None => /\ su.asked = ssize /\ su.adapted = sgrown
                         /\ ~ seen /\ shadow_gain'.calls > ssize
    BY <1>2, <1>6, <1>7, <1>10, UpdatedFacts
  <1>16. main_gain'.calls \in Nat /\ shadow_gain'.calls \in Nat
    BY <1>10 DEF GainType
  <1> HIDE DEF mu, su
  <1>17. /\ last'.saturated = saturated /\ last'.shadow = su
         /\ last'.main = (IF misadjusted THEN None ELSE mu)
    BY <1>5 DEF mu, su
  <1>18. last' \in LastType
    <2>1. None \in UpdateType(Main)
      BY <1>7 DEF None, UpdateType
    <2>2. (IF misadjusted THEN None ELSE mu) \in UpdateType(Main)
      BY <1>15, <2>1
    <2> QED
      BY <1>5, <1>15, <2>2 DEF mu, su, LastType
  \* A ramp adds partitions only when the initial phase is over.
  <1>19. ~ early' => \/ mgrown = msize /\ sgrown = ssize
                     \/ since' > InitialLimit
                     \/ since' > Main /\ since' > Shadow
    <2>1. suppressor_initial' => mgrown = msize /\ sgrown = ssize
      BY SizesStep DEF mgrown, msize, sgrown, ssize
    <2>2. ~ early' /\ ~ suppressor_initial' => since' > InitialLimit \/ since' = limit
      BY RampStep DEF RampInv, limit
    <2>3. limit > Main /\ limit > Shadow
      BY <1>7
    <2> QED
      BY <2>1, <2>2, <2>3
  <1> DEFINE reach(u, max) ==
               since' > (IF early' \/ InitialLimit < max THEN u.asked ELSE u.adapted)
  <1>20. ASSUME su # None PROVE ~ saturated /\ reach(su, Shadow)
    <2>1. su.asked = ssize /\ su.adapted = sgrown /\ ~ seen /\ shadow_gain'.calls > ssize
      BY <1>15, <1>20
    <2>2. since' > ssize
      BY <1>6, <1>11, <1>12, <1>16, <2>1
    <2>3. since' # 1
      BY <1>6, <1>11, <2>2
    <2>4. ~ early' /\ ~ InitialLimit < Shadow => since' > sgrown
      BY <1>6, <1>7, <1>11, <1>19, <2>2, InitialLimitAssumption
    <2>5. reach(su, Shadow)
      BY <2>1, <2>2, <2>4
    <2> QED
      BY <1>11, <2>1, <2>3, <2>5 DEF seen
  <1>21. ASSUME last'.main # None
         PROVE  \/ ~ saturated /\ reach(mu, Main)
                \/ coincided' /\ (saturated => since' = 1)
    <2>1. /\ last'.main = mu /\ ~ seen /\ main_gain'.calls > msize
          /\ mu.asked = msize /\ mu.adapted = mgrown
      BY <1>15, <1>17, <1>21
    <2>2. saturated => since' = 1
      BY <1>11, <2>1 DEF seen
    <2>3. CASE ~ coincided'
      <3>1. since' > msize
        BY <1>6, <1>11, <1>13, <1>16, <2>1, <2>3
      <3>2. since' # 1
        BY <1>6, <1>11, <3>1
      <3>3. ~ early' /\ ~ InitialLimit < Main => since' > mgrown
        BY <1>6, <1>7, <1>11, <1>19, <3>1, InitialLimitAssumption
      <3>4. reach(mu, Main)
        BY <2>1, <3>1, <3>3
      <3> QED
        BY <2>1, <2>2, <3>2, <3>4
    <2>4. CASE coincided'
      BY <2>2, <2>4
    <2> QED
      BY <2>3, <2>4
  <1>24. LearnsOnlyWhenReady'
    <2>1. last'.main # None => last'.main = mu
      BY <1>17
    <2> QED
      BY <1>17, <1>20, <1>21, <2>1 DEF LearnsOnlyWhenReady, Reaches
  <1>22. GainsInv'
    BY <1>12, <1>13 DEF GainsInv
  <1>23. since' \in 0 .. Main + Shadow
    BY <1>11 DEF limit
  <1> QED
    BY <1>10, <1>14, <1>18, <1>22, <1>23, <1>24

\* Every block keeps the invariant.
LEMMA NextIInv == IInv /\ [Next]_vars => IInv'
  <1> SUFFICES ASSUME IInv, [Next]_vars PROVE IInv'
    OBVIOUS
  <1>1. ASSUME NEW change \in BOOLEAN, NEW gain \in BOOLEAN,
               NEW saturated \in BOOLEAN, NEW active \in BOOLEAN,
               NEW poorly \in BOOLEAN, NEW misadjusted \in BOOLEAN,
               ProcessCapture(change, gain, saturated, active, poorly, misadjusted)
        PROVE  IInv'
    <2>1. /\ PhasesAgree' /\ PhaseInv' /\ main' \in FilterType(Main)
          /\ shadow' \in FilterType(Shadow) /\ suppressor_initial' \in BOOLEAN
          /\ early' \in BOOLEAN
      BY <1>1, PhasesStep
    <2>2. SizesInv' /\ peak' \in 0 .. Main - 1
      BY <1>1, SizesStep
    <2>3. /\ GainsInv' /\ LearnsOnlyWhenReady'
          /\ main_gain' \in GainType(Main) /\ shadow_gain' \in GainType(Shadow)
          /\ last' \in LastType
          /\ since' \in 0 .. Main + Shadow /\ coincided' \in BOOLEAN
      BY <1>1, GainsStep
    <2>4. phase' \in PhaseType
      BY <1>1, PhaseStep
    <2>5. gain_change_hangover_' \in 0 .. 2
      <3>1. gain_change_hangover_ \in 0 .. 2
        BY DEF IInv, TypeOK
      <3> QED
        BY <1>1, <3>1 DEF ProcessCapture
    <2>6. TypeOK'
      BY <2>1, <2>2, <2>3, <2>4, <2>5 DEF TypeOK, LastType
    <2>7. RampInv'
      BY <1>1, RampStep
    <2> QED
      BY <2>1, <2>2, <2>3, <2>6, <2>7 DEF IInv
  <1>2. CASE UNCHANGED vars
    BY <1>2 DEF vars, IInv, TypeOK, PhasesAgree, LearnsOnlyWhenReady, PhaseInv,
                SizesInv, GainsInv, RampInv, Reaches
  <1> QED
    BY <1>1, <1>2 DEF Next

\* The invariant holds in every state of the echo remover.
LEMMA Invariance == Spec => []IInv
  <1> QED
    BY InitIInv, NextIInv, PTL DEF Spec

-----------------------------------------------------------------------------
(* The theorems                                                            *)

\* The parts hold values of their types, for filters of any length: UpdateSize
\* never leaves the sizes between which it moves, and no gain counts past what
\* it compares with (echo_remover.cc, adaptive_fir_filter.cc).
THEOREM RemoverTypes == Spec => []TypeOK
  <1>1. IInv => TypeOK
    BY DEF IInv
  <1> QED
    BY <1>1, Invariance, PTL

\* ProcessCapture keeps the filters and the suppressor in one phase, for any
\* filter lengths, ramps and length of the initial phase.
THEOREM AgreeingPhases == Spec => []PhasesAgree
  <1>1. IInv => PhasesAgree
    BY DEF IInv
  <1> QED
    BY <1>1, Invariance, PTL

\* No filter learns from a saturated block, nor in any partition it updates from
\* the old echo path; but for the main filter after a gain change that came with
\* the delay change, and for the partitions that a ramp has just added when it
\* begins before the filter's full length of blocks has passed.
THEOREM ReadyLearning == Spec => []LearnsOnlyWhenReady
  <1>1. IInv => LearnsOnlyWhenReady
    BY DEF IInv
  <1> QED
    BY <1>1, Invariance, PTL

\* No block but a delay change's makes the main filter shorter than where its
\* peak was, as long as the ramp was not begun twice: the truncated averages of
\* one ramp do not descend, whatever the lengths of the filter and the ramp.
THEOREM PeakInside == Spec => PeakIsInside
  <1>1. IInv /\ [Next]_vars =>
          [MainInitial < Main /\ ~ early' => peak < main'.size \/ since' = 1]_vars
    BY SizesStep DEF Next
  <1> QED
    BY <1>1, Invariance, PTL DEF Spec, PeakIsInside

=============================================================================
