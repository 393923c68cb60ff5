--------------------------- MODULE AecStateProofs ---------------------------
(***************************************************************************)
(* The four counts of aec_state.cc agree, its verdicts come in order and   *)
(* its evidence of an echo expires, for all limits in the order the code   *)
(* gives them and for every sequence of blocks and echo path changes.      *)
(***************************************************************************)
EXTENDS AecState, TLAPS

TransparentType ==
    [active : BOOLEAN, strong : 0 .. StrongLimit + 1,
     captures : 0 .. SanityStart + 1, sane_observed : BOOLEAN,
     since_sane : 0 .. SanityLimit + 1, recent_convergence : BOOLEAN,
     finite_erl : BOOLEAN, non_converged : 0 .. NonConvergedLimit + 1,
     active_non_converged : 0 .. ActiveLimit + 1,
     num_converged : 0 .. ConvergedLimit + 1, diverged : 0 .. DivergedLimit]

QualityType ==
    [usable : BOOLEAN, since_reset : 0 .. ResetLimit + 1,
     since_start : 0 .. StartLimit + 1, convergence_seen : BOOLEAN]

DelayType ==
    [known : BOOLEAN, guessed : BOOLEAN,
     min_delay : FilterDelays \cup {0, Headroom}]

\* What the two convergence counts of the transparent mode have in common:
\* the one over all blocks is never behind the one over active blocks, unless
\* it is past its limit, and no converged block outlives its limit.
Evidence(t) ==
    /\ \/ t.active_non_converged <= t.non_converged
       \/ t.non_converged > NonConvergedLimit
    /\ t.num_converged > 0 => t.active_non_converged <= NonConvergedLimit
    /\ t.recent_convergence => t.active_non_converged <= ActiveLimit
    /\ t.finite_erl => t.active_non_converged <= ActiveLimit

\* The verdict as it follows from the counts.
Verdict(t) ==
    /\ t.active => t.strong > StrongLimit
    /\ t.active_non_converged > ActiveLimit =>
         (t.active <=> ~ BoundedErl /\ t.strong > StrongLimit)

\* A guess is only made while the count is short; the initial phase is over
\* exactly when its count is complete, but for the state before any block.
Order ==
    /\ ~ UseLinearFilter => ~ delay_state_.guessed
    /\ delay_state_.guessed => strong <= DelayLimit
    /\ delay_state_.guessed /\ ~ phase.initial => InitialLimit <= DelayLimit
    /\ ~ phase.initial => phase.count = InitialLimit
    /\ transparent_state_.active =>
         /\ ~ filter_quality_state_.usable
         /\ phase.initial => phase.count < InitialLimit

IInv ==
    /\ TypeOK /\ CountsAgree /\ Order
    /\ Evidence(transparent_state_) /\ Verdict(transparent_state_)

-----------------------------------------------------------------------------
\* A capped counter counts on, and stays in its range.
LEMMA CountFacts ==
    ASSUME NEW limit \in Nat, NEW n \in 0 .. limit + 1, NEW b \in BOOLEAN
    PROVE  /\ Count(n, b, limit) \in 0 .. limit + 1
           /\ ~ b => Count(n, b, limit) = n
           /\ b => Count(n, b, limit) = IF n <= limit THEN n + 1 ELSE limit + 1
  BY DEF Count

\* Counting commutes with capping.
LEMMA ShownFacts ==
    ASSUME NEW limit \in Nat, NEW n \in Nat, NEW b \in BOOLEAN
    PROVE  /\ Shown(n, limit + 1) \in 0 .. limit + 1
           /\ Count(Shown(n, limit + 1), b, limit)
                = Shown(IF b THEN n + 1 ELSE n, limit + 1)
  BY DEF Count, Shown

\* TransparentMode::Update keeps its types, its evidence and its verdict.
LEMMA TransparentFacts ==
    ASSUME NEW t \in TransparentType, Evidence(t),
           NEW sane \in BOOLEAN, NEW active \in BOOLEAN, NEW counts \in BOOLEAN,
           NEW convergence \in Convergences
    PROVE  LET u == UpdateTransparent(t, sane, convergence, active, counts)
           IN  /\ u \in TransparentType /\ Evidence(u) /\ Verdict(u)
               /\ u.strong = Count(t.strong, counts, StrongLimit)
  <1>0. /\ StrongLimit \in Nat /\ SanityStart \in Nat /\ SanityLimit \in Nat
        /\ NonConvergedLimit \in Nat /\ ActiveLimit \in Nat
        /\ ConvergedLimit \in Nat /\ DivergedLimit \in Nat \ {0}
        /\ NonConvergedLimit <= ActiveLimit
    BY LimitsAssumption
  <1> DEFINE converged == convergence = "converged"
             captures == Count(t.captures, TRUE, SanityStart)
             observed == t.sane_observed \/ sane
             since == IF sane THEN 0 ELSE Count(t.since_sane, active, SanityLimit)
             non == IF converged THEN 0
                    ELSE Count(t.non_converged, TRUE, NonConvergedLimit)
             anon == IF converged THEN 0
                     ELSE Count(t.active_non_converged, active, ActiveLimit)
             num == NumConverged(t, converged, non)
             recent == \/ converged
                       \/ /\ t.recent_convergence
                          /\ active => anon <= ActiveLimit
             diverged == IF convergence = "diverged"
                           THEN Count(t.diverged, TRUE, DivergedLimit - 1) ELSE 0
             finite == \/ num > ConvergedLimit
                       \/ t.finite_erl /\ anon <= ActiveLimit
             strong_ == Count(t.strong, counts, StrongLimit)
             last == IF diverged >= DivergedLimit
                       THEN NonConvergedLimit + 1 ELSE non
             verdict == /\ ~ BoundedErl /\ ~ finite
                        /\ ~ (recent /\ SaneRecently(observed, since, captures))
                        /\ strong_ > StrongLimit
             u == UpdateTransparent(t, sane, convergence, active, counts)
  <1>1. u = [active |-> verdict, strong |-> strong_, captures |-> captures,
             sane_observed |-> observed, since_sane |-> since,
             recent_convergence |-> recent, finite_erl |-> finite,
             non_converged |-> last, active_non_converged |-> anon,
             num_converged |-> num, diverged |-> diverged]
    BY DEF UpdateTransparent
  <1>2. /\ t.strong \in 0 .. StrongLimit + 1
        /\ t.captures \in 0 .. SanityStart + 1
        /\ t.since_sane \in 0 .. SanityLimit + 1
        /\ t.non_converged \in 0 .. NonConvergedLimit + 1
        /\ t.active_non_converged \in 0 .. ActiveLimit + 1
        /\ t.num_converged \in 0 .. ConvergedLimit + 1
        /\ t.diverged \in 0 .. DivergedLimit
    BY DEF TransparentType
  <1>2a. t.recent_convergence \in BOOLEAN /\ t.finite_erl \in BOOLEAN
         /\ t.sane_observed \in BOOLEAN
    BY DEF TransparentType
  <1>2b. /\ Count(t.since_sane, active, SanityLimit) \in 0 .. SanityLimit + 1
         /\ Count(t.captures, TRUE, SanityStart) \in 0 .. SanityStart + 1
         /\ Count(t.strong, counts, StrongLimit) \in 0 .. StrongLimit + 1
    BY <1>0, <1>2, CountFacts
  <1>2c. /\ Count(t.non_converged, TRUE, NonConvergedLimit)
              = IF t.non_converged <= NonConvergedLimit
                  THEN t.non_converged + 1 ELSE NonConvergedLimit + 1
         /\ Count(t.non_converged, TRUE, NonConvergedLimit)
              \in 0 .. NonConvergedLimit + 1
    BY <1>0, <1>2, CountFacts
  <1>2d. /\ Count(t.active_non_converged, active, ActiveLimit) \in 0 .. ActiveLimit + 1
         /\ Count(t.active_non_converged, active, ActiveLimit)
              <= t.active_non_converged + 1
         /\ ~ active => Count(t.active_non_converged, active, ActiveLimit)
                          = t.active_non_converged
    BY <1>0, <1>2 DEF Count
  <1>2e. Count(t.num_converged, converged, ConvergedLimit) \in 0 .. ConvergedLimit + 1
    BY <1>0, <1>2, CountFacts
  <1>3. strong_ \in 0 .. StrongLimit + 1
    BY <1>2b
  <1>4. captures \in 0 .. SanityStart + 1
    BY <1>2b
  <1>5. since \in 0 .. SanityLimit + 1
    BY <1>0, <1>2b
  <1>6. /\ non \in 0 .. NonConvergedLimit + 1
        /\ ~ converged => non = IF t.non_converged <= NonConvergedLimit
                                 THEN t.non_converged + 1 ELSE NonConvergedLimit + 1
        /\ converged => non = 0
    <2> DEFINE c == Count(t.non_converged, TRUE, NonConvergedLimit)
    <2>1. non = IF converged THEN 0 ELSE c
      OBVIOUS
    <2> HIDE DEF c
    <2>2. /\ c \in 0 .. NonConvergedLimit + 1
          /\ c = IF t.non_converged <= NonConvergedLimit
                   THEN t.non_converged + 1 ELSE NonConvergedLimit + 1
      BY <1>2c DEF c
    <2> HIDE DEF converged, non
    <2>3. CASE converged
      BY <1>0, <2>1, <2>3
    <2>4. CASE ~ converged
      BY <2>1, <2>2, <2>4
    <2> QED
      BY <2>3, <2>4
  <1>7. /\ anon \in 0 .. ActiveLimit + 1
        /\ converged => anon = 0
        /\ ~ converged => anon <= t.active_non_converged + 1
        /\ ~ converged /\ ~ active => anon = t.active_non_converged
    BY <1>0, <1>2d
  <1>8. /\ num \in 0 .. ConvergedLimit + 1
        /\ ~ converged /\ num > 0 => non <= NonConvergedLimit
    <2> HIDE DEF non
    <2> QED
      BY <1>0, <1>2e, <1>6 DEF NumConverged
  <1>9. diverged \in 0 .. DivergedLimit
    BY <1>0, <1>2 DEF Count
  <1>10. last \in 0 .. NonConvergedLimit + 1 /\ (last = non \/ last > NonConvergedLimit)
    <2> HIDE DEF non, diverged
    <2> QED
      BY <1>0, <1>6
  <1> HIDE DEF strong_, captures, since, non, anon, num, diverged, last, u
  <1>11. anon <= last \/ last > NonConvergedLimit
    BY <1>0, <1>2, <1>6, <1>7, <1>10 DEF Evidence
  <1>12. num > 0 => anon <= NonConvergedLimit
    BY <1>0, <1>2, <1>6, <1>7, <1>8 DEF Evidence
  <1>13. recent => anon <= ActiveLimit
    BY <1>0, <1>2, <1>2a, <1>7 DEF Evidence
  <1>14. finite => anon <= ActiveLimit
    BY <1>0, <1>7, <1>8, <1>12
  <1>15. verdict \in BOOLEAN /\ recent \in BOOLEAN /\ finite \in BOOLEAN
         /\ observed \in BOOLEAN
    OBVIOUS
  <1>16. verdict => strong_ > StrongLimit
    OBVIOUS
  <1>17. anon > ActiveLimit => (verdict <=> ~ BoundedErl /\ strong_ > StrongLimit)
    <2>1. anon > ActiveLimit => ~ recent /\ ~ finite
      BY <1>0, <1>7, <1>13, <1>14
    <2> QED
      BY <2>1
  <1> HIDE DEF verdict, recent, finite, observed
  <1>18. u \in TransparentType
    BY <1>0, <1>1, <1>3, <1>4, <1>5, <1>7, <1>8, <1>9, <1>10, <1>15 DEF TransparentType
  <1>19. Evidence(u)
    BY <1>1, <1>11, <1>12, <1>13, <1>14 DEF Evidence
  <1>20. Verdict(u)
    BY <1>1, <1>16, <1>17 DEF Verdict
  <1> QED
    BY <1>1, <1>18, <1>19, <1>20 DEF strong_, u

\* Resetting the transparent mode keeps its types and its evidence.
LEMMA ResetTransparentFacts ==
    ASSUME NEW t \in TransparentType, Evidence(t)
    PROVE  /\ ResetTransparent(t) \in TransparentType
           /\ Evidence(ResetTransparent(t))
           /\ ResetTransparent(t).strong = 0
  <1> DEFINE r == ResetTransparent(t)
  <1>1. r = [t EXCEPT !.strong = 0, !.diverged = 0,
                      !.non_converged = NonConvergedLimit + 1,
                      !.recent_convergence = t.recent_convergence /\ ~ LinearAndStable]
    BY DEF ResetTransparent
  <1>2. StrongLimit \in Nat /\ NonConvergedLimit \in Nat /\ DivergedLimit \in Nat
    BY LimitsAssumption
  <1>3. /\ 0 \in 0 .. StrongLimit + 1 /\ 0 \in 0 .. DivergedLimit
        /\ NonConvergedLimit + 1 \in 0 .. NonConvergedLimit + 1
        /\ NonConvergedLimit + 1 > NonConvergedLimit
    BY <1>2
  <1>4. r \in TransparentType
    BY <1>1, <1>3 DEF TransparentType
  <1>5. /\ r.strong = 0
        /\ r.non_converged = NonConvergedLimit + 1
        /\ r.recent_convergence => t.recent_convergence
        /\ r.active_non_converged = t.active_non_converged
        /\ r.num_converged = t.num_converged
        /\ r.finite_erl = t.finite_erl
    BY <1>1 DEF TransparentType
  <1> HIDE DEF r
  <1>6. Evidence(r)
    BY <1>3, <1>5 DEF Evidence
  <1> QED
    BY <1>4, <1>5, <1>6 DEF r

\* The phase keeps its type; it is initial exactly while its count is short.
LEMMA PhaseFacts ==
    ASSUME NEW p \in PhaseType, NEW n \in Nat, p.count = Shown(n, InitialLimit),
           NEW counts \in BOOLEAN
    PROVE  /\ UpdatePhase(p, counts) \in PhaseType
           /\ UpdatePhase(p, counts).count
                = Shown(IF counts THEN n + 1 ELSE n, InitialLimit)
           /\ UpdatePhase(p, counts).initial
                <=> UpdatePhase(p, counts).count < InitialLimit
           /\ ResetPhase(p) \in PhaseType /\ ResetPhase(p).count = Shown(0, InitialLimit)
  <1> DEFINE count == IF counts /\ p.count < InitialLimit THEN p.count + 1 ELSE p.count
  <1>1. p.count \in 0 .. InitialLimit /\ p.initial \in BOOLEAN /\ p.triggered \in BOOLEAN
    BY DEF PhaseType
  <1>2. /\ count \in 0 .. InitialLimit
        /\ count = Shown(IF counts THEN n + 1 ELSE n, InitialLimit)
    BY <1>1, InitialLimitAssumption DEF Shown
  <1>3. UpdatePhase(p, counts) =
          [initial |-> count < InitialLimit,
           triggered |-> count >= InitialLimit /\ p.initial, count |-> count]
    BY DEF UpdatePhase
  <1>4. 0 \in 0 .. InitialLimit /\ Shown(0, InitialLimit) = 0
    BY InitialLimitAssumption DEF Shown
  <1> HIDE DEF count
  <1>5. UpdatePhase(p, counts) \in PhaseType
    BY <1>1, <1>2, <1>3 DEF PhaseType
  <1>6. ResetPhase(p) \in PhaseType /\ ResetPhase(p).count = 0
    BY <1>1, <1>4 DEF ResetPhase, PhaseType
  <1>7. /\ UpdatePhase(p, counts).count = count
        /\ UpdatePhase(p, counts).initial <=> count < InitialLimit
    <2> DEFINE short == count < InitialLimit
               triggered == count >= InitialLimit /\ p.initial
    <2>1. UpdatePhase(p, counts) =
            [initial |-> short, triggered |-> triggered, count |-> count]
      BY <1>3
    <2>2. short \in BOOLEAN
      OBVIOUS
    <2> HIDE DEF short, triggered
    <2>3. /\ UpdatePhase(p, counts).count = count
          /\ UpdatePhase(p, counts).initial = short
      BY <2>1
    <2> QED
      BY <2>3 DEF short
  <1>8. UpdatePhase(p, counts).initial <=> UpdatePhase(p, counts).count < InitialLimit
    BY <1>7, Zenon
  <1>9. UpdatePhase(p, counts).count = Shown(IF counts THEN n + 1 ELSE n, InitialLimit)
    BY <1>2, <1>7, Zenon
  <1>10. ResetPhase(p).count = Shown(0, InitialLimit)
    BY <1>4, <1>6
  <1> QED
    BY <1>5, <1>6, <1>8, <1>9, <1>10, Zenon

-----------------------------------------------------------------------------
(* The invariant                                                           *)

\* The common count n of the four parts.
Counts(n) ==
    /\ strong = Shown(n, DelayLimit + 1)
    /\ phase.count = Shown(n, InitialLimit)
    /\ transparent_state_.strong = Shown(n, StrongLimit + 1)
    /\ filter_quality_state_.since_reset = Shown(n, ResetLimit + 1)

\* Before any block nothing was counted and no verdict given.
LEMMA InitIInv == Init => IInv
  <1> SUFFICES ASSUME Init PROVE IInv
    OBVIOUS
  <1>0. /\ StrongLimit \in Nat /\ SanityStart \in Nat /\ SanityLimit \in Nat
        /\ NonConvergedLimit \in Nat /\ ActiveLimit \in Nat /\ StartLimit \in Nat
        /\ ConvergedLimit \in Nat /\ DivergedLimit \in Nat /\ DelayLimit \in Nat
        /\ ResetLimit \in Nat /\ InitialLimit \in Nat /\ CleanLimit \in Nat
    BY LimitsAssumption, InitialLimitAssumption DEF CleanLimit
  <1>1. TypeOK
    <2>1. phase \in PhaseType
      BY <1>0 DEF Init, NewPhase, PhaseType
    <2>2. transparent_state_ \in TransparentType
      BY <1>0 DEF Init, TransparentType
    <2>3. filter_quality_state_ \in QualityType
      BY <1>0 DEF Init, QualityType
    <2>4. delay_state_ \in DelayType
      BY DEF Init, DelayType
    <2>5. strong \in 0 .. DelayLimit + 1 /\ clean \in 0 .. CleanLimit + 1
      BY <1>0 DEF Init
    <2> QED
      BY <2>1, <2>2, <2>3, <2>4, <2>5
      DEF TypeOK, TransparentType, QualityType, DelayType
  <1>2. CountsAgree
    <2>1. /\ Shown(0, DelayLimit + 1) = 0 /\ Shown(0, InitialLimit) = 0
          /\ Shown(0, StrongLimit + 1) = 0 /\ Shown(0, ResetLimit + 1) = 0
      BY <1>0 DEF Shown
    <2> QED
      BY <2>1 DEF Init, CountsAgree, NewPhase
  <1>3. Order
    BY <1>0 DEF Init, Order, NewPhase
  <1>4. Evidence(transparent_state_)
    BY <1>0 DEF Init, Evidence
  <1>5. Verdict(transparent_state_)
    BY <1>0 DEF Init, Verdict
  <1> QED
    BY <1>1, <1>2, <1>3, <1>4, <1>5 DEF IInv

\* UpdateDelay keeps its type; a guess needs a short count.
LEMMA DelayFacts ==
    ASSUME NEW d \in DelayType, NEW before \in 0 .. DelayLimit + 1,
           NEW external \in BOOLEAN, NEW found \in FilterDelays
    PROVE  LET u == UpdateDelay(d, before, external, found)
           IN  /\ u \in DelayType
               /\ u.guessed => (d.guessed /\ u = d) \/ before < DelayLimit
               /\ UseLinearFilter => (u.guessed => before < DelayLimit)
               /\ ~ UseLinearFilter => u = d
  <1>1. CASE ~ UseLinearFilter
    BY <1>1 DEF UpdateDelay
  <1>2. CASE UseLinearFilter
    <2> DEFINE known == d.known \/ external
               guessed == known /\ before < DelayLimit
               min == IF guessed THEN Headroom ELSE found
    <2>1. UpdateDelay(d, before, external, found)
            = [known |-> known, guessed |-> guessed, min_delay |-> min]
      BY <1>2 DEF UpdateDelay
    <2>2. /\ known \in BOOLEAN /\ guessed \in BOOLEAN
          /\ min \in FilterDelays \cup {0, Headroom}
          /\ guessed => before < DelayLimit
      BY DEF DelayType
    <2> HIDE DEF known, guessed, min
    <2>3. UpdateDelay(d, before, external, found) \in DelayType
      BY <2>1, <2>2 DEF DelayType
    <2>4. UpdateDelay(d, before, external, found).guessed => before < DelayLimit
      BY <2>1, <2>2
    <2> QED
      BY <1>2, <2>3, <2>4
  <1> QED
    BY <1>1, <1>2, FlagsAssumption

\* UpdateQuality keeps its type and counts; what is usable is not transparent.
LEMMA QualityFacts ==
    ASSUME NEW q \in QualityType, NEW transparent \in BOOLEAN,
           NEW external \in BOOLEAN, NEW converged \in BOOLEAN,
           NEW counts \in BOOLEAN
    PROVE  LET u == UpdateQuality(q, transparent, external, converged, counts)
           IN  /\ u \in QualityType
               /\ u.since_reset = Count(q.since_reset, counts, ResetLimit)
               /\ u.usable => ~ transparent
               /\ ResetQuality(q) \in QualityType
               /\ ResetQuality(q).since_reset = 0
  <1> DEFINE reset == Count(q.since_reset, counts, ResetLimit)
             start == Count(q.since_start, counts, StartLimit)
             seen == q.convergence_seen \/ converged
             usable == /\ start > StartLimit /\ reset > ResetLimit
                       /\ external \/ seen
                       /\ ~ transparent
  <1>0. ResetLimit \in Nat /\ StartLimit \in Nat
    BY LimitsAssumption
  <1>1. /\ q.since_reset \in 0 .. ResetLimit + 1
        /\ q.since_start \in 0 .. StartLimit + 1
        /\ q.convergence_seen \in BOOLEAN
    BY DEF QualityType
  <1>2. reset \in 0 .. ResetLimit + 1 /\ start \in 0 .. StartLimit + 1
    BY <1>0, <1>1, CountFacts
  <1>3. seen \in BOOLEAN /\ usable \in BOOLEAN /\ (usable => ~ transparent)
    BY <1>1
  <1>4. UpdateQuality(q, transparent, external, converged, counts)
          = [usable |-> usable, since_reset |-> reset, since_start |-> start,
             convergence_seen |-> seen]
    BY DEF UpdateQuality
  <1>5. ResetQuality(q) \in QualityType /\ ResetQuality(q).since_reset = 0
    <2>1. 0 \in 0 .. ResetLimit + 1
      BY <1>0
    <2> QED
      BY <2>1 DEF ResetQuality, QualityType
  <1> HIDE DEF reset, start, seen, usable
  <1>6. UpdateQuality(q, transparent, external, converged, counts) \in QualityType
    BY <1>2, <1>3, <1>4 DEF QualityType
  <1>7. /\ UpdateQuality(q, transparent, external, converged, counts).since_reset = reset
        /\ UpdateQuality(q, transparent, external, converged, counts).usable
             => ~ transparent
    BY <1>3, <1>4
  <1> QED
    BY <1>5, <1>6, <1>7 DEF reset

\* A block keeps the invariant.
LEMMA BlockIInv ==
    ASSUME IInv,
           NEW change \in BOOLEAN, NEW saturated \in BOOLEAN,
           NEW active \in BOOLEAN, NEW consistent \in BOOLEAN,
           NEW external \in BOOLEAN,
           NEW convergence \in Convergences,
           NEW found \in FilterDelays,
           Block(change, saturated, active, convergence, consistent, found, external)
    PROVE  IInv'
  <1> DEFINE counts == active /\ ~ (saturated /\ ~ change)
             before == IF change THEN 0 ELSE strong
             t == IF change THEN ResetTransparent(transparent_state_)
                  ELSE transparent_state_
             q == IF change THEN ResetQuality(filter_quality_state_)
                  ELSE filter_quality_state_
             p == IF change THEN ResetPhase(phase) ELSE phase
             sane == consistent /\ delay_state_'.min_delay < 5
  <1>0. /\ StrongLimit \in Nat /\ DelayLimit \in Nat /\ DelayLimit <= StrongLimit
        /\ ResetLimit \in Nat /\ InitialLimit \in Nat /\ CleanLimit \in Nat
        /\ StrongLimit <= CleanLimit /\ DelayLimit <= CleanLimit
        /\ ResetLimit <= CleanLimit /\ InitialLimit <= CleanLimit
    BY LimitsAssumption, InitialLimitAssumption DEF CleanLimit
  <1>1. /\ phase \in PhaseType /\ transparent_state_ \in TransparentType
        /\ filter_quality_state_ \in QualityType /\ delay_state_ \in DelayType
        /\ strong \in 0 .. DelayLimit + 1 /\ clean \in 0 .. CleanLimit + 1
    BY DEF IInv, TypeOK, TransparentType, QualityType, DelayType
  <1>2. PICK n \in {clean, clean + 1} : Counts(n)
    BY DEF IInv, CountsAgree, Counts
  <1> DEFINE m == IF change THEN 0 ELSE n
             k == IF counts THEN m + 1 ELSE m
  <1>3. n \in Nat /\ m \in Nat /\ k \in Nat /\ counts \in BOOLEAN /\ sane \in BOOLEAN
    BY <1>0, <1>1
  <1>4. /\ before = Shown(m, DelayLimit + 1)
        /\ p \in PhaseType /\ p.count = Shown(m, InitialLimit)
        /\ t \in TransparentType /\ Evidence(t) /\ t.strong = Shown(m, StrongLimit + 1)
        /\ q \in QualityType /\ q.since_reset = Shown(m, ResetLimit + 1)
    <2>1. CASE change
      <3>1. /\ Shown(0, DelayLimit + 1) = 0 /\ Shown(0, InitialLimit) = 0
            /\ Shown(0, StrongLimit + 1) = 0 /\ Shown(0, ResetLimit + 1) = 0
        BY <1>0 DEF Shown
      <3>2. ResetPhase(phase) \in PhaseType /\ ResetPhase(phase).count = 0
        BY <1>1, <1>2, <1>3, <3>1, PhaseFacts DEF Counts
      <3>3. /\ ResetTransparent(transparent_state_) \in TransparentType
            /\ Evidence(ResetTransparent(transparent_state_))
            /\ ResetTransparent(transparent_state_).strong = 0
        BY <1>1, ResetTransparentFacts DEF IInv
      <3>4. /\ ResetQuality(filter_quality_state_) \in QualityType
            /\ ResetQuality(filter_quality_state_).since_reset = 0
        BY <1>1, QualityFacts
      <3> QED
        BY <2>1, <3>1, <3>2, <3>3, <3>4
    <2>2. CASE ~ change
      BY <2>2, <1>1, <1>2 DEF Counts, IInv
    <2> QED
      BY <2>1, <2>2
  <1>5. before \in 0 .. DelayLimit + 1
    BY <1>0, <1>1
  <1>6. /\ delay_state_' = UpdateDelay(delay_state_, before, external, found)
        /\ strong' = Count(before, counts, DelayLimit)
        /\ phase' = UpdatePhase(p, counts)
        /\ transparent_state_' =
             UpdateTransparent(t, sane, convergence, active, counts)
        /\ filter_quality_state_' =
             UpdateQuality(q, transparent_state_'.active, external,
                           convergence = "converged", counts)
        /\ clean' = Count(IF change THEN 0 ELSE clean, active /\ ~ saturated, CleanLimit)
    BY DEF Block, TransparentSeen
  <1>7. (active /\ ~ saturated) \in BOOLEAN /\ (~ change => counts = (active /\ ~ saturated))
    OBVIOUS
  <1>8. ~ counts => ~ (active /\ ~ saturated)
    OBVIOUS
  <1> DEFINE c == IF change THEN 0 ELSE clean
             adds == active /\ ~ saturated
  <1>9. /\ c \in 0 .. CleanLimit + 1 /\ (m = c \/ m = c + 1) /\ (change => m = c)
    BY <1>0, <1>1, <1>2, <1>3
  <1> HIDE DEF counts, before, t, q, p, sane, m, adds, c
  <1>10. /\ strong' = Shown(k, DelayLimit + 1)
         /\ strong' \in 0 .. DelayLimit + 1
    <2>1. Count(Shown(m, DelayLimit + 1), counts, DelayLimit) = Shown(k, DelayLimit + 1)
      BY <1>0, <1>3, ShownFacts, Zenon
    <2>2. Shown(k, DelayLimit + 1) \in 0 .. DelayLimit + 1
      BY <1>0, <1>3 DEF Shown
    <2> QED
      BY <1>4, <1>6, <2>1, <2>2, Zenon
  <1>11. /\ phase' \in PhaseType /\ phase'.count = Shown(k, InitialLimit)
         /\ phase'.initial <=> phase'.count < InitialLimit
    BY <1>3, <1>4, <1>6, PhaseFacts, Zenon
  <1>12. /\ transparent_state_' \in TransparentType
         /\ Evidence(transparent_state_') /\ Verdict(transparent_state_')
         /\ transparent_state_'.strong = Count(t.strong, counts, StrongLimit)
    <2>1. /\ t \in TransparentType /\ Evidence(t)
          /\ sane \in BOOLEAN /\ active \in BOOLEAN /\ counts \in BOOLEAN
          /\ convergence \in Convergences
      BY <1>3, <1>4
    <2>2. transparent_state_' = UpdateTransparent(t, sane, convergence, active, counts)
      BY <1>6
    <2> DEFINE w == UpdateTransparent(t, sane, convergence, active, counts)
    <2>3. /\ w \in TransparentType /\ Evidence(w) /\ Verdict(w)
          /\ w.strong = Count(t.strong, counts, StrongLimit)
      BY <2>1, TransparentFacts
    <2> HIDE DEF w
    <2>4. transparent_state_' = w
      BY <2>2 DEF w
    <2> QED
      BY <2>3, <2>4
  <1>13. transparent_state_'.strong = Shown(k, StrongLimit + 1)
    BY <1>0, <1>3, <1>4, <1>12, ShownFacts, Zenon
  <1>14. /\ transparent_state_'.active \in BOOLEAN
         /\ (convergence = "converged") \in BOOLEAN
    BY <1>12 DEF TransparentType
  <1>15. /\ filter_quality_state_' \in QualityType
         /\ filter_quality_state_'.since_reset = Count(q.since_reset, counts, ResetLimit)
         /\ filter_quality_state_'.usable => ~ transparent_state_'.active
    <2> DEFINE transparent == transparent_state_'.active
               converged == convergence = "converged"
               w == UpdateQuality(q, transparent, external, converged, counts)
    <2>1. /\ transparent \in BOOLEAN /\ converged \in BOOLEAN
          /\ q \in QualityType /\ counts \in BOOLEAN
      BY <1>3, <1>4, <1>14
    <2>2. filter_quality_state_' = w
      BY <1>6
    <2> HIDE DEF transparent, converged
    <2>3. /\ w \in QualityType
          /\ w.since_reset = Count(q.since_reset, counts, ResetLimit)
          /\ w.usable => ~ transparent
      BY <2>1, QualityFacts
    <2> HIDE DEF w
    <2> QED
      BY <2>2, <2>3 DEF transparent
  <1>16. filter_quality_state_'.since_reset = Shown(k, ResetLimit + 1)
    BY <1>0, <1>3, <1>4, <1>15, ShownFacts, Zenon
  <1>17. /\ delay_state_' \in DelayType
         /\ UseLinearFilter => (delay_state_'.guessed => before < DelayLimit)
         /\ ~ UseLinearFilter => delay_state_' = delay_state_
    BY <1>1, <1>5, <1>6, DelayFacts
  <1>18. clean' = Count(c, adds, CleanLimit)
    BY <1>6 DEF c, adds
  <1>19. /\ ~ change => (counts <=> adds)
         /\ adds => counts
         /\ change => c = 0
    BY <1>7, <1>8 DEF adds, c
  <1>20. clean' \in 0 .. CleanLimit + 1
    BY <1>0, <1>9, <1>18 DEF Count
  <1>21. CountsAgree'
    <2>1. CASE c <= CleanLimit
      <3>1. clean' = IF adds THEN c + 1 ELSE c
        BY <2>1, <1>18 DEF Count
      <3>2. k \in {clean', clean' + 1}
        BY <3>1, <1>3, <1>9, <1>19
      <3> QED
        BY <3>2, <1>10, <1>11, <1>13, <1>16 DEF CountsAgree
    <2>2. CASE c = CleanLimit + 1
      <3>1. clean' = CleanLimit + 1
        BY <2>2, <1>0, <1>18 DEF Count
      <3>2. k \in Nat /\ k >= CleanLimit + 1
        BY <2>2, <1>0, <1>3, <1>9
      <3>3. /\ Shown(k, DelayLimit + 1) = Shown(clean', DelayLimit + 1)
            /\ Shown(k, InitialLimit) = Shown(clean', InitialLimit)
            /\ Shown(k, StrongLimit + 1) = Shown(clean', StrongLimit + 1)
            /\ Shown(k, ResetLimit + 1) = Shown(clean', ResetLimit + 1)
        BY <3>1, <3>2, <1>0 DEF Shown
      <3> QED
        BY <3>3, <1>10, <1>11, <1>13, <1>16 DEF CountsAgree
    <2> QED
      BY <2>1, <2>2, <1>0, <1>9
  <1>22. TypeOK'
    BY <1>10, <1>11, <1>12, <1>15, <1>17, <1>20
    DEF TypeOK, TransparentType, QualityType, DelayType
  <1>23. Order'
    <2>1. /\ ~ UseLinearFilter => ~ delay_state_'.guessed
          /\ delay_state_'.guessed => before < DelayLimit
      BY <1>17, FlagsAssumption DEF IInv, Order
    <2>2. before < DelayLimit => strong' <= DelayLimit /\ k <= DelayLimit
      BY <1>0, <1>3, <1>4, <1>5, <1>6 DEF Count, Shown
    <2>3. ~ phase'.initial => phase'.count = InitialLimit /\ k >= InitialLimit
      BY <1>0, <1>3, <1>11 DEF Shown
    <2>4. k <= DelayLimit /\ k >= InitialLimit => InitialLimit <= DelayLimit
      BY <1>0, <1>3
    <2> QED
      BY <2>1, <2>2, <2>3, <2>4, <1>11, <1>15 DEF Order
  <1> QED
    BY <1>12, <1>21, <1>22, <1>23 DEF IInv

\* Every step keeps the invariant.
LEMMA NextIInv == IInv /\ [Next]_vars => IInv'
  <1>1. ASSUME IInv, Next PROVE IInv'
    BY <1>1, BlockIInv DEF Next
  <1>2. ASSUME IInv, UNCHANGED vars PROVE IInv'
    BY <1>2 DEF vars, IInv, TypeOK, CountsAgree, Order, Evidence, Verdict
  <1> QED
    BY <1>1, <1>2

-----------------------------------------------------------------------------
(* What follows from it                                                    *)

\* The transparent mode needs the longest count, and the initial phase and the
\* guesses of the delay need shorter ones.
LEMMA IInvOrder == IInv => PhasesInOrder
  <1> SUFFICES ASSUME IInv PROVE PhasesInOrder
    OBVIOUS
  <1>1. /\ StrongLimit \in Nat /\ DelayLimit \in Nat /\ DelayLimit <= StrongLimit
        /\ InitialLimit \in Nat /\ CleanLimit \in Nat
    BY LimitsAssumption, InitialLimitAssumption DEF CleanLimit
  <1>2. PICK n \in {clean, clean + 1} : Counts(n)
    BY DEF IInv, CountsAgree, Counts
  <1>3. n \in Nat
    BY <1>1, <1>2 DEF IInv, TypeOK
  <1>4. transparent_state_.active => n > StrongLimit
    BY <1>1, <1>2, <1>3 DEF IInv, Verdict, Counts, Shown
  <1>5. n > StrongLimit => strong > DelayLimit
    BY <1>1, <1>2, <1>3 DEF Counts, Shown
  <1>6. n > StrongLimit /\ InitialLimit <= StrongLimit => phase.count = InitialLimit
    BY <1>1, <1>2, <1>3 DEF Counts, Shown
  <1>7. strong \in Nat /\ Order
    BY <1>1 DEF IInv, TypeOK
  <1> QED
    BY <1>1, <1>4, <1>5, <1>6, <1>7 DEF PhasesInOrder, Order

\* An expired convergence count leaves no evidence.
LEMMA IInvExpires == IInv => EvidenceExpires
  <1> SUFFICES ASSUME IInv PROVE EvidenceExpires
    OBVIOUS
  <1>1. ActiveLimit \in Nat /\ transparent_state_.active_non_converged \in Nat
    BY LimitsAssumption DEF IInv, TypeOK
  <1> QED
    BY <1>1 DEF IInv, Evidence, Verdict, EvidenceExpires

\* The four counts of active, unsaturated render blocks agree with each other
\* and with the blocks since the last delay change.
THEOREM AgreeingCounts == Spec => []CountsAgree
  <1>1. IInv => CountsAgree
    BY DEF IInv
  <1> QED
    BY InitIInv, NextIInv, <1>1, PTL DEF Spec

\* The verdicts are given in order, for every configuration of the limits.
THEOREM OrderedVerdicts == Spec => []PhasesInOrder
  BY InitIInv, NextIInv, IInvOrder, PTL DEF Spec

\* No evidence of an echo outlives its limit.
THEOREM ExpiringEvidence == Spec => []EvidenceExpires
  BY InitIInv, NextIInv, IInvExpires, PTL DEF Spec

\* Type correctness.
THEOREM AecStateTypes == Spec => []TypeOK
  <1>1. IInv => TypeOK
    BY DEF IInv
  <1> QED
    BY InitIInv, NextIInv, <1>1, PTL DEF Spec
=============================================================================
