------------------------------ MODULE AecState ------------------------------
(***************************************************************************)
(* aec3/aec_state.cc: what the echo remover believes of the echo path.     *)
(* Once per capture block it is told of an echo path change, if there is   *)
(* one, and then of what the block showed: whether the render was active,  *)
(* the capture saturated, the adaptive filters converged or diverged and   *)
(* the filter looks consistent.  It decides whether the linear filter is   *)
(* usable, whether its delay is to be trusted, whether the initial phase   *)
(* is over and whether there is an echo at all (transparent mode).         *)
(*                                                                         *)
(* Five of its parts count the same thing, render blocks that were active  *)
(* while the capture was not saturated, each with a reset and a threshold  *)
(* of its own.  A counter is only compared with its threshold, so each one *)
(* stops just above it.  The estimators of ERL, ERLE and reverberation and *)
(* the echo saturation are numbers the parts modelled here do not read.    *)
(***************************************************************************)
EXTENDS InitialState

CONSTANTS
    DelayLimit,        \* 2 s: the filter's delay is trusted from here on
    StrongLimit,       \* 6 s: the filter should have converged by then
    StartLimit,        \* 0.4 s: the filter may be usable in a call
    ResetLimit,        \* 0.2 s: the filter may be usable after a reset
    SanityStart,       \* 5 s: until then a sane filter may yet be seen
    SanityLimit,       \* 30 s: a sane filter is remembered that long
    NonConvergedLimit, \* 20 s: the converged blocks are forgotten
    ActiveLimit,       \* 60 s of activity: a convergence is forgotten
    ConvergedLimit,    \* 50 blocks: that many converged ones show an echo
    DivergedLimit,     \* 60 blocks: that many diverged ones are a verdict
    Headroom,          \* delay_headroom_samples / kBlockSize
    FilterDelays,      \* delays (in blocks) the filter analyzer may find
    BoundedErl, LinearAndStable, UseLinearFilter  \* configuration

ASSUME LimitsAssumption ==
    /\ {StrongLimit, StartLimit, ResetLimit, SanityStart, SanityLimit,
        ConvergedLimit, DelayLimit, NonConvergedLimit, ActiveLimit} \subseteq Nat
    /\ DelayLimit <= StrongLimit
    /\ NonConvergedLimit <= ActiveLimit
    /\ DivergedLimit \in Nat \ {0}
ASSUME DelaysAssumption == Headroom \in Nat /\ FilterDelays \subseteq Nat
ASSUME FlagsAssumption ==
    {BoundedErl, LinearAndStable, UseLinearFilter} \subseteq BOOLEAN

VARIABLES
    phase,        \* initial_state_
    strong,       \* strong_not_saturated_render_blocks_
    delay_state_,
    transparent_state_,
    filter_quality_state_,
    clean         \* history: active blocks since the last delay change whose
                  \* capture really was not saturated

vars == <<phase, strong, delay_state_, transparent_state_,
          filter_quality_state_, clean>>

\* A counter that is only compared with limit.
Count(n, counts, limit) == IF counts /\ n <= limit THEN n + 1 ELSE n

\* History only: no threshold on the common count is above this one.
CleanLimit == DelayLimit + StrongLimit + ResetLimit + InitialLimit

Init ==
    /\ phase = NewPhase
    /\ strong = 0
    /\ delay_state_ = [known |-> FALSE, guessed |-> FALSE, min_delay |-> 0]
    /\ transparent_state_ =
         [active |-> FALSE, strong |-> 0, captures |-> 0,
          sane_observed |-> FALSE, since_sane |-> SanityLimit + 1,
          recent_convergence |-> FALSE, finite_erl |-> FALSE,
          non_converged |-> NonConvergedLimit + 1,
          active_non_converged |-> 0, num_converged |-> 0, diverged |-> 0]
    /\ filter_quality_state_ =
         [usable |-> FALSE, since_reset |-> 0, since_start |-> 0,
          convergence_seen |-> FALSE]
    /\ clean = 0

-----------------------------------------------------------------------------
(* HandleEchoPathChange for a delay change; a gain change only resets the  *)
(* ERLE estimator.                                                         *)

ResetTransparent(t) ==
    [t EXCEPT !.strong = 0, !.diverged = 0,
              !.non_converged = NonConvergedLimit + 1,
              !.recent_convergence = @ /\ ~ LinearAndStable]

\* Variant: the filter quality keeps its count over a delay change.
BugResetQuality(q) == [q EXCEPT !.usable = FALSE]

ResetQuality(q) == [q EXCEPT !.usable = FALSE, !.since_reset = 0]

-----------------------------------------------------------------------------
(* The parts of Update, in the order of the code.                          *)

\* FilterDelay::Update: while the filter may not have converged, a delay the
\* controller found places the echo at the headroom.
UpdateDelay(d, before, external, found) ==
    IF ~ UseLinearFilter THEN d
    ELSE LET known == d.known \/ external
             guessed == known /\ before < DelayLimit
         IN [known     |-> known,
             guessed   |-> guessed,
             min_delay |-> IF guessed THEN Headroom ELSE found]

\* TransparentMode::Update.
SaneRecently(observed, since_sane, captures) ==
    IF observed THEN since_sane <= SanityLimit ELSE captures <= SanityStart

\* Variant: the converged blocks are not forgotten.
BugNumConverged(t, converged, non_converged) ==
    Count(t.num_converged, converged, ConvergedLimit)

NumConverged(t, converged, non_converged) ==
    IF ~ converged /\ non_converged > NonConvergedLimit THEN 0
    ELSE Count(t.num_converged, converged, ConvergedLimit)

UpdateTransparent(t, sane, convergence, active, counts) ==
    LET converged == convergence = "converged"
        captures == Count(t.captures, TRUE, SanityStart)
        observed == t.sane_observed \/ sane
        since_sane == IF sane THEN 0 ELSE Count(t.since_sane, active, SanityLimit)
        non_converged ==
            IF converged THEN 0 ELSE Count(t.non_converged, TRUE, NonConvergedLimit)
        active_non_converged ==
            IF converged THEN 0
            ELSE Count(t.active_non_converged, active, ActiveLimit)
        num_converged == NumConverged(t, converged, non_converged)
        recent == \/ converged
                  \/ /\ t.recent_convergence
                     /\ active => active_non_converged <= ActiveLimit
        diverged == IF convergence = "diverged"
                      THEN Count(t.diverged, TRUE, DivergedLimit - 1) ELSE 0
        finite == \/ num_converged > ConvergedLimit
                  \/ t.finite_erl /\ active_non_converged <= ActiveLimit
        strong_ == Count(t.strong, counts, StrongLimit)
    IN [active |-> /\ ~ BoundedErl /\ ~ finite
                   /\ ~ (recent /\ SaneRecently(observed, since_sane, captures))
                   /\ strong_ > StrongLimit,
        strong |-> strong_,
        captures |-> captures,
        sane_observed |-> observed,
        since_sane |-> since_sane,
        recent_convergence |-> recent,
        finite_erl |-> finite,
        non_converged |-> IF diverged >= DivergedLimit
                            THEN NonConvergedLimit + 1 ELSE non_converged,
        active_non_converged |-> active_non_converged,
        num_converged |-> num_converged,
        diverged |-> diverged]

\* FilteringQualityAnalyzer::Update.
UpdateQuality(q, transparent, external, converged, counts) ==
    LET since_reset == Count(q.since_reset, counts, ResetLimit)
        since_start == Count(q.since_start, counts, StartLimit)
        seen == q.convergence_seen \/ converged
    IN [usable |-> /\ since_start > StartLimit /\ since_reset > ResetLimit
                   /\ external \/ seen
                   /\ ~ transparent,
        since_reset |-> since_reset,
        since_start |-> since_start,
        convergence_seen |-> seen]

-----------------------------------------------------------------------------
\* Variant: the filter quality is updated before the transparent mode.
BugTransparentSeen(old, new) == old.active

\* The transparent mode that the filter quality is given.
TransparentSeen(old, new) == new.active

\* A capture block: UpdateCaptureSaturation, HandleEchoPathChange if the echo
\* path changed, Update.  The full reset of a delay change also clears the
\* saturation that was just set.
Block(change, saturated, active, convergence, consistent, found, external) ==
    LET counts == active /\ ~ (saturated /\ ~ change)
        before == IF change THEN 0 ELSE strong
        t == IF change THEN ResetTransparent(transparent_state_)
             ELSE transparent_state_
        q == IF change THEN ResetQuality(filter_quality_state_)
             ELSE filter_quality_state_
    IN  /\ delay_state_' = UpdateDelay(delay_state_, before, external, found)
        /\ strong' = Count(before, counts, DelayLimit)
        /\ phase' = UpdatePhase(IF change THEN ResetPhase(phase) ELSE phase, counts)
        /\ transparent_state_' =
             UpdateTransparent(t, consistent /\ delay_state_'.min_delay < 5,
                               convergence, active, counts)
        /\ filter_quality_state_' =
             UpdateQuality(q, TransparentSeen(t, transparent_state_'), external,
                           convergence = "converged", counts)
        /\ clean' = Count(IF change THEN 0 ELSE clean, active /\ ~ saturated,
                          CleanLimit)

\* any_filter_converged and all_filters_diverged, which exclude each other.
Convergences == {"converged", "neither", "diverged"}

Next ==
    \E change, saturated, active, consistent, external \in BOOLEAN,
       convergence \in Convergences,
       found \in FilterDelays :
        Block(change, saturated, active, convergence, consistent, found, external)

Spec == Init /\ [][Next]_vars

-----------------------------------------------------------------------------
\* The parts hold values of their types.
TypeOK ==
    /\ phase \in PhaseType
    /\ strong \in 0 .. DelayLimit + 1
    /\ delay_state_ \in [known : BOOLEAN, guessed : BOOLEAN,
                         min_delay : FilterDelays \cup {0, Headroom}]
    /\ transparent_state_ \in
         [active : BOOLEAN, strong : 0 .. StrongLimit + 1,
          captures : 0 .. SanityStart + 1, sane_observed : BOOLEAN,
          since_sane : 0 .. SanityLimit + 1, recent_convergence : BOOLEAN,
          finite_erl : BOOLEAN, non_converged : 0 .. NonConvergedLimit + 1,
          active_non_converged : 0 .. ActiveLimit + 1,
          num_converged : 0 .. ConvergedLimit + 1, diverged : 0 .. DivergedLimit]
    /\ filter_quality_state_ \in
         [usable : BOOLEAN, since_reset : 0 .. ResetLimit + 1,
          since_start : 0 .. StartLimit + 1, convergence_seen : BOOLEAN]
    /\ clean \in 0 .. CleanLimit + 1

\* What a counter that stops at cap shows of a count n.
Shown(n, cap) == IF n < cap THEN n ELSE cap

\* The four counts of active, unsaturated render blocks, each reset at its own
\* place (aec_state.cc:134-143), show the same number; and it is the number of
\* such blocks since the last delay change, but for one saturated block that
\* the change itself may have let through.
CountsAgree ==
    \E n \in {clean, clean + 1} :
        /\ strong = Shown(n, DelayLimit + 1)
        /\ phase.count = Shown(n, InitialLimit)
        /\ transparent_state_.strong = Shown(n, StrongLimit + 1)
        /\ filter_quality_state_.since_reset = Shown(n, ResetLimit + 1)

\* The verdicts come in order: the filter's own delay is in use before the
\* transparent mode is entered and, with the usual lengths, before the initial
\* phase ends, which in turn ends before the transparent mode; and the linear
\* filter is never used for an echo path that was declared transparent.
PhasesInOrder ==
    /\ transparent_state_.active =>
         /\ ~ delay_state_.guessed
         /\ ~ filter_quality_state_.usable
         /\ InitialLimit <= StrongLimit => ~ phase.initial
    /\ ~ phase.initial /\ DelayLimit < InitialLimit => ~ delay_state_.guessed

\* Evidence of an echo expires: after ActiveLimit active blocks without a
\* convergence neither a recent convergence nor a finite echo return loss keeps
\* the transparent mode away.  num_converged_blocks_ would bring finite_erl
\* back; it is cleared by another count, one that delay changes and divergence
\* set forward and only a convergence sets back.
EvidenceExpires ==
    transparent_state_.active_non_converged > ActiveLimit =>
        /\ ~ transparent_state_.finite_erl
        /\ ~ transparent_state_.recent_convergence
        /\ transparent_state_.active <=>
             ~ BoundedErl /\ transparent_state_.strong > StrongLimit
=============================================================================
