----------------------------- MODULE EchoRemover -----------------------------
(***************************************************************************)
(* aec3/echo_remover.cc: ProcessCapture leads the echo path changes and    *)
(* the end of the initial phase (InitialState, inside aec_state.cc) to the *)
(* subtractor with its main and shadow filters, to the filter analyzer and *)
(* to the suppression gain, in one order for every capture block.          *)
(*                                                                         *)
(* Every capture channel runs the same code on filters and gains of its    *)
(* own: the model follows one.  The coefficients and spectra are left out; *)
(* what they lead to is chosen: whether the render excites the filter,     *)
(* whether the main filter was misadjusted, where its peak lies.  So is    *)
(* the copying of the main filter into a poor shadow filter, which changes *)
(* neither sizes nor counters.                                             *)
(***************************************************************************)
EXTENDS InitialState

CONSTANTS
    MainInitial, Main,      \* filter.main_initial and main .length_blocks
    ShadowInitial, Shadow,  \* filter.shadow_initial and shadow .length_blocks
    ChangeBlocks            \* filter.config_change_duration_blocks

\* The sizes are as Validate makes them.  It lets a change take 0 blocks, which
\* the constructor of the filter refuses (adaptive_fir_filter.cc:491).
ASSUME SizesAssumption ==
    /\ Main \in Nat /\ MainInitial \in 1 .. Main
    /\ Shadow \in Nat /\ ShadowInitial \in 1 .. Shadow
ASSUME ChangeBlocksAssumption == ChangeBlocks \in Nat \ {0}

VARIABLES
    phase,                 \* aec_state_'s initial_state_
    gain_change_hangover_,
    suppressor_initial,    \* suppression_gain_'s initial_state_
    main, shadow,          \* the adaptive filters
    main_gain, shadow_gain,
    peak,                  \* block of the filter analyzer's peak_index
    last,                  \* history: the last block, and what it updated of
                           \* which filter
    since,                 \* history: blocks since the last delay change
    coincided,             \* history: that change came with a gain change
    early                  \* history: it came as the initial phase had ended

vars == <<phase, gain_change_hangover_, suppressor_initial, main, shadow,
          main_gain, shadow_gain, peak, last, since, coincided, early>>

UpTo(n, limit) == IF n <= limit THEN n ELSE limit

-----------------------------------------------------------------------------
(* AdaptiveFirFilter: the current size moves from old_target to target     *)
(* over ChangeBlocks blocks.                                               *)

Filter(size) == [size |-> size, old_target |-> size, target |-> size, counter |-> 0]

\* SetSizePartitions with immediate_effect FALSE; with TRUE it is Filter(size).
SetSizePartitions(f, size) == [f EXCEPT !.target = size, !.counter = ChangeBlocks]

\* The weighted average of two sizes, computed in float and truncated: an
\* average that is a whole number may come out just below it.
Averages(from, to, counter, max) ==
    LET sum == from * counter + to * (ChangeBlocks - counter)
    IN {n \in 1 .. max : /\ n * ChangeBlocks <= sum
                         /\ sum <= (n + 1) * ChangeBlocks
                         /\ counter = 0 => sum # (n + 1) * ChangeBlocks}

\* UpdateSize, called by every Adapt.
UpdateSize(f, max) ==
    IF f.counter > 0
      THEN {[f EXCEPT !.size = n, !.counter = f.counter - 1] :
              n \in Averages(f.old_target, f.target, f.counter - 1, max)}
      ELSE {[f EXCEPT !.size = f.target, !.old_target = f.target]}

-----------------------------------------------------------------------------
(* MainFilterUpdateGain and ShadowFilterUpdateGain: blocks seen and blocks *)
(* since the excitation was poor, each only compared with the filter size. *)

PoorInitial == 1000    \* kPoorExcitationCounterInitial
NewMainGain == [calls |-> 0, poor |-> UpTo(PoorInitial, Main)]

\* HandleEchoPathChange of the main gain, which a gain change disarms.
ResetMainGain(g, acted) == IF acted THEN g ELSE NewMainGain

\* Variant: a delay change leaves the shadow gain's calls.
BugResetShadowGain(g) == [g EXCEPT !.poor = 0]

ResetShadowGain(g) == [calls |-> 0, poor |-> 0]

\* The counters after a Compute.
Counted(g, poorly, max) ==
    [calls |-> UpTo(g.calls + 1, max + 1),
     poor  |-> UpTo((IF poorly THEN 0 ELSE g.poor) + 1, max)]

\* The partitions that Compute is asked for, and those that Adapt then updates:
\* UpdateSize comes first, and the same gain goes to the partitions it has added.
None == [asked |-> 0, adapted |-> 0]
Updated(g, asked, grown, saturated) ==
    IF g.poor >= asked /\ ~ saturated /\ g.calls > asked
      THEN [asked |-> asked, adapted |-> grown]
      ELSE None

-----------------------------------------------------------------------------
Init ==
    /\ phase = NewPhase
    /\ gain_change_hangover_ = 0
    /\ suppressor_initial = TRUE
    /\ main = Filter(MainInitial)
    /\ shadow = Filter(ShadowInitial)
    /\ main_gain = NewMainGain
    /\ shadow_gain = [calls |-> 0, poor |-> 0]
    /\ peak = 0
    /\ last = [saturated |-> FALSE, main |-> None, shadow |-> None]
    /\ since = 0
    /\ coincided = FALSE
    /\ early = FALSE

\* Variant: a delay change does not set the suppressor back.
BugSuppressorInitial(change, exits) == suppressor_initial /\ ~ exits

\* SetInitialState of the suppression gain, on a delay change and then on the
\* end of the initial phase.
SuppressorInitial(change, exits) == (change \/ suppressor_initial) /\ ~ exits

\* Variant: the filter analyzer keeps its peak over a delay change.
BugPeakBefore(change) == peak

\* FilterAnalyzer::Reset.
PeakBefore(change) == IF change THEN 0 ELSE peak

\* A new analysis keeps the peak or moves it within the filter.
FindPeak(before, size) == {before} \cup 0 .. size - 1

\* The filters when Subtractor::Process is called.
Prepared(f, initial, final, change, exits) ==
    LET g == IF change THEN Filter(initial) ELSE f
    IN IF exits THEN SetSizePartitions(g, final) ELSE g

\* ProcessCapture.
ProcessCapture(change, gain, saturated, active, poorly, misadjusted) ==
    LET acted == gain /\ gain_change_hangover_ = 0
        \* AecState::HandleEchoPathChange clears the saturation set before it.
        seen == saturated /\ ~ change
        told == IF change THEN ResetPhase(phase) ELSE phase
        exits == told.triggered
        m == Prepared(main, MainInitial, Main, change, exits)
        s == Prepared(shadow, ShadowInitial, Shadow, change, exits)
        mg == IF change THEN ResetMainGain(main_gain, acted) ELSE main_gain
        sg == IF change THEN ResetShadowGain(shadow_gain) ELSE shadow_gain
    IN  /\ gain_change_hangover_' =
             LET h == IF acted THEN 3 ELSE gain_change_hangover_
             IN IF h > 0 THEN h - 1 ELSE h
        /\ suppressor_initial' = SuppressorInitial(change, exits)
        /\ main_gain' = IF misadjusted THEN mg ELSE Counted(mg, poorly, Main)
        /\ shadow_gain' = Counted(sg, poorly, Shadow)
        /\ main' \in UpdateSize(m, Main)
        /\ shadow' \in UpdateSize(s, Shadow)
        /\ peak' \in FindPeak(PeakBefore(change), main'.size)
        /\ phase' = UpdatePhase(told, active /\ ~ seen)
        /\ last' = [saturated |-> saturated,
                    main   |-> IF misadjusted THEN None
                               ELSE Updated(main_gain', m.size, main'.size, seen),
                    shadow |-> Updated(shadow_gain', s.size, shadow'.size, seen)]
        /\ since' = UpTo((IF change THEN 0 ELSE since) + 1, Main + Shadow)
        /\ coincided' = IF change THEN acted ELSE coincided
        /\ early' = IF change THEN exits ELSE early

Next ==
    \E change, gain, saturated, active, poorly, misadjusted \in BOOLEAN :
        ProcessCapture(change, gain, saturated, active, poorly, misadjusted)

Spec == Init /\ [][Next]_vars

-----------------------------------------------------------------------------
FilterType(max) ==
    [size : 1 .. max, old_target : 1 .. max, target : 1 .. max,
     counter : 0 .. ChangeBlocks]
GainType(max) == [calls : 0 .. max + 1, poor : 0 .. max]
UpdateType(max) == [asked : 0 .. max, adapted : 0 .. max]

\* The parts hold values of their types: no filter grows past its maximum or
\* shrinks to nothing.
TypeOK ==
    /\ phase \in PhaseType
    /\ gain_change_hangover_ \in 0 .. 2
    /\ suppressor_initial \in BOOLEAN
    /\ main \in FilterType(Main)
    /\ shadow \in FilterType(Shadow)
    /\ main_gain \in GainType(Main)
    /\ shadow_gain \in GainType(Shadow)
    /\ peak \in 0 .. Main - 1
    /\ last \in [saturated : BOOLEAN, main : UpdateType(Main), shadow : UpdateType(Shadow)]
    /\ since \in 0 .. Main + Shadow
    /\ coincided \in BOOLEAN
    /\ early \in BOOLEAN

\* The phase of a filter: it heads for one size and is there when its counter
\* has run down.
InPhase(f, size) == f.target = size /\ (f.counter = 0 => f.size = size)

\* Both filters and the suppressor are in the same phase.  They are in the
\* refined one once the initial phase is over, but for the block between its
\* end and the ExitInitialState that answers it; and in the initial one before
\* that, unless the last delay change met a pending ExitInitialState: Reset
\* leaves transition_triggered_ set (aec_state.cc:288), and ProcessCapture then
\* ends the phase it has just begun.
PhasesAgree ==
    /\ InPhase(main, IF suppressor_initial THEN MainInitial ELSE Main)
    /\ InPhase(shadow, IF suppressor_initial THEN ShadowInitial ELSE Shadow)
    /\ ~ phase.initial => suppressor_initial = (phase.triggered /\ ~ early)
    /\ phase.initial => suppressor_initial = ~ early

\* A delay change was longer ago than the partitions of an update reach back.
\* When the filter is lengthened before its full length of blocks has passed (the
\* change met a pending ExitInitialState, or the initial phase is that short)
\* this holds of the partitions the gain was computed for, not of those that
\* UpdateSize added just before the update (adaptive_fir_filter.cc:614).
Reaches(update, max) ==
    since > (IF early \/ InitialLimit < max THEN update.asked ELSE update.adapted)

\* No filter learns from a saturated block, nor from the echo path before a
\* delay change: until the partitions it updates have seen render from after the
\* change it stands still.  The exception is a delay change together with a
\* gain change, which leaves the main filter's counters running
\* (main_filter_update_gain.cc:63) and hides the saturation of its own block.
LearnsOnlyWhenReady ==
    /\ last.shadow # None => ~ last.saturated /\ Reaches(last.shadow, Shadow)
    /\ last.main # None => \/ ~ last.saturated /\ Reaches(last.main, Main)
                           \/ coincided /\ (last.saturated => since = 1)

\* Where the analyzer remembers a peak there is a filter: nothing but a delay
\* change, which forgets the peak, makes the main filter shorter
\* (filter_analyzer.cc:119).  A ramp begun too early is the exception.
PeakIsInside ==
    [][MainInitial < Main /\ ~ early' => peak < main'.size \/ since' = 1]_vars

\* The assertion itself: "RTC_DCHECK_LT(filter_analysis_states_[ch].peak_index,
\* filters_time_domain[0].size());" (filter_analyzer.cc:119).
PeakAlwaysInside == [][peak < main'.size \/ since' = 1]_vars
=============================================================================
