--------------------------- MODULE DelayController ---------------------------
(***************************************************************************)
(* What the render delay controller promises: the echo's lag is the most   *)
(* frequent of the last reliable lags, found once it is frequent enough,   *)
(* and the render signal is delayed by no more than that lag.  Neither     *)
(* rings nor counts, nor the order in which parts are reset, show.         *)
(***************************************************************************)
EXTENDS Integers, Sequences, FiniteSets

CONSTANTS
    Lags,                 \* the lags that can be observed
    WindowSize,           \* how many of them count
    Initial, Converged,   \* a lag more frequent than this is found
    Hysteresis,           \* how much the delay may fall behind the lag
    Blocks(_),            \* the delay a lag asks for
    Unset                 \* none

VARIABLES
    window,     \* the last lags, oldest first
    confident,  \* whether a lag was ever more frequent than Converged
    lag,        \* the lag in use
    delay       \* the delay in use

Init == window = <<>> /\ confident = FALSE /\ lag = Unset /\ delay = Unset

Occurrences(w, l) == Cardinality({k \in DOMAIN w : w[k] = l})

\* The most frequent lags of a window.
Modes(w) == {l \in Lags : \A o \in Lags : Occurrences(w, o) <= Occurrences(w, l)}

Slid(best) ==
    IF Len(window) < WindowSize THEN Append(window, best)
                                ELSE Append(Tail(window), best)

\* The delay follows the lag, downwards at once.
Follow ==
    IF lag' = Unset THEN delay' = Unset
    ELSE \/ delay' = Blocks(lag')
         \/ /\ delay # Unset
            /\ Blocks(lag') \in delay + 1 .. delay + Hysteresis
            /\ UNCHANGED delay

Observe(best) ==
    LET slid == Slid(best)
    IN  /\ window' = slid
        /\ \E mode \in Modes(slid) :
             LET count == Occurrences(slid, mode)
             IN  /\ confident' = (confident \/ count > Converged)
                 /\ lag' = IF count > (IF confident' THEN Converged ELSE Initial)
                             THEN mode ELSE lag
        /\ Follow

Reset ==
    /\ window' = <<>>
    /\ confident' \in {confident, FALSE}
    /\ lag' = Unset
    /\ delay' = Unset

Next == (\E best \in Lags : Observe(best)) \/ Reset

Spec == Init /\ [][Next]_<<window, confident, lag, delay>>
=============================================================================
