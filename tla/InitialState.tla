---------------------------- MODULE InitialState ----------------------------
(***************************************************************************)
(* AecState::InitialState (aec3/aec_state.cc): the phase of a call, or of  *)
(* what follows a delay change, in which the filters are still rough.  It  *)
(* lasts until enough render blocks were active while the capture did not  *)
(* saturate.                                                               *)
(***************************************************************************)
EXTENDS Naturals

CONSTANT InitialLimit  \* blocks the phase lasts (5 s or initial_state_seconds)

ASSUME InitialLimitAssumption == InitialLimit \in Nat

PhaseType == [initial : BOOLEAN, triggered : BOOLEAN, count : 0 .. InitialLimit]

NewPhase == [initial |-> TRUE, triggered |-> FALSE, count |-> 0]

\* Reset leaves transition_triggered_ as it is.
ResetPhase(p) == [initial |-> TRUE, triggered |-> p.triggered, count |-> 0]

\* Update.  The count is only compared with the limit: it stops there.
UpdatePhase(p, counts) ==
    LET count == IF counts /\ p.count < InitialLimit THEN p.count + 1
                 ELSE p.count
    IN [initial   |-> count < InitialLimit,
        triggered |-> count >= InitialLimit /\ p.initial,
        count     |-> count]
=============================================================================
