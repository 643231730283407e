---------------------------- MODULE Measurement ----------------------------
(***************************************************************************)
(* What referenceClock_.getPhase(vfc) and referenceClock_.getValue()       *)
(* promise to PhaseLockedClock: after a while, a phase or a time that is   *)
(* off by no more than half the round trip, or none.  Unless the clock     *)
(* was set back meanwhile: then they promise nothing.  ClockExchange       *)
(* implements this over a network (see ImplementsMeasurement there).       *)
(***************************************************************************)
EXTENDS Integers

CONSTANTS Invalid, Timeout

VARIABLES
    busy,       \* is a call in progress?
    learned,    \* what the last call returned, and how far that is off
    disturbed   \* was the clock set back during that call?

vars == <<busy, learned, disturbed>>

\* A time of rtt takes rtt \div 2, rounded up, on one of its two ways at least.
Accurate(l) ==
    /\ l.rtt \in 0 .. Timeout
    /\ l.error \in -((l.rtt + 1) \div 2) .. ((l.rtt + 1) \div 2)

Init == busy = FALSE /\ learned = Invalid /\ disturbed = FALSE

Begin == ~busy /\ busy' = TRUE /\ learned' = Invalid /\ disturbed' = FALSE

\* Nothing could be sent.
Refuse == ~busy /\ learned' = Invalid /\ UNCHANGED <<busy, disturbed>>

\* Nothing came back in time, or nothing of use.
Fail == busy /\ busy' = FALSE /\ learned' = Invalid /\ UNCHANGED disturbed

Succeed ==
    /\ busy /\ busy' = FALSE
    /\ learned' \in [rtt : Int, error : Int]
    /\ disturbed \/ Accurate(learned')
    /\ UNCHANGED disturbed

Disturb == busy /\ disturbed' = TRUE /\ UNCHANGED <<busy, learned>>

Next == Begin \/ Refuse \/ Fail \/ Succeed \/ Disturb

Safety == Init /\ [][Next]_vars

\* Every call returns.
Spec == Safety /\ WF_vars(Fail \/ Succeed)
=============================================================================
