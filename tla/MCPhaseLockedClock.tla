------------------------- MODULE MCPhaseLockedClock -------------------------
(* Instances of PhaseLockedClock for TLC. *)
EXTENDS PhaseLockedClock

CONSTANTS c1, c2, r1, r2

OneClock   == {c1}
TwoClocks  == {c1, c2}
OneReader  == {r1}
TwoReaders == {r1, r2}

\* Within the limit and beyond it; at the limit, and beyond it on either side.
FewPhases == {0, 2}
AllPhases == {-2, 1, 2}

Anything  == {"drift", "delay", "set back", "fail"}
Nothing   == {}
=============================================================================
