-------------------------- MODULE MCClockExchange --------------------------
(* Instances of ClockExchange for TLC. *)
EXTENDS ClockExchange

\* A step of 2, forward or back.
FewSkews == {-1, 1}
=============================================================================
