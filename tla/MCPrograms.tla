----------------------------- MODULE MCPrograms -----------------------------
(* An instance of Programs for TLC. *)
EXTENDS Programs

CONSTANTS c1, c2, t1, t2, t3

TwoClocks    == {c1, c2}
ThreeThreads == {t1, t2, t3}
=============================================================================
