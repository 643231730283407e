------------------------------ MODULE Updaters ------------------------------
(***************************************************************************)
(* What PhaseLockedClock::run() promises to the programs that start it as  *)
(* a thread: it updates its clock and sleeps, by turns, until end_clocks   *)
(* is set, and then returns.  PhaseLockedClock implements this (see        *)
(* ImplementsUpdaters there); Programs builds on it.                       *)
(***************************************************************************)

CONSTANT Threads    \* the threads that may ever call run()

VARIABLES
    thread,     \* what each thread is doing
    end_clocks  \* the flag that ends run()

TypeOK ==
    /\ thread \in [Threads -> {"none", "asleep", "updating", "returned"}]
    /\ end_clocks \in BOOLEAN

Init ==
    /\ thread \in [Threads -> {"none", "asleep"}]
    /\ end_clocks = FALSE

Becomes(t, state) == thread' = [thread EXCEPT ![t] = state]

\* A program constructs a std::thread.
Start(t) ==
    /\ thread[t] = "none" /\ Becomes(t, "asleep")
    /\ UNCHANGED end_clocks

\* run()'s loop, and its end.  In update(), the clock and its client are used.
UpdateBegin(t) ==
    /\ thread[t] = "asleep" /\ ~end_clocks /\ Becomes(t, "updating")
    /\ UNCHANGED end_clocks

UpdateEnd(t) ==
    /\ thread[t] = "updating" /\ Becomes(t, "asleep")
    /\ UNCHANGED end_clocks

Return(t) ==
    /\ thread[t] = "asleep" /\ end_clocks /\ Becomes(t, "returned")
    /\ UNCHANGED end_clocks

\* The program sets the flag, once and for all.
EndClocks == ~end_clocks /\ end_clocks' = TRUE /\ UNCHANGED thread

Run(t) == UpdateBegin(t) \/ UpdateEnd(t) \/ Return(t)

Next == EndClocks \/ \E t \in Threads : Start(t) \/ Run(t)

vars == <<thread, end_clocks>>

Safety == Init /\ [][Next]_vars

\* No update takes forever: every wait in it has a timeout, or is for another's.
Spec == Safety /\ \A t \in Threads : WF_vars(Run(t))
=============================================================================
