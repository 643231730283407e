-------------------------- MODULE PhaseLockedClock --------------------------
(***************************************************************************)
(* ClockKit/PhaseLockedClock.cpp: the updater threads that keep a          *)
(* VariableFrequencyClock (the "vfc") locked to a reference clock, and the *)
(* reader threads that call getValue() and getOffset() meanwhile.          *)
(*                                                                         *)
(* Every PhaseLockedClock has an updater thread, in run().  All of them    *)
(* share mutexPLC and may share the reference clock (a ClockClient) and    *)
(* the primary clock (the SystemClock).                                    *)
(*                                                                         *)
(* Values of clocks are abstracted to what the control flow tells apart:   *)
(*  - a vfc's marker is "zero" (counting from 0, as constructed), "locked" *)
(*    (within PhasePanic of the reference), "adrift" (set from the         *)
(*    reference, but further than PhasePanic from it by now) or "invalid"; *)
(*  - its markerSrc is "past" or "future" of what the primary clock reads  *)
(*    now ("future" once the primary has stepped back), or "invalid";      *)
(*  - its frequency is "settled" (it stays within PhasePanic from one      *)
(*    update to the next), "off" (not that long, but while it is measured),*)
(*    or "garbled" (NaN, infinite, or so fast that a reading is any wrong  *)
(*    time);                                                               *)
(*  - primaryFrequencyAvg_ is how many sound estimates it needs to settle, *)
(*    or Infinite, or NaN;                                                 *)
(*  - updatePrev_ is "recent", or "old" (more than updatePanic_ ago), or   *)
(*    "invalid";                                                           *)
(*  - a phase is a number, or Invalid.                                     *)
(***************************************************************************)
EXTENDS Integers

CONSTANTS
    Clocks,         \* the PhaseLockedClocks, each with its updater thread
    Readers,        \* the threads that read them
    None,           \* no clock: mutexPLC is free, a reader is in no call
    Invalid,        \* durInvalid
    PhaseValues,    \* the phases that a measurement may yield
    PhasePanic,     \* phasePanic_
    Infinite, NaN,  \* an average that is infinite, or not a number
    MaxError,       \* bound on how far off an average may be
    Disturbances    \* what may go wrong, besides measurements

ASSUME NoneAssumption == None \notin Clocks
ASSUME PhaseAssumption == /\ PhaseValues \subseteq Int
                          /\ PhasePanic \in Nat
                          /\ Invalid \notin Int
ASSUME AverageAssumption == MaxError \in Nat /\ Infinite \notin Int /\ NaN \notin Int
\* "drift": the reference and the vfc part by more than PhasePanic, as when a clock is
\* set; so an estimate of the primary clock's frequency may be anything.
\* "delay": more than updatePanic_ goes by between updates.
\* "set back": the primary clock steps back, so the vfc rolls over.
\* "fail": the primary clock returns tpInvalid.
ASSUME DisturbanceAssumption ==
    Disturbances \subseteq {"drift", "delay", "set back", "fail"}

VARIABLES
    pc,          \* where each updater thread is
    inSync,      \* inSync_
    vfc,         \* variableFrequencyClock_
    sample,      \* phase_, variableValue_, primaryValue_
    measured,    \* updatePhase()'s locals phase, variableValue, tmp
    updatePrev,  \* updatePrev_
    average,     \* primaryFrequencyAvg_
    mutexPLC,    \* the updater that holds mutexPLC, or None
    gettingValue,   \* the clock whose getValue() each reader is inside
    gettingOffset,  \* the clock whose getOffset() each reader is inside
    end_clocks,  \* the flag that ends run()
    steady,      \* environment: network and clocks behave from now on
    basis        \* history: what the vfc rests on since sync was last lost

vars == <<pc, inSync, vfc, sample, measured, updatePrev, average, mutexPLC,
          gettingValue, gettingOffset, end_clocks, steady, basis>>

\* What no updater changes, what few of its steps change, and what nobody else does.
world    == <<gettingValue, gettingOffset, end_clocks, steady>>
samples  == <<sample, measured, updatePrev, average>>
updaters == <<pc, inSync, samples, mutexPLC, basis>>

-----------------------------------------------------------------------------
(* Types *)

Markers == {"zero", "locked", "adrift", "invalid"}
VFCs == [marker : Markers, markerSrc : {"past", "future", "invalid"},
         rolledOver : BOOLEAN, frequency : {"settled", "off", "garbled"}]

\* since is for the history: was it measured, and was the one before it too, since the
\* network and the clocks behave, with a frequency that isn't garbled?
Samples == [phase : PhaseValues \cup {Invalid, 0}, since : 0..2,
            variable : {"valid", "invalid"}, primary : {"valid", "invalid"}]

Averages == 0..MaxError \cup {Infinite, NaN}

\* "reset" and "measure" wait for the mutex; Critical ones hold it.
Waiting  == {"adjust", "reset", "measure"}
Critical == {"adjusting", "resetting", "measuring", "reading"}
Places   == {"sleep", "branch", "record", "stamp", "done"} \cup Waiting \cup Critical

\* Nothing from the reference; hard-reset to it; or also measured against it.
Bases == {"none", "reset", "measured"}

TypeOK ==
    /\ pc \in [Clocks -> Places]
    /\ inSync \in [Clocks -> BOOLEAN]
    /\ vfc \in [Clocks -> VFCs]
    /\ sample \in [Clocks -> Samples]
    /\ measured \in [Clocks -> Samples]
    /\ updatePrev \in [Clocks -> {"recent", "old", "invalid"}]
    /\ average \in [Clocks -> Averages]
    /\ mutexPLC \in Clocks \cup {None}
    /\ gettingValue \in [Readers -> Clocks \cup {None}]
    /\ gettingOffset \in [Readers -> Clocks \cup {None}]
    /\ end_clocks \in BOOLEAN
    /\ steady \in BOOLEAN
    /\ basis \in [Clocks -> Bases]

-----------------------------------------------------------------------------
(* VariableFrequencyClock.  A reading says whether one call of             *)
(* clockSrc_.getValue() yields a valid time.                               *)

May(disturbance) == disturbance \in Disturbances /\ ~steady

Readings == IF May("fail") THEN BOOLEAN ELSE {TRUE}

Source(reading) == IF reading THEN "past" ELSE "invalid"

\* Mutant: the constructor leaves marker_ uninitialized.
NewVFCUninitialized(reading) ==
    [marker |-> "garbage", markerSrc |-> Source(reading), rolledOver |-> FALSE,
     frequency |-> "settled"]

NewVFC(reading) ==
    [marker |-> "zero", markerSrc |-> Source(reading), rolledOver |-> FALSE,
     frequency |-> "settled"]

\* What getValue() may return.
Values(v, reading) ==
    IF ~reading \/ v.rolledOver \/ v.markerSrc # "past" THEN {"invalid"}
    ELSE IF v.frequency = "garbled" /\ v.marker \in {"locked", "adrift"}
    THEN {"locked", "adrift"}
    ELSE {v.marker}

\* What getValue() leaves behind: a source that moved backwards rolls it over.
AfterRead(v, reading) ==
    [v EXCEPT !.rolledOver = @ \/ (reading /\ v.markerSrc = "future")]

\* Mutant: an invalid time is stored as zero.
SetValueOrZero(v, t, reading) ==
    [v EXCEPT !.marker = IF t = "invalid" THEN "zero" ELSE t,
              !.markerSrc = Source(reading), !.rolledOver = FALSE]

SetValue(v, t, reading) ==
    [v EXCEPT !.marker = t, !.markerSrc = Source(reading), !.rolledOver = FALSE]

\* What updateMarkers() may make of v.
UpdatedMarkers(v, reading1, reading2) ==
    IF v.rolledOver THEN {v} ELSE {SetValue(v, t, reading2) : t \in Values(v, reading1)}

\* What setFrequency()'s argument may do to the vfc, by the average it was made of:
\* infinity may have either sign.
Frequencies(a) ==
    CASE a = 0              -> {"settled"}
      [] a \in 1..MaxError  -> {"settled", "off", "garbled"}
      [] OTHER              -> {"garbled"}

\* May it be nonpositive?  NaN isn't.
Ignored(a) == a \notin {0, NaN}

-----------------------------------------------------------------------------
(* Measuring *)

\* Mutant: negative phases are forgotten.
IsLargePositive(phase) == phase > PhasePanic

IsLarge(phase) == phase > PhasePanic \/ phase < -PhasePanic

\* What referenceClock_.getPhase(vfc) may return when the vfc reads t.
\* Lost or late packets make it Invalid, except in steady times.
Phases(t) ==
    (IF t = "invalid" \/ ~steady THEN {Invalid} ELSE {}) \cup
    (IF t = "invalid" THEN {}
     ELSE {p \in PhaseValues : IsLarge(p) <=> t # "locked"})

NoSample == [phase |-> 0, since |-> 0, variable |-> "valid", primary |-> "valid"]

\* primaryFrequencyAvg_ += (primaryFrequency - primaryFrequencyAvg_) * 0.1.  A good
\* estimate brings it closer, unless it isn't finite any more: infinity less infinity is NaN.
NextAverages(c) ==
    IF average[c] \in {Infinite, NaN} THEN {NaN}
    ELSE IF "drift" \in Disturbances /\ sample[c].since < 2 THEN Averages
    ELSE {IF average[c] = 0 THEN 0 ELSE average[c] - 1}

LoseSync(c) ==
    /\ inSync' = [inSync EXCEPT ![c] = FALSE]
    /\ basis' = [basis EXCEPT ![c] = "none"]

Goto(c, place) == pc' = [pc EXCEPT ![c] = place]

\* Mutant: the mutex isn't waited for.
AcquireAtOnce(c) == mutexPLC' = c

Acquire(c) == mutexPLC = None /\ mutexPLC' = c
Release(c) == mutexPLC' = None

Init ==
    /\ pc = [c \in Clocks |-> "sleep"]
    /\ inSync = [c \in Clocks |-> FALSE]
    /\ \E reading \in (IF "fail" \in Disturbances THEN BOOLEAN ELSE {TRUE}) :
         vfc = [c \in Clocks |-> NewVFC(reading)]
    /\ sample = [c \in Clocks |-> NoSample]
    /\ measured = [c \in Clocks |-> NoSample]
    /\ updatePrev = [c \in Clocks |-> "old"]
    /\ average = [c \in Clocks |-> 0]
    /\ mutexPLC = None
    /\ gettingValue = [r \in Readers |-> None]
    /\ gettingOffset = [r \in Readers |-> None]
    /\ end_clocks = FALSE
    /\ steady = FALSE
    /\ basis = [c \in Clocks |-> "none"]

-----------------------------------------------------------------------------
(* The updater thread: run() and update() *)

\* Mutant: the load of end_clocks is hoisted out of run()'s loop.
RunningForever == TRUE

Running == ~end_clocks

\* update(), its first half: is the previous update too long ago?
UpdateBegin(c) ==
    /\ pc[c] = "sleep" /\ Running
    /\ \E reading \in Readings :
         IF \/ updatePrev[c] = "invalid"
            \/ ~reading
            \/ inSync[c] /\ updatePrev[c] = "old"
         THEN LoseSync(c)
         ELSE UNCHANGED <<inSync, basis>>
    /\ Goto(c, "branch")
    /\ UNCHANGED <<vfc, samples, mutexPLC, world>>

\* updateClock(): an invalid or large phase_ loses sync and ends this update.
PhaseLost(c) ==
    /\ pc[c] = "branch" /\ inSync[c]
    /\ sample[c].phase # Invalid => IsLarge(sample[c].phase)
    /\ LoseSync(c)
    /\ Goto(c, "sleep")
    /\ UNCHANGED <<vfc, samples, mutexPLC, world>>

\* updateClock(): otherwise it averages in an estimate and waits for the mutex.
PhaseKept(c) ==
    /\ pc[c] = "branch" /\ inSync[c]
    /\ sample[c].phase # Invalid /\ ~IsLarge(sample[c].phase)
    /\ \E a \in NextAverages(c) : average' = [average EXCEPT ![c] = a]
    /\ Goto(c, "adjust")
    /\ UNCHANGED <<inSync, vfc, sample, measured, updatePrev, mutexPLC, world, basis>>

\* setFrequency(): the first updateMarkers(); a nonpositive frequency ends it.
AdjustBegin(c) ==
    /\ pc[c] = "adjust"
    /\ mutexPLC = None
    /\ \E reading1, reading2 \in Readings :
         \E v \in UpdatedMarkers(vfc[c], reading1, reading2) : vfc' = [vfc EXCEPT ![c] = v]
    /\ \/ Goto(c, "adjusting") /\ mutexPLC' = c
       \/ Ignored(average[c]) /\ Goto(c, "measure") /\ UNCHANGED mutexPLC
    /\ UNCHANGED <<inSync, samples, world, basis>>

\* setFrequency(): the new frequency, and the second updateMarkers().
AdjustEnd(c) ==
    /\ pc[c] = "adjusting"
    /\ \E f \in Frequencies(average[c]), reading1, reading2 \in Readings :
         \E v \in UpdatedMarkers([vfc[c] EXCEPT !.frequency = f], reading1, reading2) :
            vfc' = [vfc EXCEPT ![c] = v]
    /\ Goto(c, "measure")
    /\ Release(c)
    /\ UNCHANGED <<inSync, samples, world, basis>>

\* setClock() declares sync before it has the mutex, let alone the time.
SetClock(c) ==
    /\ pc[c] = "branch" /\ ~inSync[c]
    /\ inSync' = [inSync EXCEPT ![c] = TRUE]
    /\ Goto(c, "reset")
    /\ UNCHANGED <<vfc, samples, mutexPLC, world, basis>>

\* setClock(): the Guard.  referenceClock_.getValue() begins.
ResetBegin(c) ==
    /\ pc[c] = "reset"
    /\ Acquire(c)
    /\ Goto(c, "resetting")
    /\ UNCHANGED <<inSync, vfc, samples, world, basis>>

\* setClock(): the reference's time, or tpInvalid, becomes the vfc's value.
ResetEnd(c) ==
    /\ pc[c] = "resetting"
    /\ \E t \in {"locked"} \cup (IF steady THEN {} ELSE {"invalid"}),
          reading \in Readings :
         /\ vfc' = [vfc EXCEPT ![c] = SetValue(@, t, reading)]
         /\ basis' = [basis EXCEPT ![c] = IF t = "invalid" THEN "none" ELSE "reset"]
    /\ Goto(c, "measure")
    /\ Release(c)
    /\ UNCHANGED <<inSync, samples, world>>

\* updatePhase(): takes the mutex.  referenceClock_.getPhase(vfc) begins.
\* (It would return at once if not in sync, but is called only in sync.)
MeasureBegin(c) ==
    /\ pc[c] = "measure" /\ inSync[c]
    /\ Acquire(c)
    /\ Goto(c, "measuring")
    /\ UNCHANGED <<inSync, vfc, samples, world, basis>>

\* How many good samples in a row this one makes.
Since(c) ==
    IF ~steady \/ vfc[c].frequency = "garbled" THEN 0
    ELSE IF sample[c].since = 0 THEN 1 ELSE 2

\* updatePhase(): getPhase() has read the vfc, and returns.
MeasureEnd(c) ==
    /\ pc[c] = "measuring"
    /\ \E reading \in Readings :
         /\ vfc' = [vfc EXCEPT ![c] = AfterRead(@, reading)]
         /\ \E t \in Values(vfc[c], reading) : \E p \in Phases(t) :
              measured' = [measured EXCEPT ![c].phase = p, ![c].since = Since(c)]
    /\ Goto(c, "reading")
    /\ UNCHANGED <<inSync, sample, updatePrev, average, mutexPLC, world, basis>>

Validity(valid) == IF valid THEN "valid" ELSE "invalid"

\* updatePhase(): reads the vfc and the primary clock too, and unlocks.
ReadClocks(c) ==
    /\ pc[c] = "reading"
    /\ \E reading1, reading2 \in Readings :
         /\ vfc' = [vfc EXCEPT ![c] = AfterRead(@, reading1)]
         /\ measured' = [measured EXCEPT ![c] =
                [@ EXCEPT !.variable = Validity("invalid" \notin Values(vfc[c], reading1)),
                          !.primary = Validity(reading2)]]
    /\ Goto(c, "record")
    /\ Release(c)
    /\ UNCHANGED <<inSync, sample, updatePrev, average, world, basis>>

\* Mutants: the vfc and the phase, or the primary clock, go unchecked.
UsableIfPrimary(m) == m.primary = "valid"
UsableButPrimary(m) == m.phase # Invalid /\ m.variable = "valid"

Usable(m) == m.phase # Invalid /\ m.variable = "valid" /\ m.primary = "valid"

\* updatePhase(): a measurement with an invalid part loses sync.
MeasurementLost(c) ==
    /\ pc[c] = "record" /\ ~Usable(measured[c])
    /\ LoseSync(c)
    /\ measured' = [measured EXCEPT ![c] = NoSample]
    /\ Goto(c, "sleep")
    /\ UNCHANGED <<vfc, sample, updatePrev, average, mutexPLC, world>>

\* updatePhase(): the measurement becomes the current sample.
Record(c) ==
    /\ pc[c] = "record" /\ Usable(measured[c])
    /\ sample' = [sample EXCEPT ![c] = measured[c]]
    /\ basis' = [basis EXCEPT ![c] = "measured"]
    /\ measured' = [measured EXCEPT ![c] = NoSample]
    /\ Goto(c, "stamp")
    /\ UNCHANGED <<inSync, vfc, updatePrev, average, mutexPLC, world>>

\* Mutant: updatePrev_ isn't updated.
StampForgotten(c) ==
    /\ pc[c] = "stamp"
    /\ Goto(c, "sleep")
    /\ UNCHANGED <<inSync, vfc, samples, mutexPLC, world, basis>>

\* update(), its last line; then run() sleeps.
Stamp(c) ==
    /\ pc[c] = "stamp"
    /\ \E reading \in Readings :
         updatePrev' = [updatePrev EXCEPT ![c] = IF reading THEN "recent" ELSE "invalid"]
    /\ Goto(c, "sleep")
    /\ UNCHANGED <<inSync, vfc, sample, measured, average, mutexPLC, world, basis>>

\* run() returns.
RunEnd(c) ==
    /\ pc[c] = "sleep" /\ end_clocks
    /\ Goto(c, "done")
    /\ UNCHANGED <<inSync, vfc, samples, mutexPLC, world, basis>>

Updater(c) ==
    \/ UpdateBegin(c) \/ PhaseLost(c) \/ PhaseKept(c)
    \/ AdjustBegin(c) \/ AdjustEnd(c)
    \/ SetClock(c) \/ ResetBegin(c) \/ ResetEnd(c)
    \/ MeasureBegin(c) \/ MeasureEnd(c) \/ ReadClocks(c)
    \/ MeasurementLost(c) \/ Record(c) \/ Stamp(c) \/ RunEnd(c)

-----------------------------------------------------------------------------
(* The reader threads.  Their calls check inSync_ without the mutex.  A call *)
(* to a clock that isn't in sync returns "invalid" at once: no step here.    *)

Calling(r) == gettingValue[r] # None \/ gettingOffset[r] # None

\* getValue(), past its check.
GetValueBegin(r, c) ==
    /\ ~Calling(r) /\ inSync[c]
    /\ gettingValue' = [gettingValue EXCEPT ![r] = c]
    /\ UNCHANGED <<updaters, vfc, gettingOffset, end_clocks, steady>>

\* Mutants: no guard; or getValue() waits to be in sync again.
GuardMissing(c) == TRUE
GuardInSync(c) == mutexPLC = None /\ inSync[c]

\* getValue()'s Guard.  Nothing else happens while a reader has the mutex.
Guard(c) == mutexPLC = None

\* getValue(): the Guard, and the vfc's value.
GetValueEnd(r) ==
    /\ \E c \in Clocks :
         /\ gettingValue[r] = c
         /\ Guard(c)
         /\ \E reading \in Readings :
              vfc' = [vfc EXCEPT ![c] = AfterRead(@, reading)]
    /\ gettingValue' = [gettingValue EXCEPT ![r] = None]
    /\ UNCHANGED <<updaters, gettingOffset, end_clocks, steady>>

\* getOffset(), past its check.
GetOffsetBegin(r, c) ==
    /\ ~Calling(r) /\ inSync[c]
    /\ gettingOffset' = [gettingOffset EXCEPT ![r] = c]
    /\ UNCHANGED <<updaters, vfc, gettingValue, end_clocks, steady>>

\* getOffset() returns phase_, whatever that is by now.
GetOffsetEnd(r) ==
    /\ gettingOffset[r] # None
    /\ gettingOffset' = [gettingOffset EXCEPT ![r] = None]
    /\ UNCHANGED <<updaters, vfc, gettingValue, end_clocks, steady>>

Reader(r) ==
    \/ \E c \in Clocks : GetValueBegin(r, c) \/ GetOffsetBegin(r, c)
    \/ GetValueEnd(r)
    \/ GetOffsetEnd(r)

-----------------------------------------------------------------------------
(* The environment *)

\* The main thread asks run() to end.
EndClocks ==
    /\ ~end_clocks
    /\ end_clocks' = TRUE
    /\ UNCHANGED <<updaters, vfc, gettingValue, gettingOffset, steady>>

\* The reference or the vfc wanders, past PhasePanic or back: even in steady times, a vfc
\* whose frequency is off does so while run() sleeps.
Drift(c) ==
    /\ May("drift") \/ (vfc[c].frequency = "off" /\ pc[c] = "sleep")
    /\ vfc[c].marker \in {"locked", "adrift"}
    /\ vfc' = [vfc EXCEPT ![c].marker = IF @ = "locked" THEN "adrift" ELSE "locked"]
    /\ UNCHANGED <<updaters, world>>

\* More than updatePanic_ goes by, or the primary clock steps back by as much.
UpdateAges(c) ==
    /\ May("delay") /\ updatePrev[c] # "invalid"
    /\ updatePrev' = [updatePrev EXCEPT ![c] = IF @ = "recent" THEN "old" ELSE "recent"]
    /\ UNCHANGED <<pc, inSync, vfc, sample, measured, average, mutexPLC, world, basis>>

\* The primary clock is set back, to before markerSrc_.
PrimaryStepsBack(c) ==
    /\ May("set back") /\ vfc[c].markerSrc = "past"
    /\ vfc' = [vfc EXCEPT ![c].markerSrc = "future"]
    /\ UNCHANGED <<updaters, world>>

\* The primary clock reaches markerSrc_ again.
PrimaryCatchesUp(c) ==
    /\ vfc[c].markerSrc = "future"
    /\ vfc' = [vfc EXCEPT ![c].markerSrc = "past"]
    /\ UNCHANGED <<updaters, world>>

\* From now on packets arrive in time and no clock misbehaves.
Settle ==
    /\ ~steady
    /\ steady' = TRUE
    /\ UNCHANGED <<updaters, vfc, gettingValue, gettingOffset, end_clocks>>

Environment ==
    \/ EndClocks
    \/ Settle
    \/ \E c \in Clocks : \/ Drift(c) \/ UpdateAges(c)
                        \/ PrimaryStepsBack(c) \/ PrimaryCatchesUp(c)

\* The updater threads are joined: nothing is left to do.
Joined ==
    /\ \A c \in Clocks : pc[c] = "done"
    /\ UNCHANGED vars

Next ==
    \/ \E c \in Clocks : Updater(c)
    \/ \E r \in Readers : Reader(r)
    \/ Environment
    \/ Joined

\* Updaters sleep 190 ms or more between updates and never while they hold the
\* mutex, so a thread that waits for it finds it free again and again.
\* Nothing obliges a reader to call, a clock to misbehave or the program to end.
Fairness ==
    /\ \A c \in Clocks : SF_vars(Updater(c))
    /\ \A r \in Readers : SF_vars(GetValueEnd(r)) /\ WF_vars(GetOffsetEnd(r))

Spec == Init /\ [][Next]_vars /\ Fairness

-----------------------------------------------------------------------------
(* Safety *)

\* No invalid number ever enters a sample, whatever the network and the clocks
\* did while it was measured: updateClock() computes with it unchecked (the
\* comments "None of these are invalid" in updatePhase() and updateClock()).
SamplesValid ==
    \A c \in Clocks : /\ sample[c].phase # Invalid
                      /\ sample[c].variable = "valid"
                      /\ sample[c].primary = "valid"

\* Between updates, a clock that says it's in sync has a vfc set from the
\* reference and measured against it since sync was last lost.  It does not
\* rest on a failed reset, on a failed measurement, or on an old success.
SyncIsEarned ==
    \A c \in Clocks :
        pc[c] \in {"sleep", "done"} /\ inSync[c] =>
            /\ basis[c] = "measured"
            /\ vfc[c].marker \in {"locked", "adrift"}
            /\ vfc[c].markerSrc # "invalid"

\* inSync_ is TRUE early, and stays so after a reset that failed.  Even then
\* getValue() returns tpInvalid rather than a time that is not the reference's,
\* except while setClock() waits for the mutex or for the reference.
UnsetClockIsInvalid ==
    \A c \in Clocks :
        inSync[c] /\ basis[c] = "none" =>
            \/ pc[c] \in {"reset", "resetting"}
            \/ vfc[c].marker = "invalid"

\* updateClock() steers the vfc only by a phase that is within phasePanic_ and
\* was measured on this vfc since its last reset.
SteersByFreshPhase ==
    \A c \in Clocks :
        pc[c] \in {"adjust", "adjusting"} =>
            /\ inSync[c] /\ basis[c] = "measured"
            /\ sample[c].phase \in -PhasePanic .. PhasePanic

\* PhaseLockedClocks may share one ClockClient, whose sequence_ and socket are
\* unguarded: at most one updater is inside a call to the reference clock.
ReferenceExclusive ==
    \A c, d \in Clocks :
        pc[c] \in {"resetting", "measuring"} /\ pc[d] \in {"resetting", "measuring"}
            => c = d

\* getValue() is "const in spirit": it may set rolledOver_.  Whoever changes a
\* vfc, its updater or a reader, does so under the mutex.  (That a marker turns
\* from "locked" to "adrift" or back is the reference clock's doing.)
VfcTouched(c) ==
    \/ vfc'[c].rolledOver # vfc[c].rolledOver
    \/ vfc'[c].marker # vfc[c].marker /\ {vfc'[c].marker, vfc[c].marker} # {"locked", "adrift"}

VfcGuarded ==
    [][\A c \in Clocks :
          VfcTouched(c) =>
              mutexPLC = None \/ (mutexPLC = c /\ pc'[c] # pc[c])]_vars

-----------------------------------------------------------------------------
(* Liveness *)

\* A clock whose recorded phase is too large loses sync, or is told to end.
PanicLosesSync ==
    \A c \in Clocks :
        (pc[c] = "sleep" /\ inSync[c] /\ sample[c].phase \notin -PhasePanic .. PhasePanic)
            ~> (~inSync[c] \/ pc[c] = "done")

\* Once the network and the clocks behave, a clock gets and stays in sync whatever
\* invalid or large values and whatever wrong frequency it got before; unless it can
\* never shake off a frequency that garbles its time: setValue() keeps the frequency,
\* and infinity and NaN stay in the average (see KeepsLocked in FrequencyLock).
Converges ==
    <>[]steady /\ []~end_clocks =>
        \A c \in Clocks : <>[]inSync[c] \/ []<>(vfc[c].frequency = "garbled")

\* A reader's call returns, though updaters hold the mutex while they wait for
\* the network.
CallsReturn == \A r \in Readers : Calling(r) ~> ~Calling(r)

\* Once asked to, every run() returns: th_clock.join() does not hang.
RunEnds == \A c \in Clocks : end_clocks ~> pc[c] = "done"

-----------------------------------------------------------------------------
(* What the programs rely on *)

\* An updater thread, as the program that started it sees it.
Thread(c) ==
    CASE pc[c] = "sleep" -> "asleep"
      [] pc[c] = "done"  -> "returned"
      [] OTHER           -> "updating"

U == INSTANCE Updaters WITH Threads <- Clocks,
                            thread <- [c \in Clocks |-> Thread(c)]

\* However run(), update() and its callees branch, fail or wait for the mutex
\* and the network, each update ends, and is the last one if end_clocks was set.
ImplementsUpdaters == U!Spec

-----------------------------------------------------------------------------
(* What the documentation says and the code does not do *)

\* ckTimeAsValue() returns "Usec since the Unix epoch", or an invalid value:
\* never the time of a vfc that still counts from 0.
TimeIsEpochTime ==
    [][\A r \in Readers : \A c \in Clocks :
          gettingValue[r] = c /\ gettingValue'[r] = None =>
              "zero" \notin Values(vfc[c], TRUE)]_vars
=============================================================================
