---------------------------- MODULE FrequencyLock ----------------------------
(***************************************************************************)
(* The numbers of one PhaseLockedClock and its VariableFrequencyClock (the *)
(* "vfc"): how ClockKit/PhaseLockedClock.cpp estimates the primary clock's *)
(* frequency from two samples, and what ClockKit/VariableFrequencyClock.cpp*)
(* reads while its frequency is changed.  PhaseLockedClock has the control *)
(* flow of this; here sync may be lost in any update, for any reason.      *)
(*                                                                         *)
(* Time is counted in ticks.  The primary clock reads now + primary, the   *)
(* reference clock now + reference; either may be set at any time, from 0. *)
(* Frequencies are multiples of 1 / Unit; the primary clock's is Unit.     *)
(***************************************************************************)
EXTENDS Integers

CONSTANTS
    Invalid,        \* tpInvalid and durInvalid
    NaN,            \* a frequency or an average that is infinite or not a number
    Unit,           \* 1000000.0 Hz
    Frequencies,    \* what updateClock() may make of a finite average and a phase
    PhasePanic,     \* phasePanic_
    Errors,         \* how far off the reference's getPhase() and getValue() may be
    Err,            \* the largest of these
    Period,         \* how long run() sleeps at least
    Huge,           \* 2^63, in scale
    Offsets,        \* the values that primary and reference may take
    Start,          \* the time when the program starts
    MaxTime,        \* bound: the time when the model ends
    MaxLag,         \* bound on the time that the readings of a sample take
    MaxSettings     \* bound on how often clocks are set

ASSUME NumbersAssumption ==
    /\ Unit \in Nat \ {0} /\ Frequencies \subseteq Nat /\ Offsets \subseteq Int
    /\ PhasePanic \in Nat /\ Err \in Nat /\ Period \in Nat /\ Huge \in Nat
    /\ Start \in Nat /\ MaxTime \in Nat /\ MaxLag \in Nat /\ MaxSettings \in Nat
    /\ Errors \subseteq -Err .. Err
    /\ Invalid \notin Int /\ NaN \notin Int /\ NaN \notin {"finite", "infinite"}

VARIABLES
    now,
    primary, reference,     \* how far ahead of now these clocks are
    settings,       \* history: how often clocks were set
    pc,             \* where the updater thread is
    inSync,         \* inSync_
    vfc,            \* variableFrequencyClock_
    frequency,      \* the local variableClockFrequency, or 0
    fetched,        \* in updateMarkers(): what getValue() returned
    average,        \* primaryFrequencyAvg_
    new, cur, prev, \* a sample being taken, the current and the previous one
    wake,           \* when run()'s sleep ends
    lastRead        \* history: what a reader got since the vfc was last set, and when

vars == <<now, primary, reference, settings, pc, inSync, vfc, frequency, fetched,
          average, new, cur, prev, wake, lastRead>>
world   == <<now, primary, reference, settings>>
samples == <<new, cur, prev>>
steering == <<frequency, fetched, average>>

\* settings, lag and gap are for the history: when was it taken, and how long did it take from
\* the phase to the vfc, and from there to the primary clock?
Samples == [phase : Int \cup {Invalid}, variable : Int \cup {Invalid}, primary : Int,
            settings : Int, lag : Nat, gap : Nat]

\* The constructor's, before any sample was taken.
NoSample == [phase |-> 0, variable |-> 0, primary |-> 0, settings |-> -1, lag |-> 0, gap |-> 0]

\* Where the updater thread holds the mutex.
Critical == {"marker 1", "source 1", "change", "fetch 2", "marker 2", "source 2",
             "variableValue", "primaryValue"}

\* What the vfc may be.  Its frequency is always positive, or NaN.
Clocks == [marker : Int \cup {Invalid}, markerSrc : Int,
           frequency : (Nat \ {0}) \cup {NaN}, rolledOver : BOOLEAN]

TypeOK ==
    /\ now \in Nat /\ wake \in Nat /\ settings \in Nat
    /\ primary \in Int /\ reference \in Int
    /\ pc \in Critical \cup {"sleep", "update", "fetch 1", "measure"}
    /\ inSync \in BOOLEAN
    /\ vfc \in Clocks
    /\ frequency \in Nat \cup {NaN}
    /\ fetched \in Int \cup {Invalid}
    /\ average \in {"finite", "infinite", NaN}
    /\ new \in Samples /\ cur \in Samples /\ prev \in Samples
    /\ lastRead = Invalid \/ lastRead \in [value : Int, at : Int]

-----------------------------------------------------------------------------
(* VariableFrequencyClock *)

Source == now + primary

\* ticksSrc * (frequency_ / frequencySrc_), as an integer.  What infinity and NaN are
\* converted to depends on the processor.
Scaled(ticksSrc, f) ==
    IF f = NaN THEN {-Huge, 0, Huge - 1} ELSE {(ticksSrc * f) \div Unit}

\* What getValue() may return.
Values ==
    IF vfc.rolledOver \/ vfc.marker = Invalid \/ Source < vfc.markerSrc
    THEN {Invalid}
    ELSE {vfc.marker + d : d \in Scaled(Source - vfc.markerSrc, vfc.frequency)}

\* What getValue() leaves behind.
AfterRead == [vfc EXCEPT !.rolledOver = @ \/ Source < vfc.markerSrc]

\* setFrequency(): what is nonpositive is.  NaN is not.
\* Mutant: nothing is.
NothingIgnored(f) == FALSE

Ignored(f) == f = 0

-----------------------------------------------------------------------------
(* The estimate of the primary clock's frequency *)

Abs(n) == IF n < 0 THEN -n ELSE n

\* Mutant: without the phase, this is the vfc's time and not the reference's.
VariableValue(s) == s.variable

ReferenceValue(s) == s.variable + s.phase

referenceElapsed == ReferenceValue(cur) - ReferenceValue(prev)
ticks == cur.primary - prev.primary

\* primaryFrequencyAvg_ += (ticks / referenceElapsed - primaryFrequencyAvg_) * 0.1,
\* in floating point: infinity less infinity is NaN, which stays.
NextAverage ==
    IF average # "finite" \/ (referenceElapsed = 0 /\ ticks = 0) THEN NaN
    ELSE IF referenceElapsed = 0 THEN "infinite"
    ELSE "finite"

\* What variableClockFrequency may be.  0 stands for all that are ignored as nonpositive.
NextFrequencies ==
    CASE NextAverage = "finite"   -> Frequencies \cup {0}
      [] NextAverage = "infinite" -> {IF ticks > 0 THEN 0 ELSE NaN}
      [] OTHER                    -> {NaN}

Init ==
    /\ now = Start
    /\ primary = 0 /\ reference = 0
    /\ settings = 0
    /\ pc = "update"
    /\ inSync = FALSE
    /\ vfc = [marker |-> 0, markerSrc |-> now + primary, frequency |-> Unit,
              rolledOver |-> FALSE]
    /\ frequency = 0
    /\ fetched = Invalid
    /\ average = "finite"
    /\ new = NoSample /\ cur = NoSample /\ prev = NoSample
    /\ wake = 0
    /\ lastRead = Invalid

-----------------------------------------------------------------------------
(* The updater thread *)

Goto(place) == pc' = place

\* update() returns, and run() sleeps.
Sleep == Goto("sleep") /\ wake' = now + Period

Wake ==
    /\ pc = "sleep" /\ now >= wake
    /\ Goto("update") /\ wake' = 0
    /\ UNCHANGED <<world, inSync, vfc, steering, samples, lastRead>>

\* update() may lose sync, because of updatePanic_, and then calls setClock() at once.
\* Otherwise updateClock() does if the phase is large, and nothing else happens until the
\* next update.
LoseSync ==
    /\ pc = "update" /\ inSync
    /\ inSync' = FALSE
    /\ \/ Goto("update") /\ UNCHANGED wake
       \/ Abs(cur.phase) > PhasePanic /\ Sleep
    /\ UNCHANGED <<world, vfc, steering, samples, lastRead>>

EstimateThen(place) ==
    /\ pc = "update" /\ inSync /\ Abs(cur.phase) <= PhasePanic
    /\ average' = NextAverage
    /\ frequency' \in NextFrequencies
    /\ Goto(place)
    /\ UNCHANGED <<world, inSync, vfc, fetched, samples, wake, lastRead>>

\* Mutant: setFrequency() without the first updateMarkers().
EstimateUnmarked == EstimateThen("change")

\* updateClock(): estimates the frequencies, and calls setFrequency().
Estimate == EstimateThen("fetch 1")

\* updateMarkers(): getValue(), unless rolled over.
Fetch(place, next, done) ==
    /\ pc = place
    /\ \/ vfc.rolledOver /\ Goto(done) /\ UNCHANGED fetched
       \/ ~vfc.rolledOver /\ Goto(next) /\ fetched' \in Values
    /\ vfc' = AfterRead
    /\ UNCHANGED <<world, inSync, frequency, average, samples, wake, lastRead>>

\* updateMarkers(): setValue() of that sets marker_ ...
SetMarker(place, next) ==
    /\ pc = place /\ Goto(next)
    /\ vfc' = [vfc EXCEPT !.marker = fetched] /\ fetched' = Invalid
    /\ UNCHANGED <<world, inSync, frequency, average, samples, wake, lastRead>>

\* ... and then markerSrc_ and rolledOver_.
SetSource(place, next) ==
    /\ pc = place /\ Goto(next)
    /\ vfc' = [vfc EXCEPT !.markerSrc = Source, !.rolledOver = FALSE]
    /\ UNCHANGED <<world, inSync, steering, samples, wake, lastRead>>

\* setFrequency(): between the two updateMarkers().
Change ==
    /\ pc = "change"
    /\ \/ Ignored(frequency) /\ Goto("measure") /\ UNCHANGED vfc
       \/ /\ ~Ignored(frequency) /\ Goto("fetch 2")
          /\ vfc' = [vfc EXCEPT !.frequency = frequency]
    /\ frequency' = 0
    /\ UNCHANGED <<world, inSync, fetched, average, samples, wake, lastRead>>

setFrequency ==
    \/ Fetch("fetch 1", "marker 1", "change")
    \/ SetMarker("marker 1", "source 1") \/ SetSource("source 1", "change")
    \/ Change
    \/ Fetch("fetch 2", "marker 2", "measure")
    \/ SetMarker("marker 2", "source 2") \/ SetSource("source 2", "measure")

\* setClock(): the reference's time, or none.  (PhaseLockedClock has the moment between
\* inSync_ and the mutex.)
Reset ==
    /\ pc = "update" /\ ~inSync
    /\ inSync' = TRUE
    /\ \E t \in {Invalid} \cup {now + reference + e : e \in Errors} :
         vfc' = [vfc EXCEPT !.marker = t, !.markerSrc = Source, !.rolledOver = FALSE]
    /\ lastRead' = Invalid
    /\ Goto("measure")
    /\ UNCHANGED <<world, steering, samples, wake>>

\* updatePhase(): the phase, or none.
Measure ==
    /\ pc = "measure"
    /\ \E t \in Values :
         \E p \in {Invalid} \cup (IF t = Invalid THEN {}
                                  ELSE {now + reference - t + e : e \in Errors}) :
            new' = [NoSample EXCEPT !.phase = p, !.settings = settings]
    /\ vfc' = AfterRead
    /\ Goto("variableValue")
    /\ UNCHANGED <<world, inSync, steering, cur, prev, wake, lastRead>>

\* updatePhase(): reads the vfc, whatever the phase is ...
ReadVariable ==
    /\ pc = "variableValue" /\ Goto("primaryValue")
    /\ \E t \in Values : new' = [new EXCEPT !.variable = t]
    /\ vfc' = AfterRead
    /\ UNCHANGED <<world, inSync, steering, cur, prev, wake, lastRead>>

\* ... and then the primary clock.  A sample that is complete is recorded.
ReadPrimary ==
    /\ pc = "primaryValue" /\ Sleep
    /\ IF Invalid \in {new.phase, new.variable}
       THEN inSync' = FALSE /\ UNCHANGED <<cur, prev>>
       ELSE /\ cur' = [new EXCEPT !.primary = Source,
                                  !.settings = IF @ = settings THEN @ ELSE -1]
            /\ prev' = cur
            /\ UNCHANGED inSync
    /\ new' = NoSample
    /\ UNCHANGED <<world, vfc, steering, lastRead>>

Updater ==
    \/ Wake \/ LoseSync \/ Estimate \/ setFrequency \/ Reset
    \/ Measure \/ ReadVariable \/ ReadPrimary

-----------------------------------------------------------------------------
(* A reader, and the world *)

\* Mutant: getValue() doesn't wait for the mutex.
MutexIgnored == TRUE

MutexFree == pc \notin Critical

\* PhaseLockedClock::getValue().
Read ==
    /\ inSync /\ MutexFree
    /\ \E t \in Values :
         lastRead' = IF t = Invalid THEN Invalid ELSE [value |-> t, at |-> Source]
    /\ vfc' = AfterRead
    /\ UNCHANGED <<world, pc, inSync, steering, samples, wake>>

Tick ==
    /\ now < MaxTime
    /\ pc \in {"variableValue", "primaryValue"} => new.lag + new.gap < MaxLag
    /\ now' = now + 1
    /\ new' = [new EXCEPT !.lag = IF pc = "variableValue" THEN @ + 1 ELSE @,
                          !.gap = IF pc = "primaryValue" THEN @ + 1 ELSE @]
    /\ UNCHANGED <<primary, reference, settings, pc, inSync, vfc, steering, cur, prev,
                   wake, lastRead>>

\* Somebody sets the primary or the reference clock.
Set ==
    /\ settings < MaxSettings /\ settings' = settings + 1
    /\ \/ reference' \in Offsets \ {reference} /\ UNCHANGED <<primary, lastRead>>
       \/ primary' \in Offsets \ {primary} /\ lastRead' = Invalid /\ UNCHANGED reference
    /\ UNCHANGED <<now, pc, inSync, vfc, steering, samples, wake>>

\* The bound on the time ends the model, in run()'s sleep.
End == now = MaxTime /\ wake > now /\ UNCHANGED vars

Next == Updater \/ Read \/ Tick \/ Set \/ End

Spec == Init /\ [][Next]_vars

-----------------------------------------------------------------------------
(* Safety *)

\* How fast the vfc may run: as constructed, and as updateClock() makes it.
Speeds == Frequencies \cup {Unit}

\* How far a vfc of that frequency may get ahead of the primary clock, or behind, in so
\* many ticks.
Drift(lag, f) ==
    LET most == (lag * f + Unit - 1) \div Unit
    IN  IF most - lag > lag THEN most - lag ELSE lag

\* updateClock() takes the vfc's value plus its phase for the reference's time.  So
\* referenceElapsed is the primary's ticks, give or take the errors of the two measurements
\* and the vfc's drift while they were made, even if the vfc was reset or steered between the
\* samples, whichever way and however often, or the reference was out of reach: unless a
\* clock was set, or there is no previous sample but the constructor's.  But whatever time a
\* sample took between reading the vfc and then the primary clock counts in the ticks alone.
EstimateSound ==
    cur.settings = prev.settings /\ prev.settings # -1 /\ vfc.frequency # NaN =>
        \E f \in Speeds :
            Abs(referenceElapsed - (ticks - (cur.gap - prev.gap)))
                <= 2 * Err + Drift(cur.lag, f) + Drift(prev.lag, f)

Reread == lastRead # Invalid /\ lastRead' # Invalid /\ vfc'.frequency # NaN

\* Between resets, what readers get never steps back while the updater changes the vfc's
\* frequency and moves its markers (setValue(), one after the other, under the mutex).
NeverBack == [][Reread => lastRead'.value >= lastRead.value]_vars

\* Nor does it run faster than the highest frequency: setFrequency() is for the future,
\* and the time that had gone by keeps its frequency (hence two updateMarkers()).
NeverJumps ==
    [][Reread => \E f \in Speeds :
          (lastRead'.value - lastRead.value - 1) * Unit < (lastRead'.at - lastRead.at) * f]_vars

-----------------------------------------------------------------------------
(* What the comments say and the code does not do *)

\* PhaseLockedClock.h: "It makes a VariableFrequencyClock, whose phase and frequency it
\* keeps locked to those of referenceClock_."
KeepsLocked == vfc.frequency # NaN
=============================================================================
