---------------------- MODULE PhaseLockedClockProofs ----------------------
(***************************************************************************)
(* The safety properties of PhaseLockedClock, for any number of clocks and *)
(* readers, any phases and any threshold.                                  *)
(***************************************************************************)
EXTENDS PhaseLockedClock, TLAPS

-----------------------------------------------------------------------------
(* The inductive invariant *)

\* The vfc was set from the reference, and its source was readable then.
Locked(c) == vfc[c].marker \in {"locked", "adrift"} /\ vfc[c].markerSrc # "invalid"

MutexInv == \A c \in Clocks : pc[c] \in Critical <=> mutexPLC = c

\* Where the updater may be without having been in sync all through update().
Resting == {"sleep", "branch", "done"}

\* Where the vfc has been reset or adjusted, and not yet been measured.
Measuring == {"measure", "measuring", "reading", "record"}

\* What inSync_ stands for, at each place in update().
Sync(c) ==
    /\ ~inSync[c] => basis[c] = "none" /\ pc[c] \in Resting
    /\ pc[c] \in Resting /\ inSync[c] => basis[c] = "measured" /\ Locked(c)
    /\ pc[c] \in {"reset", "resetting"} => basis[c] = "none"
    /\ pc[c] \in {"adjust", "adjusting", "stamp"} => basis[c] = "measured"
    /\ pc[c] \in {"adjust", "adjusting"} =>
           sample[c].phase \in -PhasePanic .. PhasePanic
    /\ pc[c] \in {"adjust", "stamp"} => Locked(c)
    /\ pc[c] \in {"adjusting"} \cup Measuring => vfc[c].marker # "zero"
    /\ pc[c] \in Measuring /\ basis[c] = "none" => vfc[c].marker = "invalid"
    /\ pc[c] = "record" /\ measured[c].variable = "valid" => Locked(c)

SyncInv == \A c \in Clocks : Sync(c)

IInv == TypeOK /\ MutexInv /\ SyncInv /\ SamplesValid

-----------------------------------------------------------------------------
(* Lemmas about the operators *)

\* A reading of the primary clock is a Boolean.
LEMMA ReadingType == Readings \subseteq BOOLEAN
BY DEF Readings

Times == {"locked", "adrift"}

\* getValue() yields the vfc's marker, or the other of "locked" and "adrift", or "invalid";
\* and "invalid" is all it yields of a vfc whose source was invalid when its marker was set.
LEMMA ValuesFacts ==
    ASSUME NEW v \in VFCs, NEW reading \in BOOLEAN, NEW t \in Values(v, reading)
    PROVE  /\ t \in Markers
           /\ t \in {v.marker, "invalid"} \/ (t \in Times /\ v.marker \in Times)
           /\ t # "invalid" => v.markerSrc # "invalid"
BY DEF Values, VFCs, Markers, Times

\* A vfc whose marker is invalid yields only "invalid".
LEMMA InvalidValues ==
    ASSUME NEW v \in VFCs, NEW reading \in BOOLEAN,
           v.marker = "invalid" \/ v.markerSrc = "invalid"
    PROVE  Values(v, reading) = {"invalid"}
BY DEF Values, VFCs, Markers

\* Reading a vfc changes at most rolledOver_.
LEMMA AfterReadFacts ==
    ASSUME NEW v \in VFCs, NEW reading \in BOOLEAN
    PROVE  /\ AfterRead(v, reading) \in VFCs
           /\ AfterRead(v, reading).marker = v.marker
           /\ AfterRead(v, reading).markerSrc = v.markerSrc
BY DEF AfterRead, VFCs

\* So a step that only reads one vfc keeps the markers of all.
LEMMA ReadKeepsMarkers ==
    ASSUME vfc \in [Clocks -> VFCs],
           NEW c \in Clocks, NEW d \in Clocks, NEW reading \in BOOLEAN,
           vfc' = [vfc EXCEPT ![c] = AfterRead(vfc[c], reading)]
    PROVE  vfc'[d].marker = vfc[d].marker /\ vfc'[d].markerSrc = vfc[d].markerSrc
<1>1. CASE d = c
  BY <1>1, AfterReadFacts
<1>2. CASE d # c
  BY <1>2
<1> QED
  BY <1>1, <1>2

\* setValue() stores the given time.
LEMMA SetValueFacts ==
    ASSUME NEW v \in VFCs, NEW t \in Markers, NEW reading \in BOOLEAN
    PROVE  SetValue(v, t, reading) \in VFCs /\ SetValue(v, t, reading).marker = t
BY DEF SetValue, Source, VFCs

\* updateMarkers() keeps the vfc's time, or makes it wrong or invalid: it invents none.
LEMMA UpdatedMarkersFacts ==
    ASSUME NEW v \in VFCs, NEW reading1 \in BOOLEAN, NEW reading2 \in BOOLEAN,
           NEW w \in UpdatedMarkers(v, reading1, reading2)
    PROVE  /\ w \in VFCs
           /\ w.marker \in {v.marker, "invalid"} \/ (w.marker \in Times /\ v.marker \in Times)
<1>1. CASE v.rolledOver
  BY <1>1 DEF UpdatedMarkers
<1>2. CASE ~v.rolledOver
  <2>1. PICK t \in Values(v, reading1) : w = SetValue(v, t, reading2)
    BY <1>2 DEF UpdatedMarkers
  <2> QED
    BY <2>1, ValuesFacts, SetValueFacts
<1> QED
  BY <1>1, <1>2

\* A frequency changes nothing else of a vfc.
LEMMA FrequencyFacts ==
    ASSUME NEW v \in VFCs, NEW a \in Averages, NEW f \in Frequencies(a)
    PROVE  [v EXCEPT !.frequency = f] \in VFCs /\ [v EXCEPT !.frequency = f].marker = v.marker
<1>1. f \in {"settled", "off", "garbled"}
  BY DEF Frequencies
<1> QED
  BY <1>1 DEF VFCs

\* An average is a number within its bound, or one of the two that aren't finite.
LEMMA AverageType ==
    ASSUME average \in [Clocks -> Averages], NEW c \in Clocks
    PROVE  NextAverages(c) \subseteq Averages
<1>1. average[c] \in Averages
  OBVIOUS
<1>2. ASSUME NEW n \in 0..MaxError PROVE (IF n = 0 THEN 0 ELSE n - 1) \in 0..MaxError
  BY AverageAssumption
<1> QED
  BY <1>1, <1>2 DEF NextAverages, Averages

\* So what setFrequency() leaves of a vfc.
LEMMA AdjustBeginFacts ==
    ASSUME TypeOK, NEW c \in Clocks, AdjustBegin(c)
    PROVE  \E w \in VFCs :
              /\ vfc' = [vfc EXCEPT ![c] = w]
              /\ \/ w.marker \in {vfc[c].marker, "invalid"}
                 \/ w.marker \in Times /\ vfc[c].marker \in Times
<1>1. PICK reading1 \in BOOLEAN, reading2 \in BOOLEAN :
        \E w \in UpdatedMarkers(vfc[c], reading1, reading2) : vfc' = [vfc EXCEPT ![c] = w]
  BY ReadingType DEF AdjustBegin
<1>2. vfc[c] \in VFCs
  BY DEF TypeOK
<1> QED
  BY <1>1, <1>2, UpdatedMarkersFacts

LEMMA AdjustEndFacts ==
    ASSUME TypeOK, NEW c \in Clocks, AdjustEnd(c)
    PROVE  \E w \in VFCs :
              /\ vfc' = [vfc EXCEPT ![c] = w]
              /\ \/ w.marker \in {vfc[c].marker, "invalid"}
                 \/ w.marker \in Times /\ vfc[c].marker \in Times
<1>1. PICK f \in Frequencies(average[c]), reading1 \in BOOLEAN, reading2 \in BOOLEAN :
        \E w \in UpdatedMarkers([vfc[c] EXCEPT !.frequency = f], reading1, reading2) :
           vfc' = [vfc EXCEPT ![c] = w]
  BY ReadingType DEF AdjustEnd
<1>2. vfc[c] \in VFCs /\ average[c] \in Averages
  BY DEF TypeOK
<1> DEFINE v == [vfc[c] EXCEPT !.frequency = f]
<1>3. v \in VFCs /\ v.marker = vfc[c].marker
  BY <1>2, FrequencyFacts
<1>4. PICK w \in UpdatedMarkers(v, reading1, reading2) : vfc' = [vfc EXCEPT ![c] = w]
  BY <1>1
<1> HIDE DEF v
<1> QED
  BY <1>3, <1>4, UpdatedMarkersFacts

\* A measured phase is one of PhaseValues, or Invalid.
LEMMA PhasesType == \A t : Phases(t) \subseteq PhaseValues \cup {Invalid}
BY DEF Phases

\* A valid phase is a number.
LEMMA PhaseNumbers == \A p \in PhaseValues \cup {Invalid, 0} : p # Invalid => p \in Int
<1>1. PhaseValues \subseteq Int
  BY PhaseAssumption
<1> QED
  BY <1>1

\* A number is large or between the thresholds.
LEMMA LargeFacts ==
    ASSUME NEW p \in Int
    PROVE  IsLarge(p) <=> p \notin -PhasePanic .. PhasePanic
BY PhaseAssumption DEF IsLarge

-----------------------------------------------------------------------------
(* Types *)

LEMMA TypeInit == Init => TypeOK
<1> SUFFICES ASSUME Init PROVE TypeOK
  OBVIOUS
<1>1. vfc \in [Clocks -> VFCs]
  <2>1. PICK reading \in BOOLEAN : vfc = [c \in Clocks |-> NewVFC(reading)]
    BY Zenon DEF Init
  <2>2. NewVFC(reading) \in VFCs
    BY DEF NewVFC, Source, VFCs, Markers
  <2> QED
    BY <2>1, <2>2
<1>2. average \in [Clocks -> Averages]
  BY AverageAssumption DEF Init, Averages
<1>3. NoSample \in Samples
  BY DEF NoSample, Samples
<1>4. sample \in [Clocks -> Samples] /\ measured \in [Clocks -> Samples]
  <2> HIDE DEF NoSample
  <2> QED
    BY <1>3 DEF Init
<1> QED
  BY <1>1, <1>2, <1>4 DEF Init, TypeOK, Places, Bases

LEMMA TypeStep == TypeOK /\ [Next]_vars => TypeOK'
<1> SUFFICES ASSUME TypeOK, [Next]_vars PROVE TypeOK'
  OBVIOUS
<1> USE DEF TypeOK, Goto, Release, Acquire, LoseSync, Places, Waiting, Critical,
            Bases, world, samples, updaters
<1>1. ASSUME NEW c \in Clocks, UpdateBegin(c) PROVE TypeOK'
  BY <1>1 DEF UpdateBegin
<1>2. ASSUME NEW c \in Clocks, PhaseLost(c) PROVE TypeOK'
  BY <1>2 DEF PhaseLost
<1>3. ASSUME NEW c \in Clocks, PhaseKept(c) PROVE TypeOK'
  <2>1. PICK a \in Averages : average' = [average EXCEPT ![c] = a]
    BY <1>3, AverageType DEF PhaseKept
  <2> QED
    BY <1>3, <2>1 DEF PhaseKept
<1>4. ASSUME NEW c \in Clocks, AdjustBegin(c) PROVE TypeOK'
  <2>1. PICK w \in VFCs : vfc' = [vfc EXCEPT ![c] = w]
    BY <1>4, AdjustBeginFacts
  <2> QED
    BY <1>4, <2>1 DEF AdjustBegin
<1>5. ASSUME NEW c \in Clocks, AdjustEnd(c) PROVE TypeOK'
  <2>1. PICK w \in VFCs : vfc' = [vfc EXCEPT ![c] = w]
    BY <1>5, AdjustEndFacts
  <2> QED
    BY <1>5, <2>1 DEF AdjustEnd
<1>6. ASSUME NEW c \in Clocks, SetClock(c) PROVE TypeOK'
  BY <1>6 DEF SetClock
<1>7. ASSUME NEW c \in Clocks, ResetBegin(c) PROVE TypeOK'
  BY <1>7 DEF ResetBegin
<1>8. ASSUME NEW c \in Clocks, ResetEnd(c) PROVE TypeOK'
  <2>1. PICK t \in Markers, reading \in BOOLEAN :
          /\ vfc' = [vfc EXCEPT ![c] = SetValue(vfc[c], t, reading)]
          /\ basis' = [basis EXCEPT ![c] = IF t = "invalid" THEN "none" ELSE "reset"]
    BY <1>8, ReadingType DEF ResetEnd, Markers
  <2>2. SetValue(vfc[c], t, reading) \in VFCs
    BY SetValueFacts
  <2> QED
    BY <1>8, <2>1, <2>2 DEF ResetEnd
<1>9. ASSUME NEW c \in Clocks, MeasureBegin(c) PROVE TypeOK'
  BY <1>9 DEF MeasureBegin
<1>10. ASSUME NEW c \in Clocks, MeasureEnd(c) PROVE TypeOK'
  <2>1. PICK reading \in BOOLEAN, p \in PhaseValues \cup {Invalid} :
          /\ vfc' = [vfc EXCEPT ![c] = AfterRead(vfc[c], reading)]
          /\ measured' = [measured EXCEPT ![c].phase = p, ![c].since = Since(c)]
    BY <1>10, ReadingType, PhasesType DEF MeasureEnd
  <2>2. AfterRead(vfc[c], reading) \in VFCs
    BY AfterReadFacts
  <2>3. measured' \in [Clocks -> Samples]
    <3>1. \A s \in Samples : [s EXCEPT !.phase = p, !.since = Since(c)] \in Samples
      <4>1. Since(c) \in 0..2
        BY DEF Since
      <4> QED
        BY <4>1 DEF Samples
    <3>2. measured \in [Clocks -> Samples]
      OBVIOUS
    <3> HIDE DEF TypeOK
    <3> QED
      BY <2>1, <3>1, <3>2
  <2> QED
    BY <1>10, <2>1, <2>2, <2>3 DEF MeasureEnd
<1>11. ASSUME NEW c \in Clocks, ReadClocks(c) PROVE TypeOK'
  <2>1. PICK reading1 \in BOOLEAN, reading2 \in BOOLEAN :
          /\ vfc' = [vfc EXCEPT ![c] = AfterRead(vfc[c], reading1)]
          /\ measured' = [measured EXCEPT ![c] =
                 [measured[c] EXCEPT
                    !.variable = Validity("invalid" \notin Values(vfc[c], reading1)),
                    !.primary = Validity(reading2)]]
    BY <1>11, ReadingType DEF ReadClocks
  <2>2. AfterRead(vfc[c], reading1) \in VFCs
    BY AfterReadFacts
  <2>3. measured' \in [Clocks -> Samples]
    <3>1. ASSUME NEW b \in BOOLEAN PROVE Validity(b) \in {"valid", "invalid"}
      BY DEF Validity
    <3>2. ("invalid" \notin Values(vfc[c], reading1)) \in BOOLEAN
      OBVIOUS
    <3> HIDE DEF TypeOK
    <3>3. ASSUME NEW v \in {"valid", "invalid"}, NEW p \in {"valid", "invalid"}
          PROVE  [measured[c] EXCEPT !.variable = v, !.primary = p] \in Samples
      <4>1. measured[c] \in Samples
        BY DEF TypeOK
      <4> QED
        BY <4>1 DEF Samples
    <3> QED
      BY <2>1, <3>1, <3>2, <3>3 DEF TypeOK
  <2> QED
    BY <1>11, <2>1, <2>2, <2>3 DEF ReadClocks
<1>12. ASSUME NEW c \in Clocks, MeasurementLost(c) PROVE TypeOK'
  BY <1>12 DEF MeasurementLost, NoSample, Samples
<1>13. ASSUME NEW c \in Clocks, Record(c) PROVE TypeOK'
  BY <1>13 DEF Record, NoSample, Samples
<1>14. ASSUME NEW c \in Clocks, Stamp(c) PROVE TypeOK'
  BY <1>14 DEF Stamp
<1>15. ASSUME NEW c \in Clocks, RunEnd(c) PROVE TypeOK'
  BY <1>15 DEF RunEnd
<1>16. ASSUME NEW r \in Readers, Reader(r) PROVE TypeOK'
  <2>1. CASE \E c \in Clocks : GetValueBegin(r, c) \/ GetOffsetBegin(r, c)
    BY <2>1 DEF GetValueBegin, GetOffsetBegin
  <2>2. CASE GetValueEnd(r)
    <3>1. PICK c \in Clocks, reading \in BOOLEAN :
            vfc' = [vfc EXCEPT ![c] = AfterRead(vfc[c], reading)]
      BY <2>2, ReadingType DEF GetValueEnd
    <3>2. AfterRead(vfc[c], reading) \in VFCs
      BY AfterReadFacts
    <3> QED
      BY <2>2, <3>1, <3>2 DEF GetValueEnd
  <2>3. CASE GetOffsetEnd(r)
    BY <2>3 DEF GetOffsetEnd
  <2> QED
    BY <1>16, <2>1, <2>2, <2>3 DEF Reader
<1>17. CASE Environment
  <2>1. CASE EndClocks \/ Settle
    BY <2>1 DEF EndClocks, Settle
  <2>2. ASSUME NEW c \in Clocks, Drift(c) PROVE TypeOK'
    <3> DEFINE m == IF vfc[c].marker = "locked" THEN "adrift" ELSE "locked"
    <3>1. [vfc[c] EXCEPT !.marker = m] \in VFCs
      <4>1. m \in Markers /\ vfc[c] \in VFCs
        BY DEF Markers
      <4> HIDE DEF m, TypeOK
      <4> QED
        BY <4>1 DEF VFCs
    <3>2. vfc' = [vfc EXCEPT ![c] = [vfc[c] EXCEPT !.marker = m]]
      BY <2>2 DEF Drift
    <3> HIDE DEF m
    <3> QED
      BY <2>2, <3>1, <3>2 DEF Drift
  <2>3. ASSUME NEW c \in Clocks, UpdateAges(c) PROVE TypeOK'
    BY <2>3 DEF UpdateAges
  <2>4. ASSUME NEW c \in Clocks, PrimaryStepsBack(c) \/ PrimaryCatchesUp(c) PROVE TypeOK'
    <3>1. \A src \in {"past", "future"} : [vfc[c] EXCEPT !.markerSrc = src] \in VFCs
      BY DEF VFCs
    <3>2. PICK src \in {"past", "future"} :
            vfc' = [vfc EXCEPT ![c] = [vfc[c] EXCEPT !.markerSrc = src]]
      BY <2>4 DEF PrimaryStepsBack, PrimaryCatchesUp
    <3> QED
      BY <2>4, <3>1, <3>2 DEF PrimaryStepsBack, PrimaryCatchesUp
  <2> QED
    BY <1>17, <2>1, <2>2, <2>3, <2>4 DEF Environment
<1>18. CASE Joined \/ UNCHANGED vars
  BY <1>18 DEF Joined, vars
<1> QED
  BY <1>1, <1>2, <1>3, <1>4, <1>5, <1>6, <1>7, <1>8, <1>9, <1>10, <1>11, <1>12, <1>13, <1>14, <1>15, <1>16, <1>17, <1>18 DEF Next, Updater

-----------------------------------------------------------------------------
(* Mutual exclusion *)

LEMMA MutexStep == TypeOK /\ MutexInv /\ [Next]_vars => MutexInv'
<1> SUFFICES ASSUME TypeOK, MutexInv, [Next]_vars PROVE MutexInv'
  OBVIOUS
<1> USE NoneAssumption DEF TypeOK, MutexInv, Goto, Release, Acquire, Places,
        Waiting, Critical, world, samples, updaters
<1>1. ASSUME NEW c \in Clocks, UpdateBegin(c) PROVE MutexInv'
  BY <1>1 DEF UpdateBegin
<1>2. ASSUME NEW c \in Clocks, PhaseLost(c) PROVE MutexInv'
  BY <1>2 DEF PhaseLost
<1>3. ASSUME NEW c \in Clocks, PhaseKept(c) PROVE MutexInv'
  BY <1>3 DEF PhaseKept
<1>4. ASSUME NEW c \in Clocks, AdjustBegin(c) PROVE MutexInv'
  BY <1>4 DEF AdjustBegin
<1>5. ASSUME NEW c \in Clocks, AdjustEnd(c) PROVE MutexInv'
  BY <1>5 DEF AdjustEnd
<1>6. ASSUME NEW c \in Clocks, SetClock(c) PROVE MutexInv'
  BY <1>6 DEF SetClock
<1>7. ASSUME NEW c \in Clocks, ResetBegin(c) PROVE MutexInv'
  BY <1>7 DEF ResetBegin
<1>8. ASSUME NEW c \in Clocks, ResetEnd(c) PROVE MutexInv'
  BY <1>8 DEF ResetEnd
<1>9. ASSUME NEW c \in Clocks, MeasureBegin(c) PROVE MutexInv'
  BY <1>9 DEF MeasureBegin
<1>10. ASSUME NEW c \in Clocks, MeasureEnd(c) PROVE MutexInv'
  BY <1>10 DEF MeasureEnd
<1>11. ASSUME NEW c \in Clocks, ReadClocks(c) PROVE MutexInv'
  BY <1>11 DEF ReadClocks
<1>12. ASSUME NEW c \in Clocks, MeasurementLost(c) PROVE MutexInv'
  BY <1>12 DEF MeasurementLost
<1>13. ASSUME NEW c \in Clocks, Record(c) PROVE MutexInv'
  BY <1>13 DEF Record
<1>14. ASSUME NEW c \in Clocks, Stamp(c) PROVE MutexInv'
  BY <1>14 DEF Stamp
<1>15. ASSUME NEW c \in Clocks, RunEnd(c) PROVE MutexInv'
  BY <1>15 DEF RunEnd
<1>16. ASSUME NEW r \in Readers, Reader(r) PROVE MutexInv'
  BY <1>16 DEF Reader, GetValueBegin, GetValueEnd, GetOffsetBegin, GetOffsetEnd
<1>17. CASE Environment
  BY <1>17 DEF Environment, EndClocks, Settle, Drift, UpdateAges, PrimaryStepsBack,
     PrimaryCatchesUp
<1>18. CASE Joined \/ UNCHANGED vars
  BY <1>18 DEF Joined, vars
<1> QED
  BY <1>1, <1>2, <1>3, <1>4, <1>5, <1>6, <1>7, <1>8, <1>9, <1>10, <1>11, <1>12, <1>13, <1>14, <1>15, <1>16, <1>17, <1>18 DEF Next, Updater

-----------------------------------------------------------------------------
(* Synchronization *)

LEMMA SyncStep == TypeOK /\ SyncInv /\ [Next]_vars => SyncInv'
<1> SUFFICES ASSUME TypeOK, SyncInv, [Next]_vars, NEW d \in Clocks PROVE Sync(d)'
  BY DEF SyncInv
<1> USE DEF TypeOK, SyncInv, Sync, Locked, Resting, Measuring, Goto, Release,
        Acquire, LoseSync, world, samples, updaters
<1>1. ASSUME NEW c \in Clocks, UpdateBegin(c) PROVE Sync(d)'
  BY <1>1 DEF UpdateBegin
<1>2. ASSUME NEW c \in Clocks, PhaseLost(c) PROVE Sync(d)'
  BY <1>2 DEF PhaseLost
<1>3. ASSUME NEW c \in Clocks, PhaseKept(c) PROVE Sync(d)'
  <2>1. sample[c].phase \in Int
    <3>1. sample[c] \in Samples /\ sample[c].phase # Invalid
      BY <1>3 DEF PhaseKept
    <3> QED
      BY <3>1, PhaseNumbers DEF Samples
  <2>2. sample[c].phase \in -PhasePanic .. PhasePanic
    BY <1>3, <2>1, LargeFacts DEF PhaseKept
  <2> QED
    BY <1>3, <2>2 DEF PhaseKept
<1>4. ASSUME NEW c \in Clocks, AdjustBegin(c) PROVE Sync(d)'
  <2>1. PICK w \in VFCs :
          /\ vfc' = [vfc EXCEPT ![c] = w]
          /\ \/ w.marker \in {vfc[c].marker, "invalid"}
             \/ w.marker \in Times /\ vfc[c].marker \in Times
    BY <1>4, AdjustBeginFacts
  <2>2. \/ vfc'[c].marker \in {vfc[c].marker, "invalid"}
        \/ vfc'[c].marker \in Times /\ vfc[c].marker \in Times
    BY <2>1
  <2>3. d # c => vfc'[d] = vfc[d]
    BY <2>1
  <2> QED
    BY <1>4, <2>2, <2>3 DEF AdjustBegin, Times
<1>5. ASSUME NEW c \in Clocks, AdjustEnd(c) PROVE Sync(d)'
  <2>1. PICK w \in VFCs :
          /\ vfc' = [vfc EXCEPT ![c] = w]
          /\ \/ w.marker \in {vfc[c].marker, "invalid"}
             \/ w.marker \in Times /\ vfc[c].marker \in Times
    BY <1>5, AdjustEndFacts
  <2>2. \/ vfc'[c].marker \in {vfc[c].marker, "invalid"}
        \/ vfc'[c].marker \in Times /\ vfc[c].marker \in Times
    BY <2>1
  <2>3. d # c => vfc'[d] = vfc[d]
    BY <2>1
  <2> QED
    BY <1>5, <2>2, <2>3 DEF AdjustEnd, Times
<1>6. ASSUME NEW c \in Clocks, SetClock(c) PROVE Sync(d)'
  BY <1>6 DEF SetClock
<1>7. ASSUME NEW c \in Clocks, ResetBegin(c) PROVE Sync(d)'
  BY <1>7 DEF ResetBegin
<1>8. ASSUME NEW c \in Clocks, ResetEnd(c) PROVE Sync(d)'
  <2>1. PICK t \in {"locked", "invalid"}, reading \in BOOLEAN :
          /\ vfc' = [vfc EXCEPT ![c] = SetValue(vfc[c], t, reading)]
          /\ basis' = [basis EXCEPT ![c] = IF t = "invalid" THEN "none" ELSE "reset"]
    <3> HIDE DEF TypeOK, SyncInv, Sync, Locked, Resting, Measuring
    <3> QED
      BY <1>8, ReadingType DEF ResetEnd
  <2>2. vfc'[c].marker = t
    <3>1. t \in Markers /\ vfc[c] \in VFCs
      BY DEF Markers
    <3>2. SetValue(vfc[c], t, reading).marker = t
      BY <3>1, SetValueFacts
    <3> QED
      BY <2>1, <3>2
  <2>3. d # c => vfc'[d] = vfc[d]
    BY <2>1
  <2> QED
    BY <1>8, <2>1, <2>2, <2>3 DEF ResetEnd
<1>9. ASSUME NEW c \in Clocks, MeasureBegin(c) PROVE Sync(d)'
  BY <1>9 DEF MeasureBegin
<1>10. ASSUME NEW c \in Clocks, MeasureEnd(c) PROVE Sync(d)'
  <2>1. PICK reading \in BOOLEAN :
          vfc' = [vfc EXCEPT ![c] = AfterRead(vfc[c], reading)]
    BY <1>10, ReadingType DEF MeasureEnd
  <2>2. vfc'[d].marker = vfc[d].marker /\ vfc'[d].markerSrc = vfc[d].markerSrc
    BY <2>1, ReadKeepsMarkers
  <2>3. d # c => measured'[d] = measured[d]
    BY <1>10 DEF MeasureEnd
  <2> QED
    BY <1>10, <2>2, <2>3 DEF MeasureEnd
<1>11. ASSUME NEW c \in Clocks, ReadClocks(c) PROVE Sync(d)'
  <2>1. PICK reading1 \in BOOLEAN, reading2 \in BOOLEAN :
          /\ vfc' = [vfc EXCEPT ![c] = AfterRead(vfc[c], reading1)]
          /\ measured' = [measured EXCEPT ![c] =
                 [measured[c] EXCEPT
                    !.variable = Validity("invalid" \notin Values(vfc[c], reading1)),
                    !.primary = Validity(reading2)]]
    BY <1>11, ReadingType DEF ReadClocks
  <2>2. vfc'[d].marker = vfc[d].marker /\ vfc'[d].markerSrc = vfc[d].markerSrc
    BY <2>1, ReadKeepsMarkers
  <2>3. d # c => measured'[d] = measured[d]
    BY <2>1
  <2>4. vfc[c].marker \in {"locked", "adrift", "invalid"}
    BY <1>11 DEF ReadClocks, VFCs, Markers
  <2>5. measured'[c].variable = "valid" => Locked(c)
    <3>1. measured'[c].variable = Validity("invalid" \notin Values(vfc[c], reading1))
      BY <2>1 DEF Samples
    <3> QED
      BY <2>4, <3>1, InvalidValues DEF Validity, Times
  <2> QED
    BY <1>11, <2>2, <2>3, <2>5 DEF ReadClocks
<1>12. ASSUME NEW c \in Clocks, MeasurementLost(c) PROVE Sync(d)'
  BY <1>12 DEF MeasurementLost
<1>13. ASSUME NEW c \in Clocks, Record(c) PROVE Sync(d)'
  <2>1. Locked(c) /\ UNCHANGED vfc
    BY <1>13 DEF Record, Usable
  <2>2. d # c => measured'[d] = measured[d]
    BY <1>13 DEF Record
  <2> QED
    BY <1>13, <2>1, <2>2 DEF Record
<1>14. ASSUME NEW c \in Clocks, Stamp(c) PROVE Sync(d)'
  BY <1>14 DEF Stamp
<1>15. ASSUME NEW c \in Clocks, RunEnd(c) PROVE Sync(d)'
  BY <1>15 DEF RunEnd
<1>16. ASSUME NEW r \in Readers, Reader(r) PROVE Sync(d)'
  <2>1. CASE \E c \in Clocks : GetValueBegin(r, c) \/ GetOffsetBegin(r, c)
    BY <2>1 DEF GetValueBegin, GetOffsetBegin
  <2>2. CASE GetValueEnd(r)
    <3>1. PICK c \in Clocks, reading \in BOOLEAN :
            vfc' = [vfc EXCEPT ![c] = AfterRead(vfc[c], reading)]
      BY <2>2, ReadingType DEF GetValueEnd
    <3>2. vfc'[d].marker = vfc[d].marker /\ vfc'[d].markerSrc = vfc[d].markerSrc
      BY <3>1, ReadKeepsMarkers
    <3> QED
      BY <2>2, <3>2 DEF GetValueEnd
  <2>3. CASE GetOffsetEnd(r)
    BY <2>3 DEF GetOffsetEnd
  <2> QED
    BY <1>16, <2>1, <2>2, <2>3 DEF Reader
<1>17. CASE Environment
  <2>1. CASE EndClocks \/ Settle
    BY <2>1 DEF EndClocks, Settle
  <2>2. ASSUME NEW c \in Clocks, Drift(c) PROVE Sync(d)'
    <3>1. vfc'[d].markerSrc = vfc[d].markerSrc
      BY <2>2 DEF Drift, VFCs
    <3>2. \/ vfc'[d].marker = vfc[d].marker
          \/ vfc[d].marker \in {"locked", "adrift"} /\ vfc'[d].marker \in {"locked", "adrift"}
      BY <2>2 DEF Drift, VFCs
    <3> QED
      BY <2>2, <3>1, <3>2 DEF Drift
  <2>3. ASSUME NEW c \in Clocks, UpdateAges(c) PROVE Sync(d)'
    BY <2>3 DEF UpdateAges
  <2>4. ASSUME NEW c \in Clocks, PrimaryStepsBack(c) \/ PrimaryCatchesUp(c) PROVE Sync(d)'
    <3>0. PICK src \in {"past", "future"} :
            vfc' = [vfc EXCEPT ![c] = [vfc[c] EXCEPT !.markerSrc = src]]
      BY <2>4 DEF PrimaryStepsBack, PrimaryCatchesUp
    <3>1. vfc'[d].marker = vfc[d].marker
      BY <3>0 DEF VFCs
    <3>2. vfc[d].markerSrc # "invalid" => vfc'[d].markerSrc # "invalid"
      BY <3>0 DEF VFCs
    <3>3. UNCHANGED <<pc, inSync, basis, sample, measured>>
      BY <2>4 DEF PrimaryStepsBack, PrimaryCatchesUp
    <3>4. Locked(d) => Locked(d)'
      BY <3>1, <3>2
    <3> HIDE DEF Locked
    <3> QED
      BY <3>1, <3>3, <3>4
  <2> QED
    BY <1>17, <2>1, <2>2, <2>3, <2>4 DEF Environment
<1>18. CASE Joined \/ UNCHANGED vars
  BY <1>18 DEF Joined, vars
<1> QED
  BY <1>1, <1>2, <1>3, <1>4, <1>5, <1>6, <1>7, <1>8, <1>9, <1>10, <1>11, <1>12, <1>13, <1>14, <1>15, <1>16, <1>17, <1>18 DEF Next, Updater

-----------------------------------------------------------------------------
(* Samples *)

LEMMA SamplesStep == TypeOK /\ SamplesValid /\ [Next]_vars => SamplesValid'
<1> SUFFICES ASSUME TypeOK, SamplesValid, [Next]_vars PROVE SamplesValid'
  OBVIOUS
<1> USE DEF SamplesValid, world, samples, updaters
<1>1. ASSUME NEW c \in Clocks, Record(c) PROVE SamplesValid'
  BY <1>1 DEF Record, Usable, TypeOK
<1>2. ASSUME NEW c \in Clocks, Updater(c), ~Record(c) PROVE SamplesValid'
  <2>1. UNCHANGED sample
    BY <1>2 DEF Updater, UpdateBegin, PhaseLost, PhaseKept, AdjustBegin, AdjustEnd,
       SetClock, ResetBegin, ResetEnd, MeasureBegin, MeasureEnd,
       ReadClocks, MeasurementLost, Stamp, RunEnd
  <2> QED
    BY <2>1
<1>3. ASSUME NEW r \in Readers, Reader(r) PROVE SamplesValid'
  BY <1>3 DEF Reader, GetValueBegin, GetValueEnd, GetOffsetBegin, GetOffsetEnd
<1>4. CASE Environment
  BY <1>4 DEF Environment, EndClocks, Settle, Drift, UpdateAges, PrimaryStepsBack,
     PrimaryCatchesUp
<1>5. CASE Joined \/ UNCHANGED vars
  BY <1>5 DEF Joined, vars
<1> QED
  BY <1>1, <1>2, <1>3, <1>4, <1>5 DEF Next

-----------------------------------------------------------------------------
(* The theorems *)

LEMMA Invariance == Spec => []IInv
<1>1. Init => IInv
  <2> SUFFICES ASSUME Init PROVE IInv
    OBVIOUS
  <2>1. MutexInv
    BY NoneAssumption DEF Init, MutexInv, Critical
  <2>2. SyncInv
    BY DEF Init, SyncInv, Sync, Resting, Measuring
  <2>3. SamplesValid
    <3>1. 0 # Invalid
      BY PhaseAssumption
    <3> QED
      BY <3>1 DEF Init, SamplesValid, NoSample
  <2> QED
    BY <2>1, <2>2, <2>3, TypeInit DEF IInv
<1>2. IInv /\ [Next]_vars => IInv'
  BY TypeStep, MutexStep, SyncStep, SamplesStep DEF IInv
<1> QED
  BY <1>1, <1>2, PTL DEF Spec

\* Every variable keeps its type, for any clocks, readers, phases and threshold.
THEOREM TypeCorrect == Spec => []TypeOK
BY Invariance, PTL DEF IInv

\* No invalid number enters a sample: "None of these are invalid" is true of
\* every line of updatePhase() and updateClock() that says so.
THEOREM SamplesAreValid == Spec => []SamplesValid
BY Invariance, PTL DEF IInv

\* A clock that is in sync between updates has been reset to the reference and
\* measured against it since it last lost sync.
THEOREM SyncEarned == Spec => []SyncIsEarned
<1>1. IInv => SyncIsEarned
  BY DEF IInv, SyncInv, Sync, Locked, Resting, SyncIsEarned
<1> QED
  BY <1>1, Invariance, PTL

\* A clock that claims sync without having been set reads as invalid, outside
\* setClock().
THEOREM UnsetIsInvalid == Spec => []UnsetClockIsInvalid
<1>1. IInv => UnsetClockIsInvalid
  BY DEF IInv, TypeOK, SyncInv, Sync, Resting, Measuring, UnsetClockIsInvalid, Places,
     Waiting, Critical
<1> QED
  BY <1>1, Invariance, PTL

\* updateClock() steers the vfc only by a small phase, measured on this vfc.
THEOREM SteeringFresh == Spec => []SteersByFreshPhase
<1>1. IInv => SteersByFreshPhase
  BY DEF IInv, TypeOK, SyncInv, Sync, Resting, SteersByFreshPhase
<1> QED
  BY <1>1, Invariance, PTL

\* Updaters that share a reference clock are never in it at once, however many.
THEOREM ReferenceIsExclusive == Spec => []ReferenceExclusive
<1>1. IInv => ReferenceExclusive
  BY DEF IInv, MutexInv, Critical, ReferenceExclusive
<1> QED
  BY <1>1, Invariance, PTL

\* Nobody changes a vfc without the mutex: neither updaters nor readers.
THEOREM VfcIsGuarded == Spec => VfcGuarded
<1> DEFINE Guarded(d) ==
      VfcTouched(d) => mutexPLC = None \/ (mutexPLC = d /\ pc'[d] # pc[d])
<1>1. TypeOK /\ MutexInv /\ [Next]_vars => \A d \in Clocks : Guarded(d)
  <2> SUFFICES ASSUME TypeOK, MutexInv, [Next]_vars, NEW d \in Clocks PROVE Guarded(d)
    OBVIOUS
  <2> USE DEF world, samples, updaters
  <2>1. ASSUME NEW c \in Clocks,
               AdjustEnd(c) \/ ResetEnd(c) \/ MeasureEnd(c) \/ ReadClocks(c)
        PROVE  Guarded(d)
    <3>1. mutexPLC = c
      BY <2>1 DEF MutexInv, Critical, AdjustEnd, ResetEnd, MeasureEnd, ReadClocks
    <3>2. pc'[c] # pc[c]
      BY <2>1 DEF TypeOK, Goto, AdjustEnd, ResetEnd, MeasureEnd, ReadClocks
    <3>3. d # c => vfc'[d] = vfc[d]
      BY <2>1 DEF TypeOK, AdjustEnd, ResetEnd, MeasureEnd, ReadClocks
    <3> QED
      BY <3>1, <3>2, <3>3 DEF VfcTouched
  <2>2. ASSUME NEW c \in Clocks, AdjustBegin(c) PROVE Guarded(d)
    BY <2>2 DEF AdjustBegin
  <2>3. ASSUME NEW c \in Clocks, Updater(c),
               ~(AdjustBegin(c) \/ AdjustEnd(c) \/ ResetEnd(c) \/ MeasureEnd(c) \/ ReadClocks(c))
        PROVE  Guarded(d)
    <3>1. UNCHANGED vfc
      BY <2>3 DEF Updater, UpdateBegin, PhaseLost, PhaseKept, SetClock, ResetBegin,
         MeasureBegin, MeasurementLost, Record, Stamp, RunEnd
    <3> QED
      BY <3>1 DEF VfcTouched
  <2>4. ASSUME NEW r \in Readers, Reader(r) PROVE Guarded(d)
    <3>1. CASE GetValueEnd(r)
      BY <3>1 DEF GetValueEnd, Guard
    <3>2. CASE ~GetValueEnd(r)
      BY <2>4, <3>2 DEF Reader, GetValueBegin, GetOffsetBegin, GetOffsetEnd, VfcTouched
    <3> QED
      BY <3>1, <3>2
  <2>5. CASE Environment
    <3>1. CASE EndClocks \/ Settle
      BY <3>1 DEF EndClocks, Settle, VfcTouched
    <3>2. ASSUME NEW c \in Clocks, UpdateAges(c) PROVE Guarded(d)
      BY <3>2 DEF UpdateAges, VfcTouched
    <3>3. ASSUME NEW c \in Clocks, Drift(c) PROVE Guarded(d)
      <4>1. vfc'[d].rolledOver = vfc[d].rolledOver
        BY <3>3 DEF Drift, TypeOK, VFCs
      <4>2. \/ vfc'[d].marker = vfc[d].marker
            \/ {vfc'[d].marker, vfc[d].marker} = {"locked", "adrift"}
        BY <3>3 DEF Drift, TypeOK, VFCs
      <4> QED
        BY <4>1, <4>2 DEF VfcTouched
    <3>4. ASSUME NEW c \in Clocks, PrimaryStepsBack(c) \/ PrimaryCatchesUp(c)
          PROVE  Guarded(d)
      <4>1. PICK src \in {"past", "future"} :
              vfc' = [vfc EXCEPT ![c] = [vfc[c] EXCEPT !.markerSrc = src]]
        BY <3>4 DEF PrimaryStepsBack, PrimaryCatchesUp
      <4>2. vfc'[d].marker = vfc[d].marker /\ vfc'[d].rolledOver = vfc[d].rolledOver
        BY <4>1 DEF TypeOK, VFCs
      <4> QED
        BY <4>2 DEF VfcTouched
    <3> QED
      BY <2>5, <3>1, <3>2, <3>3, <3>4 DEF Environment
  <2>6. CASE Joined \/ UNCHANGED vars
    BY <2>6 DEF Joined, vars, VfcTouched
  <2> QED
    BY <2>1, <2>2, <2>3, <2>4, <2>5, <2>6 DEF Next
<1>2. IInv /\ [Next]_vars =>
        [\A c \in Clocks :
           VfcTouched(c) =>
               mutexPLC = None \/ (mutexPLC = c /\ pc'[c] # pc[c])]_vars
  BY <1>1 DEF IInv
<1> QED
  BY <1>2, Invariance, PTL DEF Spec, VfcGuarded

-----------------------------------------------------------------------------
(* Refinement *)

\* The places between which an updater of Updaters goes from one state to another.
Begins(c) == pc[c] = "sleep" /\ ~end_clocks /\ pc'[c] = "branch"
GoesOn(c) == pc[c] \notin {"sleep", "done"} /\ pc'[c] # "done"
Returns(c) == pc[c] = "sleep" /\ end_clocks /\ pc'[c] = "done"

\* Only an updater moves itself, and it moves in one of these three ways.
LEMMA MoveStep ==
    ASSUME TypeOK, NEW c \in Clocks, Updater(c)
    PROVE  /\ pc' \in [Clocks -> Places] /\ end_clocks' = end_clocks
           /\ \A d \in Clocks \ {c} : pc'[d] = pc[d]
           /\ Begins(c) \/ GoesOn(c) \/ Returns(c)
<1> USE DEF TypeOK, Goto, Places, Waiting, Critical, world, Begins, GoesOn, Returns
<1>1. CASE UpdateBegin(c) \/ PhaseLost(c) \/ PhaseKept(c)
  BY <1>1 DEF UpdateBegin, PhaseLost, PhaseKept, Running
<1>2. CASE AdjustBegin(c) \/ AdjustEnd(c)
  BY <1>2 DEF AdjustBegin, AdjustEnd
<1>3. CASE SetClock(c) \/ ResetBegin(c) \/ ResetEnd(c)
  BY <1>3 DEF SetClock, ResetBegin, ResetEnd
<1>4. CASE MeasureBegin(c) \/ MeasureEnd(c) \/ ReadClocks(c)
  BY <1>4 DEF MeasureBegin, MeasureEnd, ReadClocks
<1>5. CASE MeasurementLost(c) \/ Record(c) \/ Stamp(c) \/ RunEnd(c)
  BY <1>5 DEF MeasurementLost, Record, Stamp, RunEnd
<1> QED
  BY <1>1, <1>2, <1>3, <1>4, <1>5 DEF Updater

\* Every step is a step of Updaters, or none.
LEMMA UpdatersStep == TypeOK /\ [Next]_vars => [U!Next]_(U!vars)
<1> SUFFICES ASSUME TypeOK, [Next]_vars PROVE U!Next \/ UNCHANGED U!vars
  BY DEF U!vars
<1>1. ASSUME NEW c \in Clocks, Updater(c) PROVE U!Run(c) \/ UNCHANGED U!vars
  <2> DEFINE threads == [d \in Clocks |-> Thread(d)]
  <2>1. /\ end_clocks' = end_clocks
        /\ \A d \in Clocks \ {c} : Thread(d)' = Thread(d)
    BY <1>1, MoveStep DEF Thread
  <2>2. threads' = [threads EXCEPT ![c] = Thread(c)']
    BY <2>1
  <2>3. CASE Begins(c)
    BY <2>1, <2>2, <2>3 DEF Begins, Thread, U!Run, U!UpdateBegin, U!Becomes
  <2>4. CASE GoesOn(c) /\ pc'[c] = "sleep"
    BY <2>1, <2>2, <2>4 DEF GoesOn, Thread, U!Run, U!UpdateEnd, U!Becomes
  <2>5. CASE GoesOn(c) /\ pc'[c] # "sleep"
    BY <2>1, <2>2, <2>5 DEF GoesOn, Thread, U!vars
  <2>6. CASE Returns(c)
    BY <2>1, <2>2, <2>6 DEF Returns, Thread, U!Run, U!Return, U!Becomes
  <2> QED
    BY <1>1, <2>3, <2>4, <2>5, <2>6, MoveStep
<1>2. CASE EndClocks
  BY <1>2 DEF EndClocks, updaters, Thread, U!Next, U!EndClocks
<1>3. ASSUME UNCHANGED <<pc, end_clocks>> PROVE UNCHANGED U!vars
  BY <1>3 DEF U!vars, Thread
<1>4. ASSUME NEW r \in Readers, Reader(r) PROVE UNCHANGED U!vars
  BY <1>3, <1>4 DEF Reader, GetValueBegin, GetValueEnd, GetOffsetBegin, GetOffsetEnd, updaters
<1>5. CASE Environment /\ ~EndClocks
  BY <1>3, <1>5 DEF Environment, Settle, Drift, UpdateAges, PrimaryStepsBack,
     PrimaryCatchesUp, updaters, world
<1>6. CASE Joined \/ UNCHANGED vars
  BY <1>3, <1>6 DEF Joined, vars, updaters, world
<1> QED
  BY <1>1, <1>2, <1>4, <1>5, <1>6 DEF Next, U!Next

\* However update() branches and fails, run() updates and sleeps by turns, and once
\* end_clocks is set it returns from the next sleep.
THEOREM ImplementsUpdatersSafety == Spec => U!Safety
<1>1. Init => U!Init
  BY DEF Init, Thread, U!Init
<1>2. TypeOK /\ [Next]_vars => [U!Next]_(U!vars)
  BY UpdatersStep
<1> QED
  BY <1>1, <1>2, TypeCorrect, PTL DEF Spec, U!Safety
===========================================================================
