------------------------ MODULE FrequencyBoundsProofs ------------------------
(***************************************************************************)
(* That the estimate of the primary clock's frequency is as good as the    *)
(* measurements, and that readers never see the vfc run faster than its    *)
(* highest frequency, for any frequencies, units, errors, bounds and       *)
(* settings of clocks.                                                     *)
(***************************************************************************)
EXTENDS FrequencyLockProofs

-----------------------------------------------------------------------------
(* The inductive invariant *)

\* The vfc's frequency is one of the Speeds, unless it is NaN.
SpeedInv ==
    /\ frequency \in Frequencies \cup {0, NaN}
    /\ vfc.frequency \in Speeds \cup {NaN}

\* A sample that was recorded is complete.
Complete(s) ==
    /\ s.phase \in Int /\ s.variable \in Int /\ s.primary \in Int
    /\ s.settings \in Int /\ s.lag \in Nat /\ s.gap \in Nat

\* Where updatePhase() has the phase, and is going to read the vfc or the primary clock.
Reading == {"variableValue", "primaryValue"}

\* No sample is from a time when more clocks will have been set.
RecordInv ==
    /\ Complete(cur) /\ Complete(prev)
    /\ new.settings \in Int /\ new.settings <= settings
    /\ cur.settings <= settings

\* The time after the vfc was read has not yet begun.
GapInv == pc = "variableValue" => new.gap = 0

\* What the vfc's time has got to since its marker, n ticks ago.
ElapsedThen(n) == ((Source - n - vfc.markerSrc) * vfc.frequency) \div Unit

\* A phase that was just measured is the reference's time less the vfc's, as they were then.
PhaseInv ==
    pc = "variableValue" /\ new.phase # Invalid /\ new.settings = settings /\ vfc.frequency # NaN =>
        /\ Source - new.lag >= vfc.markerSrc /\ vfc.marker # Invalid
        /\ \E e \in Errors :
              new.phase = (now - new.lag) + reference - (vfc.marker + ElapsedThen(new.lag)) + e

\* How far ahead of the primary clock a sample says that the reference clock is, if the
\* primary clock's time, gap ticks after the vfc's, is source.
Skew(s, source) == ReferenceValue(s) - (source - s.gap)

Near(s, source, skew, f) == Abs(Skew(s, source) - skew) <= Err + Drift(s.lag, f)

\* It's right, if no clock was set since: when only the primary clock is still to be read ...
VariableInv ==
    /\ pc = "primaryValue" /\ Invalid \notin {new.phase, new.variable}
    /\ new.settings = settings /\ vfc.frequency # NaN
    => \E f \in Speeds : Near(new, Source, reference - primary, f)

\* ... and in the current sample.
SkewInv ==
    cur.settings = settings /\ vfc.frequency # NaN =>
        \E f \in Speeds : Near(cur, cur.primary, reference - primary, f)

EstimateInv ==
    SpeedInv /\ RecordInv /\ GapInv /\ PhaseInv /\ VariableInv /\ SkewInv /\ EstimateSound

\* The last read is not in the future.
ReadInv == lastRead # Invalid => lastRead.at <= Source

\* By the time s, the value v is not further from the last read than speed f allows.
Within(v, s, f) == (v - lastRead.value - 1) * Unit < (s - lastRead.at) * f

\* So is what the vfc has stored so far, at the places in setFrequency() where the markers
\* are moved; and at the others, what it would return.
WithinFetched(f) == AtMarker => fetched = Invalid \/ Within(fetched, Source, f)
WithinMarker(f)  == AtSource => vfc.marker = Invalid \/ Within(vfc.marker, Source, f)
WithinFrozen(f)  ==
    AtChange => \/ vfc.rolledOver \/ vfc.marker = Invalid
                \/ vfc.markerSrc >= lastRead.at /\ Within(vfc.marker, vfc.markerSrc, f)
WithinReadable(f) ==
    ~(AtMarker \/ AtSource \/ AtChange) =>
        (Readable =>
            (vfc.marker - lastRead.value - 1) * Unit + (Source - vfc.markerSrc) * vfc.frequency
                < (Source - lastRead.at) * f)

Ahead(f) ==
    /\ vfc.frequency <= f
    /\ WithinFetched(f) /\ WithinMarker(f) /\ WithinFrozen(f) /\ WithinReadable(f)

AheadInv == lastRead # Invalid /\ vfc.frequency # NaN => \E f \in Speeds : Ahead(f)

JumpInv == ReadInv /\ AheadInv

-----------------------------------------------------------------------------
(* Lemmas about numbers *)

LEMMA AbsFacts ==
    ASSUME NEW n \in Int, NEW m \in Int
    PROVE  Abs(n) <= m <=> -m <= n /\ n <= m
BY DEF Abs

\* A sum is divided with less than one of error: in n more ticks, the vfc gets no more than
\* n ticks' worth of microseconds further, rounded up.
LEMMA AdvanceFacts ==
    ASSUME NEW x \in Int, NEW n \in Nat, NEW f \in Nat
    PROVE  /\ (x * f) \div Unit \in Int /\ ((x + n) * f) \div Unit \in Int
           /\ (n * f + Unit - 1) \div Unit \in Int
           /\ (x * f) \div Unit <= ((x + n) * f) \div Unit
           /\ ((x + n) * f) \div Unit - (x * f) \div Unit <= (n * f + Unit - 1) \div Unit
<1> DEFINE p == (x * f) \div Unit
           q == ((x + n) * f) \div Unit
           r == (n * f + Unit - 1) \div Unit
<1>1. Unit \in Nat \ {0}
  BY NumbersAssumption
<1>2. x * f \in Int /\ n * f \in Nat /\ (x + n) * f = x * f + n * f
  OBVIOUS
<1>3. /\ p \in Int /\ Unit * p <= x * f /\ x * f < Unit * p + Unit
  BY <1>1, <1>2, DivFacts
<1>4. (x + n) * f \in Int
  BY <1>2
<1>5. q \in Int /\ Unit * q <= (x + n) * f /\ (x + n) * f < Unit * q + Unit
  BY <1>1, <1>4, DivFacts
<1>6. n * f + Unit - 1 \in Int
  BY <1>1, <1>2
<1>7. r \in Int /\ n * f + Unit - 1 < Unit * r + Unit
  BY <1>1, <1>6, DivFacts
<1> HIDE DEF p, q, r
<1>8. Unit * q < Unit * (p + r + 1)
  <2>1. Unit * q < (Unit * p + Unit) + Unit * r
    BY <1>1, <1>2, <1>3, <1>5, <1>7
  <2> QED
    BY <1>1, <1>3, <1>5, <1>7, <2>1
<1>9. q < p + r + 1
  BY <1>1, <1>3, <1>5, <1>7, <1>8
<1>10. Unit * p < Unit * (q + 1)
  BY <1>1, <1>2, <1>3, <1>5
<1>11. p < q + 1
  BY <1>1, <1>3, <1>5, <1>10
<1> QED
  BY <1>3, <1>5, <1>7, <1>9, <1>11 DEF p, q, r

LEMMA DriftType ==
    ASSUME NEW n \in Nat, NEW f \in Nat
    PROVE  Drift(n, f) \in Nat
<1>1. (n * f + Unit - 1) \div Unit \in Int
  <2>1. Unit \in Nat \ {0} /\ n * f \in Nat
    BY NumbersAssumption
  <2>2. n * f + Unit - 1 \in Int
    BY <2>1
  <2> QED
    BY <2>1, <2>2, DivFacts
<1> QED
  BY <1>1 DEF Drift

\* The faster, the more it may drift.
LEMMA DriftMonotone ==
    ASSUME NEW n \in Nat, NEW f \in Nat, NEW g \in Nat, f <= g
    PROVE  Drift(n, f) <= Drift(n, g)
<1>1. Unit \in Nat \ {0}
  BY NumbersAssumption
<1>2. n * f \in Nat /\ n * g \in Nat /\ n * f <= n * g
  OBVIOUS
<1>3. /\ n * f + Unit - 1 \in Int /\ n * g + Unit - 1 \in Int
      /\ n * f + Unit - 1 <= n * g + Unit - 1
  BY <1>1, <1>2
<1>4. (n * f + Unit - 1) \div Unit <= (n * g + Unit - 1) \div Unit
  BY <1>1, <1>3, DivMonotone
<1>5. (n * f + Unit - 1) \div Unit \in Int /\ (n * g + Unit - 1) \div Unit \in Int
  BY <1>1, <1>3, DivFacts
<1> QED
  BY <1>4, <1>5 DEF Drift

\* What the vfc gets further by in n ticks is within its drift of n.
LEMMA DriftFacts ==
    ASSUME NEW x \in Int, NEW n \in Nat, NEW f \in Nat
    PROVE  /\ ((x + n) * f) \div Unit - (x * f) \div Unit - n \in Int
           /\ Abs(((x + n) * f) \div Unit - (x * f) \div Unit - n) <= Drift(n, f)
<1> DEFINE p == (x * f) \div Unit
           q == ((x + n) * f) \div Unit
           d == q - p
           most == (n * f + Unit - 1) \div Unit
<1>1. d \in Int /\ most \in Int /\ 0 <= d /\ d <= most
  <2>1. p \in Int /\ q \in Int /\ most \in Int /\ p <= q /\ q - p <= most
    BY AdvanceFacts, Zenon
  <2> HIDE DEF p, q, most
  <2> QED
    BY <2>1
<1>2. Drift(n, f) = IF most - n > n THEN most - n ELSE n
  BY DEF Drift
<1> HIDE DEF d, most
<1>3. -Drift(n, f) <= d - n /\ d - n <= Drift(n, f)
  BY <1>1, <1>2
<1>4. Abs(d - n) <= Drift(n, f)
  BY <1>1, <1>3, AbsFacts, DriftType
<1> QED
  BY <1>1, <1>4 DEF d

LEMMA SpeedsType == Speeds \subseteq Nat /\ Unit \in Speeds
BY NumbersAssumption, FrequenciesType DEF Speeds

LEMMA NaNIsNoSpeed == NaN \notin Speeds
<1> SUFFICES ASSUME NaN \in Speeds PROVE FALSE
  OBVIOUS
<1>1. NaN \in Nat
  BY SpeedsType
<1> QED
  BY <1>1, NaNFacts

-----------------------------------------------------------------------------
(* How good the estimate is *)

\* What of the state the estimate rests on.
LEMMA NumberFacts ==
    ASSUME TypeOK, RecordInv
    PROVE  /\ now \in Nat /\ primary \in Int /\ reference \in Int /\ Source \in Int
           /\ settings \in Nat
           /\ new.phase \in Int \cup {Invalid} /\ new.settings \in Int /\ new.lag \in Nat
           /\ new.variable \in Int \cup {Invalid} /\ new.gap \in Nat
           /\ Skew(cur, cur.primary) \in Int /\ Skew(prev, prev.primary) \in Int
           /\ cur.lag \in Nat /\ prev.lag \in Nat
           /\ cur.settings \in Int /\ prev.settings \in Int
           /\ Err \in Nat
<1>1. /\ new.phase \in Int \cup {Invalid} /\ new.settings \in Int /\ new.lag \in Nat
      /\ new.variable \in Int \cup {Invalid} /\ new.gap \in Nat
  BY TypeFacts DEF Samples
<1>2. Err \in Nat
  BY NumbersAssumption
<1>3. Skew(cur, cur.primary) \in Int /\ Skew(prev, prev.primary) \in Int
  BY DEF RecordInv, Complete, Skew, ReferenceValue
<1> QED
  BY <1>1, <1>2, <1>3, TypeFacts DEF RecordInv, Complete

\* A frequency that is a number is one of the Speeds.
LEMMA SpeedFacts ==
    ASSUME TypeOK, SpeedInv, vfc.frequency # NaN
    PROVE  vfc.frequency \in Speeds /\ vfc.frequency \in Nat
BY SpeedsType DEF SpeedInv

LEMMA SpeedStep == TypeOK /\ SpeedInv /\ [Next]_vars => SpeedInv'
<1> SUFFICES ASSUME TypeOK, SpeedInv, [Next]_vars PROVE SpeedInv'
  OBVIOUS
<1> USE DEF SpeedInv, world, samples, steering
<1>0. vfc \in Clocks
  BY TypeFacts
<1>1. CASE Estimate
  <2>1. frequency' \in NextFrequencies /\ vfc' = vfc
    BY <1>1 DEF Estimate, EstimateThen
  <2>2. NextFrequencies \subseteq Frequencies \cup {0, NaN}
    BY Zenon DEF NextFrequencies
  <2> QED
    BY <2>1, <2>2, Zenon
<1>2. CASE Change
  <2>1. vfc'.frequency = vfc.frequency \/ (frequency # 0 /\ vfc'.frequency = frequency)
    BY <1>0, <1>2 DEF Change, Ignored, Clocks
  <2>2. frequency' = 0
    BY <1>2 DEF Change
  <2> QED
    BY <2>1, <2>2, Zenon DEF Speeds
<1>3. CASE vfc'.frequency = vfc.frequency /\ UNCHANGED frequency
  BY <1>3, Zenon
<1>4. ASSUME NEW place, NEW next, NEW done, Fetch(place, next, done) PROVE SpeedInv'
  BY <1>3, <1>4, AfterReadFacts DEF Fetch
<1>5. ASSUME NEW place, NEW next, SetMarker(place, next) PROVE SpeedInv'
  BY <1>0, <1>3, <1>5 DEF SetMarker, Clocks
<1>6. ASSUME NEW place, NEW next, SetSource(place, next) PROVE SpeedInv'
  BY <1>0, <1>3, <1>6 DEF SetSource, Clocks
<1>7. CASE setFrequency
  BY <1>2, <1>4, <1>5, <1>6, <1>7 DEF setFrequency
<1>8. CASE Reset
  BY <1>0, <1>3, <1>8 DEF Reset, Clocks
<1>9. CASE Measure \/ ReadVariable \/ ReadPrimary \/ Read
  BY <1>3, <1>9, AfterReadFacts DEF Measure, ReadVariable, ReadPrimary, Read
<1>10. CASE Wake \/ LoseSync \/ Tick \/ Set \/ End \/ UNCHANGED vars
  BY <1>3, <1>10 DEF Wake, LoseSync, Tick, Set, End, vars
<1> QED
  BY <1>1, <1>7, <1>8, <1>9, <1>10 DEF Next, Updater

\* A vfc whose frequency is a number has never had one that was not.
LEMMA NaNStays ==
    ASSUME TypeOK, NaNInv, [Next]_vars, vfc'.frequency # NaN
    PROVE  vfc.frequency # NaN
<1> USE DEF world, samples, steering
<1>0. vfc \in Clocks
  BY TypeFacts
<1>1. CASE vfc'.frequency = vfc.frequency
  BY <1>1
<1>2. CASE Change
  <2>1. vfc'.frequency = vfc.frequency \/ (frequency # 0 /\ vfc'.frequency = frequency)
    BY <1>0, <1>2 DEF Change, Ignored, Clocks
  <2> QED
    BY <2>1 DEF NaNInv
<1>3. ASSUME NEW place, NEW next, NEW done, Fetch(place, next, done)
      PROVE  vfc'.frequency = vfc.frequency
  BY <1>3, AfterReadFacts DEF Fetch
<1>4. ASSUME NEW place, NEW next, SetMarker(place, next) \/ SetSource(place, next)
      PROVE  vfc'.frequency = vfc.frequency
  BY <1>0, <1>4 DEF SetMarker, SetSource, Clocks
<1>5. CASE setFrequency
  BY <1>1, <1>2, <1>3, <1>4, <1>5 DEF setFrequency
<1>6. CASE Reset
  BY <1>0, <1>1, <1>6 DEF Reset, Clocks
<1>7. CASE Measure \/ ReadVariable \/ ReadPrimary \/ Read
  BY <1>1, <1>7, AfterReadFacts DEF Measure, ReadVariable, ReadPrimary, Read
<1>8. CASE Wake \/ LoseSync \/ Estimate \/ Tick \/ Set \/ End \/ UNCHANGED vars
  BY <1>1, <1>8 DEF Wake, LoseSync, Estimate, EstimateThen, Tick, Set, End, vars
<1> QED
  BY <1>5, <1>6, <1>7, <1>8 DEF Next, Updater

\* The steps of the updater that change nothing of the clocks but the vfc, and no sample.
LEMMA SteeringSteps ==
    ASSUME \/ Wake \/ LoseSync \/ Estimate \/ setFrequency \/ Reset \/ Read \/ End
           \/ UNCHANGED vars
    PROVE  /\ UNCHANGED <<world, new, cur, prev>> /\ Source' = Source
           /\ pc' \in Reading => pc' = pc /\ vfc' = vfc
<1> USE DEF world, samples, steering, Goto, Sleep, Source, Reading
<1>1. ASSUME NEW place, NEW next, NEW done, Fetch(place, next, done),
             next \notin Reading, done \notin Reading
      PROVE  UNCHANGED <<world, new, cur, prev>> /\ Source' = Source /\ pc' \notin Reading
  BY <1>1 DEF Fetch
<1>2. ASSUME NEW place, NEW next, SetMarker(place, next) \/ SetSource(place, next),
             next \notin Reading
      PROVE  UNCHANGED <<world, new, cur, prev>> /\ Source' = Source /\ pc' \notin Reading
  BY <1>2 DEF SetMarker, SetSource
<1>3. ASSUME Change
      PROVE  UNCHANGED <<world, new, cur, prev>> /\ Source' = Source /\ pc' \notin Reading
  BY <1>3 DEF Change
<1>4. CASE setFrequency
  <2>0. \A next \in {"marker 1", "marker 2", "source 1", "source 2", "change", "measure"} :
           next \notin Reading
    OBVIOUS
  <2> HIDE DEF Reading
  <2>1. CASE \/ Fetch("fetch 1", "marker 1", "change") \/ Fetch("fetch 2", "marker 2", "measure")
    BY <1>1, <2>0, <2>1
  <2>2. CASE \/ SetMarker("marker 1", "source 1") \/ SetSource("source 1", "change")
             \/ SetMarker("marker 2", "source 2") \/ SetSource("source 2", "measure")
    BY <1>2, <2>0, <2>2
  <2> QED
    BY <1>3, <1>4, <2>1, <2>2 DEF setFrequency
<1>5. CASE Read
  BY <1>5 DEF Read, MutexFree, Critical
<1>6. CASE Wake \/ LoseSync \/ Estimate \/ Reset \/ End \/ UNCHANGED vars
  BY <1>6 DEF Wake, LoseSync, Estimate, EstimateThen, Reset, End, vars
<1> QED
  BY <1>4, <1>5, <1>6

\* The sample that ReadPrimary records.
LEMMA RecordFacts ==
    ASSUME TypeOK, RecordInv, ReadPrimary, ~UNCHANGED <<cur, prev>>
    PROVE  /\ new.phase \in Int /\ new.variable \in Int /\ prev' = cur
           /\ cur'.phase = new.phase /\ cur'.variable = new.variable
           /\ cur'.primary = Source /\ cur'.lag = new.lag /\ cur'.gap = new.gap
           /\ cur'.settings = IF new.settings = settings THEN settings ELSE -1
<1>1. /\ Invalid \notin {new.phase, new.variable} /\ prev' = cur
      /\ cur' = [new EXCEPT !.primary = Source,
                            !.settings = IF @ = settings THEN @ ELSE -1]
  BY DEF ReadPrimary
<1>2. new \in Samples /\ new.phase \in Int /\ new.variable \in Int
  BY <1>1, TypeFacts, NumberFacts
<1>3. PICK n \in {settings, -1} :
        /\ n = IF new.settings = settings THEN settings ELSE -1
        /\ cur' = [new EXCEPT !.primary = Source, !.settings = n]
  BY <1>1
<1>4. /\ cur'.phase = new.phase /\ cur'.variable = new.variable
      /\ cur'.primary = Source /\ cur'.settings = n
      /\ cur'.lag = new.lag /\ cur'.gap = new.gap
  BY <1>2, <1>3 DEF Samples
<1> QED
  BY <1>1, <1>2, <1>3, <1>4, Zenon

LEMMA RecordStep == TypeOK /\ RecordInv /\ [Next]_vars => RecordInv'
<1> SUFFICES ASSUME TypeOK, RecordInv, [Next]_vars PROVE RecordInv'
  OBVIOUS
<1> USE DEF RecordInv, Complete
<1>0. /\ settings \in Nat /\ new.phase \in Int \cup {Invalid} /\ new.lag \in Nat
      /\ new \in Samples /\ Source \in Int
  BY NumberFacts, TypeFacts
<1>1. CASE \/ Wake \/ LoseSync \/ Estimate \/ setFrequency \/ Reset \/ Read \/ End
           \/ UNCHANGED vars
  BY <1>1, SteeringSteps DEF world
<1>2. CASE Measure
  <2>1. /\ UNCHANGED <<settings, cur, prev>>
        /\ \E p : new' = [NoSample EXCEPT !.phase = p, !.settings = settings]
    BY <1>2 DEF Measure, world
  <2>2. new'.settings = settings
    BY <2>1 DEF NoSample
  <2> QED
    BY <1>0, <2>1, <2>2
<1>3. CASE ReadVariable
  <2>1. UNCHANGED <<settings, cur, prev>>
    BY <1>3 DEF ReadVariable, world
  <2>2. PICK t \in Values : new' = [new EXCEPT !.variable = t]
    BY <1>3 DEF ReadVariable
  <2>3. new'.settings = new.settings
    BY <1>0, <2>2 DEF Samples
  <2> QED
    BY <2>1, <2>3
<1>4. CASE ReadPrimary
  <2>1. new' = NoSample /\ UNCHANGED settings
    BY <1>4 DEF ReadPrimary, world
  <2>2. new'.settings \in Int /\ new'.settings <= settings'
    BY <1>0, <2>1 DEF NoSample
  <2>3. CASE UNCHANGED <<cur, prev>>
    BY <2>1, <2>2, <2>3
  <2>4. CASE ~UNCHANGED <<cur, prev>>
    <3>1. /\ new.phase \in Int /\ new.variable \in Int /\ prev' = cur
          /\ cur'.phase = new.phase /\ cur'.variable = new.variable
          /\ cur'.primary = Source /\ cur'.lag = new.lag /\ cur'.gap = new.gap
          /\ cur'.settings = IF new.settings = settings THEN settings ELSE -1
      BY <1>4, <2>4, RecordFacts
    <3>2. new.gap \in Nat
      BY NumberFacts
    <3> QED
      BY <1>0, <2>1, <2>2, <3>1, <3>2
  <2> QED
    BY <2>3, <2>4
<1>5. CASE Tick
  BY <1>0, <1>5, TickFacts
<1>6. CASE Set
  <2>1. settings' = settings + 1 /\ UNCHANGED <<new, cur, prev>>
    BY <1>6 DEF Set, samples
  <2> QED
    BY <1>0, <2>1
<1> QED
  BY <1>1, <1>2, <1>3, <1>4, <1>5, <1>6 DEF Next, Updater

LEMMA GapStep == TypeOK /\ GapInv /\ [Next]_vars => GapInv'
<1> SUFFICES ASSUME TypeOK, GapInv, [Next]_vars, pc' = "variableValue" PROVE new'.gap = 0
  BY DEF GapInv
<1>1. CASE \/ Wake \/ LoseSync \/ Estimate \/ setFrequency \/ Reset \/ Read \/ End
           \/ UNCHANGED vars
  BY <1>1, SteeringSteps DEF Reading, GapInv
<1>2. CASE Measure
  <2>1. PICK p : new' = [NoSample EXCEPT !.phase = p, !.settings = settings]
    BY <1>2 DEF Measure
  <2> QED
    BY <2>1 DEF NoSample
<1>3. CASE ReadVariable \/ ReadPrimary
  BY <1>3 DEF ReadVariable, ReadPrimary, Sleep, Goto
<1>4. CASE Tick
  BY <1>4, TickFacts DEF GapInv
<1>5. CASE Set
  BY <1>5 DEF Set, samples, GapInv
<1> QED
  BY <1>1, <1>2, <1>3, <1>4, <1>5 DEF Next, Updater

LEMMA PhaseStep ==
    TypeOK /\ NaNInv /\ SpeedInv /\ RecordInv /\ PhaseInv /\ [Next]_vars => PhaseInv'
<1> SUFFICES ASSUME TypeOK, NaNInv, SpeedInv, RecordInv, PhaseInv, [Next]_vars,
                    pc' = "variableValue", new'.phase # Invalid, new'.settings = settings',
                    vfc'.frequency # NaN
             PROVE  /\ Source' - new'.lag >= vfc'.markerSrc /\ vfc'.marker # Invalid
                    /\ \E e \in Errors :
                          new'.phase = (now' - new'.lag) + reference'
                                         - (vfc'.marker + ElapsedThen(new.lag)') + e
  BY DEF PhaseInv
<1>0. /\ now \in Nat /\ primary \in Int /\ Source \in Int /\ settings \in Nat
      /\ new.settings \in Int /\ new.lag \in Nat /\ new \in Samples
      /\ new.settings <= settings /\ vfc \in Clocks /\ vfc.markerSrc \in Int
  BY NumberFacts, TypeFacts DEF RecordInv
<1>1. vfc.frequency # NaN /\ vfc.frequency \in Nat
  BY NaNStays, SpeedFacts
<1>2. CASE \/ Wake \/ LoseSync \/ Estimate \/ setFrequency \/ Reset \/ Read \/ End
           \/ UNCHANGED vars
  <2>1. /\ UNCHANGED <<now, reference, settings, new, vfc>> /\ Source' = Source
        /\ pc = "variableValue"
    BY <1>2, SteeringSteps DEF world, Reading
  <2>2. ElapsedThen(new.lag)' = ElapsedThen(new.lag)
    BY <2>1 DEF ElapsedThen
  <2> QED
    BY <1>1, <2>1, <2>2 DEF PhaseInv
<1>3. CASE Measure
  <2>0. PICK t \in Values :
          \E p \in {Invalid} \cup (IF t = Invalid THEN {}
                                   ELSE {now + reference - t + e : e \in Errors}) :
             new' = [NoSample EXCEPT !.phase = p, !.settings = settings]
    BY <1>3 DEF Measure
  <2>1. PICK p \in {Invalid} \cup (IF t = Invalid THEN {}
                                    ELSE {now + reference - t + e : e \in Errors}) :
          new' = [NoSample EXCEPT !.phase = p, !.settings = settings]
    BY <2>0
  <2>2. UNCHANGED <<now, primary, reference, settings>> /\ vfc' = AfterRead
    BY <1>3 DEF Measure, world
  <2>3. new'.phase = p /\ new'.lag = 0
    BY <2>1 DEF NoSample
  <2>4. t # Invalid
    BY <2>1, <2>3
  <2>5. PICK e \in Errors : p = now + reference - t + e
    BY <2>1, <2>3, <2>4
  <2>6. Readable /\ t = vfc.marker + Elapsed
    BY <1>1, <2>4, ValuesFacts
  <2>7. Source' = Source /\ ElapsedThen(new.lag)' = Elapsed
    <3>1. Source - 0 = Source
      BY <1>0
    <3> QED
      BY <2>2, <2>3, <3>1, AfterReadFacts DEF ElapsedThen, Elapsed, Source
  <2>8. (now' - new'.lag) = now /\ Source' - new'.lag = Source
    BY <1>0, <2>2, <2>3, <2>7
  <2>9. new'.phase = (now' - new'.lag) + reference'
                       - (vfc'.marker + ElapsedThen(new.lag)') + e
    BY <2>2, <2>3, <2>5, <2>6, <2>7, <2>8, AfterReadFacts
  <2> QED
    BY <2>2, <2>6, <2>8, <2>9, AfterReadFacts DEF Readable
<1>4. CASE ReadVariable \/ ReadPrimary
  BY <1>4 DEF ReadVariable, ReadPrimary, Sleep, Goto
<1>5. CASE Tick
  <2>1. /\ now' = now + 1 /\ UNCHANGED <<primary, reference, settings, vfc, pc>>
        /\ new'.phase = new.phase /\ new'.settings = new.settings
        /\ new'.lag = new.lag + 1
    BY <1>5, TickFacts
  <2>2. /\ Source' - new'.lag = Source - new.lag /\ now' - new'.lag = now - new.lag
    BY <1>0, <2>1 DEF Source
  <2>3. ElapsedThen(new.lag)' = ElapsedThen(new.lag)
    BY <2>1, <2>2 DEF ElapsedThen
  <2> QED
    BY <1>1, <2>1, <2>2, <2>3 DEF PhaseInv
<1>6. CASE Set
  <2>1. settings' = settings + 1 /\ new' = new
    BY <1>6 DEF Set, samples
  <2> QED
    BY <1>0, <2>1
<1> QED
  BY <1>2, <1>3, <1>4, <1>5, <1>6 DEF Next, Updater

\* What the vfc's time and the phase say once both are read, if no clock was set meanwhile.
LEMMA VariableFacts ==
    ASSUME TypeOK, SpeedInv, RecordInv, GapInv, PhaseInv, ReadVariable, vfc.frequency # NaN,
           Invalid \notin {new'.phase, new'.variable}, new'.settings = settings
    PROVE  Near(new, Source, reference - primary, vfc.frequency)'
<1> DEFINE f == vfc.frequency
           x == Source - new.lag - vfc.markerSrc
           p == (x * f) \div Unit
           q == ((x + new.lag) * f) \div Unit
<1>1. PICK t \in Values : new' = [new EXCEPT !.variable = t]
  BY DEF ReadVariable
<1>2. new \in Samples /\ pc = "variableValue" /\ new.gap = 0
  BY TypeFacts DEF ReadVariable, GapInv
<1>3. /\ new'.phase = new.phase /\ new'.variable = t /\ new'.settings = new.settings
      /\ new'.lag = new.lag /\ new'.gap = 0
  BY <1>1, <1>2 DEF Samples
<1>4. /\ now \in Nat /\ primary \in Int /\ reference \in Int /\ Source \in Int
      /\ new.phase \in Int /\ new.lag \in Nat
      /\ vfc.markerSrc \in Int /\ f \in Nat
  BY <1>3, NumberFacts, TypeFacts, SpeedFacts
<1>5. Readable /\ t = vfc.marker + Elapsed /\ vfc.marker \in Int
  BY <1>3, ValuesFacts, TypeFacts DEF Readable
<1>6. PICK e \in Errors :
        new.phase = (now - new.lag) + reference - (vfc.marker + ElapsedThen(new.lag)) + e
  BY <1>2, <1>3 DEF PhaseInv
<1>7. e \in Int /\ Abs(e) <= Err /\ Err \in Nat
  BY ErrorsType, NumbersAssumption DEF Abs
<1>8. ElapsedThen(new.lag) = p /\ Elapsed = q
  <2>1. x + new.lag = Source - vfc.markerSrc
    BY <1>4
  <2> QED
    BY <2>1 DEF ElapsedThen, Elapsed
<1>9. x \in Int
  BY <1>4
<1>10. /\ p \in Int /\ q \in Int /\ q - p - new.lag \in Int
       /\ Abs(q - p - new.lag) <= Drift(new.lag, f) /\ Drift(new.lag, f) \in Nat
  BY <1>4, <1>9, DriftFacts, AdvanceFacts, DriftType, Zenon
<1>11. UNCHANGED <<reference, primary>> /\ Source' = Source /\ f' = f
  BY AfterReadFacts DEF ReadVariable, world, Source, f
<1> HIDE DEF p, q, f, x
<1>12. Skew(new, Source)' = vfc.marker + q + new.phase - Source
  BY <1>3, <1>4, <1>5, <1>8, <1>10, <1>11 DEF Skew, ReferenceValue
<1>13. Skew(new, Source)' - (reference - primary) = (q - p - new.lag) + e
  BY <1>4, <1>5, <1>6, <1>7, <1>8, <1>10, <1>12 DEF Source
<1>14. Abs((q - p - new.lag) + e) <= Err + Drift(new.lag, f)
  BY <1>4, <1>7, <1>10 DEF Abs
<1>15. Drift(new.lag, f)' = Drift(new.lag, f)
  BY <1>3, <1>11 DEF Drift
<1> QED
  BY <1>11, <1>13, <1>14, <1>15 DEF Near, f

LEMMA VariableStep ==
    /\ TypeOK /\ NaNInv /\ SpeedInv /\ RecordInv /\ GapInv /\ PhaseInv /\ VariableInv
    /\ [Next]_vars
    => VariableInv'
<1> SUFFICES ASSUME TypeOK, NaNInv, SpeedInv, RecordInv, GapInv, PhaseInv, VariableInv,
                    [Next]_vars, pc' = "primaryValue", Invalid \notin {new'.phase, new'.variable},
                    new'.settings = settings', vfc'.frequency # NaN
             PROVE  \E f \in Speeds : Near(new, Source, reference - primary, f)'
  BY DEF VariableInv, Near, Drift
<1>0. /\ settings \in Nat /\ new.settings \in Int /\ new.settings <= settings
      /\ Source \in Int /\ new.gap \in Nat
  BY NumberFacts DEF RecordInv
<1>1. vfc.frequency # NaN /\ vfc.frequency \in Speeds
  BY NaNStays, SpeedFacts
<1>2. ASSUME pc = "primaryValue", UNCHANGED <<reference, primary, settings>>,
             new'.phase = new.phase, new'.variable = new.variable,
             new'.settings = new.settings, new'.lag = new.lag,
             Source' - new'.gap = Source - new.gap
      PROVE  \E f \in Speeds : Near(new, Source, reference - primary, f)'
  <2>1. PICK f \in Speeds : Near(new, Source, reference - primary, f)
    BY <1>1, <1>2 DEF VariableInv
  <2>2. Near(new, Source, reference - primary, f)'
    BY <1>2, <2>1 DEF Near, Skew, ReferenceValue, Drift
  <2> QED
    BY <2>2
<1>3. CASE \/ Wake \/ LoseSync \/ Estimate \/ setFrequency \/ Reset \/ Read \/ End
           \/ UNCHANGED vars
  BY <1>2, <1>3, SteeringSteps DEF world, Reading
<1>4. CASE Measure \/ ReadPrimary
  BY <1>4 DEF Measure, ReadPrimary, Sleep, Goto
<1>5. CASE ReadVariable
  <2>1. settings' = settings /\ vfc'.frequency = vfc.frequency
    BY <1>5, AfterReadFacts DEF ReadVariable, world
  <2>2. Near(new, Source, reference - primary, vfc.frequency)'
    BY <1>1, <1>5, <2>1, VariableFacts
  <2> QED
    BY <1>1, <2>1, <2>2
<1>6. CASE Tick
  <2>1. /\ UNCHANGED <<reference, primary, settings, pc>> /\ Source' = Source + 1
        /\ new'.phase = new.phase /\ new'.variable = new.variable
        /\ new'.settings = new.settings /\ new'.lag = new.lag /\ new'.gap = new.gap + 1
    BY <1>6, TickFacts
  <2>2. Source' - new'.gap = Source - new.gap
    BY <1>0, <2>1
  <2> QED
    BY <1>2, <2>1, <2>2
<1>7. CASE Set
  <2>1. settings' = settings + 1 /\ new' = new
    BY <1>7 DEF Set, samples
  <2> QED
    BY <1>0, <2>1
<1> QED
  BY <1>3, <1>4, <1>5, <1>6, <1>7 DEF Next, Updater

\* A sample that ReadPrimary records, if no clock was set while it was taken.
LEMMA SampleFacts ==
    ASSUME TypeOK, SpeedInv, RecordInv, VariableInv, ReadPrimary, vfc.frequency # NaN,
           ~UNCHANGED <<cur, prev>>
    PROVE  /\ prev' = cur /\ cur'.settings \in {settings, -1}
           /\ cur'.settings = settings =>
                \E f \in Speeds : Near(cur, cur.primary, reference - primary, f)'
<1>1. /\ new.phase \in Int /\ new.variable \in Int /\ prev' = cur
      /\ cur'.phase = new.phase /\ cur'.variable = new.variable
      /\ cur'.primary = Source /\ cur'.lag = new.lag /\ cur'.gap = new.gap
      /\ cur'.settings = IF new.settings = settings THEN settings ELSE -1
  BY RecordFacts
<1>2. ASSUME cur'.settings = settings
      PROVE  \E f \in Speeds : Near(cur, cur.primary, reference - primary, f)'
  <2>1. settings \in Nat /\ new.settings = settings
    BY <1>1, <1>2, NumberFacts
  <2>2. Invalid \notin {new.phase, new.variable} /\ pc = "primaryValue"
    BY <1>1, NumbersAssumption DEF ReadPrimary
  <2>3. PICK f \in Speeds : Near(new, Source, reference - primary, f)
    BY <2>1, <2>2 DEF VariableInv
  <2>4. UNCHANGED <<reference, primary>>
    BY DEF ReadPrimary, world
  <2>5. Near(cur, cur.primary, reference - primary, f)'
    BY <1>1, <2>3, <2>4 DEF Near, Skew, ReferenceValue, Drift
  <2> QED
    BY <2>5
<1> QED
  BY <1>1, <1>2

LEMMA SkewStep ==
    /\ TypeOK /\ NaNInv /\ SpeedInv /\ RecordInv /\ VariableInv /\ SkewInv /\ [Next]_vars
    => SkewInv'
<1> SUFFICES ASSUME TypeOK, NaNInv, SpeedInv, RecordInv, VariableInv, SkewInv, [Next]_vars,
                    cur'.settings = settings', vfc'.frequency # NaN
             PROVE  \E f \in Speeds : Near(cur, cur.primary, reference - primary, f)'
  BY DEF SkewInv, Near, Drift
<1>0. settings \in Nat /\ cur.settings \in Int /\ cur.settings <= settings
  BY NumberFacts DEF RecordInv
<1>1. vfc.frequency # NaN /\ vfc.frequency \in Speeds
  BY NaNStays, SpeedFacts
<1>2. CASE UNCHANGED <<cur, primary, reference, settings>>
  <2>1. PICK f \in Speeds : Near(cur, cur.primary, reference - primary, f)
    BY <1>1, <1>2 DEF SkewInv
  <2>2. Near(cur, cur.primary, reference - primary, f)'
    BY <1>2, <2>1 DEF Near, Skew, ReferenceValue, Drift
  <2> QED
    BY <2>2
<1>3. CASE ReadPrimary /\ cur' # cur
  <2>1. UNCHANGED settings
    BY <1>3 DEF ReadPrimary, world
  <2> QED
    BY <1>1, <1>3, <2>1, SampleFacts
<1>4. CASE Set
  <2>1. settings' = settings + 1 /\ cur' = cur
    BY <1>4 DEF Set, samples
  <2> QED
    BY <1>0, <2>1
<1>5. CASE \/ Wake \/ LoseSync \/ Estimate \/ setFrequency \/ Reset \/ Read \/ End
           \/ UNCHANGED vars
  BY <1>2, <1>5, SteeringSteps DEF world
<1>6. CASE Measure \/ ReadVariable
  BY <1>2, <1>6 DEF Measure, ReadVariable, world
<1>7. CASE Tick
  BY <1>2, <1>7, TickFacts
<1>8. CASE ReadPrimary /\ cur' = cur
  BY <1>2, <1>8 DEF ReadPrimary, world
<1> QED
  BY <1>3, <1>4, <1>5, <1>6, <1>7, <1>8 DEF Next, Updater

\* Two samples that are right about the same skew differ by no more than their errors.
LEMMA DifferenceFacts ==
    ASSUME NEW a \in Int, NEW b \in Int, NEW skew \in Int, NEW m \in Nat, NEW n \in Nat,
           Abs(a - skew) <= m, Abs(b - skew) <= n
    PROVE  Abs(a - b) <= m + n
BY DEF Abs

LEMMA EstimateStep ==
    /\ TypeOK /\ NaNInv /\ SpeedInv /\ RecordInv /\ VariableInv /\ SkewInv /\ EstimateSound
    /\ [Next]_vars
    => EstimateSound'
<1> SUFFICES ASSUME TypeOK, NaNInv, SpeedInv, RecordInv, VariableInv, SkewInv, EstimateSound,
                    [Next]_vars,
                    cur'.settings = prev'.settings, prev'.settings # -1, vfc'.frequency # NaN
             PROVE  \E f \in Speeds :
                       Abs(referenceElapsed' - (ticks' - (cur'.gap - prev'.gap)))
                         <= 2 * Err + Drift(cur'.lag, f) + Drift(prev'.lag, f)
  BY DEF EstimateSound, Drift
<1>1. vfc.frequency # NaN /\ vfc.frequency \in Speeds
  BY NaNStays, SpeedFacts
<1>2. CASE UNCHANGED <<cur, prev>>
  BY <1>1, <1>2 DEF EstimateSound, referenceElapsed, ticks
<1>3. CASE ReadPrimary /\ ~UNCHANGED <<cur, prev>>
  <2> DEFINE a == Skew(cur, cur.primary)'
             b == Skew(cur, cur.primary)
             skew == reference - primary
  <2>1. prev' = cur /\ cur'.settings \in {settings, -1}
    BY <1>1, <1>3, SampleFacts
  <2>2. cur'.settings = settings /\ cur.settings = settings
    BY <2>1
  <2>3. PICK k \in Speeds : Near(cur, cur.primary, reference - primary, k)'
    BY <1>1, <1>3, <2>2, SampleFacts
  <2>4. PICK g \in Speeds : Near(cur, cur.primary, reference - primary, g)
    BY <1>1, <2>2 DEF SkewInv
  <2>5. /\ UNCHANGED <<reference, primary>>
        /\ skew \in Int /\ b \in Int /\ Err \in Nat /\ cur.lag \in Nat
    BY <1>3, NumberFacts DEF ReadPrimary, world
  <2>6. RecordInv'
    BY RecordStep
  <2>7. a \in Int /\ cur'.lag \in Nat
    BY <2>6 DEF RecordInv, Complete, Skew, ReferenceValue
  <2>8. PICK h \in Speeds : k <= h /\ g <= h
    <3>1. k \in Nat /\ g \in Nat
      BY <2>3, <2>4, SpeedsType
    <3>2. k <= g \/ g <= k
      BY <3>1
    <3> QED
      BY <2>3, <2>4, <3>1, <3>2
  <2> DEFINE m == Err + Drift(cur'.lag, h)
             n == Err + Drift(cur.lag, h)
  <2>9. /\ k \in Nat /\ g \in Nat /\ h \in Nat
        /\ Drift(cur'.lag, k) \in Nat /\ Drift(cur.lag, g) \in Nat
        /\ Drift(cur'.lag, h) \in Nat /\ Drift(cur.lag, h) \in Nat
    BY <2>3, <2>4, <2>5, <2>7, <2>8, SpeedsType, DriftType
  <2>10. /\ Drift(cur'.lag, k) <= Drift(cur'.lag, h)
         /\ Drift(cur.lag, g) <= Drift(cur.lag, h)
    BY <2>5, <2>7, <2>8, <2>9, DriftMonotone
  <2>11. Abs(a - skew) <= Err + Drift(cur'.lag, k)
    BY <2>3, <2>5 DEF Near, Drift
  <2>12. Abs(b - skew) <= Err + Drift(cur.lag, g)
    BY <2>4 DEF Near
  <2>15. referenceElapsed' - (ticks' - (cur'.gap - prev'.gap)) = a - b
    BY <2>1, <2>6
    DEF referenceElapsed, ticks, Skew, ReferenceValue, RecordInv, Complete
  <2> HIDE DEF a, b, skew
  <2>13. m \in Nat /\ n \in Nat /\ Abs(a - skew) <= m /\ Abs(b - skew) <= n
    <3>1. Abs(a - skew) \in Int /\ Abs(b - skew) \in Int
      BY <2>5, <2>7 DEF Abs
    <3> QED
      BY <2>5, <2>9, <2>10, <2>11, <2>12, <3>1
  <2>14. Abs(a - b) <= m + n
    BY <2>5, <2>7, <2>13, DifferenceFacts
  <2>16. m + n = 2 * Err + Drift(cur'.lag, h) + Drift(prev'.lag, h)
    BY <2>1, <2>5, <2>9
  <2> QED
    BY <2>14, <2>15, <2>16
<1>4. CASE \/ Wake \/ LoseSync \/ Estimate \/ setFrequency \/ Reset \/ Read \/ End
           \/ UNCHANGED vars
  BY <1>2, <1>4, SteeringSteps
<1>5. CASE Measure \/ ReadVariable \/ Set
  BY <1>2, <1>5 DEF Measure, ReadVariable, Set, samples
<1>6. CASE Tick
  BY <1>2, <1>6, TickFacts
<1> QED
  BY <1>2, <1>3, <1>4, <1>5, <1>6 DEF Next, Updater

LEMMA EstimateInit == Init => EstimateInv
<1> SUFFICES ASSUME Init PROVE EstimateInv
  OBVIOUS
<1>1. SpeedInv
  BY SpeedsType DEF Init, SpeedInv
<1>2. cur = NoSample /\ prev = NoSample /\ new = NoSample /\ settings = 0 /\ pc = "update"
  BY DEF Init
<1>3. RecordInv /\ GapInv /\ PhaseInv /\ VariableInv /\ SkewInv /\ EstimateSound
  BY <1>2 DEF RecordInv, Complete, GapInv, PhaseInv, VariableInv, SkewInv, EstimateSound,
                   NoSample
<1> QED
  BY <1>1, <1>3 DEF EstimateInv

LEMMA EstimateInvariance == Spec => []EstimateInv
<1>1. IInv /\ EstimateInv /\ [Next]_vars => EstimateInv'
  BY SpeedStep, RecordStep, GapStep, PhaseStep, VariableStep, SkewStep, EstimateStep
  DEF IInv, EstimateInv
<1> QED
  BY Invariance, EstimateInit, <1>1, PTL DEF Spec

-----------------------------------------------------------------------------
(* How fast the vfc may run *)

LEMMA ReadStep == TypeOK /\ ReadInv /\ [Next]_vars => ReadInv'
<1> SUFFICES ASSUME TypeOK, ReadInv, [Next]_vars, lastRead' # Invalid
             PROVE  lastRead'.at <= Source'
  BY DEF ReadInv
<1>0. /\ now \in Nat /\ primary \in Int /\ Source \in Int
      /\ lastRead # Invalid => lastRead.at \in Int
  BY TypeFacts DEF TypeOK
<1>1. CASE Read
  <2>1. Source' = Source /\ lastRead'.at = Source
    BY <1>1 DEF Read, world, Source
  <2> QED
    BY <1>0, <2>1
<1>2. CASE lastRead' = lastRead /\ Source' = Source
  BY <1>2 DEF ReadInv
<1>3. CASE Tick
  <2>1. lastRead' = lastRead /\ Source' = Source + 1
    BY <1>3, TickFacts
  <2> QED
    BY <1>0, <2>1 DEF ReadInv
<1>4. ASSUME NEW place, NEW next, NEW done,
             Fetch(place, next, done) \/ SetMarker(place, next) \/ SetSource(place, next)
      PROVE  lastRead' = lastRead /\ Source' = Source
  BY <1>4 DEF Fetch, SetMarker, SetSource, world, Source
<1>5. CASE setFrequency
  BY <1>2, <1>4, <1>5 DEF setFrequency, Change, world, Source
<1>6. CASE Reset \/ Set
  BY <1>2, <1>6 DEF Reset, Set, Source
<1>7. CASE \/ Wake \/ LoseSync \/ Estimate \/ Measure \/ ReadVariable \/ ReadPrimary \/ End
           \/ UNCHANGED vars
  BY <1>2, <1>7
  DEF Wake, LoseSync, Estimate, EstimateThen, Measure, ReadVariable, ReadPrimary, End, vars,
      world, Source
<1> QED
  BY <1>1, <1>3, <1>5, <1>6, <1>7 DEF Next, Updater

\* Faster is further, from the last read on.
LEMMA WithinMonotone ==
    ASSUME NEW v \in Int, NEW l \in Int, NEW d \in Nat, NEW f \in Nat, NEW g \in Nat, f <= g,
           (v - l - 1) * Unit < d * f
    PROVE  (v - l - 1) * Unit < d * g
<1>1. d * f \in Nat /\ d * g \in Nat /\ d * f <= d * g
  OBVIOUS
<1>2. (v - l - 1) * Unit \in Int
  BY NumbersAssumption
<1> QED
  BY <1>1, <1>2

\* A time that getValue() returns is rounded down.
LEMMA RoundedDown ==
    ASSUME NEW m \in Int, NEW l \in Int, NEW x \in Int, NEW f \in Nat
    PROVE  /\ ((m + (x * f) \div Unit) - l - 1) * Unit \in Int
           /\ (m - l - 1) * Unit + x * f \in Int
           /\ ((m + (x * f) \div Unit) - l - 1) * Unit <= (m - l - 1) * Unit + x * f
           /\ (m - (m + (x * f) \div Unit) - 1) * Unit + x * f < 0
<1> DEFINE q == (x * f) \div Unit
<1>1. Unit \in Nat \ {0} /\ x * f \in Int
  BY NumbersAssumption
<1>2. q \in Int /\ Unit * q <= x * f /\ x * f < Unit * q + Unit
  BY <1>1, DivFacts
<1> HIDE DEF q
<1>3. /\ ((m + q) - l - 1) * Unit = (m - l - 1) * Unit + Unit * q
      /\ (m - (m + q) - 1) * Unit = -(Unit * q) - Unit
      /\ (m - l - 1) * Unit \in Int
  BY <1>1, <1>2
<1> QED
  BY <1>1, <1>2, <1>3 DEF q

LEMMA ReturnedWithin ==
    ASSUME NEW m \in Int, NEW l \in Int, NEW s \in Int, NEW n \in Int, NEW a \in Int,
           NEW f \in Nat, NEW g \in Nat,
           (m - l - 1) * Unit + (n - s) * f < (n - a) * g
    PROVE  ((m + ((n - s) * f) \div Unit) - l - 1) * Unit < (n - a) * g
<1>1. n - s \in Int /\ (n - a) * g \in Int
  OBVIOUS
<1>2. /\ ((m + ((n - s) * f) \div Unit) - l - 1) * Unit \in Int
      /\ (m - l - 1) * Unit + (n - s) * f \in Int
      /\ ((m + ((n - s) * f) \div Unit) - l - 1) * Unit <= (m - l - 1) * Unit + (n - s) * f
  BY <1>1, RoundedDown
<1> QED
  BY <1>1, <1>2

\* Where the vfc's markers are as they should be.
Elsewhere == {"sleep", "update", "fetch 1", "measure", "variableValue", "primaryValue"}

\* The places are apart.
LEMMA PlacesFacts ==
    /\ pc \in {"marker 1", "marker 2"} => AtMarker /\ ~AtSource /\ ~AtChange
    /\ pc \in {"source 1", "source 2"} => ~AtMarker /\ AtSource /\ ~AtChange
    /\ pc \in {"change", "fetch 2"} => ~AtMarker /\ ~AtSource /\ AtChange
    /\ pc \in Elsewhere => ~AtMarker /\ ~AtSource /\ ~AtChange
BY DEF AtMarker, AtSource, AtChange, Elsewhere

\* One place's part of the invariant is all of it.
LEMMA AheadAt ==
    ASSUME NEW f
    PROVE  /\ vfc.frequency <= f /\ AtMarker /\ ~AtSource /\ ~AtChange /\ WithinFetched(f)
                => Ahead(f)
           /\ vfc.frequency <= f /\ ~AtMarker /\ AtSource /\ ~AtChange /\ WithinMarker(f)
                => Ahead(f)
           /\ vfc.frequency <= f /\ ~AtMarker /\ ~AtSource /\ AtChange /\ WithinFrozen(f)
                => Ahead(f)
           /\ vfc.frequency <= f /\ ~AtMarker /\ ~AtSource /\ ~AtChange /\ WithinReadable(f)
                => Ahead(f)
BY DEF Ahead, WithinFetched, WithinMarker, WithinFrozen, WithinReadable

\* From a time s within the bound, the vfc goes on at a speed below it.
LEMMA GoesOn ==
    ASSUME NEW m \in Int, NEW l \in Int, NEW s \in Int, NEW a \in Int, NEW n \in Int,
           NEW f \in Nat, NEW g \in Nat, f <= g, s <= n, (m - l - 1) * Unit < (s - a) * g
    PROVE  (m - l - 1) * Unit + (n - s) * f < (n - a) * g
<1>1. n - s \in Nat
  OBVIOUS
<1>2. (n - s) * f \in Int /\ (n - s) * g \in Int /\ (n - s) * f <= (n - s) * g
  BY <1>1
<1>3. (s - a) * g \in Int /\ (n - a) * g = (s - a) * g + (n - s) * g
  OBVIOUS
<1>4. (m - l - 1) * Unit \in Int
  BY NumbersAssumption
<1> QED
  BY <1>2, <1>3, <1>4

LEMMA StartsAt ==
    ASSUME NEW m \in Int, NEW l \in Int, NEW s \in Int, NEW a \in Int,
           NEW f \in Nat, NEW g \in Nat, f <= g, (m - l - 1) * Unit < (s - a) * g
    PROVE  (m - l - 1) * Unit + (s - s) * f < (s - a) * g
<1>1. s <= s
  OBVIOUS
<1> QED
  BY <1>1, GoesOn

\* What of the state the bound is about.
LEMMA BoundFacts ==
    ASSUME TypeOK, SpeedInv, vfc.frequency # NaN
    PROVE  /\ vfc \in Clocks /\ Source \in Int /\ vfc.markerSrc \in Int
           /\ now \in Nat /\ primary \in Int /\ Unit \in Nat
           /\ fetched # Invalid => fetched \in Int
           /\ vfc.marker # Invalid => vfc.marker \in Int
           /\ vfc.frequency \in Speeds /\ vfc.frequency \in Nat
           /\ lastRead # Invalid => lastRead.value \in Int /\ lastRead.at \in Int
BY TypeFacts, SpeedFacts, NumbersAssumption DEF TypeOK

\* Read: it is its own new bound.
LEMMA AheadRead ==
    ASSUME TypeOK, SpeedInv, Read, lastRead' # Invalid, vfc.frequency # NaN
    PROVE  \E f \in Speeds : Ahead(f)'
<1> DEFINE x == Source - vfc.markerSrc
<1>1. /\ vfc' = AfterRead /\ Source' = Source /\ pc' = pc /\ pc \notin Critical
      /\ lastRead'.at = Source
  BY DEF Read, MutexFree, world, Source
<1>2. Readable /\ lastRead'.value = vfc.marker + Elapsed
  BY ReadFacts
<1>3. /\ vfc'.marker = vfc.marker /\ vfc'.markerSrc = vfc.markerSrc
      /\ vfc'.frequency = vfc.frequency
  BY <1>1, AfterReadFacts
<1>4. /\ vfc.marker \in Int /\ vfc.frequency \in Nat /\ x \in Int /\ Source \in Int
      /\ (Source - Source) * vfc.frequency = 0
  BY <1>2, BoundFacts DEF Readable
<1>5. (vfc.marker - (vfc.marker + (x * vfc.frequency) \div Unit) - 1) * Unit
         + x * vfc.frequency < 0
  BY <1>4, RoundedDown
<1>6. PICK f \in Speeds : f = vfc.frequency
  BY BoundFacts
<1>7. WithinReadable(f)'
  BY <1>1, <1>2, <1>3, <1>4, <1>5, <1>6 DEF WithinReadable, Elapsed
<1>8. ~AtMarker' /\ ~AtSource' /\ ~AtChange'
  BY <1>1 DEF AtMarker, AtSource, AtChange, Critical
<1>9. Ahead(f)'
  BY <1>3, <1>4, <1>6, <1>7, <1>8
  DEF Ahead, WithinFetched, WithinMarker, WithinFrozen, WithinReadable
<1> QED
  BY <1>9

\* updateMarkers(): what getValue() returned is within the bound.
LEMMA AheadFetch ==
    ASSUME TypeOK, SpeedInv, ReadInv, vfc.frequency # NaN, lastRead # Invalid,
           NEW f \in Speeds, Ahead(f), NEW place, NEW next, NEW done, Fetch(place, next, done),
           \/ place = "fetch 1" /\ next = "marker 1" /\ done = "change"
           \/ place = "fetch 2" /\ next = "marker 2" /\ done = "measure"
    PROVE  Ahead(f)'
<1>1. /\ lastRead' = lastRead /\ Source' = Source /\ vfc' = AfterRead /\ pc = place
      /\ vfc'.frequency = vfc.frequency /\ vfc.frequency <= f /\ f \in Nat
  BY AfterReadFacts, SpeedsType DEF Fetch, world, Source, Ahead
<1>2. CASE vfc.rolledOver
  <2>1. pc' \in {"change", "measure"} /\ vfc'.rolledOver
    BY <1>1, <1>2, AfterReadFacts DEF Fetch, Goto
  <2> QED
    BY <1>1, <2>1
    DEF Ahead, WithinFetched, WithinMarker, WithinFrozen, WithinReadable, Readable,
        AtMarker, AtSource, AtChange
<1>3. CASE ~vfc.rolledOver
  <2>1. pc' = next /\ fetched' \in Values
    BY <1>3 DEF Fetch, Goto
  <2>2. ASSUME fetched' # Invalid PROVE Within(fetched', Source, f)
    <3>1. Readable /\ fetched' = vfc.marker + Elapsed
      BY <2>1, <2>2, ValuesFacts
    <3>2. /\ vfc.marker \in Int /\ vfc.frequency \in Nat /\ Source \in Int
          /\ lastRead.value \in Int /\ lastRead.at \in Int /\ vfc.markerSrc \in Int
      BY <3>1, BoundFacts DEF Readable
    <3>3. vfc.markerSrc <= Source
      BY <3>1, <3>2 DEF Readable
    <3>4. (vfc.marker - lastRead.value - 1) * Unit + (Source - vfc.markerSrc) * vfc.frequency
            < (Source - lastRead.at) * f
      <4>1. CASE place = "fetch 1"
        BY <1>1, <3>1, <4>1, PlacesFacts DEF Ahead, WithinReadable, Elsewhere
      <4>2. CASE place = "fetch 2"
        <5>1. (vfc.marker - lastRead.value - 1) * Unit < (vfc.markerSrc - lastRead.at) * f
          BY <1>1, <1>3, <3>1, <4>2, PlacesFacts DEF Ahead, WithinFrozen, Within, Readable
        <5> QED
          BY <1>1, <3>2, <3>3, <5>1, GoesOn, Zenon
      <4> QED
        BY <4>1, <4>2
    <3>5. ((vfc.marker + Elapsed) - lastRead.value - 1) * Unit < (Source - lastRead.at) * f
      BY <1>1, <3>2, <3>4, ReturnedWithin, Zenon DEF Elapsed
    <3> QED
      BY <3>1, <3>5, Zenon DEF Within
  <2>3. pc' \in {"marker 1", "marker 2"}
    BY <2>1
  <2> QED
    BY <1>1, <2>2, <2>3
    DEF Ahead, WithinFetched, WithinMarker, WithinFrozen, WithinReadable, Within,
        AtMarker, AtSource, AtChange
<1> QED
  BY <1>2, <1>3

LEMMA AheadSetMarker ==
    ASSUME TypeOK, lastRead # Invalid,
           NEW f \in Speeds, Ahead(f), NEW place, NEW next, SetMarker(place, next),
           \/ place = "marker 1" /\ next = "source 1"
           \/ place = "marker 2" /\ next = "source 2"
    PROVE  Ahead(f)'
<1>1. /\ lastRead' = lastRead /\ Source' = Source /\ vfc'.frequency = vfc.frequency
      /\ vfc'.marker = fetched /\ pc \in {"marker 1", "marker 2"}
      /\ pc' \in {"source 1", "source 2"}
  BY TypeFacts DEF SetMarker, Goto, world, Source, Clocks
<1>2. fetched = Invalid \/ Within(fetched, Source, f)
  BY <1>1, PlacesFacts DEF Ahead, WithinFetched
<1>3. vfc.frequency <= f
  BY DEF Ahead
<1> QED
  BY <1>1, <1>2, <1>3
  DEF Ahead, WithinFetched, WithinMarker, WithinFrozen, WithinReadable, Within,
      AtMarker, AtSource, AtChange

LEMMA AheadSetSource ==
    ASSUME TypeOK, SpeedInv, ReadInv, vfc.frequency # NaN, lastRead # Invalid,
           NEW f \in Speeds, Ahead(f), NEW place, NEW next, SetSource(place, next),
           \/ place = "source 1" /\ next = "change"
           \/ place = "source 2" /\ next = "measure"
    PROVE  Ahead(f)'
<1>1. /\ lastRead' = lastRead /\ Source' = Source /\ vfc'.frequency = vfc.frequency
      /\ vfc'.marker = vfc.marker /\ vfc'.markerSrc = Source
      /\ pc \in {"source 1", "source 2"} /\ pc' = next
  BY TypeFacts DEF SetSource, Goto, world, Source, Clocks
<1>2. vfc.marker = Invalid \/ Within(vfc.marker, Source, f)
  BY <1>1, PlacesFacts DEF Ahead, WithinMarker
<1>3. vfc.frequency <= f
  BY DEF Ahead
<1>4. CASE next = "change"
  <2>1. Source >= lastRead.at
    BY BoundFacts DEF ReadInv
  <2> QED
    BY <1>1, <1>2, <1>3, <1>4, <2>1
    DEF Ahead, WithinFetched, WithinMarker, WithinFrozen, WithinReadable, Within,
        AtMarker, AtSource, AtChange
<1>5. CASE next = "measure"
  <2>1. ASSUME vfc.marker # Invalid
        PROVE  (vfc.marker - lastRead.value - 1) * Unit + (Source - Source) * vfc.frequency
                 < (Source - lastRead.at) * f
    <3>1. /\ vfc.marker \in Int /\ lastRead.value \in Int /\ lastRead.at \in Int
          /\ Source \in Int /\ vfc.frequency \in Nat /\ f \in Nat
      BY <2>1, BoundFacts, SpeedsType
    <3>2. (vfc.marker - lastRead.value - 1) * Unit < (Source - lastRead.at) * f
      BY <1>2, <2>1, Zenon DEF Within
    <3> QED
      BY <1>3, <3>1, <3>2, StartsAt, Zenon
  <2>2. WithinReadable(f)'
    BY <1>1, <2>1 DEF WithinReadable, Readable
  <2>3. pc' = "measure"
    BY <1>1, <1>5
  <2> QED
    BY <1>1, <1>3, <2>2, <2>3
    DEF Ahead, WithinFetched, WithinMarker, WithinFrozen, WithinReadable,
        AtMarker, AtSource, AtChange
<1> QED
  BY <1>4, <1>5

\* setFrequency() changes it: the bound is the faster of the new frequency and the old bound.
LEMMA AheadChange ==
    ASSUME TypeOK, NaNInv, SpeedInv, SpeedInv', SourceInv, vfc.frequency # NaN,
           vfc'.frequency # NaN, lastRead # Invalid, NEW f \in Speeds, Ahead(f), Change
    PROVE  \E g \in Speeds : Ahead(g)'
<1>1. lastRead' = lastRead /\ Source' = Source /\ pc = "change"
  BY DEF Change, world, Source
<1>2. \/ vfc.rolledOver \/ vfc.marker = Invalid
      \/ vfc.markerSrc >= lastRead.at /\ Within(vfc.marker, vfc.markerSrc, f)
  BY <1>1, PlacesFacts DEF Ahead, WithinFrozen
<1>3. vfc.frequency <= f /\ f \in Nat /\ vfc.frequency \in Nat
  BY SpeedsType, BoundFacts DEF Ahead
<1>4. CASE pc' = "measure" /\ vfc' = vfc
  <2>1. ASSUME Readable
        PROVE  (vfc.marker - lastRead.value - 1) * Unit
                 + (Source - vfc.markerSrc) * vfc.frequency < (Source - lastRead.at) * f
    <3>1. /\ vfc.marker \in Int /\ lastRead.value \in Int /\ lastRead.at \in Int
          /\ Source \in Int /\ vfc.markerSrc \in Int
      BY <2>1, BoundFacts DEF Readable
    <3>2. vfc.markerSrc <= Source
      BY <2>1, <3>1 DEF Readable
    <3>3. (vfc.marker - lastRead.value - 1) * Unit < (vfc.markerSrc - lastRead.at) * f
      BY <1>2, <2>1, Zenon DEF Within, Readable
    <3> QED
      BY <1>3, <3>1, <3>2, <3>3, GoesOn, Zenon
  <2>2. WithinReadable(f)'
    BY <1>1, <1>4, <2>1 DEF WithinReadable, Readable
  <2>3. Ahead(f)'
    BY <1>1, <1>3, <1>4, <2>2
    DEF Ahead, WithinFetched, WithinMarker, WithinFrozen, WithinReadable,
        AtMarker, AtSource, AtChange
  <2> QED
    BY <2>3
<1>5. CASE pc' = "fetch 2" /\ vfc' = [vfc EXCEPT !.frequency = frequency]
  <2>1. /\ vfc'.rolledOver = vfc.rolledOver /\ vfc'.marker = vfc.marker
        /\ vfc'.markerSrc = vfc.markerSrc
    BY <1>5, TypeFacts DEF Clocks
  <2>2. vfc'.frequency \in Speeds
    BY DEF SpeedInv
  <2>3. PICK g \in Speeds : f <= g /\ vfc'.frequency <= g
    <3>1. vfc'.frequency \in Nat
      BY <2>2, SpeedsType
    <3>2. f <= vfc'.frequency \/ vfc'.frequency <= f
      BY <1>3, <3>1
    <3> QED
      BY <1>3, <2>2, <3>1, <3>2
  <2>4. ASSUME ~vfc.rolledOver, vfc.marker # Invalid
        PROVE  vfc.markerSrc >= lastRead.at /\ Within(vfc.marker, vfc.markerSrc, g)
    <3>1. /\ vfc.marker \in Int /\ lastRead.value \in Int /\ lastRead.at \in Int
          /\ vfc.markerSrc \in Int /\ g \in Nat
      BY <2>4, BoundFacts, SpeedsType
    <3>2. vfc.markerSrc >= lastRead.at /\ Within(vfc.marker, vfc.markerSrc, f)
      BY <1>2, <2>4, Zenon
    <3>3. vfc.markerSrc - lastRead.at \in Nat
      BY <3>1, <3>2
    <3>4. (vfc.marker - lastRead.value - 1) * Unit < (vfc.markerSrc - lastRead.at) * g
      BY <1>3, <2>3, <3>1, <3>2, <3>3, WithinMonotone, Zenon DEF Within
    <3> QED
      BY <3>2, <3>4 DEF Within
  <2>5. WithinFrozen(g)'
    BY <1>1, <2>1, <2>4 DEF WithinFrozen, Within
  <2>6. Ahead(g)'
    BY <1>5, <2>3, <2>5
    DEF Ahead, WithinFetched, WithinMarker, WithinFrozen, WithinReadable,
        AtMarker, AtSource, AtChange
  <2> QED
    BY <2>6
<1> QED
  BY <1>4, <1>5 DEF Change, Goto

\* A step that changes of the vfc no more than getValue() does, and leaves the updater where
\* it was, or at no place in setFrequency().
LEMMA AheadSame ==
    ASSUME TypeOK, NEW f \in Speeds, Ahead(f), lastRead' = lastRead, Source' = Source,
           vfc' = AfterRead \/ vfc' = vfc, fetched' = fetched,
           \/ pc' = pc /\ vfc' = vfc
           \/ pc \in Elsewhere /\ pc' \in Elsewhere
    PROVE  Ahead(f)'
<1>1. /\ vfc'.marker = vfc.marker /\ vfc'.markerSrc = vfc.markerSrc
      /\ vfc'.frequency = vfc.frequency /\ (vfc.rolledOver => vfc'.rolledOver)
  BY AfterReadFacts
<1>2. CASE pc' = pc /\ vfc' = vfc
  BY <1>2
  DEF Ahead, WithinFetched, WithinMarker, WithinFrozen, WithinReadable, Within, Readable,
      AtMarker, AtSource, AtChange
<1>3. CASE pc \in Elsewhere /\ pc' \in Elsewhere
  <2>1. ~AtMarker' /\ ~AtSource' /\ ~AtChange'
    BY <1>3 DEF AtMarker, AtSource, AtChange, Elsewhere
  <2>2. Readable' => Readable
    BY <1>1, SameClock
  <2>3. WithinReadable(f) /\ ~AtMarker /\ ~AtSource /\ ~AtChange /\ vfc.frequency <= f
    BY <1>3, PlacesFacts DEF Ahead
  <2>4. WithinReadable(f)'
    BY <1>1, <2>2, <2>3 DEF WithinReadable
  <2> QED
    BY <1>1, <2>1, <2>3, <2>4
    DEF Ahead, WithinFetched, WithinMarker, WithinFrozen, WithinReadable
<1> QED
  BY <1>2, <1>3

LEMMA OneMore ==
    ASSUME NEW s \in Int, NEW a \in Int, NEW f \in Nat
    PROVE  ((s + 1) - a) * f = (s - a) * f + f /\ (s - a) * f \in Int
OBVIOUS

\* The bound grows at least as fast as the vfc.
LEMMA AheadTick ==
    ASSUME TypeOK, SpeedInv, SourceInv, ReadInv, vfc.frequency # NaN, lastRead # Invalid,
           NEW f \in Speeds, Ahead(f), Tick
    PROVE  Ahead(f)'
<1>1. /\ Source' = Source + 1 /\ lastRead' = lastRead /\ vfc' = vfc /\ pc' = pc
      /\ fetched' = fetched
  BY TickFacts
<1>2. /\ Source \in Int /\ vfc.markerSrc \in Int /\ vfc.frequency \in Nat /\ f \in Nat
      /\ lastRead.value \in Int /\ lastRead.at \in Int /\ Unit \in Nat
      /\ vfc.frequency <= f
  BY BoundFacts, SpeedsType DEF Ahead
<1>3. /\ ((Source + 1) - lastRead.at) * f = (Source - lastRead.at) * f + f
      /\ (Source - lastRead.at) * f \in Int
  BY <1>2, OneMore
<1>4. ASSUME NEW v \in Int, Within(v, Source, f) PROVE Within(v, Source + 1, f)
  <2>1. (v - lastRead.value - 1) * Unit \in Int
    BY <1>2
  <2> QED
    BY <1>2, <1>3, <1>4, <2>1 DEF Within
<1>5. ASSUME NEW m \in Int,
             (m - lastRead.value - 1) * Unit + (Source - vfc.markerSrc) * vfc.frequency
               < (Source - lastRead.at) * f
      PROVE  (m - lastRead.value - 1) * Unit + ((Source + 1) - vfc.markerSrc) * vfc.frequency
               < ((Source + 1) - lastRead.at) * f
  <2>1. /\ ((Source + 1) - vfc.markerSrc) * vfc.frequency
             = (Source - vfc.markerSrc) * vfc.frequency + vfc.frequency
        /\ (Source - vfc.markerSrc) * vfc.frequency \in Int
    BY <1>2, OneMore
  <2>2. (m - lastRead.value - 1) * Unit \in Int
    BY <1>2
  <2> QED
    BY <1>2, <1>3, <1>5, <2>1, <2>2
<1>6. WithinFetched(f)' /\ WithinMarker(f)' /\ WithinFrozen(f)'
  <2>1. WithinFetched(f)'
    BY <1>1, <1>4, BoundFacts DEF Ahead, WithinFetched, Within, AtMarker
  <2>2. WithinMarker(f)'
    BY <1>1, <1>4, BoundFacts DEF Ahead, WithinMarker, Within, AtSource
  <2>3. WithinFrozen(f)'
    BY <1>1 DEF Ahead, WithinFrozen, Within, AtChange
  <2> QED
    BY <2>1, <2>2, <2>3
<1>7. WithinReadable(f)'
  <2>1. Readable' => Readable
    BY <1>1 DEF Readable, SourceInv
  <2>2. Readable => vfc.marker \in Int
    BY BoundFacts DEF Readable
  <2>3. ASSUME Readable, ~(AtMarker \/ AtSource \/ AtChange)
        PROVE  (vfc.marker - lastRead.value - 1) * Unit
                 + ((Source + 1) - vfc.markerSrc) * vfc.frequency
                 < ((Source + 1) - lastRead.at) * f
    <3>1. (vfc.marker - lastRead.value - 1) * Unit + (Source - vfc.markerSrc) * vfc.frequency
            < (Source - lastRead.at) * f
      BY <2>3, Zenon DEF Ahead, WithinReadable
    <3> QED
      BY <1>5, <2>2, <2>3, <3>1, Zenon
  <2>4. /\ AtMarker' <=> AtMarker
        /\ AtSource' <=> AtSource
        /\ AtChange' <=> AtChange
    BY <1>1 DEF AtMarker, AtSource, AtChange
  <2>5. ASSUME Readable', ~(AtMarker \/ AtSource \/ AtChange)'
        PROVE  (vfc'.marker - lastRead'.value - 1) * Unit
                 + (Source' - vfc'.markerSrc) * vfc'.frequency < (Source' - lastRead'.at) * f
    <3>1. (vfc.marker - lastRead.value - 1) * Unit
            + ((Source + 1) - vfc.markerSrc) * vfc.frequency < ((Source + 1) - lastRead.at) * f
      BY <2>1, <2>3, <2>4, <2>5, Zenon
    <3>2. vfc' = vfc /\ lastRead' = lastRead /\ Source' = Source + 1
      BY <1>1
    <3> QED
      BY <3>1, <3>2, Zenon
  <2> QED
    BY <2>5, Zenon DEF WithinReadable
<1> QED
  BY <1>1, <1>2, <1>6, <1>7 DEF Ahead

LEMMA AheadStep ==
    /\ TypeOK /\ NaNInv /\ SpeedInv /\ SourceInv /\ ReadInv /\ AheadInv /\ [Next]_vars
    => AheadInv'
<1> SUFFICES ASSUME TypeOK, NaNInv, SpeedInv, SourceInv, ReadInv, AheadInv, [Next]_vars,
                    lastRead' # Invalid, vfc'.frequency # NaN
             PROVE  \E f \in Speeds : Ahead(f)'
  BY DEF AheadInv
<1> USE DEF world, samples, steering
<1>1. vfc.frequency # NaN
  BY NaNStays
<1>2. CASE Read
  BY <1>1, <1>2, AheadRead
<1>3. ASSUME lastRead # Invalid PROVE \E f \in Speeds : Ahead(f)
  BY <1>1, <1>3 DEF AheadInv
<1>4. ASSUME NEW place, NEW next, NEW done, Fetch(place, next, done),
             \/ place = "fetch 1" /\ next = "marker 1" /\ done = "change"
             \/ place = "fetch 2" /\ next = "marker 2" /\ done = "measure"
      PROVE  \E f \in Speeds : Ahead(f)'
  <2>1. lastRead # Invalid
    BY <1>4 DEF Fetch
  <2> QED
    BY <1>1, <1>3, <1>4, <2>1, AheadFetch, Zenon
<1>5. ASSUME NEW place, NEW next, SetMarker(place, next),
             \/ place = "marker 1" /\ next = "source 1"
             \/ place = "marker 2" /\ next = "source 2"
      PROVE  \E f \in Speeds : Ahead(f)'
  <2>1. lastRead # Invalid
    BY <1>5 DEF SetMarker
  <2> QED
    BY <1>3, <1>5, <2>1, AheadSetMarker, Zenon
<1>6. ASSUME NEW place, NEW next, SetSource(place, next),
             \/ place = "source 1" /\ next = "change"
             \/ place = "source 2" /\ next = "measure"
      PROVE  \E f \in Speeds : Ahead(f)'
  <2>1. lastRead # Invalid
    BY <1>6 DEF SetSource
  <2> QED
    BY <1>1, <1>3, <1>6, <2>1, AheadSetSource, Zenon
<1>7. CASE Change
  <2>1. lastRead # Invalid
    BY <1>7 DEF Change
  <2>2. SpeedInv'
    BY SpeedStep
  <2> QED
    BY <1>1, <1>3, <1>7, <2>1, <2>2, AheadChange
<1>8. CASE setFrequency
  BY <1>4, <1>5, <1>6, <1>7, <1>8 DEF setFrequency
<1>9. CASE Reset
  BY <1>9 DEF Reset
<1>10. CASE Tick
  <2>1. lastRead # Invalid
    BY <1>10, TickFacts, Zenon
  <2> QED
    BY <1>1, <1>3, <1>10, <2>1, AheadTick
<1>11. CASE Wake \/ LoseSync \/ Estimate \/ Measure \/ ReadVariable \/ ReadPrimary
  <2>1. /\ lastRead' = lastRead /\ Source' = Source /\ fetched' = fetched
        /\ vfc' = AfterRead \/ vfc' = vfc
        /\ pc \in Elsewhere /\ pc' \in Elsewhere
    BY <1>11
    DEF Wake, LoseSync, Estimate, EstimateThen, Measure, ReadVariable, ReadPrimary, Sleep,
        Goto, Source, Elsewhere
  <2> QED
    BY <1>3, <2>1, AheadSame
<1>12. CASE Set \/ End \/ UNCHANGED vars
  <2>1. /\ lastRead' = lastRead /\ Source' = Source /\ fetched' = fetched /\ vfc' = vfc
        /\ pc' = pc
    BY <1>12 DEF Set, End, vars, Source
  <2> QED
    BY <1>3, <2>1, AheadSame
<1> QED
  BY <1>2, <1>8, <1>9, <1>10, <1>11, <1>12 DEF Next, Updater

LEMMA JumpInvariance == Spec => []JumpInv
<1>1. Init => JumpInv
  BY DEF Init, JumpInv, ReadInv, AheadInv
<1>2. IInv /\ EstimateInv /\ JumpInv /\ [Next]_vars => JumpInv'
  BY ReadStep, AheadStep DEF IInv, EstimateInv, JumpInv
<1> QED
  BY Invariance, EstimateInvariance, <1>1, <1>2, PTL DEF Spec

-----------------------------------------------------------------------------
(* The theorems *)

\* updateClock()'s referenceElapsed is the primary clock's ticks, give or take the errors of
\* two measurements and the vfc's drift while they were made, and the time between reading the
\* vfc and then the primary clock, which counts in the ticks alone: however often the vfc was
\* reset or steered in between: Spec => []EstimateSound.
THEOREM EstimateIsSound == Spec => []EstimateSound
<1>1. EstimateInv => EstimateSound
  BY DEF EstimateInv
<1> QED
  BY EstimateInvariance, <1>1, PTL

\* Between resets, PhaseLockedClock::getValue() never gets ahead of its last time by more
\* than the highest frequency allows, and one microsecond for the rounding, however often
\* setFrequency() moves the markers in between: Spec => NeverJumps.
THEOREM TimeNeverJumps == Spec => NeverJumps
<1> DEFINE Allowed(f) ==
             (lastRead'.value - lastRead.value - 1) * Unit < (lastRead'.at - lastRead.at) * f
<1>1. IInv /\ EstimateInv /\ JumpInv /\ [Next]_vars
      => [Reread => \E f \in Speeds : Allowed(f)]_vars
  <2> SUFFICES ASSUME IInv, EstimateInv, JumpInv, [Next]_vars, Reread
               PROVE  \E f \in Speeds : Allowed(f)
    OBVIOUS
  <2>1. TypeOK /\ NaNInv /\ SpeedInv /\ AheadInv
    BY DEF IInv, EstimateInv, JumpInv
  <2>2. /\ lastRead # Invalid /\ lastRead' # Invalid /\ vfc.frequency # NaN
        /\ lastRead.value \in Int /\ lastRead.at \in Int
    BY <2>1, NaNStays, BoundFacts DEF Reread
  <2>3. CASE lastRead' = lastRead
    <3>1. Unit \in Nat \ {0} /\ Unit \in Speeds
      BY NumbersAssumption, SpeedsType
    <3>2. (lastRead.value - lastRead.value - 1) * Unit < (lastRead.at - lastRead.at) * Unit
      BY <2>2, <3>1
    <3> QED
      BY <2>3, <3>1, <3>2, Zenon
  <2>4. CASE Read
    <3>1. PICK f \in Speeds : Ahead(f)
      BY <2>1, <2>2 DEF AheadInv
    <3>2. pc \notin Critical
      BY <2>4 DEF Read, MutexFree
    <3>3. ~AtMarker /\ ~AtSource /\ ~AtChange
      BY <3>2 DEF AtMarker, AtSource, AtChange, Critical
    <3>4. Readable /\ lastRead'.value = vfc.marker + Elapsed /\ lastRead'.at = Source
      BY <2>1, <2>2, <2>4, ReadFacts DEF Read
    <3>5. (vfc.marker - lastRead.value - 1) * Unit + (Source - vfc.markerSrc) * vfc.frequency
            < (Source - lastRead.at) * f
      BY <3>1, <3>3, <3>4 DEF Ahead, WithinReadable
    <3>6. /\ vfc.marker \in Int /\ Source \in Int /\ vfc.markerSrc \in Int
          /\ vfc.frequency \in Nat /\ f \in Nat
      BY <2>1, <2>2, <3>4, BoundFacts, SpeedsType DEF Readable
    <3>7. ((vfc.marker + Elapsed) - lastRead.value - 1) * Unit < (Source - lastRead.at) * f
      BY <2>2, <3>5, <3>6, ReturnedWithin, Zenon DEF Elapsed
    <3> QED
      BY <3>4, <3>7, Zenon
  <2>5. lastRead' = lastRead \/ lastRead' = Invalid \/ Read
    BY DEF Next, Updater, Wake, LoseSync, Estimate, EstimateThen, setFrequency, Fetch,
           SetMarker, SetSource, Change, Reset, Measure, ReadVariable, ReadPrimary, Tick, Set,
           End, vars, world, samples, steering
  <2> QED
    BY <2>2, <2>3, <2>4, <2>5
<1> QED
  BY Invariance, EstimateInvariance, JumpInvariance, <1>1, PTL DEF Spec, NeverJumps
=============================================================================
