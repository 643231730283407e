------------------------- MODULE FrequencyLockProofs -------------------------
(***************************************************************************)
(* That the time which readers get never steps back between two resets,    *)
(* for any frequencies, units, bounds and settings of clocks.              *)
(***************************************************************************)
EXTENDS FrequencyLock, TLAPS

-----------------------------------------------------------------------------
(* The inductive invariant *)

\* When getValue() returns a time, and which one.
Readable == ~vfc.rolledOver /\ vfc.marker # Invalid /\ Source >= vfc.markerSrc
Elapsed == ((Source - vfc.markerSrc) * vfc.frequency) \div Unit

\* A frequency that is NaN stays so, because the average is not finite any more.
NaNInv ==
    /\ frequency = NaN => average # "finite"
    /\ vfc.frequency = NaN => average # "finite" /\ frequency \in {0, NaN}

\* A reader can't have got a time, if the source was set back to before the marker.
SourceInv == lastRead # Invalid => Source >= vfc.markerSrc

\* What a reader got is in the past of the vfc: at the places in setFrequency() where the
\* markers are moved, of what is stored so far; at the others, of what it would return.
AtMarker == pc \in {"marker 1", "marker 2"}
AtSource == pc \in {"source 1", "source 2"}
AtChange == pc \in {"change", "fetch 2"}

BeforeFetched  == AtMarker => fetched = Invalid \/ lastRead.value <= fetched
BeforeMarker   == AtSource => vfc.marker = Invalid \/ lastRead.value <= vfc.marker
BeforeFrozen   == AtChange => vfc.rolledOver \/ vfc.marker = Invalid
                                 \/ lastRead.value <= vfc.marker
BeforeReadable == ~(AtMarker \/ AtSource \/ AtChange) =>
                     (Readable => lastRead.value <= vfc.marker + Elapsed)

MonotoneInv ==
    lastRead # Invalid /\ vfc.frequency # NaN =>
        BeforeFetched /\ BeforeMarker /\ BeforeFrozen /\ BeforeReadable

IInv == TypeOK /\ NaNInv /\ SourceInv /\ MonotoneInv

-----------------------------------------------------------------------------
(* Lemmas about numbers *)

\* What division rounds to.
LEMMA DivFacts ==
    ASSUME NEW a \in Int, NEW b \in Nat \ {0}
    PROVE  /\ a \div b \in Int
           /\ b * (a \div b) <= a
           /\ a < b * (a \div b) + b
OBVIOUS

LEMMA DivMonotone ==
    ASSUME NEW a \in Int, NEW c \in Int, a <= c, NEW b \in Nat \ {0}
    PROVE  a \div b <= c \div b
<1> DEFINE p == a \div b
           q == c \div b
<1>1. p \in Int /\ q \in Int /\ b * p <= a /\ c < b * q + b
  BY DivFacts
<1> HIDE DEF p, q
<1>2. b * p < b * (q + 1)
  BY <1>1
<1>3. p < q + 1
  BY <1>1, <1>2
<1> QED
  BY <1>1, <1>3 DEF p, q

LEMMA TimesMonotone ==
    ASSUME NEW x \in Int, NEW y \in Int, x <= y, NEW f \in Nat
    PROVE  x * f \in Int /\ y * f \in Int /\ x * f <= y * f
OBVIOUS

\* More ticks of the source are no fewer microseconds, and none are none.
LEMMA ScaledFacts ==
    ASSUME NEW x \in Nat, NEW y \in Int, x <= y, NEW f \in Nat
    PROVE  /\ (x * f) \div Unit \in Int /\ (y * f) \div Unit \in Int
           /\ 0 <= (x * f) \div Unit /\ (x * f) \div Unit <= (y * f) \div Unit
<1>1. x * f \in Int /\ y * f \in Int /\ x * f <= y * f
  BY TimesMonotone
<1>2. 0 * f \in Int /\ 0 * f <= x * f /\ 0 * f = 0
  BY TimesMonotone
<1>3. Unit \in Nat \ {0}
  BY NumbersAssumption
<1>4. 0 \div Unit = 0
  BY <1>3
<1> QED
  BY <1>1, <1>2, <1>3, <1>4, DivFacts, DivMonotone

-----------------------------------------------------------------------------
(* Types *)

\* The parts of TypeOK that arithmetic needs.
LEMMA TypeFacts ==
    ASSUME TypeOK
    PROVE  /\ now \in Nat /\ primary \in Int /\ reference \in Int /\ Source \in Int
           /\ settings \in Nat /\ new \in Samples /\ fetched \in Int \cup {Invalid}
           /\ vfc \in Clocks /\ vfc.rolledOver \in BOOLEAN
           /\ vfc.marker \in Int \cup {Invalid} /\ vfc.markerSrc \in Int
           /\ vfc.frequency \in (Nat \ {0}) \cup {NaN}
<1>1. /\ now \in Nat /\ primary \in Int /\ reference \in Int /\ settings \in Nat
      /\ vfc \in Clocks /\ new \in Samples /\ fetched \in Int \cup {Invalid}
  BY Zenon DEF TypeOK
<1>2. now + primary \in Int
  BY <1>1
<1>3. /\ vfc.marker \in Int \cup {Invalid} /\ vfc.markerSrc \in Int
      /\ vfc.frequency \in (Nat \ {0}) \cup {NaN} /\ vfc.rolledOver \in BOOLEAN
  BY <1>1 DEF Clocks
<1> QED
  BY <1>1, <1>2, <1>3 DEF Source

\* getValue() returns a time exactly if it can, the one that Elapsed says.
LEMMA ValuesFacts ==
    ASSUME TypeOK, NEW t \in Values
    PROVE  /\ t \in Int \cup {Invalid}
           /\ t # Invalid => Readable
           /\ t # Invalid /\ vfc.frequency # NaN => t = vfc.marker + Elapsed
<1>1. vfc.marker \in Int \cup {Invalid} /\ Source \in Int /\ vfc.markerSrc \in Int
  BY TypeFacts
<1>2. CASE vfc.rolledOver \/ vfc.marker = Invalid \/ Source < vfc.markerSrc
  BY <1>2 DEF Values
<1>3. CASE ~(vfc.rolledOver \/ vfc.marker = Invalid \/ Source < vfc.markerSrc)
  <2>1. PICK d \in Scaled(Source - vfc.markerSrc, vfc.frequency) : t = vfc.marker + d
    BY <1>3 DEF Values
  <2>2. Readable /\ Source - vfc.markerSrc \in Nat
    BY <1>1, <1>3 DEF Readable
  <2>3. CASE vfc.frequency = NaN
    BY <1>1, <1>3, <2>1, <2>2, <2>3, NumbersAssumption DEF Scaled
  <2>4. CASE vfc.frequency # NaN
    <3>1. vfc.frequency \in Nat /\ d = Elapsed
      BY <2>1, <2>4, TypeFacts DEF Scaled, Elapsed
    <3>2. d \in Int
      BY <2>2, <3>1, ScaledFacts DEF Elapsed
    <3> QED
      BY <1>1, <1>3, <2>1, <2>2, <3>1, <3>2
  <2> QED
    BY <2>3, <2>4
<1> QED
  BY <1>2, <1>3

\* getValue() changes rolledOver_ only.
LEMMA AfterReadFacts ==
    ASSUME TypeOK
    PROVE  /\ AfterRead \in Clocks
           /\ AfterRead.marker = vfc.marker /\ AfterRead.markerSrc = vfc.markerSrc
           /\ AfterRead.frequency = vfc.frequency
           /\ vfc.rolledOver => AfterRead.rolledOver
           /\ Source >= vfc.markerSrc => AfterRead.rolledOver = vfc.rolledOver
<1>1. Source \in Int /\ vfc.markerSrc \in Int /\ vfc \in Clocks
  BY TypeFacts
<1>2. ASSUME NEW b \in BOOLEAN, AfterRead = [vfc EXCEPT !.rolledOver = b]
      PROVE  /\ AfterRead \in Clocks /\ AfterRead.rolledOver = b
             /\ AfterRead.marker = vfc.marker /\ AfterRead.markerSrc = vfc.markerSrc
             /\ AfterRead.frequency = vfc.frequency
  BY <1>1, <1>2 DEF Clocks
<1>3. AfterRead = [vfc EXCEPT !.rolledOver = vfc.rolledOver \/ Source < vfc.markerSrc]
  BY DEF AfterRead
<1>4. (vfc.rolledOver \/ Source < vfc.markerSrc) \in BOOLEAN
  OBVIOUS
<1>5. /\ AfterRead \in Clocks
      /\ AfterRead.rolledOver = (vfc.rolledOver \/ Source < vfc.markerSrc)
      /\ AfterRead.marker = vfc.marker /\ AfterRead.markerSrc = vfc.markerSrc
      /\ AfterRead.frequency = vfc.frequency
  BY <1>2, <1>3, <1>4
<1>6. Source >= vfc.markerSrc => ~(Source < vfc.markerSrc)
  BY <1>1
<1>7. vfc.rolledOver \in BOOLEAN
  BY TypeFacts
<1> QED
  BY <1>5, <1>6, <1>7, Zenon

LEMMA ErrorsType == Errors \subseteq Int
BY NumbersAssumption

LEMMA OffsetsType == Offsets \subseteq Int
BY NumbersAssumption

LEMMA NaNFacts == NaN \notin Int
BY NumbersAssumption, Zenon

LEMMA NaNIsNoWord == NaN # "finite" /\ NaN # "infinite"
BY NumbersAssumption, Zenon

LEMMA FrequenciesType == Frequencies \subseteq Nat
BY NumbersAssumption, Zenon

LEMMA NaNIsNoFrequency == NaN \notin Frequencies \cup {0}
<1>1. NaN # 0
  BY NaNFacts
<1>2. ASSUME NaN \in Frequencies PROVE FALSE
  <2>1. NaN \in Nat
    BY <1>2, FrequenciesType
  <2> QED
    BY <2>1, NaNFacts
<1> QED
  BY <1>1, <1>2, Zenon

LEMMA NextFrequenciesType == NextFrequencies \subseteq Nat \cup {NaN}
BY NumbersAssumption DEF NextFrequencies

LEMMA TypeInit == Init => TypeOK
<1> SUFFICES ASSUME Init PROVE TypeOK
  OBVIOUS
<1>1. NoSample \in Samples
  BY DEF NoSample, Samples
<1>2. now \in Nat /\ primary \in Int /\ reference \in Int /\ settings \in Nat /\ wake \in Nat
  BY NumbersAssumption DEF Init
<1>3. now + primary \in Int /\ 0 \in Int /\ 0 \in Nat /\ Unit \in (Nat \ {0}) \cup {NaN}
  BY <1>2, NumbersAssumption
<1>4. vfc \in Clocks
  BY <1>3 DEF Init, Clocks
<1> QED
  BY <1>1, <1>2, <1>3, <1>4 DEF Init, TypeOK

\* run()'s sleep ends at some time.
LEMMA SleepType == TypeOK /\ Sleep => wake' \in Nat /\ pc' = "sleep"
BY TypeFacts, NumbersAssumption DEF Sleep, Goto

\* Time goes by, also while a sample is taken.
LEMMA TickFacts ==
    ASSUME TypeOK, Tick
    PROVE  /\ now' = now + 1 /\ Source' = Source + 1
           /\ UNCHANGED <<primary, reference, settings, pc, vfc, fetched, lastRead, cur, prev>>
           /\ new' \in Samples
           /\ new'.phase = new.phase /\ new'.variable = new.variable
           /\ new'.settings = new.settings
           /\ new'.lag = IF pc = "variableValue" THEN new.lag + 1 ELSE new.lag
           /\ new'.gap = IF pc = "primaryValue" THEN new.gap + 1 ELSE new.gap
<1> DEFINE n == IF pc = "variableValue" THEN new.lag + 1 ELSE new.lag
           m == IF pc = "primaryValue" THEN new.gap + 1 ELSE new.gap
<1>1. /\ now' = now + 1
      /\ UNCHANGED <<primary, reference, settings, pc, vfc, fetched, lastRead, cur, prev>>
      /\ new' = [new EXCEPT !.lag = n, !.gap = m]
  BY Zenon DEF Tick, steering
<1>2. now \in Nat /\ primary \in Int /\ new \in Samples
  BY TypeFacts
<1>3. n \in Nat /\ m \in Nat
  <2>1. new.lag \in Nat /\ new.gap \in Nat
    BY <1>2 DEF Samples
  <2>2. new.lag + 1 \in Nat /\ new.gap + 1 \in Nat
    BY <2>1
  <2> QED
    BY <2>1, <2>2, Zenon
<1>4. Source' = Source + 1
  BY <1>1, <1>2 DEF Source
<1> HIDE DEF n, m
<1>5. /\ new' \in Samples
      /\ new'.phase = new.phase /\ new'.variable = new.variable
      /\ new'.settings = new.settings /\ new'.lag = n /\ new'.gap = m
  BY <1>1, <1>2, <1>3 DEF Samples
<1> QED
  BY <1>1, <1>4, <1>5 DEF n, m

LEMMA TypeStep == TypeOK /\ [Next]_vars => TypeOK'
<1> SUFFICES ASSUME TypeOK, [Next]_vars PROVE TypeOK'
  OBVIOUS
<1> USE DEF world, samples, steering, Goto, Critical
<1>0. NoSample \in Samples
  BY DEF NoSample, Samples
<1>1. CASE Wake
  BY <1>1 DEF Wake, TypeOK
<1>2. CASE LoseSync
  <2>1. /\ wake' = wake \/ wake' \in Nat
        /\ pc' \in {"sleep", "update"}
    BY <1>2, SleepType DEF LoseSync
  <2> QED
    BY <1>2, <2>1 DEF LoseSync, TypeOK
<1>3. CASE Estimate
  BY <1>3, NextFrequenciesType DEF Estimate, EstimateThen, NextAverage, TypeOK
<1>4. ASSUME NEW place, NEW next, NEW done, Fetch(place, next, done),
             {next, done} \subseteq Critical \cup {"measure"}
      PROVE  TypeOK'
  <2>1. fetched' \in Int \cup {Invalid}
    BY <1>4, ValuesFacts DEF Fetch, TypeOK
  <2> QED
    BY <1>4, <2>1, AfterReadFacts DEF Fetch, TypeOK
<1>5. ASSUME NEW place, NEW next, SetMarker(place, next), next \in Critical PROVE TypeOK'
  <2>1. vfc' \in Clocks
    BY <1>5, TypeFacts DEF SetMarker, Clocks
  <2> QED
    BY <1>5, <2>1 DEF SetMarker, TypeOK
<1>6. ASSUME NEW place, NEW next, SetSource(place, next), next \in Critical \cup {"measure"}
      PROVE  TypeOK'
  <2>1. vfc' \in Clocks
    BY <1>6, TypeFacts DEF SetSource, Clocks
  <2> QED
    BY <1>6, <2>1 DEF SetSource, TypeOK
<1>7. CASE Change
  <2>1. frequency \in Nat \cup {NaN}
    BY DEF TypeOK
  <2>2. vfc' \in Clocks
    BY <1>7, <2>1, TypeFacts DEF Change, Ignored, Clocks
  <2> QED
    BY <1>7, <2>2 DEF Change, TypeOK
<1>8. CASE setFrequency
  BY <1>4, <1>5, <1>6, <1>7, <1>8 DEF setFrequency
<1>9. CASE Reset
  <2>1. PICK t \in {Invalid} \cup {now + reference + e : e \in Errors} :
          vfc' = [vfc EXCEPT !.marker = t, !.markerSrc = Source, !.rolledOver = FALSE]
    BY <1>9 DEF Reset
  <2>2. t \in Int \cup {Invalid}
    BY <2>1, TypeFacts, NumbersAssumption
  <2>3. vfc' \in Clocks
    BY <2>1, <2>2, TypeFacts DEF Clocks
  <2> QED
    BY <1>9, <2>3 DEF Reset, TypeOK
<1>10. CASE Measure
  <2>1. new' \in Samples
    <3>1. PICK t \in Values :
            \E p \in {Invalid} \cup (IF t = Invalid THEN {}
                                     ELSE {now + reference - t + e : e \in Errors}) :
               new' = [NoSample EXCEPT !.phase = p, !.settings = settings]
      BY <1>10 DEF Measure
    <3>2. t \in Int \cup {Invalid}
      BY ValuesFacts
    <3>3. PICK p \in Int \cup {Invalid} :
            new' = [NoSample EXCEPT !.phase = p, !.settings = settings]
      <4>1. CASE t = Invalid
        BY <3>1, <4>1
      <4>2. CASE t # Invalid
        <5>1. t \in Int /\ now \in Int /\ reference \in Int
          BY <3>2, <4>2, TypeFacts
        <5>2. ASSUME NEW e \in Errors PROVE now + reference - t + e \in Int
          BY <5>1, ErrorsType
        <5>3. PICK p \in {Invalid} \cup {now + reference - t + e : e \in Errors} :
                new' = [NoSample EXCEPT !.phase = p, !.settings = settings]
          BY <3>1, <4>2
        <5>4. p \in Int \cup {Invalid}
          BY <5>2
        <5> QED
          BY <5>3, <5>4
      <4> QED
        BY <4>1, <4>2
    <3>4. /\ NoSample.variable \in Int /\ NoSample.primary \in Int
          /\ NoSample.lag \in Nat /\ NoSample.gap \in Nat
      BY DEF NoSample
    <3>5. NoSample = [phase |-> NoSample.phase, variable |-> NoSample.variable,
                      primary |-> NoSample.primary, settings |-> NoSample.settings,
                      lag |-> NoSample.lag, gap |-> NoSample.gap]
      BY DEF NoSample
    <3>6. new' = [phase |-> p, variable |-> NoSample.variable,
                  primary |-> NoSample.primary, settings |-> settings,
                  lag |-> NoSample.lag, gap |-> NoSample.gap]
      BY <3>3, <3>5
    <3>7. settings \in Int
      BY TypeFacts
    <3> QED
      BY <3>4, <3>6, <3>7 DEF Samples
  <2> QED
    BY <1>10, <2>1, AfterReadFacts DEF Measure, TypeOK
<1>11. CASE ReadVariable
  <2>1. PICK t \in Int \cup {Invalid} : new' = [new EXCEPT !.variable = t]
    BY <1>11, ValuesFacts DEF ReadVariable
  <2>2. new' \in Samples
    BY <2>1, TypeFacts DEF Samples
  <2> QED
    BY <1>11, <2>2, AfterReadFacts DEF ReadVariable, TypeOK
<1>12. CASE ReadPrimary
  <2>1. cur \in Samples /\ prev \in Samples /\ inSync \in BOOLEAN
    BY DEF TypeOK
  <2>2. cur' \in Samples /\ prev' \in Samples /\ inSync' \in BOOLEAN
    <3>1. (IF new.settings = settings THEN new.settings ELSE -1) \in Int
      BY TypeFacts DEF Samples
    <3> QED
      BY <1>12, <2>1, <3>1, TypeFacts DEF ReadPrimary, Samples
  <2>3. Sleep /\ new' = NoSample /\ UNCHANGED <<world, vfc, steering, lastRead>>
    BY <1>12 DEF ReadPrimary
  <2> QED
    BY <1>0, <2>2, <2>3, SleepType DEF TypeOK
<1>13. CASE Read
  <2>1. lastRead' = Invalid \/ lastRead' \in [value : Int, at : Int]
    BY <1>13, ValuesFacts, TypeFacts DEF Read
  <2> QED
    BY <1>13, <2>1, AfterReadFacts DEF Read, TypeOK
<1>14. CASE Tick
  <2>1. now' \in Nat /\ new' \in Samples
    <3>1. now + 1 \in Nat
      BY TypeFacts
    <3> QED
      BY <1>14, <3>1, TickFacts, Zenon
  <2> QED
    BY <1>14, <2>1 DEF Tick, TypeOK
<1>15. CASE Set
  <2>1. settings' \in Nat
    BY <1>15, TypeFacts DEF Set
  <2>2. primary' \in Int /\ reference' \in Int
    BY <1>15, TypeFacts, OffsetsType, Zenon DEF Set
  <2>3. lastRead' = Invalid \/ lastRead' = lastRead
    BY <1>15, Zenon DEF Set
  <2> QED
    BY <1>15, <2>1, <2>2, <2>3 DEF Set, TypeOK
<1>16. CASE End \/ UNCHANGED vars
  BY <1>16 DEF End, vars, TypeOK
<1> QED
  BY <1>1, <1>2, <1>3, <1>8, <1>9, <1>10, <1>11, <1>13, <1>14, <1>15, <1>16, <1>12
  DEF Next, Updater

-----------------------------------------------------------------------------
(* The steps *)

LEMMA NaNStep == TypeOK /\ NaNInv /\ [Next]_vars => NaNInv'
<1> SUFFICES ASSUME TypeOK, NaNInv, [Next]_vars PROVE NaNInv'
  OBVIOUS
<1> USE DEF NaNInv, world, samples, steering
<1>1. CASE Estimate
  <2>1. frequency' \in NextFrequencies /\ average' = NextAverage /\ vfc' = vfc
    BY <1>1 DEF Estimate, EstimateThen
  <2>2. NaN \notin Frequencies \cup {0}
    BY NaNIsNoFrequency, Zenon
  <2>3. NaN # "finite" /\ "infinite" # "finite"
    BY NaNIsNoWord, Zenon
  <2>4. NextAverage = "finite" => frequency' # NaN
    BY <2>1, <2>2, Zenon DEF NextFrequencies
  <2>5. average # "finite" => NextAverage # "finite" /\ frequency' \in {0, NaN}
    BY <2>1, <2>3 DEF NextFrequencies, NextAverage
  <2> QED
    BY <2>1, <2>4, <2>5
<1>2. CASE Change
  <2>1. vfc'.frequency = vfc.frequency \/ (frequency # 0 /\ vfc'.frequency = frequency)
    BY <1>2, TypeFacts DEF Change, Ignored, Clocks
  <2>2. frequency' = 0 /\ average' = average 
    BY <1>2 DEF Change
  <2>3. NaN # 0
    BY NaNFacts
  <2> QED
    BY <2>1, <2>2, <2>3
<1>3. CASE vfc'.frequency = vfc.frequency /\ UNCHANGED <<frequency, average>>
  BY <1>3
<1>4. vfc \in Clocks
  BY TypeFacts
<1>5. ASSUME NEW place, NEW next, NEW done, Fetch(place, next, done) PROVE NaNInv'
  BY <1>3, <1>5, AfterReadFacts DEF Fetch
<1>6. ASSUME NEW place, NEW next, SetMarker(place, next) PROVE NaNInv'
  BY <1>3, <1>4, <1>6 DEF SetMarker, Clocks
<1>7. ASSUME NEW place, NEW next, SetSource(place, next) PROVE NaNInv'
  BY <1>3, <1>4, <1>7 DEF SetSource, Clocks
<1>8. CASE setFrequency
  BY <1>2, <1>5, <1>6, <1>7, <1>8 DEF setFrequency
<1>9. CASE Reset
  BY <1>3, <1>4, <1>9 DEF Reset, Clocks
<1>10. CASE Measure \/ ReadVariable \/ ReadPrimary \/ Read
  BY <1>3, <1>10, AfterReadFacts DEF Measure, ReadVariable, ReadPrimary, Read
<1>11. CASE Wake \/ LoseSync \/ Tick \/ Set \/ End \/ UNCHANGED vars
  BY <1>3, <1>11 DEF Wake, LoseSync, Tick, Set, End, vars
<1> QED
  BY <1>1, <1>8, <1>9, <1>10, <1>11 DEF Next, Updater

\* What a reader gets, and what it leaves behind.
LEMMA ReadFacts ==
    ASSUME TypeOK, Read
    PROVE  /\ lastRead' # Invalid => Readable
           /\ lastRead' # Invalid /\ vfc.frequency # NaN =>
                lastRead'.value = vfc.marker + Elapsed
<1>1. PICK t \in Values :
        lastRead' = IF t = Invalid THEN Invalid ELSE [value |-> t, at |-> Source]
  BY DEF Read
<1> QED
  BY <1>1, ValuesFacts

LEMMA SourceStep == TypeOK /\ SourceInv /\ [Next]_vars => SourceInv'
<1> SUFFICES ASSUME TypeOK, SourceInv, [Next]_vars, lastRead' # Invalid
             PROVE  Source' >= vfc'.markerSrc
  BY DEF SourceInv
<1> USE DEF SourceInv, world, samples, steering
<1>0. /\ vfc \in Clocks /\ Source \in Int /\ vfc.markerSrc \in Int
      /\ now \in Nat /\ primary \in Int
  BY TypeFacts
<1>1. CASE /\ Source' = Source /\ lastRead' = lastRead
           /\ vfc'.markerSrc \in {vfc.markerSrc, Source}
  BY <1>0, <1>1
<1>2. ASSUME NEW place, NEW next, NEW done, Fetch(place, next, done)
      PROVE  Source' >= vfc'.markerSrc
  BY <1>1, <1>2, AfterReadFacts DEF Fetch, Source
<1>3. ASSUME NEW place, NEW next, SetMarker(place, next) PROVE Source' >= vfc'.markerSrc
  <2>1. vfc'.markerSrc = vfc.markerSrc
    BY <1>0, <1>3 DEF SetMarker, Clocks
  <2> QED
    BY <1>1, <1>3, <2>1 DEF SetMarker, Source
<1>4. ASSUME NEW place, NEW next, SetSource(place, next) PROVE Source' >= vfc'.markerSrc
  <2>1. vfc'.markerSrc = Source
    BY <1>0, <1>4 DEF SetSource, Clocks
  <2> QED
    BY <1>1, <1>4, <2>1 DEF SetSource, Source
<1>5. CASE Change
  <2>1. vfc'.markerSrc = vfc.markerSrc
    BY <1>0, <1>5 DEF Change, Clocks
  <2> QED
    BY <1>1, <1>5, <2>1 DEF Change, Source
<1>6. CASE setFrequency
  BY <1>2, <1>3, <1>4, <1>5, <1>6 DEF setFrequency
<1>7. CASE Reset
  BY <1>7 DEF Reset
<1>8. CASE Measure \/ ReadVariable \/ ReadPrimary
  BY <1>1, <1>8, AfterReadFacts DEF Measure, ReadVariable, ReadPrimary, Source
<1>9. CASE Read
  <2>1. Readable /\ vfc'.markerSrc = vfc.markerSrc
    BY <1>9, ReadFacts, AfterReadFacts DEF Read
  <2> QED
    BY <1>9, <2>1 DEF Read, Readable, Source
<1>10. CASE Tick
  <2>1. Source' = Source + 1 /\ UNCHANGED <<vfc, lastRead>>
    BY <1>10, TickFacts
  <2> QED
    BY <1>0, <2>1
<1>11. CASE Set
  BY <1>1, <1>11 DEF Set, Source
<1>12. CASE Wake \/ LoseSync \/ Estimate \/ End \/ UNCHANGED vars
  BY <1>1, <1>12 DEF Wake, LoseSync, Estimate, EstimateThen, End, vars, Source
<1> QED
  BY <1>6, <1>7, <1>8, <1>9, <1>10, <1>11, <1>12 DEF Next, Updater

\* What getValue() would return stays the same, if nothing of the vfc but rolledOver_
\* changes, and that only to TRUE.
LEMMA SameClock ==
    ASSUME Source' = Source, vfc'.marker = vfc.marker, vfc'.markerSrc = vfc.markerSrc,
           vfc'.frequency = vfc.frequency, vfc.rolledOver => vfc'.rolledOver
    PROVE  Elapsed' = Elapsed /\ (Readable' => Readable)
BY DEF Elapsed, Readable

\* The time since the marker is not negative.
LEMMA ElapsedFacts ==
    ASSUME TypeOK, Source >= vfc.markerSrc, vfc.frequency # NaN
    PROVE  Elapsed \in Nat
<1>1. /\ Source \in Int /\ vfc.markerSrc \in Int
      /\ vfc.frequency \in Nat
  BY TypeFacts
<1>2. Source - vfc.markerSrc \in Nat
  BY <1>1
<1>3. Elapsed \in Int /\ 0 <= Elapsed
  BY <1>1, <1>2, ScaledFacts DEF Elapsed
<1> QED
  BY <1>3

LEMMA MonotoneStep ==
    TypeOK /\ NaNInv /\ SourceInv /\ MonotoneInv /\ [Next]_vars => MonotoneInv'
<1> SUFFICES ASSUME TypeOK, NaNInv, SourceInv, MonotoneInv, [Next]_vars,
                    lastRead' # Invalid, vfc'.frequency # NaN
             PROVE  BeforeFetched' /\ BeforeMarker' /\ BeforeFrozen' /\ BeforeReadable'
  BY DEF MonotoneInv
<1> USE DEF Goto, world, samples, steering
<1>0. /\ vfc \in Clocks /\ Source \in Int /\ vfc.markerSrc \in Int
      /\ now \in Nat /\ primary \in Int
      /\ lastRead # Invalid => lastRead.value \in Int
  BY TypeFacts DEF TypeOK
<1>1. ASSUME lastRead # Invalid, vfc.frequency # NaN
      PROVE  /\ BeforeFetched /\ BeforeMarker /\ BeforeFrozen /\ BeforeReadable
             /\ Source >= vfc.markerSrc /\ Elapsed \in Nat
  BY <1>1, ElapsedFacts DEF MonotoneInv, SourceInv
<1>2. ASSUME NEW place, NEW next, NEW done, Fetch(place, next, done),
             \/ place = "fetch 1" /\ next = "marker 1" /\ done = "change"
             \/ place = "fetch 2" /\ next = "marker 2" /\ done = "measure"
      PROVE  BeforeFetched' /\ BeforeMarker' /\ BeforeFrozen' /\ BeforeReadable'
  <2>1. lastRead' = lastRead /\ vfc'.frequency = vfc.frequency /\ Source' = Source
    BY <1>2, AfterReadFacts DEF Fetch, Source
  <2>2. CASE vfc.rolledOver
    BY <1>2, <2>2, AfterReadFacts
    DEF Fetch, BeforeFetched, BeforeMarker, BeforeFrozen, BeforeReadable, Readable,
        AtMarker, AtSource, AtChange
  <2>3. CASE ~vfc.rolledOver
    <3>1. pc = place /\ pc' = next /\ fetched' \in Values
      BY <1>2, <2>3 DEF Fetch
    <3>2. fetched' = Invalid \/ (Readable /\ fetched' = vfc.marker + Elapsed)
      BY <2>1, <3>1, ValuesFacts
    <3>3. fetched' = Invalid \/ lastRead.value <= fetched'
      <4>1. SUFFICES ASSUME fetched' # Invalid PROVE lastRead.value <= fetched'
        OBVIOUS
      <4>2. Readable /\ fetched' = vfc.marker + Elapsed
        BY <3>2, <4>1
      <4>3. CASE place = "fetch 1"
        BY <1>1, <2>1, <3>1, <4>2, <4>3 DEF BeforeReadable, AtMarker, AtSource, AtChange
      <4>4. CASE place = "fetch 2"
        <5>1. lastRead.value <= vfc.marker /\ Elapsed \in Nat /\ vfc.marker # Invalid
          BY <1>1, <2>1, <3>1, <4>2, <4>4 DEF BeforeFrozen, AtChange, Readable
        <5>2. lastRead.value \in Int /\ vfc.marker \in Int
          BY <1>0, <2>1, <5>1, TypeFacts
        <5> QED
          BY <4>2, <5>1, <5>2
      <4> QED
        BY <1>2, <4>3, <4>4
    <3> QED
      BY <1>2, <2>1, <3>1, <3>3
      DEF BeforeFetched, BeforeMarker, BeforeFrozen, BeforeReadable,
          AtMarker, AtSource, AtChange
  <2> QED
    BY <2>2, <2>3
<1>3. ASSUME NEW place, NEW next, SetMarker(place, next),
             \/ place = "marker 1" /\ next = "source 1"
             \/ place = "marker 2" /\ next = "source 2"
      PROVE  BeforeFetched' /\ BeforeMarker' /\ BeforeFrozen' /\ BeforeReadable'
  <2>1. lastRead' = lastRead /\ vfc'.frequency = vfc.frequency /\ vfc'.marker = fetched
    BY <1>0, <1>3 DEF SetMarker, Clocks
  <2>2. fetched = Invalid \/ lastRead.value <= fetched
    BY <1>1, <1>3, <2>1 DEF SetMarker, BeforeFetched, AtMarker
  <2> QED
    BY <1>3, <2>1, <2>2
    DEF SetMarker, BeforeFetched, BeforeMarker, BeforeFrozen, BeforeReadable,
        AtMarker, AtSource, AtChange
<1>4. ASSUME NEW place, NEW next, SetSource(place, next),
             \/ place = "source 1" /\ next = "change"
             \/ place = "source 2" /\ next = "measure"
      PROVE  BeforeFetched' /\ BeforeMarker' /\ BeforeFrozen' /\ BeforeReadable'
  <2>1. /\ lastRead' = lastRead /\ vfc'.frequency = vfc.frequency
        /\ vfc'.marker = vfc.marker /\ vfc'.markerSrc = Source /\ Source' = Source
    BY <1>0, <1>4 DEF SetSource, Clocks, Source
  <2>2. vfc.marker = Invalid \/ lastRead.value <= vfc.marker
    BY <1>1, <1>4, <2>1 DEF SetSource, BeforeMarker, AtSource
  <2>3. Readable' => lastRead'.value <= vfc'.marker + Elapsed'
    <3>1. (Source - Source) * vfc.frequency = 0
      BY <1>0, <2>1, TypeFacts
    <3>2. Elapsed' = 0
      BY <2>1, <3>1, NumbersAssumption DEF Elapsed
    <3>3. vfc.marker # Invalid => vfc.marker \in Int
      BY TypeFacts
    <3> QED
      BY <2>1, <2>2, <3>2, <3>3 DEF Readable
  <2> QED
    BY <1>4, <2>1, <2>2, <2>3
    DEF SetSource, BeforeFetched, BeforeMarker, BeforeFrozen, BeforeReadable,
        AtMarker, AtSource, AtChange
<1>5. CASE Change
  <2>1. lastRead' = lastRead /\ Source' = Source
    BY <1>5 DEF Change, Source
  <2>2. vfc.frequency # NaN
    BY <1>0, <1>5 DEF Change, Ignored, Clocks, NaNInv
  <2>3. vfc.rolledOver \/ vfc.marker = Invalid \/ lastRead.value <= vfc.marker
    BY <1>1, <1>5, <2>1, <2>2 DEF Change, BeforeFrozen, AtChange
  <2>4. CASE pc' = "measure" /\ vfc' = vfc
    <3>1. Readable' = Readable /\ Elapsed' = Elapsed
      BY <2>1, <2>4 DEF Readable, Elapsed
    <3>2. Elapsed \in Nat /\ lastRead.value \in Int
      BY <1>0, <1>1, <2>1, <2>2
    <3>3. Readable => vfc.marker \in Int /\ lastRead.value <= vfc.marker
      BY <2>3, TypeFacts DEF Readable
    <3>4. Readable => lastRead.value <= vfc.marker + Elapsed
      BY <3>2, <3>3
    <3> QED
      BY <2>1, <2>4, <3>1, <3>4
      DEF BeforeFetched, BeforeMarker, BeforeFrozen, BeforeReadable,
          AtMarker, AtSource, AtChange
  <2>5. CASE pc' = "fetch 2" /\ vfc' = [vfc EXCEPT !.frequency = frequency]
    <3>1. vfc'.rolledOver = vfc.rolledOver /\ vfc'.marker = vfc.marker
      BY <1>0, <2>5 DEF Clocks
    <3> QED
      BY <2>1, <2>3, <2>5, <3>1
      DEF BeforeFetched, BeforeMarker, BeforeFrozen, BeforeReadable,
          AtMarker, AtSource, AtChange
  <2> QED
    BY <1>5, <2>4, <2>5 DEF Change
<1>6. CASE setFrequency
  BY <1>2, <1>3, <1>4, <1>5, <1>6 DEF setFrequency
<1>7. CASE Reset
  BY <1>7 DEF Reset
<1>8. CASE Measure \/ ReadVariable \/ ReadPrimary
  <2>1. /\ lastRead' = lastRead /\ (vfc' = AfterRead \/ vfc' = vfc) /\ Source' = Source
        /\ pc \in {"measure", "variableValue", "primaryValue"}
        /\ pc' \in {"variableValue", "primaryValue", "sleep"}
    BY <1>8 DEF Measure, ReadVariable, ReadPrimary, Sleep, Source
  <2>2. Elapsed' = Elapsed /\ (Readable' => Readable) /\ vfc'.marker = vfc.marker
    BY <2>1, AfterReadFacts, SameClock
  <2>3. Readable => lastRead.value <= vfc.marker + Elapsed
    BY <1>1, <2>1, AfterReadFacts DEF BeforeReadable, AtMarker, AtSource, AtChange
  <2> QED
    BY <2>1, <2>2, <2>3
    DEF BeforeFetched, BeforeMarker, BeforeFrozen, BeforeReadable,
        AtMarker, AtSource, AtChange
<1>9. CASE Read
  <2>1. /\ vfc' = AfterRead /\ Source' = Source /\ pc' = pc /\ pc \notin Critical
    BY <1>9 DEF Read, MutexFree, Source
  <2>2. Elapsed' = Elapsed /\ vfc'.marker = vfc.marker
    BY <2>1, AfterReadFacts, SameClock
  <2>3. lastRead'.value = vfc.marker + Elapsed /\ Readable
    BY <1>9, <2>1, ReadFacts, AfterReadFacts
  <2>4. vfc.marker \in Int /\ Elapsed \in Nat
    BY <2>1, <2>3, TypeFacts, AfterReadFacts, ElapsedFacts DEF Readable
  <2>5. lastRead'.value <= vfc'.marker + Elapsed'
    BY <2>2, <2>3, <2>4
  <2> QED
    BY <2>1, <2>5
    DEF BeforeFetched, BeforeMarker, BeforeFrozen, BeforeReadable,
        AtMarker, AtSource, AtChange, Critical
<1>10. CASE Tick
  <2>1. Source' = Source + 1 /\ UNCHANGED <<vfc, lastRead, fetched, pc>>
    BY <1>10, TickFacts
  <2>2. ASSUME Readable', lastRead.value <= vfc.marker + Elapsed
        PROVE  lastRead'.value <= vfc'.marker + Elapsed'
    <3>2. vfc.marker \in Int /\ vfc.frequency \in Nat
      BY <2>1, <2>2, TypeFacts DEF Readable
    <3>3. Source - vfc.markerSrc \in Nat /\ Source + 1 - vfc.markerSrc \in Int
      BY <1>0, <1>1, <2>1
    <3>4. Elapsed \in Int /\ Elapsed' \in Int /\ Elapsed <= Elapsed'
      <4>1. /\ Source - vfc.markerSrc \in Nat
            /\ Source' - vfc'.markerSrc \in Int
            /\ Source - vfc.markerSrc <= Source' - vfc'.markerSrc
        BY <1>0, <2>1, <3>3
      <4>2. \A x \in Nat, y \in Int : x <= y =>
              /\ (x * vfc.frequency) \div Unit \in Int
              /\ (y * vfc.frequency) \div Unit \in Int
              /\ (x * vfc.frequency) \div Unit <= (y * vfc.frequency) \div Unit
        BY <3>2, ScaledFacts
      <4>3. Elapsed' = ((Source' - vfc'.markerSrc) * vfc.frequency) \div Unit
        BY <2>1 DEF Elapsed
      <4> QED
        BY <4>1, <4>2, <4>3, Zenon DEF Elapsed
    <3> QED
      BY <1>0, <2>1, <2>2, <3>2, <3>4
  <2>3. Readable' => Readable
    BY <1>1, <2>1 DEF Readable
  <2>4. (BeforeReadable => BeforeReadable')
    BY <2>1, <2>2, <2>3 DEF BeforeReadable, AtMarker, AtSource, AtChange
  <2> QED
    BY <1>1, <2>1, <2>4
    DEF BeforeFetched, BeforeMarker, BeforeFrozen, AtMarker, AtSource, AtChange
<1>11. CASE \/ Set
            \/ Wake \/ LoseSync \/ Estimate
            \/ End \/ UNCHANGED vars
  <2>1. /\ lastRead' = lastRead /\ vfc' = vfc /\ Source' = Source /\ fetched' = fetched
        /\ pc' = pc \/ {pc, pc'} \subseteq {"sleep", "update", "fetch 1"}
    BY <1>11 DEF Set, Wake, LoseSync, Sleep, Estimate, EstimateThen, End, vars, Source
  <2>2. Elapsed' = Elapsed /\ Readable' = Readable
    BY <2>1 DEF Elapsed, Readable
  <2> QED
    BY <1>1, <2>1, <2>2
    DEF BeforeFetched, BeforeMarker, BeforeFrozen, BeforeReadable,
        AtMarker, AtSource, AtChange
<1> QED
  BY <1>6, <1>7, <1>8, <1>9, <1>10, <1>11 DEF Next, Updater

LEMMA InitInv == Init => IInv
BY TypeInit, NaNFacts, NumbersAssumption DEF Init, IInv, NaNInv, SourceInv, MonotoneInv

LEMMA Invariance == Spec => []IInv
<1>1. IInv /\ [Next]_vars => IInv'
  BY TypeStep, NaNStep, SourceStep, MonotoneStep DEF IInv
<1> QED
  BY InitInv, <1>1, PTL DEF Spec

-----------------------------------------------------------------------------
(* Theorems *)

\* FrequencyLock.tla's variables keep their types: getValue(), setValue() and
\* setFrequency() store times or tpInvalid, and never a frequency of 0.
THEOREM FrequencyTypeCorrect == Spec => []TypeOK
<1>1. IInv => TypeOK
  BY DEF IInv
<1> QED
  BY Invariance, <1>1, PTL

\* Between resets, PhaseLockedClock::getValue() never returns a time before one that it
\* returned already, while setFrequency() moves the markers and changes the frequency,
\* for any frequencies and any rounding: Spec => NeverBack.
THEOREM TimeNeverGoesBack == Spec => NeverBack
<1>1. IInv /\ [Next]_vars => [Reread => lastRead'.value >= lastRead.value]_vars
  <2> SUFFICES ASSUME IInv, [Next]_vars, Reread PROVE lastRead'.value >= lastRead.value
    OBVIOUS
  <2>0. TypeOK
    BY DEF IInv
  <2>1. lastRead # Invalid /\ lastRead' # Invalid /\ lastRead.value \in Int
    BY <2>0 DEF Reread, TypeOK
  <2>2. CASE lastRead' = lastRead
    BY <2>1, <2>2
  <2>3. CASE Read
    <3>1. vfc' = AfterRead /\ pc \notin Critical
      BY <2>3 DEF Read, MutexFree
    <3>2. vfc.frequency # NaN
      BY <2>0, <3>1, AfterReadFacts DEF Reread
    <3>3. Readable /\ lastRead'.value = vfc.marker + Elapsed
      BY <2>0, <2>1, <2>3, <3>2, ReadFacts
    <3>4. lastRead.value <= vfc.marker + Elapsed
      BY <2>1, <3>1, <3>2, <3>3
      DEF IInv, MonotoneInv, BeforeReadable, AtMarker, AtSource, AtChange, Critical
    <3>5. vfc.marker \in Int /\ Elapsed \in Nat
      BY <2>0, <3>2, <3>3, TypeFacts, ElapsedFacts DEF Readable
    <3> QED
      BY <2>1, <3>3, <3>4, <3>5
  <2>4. lastRead' = lastRead \/ lastRead' = Invalid \/ Read
    BY DEF Next, Updater, Wake, LoseSync, Estimate, EstimateThen, setFrequency, Fetch,
           SetMarker, SetSource, Change, Reset, Measure, ReadVariable, ReadPrimary, Tick, Set, End,
           vars, world, samples, steering
  <2> QED
    BY <2>1, <2>2, <2>3, <2>4
<1> QED
  BY Invariance, <1>1, PTL DEF Spec, NeverBack

=============================================================================
