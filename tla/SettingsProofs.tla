--------------------------- MODULE SettingsProofs ---------------------------
(***************************************************************************)
(* That a clock is built as its config file says, for any file, any numbers*)
(* in it and any width of the integers that they pass through, and that no *)
(* number makes a client poll, or wait for a time that select() refuses.   *)
(***************************************************************************)
EXTENDS Settings, TLAPS

-----------------------------------------------------------------------------
(* The invariant: what the lines so far have set *)

SettledYet(key) == {i \in 1..at : file[i].key = key}

\* What the last line for a setting, line i, sets it to.
Value(key, i) == IF key = "server" THEN file[i].value ELSE ToUnsigned(file[i].value)

SetBy(key, i) ==
    /\ i \in SettledYet(key)
    /\ \A j \in SettledYet(key) : j <= i
    /\ config[key] = Value(key, i)

SetYet(key) ==
    \/ SettledYet(key) = {} /\ config[key] = Default[key]
    \/ \E i \in 1..at : SetBy(key, i)

PlaceInv ==
    /\ file \in Files /\ at \in Nat /\ at <= Len(file)
    /\ pc \in {"reading", "failed", "read", "built"}
    /\ pc \in {"read", "built"} => at = Len(file)

ConfigInv ==
    /\ DOMAIN config = Keys
    /\ \A k \in NumberKeys : config[k] \in 0 .. UnsignedRange - 1
    /\ pc # "failed" => \A i \in 1..at : file[i].key # "unparsable"
    /\ \A k \in Keys : SetYet(k)

ClientInv == pc = "built" => client = [config EXCEPT !.port = ToPort(config.port)]

IInv == PlaceInv /\ ConfigInv /\ ClientInv

-----------------------------------------------------------------------------
(* Lemmas about numbers *)

LEMMA RangesType ==
    /\ UnsignedRange \in Nat \ {0} /\ PortRange \in Nat \ {0} /\ Kilo \in Nat \ {0}
    /\ UnsignedRange % PortRange = 0 /\ UnsignedRange % 2 = 0
BY SettingsAssumption

\* Division and remainder.
LEMMA DivFacts ==
    ASSUME NEW a \in Int, NEW b \in Nat \ {0}
    PROVE  /\ a \div b \in Int /\ a % b \in 0 .. b - 1
           /\ a = b * (a \div b) + (a % b)
OBVIOUS

\* A multiple that is less than one is none.
LEMMA NoMultiple ==
    ASSUME NEW b \in Nat \ {0}, NEW k \in Int, b * k < b, -b < b * k
    PROVE  k = 0
<1>1. CASE k >= 1
  <2>1. b * k = b + b * (k - 1) /\ b * (k - 1) \in Nat
    BY <1>1
  <2> QED
    BY <2>1
<1>2. CASE k <= -1
  <2>1. b * k = -b - b * (-k - 1) /\ b * (-k - 1) \in Nat
    BY <1>2
  <2> QED
    BY <2>1
<1> QED
  BY <1>1, <1>2

\* The remainder is the only number of its range that is a multiple away.
LEMMA RemainderUnique ==
    ASSUME NEW a \in Int, NEW b \in Nat \ {0}, NEW k \in Int, NEW r \in 0 .. b - 1,
           a = b * k + r
    PROVE  a % b = r
<1> DEFINE q == a \div b
           s == a % b
<1>1. q \in Int /\ s \in 0 .. b - 1 /\ a = b * q + s
  BY DivFacts
<1> HIDE DEF q, s
<1>2. b * (q - k) = b * q - b * k /\ b * q \in Int /\ b * k \in Int
  BY <1>1
<1>3. b * (q - k) < b /\ -b < b * (q - k)
  BY <1>1, <1>2
<1>4. q - k = 0
  BY <1>1, <1>3, NoMultiple
<1>5. q = k
  BY <1>1, <1>4
<1> QED
  BY <1>1, <1>2, <1>5 DEF s

\* A multiple more or less does not change it.
LEMMA SameRemainder ==
    ASSUME NEW a \in Int, NEW b \in Nat \ {0}, NEW k \in Int
    PROVE  (a + b * k) % b = a % b
<1> DEFINE q == a \div b
           s == a % b
<1>1. q \in Int /\ s \in 0 .. b - 1 /\ a = b * q + s
  BY DivFacts
<1> HIDE DEF q, s
<1>2. a + b * k = b * (q + k) + s /\ a + b * k \in Int /\ q + k \in Int
  BY <1>1
<1>3. (a + b * k) % b = s
  BY <1>1, <1>2, RemainderUnique
<1> QED
  BY <1>3 DEF s

-----------------------------------------------------------------------------
(* Lemmas about the integer types *)

LEMMA Halved ==
    /\ UnsignedRange \div 2 \in Nat \ {0}
    /\ UnsignedRange = 2 * (UnsignedRange \div 2)
BY RangesType

LEMMA UnsignedFacts ==
    ASSUME NEW n \in Int
    PROVE  /\ ToUnsigned(n) \in 0 .. UnsignedRange - 1
           /\ n \in 0 .. UnsignedRange - 1 => ToUnsigned(n) = n
           /\ \E k \in Int : ToUnsigned(n) = n + UnsignedRange * k
<1>1. UnsignedRange \in Nat \ {0}
  BY RangesType
<1>2. ToUnsigned(n) \in 0 .. UnsignedRange - 1
  BY <1>1, DivFacts DEF ToUnsigned
<1>3. ASSUME n \in 0 .. UnsignedRange - 1 PROVE ToUnsigned(n) = n
  <2>1. n = UnsignedRange * 0 + n
    BY <1>1
  <2> QED
    BY <1>1, <1>3, <2>1, RemainderUnique DEF ToUnsigned
<1>4. \E k \in Int : ToUnsigned(n) = n + UnsignedRange * k
  <2> DEFINE q == n \div UnsignedRange
             s == n % UnsignedRange
  <2>1. q \in Int /\ s \in Int /\ n = UnsignedRange * q + s
    BY <1>1, DivFacts
  <2> HIDE DEF q, s
  <2>2. UnsignedRange * q \in Int /\ UnsignedRange * (-q) = -(UnsignedRange * q) /\ -q \in Int
    BY <1>1, <2>1
  <2>3. s = n + UnsignedRange * (-q)
    BY <2>1, <2>2
  <2> QED
    BY <2>2, <2>3 DEF s, ToUnsigned
<1> QED
  BY <1>2, <1>3, <1>4

LEMMA IntFacts ==
    ASSUME NEW n \in Int
    PROVE  /\ ToInt(n) \in Int
           /\ n \in 0 .. UnsignedRange \div 2 - 1 => ToInt(n) = n
           /\ \E k \in Int : ToInt(n) = n + UnsignedRange * k
<1> DEFINE h == UnsignedRange \div 2
<1>1. UnsignedRange \in Nat \ {0} /\ h \in Nat /\ UnsignedRange = 2 * h
  BY RangesType, Halved
<1> HIDE DEF h
<1>2. ToInt(n) = ToUnsigned(n + h) - h /\ n + h \in Int
  BY <1>1 DEF ToInt, ToUnsigned, h
<1>3. /\ ToUnsigned(n + h) \in 0 .. UnsignedRange - 1
      /\ n + h \in 0 .. UnsignedRange - 1 => ToUnsigned(n + h) = n + h
      /\ \E k \in Int : ToUnsigned(n + h) = (n + h) + UnsignedRange * k
  BY <1>2, UnsignedFacts
<1>4. ToInt(n) \in Int
  BY <1>1, <1>2, <1>3
<1>5. ASSUME n \in 0 .. h - 1 PROVE ToInt(n) = n
  <2>1. n + h \in 0 .. UnsignedRange - 1
    BY <1>1, <1>5
  <2> QED
    BY <1>1, <1>2, <1>3, <2>1
<1>6. \E k \in Int : ToInt(n) = n + UnsignedRange * k
  <2>1. PICK k \in Int : ToUnsigned(n + h) = (n + h) + UnsignedRange * k
    BY <1>3
  <2>2. UnsignedRange * k \in Int
    BY <1>1
  <2>3. ToInt(n) = n + UnsignedRange * k
    BY <1>1, <1>2, <2>1, <2>2
  <2> QED
    BY <2>3
<1> QED
  BY <1>4, <1>5, <1>6 DEF h

\* An unsigned and an int of the same number make the same port.
LEMMA PortFacts ==
    ASSUME NEW n \in Int
    PROVE  /\ ToPort(ToUnsigned(n)) = ServerPort(n)
           /\ n \in 0 .. PortRange - 1 => n \in 0 .. UnsignedRange - 1 /\ ToPort(n) = n
<1> DEFINE c == UnsignedRange \div PortRange
<1>1. /\ UnsignedRange \in Nat \ {0} /\ PortRange \in Nat \ {0}
      /\ UnsignedRange % PortRange = 0
  BY RangesType
<1>2. c \in Int /\ UnsignedRange = PortRange * c
  BY <1>1, DivFacts
<1> HIDE DEF c
<1>3. ASSUME NEW m \in Int, NEW k \in Int, m = n + UnsignedRange * k
      PROVE  ToPort(m) = ToPort(n)
  <2>1. c * k \in Int /\ UnsignedRange * k = PortRange * (c * k)
    BY <1>1, <1>2
  <2>2. (n + PortRange * (c * k)) % PortRange = n % PortRange
    BY <1>1, <2>1, SameRemainder
  <2>3. m = n + PortRange * (c * k)
    BY <1>3, <2>1
  <2> QED
    BY <2>2, <2>3 DEF ToPort
<1>4. ToPort(ToUnsigned(n)) = ToPort(n)
  <2>1. PICK k \in Int : ToUnsigned(n) = n + UnsignedRange * k
    BY UnsignedFacts
  <2>2. ToUnsigned(n) \in Int
    BY <1>1, UnsignedFacts
  <2> QED
    BY <1>3, <2>1, <2>2
<1>5. ToPort(ToInt(n)) = ToPort(n)
  <2>1. PICK k \in Int : ToInt(n) = n + UnsignedRange * k
    BY IntFacts
  <2>2. ToInt(n) \in Int
    BY IntFacts
  <2> QED
    BY <1>3, <2>1, <2>2
<1>6. ASSUME n \in 0 .. PortRange - 1 PROVE n \in 0 .. UnsignedRange - 1 /\ ToPort(n) = n
  <2>1. PortRange <= UnsignedRange
    <3>1. c >= 1
      BY <1>1, <1>2
    <3>2. PortRange * c = PortRange + PortRange * (c - 1) /\ PortRange * (c - 1) \in Nat
      BY <1>1, <1>2, <3>1
    <3> QED
      BY <1>1, <1>2, <3>2
  <2>2. n = PortRange * 0 + n
    BY <1>1
  <2> QED
    BY <1>1, <1>6, <2>1, <2>2, RemainderUnique DEF ToPort
<1> QED
  BY <1>4, <1>5, <1>6 DEF ServerPort

-----------------------------------------------------------------------------
(* Induction *)

\* A file's lines, and its length.
LEMMA FileFacts ==
    ASSUME PlaceInv
    PROVE  /\ Len(file) \in Nat /\ DOMAIN file = 1 .. Len(file)
           /\ \A i \in DOMAIN file :
                /\ file[i].key \in Keys \cup {"blank", "comment", "unparsable"}
                /\ file[i].key \in NumberKeys => file[i].value \in Int
<1>1. file \in Seq({file[i] : i \in DOMAIN file})
  BY SettingsAssumption DEF PlaceInv
<1> DEFINE Lines == {file[i] : i \in DOMAIN file}
<1>2. file \in Seq(Lines)
  BY <1>1
<1> HIDE DEF Lines
<1>3. Len(file) \in Nat /\ DOMAIN file = 1 .. Len(file)
  BY <1>2
<1> QED
  BY <1>3, SettingsAssumption DEF PlaceInv

LEMMA KeysFacts ==
    /\ NumberKeys \subseteq Keys /\ "server" \in Keys /\ "port" \in NumberKeys
    /\ "timeout" \in NumberKeys /\ "server" \notin NumberKeys
    /\ \A k \in Keys : k # "server" => k \in NumberKeys
    /\ "blank" \notin Keys /\ "comment" \notin Keys /\ "unparsable" \notin Keys
BY DEF Keys, NumberKeys

LEMMA InitInv == Init => IInv
<1> SUFFICES ASSUME Init PROVE IInv
  OBVIOUS
<1>1. PlaceInv
  <2>1. file \in Seq({file[i] : i \in DOMAIN file})
    BY SettingsAssumption DEF Init
  <2> DEFINE Lines == {file[i] : i \in DOMAIN file}
  <2>2. file \in Seq(Lines)
    BY <2>1
  <2> HIDE DEF Lines
  <2>3. Len(file) \in Nat
    BY <2>2
  <2> QED
    BY <2>3 DEF Init, PlaceInv
<1>2. 1 .. at = {}
  BY DEF Init
<1>3. ConfigInv
  <2>1. ASSUME NEW k \in NumberKeys
        PROVE  Default[k] \in 0 .. UnsignedRange - 1
    BY PortFacts, SettingsAssumption DEF RangeOf
  <2>2. DOMAIN config = Keys /\ \A k \in NumberKeys : config[k] \in 0 .. UnsignedRange - 1
    BY <2>1, SettingsAssumption DEF Init
  <2> QED
    BY <1>2, <2>2 DEF Init, ConfigInv, SetYet, SettledYet
<1>4. ClientInv
  BY DEF Init, ClientInv
<1> QED
  BY <1>1, <1>3, <1>4 DEF IInv

\* The lines that were read, and one more.
LEMMA OneMoreLine ==
    ASSUME PlaceInv, at < Len(file), at' = at + 1
    PROVE  1 .. at' = (1 .. at) \cup {at + 1} /\ at + 1 \in DOMAIN file /\ at + 1 \notin 1 .. at
BY FileFacts DEF PlaceInv

\* Another line is not for a setting.
LEMMA SetBefore ==
    ASSUME PlaceInv, at < Len(file), at' = at + 1, file' = file, NEW k \in Keys,
           Line.key # k, SetYet(k), config'[k] = config[k]
    PROVE  SetYet(k)'
<1>1. SettledYet(k)' = SettledYet(k)
  BY OneMoreLine DEF SettledYet, Line
<1>2. \A i \in 1 .. at : i \in 1 .. at'
  BY OneMoreLine
<1> QED
  BY <1>1, <1>2 DEF SetYet, SetBy, Value

\* The last line is.
LEMMA SetNow ==
    ASSUME PlaceInv, at < Len(file), at' = at + 1, file' = file, NEW k \in Keys,
           Line.key = k, config'[k] = Value(k, at + 1)
    PROVE  SetYet(k)'
<1>1. PICK i \in Nat : i = at + 1
  BY DEF PlaceInv
<1>2. i \in SettledYet(k)' /\ i \in 1 .. at'
  BY <1>1, OneMoreLine DEF SettledYet, Line
<1>3. \A j \in SettledYet(k)' : j <= i
  BY <1>1 DEF SettledYet, PlaceInv
<1>4. SetBy(k, i)'
  BY <1>1, <1>2, <1>3 DEF SetBy, Value
<1> QED
  BY <1>2, <1>4 DEF SetYet

LEMMA ReadLineStep ==
    ASSUME IInv, ReadLine
    PROVE  IInv'
<1>1. /\ pc = "reading" /\ at < Len(file) /\ at' = at + 1 /\ file' = file /\ client' = client
      /\ PlaceInv /\ ConfigInv
  BY DEF ReadLine, IInv
<1>2. pc' \in {"reading", "failed"}
  BY <1>1 DEF ReadLine, Skip, Set, Fail
<1>3. PlaceInv'
  <2>1. file' \in Files /\ at' \in Nat /\ at' <= Len(file')
    BY <1>1, FileFacts DEF PlaceInv
  <2> QED
    BY <1>2, <2>1 DEF PlaceInv
<1>4. ClientInv'
  BY <1>2 DEF ClientInv
<1>5. ASSUME config' = config, pc' # "failed" => Line.key # "unparsable", Line.key \notin Keys
      PROVE  ConfigInv'
  <2>1. \A k \in Keys : SetYet(k)'
    BY <1>1, <1>5, SetBefore DEF ConfigInv
  <2>2. pc' # "failed" => \A i \in 1 .. at' : file'[i].key # "unparsable"
    BY <1>1, <1>5, OneMoreLine DEF ConfigInv, Line
  <2> QED
    BY <1>5, <2>1, <2>2, <1>1 DEF ConfigInv
<1>6. ASSUME Skip PROVE ConfigInv'
  BY <1>5, <1>6, KeysFacts DEF Skip
<1>7. ASSUME Fail PROVE ConfigInv'
  BY <1>5, <1>7, KeysFacts DEF Fail
<1>8. ASSUME Set PROVE ConfigInv'
  <2> DEFINE key == Line.key
             value == Value(key, at + 1)
  <2>1. key \in Keys /\ config' = [config EXCEPT ![key] = value]
    BY <1>8 DEF Set, Parsed, Value, Line
  <2>2. key \in NumberKeys => value \in 0 .. UnsignedRange - 1
    <3>1. key \in NumberKeys => Line.value \in Int /\ key # "server"
      BY <1>1, FileFacts, OneMoreLine, KeysFacts DEF Line
    <3> QED
      BY <3>1, UnsignedFacts DEF Value, Line
  <2> HIDE DEF value
  <2>3. DOMAIN config' = Keys /\ \A k \in NumberKeys : config'[k] \in 0 .. UnsignedRange - 1
    BY <1>1, <2>1, <2>2, KeysFacts DEF ConfigInv
  <2>4. ASSUME NEW k \in Keys PROVE SetYet(k)'
    <3>1. CASE k = key
      BY <1>1, <2>1, <3>1, SetNow DEF ConfigInv, value
    <3>2. CASE k # key
      BY <1>1, <2>1, <3>2, SetBefore DEF ConfigInv
    <3> QED
      BY <3>1, <3>2
  <2>5. \A i \in 1 .. at' : file'[i].key # "unparsable"
    BY <1>1, <2>1, OneMoreLine, KeysFacts DEF ConfigInv, Line
  <2> QED
    BY <2>3, <2>4, <2>5 DEF ConfigInv
<1> QED
  BY <1>3, <1>4, <1>6, <1>7, <1>8 DEF ReadLine, IInv

\* What was read stays.
LEMMA StaysSet ==
    ASSUME ConfigInv, UNCHANGED <<file, at, config>>, pc' = "failed" \/ pc # "failed"
    PROVE  ConfigInv'
<1>1. ASSUME NEW k \in Keys PROVE SetYet(k)'
  BY <1>1 DEF ConfigInv, SetYet, SetBy, SettledYet, Value
<1> QED
  BY <1>1 DEF ConfigInv

LEMMA InvStep == IInv /\ [Next]_vars => IInv'
<1> SUFFICES ASSUME IInv, [Next]_vars PROVE IInv'
  OBVIOUS
<1>1. CASE ReadLine
  BY <1>1, ReadLineStep
<1>2. CASE ReadEnd
  <2>1. ConfigInv'
    BY <1>2, StaysSet DEF ReadEnd, IInv
  <2>2. PlaceInv' /\ ClientInv'
    BY <1>2 DEF ReadEnd, IInv, PlaceInv, ClientInv
  <2> QED
    BY <2>1, <2>2 DEF IInv
<1>3. CASE Build
  <2>1. ConfigInv'
    BY <1>3, StaysSet DEF Build, IInv
  <2>2. PlaceInv' /\ ClientInv'
    BY <1>3 DEF Build, IInv, PlaceInv, ClientInv
  <2> QED
    BY <2>1, <2>2 DEF IInv
<1>4. CASE UNCHANGED vars
  <2>1. ConfigInv'
    BY <1>4 DEF vars, IInv, ConfigInv, SetYet, SetBy, SettledYet, Value
  <2>2. PlaceInv' /\ ClientInv'
    BY <1>4 DEF vars, IInv, PlaceInv, ClientInv
  <2> QED
    BY <2>1, <2>2 DEF IInv
<1> QED
  BY <1>1, <1>2, <1>3, <1>4 DEF Next

LEMMA Invariance == Spec => []IInv
BY InitInv, InvStep, PTL DEF Spec

-----------------------------------------------------------------------------
(* The theorems *)

LEMMA QuotientType ==
    ASSUME NEW a \in Int
    PROVE  /\ Quotient(a, Kilo) \in Int
           /\ a \in Nat => Quotient(a, Kilo) = a \div Kilo /\ Quotient(a, Kilo) \in Nat
<1>1. Kilo \in Nat \ {0} /\ -a \in Int /\ a \div Kilo \in Int /\ (-a) \div Kilo \in Int
  BY RangesType
<1>2. a \in Nat => a \div Kilo \in Nat
  BY <1>1
<1> QED
  BY <1>1, <1>2 DEF Quotient

\* The parts of a time, and the time.
LEMMA PartsFacts ==
    ASSUME NEW n \in Nat \ {0}, NEW q \in Nat, NEW r \in 0 .. Kilo - 1, n = Kilo * q + r
    PROVE  /\ q * Kilo * Kilo + Kilo * r = Kilo * n
           /\ Kilo * n >= Kilo
           /\ Kilo * r \in 0 .. Kilo * Kilo - 1
<1>1. Kilo \in Nat \ {0}
  BY RangesType
<1>2. q * Kilo * Kilo + Kilo * r = Kilo * n
  <2>1. Kilo * (Kilo * q + r) = Kilo * (Kilo * q) + Kilo * r
    BY <1>1
  <2>2. Kilo * (Kilo * q) = q * Kilo * Kilo
    BY <1>1
  <2> QED
    BY <2>1, <2>2
<1>3. Kilo * n = Kilo + Kilo * (n - 1) /\ Kilo * (n - 1) \in Nat
  BY <1>1
<1>4. Kilo * Kilo = Kilo * r + Kilo * (Kilo - r) /\ Kilo * r \in Nat
  BY <1>1
<1>5. Kilo * (Kilo - r) = Kilo + Kilo * ((Kilo - r) - 1) /\ Kilo * ((Kilo - r) - 1) \in Nat
  BY <1>1
<1> QED
  BY <1>1, <1>2, <1>3, <1>4, <1>5

LEMMA WaitFacts ==
    ASSUME client.timeout \in 0 .. UnsignedRange - 1
    PROVE  /\ Wait >= Kilo /\ tv.tv_sec >= 0 /\ tv.tv_usec \in 0 .. Kilo * Kilo - 1
           /\ client.timeout \in Kilo .. UnsignedRange \div 2 - 1
                => Wait \in client.timeout - Kilo + 1 .. client.timeout
<1> DEFINE t == client.timeout
           n == timeoutMsec
           q == n \div Kilo
           r == n % Kilo
<1>1. Kilo \in Nat \ {0} /\ t \in Int
  BY RangesType
<1>2. ToInt(t) \in Int /\ Quotient(getTimeout, Kilo) \in Int
  BY <1>1, IntFacts, QuotientType DEF getTimeout
<1>3. n \in Nat \ {0}
  BY <1>2 DEF timeoutMsec, Larger
<1> HIDE DEF n
<1>4. /\ q \in Nat /\ r \in 0 .. Kilo - 1 /\ n = Kilo * q + r
      /\ Quotient(n, Kilo) = q
  <2>1. n \in Int /\ n \in Nat
    BY <1>3
  <2>2. q \in Int /\ r \in 0 .. Kilo - 1 /\ n = Kilo * q + r
    BY <1>1, <2>1, DivFacts
  <2>3. Quotient(n, Kilo) = q /\ Quotient(n, Kilo) \in Nat
    BY <2>1, QuotientType
  <2> HIDE DEF q, r
  <2> QED
    BY <2>2, <2>3
<1>5. tv.tv_sec = q /\ tv.tv_usec = Kilo * r
  <2>1. n - Kilo * q = r
    BY <1>1, <1>3, <1>4
  <2> QED
    BY <1>4, <2>1 DEF tv, n
<1> HIDE DEF q, r
<1>6. /\ Wait = Kilo * n /\ Wait >= Kilo /\ tv.tv_usec \in 0 .. Kilo * Kilo - 1
  BY <1>3, <1>4, <1>5, PartsFacts DEF Wait
<1>7. ASSUME t \in Kilo .. UnsignedRange \div 2 - 1
      PROVE  Wait \in t - Kilo + 1 .. t
  <2> DEFINE d == t \div Kilo
             e == t % Kilo
  <2>1. getTimeout = t
    BY <1>1, <1>7, IntFacts DEF getTimeout
  <2>2. d \in Int /\ e \in 0 .. Kilo - 1 /\ t = Kilo * d + e
    BY <1>1, DivFacts
  <2>3. Quotient(t, Kilo) = d
    BY <1>1, <1>7, QuotientType
  <2> HIDE DEF d, e
  <2>4. d >= 1
    <3>1. Kilo * d > 0
      BY <1>1, <1>7, <2>2
    <3> QED
      BY <1>1, <2>2, <3>1
  <2>5. n = d
    BY <2>1, <2>2, <2>3, <2>4 DEF n, timeoutMsec, Larger
  <2>6. Kilo * d \in Int
    BY <1>1, <2>2
  <2> QED
    BY <1>1, <1>6, <2>2, <2>5, <2>6
<1> QED
  BY <1>4, <1>5, <1>6, <1>7

\* What a setting's number becomes in the client.
LEMMA ClientFacts ==
    ASSUME IInv, pc = "built"
    PROVE  /\ \A k \in Keys \ {"port"} : client[k] = config[k]
           /\ client["port"] = ToPort(config["port"])
BY KeysFacts DEF IInv, ConfigInv, ClientInv

LEMMA SettledFacts ==
    ASSUME IInv, pc = "built", NEW k \in Keys
    PROVE  Settled(k) = SettledYet(k)
<1>1. DOMAIN file = 1 .. at
  BY FileFacts DEF IInv, PlaceInv
<1> QED
  BY <1>1 DEF Settled, SettledYet, Parsed

\* A clock is built only from a whole file that parses, with each setting as in the last line
\* for it, and ckserver's port the same as the client's: Spec => []BuiltAsConfigured.
THEOREM ClocksAreBuiltAsConfigured == Spec => []BuiltAsConfigured
<1>1. ASSUME IInv, pc = "built" PROVE \A i \in DOMAIN file : file[i].key # "unparsable"
  BY <1>1, FileFacts DEF IInv, PlaceInv, ConfigInv
<1>2. ASSUME IInv, pc = "built", NEW k \in Keys, Settled(k) = {}
      PROVE  client[k] = Default[k]
  <2>1. SettledYet(k) = {} /\ SetYet(k)
    BY <1>2, SettledFacts DEF IInv, ConfigInv
  <2>2. config[k] = Default[k]
    BY <2>1 DEF SetYet, SetBy
  <2>3. k = "port" => ToPort(Default[k]) = Default[k]
    <3>1. k = "port" => k \in NumberKeys /\ Default[k] \in 0 .. PortRange - 1
      BY KeysFacts, SettingsAssumption DEF RangeOf
    <3> QED
      BY <3>1, PortFacts
  <2> QED
    BY <1>2, <2>2, <2>3, ClientFacts
<1>3. ASSUME IInv, pc = "built", NEW k \in Keys, Settled(k) # {}
      PROVE  \E i \in Settled(k) :
                /\ \A j \in Settled(k) : j <= i
                /\ k = "port" => client.port = ServerPort(file[i].value)
                /\ k = "server" => client.server = file[i].value
                /\ k \in NumberKeys /\ file[i].value \in 0 .. RangeOf(k) - 1
                     => client[k] = file[i].value
  <2>1. SettledYet(k) = Settled(k) /\ SettledYet(k) # {} /\ SetYet(k)
    BY <1>3, SettledFacts DEF IInv, ConfigInv
  <2>2. PICK i \in 1 .. at : SetBy(k, i)
    BY <2>1 DEF SetYet
  <2>3. /\ i \in Settled(k) /\ \A j \in Settled(k) : j <= i
        /\ config[k] = Value(k, i) /\ file[i].key = k /\ i \in DOMAIN file
    BY <2>1, <2>2 DEF SetBy, Settled
  <2>4. k \in NumberKeys => file[i].value \in Int /\ config[k] = ToUnsigned(file[i].value)
    BY <1>3, <2>3, FileFacts, KeysFacts DEF IInv, Value
  <2>5. k = "port" => client.port = ServerPort(file[i].value)
    BY <1>3, <2>4, ClientFacts, KeysFacts, PortFacts
  <2>6. k = "server" => client.server = file[i].value
    BY <1>3, <2>3, ClientFacts, KeysFacts DEF Value
  <2>7. ASSUME k \in NumberKeys, file[i].value \in 0 .. RangeOf(k) - 1
        PROVE  client[k] = file[i].value
    <3> DEFINE n == file[i].value
    <3>1. n \in Int /\ config[k] = ToUnsigned(n) /\ n \in 0 .. RangeOf(k) - 1
      BY <2>4, <2>7
    <3> HIDE DEF n
    <3>2. CASE k = "port"
      <4>1. n \in 0 .. PortRange - 1
        BY <3>1, <3>2 DEF RangeOf
      <4>2. ToUnsigned(n) = n /\ ToPort(n) = n
        BY <3>1, <4>1, PortFacts, UnsignedFacts
      <4>3. client[k] = n
        BY <1>3, <3>1, <3>2, <4>2, ClientFacts
      <4> QED
        BY <4>3 DEF n
    <3>3. CASE k # "port"
      <4>1. n \in 0 .. UnsignedRange - 1
        BY <3>1, <3>3 DEF RangeOf
      <4>2. ToUnsigned(n) = n
        BY <3>1, <4>1, UnsignedFacts
      <4>3. client[k] = n
        BY <1>3, <3>1, <3>3, <4>2, ClientFacts
      <4> QED
        BY <4>3 DEF n
    <3> QED
      BY <3>2, <3>3
  <2> QED
    BY <2>3, <2>5, <2>6, <2>7
<1>4. IInv => BuiltAsConfigured
  BY <1>1, <1>2, <1>3 DEF BuiltAsConfigured
<1> QED
  BY Invariance, <1>4, PTL

\* A client never polls, and waits no longer than its timeout, whatever number that was:
\* Spec => []WaitsInTime.
THEOREM ClientsWaitInTime == Spec => []WaitsInTime
<1>1. ASSUME IInv, pc = "built" PROVE client.timeout \in 0 .. UnsignedRange - 1
  BY <1>1, ClientFacts, KeysFacts DEF IInv, ConfigInv
<1>2. ASSUME IInv, pc = "built"
      PROVE  /\ Wait >= Kilo /\ tv.tv_sec >= 0 /\ tv.tv_usec \in 0 .. Kilo * Kilo - 1
             /\ client.timeout \in Kilo .. UnsignedRange \div 2 - 1
                  => Wait \in client.timeout - Kilo + 1 .. client.timeout
  BY <1>1, <1>2, WaitFacts
<1> QED
  BY Invariance, <1>2, PTL DEF WaitsInTime
=============================================================================
