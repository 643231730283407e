--------------------------- MODULE AckTableProofs ---------------------------
(***************************************************************************)
(* The properties of AckTable, for any clients, addresses, offsets, round  *)
(* trip times and delays.                                                  *)
(***************************************************************************)
EXTENDS AckTable, TLAPS

-----------------------------------------------------------------------------
(* The inductive invariant *)

\* Does every client have an address of its own?
OwnAddresses == \A c, d \in Clients : Address[c] = Address[d] => c = d

\* A client's entry is its last acknowledgement, or was purged for its age.
\* By now it is even older than that, as far as recalculations tell.
TableInv ==
    /\ \A c \in DOMAIN lastAck :
         \/ Address[c] \in DOMAIN ackData /\ ackData[Address[c]] = lastAck[c]
         \/ Address[c] \notin DOMAIN ackData /\ lastAck[c].time < tRecalculated - PurgeAfter
    /\ \A a \in DOMAIN ackData : \E c \in DOMAIN lastAck : Address[c] = a

\* While the clock goes forward, nothing in the table was old at the last
\* recalculation, and that was not long ago when an acknowledgement has just come.
ForwardInv ==
    ~setBack =>
        /\ tRecalculated <= now
        /\ \A a \in DOMAIN ackData : ackData[a].time >= tRecalculated - PurgeAfter
        /\ waited <= now - tRecalculated
        /\ heard => waited < RecalcAfter
        /\ waited <= RecalcAfter

-----------------------------------------------------------------------------
(* Lemmas about the operators *)

\* An entry of integers has an integer error.
LEMMA ErrorType == ASSUME NEW e \in Entries PROVE Error(e) \in Int
<1>1. e.offset \in Int /\ e.rtt \in Int
  BY MeasureAssumption DEF Entries
<1> QED
  BY <1>1 DEF Error, Abs, Half

-----------------------------------------------------------------------------
(* Types *)

LEMMA TypeInit == Init => TypeOK
<1> SUFFICES ASSUME Init PROVE TypeOK
  OBVIOUS
<1>1. DOMAIN ackData = {} /\ DOMAIN lastAck = {}
  BY DEF Init
<1>2. heard \in BOOLEAN /\ setBack \in BOOLEAN
  BY DEF Init
<1> QED
  BY <1>1, <1>2 DEF Init, TypeOK

\* What an acknowledgement does to the table before anything is purged.
LEMMA DataType ==
    ASSUME TypeOK, NEW c \in Clients, NEW entry \in Entries
    PROVE  LET data == Put(ackData, Address[c], entry)
           IN /\ DOMAIN data \subseteq Addresses
              /\ \A a \in DOMAIN data : data[a] \in Entries
<1>1. Address[c] \in Addresses
  BY AddressAssumption
<1>2. \A a \in DOMAIN ackData : ackData[a] \in Entries
  BY DEF TypeOK
<1> QED
  BY <1>1, <1>2 DEF Put, TypeOK

LEMMA TypeStep == TypeOK /\ [Next]_vars => TypeOK'
<1> SUFFICES ASSUME TypeOK, [Next]_vars PROVE TypeOK'
  OBVIOUS
<1>1. ASSUME NEW c \in Clients, NEW offset \in Offsets, NEW rtt \in Rtts,
             Acknowledge(c, [time |-> now, offset |-> offset, rtt |-> rtt])
      PROVE  TypeOK'
  <2> DEFINE entry == [time |-> now, offset |-> offset, rtt |-> rtt]
             data == Put(ackData, Address[c], entry)
  <2>1. entry \in Entries
    BY DEF TypeOK, Entries
  <2> HIDE DEF entry
  <2>2. DOMAIN data \subseteq Addresses /\ \A a \in DOMAIN data : data[a] \in Entries
    BY <2>1, DataType
  <2>3. /\ DOMAIN lastAck' \subseteq Clients
        /\ \A d \in DOMAIN lastAck' : lastAck'[d] \in Entries
    <3>1. lastAck' = Put(lastAck, c, entry)
      BY <1>1 DEF Acknowledge, entry
    <3>2. \A d \in DOMAIN lastAck : lastAck[d] \in Entries
      BY DEF TypeOK
    <3> QED
      BY <2>1, <3>1, <3>2 DEF TypeOK, Put
  <2>4. /\ heard' = TRUE /\ UNCHANGED <<now, setBack>>
        /\ \/ /\ tRecalculated' = now /\ ackData' = Purged(data, now) /\ waited' = 0
              /\ offsetMax' \in Errors(ackData')
              /\ \A error \in Errors(ackData') : error <= offsetMax'
           \/ ackData' = data /\ UNCHANGED <<tRecalculated, offsetMax, waited>>
    BY <1>1 DEF Acknowledge, entry
  <2> HIDE DEF data
  <2>5. DOMAIN ackData' \subseteq Addresses /\ \A a \in DOMAIN ackData' : ackData'[a] \in Entries
    BY <2>2, <2>4 DEF Purged
  <2>6. offsetMax' \in Nat
    <3>1. CASE offsetMax' \in Errors(ackData') /\ \A error \in Errors(ackData') : error <= offsetMax'
      <4>1. offsetMax' \in Int
        BY <2>5, <3>1, ErrorType DEF Errors
      <4>2. 0 <= offsetMax'
        BY <3>1 DEF Errors
      <4> QED
        BY <4>1, <4>2
    <3> QED
      BY <2>4, <3>1 DEF TypeOK
  <2> QED
    BY <2>3, <2>4, <2>5, <2>6 DEF TypeOK
<1>2. CASE Tick
  <2>1. heard' \in BOOLEAN /\ setBack' \in BOOLEAN
    BY <1>2 DEF Tick, TypeOK
  <2>2. now' \in Nat /\ waited' \in Nat
    BY <1>2 DEF Tick, TypeOK
  <2> QED
    BY <1>2, <2>1, <2>2 DEF Tick, TypeOK
<1>3. CASE SetBack
  BY <1>3 DEF SetBack, TypeOK
<1>4. CASE UNCHANGED vars
  BY <1>4 DEF vars, TypeOK
<1> QED
  BY <1>1, <1>2, <1>3, <1>4 DEF Next, Acknowledged

\* Every variable keeps its type; in particular the maximum offset that
\* updateEntry() prints is never negative, though a round trip time may be.
THEOREM AckTypeCorrect == Spec => []TypeOK
<1> QED
  BY TypeInit, TypeStep, PTL DEF Spec

-----------------------------------------------------------------------------
(* While the clock goes forward *)

LEMMA ForwardStep == TypeOK /\ ForwardInv /\ [Next]_vars => ForwardInv'
<1> SUFFICES ASSUME TypeOK, ForwardInv, [Next]_vars, ~setBack'
             PROVE  /\ tRecalculated' <= now'
                    /\ \A a \in DOMAIN ackData' : ackData'[a].time >= tRecalculated' - PurgeAfter
                    /\ waited' <= now' - tRecalculated'
                    /\ heard' => waited' < RecalcAfter
                    /\ waited' <= RecalcAfter
  BY DEF ForwardInv
<1>0. /\ now \in Nat /\ tRecalculated \in Nat /\ waited \in Nat
      /\ RecalcAfter \in Nat \ {0} /\ PurgeAfter \in Nat
  BY DelayAssumption DEF TypeOK
<1>1. ASSUME NEW c \in Clients, NEW offset \in Offsets, NEW rtt \in Rtts,
             Acknowledge(c, [time |-> now, offset |-> offset, rtt |-> rtt])
      PROVE  /\ tRecalculated' <= now'
             /\ \A a \in DOMAIN ackData' : ackData'[a].time >= tRecalculated' - PurgeAfter
             /\ waited' <= now' - tRecalculated'
             /\ waited' < RecalcAfter /\ waited' <= RecalcAfter
  <2> DEFINE entry == [time |-> now, offset |-> offset, rtt |-> rtt]
             data == Put(ackData, Address[c], entry)
  <2>1. now' = now /\ ~setBack /\ entry.time = now
    BY <1>1 DEF Acknowledge
  <2>2. CASE Due(now)
    <3>1. tRecalculated' = now /\ ackData' = Purged(data, now) /\ waited' = 0
      BY <1>1, <2>2 DEF Acknowledge
    <3> HIDE DEF data
    <3> QED
      BY <1>0, <2>1, <3>1 DEF Purged
  <2>3. CASE ~Due(now)
    <3>1. ackData' = data /\ UNCHANGED <<tRecalculated, waited>>
      BY <1>1, <2>3 DEF Acknowledge
    <3>2. now < tRecalculated + RecalcAfter
      BY <1>0, <2>3 DEF Due
    <3>3. \A a \in DOMAIN data :
            \/ a = Address[c] /\ data[a].time = now
            \/ a \in DOMAIN ackData /\ data[a] = ackData[a]
      BY <2>1 DEF Put
    <3> HIDE DEF data
    <3> QED
      BY <1>0, <2>1, <3>1, <3>2, <3>3 DEF ForwardInv
  <2> QED
    BY <2>2, <2>3
<1>2. CASE Tick
  BY <1>0, <1>2 DEF Tick, ForwardInv
<1>3. CASE SetBack
  BY <1>3 DEF SetBack
<1>4. CASE UNCHANGED vars
  BY <1>0, <1>4 DEF vars, ForwardInv
<1> QED
  BY <1>0, <1>1, <1>2, <1>3, <1>4 DEF Next, Acknowledged

LEMMA Forward == Spec => [](TypeOK /\ ForwardInv)
<1>1. Init => ForwardInv
  BY DelayAssumption DEF Init, ForwardInv
<1>2. TypeOK /\ ForwardInv /\ [Next]_vars => (TypeOK /\ ForwardInv)'
  BY TypeStep, ForwardStep
<1> QED
  BY <1>1, <1>2, TypeInit, PTL DEF Spec

\* As long as clients acknowledge, offsetMax is recalculated when it is due,
\* for any delays of updateEntry(), if the server's clock is not set back.
THEOREM IsRefreshed == Spec => []Refreshed
<1>1. ForwardInv => Refreshed
  BY DEF ForwardInv, Refreshed
<1> QED
  BY <1>1, Forward, PTL

\* The age of an entry acknowledged at t, from the last recalculation, at r.
LEMMA Age ==
    ASSUME NEW t \in Int, NEW r \in Int, NEW n \in Int, NEW purge \in Int, NEW recalc \in Int,
           t >= r - purge, n < r + recalc
    PROVE  n - t < purge + recalc
  OBVIOUS

\* The table that updateEntry() leaves has no client that was silent for both
\* delays together, if the server's clock is not set back.
THEOREM TableIsRecent == Spec => EntriesRecent
<1> DEFINE Step == ackData' # ackData /\ ~setBack =>
                     \A a \in DOMAIN ackData' :
                        now - ackData'[a].time < PurgeAfter + RecalcAfter
<1>1. ASSUME TypeOK, ForwardInv, TypeOK', ForwardInv', [Next]_vars PROVE Step
  <2> SUFFICES ASSUME ackData' # ackData, ~setBack, NEW a \in DOMAIN ackData'
               PROVE  now - ackData'[a].time < PurgeAfter + RecalcAfter
    OBVIOUS
  <2>1. PICK c \in Clients, offset \in Offsets, rtt \in Rtts :
           Acknowledge(c, [time |-> now, offset |-> offset, rtt |-> rtt])
    BY <1>1 DEF Next, Acknowledged, Tick, SetBack, vars
  <2>2. now' = now /\ setBack' = setBack
    BY <2>1 DEF Acknowledge
  <2>3. ackData'[a].time >= tRecalculated' - PurgeAfter
    BY <1>1, <2>2 DEF ForwardInv
  <2>4. now < tRecalculated' + RecalcAfter
    <3>1. CASE Due(now)
      BY <1>1, <2>1, <3>1, DelayAssumption DEF Acknowledge, TypeOK
    <3>2. CASE ~Due(now)
      BY <1>1, <2>1, <3>2, DelayAssumption DEF Acknowledge, Due, TypeOK
    <3> QED
      BY <3>1, <3>2
  <2>5. ackData'[a].time \in Int
    BY <1>1 DEF TypeOK, Entries
  <2>6. /\ now \in Int /\ tRecalculated' \in Int
        /\ RecalcAfter \in Int /\ PurgeAfter \in Int
    BY <1>1, DelayAssumption DEF TypeOK
  <2> DEFINE acked == ackData'[a].time
             recalculated == tRecalculated'
  <2>7. /\ acked \in Int /\ recalculated \in Int
        /\ acked >= recalculated - PurgeAfter
        /\ now < recalculated + RecalcAfter
    BY <2>3, <2>4, <2>5, <2>6
  <2> HIDE DEF acked, recalculated
  <2>8. now - acked < PurgeAfter + RecalcAfter
    BY <2>6, <2>7, Age
  <2> QED
    BY <2>8 DEF acked
<1>2. TypeOK /\ ForwardInv /\ (TypeOK /\ ForwardInv)' /\ [Next]_vars => [Step]_vars
  BY <1>1
<1> QED
  BY <1>2, Forward, PTL DEF Spec, EntriesRecent

-----------------------------------------------------------------------------
(* The maximum offset *)

LEMMA TableStep ==
    ASSUME OwnAddresses, TypeOK, TableInv, TypeOK', [Next]_vars
    PROVE  TableInv'
<1>0. /\ now \in Nat /\ tRecalculated \in Nat
      /\ RecalcAfter \in Nat \ {0} /\ PurgeAfter \in Nat
  BY DelayAssumption DEF TypeOK
<1>1. ASSUME NEW c \in Clients, NEW offset \in Offsets, NEW rtt \in Rtts,
             Acknowledge(c, [time |-> now, offset |-> offset, rtt |-> rtt])
      PROVE  TableInv'
  <2> DEFINE entry == [time |-> now, offset |-> offset, rtt |-> rtt]
             data == Put(ackData, Address[c], entry)
  <2> HIDE DEF entry
  <2>1. /\ DOMAIN lastAck' = DOMAIN lastAck \cup {c}
        /\ lastAck'[c] = entry
        /\ \A d \in DOMAIN lastAck : d # c => lastAck'[d] = lastAck[d]
    BY <1>1 DEF Acknowledge, entry, Put
  <2>2. \A d \in DOMAIN lastAck' : lastAck'[d].time \in Nat
    BY DEF TypeOK, Entries
  <2> DEFINE at == Address[c]
  <2>3. /\ DOMAIN data = DOMAIN ackData \cup {at}
        /\ data[at] = entry
        /\ \A a \in DOMAIN ackData : a # at => data[a] = ackData[a]
    BY DEF Put, data
  <2> HIDE DEF data
  <2>4. \A d \in DOMAIN lastAck' :
          \/ Address[d] \in DOMAIN data /\ data[Address[d]] = lastAck'[d]
          \/ Address[d] \notin DOMAIN data /\ lastAck'[d].time < tRecalculated - PurgeAfter
    <3> SUFFICES ASSUME NEW d \in DOMAIN lastAck'
                 PROVE  \/ Address[d] \in DOMAIN data /\ data[Address[d]] = lastAck'[d]
                        \/ /\ Address[d] \notin DOMAIN data
                           /\ lastAck'[d].time < tRecalculated - PurgeAfter
      OBVIOUS
    <3>1. CASE d = c
      BY <2>1, <2>3, <3>1
    <3>2. CASE d # c
      <4>1. d \in DOMAIN lastAck /\ lastAck'[d] = lastAck[d]
        BY <2>1, <3>2
      <4>2. d \in Clients
        BY <4>1 DEF TypeOK
      <4>3. Address[d] # at
        BY <3>2, <4>2 DEF OwnAddresses
      <4> QED
        BY <2>3, <4>1, <4>3 DEF TableInv
    <3> QED
      BY <3>1, <3>2
  <2>5. \A a \in DOMAIN data : \E d \in DOMAIN lastAck' : Address[d] = a
    BY <2>1, <2>3 DEF TableInv
  <2>6. CASE Due(now)
    <3>1. tRecalculated' = now /\ ackData' = Purged(data, now)
      BY <1>1, <2>6 DEF Acknowledge, data, entry
    <3>2. tRecalculated <= now
      BY <1>0, <2>6 DEF Due
    <3>3. /\ DOMAIN ackData' = {a \in DOMAIN data : data[a].time >= now - PurgeAfter}
          /\ \A a \in DOMAIN ackData' : ackData'[a] = data[a]
      BY <3>1 DEF Purged
    <3>4. \A d \in DOMAIN lastAck' :
            \/ Address[d] \in DOMAIN ackData' /\ ackData'[Address[d]] = lastAck'[d]
            \/ Address[d] \notin DOMAIN ackData' /\ lastAck'[d].time < now - PurgeAfter
      BY <1>0, <2>2, <2>4, <3>2, <3>3
    <3>5. \A a \in DOMAIN ackData' : \E d \in DOMAIN lastAck' : Address[d] = a
      BY <2>5, <3>3
    <3> QED
      BY <3>1, <3>4, <3>5 DEF TableInv
  <2>7. CASE ~Due(now)
    <3>1. ackData' = data /\ tRecalculated' = tRecalculated
      BY <1>1, <2>7 DEF Acknowledge, data, entry
    <3> QED
      BY <2>4, <2>5, <3>1 DEF TableInv
  <2> QED
    BY <2>6, <2>7
<1>2. CASE Tick \/ SetBack \/ UNCHANGED vars
  BY <1>2 DEF Tick, SetBack, vars, TableInv
<1> QED
  BY <1>1, <1>2 DEF Next, Acknowledged

\* When offsetMax is recalculated, the table holds the last acknowledgements
\* of the clients that are connected, and no other.
LEMMA Recalculation ==
    ASSUME OwnAddresses, TypeOK, TableInv', TypeOK', [Next]_vars,
           tRecalculated' # tRecalculated
    PROVE  LET errors == {0} \cup {Error(lastAck'[c]) : c \in Connected(lastAck', now)}
           IN offsetMax' \in errors /\ \A error \in errors : error <= offsetMax'
<1> DEFINE errors == {0} \cup {Error(lastAck'[c]) : c \in Connected(lastAck', now)}
<1>1. PICK c \in Clients, offset \in Offsets, rtt \in Rtts :
         Acknowledge(c, [time |-> now, offset |-> offset, rtt |-> rtt])
  BY DEF Next, Acknowledged, Tick, SetBack, vars
<1>2. PICK data :
        /\ tRecalculated' = now /\ ackData' = Purged(data, now)
        /\ offsetMax' \in Errors(ackData')
        /\ \A error \in Errors(ackData') : error <= offsetMax'
  BY <1>1 DEF Acknowledge
<1>3. \A a \in DOMAIN ackData' : ackData'[a].time >= now - PurgeAfter
  BY <1>2 DEF Purged
<1>4. \A d \in DOMAIN lastAck' : lastAck'[d].time \in Nat
  BY DEF TypeOK, Entries
<1>5. \A d \in DOMAIN lastAck' :
        \/ /\ Address[d] \in DOMAIN ackData' /\ ackData'[Address[d]] = lastAck'[d]
           /\ lastAck'[d].time >= now - PurgeAfter
        \/ ~(lastAck'[d].time >= now - PurgeAfter)
  BY <1>2, <1>3, <1>4, DelayAssumption DEF TableInv, TypeOK
<1>6. \A a \in DOMAIN ackData' :
        \E d \in Connected(lastAck', now) : ackData'[a] = lastAck'[d]
  <2> SUFFICES ASSUME NEW a \in DOMAIN ackData'
               PROVE  \E d \in Connected(lastAck', now) : ackData'[a] = lastAck'[d]
    OBVIOUS
  <2>1. PICK d \in DOMAIN lastAck' : Address[d] = a
    BY DEF TableInv
  <2>2. ackData'[a] = lastAck'[d]
    BY <2>1 DEF TableInv
  <2> QED
    BY <1>3, <2>1, <2>2 DEF Connected
<1>7. \A d \in Connected(lastAck', now) :
        \E a \in DOMAIN ackData' : ackData'[a] = lastAck'[d]
  BY <1>5 DEF Connected
<1>8. Errors(ackData') = errors
  BY <1>6, <1>7 DEF Errors
<1> QED
  BY <1>2, <1>8

\* If every client has an address of its own, the offsetMax that updateEntry()
\* prints is the largest error of the connected clients: even if the server's
\* clock is set back, no client is left out and none is left over.
THEOREM OffsetMaxIsExact == ASSUME OwnAddresses PROVE Spec => OffsetMaxCovers
<1> DEFINE Step == tRecalculated' # tRecalculated =>
                     LET errors == {0} \cup {Error(lastAck'[c]) : c \in Connected(lastAck', now)}
                     IN offsetMax' \in errors /\ \A error \in errors : error <= offsetMax'
<1>1. Init => TableInv
  BY DEF Init, TableInv
<1>2. TypeOK /\ TableInv /\ [Next]_vars => (TypeOK /\ TableInv)'
  BY OwnAddresses, TypeStep, TableStep
<1>3. TypeOK /\ TableInv /\ (TypeOK /\ TableInv)' /\ [Next]_vars => [Step]_vars
  BY OwnAddresses, Recalculation
<1> QED
  BY <1>1, <1>2, <1>3, TypeInit, PTL DEF Spec, OffsetMaxCovers
=============================================================================
