------------------------------ MODULE AckTable ------------------------------
(***************************************************************************)
(* ClockKit/ClockServer.cpp, updateEntry(): the table of acknowledgements  *)
(* that a server with log_ set keeps, and the maximum offset of "all       *)
(* currently connected clients" that it prints.  (Without log_, it keeps   *)
(* no table.)                                                              *)
(*                                                                         *)
(* Times are readings of the server's clock, which may be set back.        *)
(* Offsets and round trip times are those in acknowledgements, which       *)
(* ClockClient::getPhase() never sends with an invalid time: see           *)
(* ClockExchange.                                                          *)
(***************************************************************************)
EXTENDS Integers

CONSTANTS
    Clients,       \* the ClockClients, each with its own port
    Addresses,     \* the hosts' addresses
    Address,       \* the address of each client
    Offsets,       \* the offsets that clients may acknowledge
    Rtts,          \* the round trip times that clients may acknowledge
    RecalcAfter,   \* 500 ms: offsetMax is recalculated no more often
    PurgeAfter,    \* 1500 ms: a client is not connected any more
    MaxTime        \* bound on time, and on waited

ASSUME AddressAssumption == Address \in [Clients -> Addresses]
ASSUME MeasureAssumption == Offsets \subseteq Int /\ Rtts \subseteq Int
ASSUME DelayAssumption == /\ RecalcAfter \in Nat \ {0}
                          /\ PurgeAfter \in Nat
                          /\ MaxTime \in Nat

VARIABLES
    now,            \* clock_
    ackData,        \* ackData_, from addresses to entries
    tRecalculated,  \* tRecalculated_
    offsetMax,      \* the offsetMax that was printed last
    lastAck,        \* history: the last acknowledgement of each client so far
    heard,          \* history: was there an acknowledgement since the last Tick?
    waited,         \* history: how long they have kept coming, with offsetMax as it is
    setBack         \* history: was the server's clock ever set back?

vars == <<now, ackData, tRecalculated, offsetMax, lastAck, heard, waited, setBack>>

Entries == [time : Nat, offset : Offsets, rtt : Rtts]

TypeOK ==
    /\ now \in Nat
    /\ DOMAIN ackData \subseteq Addresses
    /\ \A a \in DOMAIN ackData : ackData[a] \in Entries
    /\ tRecalculated \in Nat
    /\ offsetMax \in Nat
    /\ DOMAIN lastAck \subseteq Clients
    /\ \A c \in DOMAIN lastAck : lastAck[c] \in Entries
    /\ heard \in BOOLEAN
    /\ waited \in Nat
    /\ setBack \in BOOLEAN

-----------------------------------------------------------------------------

Put(f, key, value) ==
    [k \in DOMAIN f \cup {key} |-> IF k = key THEN value ELSE f[k]]

\* Mutant: what is too old by just one is kept.
PurgedLate(data, t) ==
    [a \in {b \in DOMAIN data : data[b].time >= t - PurgeAfter - 1} |-> data[a]]

Purged(data, t) ==
    [a \in {b \in DOMAIN data : data[b].time >= t - PurgeAfter} |-> data[a]]

Abs(x) == IF x >= 0 THEN x ELSE -x

\* Division by 2 as C++ does it, towards zero.
Half(x) == IF x >= 0 THEN x \div 2 ELSE -((-x) \div 2)

\* The largest error of a client's clock that its acknowledgement admits.
Error(entry) == Abs(entry.offset) + Half(entry.rtt)

\* Mutant: the maximum starts from the first entry.
ErrorsOnly(data) == {Error(data[a]) : a \in DOMAIN data}

\* What offsetMax is the maximum of.  It starts from 0.
Errors(data) == {0} \cup {Error(data[a]) : a \in DOMAIN data}

\* Mutant: it waits for one more.
DueLate(t) == t > tRecalculated + RecalcAfter

\* Is it time to recalculate?
Due(t) == t >= tRecalculated + RecalcAfter

-----------------------------------------------------------------------------

Init ==
    /\ now = 0
    /\ ackData = [a \in {} |-> 0]
    /\ tRecalculated = 0
    /\ offsetMax = 0
    /\ lastAck = [c \in {} |-> 0]
    /\ heard = FALSE
    /\ waited = 0
    /\ setBack = FALSE

\* An acknowledgement replaces that of any client at the same address.
Acknowledge(c, entry) ==
    LET data == Put(ackData, Address[c], entry)
    IN /\ lastAck' = Put(lastAck, c, entry)
       /\ IF Due(now)
          THEN /\ tRecalculated' = now
               /\ ackData' = Purged(data, now)
               /\ offsetMax' \in Errors(ackData')
               /\ \A error \in Errors(ackData') : error <= offsetMax'
               /\ waited' = 0
          ELSE /\ ackData' = data
               /\ UNCHANGED <<tRecalculated, offsetMax, waited>>
       /\ heard' = TRUE
       /\ UNCHANGED <<now, setBack>>

Acknowledged ==
    \E c \in Clients, offset \in Offsets, rtt \in Rtts :
        Acknowledge(c, [time |-> now, offset |-> offset, rtt |-> rtt])

Tick ==
    /\ now < MaxTime /\ waited < MaxTime
    /\ now' = now + 1
    /\ waited' = IF heard THEN waited + 1 ELSE 0
    /\ heard' = FALSE
    /\ UNCHANGED <<ackData, tRecalculated, offsetMax, lastAck, setBack>>

\* The host sets the server's clock back.
SetBack ==
    /\ now' \in 0 .. now - 1
    /\ setBack' = TRUE
    /\ UNCHANGED <<ackData, tRecalculated, offsetMax, lastAck, heard, waited>>

Next == Acknowledged \/ Tick \/ SetBack

Spec == Init /\ [][Next]_vars

-----------------------------------------------------------------------------
(* Safety *)

\* Clients that were heard of less than 1.5 s before t, by the server's clock.
Connected(acks, t) == {c \in DOMAIN acks : acks[c].time >= t - PurgeAfter}

\* When updateEntry() recalculates offsetMax, it is "the largest offset of all
\* currently connected clients": no client is missing from the table, and none is
\* left over, even after the server's clock was set back.  Holds if every
\* client has an address of its own.
OffsetMaxCovers ==
    [][tRecalculated' # tRecalculated =>
          LET errors == {0} \cup {Error(lastAck'[c]) : c \in Connected(lastAck', now)}
          IN offsetMax' \in errors /\ \A error \in errors : error <= offsetMax']_vars

\* Although entries are purged only when offsetMax is recalculated, the table that
\* updateEntry() leaves has no client that was silent for 2 s, unless the
\* server's clock was set back.
EntriesRecent ==
    [][ackData' # ackData /\ ~setBack =>
          \A a \in DOMAIN ackData' : now - ackData'[a].time < PurgeAfter + RecalcAfter]_vars

\* As long as clients acknowledge, offsetMax is recalculated as soon as it is
\* due, unless the server's clock was set back.
Refreshed == ~setBack => waited <= RecalcAfter

=============================================================================
