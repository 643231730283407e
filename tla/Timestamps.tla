----------------------------- MODULE Timestamps -----------------------------
(***************************************************************************)
(* The conversions of times of ClockKit/Timestamp.cpp and of packets of    *)
(* ClockKit/ClockPacket.cpp, on hosts of either byte order.                *)
(*                                                                         *)
(* A time is the number of its microseconds, an int64_t.  Bytes have Base  *)
(* values here, and an int64_t has Width of them.                          *)
(***************************************************************************)
EXTENDS Integers, Sequences, SequencesExt

CONSTANTS
    Base,       \* 256, an even number
    Width,      \* 8
    Million,    \* 1000000
    IntRange    \* 2^32, how many values an int has

ASSUME TimestampsAssumption ==
    /\ {Base, Width, Million, IntRange} \subseteq Nat \ {0}
    /\ Base % 2 = 0 /\ IntRange % 2 = 0

\* What ^ is, which the provers don't know.
ASSUME PowersAssumption ==
    Base^0 = 1 /\ \A n \in 0 .. Width - 1 : Base^(n + 1) = Base * Base^n

Orders == {"big endian", "little endian"}

Int64 == LET half == Base^Width \div 2 IN -half .. half - 1

usecInvalid == Base^Width \div 2 - 1

diff(a, b) == IF usecInvalid \in {a, b} THEN usecInvalid ELSE a - b

-----------------------------------------------------------------------------
(* Bytes *)

\* The bytes of two's complement t, the most significant first.
BigEndian(t) == [i \in 1..Width |-> (t \div Base^(Width - i)) % Base]

\* An int64_t as it lies in a host's memory.
InMemory(order, t) ==
    IF order = "big endian" THEN BigEndian(t) ELSE Reverse(BigEndian(t))

\* The inverse of BigEndian().
Number == [bytes \in [1..Width -> 0 .. Base - 1] |-> CHOOSE t \in Int64 : BigEndian(t) = bytes]

FromMemory(order, bytes) == Number[IF order = "big endian" THEN bytes ELSE Reverse(bytes)]

bswap64(t) == Number[Reverse(BigEndian(t))]

\* Mutant: hosts don't reorder.
AsIs(order, t) == t

REORDER(order, t) == IF order = "big endian" THEN t ELSE bswap64(t)

BytesFromTp(order, t) == InMemory(order, REORDER(order, t))

TpFromBytes(order, bytes) == REORDER(order, FromMemory(order, bytes))

-----------------------------------------------------------------------------
(* Text *)

\* Division of integers in C++.
Quotient(a, b)  == IF a < 0 THEN -((-a) \div b) ELSE a \div b
Remainder(a, b) == a - b * Quotient(a, b)

\* What an int is left with.
ToInt(n) == ((n + IntRange \div 2) % IntRange) - (IntRange \div 2)

\* "<time sec usec>"
StringFromTp(t) ==
    [sec |-> ToInt(Quotient(t, Million)), usec |-> ToInt(Remainder(t, Million))]

-----------------------------------------------------------------------------
(* Packets *)

INVALID == 0
REQUEST == 1
REPLY == 2
ACKNOWLEDGE == 3
KILL == 4

PACKET_LENGTH == 2 + 3 * Width

\* The nth of a packet's times, n in 0..2.
Field(buffer, n) == SubSeq(buffer, 3 + n * Width, 2 + (n + 1) * Width)

write(order, packet) ==
    <<packet.type, packet.sequenceNumber>>
        \o BytesFromTp(order, packet.clientRequestTime)
        \o BytesFromTp(order, packet.serverReplyTime)
        \o BytesFromTp(order, packet.clientReceiveTime)

ClockPacket(order, buffer) ==
    [type |-> buffer[1], sequenceNumber |-> buffer[2],
     clientRequestTime |-> TpFromBytes(order, Field(buffer, 0)),
     serverReplyTime   |-> TpFromBytes(order, Field(buffer, 1)),
     clientReceiveTime |-> TpFromBytes(order, Field(buffer, 2))]

\* The packet that a client makes.
NewPacket(type, seqNum, time) ==
    [type |-> type, sequenceNumber |-> seqNum, clientRequestTime |-> time,
     serverReplyTime |-> usecInvalid, clientReceiveTime |-> usecInvalid]

rtt(packet) == diff(packet.clientReceiveTime, packet.clientRequestTime)

getClockOffset(packet) ==
    IF usecInvalid \in {packet.serverReplyTime, packet.clientReceiveTime, rtt(packet)}
    THEN usecInvalid
    ELSE packet.serverReplyTime - packet.clientReceiveTime + Quotient(rtt(packet), 2)
=============================================================================
