------------------------------ MODULE Settings ------------------------------
(***************************************************************************)
(* How a program comes by its clock's settings: ConfigReader::readFrom()   *)
(* and buildClock() of ClockKit/ConfigReader.cpp, the integer types that   *)
(* each number passes through on its way from a config file to the socket, *)
(* and the number that ckserver gets from its command line.                *)
(*                                                                         *)
(* A line of a config file is blank, a comment, one that does not parse, or*)
(* a setting.  Numbers may be negative, or too large for their type.       *)
(***************************************************************************)
EXTENDS Integers, Sequences

CONSTANTS
    Files,          \* what a config file may be: sequences of lines
    Default,        \* ConfigReader's defaults
    UnsignedRange,  \* 2^32, how many values an unsigned or an int has
    PortRange,      \* 2^16, how many values a port_t has
    Kilo            \* 1000

NumberKeys == {"port", "timeout", "phasePanic", "updatePanic"}
Keys == {"server"} \cup NumberKeys
Parsed(line) == line.key \in Keys

\* How many values a setting has: a port_t, or an unsigned.
RangeOf(key) == IF key = "port" THEN PortRange ELSE UnsignedRange

ASSUME SettingsAssumption ==
    /\ {UnsignedRange, PortRange, Kilo} \subseteq Nat \ {0}
    /\ UnsignedRange % PortRange = 0 /\ UnsignedRange % 2 = 0
    /\ DOMAIN Default = Keys
    /\ \A k \in NumberKeys : Default[k] \in 0 .. RangeOf(k) - 1
    /\ \A f \in Files :
         /\ f \in Seq({f[i] : i \in DOMAIN f})
         /\ \A i \in DOMAIN f :
              /\ f[i].key \in Keys \cup {"blank", "comment", "unparsable"}
              /\ f[i].key \in NumberKeys => f[i].value \in Int

VARIABLES
    pc,
    file,
    at,         \* how many lines were read
    found,      \* foundServer, foundPort, ...
    config,     \* the ConfigReader
    client      \* what buildClock() makes of it, or none

vars == <<pc, file, at, found, config, client>>

Init ==
    /\ pc = "reading"
    /\ file \in Files
    /\ at = 0
    /\ found = {}
    /\ config = Default
    /\ client = <<>>

-----------------------------------------------------------------------------
(* Numbers *)

\* A number, or another integer, as an unsigned, an int or a port_t.
ToUnsigned(n) == n % UnsignedRange
ToInt(n) == ((n + UnsignedRange \div 2) % UnsignedRange) - (UnsignedRange \div 2)
ToPort(n) == n % PortRange

Quotient(a, b) == IF a < 0 THEN -((-a) \div b) ELSE a \div b
Larger(a, b) == IF a < b THEN b ELSE a

\* main() of ckserver: parseInt()'s long becomes an int, and then the endpoint's port_t.
ServerPort(n) == ToPort(ToInt(n))

-----------------------------------------------------------------------------
(* readFrom() *)

Line == file[at + 1]

Skip ==
    /\ Line.key \in {"blank", "comment"}
    /\ UNCHANGED <<pc, found, config>>

\* Mutant: a setting that was found already is not replaced.
SetFirst ==
    /\ Parsed(Line)
    /\ found' = found \cup {Line.key}
    /\ config' = IF Line.key \in found THEN config
                 ELSE [config EXCEPT ![Line.key] =
                         IF Line.key = "server" THEN Line.value ELSE ToUnsigned(Line.value)]
    /\ UNCHANGED pc

\* SSCANF: a previous line for the same is ignored.
Set ==
    /\ Parsed(Line)
    /\ found' = found \cup {Line.key}
    /\ config' = [config EXCEPT ![Line.key] =
                    IF Line.key = "server" THEN Line.value ELSE ToUnsigned(Line.value)]
    /\ UNCHANGED pc

\* What was read up to here stays in the ConfigReader.
Fail ==
    /\ Line.key = "unparsable"
    /\ pc' = "failed"
    /\ UNCHANGED <<found, config>>

ReadLine ==
    /\ pc = "reading" /\ at < Len(file)
    /\ at' = at + 1
    /\ Skip \/ Set \/ Fail
    /\ UNCHANGED <<file, client>>

\* At the end of the file, or if it cannot be opened.
ReadEnd ==
    /\ pc = "reading"
    /\ \/ at = Len(file) /\ pc' = "read"
       \/ at = 0 /\ pc' = "failed"
    /\ UNCHANGED <<file, at, found, config, client>>

-----------------------------------------------------------------------------

\* buildClock(): the endpoint's port_t, setTimeout(), setPhasePanic(), setUpdatePanic().
Build ==
    /\ pc = "read" /\ pc' = "built"
    /\ client' = [config EXCEPT !.port = ToPort(@)]
    /\ UNCHANGED <<file, at, found, config>>

Next == ReadLine \/ ReadEnd \/ Build

Spec == Init /\ [][Next]_vars

-----------------------------------------------------------------------------
(* The client that was built *)

\* timeout_, in microseconds, as getTimeout() has it.
getTimeout == ToInt(client.timeout)

\* Mutant: less than a millisecond is no time at all.
TimeoutMsecOnly == Quotient(getTimeout, Kilo)

timeoutMsec == Larger(1, Quotient(getTimeout, Kilo))

\* What select() makes of that.
tv == [tv_sec |-> Quotient(timeoutMsec, Kilo),
       tv_usec |-> Kilo * (timeoutMsec - Kilo * Quotient(timeoutMsec, Kilo))]

\* How many microseconds receivePacket() waits for a reply.
Wait == tv.tv_sec * Kilo * Kilo + tv.tv_usec

-----------------------------------------------------------------------------
(* Safety *)

Settled(key) == {i \in DOMAIN file : Parsed(file[i]) /\ file[i].key = key}

\* A clock is built only from a whole file that parses.  Each setting is that of the last
\* line for it, or the default, and a number that its type can hold is not changed: a
\* port_t holds a port, an unsigned the others.  A ckserver that was given the same port
\* listens at the port that the client sends to, even if no port has that number.
BuiltAsConfigured ==
    pc = "built" =>
        /\ \A i \in DOMAIN file : file[i].key # "unparsable"
        /\ \A k \in Keys :
             IF Settled(k) = {} THEN client[k] = Default[k]
             ELSE \E i \in Settled(k) :
                    /\ \A j \in Settled(k) : j <= i
                    /\ k = "port" => client.port = ServerPort(file[i].value)
                    /\ k = "server" => client.server = file[i].value
                    /\ k \in NumberKeys /\ file[i].value \in 0 .. RangeOf(k) - 1
                         => client[k] = file[i].value

\* A client waits for a reply as long as timeout_ or a bit less, but a millisecond at least,
\* for any timeout that an int holds.  It never polls, nor waits for a time that select()
\* would refuse, for any number at all.
WaitsInTime ==
    pc = "built" =>
        /\ Wait >= Kilo /\ tv.tv_sec >= 0 /\ tv.tv_usec \in 0 .. Kilo * Kilo - 1
        /\ client.timeout \in Kilo .. UnsignedRange \div 2 - 1
             => Wait \in client.timeout - Kilo + 1 .. client.timeout
=============================================================================
