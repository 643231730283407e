--------------------------- MODULE ClockExchange ---------------------------
(***************************************************************************)
(* ClockKit/ClockClient.cpp asks ClockKit/ClockServer.cpp for the time,    *)
(* over UDP: packets are lost, duplicated, delayed and reordered.          *)
(*                                                                         *)
(* Time is counted in microseconds of the server's clock.  The clock that  *)
(* the client measures (a vfc, or the SystemClock) reads now + skew.       *)
(* In a steady clock skew is constant; SetClock changes it at any time.    *)
(***************************************************************************)
EXTENDS Integers

CONSTANTS
    Invalid,      \* tpInvalid and durInvalid
    Timeout,      \* timeout_
    UsecPerMsec,  \* 1000: select() waits for whole milliseconds
    SeqModulus,   \* 250: sequence_ wraps around
    MaxLag,       \* a packet is lost by the time this many more requests are sent
    Acknowledge,  \* acknowledge_
    Skews,        \* the values that skew may take
    MaxTime,      \* bound: no request is sent later
    MaxRequests,  \* bound on the number of requests
    MaxDups       \* bound on the number of duplicated packets

\* What getPhase() and getValue() learn: about which request, the round trip
\* time, the offset of the clock, and how far that is off.
Results == [request : Nat, rtt : Int, offset : Int, error : Int]

ASSUME InvalidAssumption == Invalid \notin Int /\ Invalid \notin Results
ASSUME TimeoutAssumption == Timeout \in Nat /\ UsecPerMsec \in Nat \ {0}
ASSUME LagAssumption == /\ SeqModulus \in Nat \ {0}
                        /\ MaxLag \in Nat
                        /\ MaxLag < SeqModulus
ASSUME EnvironmentAssumption == /\ Skews \subseteq Int
                                /\ Acknowledge \in BOOLEAN
                                /\ MaxTime \in Nat
                                /\ MaxRequests \in Nat
                                /\ MaxDups \in Nat

VARIABLES
    now,        \* the server's clock
    skew,       \* the client's clock, less the server's
    call,       \* what the client is doing
    sequence,   \* sequence_
    waitUntil,  \* when the client's select() times out
    result,     \* what the last call learned, or Invalid
    net,        \* the packets in flight
    serverUp,   \* is ClockServer::run() running?
    dups,       \* packets duplicated so far
    requests,   \* history: requests sent so far
    sentAt,     \* history: when the last request was sent
    disturbed   \* history: was the client's clock set back during this call?

vars == <<now, skew, call, sequence, waitUntil, result, net, serverUp, dups,
          requests, sentAt, disturbed>>
client  == <<call, sequence, waitUntil, result>>
history == <<requests, sentAt, disturbed>>

\* ClockPacket.  request (which request is this about?) is for the history only.
Packets == [type : {"REQUEST", "REPLY", "ACKNOWLEDGE", "KILL"},
            seqnum : 0 .. SeqModulus - 1,
            clientRequestTime : Int \cup {Invalid},
            serverReplyTime : Int \cup {Invalid},
            request : Nat]

TypeOK ==
    /\ now \in Nat
    /\ skew \in Int
    /\ call \in {"idle", "getPhase", "getValue", "sum"}
    /\ sequence \in 0 .. SeqModulus - 1
    /\ waitUntil \in Nat
    /\ result \in Results \cup {Invalid}
    /\ net \subseteq Packets
    /\ serverUp \in BOOLEAN
    /\ dups \in Nat
    /\ requests \in Nat
    /\ sentAt \in Nat
    /\ disturbed \in BOOLEAN

-----------------------------------------------------------------------------
(* Timestamp.h and ClockPacket.h *)

\* a - b, unless one of them is invalid.
diff(a, b) == IF a = Invalid \/ b = Invalid THEN Invalid ELSE a - b

\* Division by 2 as C++ does it, towards zero.
Half(t) == IF t >= 0 THEN t \div 2 ELSE -((-t) \div 2)

\* Mutant: the bound is taken to the wrong side.
OffsetLate(serverReplyTime, clientReceiveTime, rtt) ==
    serverReplyTime - clientReceiveTime - Half(rtt)

\* getClockOffset(), of valid times.
Offset(serverReplyTime, clientReceiveTime, rtt) ==
    serverReplyTime - clientReceiveTime + Half(rtt)

\* Mutants: a sequence number short; or no wrapping around.
NextSeqShort(seqnum) == (seqnum + 1) % (SeqModulus - 1)
NextSeqUnbounded(seqnum) == seqnum + 1

NextSeq(seqnum) == (seqnum + 1) % SeqModulus

\* What select() waits: whole milliseconds, and at least one.
SelectWait == UsecPerMsec * (IF Timeout \div UsecPerMsec > 1
                             THEN Timeout \div UsecPerMsec ELSE 1)

\* What the client's clock may read.  getPhase() may be given a vfc, which may have
\* rolled over; getValue() reads the SystemClock.
LocalTimes(kind) == {now + skew} \cup (IF kind = "getPhase" THEN {Invalid} ELSE {})

-----------------------------------------------------------------------------
(* The network.  A packet that never arrives is lost. *)

\* A packet that arrives is used up, or a duplicate of it is still to come.
Arrives(p) ==
    /\ p \in net
    /\ \/ net' = net \ {p} /\ dups' = dups
       \/ net' = net /\ dups < MaxDups /\ dups' = dups + 1

\* The same, and an answer is sent.
Answered(p, q) ==
    /\ p \in net
    /\ \/ net' = (net \ {p}) \cup {q} /\ dups' = dups
       \/ net' = net \cup {q} /\ dups < MaxDups /\ dups' = dups + 1

-----------------------------------------------------------------------------
(* ClockClient *)

Init ==
    /\ now = 0
    /\ skew \in Skews
    /\ call = "idle"
    /\ sequence = 0
    /\ waitUntil = 0
    /\ result = Invalid
    /\ net = {}
    /\ serverUp = TRUE
    /\ dups = 0
    /\ requests = 0
    /\ sentAt = 0
    /\ disturbed = FALSE

\* getPhase(), called by getValue() or not, sends a request.
\* By then the network has lost the packets about much older requests.
SendRequest ==
    /\ call = "idle" /\ now < MaxTime /\ requests < MaxRequests
    /\ sequence' = NextSeq(sequence)
    /\ requests' = requests + 1
    /\ call' \in {"getPhase", "getValue"}
    /\ \E clientRequestTime \in LocalTimes(call') :
         net' = {p \in net : requests' - p.request <= MaxLag} \cup
                {[type |-> "REQUEST", seqnum |-> sequence',
                  clientRequestTime |-> clientRequestTime,
                  serverReplyTime |-> Invalid, request |-> requests']}
    /\ waitUntil' = now + SelectWait
    /\ result' = Invalid
    /\ sentAt' = now
    /\ disturbed' = FALSE
    /\ UNCHANGED <<now, skew, serverUp, dups>>

\* getPhase() cannot send.  Its sequence number is spent nevertheless.
SendFails ==
    /\ call = "idle" /\ requests < MaxRequests
    /\ sequence' = NextSeq(sequence)
    /\ requests' = requests + 1
    /\ net' = {p \in net : requests' - p.request <= MaxLag}
    /\ result' = Invalid
    /\ UNCHANGED <<now, skew, call, waitUntil, serverUp, dups, sentAt, disturbed>>

Waiting == call \in {"getPhase", "getValue"}

\* receivePacket() returns: its locals go out of scope.
Leave(next) == call' = next /\ waitUntil' = 0 /\ sentAt' = 0

\* receivePacket() drops a late or duplicate packet, and waits all over again.
ReceiveStale(p) ==
    /\ Waiting /\ p.type = "REPLY" /\ p.seqnum # sequence
    /\ Arrives(p)
    /\ waitUntil' = now + SelectWait
    /\ UNCHANGED <<now, skew, call, sequence, result, serverUp, history>>

\* Mutant: only an invalid round trip time is too late.
TooLateInvalid(rtt) == rtt = Invalid

TooLate(rtt) == rtt # Invalid => rtt > Timeout

\* receivePacket() rejects a reply that took too long, or that a clock failed for.
ReceiveLate(p) ==
    /\ Waiting /\ p.type = "REPLY" /\ p.seqnum = sequence
    /\ \E clientReceiveTime \in LocalTimes(call) :
         TooLate(diff(clientReceiveTime, p.clientRequestTime))
    /\ Arrives(p)
    /\ Leave("idle")
    /\ UNCHANGED <<now, skew, sequence, result, serverUp, requests, disturbed>>

\* receivePacket() accepts a reply; getPhase() acknowledges it, if it is to,
\* and fails if it cannot.  getValue() has yet to add the phase to its clock.
ReceiveReply(p) ==
    /\ Waiting /\ p.type = "REPLY" /\ p.seqnum = sequence
    /\ \E clientReceiveTime \in LocalTimes(call) :
         LET rtt    == diff(clientReceiveTime, p.clientRequestTime)
             offset == Offset(p.serverReplyTime, clientReceiveTime, rtt)
         IN /\ ~TooLate(rtt)
            /\ \/ result' = [request |-> p.request, rtt |-> rtt, offset |-> offset,
                             error |-> offset + skew]
               \/ call = "getPhase" /\ Acknowledge /\ result' = Invalid
    /\ IF call = "getPhase" /\ Acknowledge /\ result' # Invalid
       THEN Answered(p, [p EXCEPT !.type = "ACKNOWLEDGE"])
       ELSE Arrives(p)
    /\ Leave(IF call = "getValue" THEN "sum" ELSE "idle")
    /\ UNCHANGED <<now, skew, sequence, serverUp, requests, disturbed>>

\* Mutant: select() is told to wait forever.
TimeIsNeverUp == FALSE

TimeIsUp == now >= waitUntil

\* receivePacket() gets nothing in time.
TimedOut ==
    /\ Waiting /\ TimeIsUp
    /\ Leave("idle")
    /\ UNCHANGED <<now, skew, sequence, result, net, serverUp, dups, requests, disturbed>>

\* receivePacket() gets an error from select() or recv(), or a datagram of another length.
ReceiveFails ==
    /\ Waiting
    /\ Leave("idle")
    /\ UNCHANGED <<now, skew, sequence, result, net, serverUp, dups, requests, disturbed>>

\* getValue() reads its clock again, and adds the phase to it.
Sum ==
    /\ call = "sum"
    /\ Leave("idle")
    /\ result' = [result EXCEPT !.error = result.offset + skew]
    /\ UNCHANGED <<now, skew, sequence, net, serverUp, dups, requests, disturbed>>

\* die(), called by another thread than the one that measures.
Die ==
    /\ serverUp /\ \A p \in net : p.type # "KILL"
    /\ net' = net \cup {[type |-> "KILL", seqnum |-> 0, clientRequestTime |-> Invalid,
                         serverReplyTime |-> Invalid, request |-> requests]}
    /\ UNCHANGED <<now, skew, client, serverUp, dups, history>>

Client ==
    \/ SendRequest \/ SendFails
    \/ \E p \in net : ReceiveStale(p) \/ ReceiveLate(p) \/ ReceiveReply(p)
    \/ TimedOut \/ ReceiveFails \/ Sum \/ Die

-----------------------------------------------------------------------------
(* ClockServer::run() *)

ServeRequest(p) ==
    /\ serverUp /\ p.type = "REQUEST"
    /\ Answered(p, [p EXCEPT !.type = "REPLY", !.serverReplyTime = now])
    /\ UNCHANGED <<now, skew, client, serverUp, history>>

\* What the server does with an acknowledgement is not the client's concern.
ServeAcknowledge(p) ==
    /\ serverUp /\ p.type = "ACKNOWLEDGE"
    /\ Arrives(p)
    /\ UNCHANGED <<now, skew, client, serverUp, history>>

ServeKill(p) ==
    /\ serverUp /\ p.type = "KILL"
    /\ Arrives(p)
    /\ serverUp' = FALSE
    /\ UNCHANGED <<now, skew, client, history>>

Server == \E p \in net : ServeRequest(p) \/ ServeAcknowledge(p) \/ ServeKill(p)

-----------------------------------------------------------------------------
(* The environment *)

Tick ==
    /\ now < MaxTime \/ (Waiting /\ now < waitUntil)
    /\ now' = now + 1
    /\ UNCHANGED <<skew, client, net, serverUp, dups, history>>

\* The client's clock is set: a vfc by its updater, between two calls; the
\* SystemClock by its host, at any time.
SetClock ==
    /\ skew' \in Skews \ {skew}
    /\ disturbed' = (disturbed \/ (Waiting /\ skew' < skew) \/ call = "sum")
    /\ UNCHANGED <<now, client, net, serverUp, dups, requests, sentAt>>

Next == Client \/ Server \/ Tick \/ SetClock

\* Time goes on; select() and getValue() return.  Packets need not arrive.
Fairness == WF_vars(Tick) /\ WF_vars(TimedOut) /\ WF_vars(Sum)

Spec == Init /\ [][Next]_vars /\ Fairness

-----------------------------------------------------------------------------
(* Safety *)

\* The client believes no reply but that to its current request, however late,
\* duplicated or reordered the others arrive: a byte of sequence number is
\* enough, as long as no packet outlives SeqModulus - 1 more requests.
AnswersCurrentRequest == result # Invalid => result.request = requests

\* A believed round trip took no longer than the timeout, and no less than no
\* time: unless the client's clock is set back meanwhile, rtt() is not negative.
RttWithinTimeout ==
    result # Invalid /\ ~disturbed => result.rtt \in 0 .. Timeout

\* The offset that getPhase() returns, and the time that getValue() returns, are
\* off by half the round trip at most, rounded up, even if the client's clock is
\* set forward meanwhile.  So timeout_ bounds "the max error on phase calculations".
OffsetAccurate ==
    result # Invalid /\ ~disturbed =>
        LET bound == result.rtt - Half(result.rtt)
        IN -bound <= result.error /\ result.error <= bound

-----------------------------------------------------------------------------
(* Liveness *)

\* getPhase() and getValue() return, though every packet that it drops makes
\* receivePacket() wait for the full timeout again.
CallReturns == call # "idle" ~> call = "idle"

-----------------------------------------------------------------------------
(* What PhaseLockedClock relies on *)

M == INSTANCE Measurement WITH
       busy <- call # "idle",
       learned <- IF call = "idle" /\ result # Invalid
                  THEN [rtt |-> result.rtt, error |-> result.error] ELSE Invalid

\* Whatever the network does with the packets, and however the server stamps and
\* the client drops them, a call is one measurement, accurate or failed, that ends.
ImplementsMeasurement == M!Spec
=============================================================================
