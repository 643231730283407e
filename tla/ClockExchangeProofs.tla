------------------------ MODULE ClockExchangeProofs ------------------------
(***************************************************************************)
(* The safety properties of ClockExchange, for any timeout, modulus, lag   *)
(* and skews, and any number of requests and duplicates.                   *)
(***************************************************************************)
EXTENDS ClockExchange, TLAPS

-----------------------------------------------------------------------------
(* The inductive invariant *)

\* A packet in flight is recent, and its sequence number tells how recent.
\* A killing packet has none.
Recent(p) ==
    LET lag == requests - p.request
    IN /\ 0 <= lag /\ lag <= MaxLag
       /\ \/ p.type = "KILL"
          \/ p.seqnum = sequence - lag
          \/ p.seqnum = sequence - lag + SeqModulus

\* What the times in a packet about the current request stand for.
Timed(p) ==
    /\ p.clientRequestTime # Invalid /\ ~disturbed =>
           p.clientRequestTime <= sentAt + skew
    /\ p.type = "REPLY" =>
           sentAt <= p.serverReplyTime /\ p.serverReplyTime <= now

NetInv ==
    \A p \in net :
        /\ Recent(p)
        /\ p.type = "REPLY" => p.serverReplyTime \in Int
        /\ Waiting /\ p.request = requests /\ p.type \in {"REQUEST", "REPLY"} => Timed(p)

CallInv ==
    /\ sentAt <= now
    /\ Waiting => result = Invalid
    /\ call = "sum" => result # Invalid
    /\ call = "sum" /\ ~disturbed => result.error = result.offset + skew

ResultInv == AnswersCurrentRequest /\ RttWithinTimeout /\ OffsetAccurate

IInv == TypeOK /\ NetInv /\ CallInv /\ ResultInv

-----------------------------------------------------------------------------
(* Lemmas about the operators *)

\* The sequence number wraps around at SeqModulus.
LEMMA NextSeqFacts ==
    ASSUME NEW s \in 0 .. SeqModulus - 1
    PROVE  /\ NextSeq(s) \in 0 .. SeqModulus - 1
           /\ NextSeq(s) = s + 1 \/ NextSeq(s) = s + 1 - SeqModulus
<1>1. CASE s + 1 = SeqModulus
  BY <1>1, LagAssumption, SMT DEF NextSeq
<1>2. CASE s + 1 < SeqModulus
  BY <1>2, LagAssumption, SMT DEF NextSeq
<1> QED
  BY <1>1, <1>2, LagAssumption

\* Halving towards zero: an integer, and at least half of it is left over.
LEMMA HalfFacts ==
    ASSUME NEW t \in Int
    PROVE  /\ Half(t) \in Int
           /\ t >= 0 => 0 <= Half(t) /\ Half(t) <= t - Half(t)
BY DEF Half

\* select() waits a natural number of microseconds.
LEMMA SelectWaitType == SelectWait \in Nat
<1>1. Timeout \div UsecPerMsec \in Int
  BY TimeoutAssumption
<1>2. (IF Timeout \div UsecPerMsec > 1 THEN Timeout \div UsecPerMsec ELSE 1) \in Nat
  BY <1>1
<1> QED
  BY <1>2, TimeoutAssumption DEF SelectWait

\* The accuracy of Cristian's algorithm, as getClockOffset() does it.  A reply
\* is stamped between two readings of the client's clock, which was not set
\* back meanwhile: then its offset is off by half the round trip at most.
LEMMA Accuracy ==
    ASSUME NEW sent \in Int, NEW stamped \in Int, NEW t \in Int, NEW s \in Int,
           NEW requestTime \in Int,
           sent <= stamped, stamped <= t, requestTime <= sent + s
    PROVE  LET rtt   == (t + s) - requestTime
               error == Offset(stamped, t + s, rtt) + s
           IN /\ rtt >= 0
              /\ -(rtt - Half(rtt)) <= error
              /\ error <= rtt - Half(rtt)
BY HalfFacts DEF Offset, Half

-----------------------------------------------------------------------------
(* Types *)

LEMMA TypeInit == Init => TypeOK
<1> SUFFICES ASSUME Init PROVE TypeOK
  OBVIOUS
<1>1. sequence \in 0 .. SeqModulus - 1
  BY LagAssumption DEF Init
<1>2. skew \in Int
  BY EnvironmentAssumption DEF Init
<1>3. net \subseteq Packets
  BY DEF Init
<1> QED
  BY <1>1, <1>2, <1>3 DEF Init, TypeOK

\* What arrives leaves the packets in flight as they are, or one fewer.
LEMMA ArrivesFacts ==
    ASSUME TypeOK, NEW p \in net, Arrives(p)
    PROVE  net' \subseteq net /\ dups' \in Nat
BY DEF Arrives, TypeOK

LEMMA AnsweredFacts ==
    ASSUME TypeOK, NEW p \in net, NEW q, Answered(p, q)
    PROVE  net' \subseteq net \cup {q} /\ dups' \in Nat
BY DEF Answered, TypeOK

\* A believed reply yields an integer round trip time and offset.
LEMMA ReplyFacts ==
    ASSUME TypeOK, NetInv, NEW p \in net, ReceiveReply(p),
           call = "getValue" \/ result' # Invalid
    PROVE  \E clientReceiveTime \in Int :
             /\ clientReceiveTime = now + skew
             /\ p.clientRequestTime \in Int /\ p.serverReplyTime \in Int
             /\ LET rtt == clientReceiveTime - p.clientRequestTime
                    offset == Offset(p.serverReplyTime, clientReceiveTime, rtt)
                IN /\ rtt <= Timeout /\ offset \in Int
                   /\ result' = [request |-> p.request, rtt |-> rtt, offset |-> offset,
                                 error |-> offset + skew]
                   /\ result' \in Results
<1>1. PICK t \in LocalTimes(call) :
        LET rtt    == diff(t, p.clientRequestTime)
            offset == Offset(p.serverReplyTime, t, rtt)
        IN /\ ~TooLate(rtt)
           /\ result' = [request |-> p.request, rtt |-> rtt, offset |-> offset,
                         error |-> offset + skew]
  BY DEF ReceiveReply
<1>2. /\ t # Invalid /\ p.clientRequestTime # Invalid
      /\ t - p.clientRequestTime <= Timeout
      /\ diff(t, p.clientRequestTime) = t - p.clientRequestTime
  <2>1. diff(t, p.clientRequestTime) # Invalid
    BY <1>1 DEF TooLate
  <2>2. t # Invalid /\ p.clientRequestTime # Invalid
    BY <2>1 DEF diff
  <2>3. t \in Int /\ p.clientRequestTime \in Int
    BY <2>2 DEF LocalTimes, TypeOK, Packets
  <2> QED
    BY <1>1, <2>2, <2>3, TimeoutAssumption DEF TooLate, diff
<1>3. t = now + skew /\ t \in Int /\ p.clientRequestTime \in Int
  BY <1>2 DEF LocalTimes, TypeOK, Packets
<1>4. p.serverReplyTime \in Int
  BY DEF NetInv, ReceiveReply
<1>5. Offset(p.serverReplyTime, t, t - p.clientRequestTime) \in Int
  BY <1>3, <1>4, HalfFacts DEF Offset
<1>6. p.request \in Nat
  BY DEF TypeOK, Packets
<1>7. result' \in Results
  BY <1>1, <1>2, <1>3, <1>5, <1>6 DEF Results, TypeOK
<1> QED
  BY <1>1, <1>2, <1>3, <1>4, <1>5, <1>7

LEMMA TypeStep == TypeOK /\ NetInv /\ CallInv /\ [Next]_vars => TypeOK'
<1> SUFFICES ASSUME TypeOK, NetInv, CallInv, [Next]_vars PROVE TypeOK'
  OBVIOUS
<1> USE DEF client, history, Leave, Waiting
<1>1. CASE SendRequest
  <2>1. PICK t \in Int \cup {Invalid} :
          net' = {p \in net : requests' - p.request <= MaxLag} \cup
                 {[type |-> "REQUEST", seqnum |-> sequence', clientRequestTime |-> t,
                   serverReplyTime |-> Invalid, request |-> requests']}
    BY <1>1 DEF SendRequest, LocalTimes, TypeOK
  <2>2. sequence' \in 0 .. SeqModulus - 1 /\ requests' \in Nat
    BY <1>1, NextSeqFacts DEF SendRequest, TypeOK
  <2>3. net' \subseteq Packets
    BY <2>1, <2>2 DEF TypeOK, Packets
  <2>4. waitUntil' \in Nat
    BY <1>1, SelectWaitType DEF SendRequest, TypeOK
  <2> QED
    BY <1>1, <2>2, <2>3, <2>4 DEF SendRequest, TypeOK
<1>2. CASE SendFails
  BY <1>2, NextSeqFacts DEF SendFails, TypeOK
<1>3. ASSUME NEW p \in net, ReceiveStale(p) PROVE TypeOK'
  BY <1>3, ArrivesFacts, SelectWaitType DEF ReceiveStale, TypeOK
<1>4. ASSUME NEW p \in net, ReceiveLate(p) PROVE TypeOK'
  BY <1>4, ArrivesFacts DEF ReceiveLate, TypeOK
<1>5. ASSUME NEW p \in net, ReceiveReply(p) PROVE TypeOK'
  <2>1. result' \in Results \cup {Invalid}
    BY <1>5, ReplyFacts
  <2>2. [p EXCEPT !.type = "ACKNOWLEDGE"] \in Packets
    BY DEF TypeOK, Packets
  <2>3. net' \subseteq Packets /\ dups' \in Nat
    BY <1>5, <2>2, ArrivesFacts, AnsweredFacts DEF ReceiveReply, TypeOK
  <2> QED
    BY <1>5, <2>1, <2>3 DEF ReceiveReply, TypeOK
<1>6. CASE TimedOut \/ ReceiveFails
  BY <1>6 DEF TimedOut, ReceiveFails, TypeOK
<1>7. CASE Sum
  <2>1. result \in Results
    BY <1>7 DEF Sum, CallInv, TypeOK
  <2>2. result.offset + skew \in Int
    BY <2>1 DEF Results, TypeOK
  <2>3. result' \in Results
    BY <1>7, <2>1, <2>2 DEF Sum, Results
  <2> QED
    BY <1>7, <2>3 DEF Sum, TypeOK
<1>8. CASE Die
  BY <1>8, LagAssumption DEF Die, TypeOK, Packets
<1>9. ASSUME NEW p \in net, ServeRequest(p) PROVE TypeOK'
  <2>1. [p EXCEPT !.type = "REPLY", !.serverReplyTime = now] \in Packets
    <3>1. p \in Packets /\ now \in Int
      BY DEF TypeOK
    <3> QED
      BY <3>1 DEF Packets
  <2>2. net' \subseteq Packets /\ dups' \in Nat
    BY <1>9, <2>1, AnsweredFacts DEF ServeRequest, TypeOK
  <2> QED
    BY <1>9, <2>2 DEF ServeRequest, TypeOK
<1>10. ASSUME NEW p \in net, ServeAcknowledge(p) \/ ServeKill(p) PROVE TypeOK'
  BY <1>10, ArrivesFacts DEF ServeAcknowledge, ServeKill, TypeOK
<1>11. CASE Tick
  BY <1>11 DEF Tick, TypeOK
<1>12. CASE SetClock
  BY <1>12, EnvironmentAssumption DEF SetClock, TypeOK
<1>13. CASE UNCHANGED vars
  BY <1>13 DEF vars, TypeOK
<1> QED
  BY <1>1, <1>2, <1>3, <1>4, <1>5, <1>6, <1>7, <1>8, <1>9, <1>10, <1>11, <1>12, <1>13
  DEF Next, Client, Server

-----------------------------------------------------------------------------
(* Packets in flight *)

\* What a packet about an old or a current request says stays true as long as
\* no request is sent: time goes on, and a clock set back is remembered.
LEMMA PacketsStay ==
    ASSUME TypeOK, NetInv, CallInv, NEW p \in net, now' >= now, now' \in Nat, skew' \in Int,
           UNCHANGED <<sequence, requests>>,
           Waiting' => Waiting /\ UNCHANGED sentAt,
           disturbed' \in BOOLEAN,
           Waiting /\ ~disturbed' => ~disturbed /\ skew' >= skew
    PROVE  /\ Recent(p)'
           /\ p.type = "REPLY" => p.serverReplyTime \in Int
           /\ Waiting' /\ p.request = requests' /\ p.type \in {"REQUEST", "REPLY"} => Timed(p)'
<1>1. Recent(p)'
  BY DEF NetInv, Recent
<1>2. p.type = "REPLY" => p.serverReplyTime \in Int
  BY DEF NetInv
<1>3. ASSUME Waiting', p.request = requests, p.type \in {"REQUEST", "REPLY"} PROVE Timed(p)'
  <2>1. Timed(p) /\ sentAt' = sentAt /\ Waiting
    BY <1>3 DEF NetInv
  <2>2. p.clientRequestTime # Invalid => p.clientRequestTime \in Int
    BY DEF TypeOK, Packets
  <2> QED
    BY <1>2, <2>1, <2>2 DEF Timed, TypeOK
<1> QED
  BY <1>1, <1>2, <1>3

\* Another request makes the older packets one request older.
LEMMA PacketsAge ==
    ASSUME TypeOK, NetInv, NEW p \in net, sequence' = NextSeq(sequence),
           requests' = requests + 1, requests' - p.request <= MaxLag
    PROVE  Recent(p)' /\ p.request # requests'
<1>1. p \in Packets /\ Recent(p)
  BY DEF TypeOK, NetInv
<1>2. p.seqnum \in 0 .. SeqModulus - 1 /\ p.request \in Nat
  BY <1>1 DEF Packets
<1>3. sequence' = sequence + 1 \/ sequence' = sequence + 1 - SeqModulus
  BY NextSeqFacts DEF TypeOK
<1>4. sequence' \in 0 .. SeqModulus - 1 /\ sequence \in 0 .. SeqModulus - 1 /\ requests \in Nat
  BY NextSeqFacts DEF TypeOK
<1> QED
  BY <1>1, <1>2, <1>3, <1>4, LagAssumption DEF Recent

LEMMA NetStep == TypeOK /\ NetInv /\ CallInv /\ TypeOK' /\ [Next]_vars => NetInv'
<1> SUFFICES ASSUME TypeOK, NetInv, CallInv, TypeOK', [Next]_vars, NEW p \in net'
             PROVE  /\ Recent(p)'
                    /\ p.type = "REPLY" => p.serverReplyTime \in Int
                    /\ Waiting' /\ p.request = requests' /\ p.type \in {"REQUEST", "REPLY"}
                         => Timed(p)'
  BY DEF NetInv
<1> DEFINE Good(q) ==
      /\ Recent(q)'
      /\ q.type = "REPLY" => q.serverReplyTime \in Int
      /\ Waiting' /\ q.request = requests' /\ q.type \in {"REQUEST", "REPLY"} => Timed(q)'
<1> SUFFICES Good(p)
  OBVIOUS
<1>0. /\ now \in Nat /\ now' \in Nat /\ skew \in Int /\ skew' \in Int
      /\ disturbed \in BOOLEAN /\ disturbed' \in BOOLEAN
      /\ requests \in Nat /\ sequence \in 0 .. SeqModulus - 1
  BY DEF TypeOK
<1>1. CASE SendRequest
  <2>1. PICK t \in LocalTimes(call') :
          net' = {q \in net : requests' - q.request <= MaxLag} \cup
                 {[type |-> "REQUEST", seqnum |-> sequence', clientRequestTime |-> t,
                   serverReplyTime |-> Invalid, request |-> requests']}
    BY <1>1 DEF SendRequest
  <2>2. CASE p \in net /\ requests' - p.request <= MaxLag
    BY <1>1, <2>2, PacketsAge DEF SendRequest, NetInv
  <2>3. CASE p = [type |-> "REQUEST", seqnum |-> sequence', clientRequestTime |-> t,
                  serverReplyTime |-> Invalid, request |-> requests']
    <3>1. /\ p.type = "REQUEST" /\ p.seqnum = sequence' /\ p.request = requests'
          /\ p.clientRequestTime = t
      BY <2>3
    <3>2. requests' - p.request = 0 /\ sequence' - 0 = sequence'
      BY <1>1, <1>0, <3>1, NextSeqFacts DEF SendRequest
    <3>3. Recent(p)'
      BY <3>1, <3>2, LagAssumption DEF Recent
    <3>4. Timed(p)'
      BY <1>0, <1>1, <3>1 DEF Timed, SendRequest, LocalTimes
    <3> QED
      BY <3>1, <3>3, <3>4
  <2> QED
    BY <2>1, <2>2, <2>3
<1>2. CASE SendFails
  <2>1. p \in net /\ requests' - p.request <= MaxLag
    BY <1>2 DEF SendFails
  <2> QED
    BY <1>2, <2>1, PacketsAge DEF SendFails, NetInv
<1>3. CASE p \in net /\ ~SendRequest /\ ~SendFails
  <2>1. /\ UNCHANGED <<sequence, requests>>
        /\ now' >= now
        /\ Waiting' => Waiting /\ UNCHANGED sentAt
        /\ Waiting /\ ~disturbed' => ~disturbed /\ skew' >= skew
    <3> USE DEF client, history
    <3>1. CASE Client
      <4>1. UNCHANGED <<now, skew, sequence, requests, disturbed>>
        BY <1>3, <3>1 DEF Client, ReceiveStale, ReceiveLate, ReceiveReply, TimedOut,
           ReceiveFails, Sum, Die
      <4>2. Waiting' => Waiting /\ UNCHANGED sentAt
        BY <1>3, <3>1 DEF Client, ReceiveStale, ReceiveLate, ReceiveReply, TimedOut,
           ReceiveFails, Sum, Die, Leave, Waiting
      <4> QED
        BY <1>0, <4>1, <4>2
    <3>2. CASE Server
      BY <1>0, <3>2 DEF Server, ServeRequest, ServeAcknowledge, ServeKill, Waiting
    <3>3. CASE Tick
      BY <1>0, <3>3 DEF Tick, Waiting
    <3>4. CASE SetClock
      <4>1. Waiting /\ ~disturbed' => ~disturbed /\ ~(skew' < skew)
        BY <3>4 DEF SetClock
      <4>2. ~(skew' < skew) => skew' >= skew
        BY <1>0
      <4> QED
        BY <1>0, <3>4, <4>1, <4>2 DEF SetClock, Waiting
    <3>5. CASE UNCHANGED vars
      BY <1>0, <3>5 DEF vars, Waiting
    <3> QED
      BY <3>1, <3>2, <3>3, <3>4, <3>5 DEF Next
  <2> QED
    BY <1>0, <1>3, <2>1, PacketsStay
<1>4. ASSUME p \notin net, NEW q \in net, ReceiveReply(q) PROVE Good(p)
  <2>1. p = [q EXCEPT !.type = "ACKNOWLEDGE"]
    BY <1>4 DEF ReceiveReply, Arrives, Answered
  <2>2. /\ p.type = "ACKNOWLEDGE" /\ p.seqnum = q.seqnum /\ p.request = q.request
        /\ q.type # "KILL"
    BY <1>4, <2>1 DEF TypeOK, Packets, ReceiveReply
  <2>3. Recent(p)'
    BY <1>4, <2>2 DEF NetInv, Recent, ReceiveReply
  <2> QED
    BY <2>2, <2>3
<1>5. CASE p \notin net /\ Die
  <2>1. p.type = "KILL" /\ p.request = requests
    BY <1>5 DEF Die
  <2>2. requests' = requests /\ requests - requests = 0
    BY <1>0, <1>5 DEF Die, history
  <2> QED
    BY <2>1, <2>2, LagAssumption DEF Recent
<1>6. ASSUME p \notin net, NEW q \in net, ServeRequest(q) PROVE Good(p)
  <2>1. p = [q EXCEPT !.type = "REPLY", !.serverReplyTime = now]
    BY <1>6 DEF ServeRequest, Answered
  <2>2. /\ p.type = "REPLY" /\ p.seqnum = q.seqnum /\ p.request = q.request
        /\ p.clientRequestTime = q.clientRequestTime /\ p.serverReplyTime = now
        /\ q.type = "REQUEST"
    BY <1>6, <2>1 DEF TypeOK, Packets, ServeRequest
  <2>3. Recent(p)'
    BY <1>6, <2>2 DEF NetInv, Recent, ServeRequest, client, history
  <2>4. ASSUME Waiting', p.request = requests' PROVE Timed(p)'
    <3>1. Timed(q) /\ sentAt' = sentAt /\ now' = now /\ skew' = skew /\ disturbed' = disturbed
      BY <1>6, <2>2, <2>4 DEF NetInv, ServeRequest, client, history, Waiting
    <3>2. sentAt <= now
      BY DEF CallInv
    <3> QED
      BY <1>0, <2>2, <3>1, <3>2 DEF Timed
  <2> QED
    BY <1>0, <2>2, <2>3, <2>4
<1>7. CASE p \notin net /\ ~SendRequest /\ ~SendFails /\ ~Die
  <2>1. ~ \E q \in net : ReceiveStale(q) \/ ReceiveLate(q) \/ ServeAcknowledge(q) \/ ServeKill(q)
    BY <1>7 DEF ReceiveStale, ReceiveLate, ServeAcknowledge, ServeKill, Arrives
  <2>2. ~(TimedOut \/ ReceiveFails \/ Sum \/ Tick \/ SetClock \/ UNCHANGED vars)
    BY <1>7 DEF TimedOut, ReceiveFails, Sum, Tick, SetClock, vars
  <2> QED
    BY <1>4, <1>6, <1>7, <2>1, <2>2 DEF Next, Client, Server
<1> QED
  BY <1>1, <1>2, <1>3, <1>5, <1>7

-----------------------------------------------------------------------------
(* The call and its result *)

LEMMA CallStep == TypeOK /\ NetInv /\ CallInv /\ TypeOK' /\ [Next]_vars => CallInv'
<1> SUFFICES ASSUME TypeOK, NetInv, CallInv, TypeOK', [Next]_vars PROVE CallInv'
  OBVIOUS
<1>0. /\ now \in Nat /\ now' \in Nat /\ sentAt \in Nat
      /\ 0 # Invalid
  BY InvalidAssumption DEF TypeOK
<1> USE DEF client, history, Leave, Waiting, CallInv
<1>1. CASE SendRequest \/ SendFails \/ TimedOut \/ ReceiveFails \/ Die
  BY <1>0, <1>1 DEF SendRequest, SendFails, TimedOut, ReceiveFails, Die
<1>2. ASSUME NEW p \in net, ReceiveStale(p) \/ ReceiveLate(p) PROVE CallInv'
  BY <1>0, <1>2 DEF ReceiveStale, ReceiveLate
<1>3. ASSUME NEW p \in net, ReceiveReply(p) PROVE CallInv'
  <2>1. call = "getValue" => result' # Invalid
    BY <1>3, ReplyFacts, InvalidAssumption
  <2>2. result' # Invalid => result'.error = result'.offset + skew
    BY <1>3, ReplyFacts
  <2> QED
    BY <1>0, <1>3, <2>1, <2>2 DEF ReceiveReply
<1>4. CASE Sum
  BY <1>0, <1>4 DEF Sum
<1>5. ASSUME NEW p \in net, ServeRequest(p) \/ ServeAcknowledge(p) \/ ServeKill(p)
      PROVE CallInv'
  BY <1>0, <1>5 DEF ServeRequest, ServeAcknowledge, ServeKill
<1>6. CASE Tick
  BY <1>0, <1>6 DEF Tick
<1>7. CASE SetClock
  BY <1>0, <1>7 DEF SetClock
<1>8. CASE UNCHANGED vars
  BY <1>0, <1>8 DEF vars
<1> QED
  BY <1>1, <1>2, <1>3, <1>4, <1>5, <1>6, <1>7, <1>8 DEF Next, Client, Server

\* A reply to the current request is the only one that is believed.
LEMMA CurrentReply ==
    ASSUME TypeOK, NetInv, NEW p \in net, ReceiveReply(p)
    PROVE  p.request = requests
<1>1. Recent(p) /\ p \in Packets
  BY DEF NetInv, TypeOK
<1>2. p.seqnum = sequence /\ p.type = "REPLY"
  BY DEF ReceiveReply
<1>3. p.request \in Nat /\ requests \in Nat /\ sequence \in 0 .. SeqModulus - 1
  BY <1>1 DEF Packets, TypeOK
<1> QED
  BY <1>1, <1>2, <1>3, LagAssumption DEF Recent

\* What a believed reply makes of the call: the accuracy lemma applies.
LEMMA ReplyStep ==
    ASSUME TypeOK, NetInv, CallInv, NEW p \in net, ReceiveReply(p), result' # Invalid
    PROVE  ResultInv'
<1>1. PICK t \in Int :
        /\ t = now + skew
        /\ p.clientRequestTime \in Int /\ p.serverReplyTime \in Int
        /\ LET rtt == t - p.clientRequestTime
               offset == Offset(p.serverReplyTime, t, rtt)
           IN /\ rtt <= Timeout /\ offset \in Int
              /\ result' = [request |-> p.request, rtt |-> rtt, offset |-> offset,
                            error |-> offset + skew]
  BY ReplyFacts
<1>2. UNCHANGED <<now, skew, requests, disturbed>> /\ Waiting /\ p.type = "REPLY"
  BY DEF ReceiveReply
<1>3. p.request = requests
  BY CurrentReply
<1>4. now \in Int /\ skew \in Int /\ sentAt \in Int
  BY DEF TypeOK
<1>5. result'.request = requests'
  BY <1>1, <1>2, <1>3
<1>6. ASSUME ~disturbed
      PROVE  LET rtt   == t - p.clientRequestTime
                 error == Offset(p.serverReplyTime, t, rtt) + skew
             IN /\ rtt >= 0
                /\ -(rtt - Half(rtt)) <= error
                /\ error <= rtt - Half(rtt)
  <2>1. Timed(p)
    BY <1>2, <1>3 DEF NetInv
  <2>2. /\ sentAt <= p.serverReplyTime /\ p.serverReplyTime <= now
        /\ p.clientRequestTime <= sentAt + skew
    BY <1>1, <1>2, <1>6, <2>1, InvalidAssumption DEF Timed
  <2> QED
    BY <1>1, <1>4, <2>2, Accuracy
<1>7. ~disturbed => result'.rtt \in 0 .. Timeout
  BY <1>1, <1>6, TimeoutAssumption
<1>8. ~disturbed => /\ -(result'.rtt - Half(result'.rtt)) <= result'.error
                    /\ result'.error <= result'.rtt - Half(result'.rtt)
  BY <1>1, <1>6
<1> QED
  BY <1>2, <1>5, <1>7, <1>8
  DEF ResultInv, AnswersCurrentRequest, RttWithinTimeout, OffsetAccurate, Half

LEMMA ResultStep ==
    TypeOK /\ NetInv /\ CallInv /\ ResultInv /\ CallInv' /\ [Next]_vars => ResultInv'
<1> SUFFICES ASSUME TypeOK, NetInv, CallInv, ResultInv, CallInv', [Next]_vars
             PROVE  ResultInv'
  OBVIOUS
<1> USE DEF client, history
\* Either nothing is learned yet,
<1>1. CASE result' = Invalid
  BY <1>1 DEF ResultInv, AnswersCurrentRequest, RttWithinTimeout, OffsetAccurate
\* or what was learned stays, and so does whether it is to be trusted,
<1>2. ASSUME result' = result, requests' = requests, ~disturbed' => ~disturbed
      PROVE  ResultInv'
  BY <1>2 DEF ResultInv, AnswersCurrentRequest, RttWithinTimeout, OffsetAccurate, Half
\* or something is learned.
<1>3. ASSUME NEW p \in net, ReceiveReply(p) PROVE ResultInv'
  BY <1>1, <1>3, ReplyStep
<1>4. CASE Sum
  <2>1. /\ result # Invalid /\ call = "sum"
        /\ UNCHANGED <<requests, disturbed>>
        /\ result' = [result EXCEPT !.error = result.offset + skew]
    BY <1>4 DEF Sum, CallInv
  <2>2. result \in Results
    BY <2>1 DEF TypeOK
  <2>3. result'.request = result.request /\ result'.rtt = result.rtt
        /\ result'.error = result.offset + skew
    BY <2>1, <2>2 DEF Results
  <2>4. ~disturbed => result'.error = result.error
    BY <2>1, <2>3 DEF CallInv
  <2> QED
    BY <2>1, <2>3, <2>4
    DEF ResultInv, AnswersCurrentRequest, RttWithinTimeout, OffsetAccurate, Half
<1>5. CASE SendRequest \/ SendFails
  BY <1>1, <1>5 DEF SendRequest, SendFails
<1>6. ASSUME NEW p \in net, ReceiveStale(p) \/ ReceiveLate(p) PROVE ResultInv'
  BY <1>2, <1>6 DEF ReceiveStale, ReceiveLate
<1>7. CASE TimedOut \/ ReceiveFails \/ Die \/ Tick
  BY <1>2, <1>7 DEF TimedOut, ReceiveFails, Die, Tick
<1>8. ASSUME NEW p \in net, ServeRequest(p) \/ ServeAcknowledge(p) \/ ServeKill(p)
      PROVE ResultInv'
  BY <1>2, <1>8 DEF ServeRequest, ServeAcknowledge, ServeKill
<1>9. CASE SetClock
  BY <1>2, <1>9 DEF SetClock
<1>10. CASE UNCHANGED vars
  BY <1>2, <1>10 DEF vars
<1> QED
  BY <1>3, <1>4, <1>5, <1>6, <1>7, <1>8, <1>9, <1>10 DEF Next, Client, Server

-----------------------------------------------------------------------------
(* Theorems *)

LEMMA Initially == Init => IInv
<1> SUFFICES ASSUME Init PROVE IInv
  OBVIOUS
<1>1. NetInv
  BY DEF Init, NetInv
<1>2. CallInv
  BY DEF Init, CallInv, Waiting
<1>3. ResultInv
  BY DEF Init, ResultInv, AnswersCurrentRequest, RttWithinTimeout, OffsetAccurate
<1> QED
  BY <1>1, <1>2, <1>3, TypeInit DEF IInv

LEMMA Invariance == Spec => []IInv
<1>1. IInv /\ [Next]_vars => IInv'
  BY TypeStep, NetStep, CallStep, ResultStep DEF IInv
<1> QED
  BY <1>1, Initially, PTL DEF Spec

\* Every variable keeps its type; in particular the sequence number fits the
\* byte that ClockPacket has for it, and what is learned has valid times.
THEOREM ExchangeTypeCorrect == Spec => []TypeOK
<1>1. IInv => TypeOK
  BY DEF IInv
<1> QED
  BY <1>1, Invariance, PTL

\* ClockClient::receivePacket() believes only the reply to the current request,
\* for any number of requests, duplicates and delays that the network allows.
THEOREM RepliesAreCurrent == Spec => []AnswersCurrentRequest
<1>1. IInv => AnswersCurrentRequest
  BY DEF IInv, ResultInv
<1> QED
  BY <1>1, Invariance, PTL

\* The round trip time of a believed reply is neither negative nor above
\* timeout_, unless the client's clock is set back during the call.
THEOREM RttIsBounded == Spec => []RttWithinTimeout
<1>1. IInv => RttWithinTimeout
  BY DEF IInv, ResultInv
<1> QED
  BY <1>1, Invariance, PTL

\* ClockPacket::getClockOffset() is off by half the round trip at most, rounded
\* up, for any timeout, skew and delays.
THEOREM OffsetIsAccurate == Spec => []OffsetAccurate
<1>1. IInv => OffsetAccurate
  BY DEF IInv, ResultInv
<1> QED
  BY <1>1, Invariance, PTL

-----------------------------------------------------------------------------
(* Refinement *)

\* Every step of the client, the server and the network is a step of Measurement,
\* or none: what is learned is what IInv says of result.
LEMMA MeasurementStep == IInv /\ IInv' /\ [Next]_vars => [M!Next]_(M!vars)
<1> SUFFICES ASSUME IInv, IInv', [Next]_vars PROVE M!Next \/ UNCHANGED M!vars
  BY DEF M!vars
<1> USE DEF IInv, ResultInv, CallInv, Waiting, Leave, client, history
<1>1. CASE SendRequest
  BY <1>1 DEF SendRequest, M!Next, M!Begin
<1>2. CASE SendFails
  BY <1>2 DEF SendFails, M!Next, M!Refuse
<1>3. ASSUME NEW p \in net, ReceiveStale(p) PROVE UNCHANGED M!vars
  BY <1>3 DEF ReceiveStale, M!vars
<1>4. ASSUME call \in {"getPhase", "getValue"}, call' = "idle", result' = Invalid,
             disturbed' = disturbed
      PROVE  M!Fail
  BY <1>4 DEF M!Fail
<1>5. ASSUME call # "idle", call' = "idle", result' # Invalid, disturbed' = disturbed
      PROVE  M!Succeed
  <2>1. /\ [rtt |-> result'.rtt, error |-> result'.error] \in [rtt : Int, error : Int]
        /\ disturbed' \/ M!Accurate([rtt |-> result'.rtt, error |-> result'.error])
    BY <1>5, TimeoutAssumption DEF M!Accurate, TypeOK, Results, OffsetAccurate, RttWithinTimeout, Half
  <2> QED
    BY <1>5, <2>1 DEF M!Succeed, M!Accurate
<1>6. ASSUME NEW p \in net, ReceiveLate(p) PROVE M!Fail
  BY <1>4, <1>6 DEF ReceiveLate
<1>7. ASSUME NEW p \in net, ReceiveReply(p) PROVE M!Fail \/ M!Succeed \/ UNCHANGED M!vars
  <2>1. CASE call = "getValue"
    BY <1>7, <2>1 DEF ReceiveReply, M!vars
  <2>2. CASE call = "getPhase"
    <3>1. call' = "idle" /\ disturbed' = disturbed
      BY <1>7, <2>2 DEF ReceiveReply
    <3> QED
      BY <1>4, <1>5, <2>2, <3>1
  <2> QED
    BY <1>7, <2>1, <2>2 DEF ReceiveReply
<1>8. CASE TimedOut \/ ReceiveFails
  <2>1. /\ call \in {"getPhase", "getValue"} /\ call' = "idle"
        /\ result' = result /\ result = Invalid /\ disturbed' = disturbed
    BY <1>8 DEF TimedOut, ReceiveFails
  <2> QED
    BY <1>4, <2>1 DEF M!Next
<1>9. CASE Sum
  <2>1. result' # Invalid
    <3>1. result \in Results
      BY <1>9 DEF Sum, TypeOK
    <3> QED
      BY <1>9, <3>1, InvalidAssumption DEF Sum, Results, TypeOK
  <2> QED
    <3>1. call = "sum" /\ call' = "idle" /\ disturbed' = disturbed
      BY <1>9 DEF Sum
    <3> QED
      BY <1>5, <2>1, <3>1 DEF M!Next
<1>10. CASE Die \/ Server \/ Tick \/ UNCHANGED vars
  BY <1>10 DEF Die, Server, ServeRequest, ServeAcknowledge, ServeKill, Tick, vars, M!vars
<1>11. CASE SetClock
  <2>1. disturbed \in BOOLEAN
    BY DEF TypeOK
  <2> QED
    BY <1>11, <2>1 DEF SetClock, M!Next, M!Disturb, M!vars
<1> QED
  BY <1>1, <1>2, <1>3, <1>6, <1>7, <1>8, <1>9, <1>10, <1>11 DEF Next, Client, M!Next

\* A call of ClockClient::getPhase() or getValue() is one measurement, as
\* PhaseLockedClock relies on it: accurate, or failed, or disturbed.
THEOREM ImplementsMeasurementSafety == Spec => M!Safety
<1>1. Init => M!Init
  BY DEF Init, M!Init
<1> QED
  BY <1>1, Invariance, MeasurementStep, PTL DEF Spec, M!Safety
=============================================================================
