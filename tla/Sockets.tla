------------------------------ MODULE Sockets ------------------------------
(***************************************************************************)
(* The UDP sockets of ckserver and of programs with a ClockClient:         *)
(* kissnet::udp_socket of ClockKit/kissnet.hpp, as it is used by           *)
(* ClockServer::run() and by ClockClient, and what becomes of the bytes of *)
(* the packets that go through them.  ClockExchange has the timing of      *)
(* these exchanges; here are descriptors, buffers and datagrams, also      *)
(* those of other programs that send something to the server's port.       *)
(*                                                                         *)
(* A datagram that was sent may be received at any time later, any number  *)
(* of times, or never.  A client may be deleted and made again, in the     *)
(* same process; it then has a new port.                                   *)
(***************************************************************************)
EXTENDS Timestamps, FiniteSets

CONSTANTS
    Server,         \* ckserver's host
    Clients,        \* the hosts of clients, one client process on each
    Strays,         \* the hosts of other programs
    Order,          \* Order[h] is the byte order of host h
    ClockOf,        \* ClockOf[h] is the times that host h's clock may return, or usecInvalid
    Timeout,        \* timeout_
    Garbages,       \* what uninitialized buffers may hold
    StrayBytes,     \* StrayBytes[h] is what h may send to the server
    MaxRequests,    \* bound on the requests of one client
    MaxObjects,     \* bounds on how often each client is made
    NoSocket        \* INVALID_SOCKET

Procs == Clients \cup {Server}
Hosts == Procs \cup Strays

\* Bytes: of a packet's type and sequence number, any numbers; of its times, digits.
Octets(bytes) ==
    bytes \in Seq(Nat) /\ \A i \in 3 .. Len(bytes) : bytes[i] \in 0 .. Base - 1

ASSUME SocketsAssumption ==
    /\ MaxRequests \in Nat /\ MaxObjects \in [Clients -> Nat]
    /\ NoSocket \notin Nat /\ Timeout \in Int
    /\ Server \notin Clients \cup Strays /\ Clients \cap Strays = {}
    /\ \A h \in Hosts : Order[h] \in Orders /\ ClockOf[h] \subseteq Int64
    /\ \A h \in Strays : \A b \in StrayBytes[h] : Octets(b)
    /\ \A g \in Garbages : Octets(g) /\ Len(g) = PACKET_LENGTH

VARIABLES
    pc,         \* where each process is
    init,       \* has the process called kissnet_init()?
    sock,       \* the descriptor of the process's socket object
    addrinfo,   \* is its socket_addrinfo there to be used?
    open,       \* the descriptors that the process has open
    bound,      \* is the server's socket bound?
    buffer,     \* the server's buffer
    objects,    \* how often each client was made: its port
    sequence,   \* sequence_
    net,        \* the datagrams sent so far, and all of other programs
    printed,    \* the last acknowledgement that the server printed, if any
    killed      \* history: has a client called die()?

vars == <<pc, init, sock, addrinfo, open, bound, buffer, objects, sequence, net, printed, killed>>
sockets == <<init, sock, addrinfo, open>>
serving == <<bound, buffer, printed>>

Addresses == [host : Hosts, port : Nat]
Datagrams == [from : Addresses, to : Addresses, bytes : Seq(Nat)]

Places == {"no client", "socket()", "bind()", "ready", "select()", "recv()",
           "returned", "exit(1)", "abort()"}

\* The buffer keeps its length, whatever is received into it.
TypeOK ==
    /\ pc \in [Procs -> Places]
    /\ init \in [Procs -> BOOLEAN]
    /\ sock \in [Procs -> Nat \cup {NoSocket}]
    /\ addrinfo \in [Procs -> BOOLEAN]
    /\ open \in [Procs -> SUBSET Nat]
    /\ {bound, killed} \subseteq BOOLEAN
    /\ buffer \in Seq(Nat) /\ Len(buffer) = PACKET_LENGTH
    /\ objects \in [Clients -> Nat]
    /\ sequence \in [Clients -> 0..MaxRequests]
    /\ net \subseteq Datagrams
    /\ printed \subseteq [address : Hosts, offset : Int, rtt : Int, time : [sec : Int, usec : Int]]

ServerAddress == [host |-> Server, port |-> 0]

\* What another program may ever send to the server's port.
FromStray(h) ==
    {[from |-> [host |-> h, port |-> 0], to |-> ServerAddress, bytes |-> b] : b \in StrayBytes[h]}

Init ==
    /\ pc = [p \in Procs |-> IF p = Server THEN "socket()" ELSE "no client"]
    /\ init = [p \in Procs |-> p = Server]
    /\ sock = [p \in Procs |-> NoSocket]
    /\ addrinfo = [p \in Procs |-> FALSE]
    /\ open = [p \in Procs |-> {}]
    /\ bound = FALSE
    /\ buffer \in Garbages
    /\ objects = [c \in Clients |-> 0]
    /\ sequence = [c \in Clients |-> 0]
    /\ net = UNION {FromStray(h) : h \in Strays}
    /\ printed = {} /\ killed = FALSE

-----------------------------------------------------------------------------
(* kissnet *)

Goto(p, place) == pc' = [pc EXCEPT ![p] = place]

\* Mutant: kissnet_error() returns to where the error was.
FatalSurvived(p, next) == Goto(p, IF init[p] THEN next ELSE "abort()")

\* kissnet::error::handle() calls kissnet_error(), or else aborts.  kissnet_init() sets a
\* copy of these variables in its own file, and the linker keeps one handle() of them all,
\* so after kissnet_init() it may be either.
Fatal(p, next) ==
    \E place \in {"abort()"} \cup (IF init[p] THEN {"exit(1)"} ELSE {}) : Goto(p, place)

\* The system's: the smallest descriptor that is free.
NewDescriptor(p) == CHOOSE d \in 1..(Cardinality(open[p]) + 1) :
                        d \notin open[p] /\ \A e \in 1..(d - 1) : e \in open[p]

\* The constructor: getaddrinfo() or every socket() may fail.
Construct(p, next) ==
    /\ pc[p] = "socket()"
    /\ \/ /\ Goto(p, next)
          /\ sock' = [sock EXCEPT ![p] = NewDescriptor(p)]
          /\ open' = [open EXCEPT ![p] = @ \cup {NewDescriptor(p)}]
          /\ addrinfo' = [addrinfo EXCEPT ![p] = TRUE]
          /\ init' = [init EXCEPT ![p] = TRUE]
       \/ Fatal(p, next) /\ UNCHANGED sockets

\* The destructor.
Destroyed(p) ==
    /\ sock' = [sock EXCEPT ![p] = NoSocket]
    /\ open' = [open EXCEPT ![p] = @ \ {sock[p]}]
    /\ addrinfo' = [addrinfo EXCEPT ![p] = FALSE]
    /\ UNCHANGED init

\* sendto() may fail, and then the caller gives up.
Sent(datagrams) == net' \in {net, net \cup datagrams}

Smaller(a, b) == IF a < b THEN a ELSE b

\* Mutant: a long datagram overruns the buffer.
FilledBeyond(buf, bytes) == bytes \o SubSeq(buf, Len(bytes) + 1, PACKET_LENGTH)

\* recvfrom(): the buffer's start is overwritten, and the rest of the datagram is lost.
Filled(buf, bytes) ==
    LET n == Smaller(Len(bytes), PACKET_LENGTH)
    IN  SubSeq(bytes, 1, n) \o SubSeq(buf, n + 1, PACKET_LENGTH)

\* The socket_status of a recvfrom() that did not fail.
Status(received) == IF received = 0 THEN "cleanly_disconnected" ELSE "valid"

\* Mutant: the length isn't checked.
AnyLength(bytes) == Len(bytes) > 0

\* Does the caller take it for a packet?
Whole(bytes) ==
    LET num_bytes == Smaller(Len(bytes), PACKET_LENGTH)
    IN  Status(num_bytes) = "valid" /\ num_bytes = PACKET_LENGTH

\* get_recv_endpoint().address, without the port.
Endpoint(address) == address.host

-----------------------------------------------------------------------------
(* The server *)

Bind ==
    /\ pc[Server] = "bind()"
    /\ \/ Goto(Server, "ready") /\ bound' = TRUE
       \/ Fatal(Server, "ready") /\ UNCHANGED bound
    /\ UNCHANGED <<sockets, buffer, objects, sequence, net, printed, killed>>

\* Receives d, and reads the clock.
Receive(d) ==
    /\ pc[Server] = "ready" /\ bound
    /\ d.to = ServerAddress
    /\ buffer' = Filled(buffer, d.bytes)
    /\ UNCHANGED <<bound, objects, sequence, killed>>

\* The packet in a buffer, if the server may take it for one.
Packet(buf) == ClockPacket(Order[Server], buf)

Reply(d) ==
    \E now \in ClockOf[Server] \ {usecInvalid} :
        LET request == Packet(Filled(buffer, d.bytes))
            reply == [request EXCEPT !.type = REPLY, !.serverReplyTime = now]
            bytes == write(Order[Server], reply)
        IN  /\ pc[Server] = "ready" /\ bound /\ d.to = ServerAddress
            /\ Whole(d.bytes) /\ request.type = REQUEST
            /\ buffer' = bytes
            /\ Sent({[from |-> ServerAddress, to |-> d.from, bytes |-> bytes]})
            /\ UNCHANGED <<pc, sockets, bound, objects, sequence, printed, killed>>

\* updateEntry(), of which AckTable has the rest.
Acknowledge(d) ==
    \E now \in ClockOf[Server] \ {usecInvalid} :
        LET packet == Packet(Filled(buffer, d.bytes))
        IN  /\ Receive(d)
            /\ Whole(d.bytes) /\ packet.type = ACKNOWLEDGE
            /\ printed' = {[address |-> Endpoint(d.from), offset |-> getClockOffset(packet),
                                 rtt |-> rtt(packet), time |-> StringFromTp(now)]}
            /\ UNCHANGED <<pc, sockets, net>>

\* A KILL: run() returns, and its socket is destroyed.
Return(d) ==
    /\ Receive(d)
    /\ Whole(d.bytes) /\ Packet(Filled(buffer, d.bytes)).type = KILL
    /\ Goto(Server, "returned") /\ Destroyed(Server)
    /\ UNCHANGED <<printed, net>>

\* Anything else, or anything at all while the clock is corrupt.  (If nothing is received
\* then nothing changes.)
Ignore(d) ==
    /\ Receive(d)
    /\ \/ usecInvalid \in ClockOf[Server]
       \/ ~Whole(d.bytes)
       \/ Packet(Filled(buffer, d.bytes)).type \notin {REQUEST, ACKNOWLEDGE, KILL}
    /\ UNCHANGED <<pc, sockets, printed, net>>

Run == Bind \/ \E d \in net : Reply(d) \/ Acknowledge(d) \/ Return(d) \/ Ignore(d)

-----------------------------------------------------------------------------
(* Clients *)

AddressOf(c) == [host |-> c, port |-> objects[c]]

FromClient(c, packet) ==
    {[from |-> AddressOf(c), to |-> ServerAddress, bytes |-> write(Order[c], packet)]}

New(c) ==
    /\ pc[c] = "no client" /\ objects[c] < MaxObjects[c]
    /\ Goto(c, "socket()")
    /\ objects' = [objects EXCEPT ![c] = @ + 1]
    /\ sequence' = [sequence EXCEPT ![c] = 0]
    /\ UNCHANGED <<sockets, serving, net, killed>>

Delete(c) ==
    /\ pc[c] = "ready"
    /\ Goto(c, "no client") /\ Destroyed(c)
    /\ UNCHANGED <<serving, objects, sequence, net, killed>>

\* die()
Die(c) ==
    /\ pc[c] = "ready"
    /\ Sent(FromClient(c, NewPacket(KILL, 0, usecInvalid)))
    /\ killed' = TRUE
    /\ UNCHANGED <<pc, sockets, serving, objects, sequence, printed>>

\* getPhase(), as far as select().
Request(c) ==
    /\ pc[c] = "ready" /\ sequence[c] < MaxRequests
    /\ sequence' = [sequence EXCEPT ![c] = @ + 1]
    /\ \E now \in ClockOf[c] : Sent(FromClient(c, NewPacket(REQUEST, sequence[c] + 1, now)))
    /\ Goto(c, IF net' = net THEN "ready" ELSE "select()")
    /\ UNCHANGED <<sockets, serving, objects, killed>>

Inbox(c) == {d \in net : d.to = AddressOf(c)}

\* select() is interrupted, times out, or finds a datagram.
Select(c) ==
    /\ pc[c] = "select()"
    /\ \/ Goto(c, "ready")
       \/ Inbox(c) # {} /\ Goto(c, "recv()")
    /\ UNCHANGED <<sockets, serving, objects, sequence, net, killed>>

InTime(packet) == rtt(packet) # usecInvalid /\ rtt(packet) <= Timeout

\* receivePacket(), after select(): a packet that is not the reply is ignored.  An error fails
\* the call, and so does a reply that came too late, or that was timed with a corrupt clock.
\* Then getPhase() may acknowledge.
Recv(c) ==
    /\ pc[c] = "recv()"
    /\ \/ Goto(c, "ready") /\ UNCHANGED net
       \/ \E d \in Inbox(c), now \in ClockOf[c] :
            LET packet == ClockPacket(Order[c], d.bytes)
                answer == [packet EXCEPT !.type = ACKNOWLEDGE, !.clientReceiveTime = now]
            IN  /\ Whole(d.bytes)
                /\ IF packet.sequenceNumber # sequence[c] \/ packet.type # REPLY
                   THEN Goto(c, "select()") /\ UNCHANGED net
                   ELSE /\ Goto(c, "ready")
                        /\ IF InTime(answer) THEN Sent(FromClient(c, answer)) ELSE UNCHANGED net
    /\ UNCHANGED <<sockets, serving, objects, sequence, killed>>

Client(c) == New(c) \/ Delete(c) \/ Die(c) \/ Request(c) \/ Select(c) \/ Recv(c)

-----------------------------------------------------------------------------

Make(p) ==
    /\ Construct(p, IF p = Server THEN "bind()" ELSE "ready")
    /\ UNCHANGED <<serving, objects, sequence, net, killed>>

Next ==
    \/ Run
    \/ \E p \in Procs : Make(p)
    \/ \E c \in Clients : Client(c)

Spec == Init /\ [][Next]_vars

-----------------------------------------------------------------------------
(* Safety *)

\* Whoever calls bind(), recvfrom(), select() or sendto() has a socket that is open and an
\* address to use, although errors are not checked for after the constructor: a fatal
\* error ends the program.  And sockets that are gone leave no descriptor open.
SocketsUsable ==
    /\ \A p \in Procs :
         pc[p] \in {"bind()", "ready", "select()", "recv()"} => sock[p] \in open[p] /\ addrinfo[p]
    /\ pc[Server] = "ready" => bound
    /\ \A p \in Procs : open[p] \subseteq {sock[p]}

ValidTimes(h) == ClockOf[h] \ {usecInvalid}

\* The server replies to a host, or prints of a host, only what that host sent, and the
\* time when it got that: though it has one buffer for all packets, though hosts have
\* different byte orders, whatever else arrives, and though a host may send it a request
\* of which it doesn't know the time, for no offset comes from a time that isn't valid.
AttributedRight ==
    /\ \A d \in net : d.from = ServerAddress =>
         LET packet == ClockPacket(Order[d.to.host], d.bytes)
         IN  /\ packet.type = REPLY
             /\ packet.clientRequestTime \in ClockOf[d.to.host]
             /\ packet.serverReplyTime \in ValidTimes(Server)
    /\ \A e \in printed :
         /\ e.offset \in {s - c : s \in ValidTimes(Server), c \in ValidTimes(e.address)}
         /\ e.time.sec * Million + e.time.usec \in ValidTimes(Server)

\* The server's program ends by itself only if a client killed it, even when other
\* programs send it something that begins like a KILL.
EndsByKill == pc[Server] = "returned" => killed
=============================================================================
