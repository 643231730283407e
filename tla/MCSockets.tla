----------------------------- MODULE MCSockets -----------------------------
(* An instance of Sockets for TLC. *)
EXTENDS Sockets

CONSTANTS s, c, d, x      \* hosts

SomeOrder == (s :> "little endian") @@ (c :> "big endian") @@ (d :> "little endian")
             @@ (x :> "little endian")

\* No two hosts have a valid time in common, even if its bytes are reversed.  The server's clock and a
\* client's may be corrupt; another client's reply may come in time, too late, or before its
\* request because the client's clock is set back.
SomeClocks == (s :> {6, usecInvalid}) @@ (c :> {1, usecInvalid}) @@ (d :> {-6, -5}) @@ (x :> {3})

\* Zeros, or the like of a REQUEST.
SomeGarbages == {[i \in 1..PACKET_LENGTH |-> b] : b \in {0, REQUEST}}

\* Nothing, one byte like a REQUEST's or a KILL's first, and a REQUEST with a byte too many.
SomeStrayBytes ==
    x :> {<<>>, <<REQUEST>>, <<KILL>>, write(Order[x], NewPacket(REQUEST, 1, 3)) \o <<0>>}

\* Each client is made once, and may be deleted.
SomeMaxObjects == (c :> 1) @@ (d :> 1)
=============================================================================
