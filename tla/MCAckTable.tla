----------------------------- MODULE MCAckTable -----------------------------
(* Instances of AckTable for TLC. *)
EXTENDS AckTable

CONSTANTS c1, c2, a1, a2

TwoClients   == {c1, c2}
TwoAddresses == {a1, a2}

OwnAddress  == [c \in TwoClients |-> IF c = c1 THEN a1 ELSE a2]
SameAddress == [c \in TwoClients |-> a1]

SomeOffsets == {-2, 0}
SomeRtts    == {-3, 3}
=============================================================================
