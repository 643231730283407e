----------------------------- MODULE MCSettings -----------------------------
(* An instance of Settings for TLC. *)
EXTENDS Settings, TLC, SequencesExt

\* With an unsigned of 8 bits: in range, at each limit, beyond it, and negative.
SomeNumbers == {-3, 0, 1, 15, 20, 127, 128, 255, 258}

SomeLines ==
    {[key |-> k, value |-> 0] : k \in {"blank", "comment", "unparsable"}}
        \cup {[key |-> "server", value |-> v] : v \in {"a", "b"}}
        \cup {[key |-> "port", value |-> n] : n \in SomeNumbers}
        \cup {[key |-> "timeout", value |-> n] : n \in SomeNumbers}
        \cup {[key |-> "phasePanic", value |-> n] : n \in {-3, 255}}
        \cup {[key |-> "updatePanic", value |-> n] : n \in {20, 258}}

SomeFiles == BoundedSeq(SomeLines, 3)

SomeDefault == [server |-> "localhost", port |-> 4, timeout |-> 5, phasePanic |-> 6,
                updatePanic |-> 100]
=============================================================================
