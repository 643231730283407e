--------------------------- MODULE MCFrequencyLock ---------------------------
(* An instance of FrequencyLock for TLC. *)
EXTENDS FrequencyLock

\* Half too slow, and half too fast.
SomeFrequencies == {1, 3}

\* Forward, and back by as much as goes by from one update to the next.
SomeOffsets == {0, -5}

\* Back by just the time of one update.
BackByOne == {0, -1}

\* Too early or too late.
SomeErrors == {-1, 1}
=============================================================================
