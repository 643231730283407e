# ClockKit in TLA+

ClockKit keeps the clocks of several hosts within a fraction of a millisecond of
a server's clock. Each client asks the server for the time over UDP, measures how
far its own clock is off, and steers a clock of variable frequency until the two
agree. This directory has TLA+ specifications of that code, the TLC runs that
check them on small instances, and theorems that TLAPS proves for all instances.

    tlc -config plc_one.cfg MCPhaseLockedClock     # likewise for every .cfg, see "Runs"
    tlapm PhaseLockedClockProofs.tla               # likewise the other modules named ...Proofs

## Inventory

| component | state | operations | talks to |
|---|---|---|---|
| `PhaseLockedClock` | `inSync_`, the current and previous sample (`phase_`, `variableValue_`, `primaryValue_`), `primaryFrequencyAvg_`, `updatePrev_`; the process-wide `mutexPLC` | `run()` in a thread of its own: `update()` every 0.2 s; `getValue()`, `getOffset()` from other threads | its vfc, the reference clock, the primary clock |
| `VariableFrequencyClock` ("vfc") | `frequency_`, `marker_`, `markerSrc_`, `rolledOver_` | `getValue`, `setValue`, `setFrequency` | the primary clock |
| `ClockClient`, the reference clock | `sequence_`, `rtt_`, `timeout_`, `acknowledge_`, a socket | `getPhase(clock)`, `getValue()`, `die()` | the server, by UDP; the clock it measures |
| `ClockServer` | `ackData_`, `tRecalculated_` | `run()`: answers REQUEST, records ACKNOWLEDGE, stops at KILL | clients, by UDP |
| `ClockPacket`, `Timestamp` | none | round trip time, offset; times as bytes and as text | |
| `SystemClock`, the primary clock | none | `getValue()` | the host |
| C API (`clockkit.cpp`) | one clock `plc`, its client `cli`, one thread, `end_clocks`; exit handlers | `ckInitialize`, `ckTerminate`, `ckKill`, getters | all of the above |
| programs (`PhaseLockMain`, `ClockServerMain`, `test-standalone`) | clocks, clients, threads, `end_clocks` | start, print, end, join, delete | the clocks; the server, by KILL |
| `ConfigReader` | settings | `readFrom()`, `buildClock()` | a file; the clocks it builds |
| kissnet's `udp_socket` | a descriptor, an address | construct, bind, send, receive, select, destroy | the system; an error handler |
| language bindings | none | call the C API | |
| `SmartEyeDLL`, `simulation`, unit tests | | legacy, prototype, tests | |

What is hard about it:

- **threads**: an updater for each clock, and readers, share one mutex; `inSync_`
  and `phase_` are read and written without it;
- **failures**: the reference clock may not answer, the primary clock may step back
  or fail, a thread may be delayed for seconds. Invalid times are in-band values
  that must not get into arithmetic;
- **messages**: UDP loses, duplicates, delays and reorders packets; one byte of
  sequence number tells replies apart;
- **lifetimes**: clocks refer to clients, threads refer to clocks, and scripts may start and
  stop them in any order;
- **numbers**: a quotient of two measured differences, integers that pass through several
  types, bytes in two orders;
- **time**: timeouts that are restarted, a round trip measured by a clock that may
  be set meanwhile, halving that rounds.

What makes each part correct:

- `PhaseLockedClock`: "in sync" is a claim that the vfc was set from and measured
  against the reference; it must be withdrawn when that no longer holds, regained
  when it can be, and until then a reader must get "invalid" rather than a wrong time;
- `VariableFrequencyClock`: it is valid, or says that it is not, until it is set again; until
  then its time goes neither back, nor forward faster than the frequencies it was given;
- `ClockClient`: it believes only the reply to its current request, the offset
  is as accurate as the round trip allows, and it returns;
- `ClockServer`: it answers each request with its own time; its maximum offset
  covers every connected client;
- C API and programs: what is started ends, and nothing is used after it is deleted;
- `ConfigReader`: a clock is built as the whole file says, or not at all;
- sockets: open where they are used, closed when they are gone, and what arrives in them is
  taken for a packet of whoever sent it.

## Modules

| module | models |
|---|---|
| `PhaseLockedClock` | `PhaseLockedClock.cpp`, and when the time of `VariableFrequencyClock.cpp` is valid or wrong |
| `FrequencyLock` | the numbers of both |
| `ClockExchange` | `ClockClient.cpp`, the message loop of `ClockServer.cpp`, the arithmetic of `ClockPacket.h` |
| `Measurement` | the abstract specification of a call to the reference clock |
| `AckTable` | `updateEntry()` of `ClockServer.cpp` |
| `Updaters` | the abstract specification of the threads in `run()` |
| `Programs` | `clockkit.cpp`, `PhaseLockMain.cpp`, `test-standalone.cpp` |
| `Timestamps` | `Timestamp.cpp`, `ClockPacket.cpp` |
| `Sockets` | what `kissnet.hpp` does for `ClockServer.cpp` and `ClockClient.cpp` |
| `Settings` | `ConfigReader.cpp`, and the numbers of `ClockServerMain.cpp` and of `ClockClient.h`'s timeout |
| `MC...` | their instances for TLC |
| `...Proofs` | their theorems |

How they fit together:

                       Programs
                          | instantiates
                       Updaters
                          | implemented by
        FrequencyLock .. PhaseLockedClock            Settings
                          | relies on
                      Measurement
                          | implemented by
         AckTable .. ClockExchange .. Sockets -- Timestamps
                                              extends

`Programs` has its updater threads from `Updaters` (`U == INSTANCE Updaters`), and
`PhaseLockedClock` implements `Updaters` under the refinement mapping that
forgets where in `update()` a thread is: so what is shown of the programs holds of threads
that do what `PhaseLockedClock.cpp` does.

`PhaseLockedClock` knows of `referenceClock_.getPhase(vfc)` and `referenceClock_.getValue()`
only that they take a while (`MeasureBegin` to `MeasureEnd`, `ResetBegin` to `ResetEnd`)
and return a phase or `Invalid`. `Measurement` is the contract, with how good the phase
is, and `ClockExchange` implements it over a network. `ReferenceExclusive` is what lets
`ClockExchange` have one call at a time. `FrequencyLock` takes its `Errors` from that contract.

`AckTable` and `Sockets` have other aspects of what `ClockExchange` describes
(what the server makes of an ACKNOWLEDGE; descriptors, buffers and bytes). Nothing in the
exchange depends on them, so they stand alone. `Settings` ends where the clock is built.

### PhaseLockedClock

`pc[c]` says where the thread of clock `c` is; a step ends where another thread could
observe or disturb it: at the mutex, at a blocking call, and between reads and
writes of shared members.

| code | actions |
|---|---|
| `run()`'s loop | `Running`, `RunEnd`; its sleep is `pc = "sleep"` |
| `update()`, lines 69-85 | `UpdateBegin` |
| `updateClock()` | `PhaseLost`, or `PhaseKept` (with `NextAverages`) and then `setFrequency()` under the mutex: `AdjustBegin`, `AdjustEnd` (with `Frequencies`) |
| `setClock()` | `SetClock` (sets `inSync_`), `ResetBegin` (the mutex), `ResetEnd` (`setValue`) |
| `updatePhase()` | `MeasureBegin`, `MeasureEnd`, `ReadClocks` under the mutex, then `MeasurementLost` or `Record` |
| `updatePrev_ = primaryValue()` | `Stamp` |
| `getValue()` | `GetValueBegin` (the check), `GetValueEnd` (the guard and the vfc) |
| `getOffset()` | `GetOffsetBegin`, `GetOffsetEnd` |
| `main()`'s `end_clocks`, `join()` | `EndClocks`, `Joined` |

Clock values are abstracted to what the control flow tells apart. A vfc's marker is
`"zero"` (still counting from 0), `"locked"` (within `phasePanic_` of the reference),
`"adrift"` or `"invalid"`; its source marker is `"past"`, `"future"` (the primary
clock has stepped back behind it) or `"invalid"`. A phase is a number that is
large exactly if the vfc is not locked. Left out is
`updatePhase()`'s first early return, which is never taken: `update()` calls it only in sync.

Frequencies are abstracted too, because a wrong one is what keeps a clock from getting back in
sync. The vfc's is `"settled"` (it stays within `phasePanic_` of the reference from one update
to the next), `"off"` (it does not, but stays so while it is measured) or `"garbled"`: infinite,
NaN, or so far off that a reading may be any wrong time. `average` is `primaryFrequencyAvg_`:
how many good estimates it still takes until the frequency made of it is settled (0 to
`MaxError`), or `Infinite`, or `NaN`. An estimate rests on two samples, so one that has not two
good samples in a row to it may leave any average behind, infinite and NaN among them: after a
resync, a step of either clock, or a reading of a garbled vfc. A good estimate brings the
average closer by one, which stands for the factor 0.9 per update of the filter. From an
infinite average it makes NaN, and NaN stays. `AdjustBegin` may find the frequency nonpositive,
and ignore it, unless it is settled or NaN, which is not `<= 0.0`. `setValue()` keeps the
frequency, as in the code; so a vfc that is off drifts past `phasePanic_` again between updates,
even in steady times. The numbers themselves, and when the average gets infinite, are in
`FrequencyLock`. This takes a settled control loop to be stable: with exact estimates, a phase
within `phasePanic_` is corrected and not made larger. The code adds a tenth of the phase (in
us) to the frequency (in Hz), so that 0.2 s correct a fiftieth of it; and for a `phasePanic`
below 10 s the sum is positive. "Steady" means that the errors of measurements are small against
`phasePanic_`.

The environment may, unless `Disturbances` forbids it, let clocks drift apart, delay a
thread beyond `updatePanic_`, set the primary clock back, and make it return an
invalid time. (`SystemClock` never does the last; the code takes any `Clock` and checks.)
`Settle` ends all that, once and for all, so that liveness can say "from then on".

`inSync_` and `phase_` are plain members that two threads use without a common lock:
a data race. They are modelled as atomic reads and writes in program order. That
is what a 64-bit build does: both are aligned words, and every access in
`update()` and its callees is separated from the next by an opaque call (the clock,
the mutex, the socket), across which a compiler may not keep a member in a register.

### ClockExchange

Time is the server's, in microseconds. The clock given to `getPhase()` reads
`now + skew`, so that a perfect offset is `-skew`; `result.error` is how far the
computed one is from that. `SetClock` changes `skew` at any time, in either direction.

| code | actions |
|---|---|
| `getPhase()`, `getValue()`, sending | `SendRequest`, `SendFails` |
| `receivePacket()` | `ReceiveStale`, `ReceiveLate`, `ReceiveReply`, `TimedOut`, `ReceiveFails` |
| `getPhase()`, the ACKNOWLEDGE | part of `ReceiveReply` |
| `getValue()`, after `getPhase()` | `Sum` |
| `die()` | `Die` |
| `ClockServer::run()` | `ServeRequest`, `ServeAcknowledge`, `ServeKill` |
| the network | `Arrives`, `Answered`: packets are a set, taken in any order, at any time, once or again |

A packet that never arrives is lost; there is no separate action for that. A
packet is lost at the latest when `MaxLag` more requests have been sent, and
`MaxLag < SeqModulus`. Without this assumption, a reply that is late by exactly
250 requests would be taken for the current one (50 s at one request per 0.2 s).
The server's clock and the client's run at the same rate during a call; what they
part by then counts as `SetClock`.

### AckTable

A server with `log_` set records each acknowledgement under its client's address, at
most every 500 ms purges what is older than 1500 ms and prints the maximum of the
clients' errors, `|offset| + rtt / 2`. All of `updateEntry()` is one action,
`Acknowledge`, because the server has one thread. `lastAck` is the history of what each
*client* said, and the table is by *address*: comparing the two is the point of
`OffsetMaxCovers`. The server's clock may be set back (`SetBack`). Acknowledgements with
invalid times are left out: `ClockExchange` shows that clients send none (a
believed round trip time is an integer).

### FrequencyLock

One clock, with numbers. Time is counted in ticks of the primary clock. A step ends between any
two stores of the vfc, and time may pass there.

| code | definitions |
|---|---|
| `VariableFrequencyClock::getValue()` | `Values`, what it may return, and `AfterRead`, what it leaves behind |
| `setValue()` | `SetMarker`, `SetSource`, a store each |
| `setFrequency()`, `updateMarkers()` | `Fetch`, `SetMarker`, `SetSource`, `Change`, and the same again |
| `updateClock()` | `Estimate`: `referenceElapsed`, `ticks`, `NextAverage`, `NextFrequencies` |
| `setClock()`, `run()`'s sleep | `Reset`, `Wake` |
| `updatePhase()` | `Measure` (the phase), `ReadVariable` (line 105), `ReadPrimary` (lines 106-144): time may pass between any two |
| `update()`'s and `updateClock()`'s loss of sync | `LoseSync`: with `updatePanic_`, `Reset` follows at once; with a large phase, at the next update |
| `PhaseLockedClock::getValue()` | `Read` |
| somebody sets a clock | `Set` |

The average is floating point: what matters of it is whether it is finite, infinite or NaN. As
long as it is finite, the frequency that is computed from it may be any of
`Frequencies`, or nonpositive (0 stands for those, which are ignored); so the properties hold
for whatever constants the control loop may have. When and why sync is lost is
`PhaseLockedClock`'s; here it may happen in any update. A sample's `lag` and `gap` are history: the ticks that
went by between the reply and the vfc's reading, and between that and the primary clock's. They share
the bound `MaxLag`.

### Programs

Three programs in one module, because they share the life of a clock: built with its client,
given to a thread, deleted. `script` is any sequence of API calls, as the
bindings make it; `ckphaselock` and `standalone` are the two `main()`s. Every `new` makes a new clock,
so a pointer to a deleted one is recognized. `ckTerminate()` is two steps
(`DeletePlc`, `DeleteCli`), between which updaters run. `atexit()` registers a handler per
`ckInitialize()`, each of which starts a thread (`StartUpdater`); that a script may be killed by a signal at any moment, without any
handlers, is `Sigterm`. KILL packets are lost by `LoseKill`. `Segfault` is what an update of a
deleted clock may do; it may also seem to work. `Hang` is `th_server.join()` with
no KILL left.

### Updaters, Measurement

The two contracts, and no more than their users rely on. `Updaters`: by turns, a thread updates and
sleeps; it returns only when `end_clocks` is set, and then it does. `Measurement`: a
call that was not disturbed returns a phase that is off by no more than half the round
trip, or none, and every call returns.

### Timestamps, Sockets

`Timestamps` are operators: an `int64_t` as bytes in a host's memory, `REORDER`, the fields
of a packet in a buffer, `StringFromTp()`. `Sockets` has the processes, each with its
`udp_socket`: the descriptor that the constructor gets (`Construct`), the
destructor (`Destroyed`), bind, select, send and receive, each of which may fail, and the
error handler (`Fatal`). kissnet keeps that handler in variables that are static, one copy in each
object file, while the inline function that calls it is one for all: which copy it sees
depends on the linker. So after `kissnet_init()` a fatal error either exits or aborts; it
never returns, which is what `SocketsUsable` needs. The server's one `buffer` begins
with anything, and keeps what a shorter datagram doesn't overwrite. A client's clock may return an
invalid time, as a vfc does: `Recv` refuses a reply whose round trip is invalid or longer than `Timeout`
(`InTime`), so that it is not acknowledged. Other
programs (`Strays`) may send it anything.

### Settings

`file` is read line by line into `config` (`Set`, `Skip`, `Fail`), then `Build` makes a
`client` of it. Each number passes through the types it has in the code: `%u`, `unsigned`, `int`,
`port_t`, milliseconds, a `timeval`; `ServerPort` is the other way to the same port,
through `strtol()` and `int`. `Wait` is what `select()` is told in the end.

## Runs

| run | instance | shows | distinct states |
|---|---|---|---|
| `plc_one` | 1 clock, 1 reader, all disturbances, phases at the limit and beyond it on either side, an average that is at most one good estimate off, or infinite, or NaN | `SamplesValid`, `SyncIsEarned`, `UnsetClockIsInvalid`, `SteersByFreshPhase`, `VfcGuarded`; and, under fairness, `PanicLosesSync`, `Converges`, `RunEnds` | 315 thousand |
| `plc_two` | 2 clocks, 1 reader, no disturbance but lost packets | `ReferenceExclusive`; under fairness, `CallsReturn`, and that `Updaters` is implemented | 84 thousand |
| `exchange` | 3 requests, 1 duplicate, timeout 3 us, sequence numbers modulo 2 | `AnswersCurrentRequest`, `RttWithinTimeout`, `OffsetAccurate`; under fairness, `CallReturns`, and that `Measurement` is implemented | 1.6 million |
| `acks` | 2 clients on 2 hosts, 4 units of time; recalculating after 1, purging after 2 | `OffsetMaxCovers`, `EntriesRecent`, `Refreshed` | 156 thousand |
| `programs` | 2 clocks, 3 threads | `PointersValid`, `OneUpdater`, `CleanExit`, `MainsUpdateLiveClocks`, `ServesToTheEnd`; under fairness, `ProgramEnds`, `UpdatesGoOn` | 82 thousand |
| `frequency` | frequencies of 1/2 and 3/2, errors of 1 tick either way, delays between the readings of a sample, 1 clock set once | `EstimateSound`, `NeverBack`, `NeverJumps` | 7.2 million |
| `sockets` | a server, 2 clients, another program; 1 client of the other byte order; bytes of 4 values, times of 2 bytes, clocks that may be invalid | `SocketsUsable`, `AttributedRight`, `EndsByKill` | 132 thousand |
| `settings` | all files of up to 3 lines out of 27, with an `unsigned` of 8 bits and ports of 4 | `BuiltAsConfigured`, `WaitsInTime` | 136 thousand |
| `plc_epoch` | as `plc_one`, no disturbance | `TimeIsEpochTime` fails | |
| `acks_shared` | as `acks`, but on 1 host | `OffsetMaxCovers` fails | |
| `programs_deleted` | as `programs` | `UpdatesLiveClock` fails | |
| `frequency_nan` | exact measurements, no frequency but 1, the reference set back once | `KeepsLocked` fails | |

Every module also has its type invariant checked, in the first run of it (`Settings` has none
of its own: `BuiltAsConfigured` says what every field is).

Why the bounds are enough. One clock meets every disturbance in every state. Two are
needed only for what they share: the mutex and the reference. Phases come at the limit and
beyond it, on both sides. With `MaxError` = 1, an average can be settled, off, or not finite; a larger
bound only makes the way back longer. In `exchange`, sequence numbers wrap around at 2, so three
requests wrap them; packets may then be as late as the assumption allows
(`MaxLag` = 1). A timeout of 3 us is not a whole number of milliseconds (of 2 us
here), so `select()` gives up earlier than `timeout_`, and a stale packet lets a reply
be later than it. Skews of -1 and 1 let the clock be set forward and back; round trips
are odd and even. `MaxTime`, `MaxRequests` and `MaxDups` bound the state space; the
theorems do not depend on them. In `acks`, 4 units of time are more than both delays
together, so a client can be recorded, fall silent, be purged and come back.

In `programs`, two clocks let a script delete one and build another while a thread still has the
first; the third thread is for a second `ckInitialize()`. The clock that is built after
`ckTerminate()` is the case of `UpdatesGoOn`. In `frequency`, 4 ticks are enough for five
updates, losses of sync and resets among them, and reads before, between and after; 5 ticks back
are more than all of that, so that a clock may be set to before any marker. `frequency_nan`
needs four updates in a row, but no choice of frequencies or errors. In `sockets`, no two hosts
have a time in common, nor one that reads like another's when its bytes are reversed, so
whatever is attributed to the wrong host, or read in the wrong order, is noticed; the clocks of
the server and of a client may be corrupt, and the server's buffer begin with a packet's first
byte. Each client is made once; that a client is made again after its socket is destroyed is
only in the theorem `SocketsAreUsable`. `Timeout` is 0, so a reply is believed or too late. In
`settings`, three lines are enough to replace a setting and then fail; numbers come at, above
and below the limit of each type, and negative, for every key: a `port` may not hold what an
`unsigned` does.

### Fairness

- `PhaseLockedClock`: an updater that is again and again able to go on does (`SF`).
  It needs strong fairness only for the mutex, which others take in between. Updaters sleep
  190 ms or more between updates, and never with the mutex, so a waiting
  thread gets it. For the same reason, a reader in `getValue()` gets it (`SF_vars(GetValueEnd(r))`).
  No reader is obliged to call, no clock to misbehave, and the program need not end.
- `ClockExchange`: time goes on, `select()` returns when its time is up, and
  `getValue()` proceeds. No packet is obliged to arrive. `CallReturns` relies on stale
  packets being finitely many: each makes `receivePacket()` wait the full timeout
  again, and each is used up.
- `Updaters`, `Measurement`: weak fairness of going on. Both are implemented: the runs `plc_two` and
  `exchange` check the contracts with their fairness.
- `Programs`: main threads go on, once `end_clocks` is set; so do updaters (`Updaters`' fairness),
  exit handlers, and packets, which arrive or are lost. No script need end, nor any loop that
  has no duration, and no KILL need arrive.

The other modules have safety properties only, and no fairness.

### What the failing runs show

- `plc_epoch`: `setClock()` sets `inSync_` before it has the mutex. A reader that then
  calls `getValue()` may get the mutex first, and returns the time of a vfc
  that still counts from 0, as if it were valid. `clockkit.cpp` calls that
  value "usec since the Unix epoch".
- `acks_shared`: the table is keyed by address without port, so of two clients on one host
  only the one heard of last counts, although the code's comment says "all currently connected
  clients". `testcase-n.sh` runs several clients on one host, all of which acknowledge. (In
  `test-standalone.cpp`, what asks for that is compiled out.)
- `programs_deleted`: `ckTerminate()` deletes the clock and its client while the updater
  thread is in `run()`: nothing in `clockkit.cpp` sets `end_clocks` or joins the thread. With an
  address sanitizer the program stops in `update()`, soon after `ckTerminate()`. The programs
  that have a `main()` of their own set the flag, and join: `MainsUpdateLiveClocks`.
- `frequency_nan`: `updateClock()` divides by `referenceElapsed`. That is 0 if the reference
  clock was set back by just the time since the previous sample. The average frequency is then
  infinite and, after the next update, NaN for good; `setFrequency()` ignores what is
  `<= 0.0`, but NaN is not. The clock goes on claiming to be in sync, and its time is what
  the processor converts NaN to. No reset helps: `setValue()` leaves the frequency alone.

More that the modules say and a reader of the code might not expect:

- A clock may fail to get back in sync though the network and the clocks behave. `Converges` excepts
  a vfc whose frequency is garbled again and again. That is so for good with NaN (`frequency_nan`), and may be so
  with a finite frequency: a reset keeps it, the phase that is measured next is large, and so the update after it
  only loses sync, instead of setting a better frequency.
- A phase beyond `phasePanic_` loses sync only at the *next* update, 0.2 s later, so
  "in sync" does not mean "within `phasePanic_`": `PanicLosesSync` is a liveness property.
- `updatePanic_` is only ever compared by the updater itself, so readers of a
  clock whose updater hangs still get its time.
- `getOffset()` returns the last phase, even while `setClock()` and the first measurement after
  it are under way: it may be one of the vfc before it was reset, or the constructor's 0.
- `getErrorBound()` rounds half the round trip down. After an odd one
  the offset may be off by 1 us more. `OffsetAccurate` states what does hold.
- After the server's clock is set back, `offsetMax` is not recalculated
  until the clock has caught up with `tRecalculated_`. `Refreshed` states what does hold.
- `cktest-standalone` hangs if all KILLs are lost: `ProgramEnds` excepts just this. A KILL
  that is sent before the server has bound its port is lost.
- The exit handlers of `clockkit.cpp` run when a process ends by itself, but not when a signal
  ends it. A second `ckInitialize()` starts a second updater of the same clock (`OneUpdater`).
- A datagram that is too long is cut to a packet's length and then taken for one.
- `select()` may find a datagram that `recvfrom()` then doesn't (a wrong checksum), and the
  client would wait without a timeout. `Sockets` lets `recvfrom()` fail there instead.
- A port beyond 65535 means another port, and the same one to clients and servers. But
  `ckserver` also takes octal and hexadecimal numbers (`strtol()` with base 0), and `%u` doesn't.

## Theorems

All but `PacketsSurvive` are about `Spec`, for any values of the constants that meet the modules'
assumptions: any set of clocks and readers, any `phasePanic_`, any timeout, modulus,
lag and skews, any number of requests and packets, any frequencies, any number of threads,
any bytes, any widths of integers, any config files. Every invariant and every action property
of the passing runs is proved.

| theorem | says |
|---|---|
| `TypeCorrect`, `SamplesAreValid`, `SyncEarned`, `UnsetIsInvalid`, `SteeringFresh`, `ReferenceIsExclusive`, `VfcIsGuarded` | `[]` of each safety property of the runs `plc_one` and `plc_two` |
| `ImplementsUpdatersSafety` | `PhaseLockedClock` implements the safety part of `Updaters` |
| `ExchangeTypeCorrect`, `RepliesAreCurrent`, `RttIsBounded`, `OffsetIsAccurate` | `[]` of each safety property of the run `exchange` |
| `ImplementsMeasurementSafety` | `ClockExchange` implements the safety part of `Measurement` |
| `AckTypeCorrect`, `OffsetMaxIsExact`, `TableIsRecent`, `IsRefreshed` | each safety property of the run `acks`; the second one assumes `OwnAddresses`, that no two clients share an address |
| `ProgramsTypeCorrect`, `PointersAreValid`, `UpdatersAreAlone`, `ExitIsClean`, `MainsOutliveUpdaters`, `ServerOutlivesLoop` | `[]` of each safety property of the run `programs` |
| `ClocksHaveUpdaters` | every live clock has a thread that was started for it and has not returned, until `end_clocks` is set: what `UpdatesGoOn` needs for safety |
| `FrequencyTypeCorrect`, `TimeNeverGoesBack`; `EstimateIsSound`, `TimeNeverJumps` | `[]TypeOK`, `NeverBack`, `[]EstimateSound` and `NeverJumps` of the run `frequency`; the latter two are in `FrequencyBoundsProofs` |
| `SocketsTypeCorrect`, `SocketsAreUsable` | `[]TypeOK` and `[]SocketsUsable` of the run `sockets` |
| `ServerEndsByKill` | `[]EndsByKill`, if `StraysDontKill` |
| `AttributionIsRight` | `[]AttributedRight`, if `StraysSendTheirOwn`, `TimesBetween` and `TimesFit` |
| `PacketsSurvive` | `write()` and the constructor from bytes are inverses, for hosts of either byte order |
| `ClocksAreBuiltAsConfigured`, `ClientsWaitInTime` | `[]` of each property of the run `settings` |

**PhaseLockedClock.** Mutual exclusion is `MutexInv`: a thread in its critical
section is the one that `mutexPLC` names. `ReferenceExclusive` and `VfcGuarded`
follow from it. The properties about sync need more, because they hold only between
updates, while sync is claimed before it is earned: the strengthening says, for each place
in `update()`, what the vfc rests on and what was checked so far, and that what
`MeasureEnd` and `ReadClocks` found valid was found on this vfc. The proofs have
one step per action. For `Updaters`, each step is shown to be one of its steps or a
stutter, from types alone.

**ClockExchange.** The invariant is `IInv`.

- `Recent`: a packet's sequence number is `sequence` less the number of requests sent since,
  modulo `SeqModulus`, and that number is at most `MaxLag`. As `MaxLag < SeqModulus`,
  equal sequence numbers mean the current request: `AnswersCurrentRequest`.
- `Timed`: what a current packet says about time. The client's stamp is not later than
  its clock was when it sent the request; the server's is between then and now.
- The lemma `Accuracy` is Cristian's algorithm: from these two bounds, the
  offset is off by no more than half the round trip. A clock that is set
  forward only lengthens the round trip; one that is set back voids the bounds, and
  `disturbed` remembers it.

`OffsetAccurate` also holds after `Sum`, when `getValue()` has read its clock once more,
because the phase is a property of the clocks and not of the moment. `Measurement`'s
`Succeed` needs just that, and the bound on the round trip, of the step that returns.

**AckTable.** `TableInv`: a client's entry is its last acknowledgement, or it was
purged because that is older than `PurgeAfter` at the last recalculation, hence also at the
next one, since `Due` lets that happen only later by the server's clock. That is why
setting the clock back does no harm here. `ForwardInv` is about a clock that goes forward
only: how old entries are, and how long ago the last recalculation was.

**Programs.** What `main()` owns depends on where it is (`OwnerInv`): everything it built, until
its updaters have returned; then clocks go before clients, and none is left at the end.
`HandlerInv`: as long as there is a clock in the API, some exit handler is left to delete it;
and `ckTerminate()` has cleared `plc` before it deletes `cli`. `KillInv`: there is no KILL
before `end_clocks`. `Given` and `ReturnInv`: every clock was given to a thread, and no thread
returns before `end_clocks`; with what a script's threads are, `ClocksHaveUpdaters` follows.
With these, the safety properties are inductive together. Most steps move one thing, and leave
what the other conjuncts are about as it is: that is said once for each conjunct (`KeptFacts`,
`KeptInv`), and a step's proof names only what it moves.

**FrequencyLock.** A reader has got no more than the vfc will ever return again until it is reset.
While the markers are moved, that takes a form of its own at each place (`MonotoneInv`): the value that
was fetched; then the marker that was stored, although its source is still the old one; then
the new marker with its source. It takes two further facts: the source has not been set back to
before the marker (`SourceInv`), and a vfc whose frequency is NaN never gets another (`NaNInv`),
so that the exception for NaN does not end. The arithmetic is that `x * f \div Unit` grows with `x`.

`NeverJumps` has the same shape, bounded from above. `Ahead(f)`: what a reader could get now is less
than a microsecond further from `lastRead` than the time since then allows at speed `f`. Each
`updateMarkers()` rounds down, so the remainder that it drops must not count for the reader; hence
`WithinReadable` compares products and not quotients. It cannot use one fixed `f`, because the
frequency changes: `f` is the highest that the vfc has had since the read.

`EstimateSound` compares two samples, but is inductive only with what each is worth by itself:
`SkewInv` says that the current sample's value plus phase differs from the primary clock, as
that was when the vfc was read, by what the clocks do, give or take the error of one measurement
and the drift during it. As the current sample becomes the previous one, the two errors add up,
and so do the gaps from the vfc's reading to the primary clock's, which nothing in the code
corrects. The same is said of the sample that is being taken, at each of its three readings:
`PhaseInv` of a phase that was just measured, whose vfc ran on at the same frequency from the
exchange until it is read; `VariableInv` of the phase and the vfc's value, while the primary
clock goes on; `GapInv`, that before the vfc is read no gap counts. `RecordInv`: no sample is
from after a setting of the clocks that has not happened.

**Sockets.** `DescriptorInv`: a process has just the descriptor of its socket open, or none where it
has no socket. So what the constructor gets cannot leave an old one open, and the destructor
closes what it should.

The other properties are about bytes. That `BigEndian` and `Number` are inverses, for any `Base` and
`Width`, needs two inductions over the digits: numbers with the same digits are congruent
(`SameDigits`), and for any digits there is a number that has them (`AnyDigits`). Neither is over
recursively defined data, so induction is had from `WellFoundedInduction`'s `WFMin`, as the absence of
a least counterexample (`Induction`). From it follow `RoundTrip` for an
`int64_t`, `PacketsSurvive` for a packet, and `WholePacket`: a datagram as long as a packet leaves nothing
of the buffer's former contents.

`NetGrows` says what any step adds to the datagrams: nothing, or a reply, a request, a KILL or
an acknowledgement, each made of a datagram that was sent before. `KillInv` and `OwnInv` are
then about datagrams only: who sends a KILL has called `die()`; and in a host's packets are its
own times, and in the server's, those of the host that they go to. These hold of what other
programs send only if it is so from the beginning, which is what the theorems assume of them:
`StraysDontKill`, that none sends a KILL (the server would obey it), and `StraysSendTheirOwn`,
that a packet of theirs has no times of others (the server would believe it). They may still be
short, long, or of any type. `TimesBetween`: a client's clock, when it is valid, may have any
time between two that it may have (`getClockOffset()` halves the round trip, and
`AttributedRight` wants that to be the client's time). It may also return `tpInvalid`, as often
as it likes: `Recv` then refuses the reply, so no offset comes of it. `TimesFit`: the seconds
that are printed fit into an `int`, which they do until 2038. The instance of the run satisfies
all four hypotheses. `PowersAssumption` says what `^` is: the provers do not know. TLC, which
does, checks it on the instance.

**Settings.** What holds at the end, that a setting is the last line's for it, holds at each
line of those before it: `ConfigInv` has it for the first `at` lines. What is demanded of a
number depends on its key's own type (`RangeOf`): each that this holds must arrive unchanged.
The rest is arithmetic of remainders: a number that goes through `unsigned`, `int` and `port_t`
ends as the same port as one that goes through `long` and `int`, because the width of a port
divides that of an `unsigned`.

Only model-checked: all liveness properties (`Converges`, `PanicLosesSync`,
`CallsReturn`, `RunEnds`, `CallReturns`, `ProgramEnds`, `UpdatesGoOn`) and the fairness of the two refinements,
because the prover has no support for liveness under fairness. The properties that fail are refuted by
TLC's counterexamples.

## Not modelled

- The unit tests, `simulation` (a Ruby prototype of the control loop, with random noise), and
  `SmartEyeDLL` (a Windows DLL around an older API, that no longer builds).
- Most of kissnet: TCP, TLS, multicast, broadcast, `accept()`, moved sockets, endpoints that are
  parsed from a string, Windows. Nothing here calls these.
- `Timestamp.cpp`'s `TpFromString()`, and `Clock.h`'s own `getPhase()`: no program calls them. A
  `tpInvalid` is printed like any other time.
- A KILL that a *client* receives: no program sends one to a client.
- What is printed, other than the server's line for an acknowledgement.
- What `sscanf()` takes for a number: a line parses, or it doesn't. Numbers that are too large even
  for `strtoul()` are not distinguished from others that wrap.
- Data races on `inSync_` and `phase_`, other than as interleavings (see PhaseLockedClock).

What could be added: the bound that `getErrorBound()` gives on a clock's time as a whole, from `ClockExchange`'s
accuracy and `FrequencyLock`'s drift together; each is proved by itself.
