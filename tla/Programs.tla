------------------------------ MODULE Programs ------------------------------
(***************************************************************************)
(* The programs that own clocks, and what they start, stop and delete:     *)
(*  - "script": a script that calls the C API of ClockKit/clockkit.cpp,    *)
(*    from one thread, in any order.  The API keeps one clock, its client  *)
(*    and its updater thread in globals;                                   *)
(*  - "ckphaselock": ClockKit/PhaseLockMain.cpp, with one clock;           *)
(*  - "standalone": ClockKit/test-standalone.cpp, with many clocks and     *)
(*    with its own server thread.                                          *)
(* The first two measure against a ckserver elsewhere, if there is one.    *)
(*                                                                         *)
(* Every "new" makes a new clock, client or thread: pointers to deleted    *)
(* ones differ from pointers to live ones.                                 *)
(***************************************************************************)

CONSTANTS
    Clocks,     \* the clocks, each with its client, that may ever be built
    Threads,    \* the updater threads that may ever be started
    Null        \* nullptr

ASSUME NullAssumption == Null \notin Clocks

VARIABLES
    program,            \* which of the programs this is
    main,               \* where its main thread, and so the process, is
    plc, cli, end_clocks,   \* globals of the C API; end_clocks also of the others
    built,              \* the clocks built so far
    livePlc, liveCli,   \* those not deleted yet, and their clients
    thread,             \* what each updater thread is doing
    runs,               \* whose run() each thread calls
    handlers,           \* how many times atexit() has registered atexit_handler()
    call,               \* the API call that the script is in
    server,             \* the ClockServer
    kills,              \* the KILL packets in flight, by the clock that sent them
    died,               \* the clocks whose die() main() has called
    doubled             \* history: was ckInitialize() called twice in a row?

objects  == <<plc, cli, built, livePlc, liveCli>>
updaters == <<thread, end_clocks>>
api      == <<handlers, call, doubled>>
killing  == <<server, kills, died>>
vars     == <<program, main, objects, updaters, runs, api, killing>>

U == INSTANCE Updaters

\* The last three are the ends of a process: by itself, by a signal, by abort() or the like.
Over == main \in {"ended", "killed", "aborted"}
Mains == {"starting", "building", "looping", "dying", "joining", "deleting", "joining server"}

TypeOK ==
    /\ program \in {"script", "ckphaselock", "standalone"}
    /\ main \in Mains \cup {"running", "exiting", "ended", "killed", "aborted"}
    /\ plc \in Clocks \cup {Null}
    /\ cli \in Clocks \cup {Null}
    /\ built \subseteq Clocks
    /\ livePlc \subseteq built /\ liveCli \subseteq built
    /\ U!TypeOK
    /\ runs \in [Threads -> built \cup {Null}]
    /\ \A t \in Threads : runs[t] = Null <=> thread[t] = "none"
    /\ handlers \subseteq Threads
    /\ call \in {"none", "using", "terminating"}
    /\ server \in {"off", "binding", "serving", "returned"}
    /\ kills \subseteq built /\ died \subseteq built
    /\ doubled \in BOOLEAN

\* ckphaselock sets end_clocks before it starts its thread if the duration is 0.
Init ==
    /\ \/ program = "script" /\ main = "running" /\ end_clocks = FALSE
       \/ program = "ckphaselock" /\ main = "building" /\ end_clocks \in BOOLEAN
       \/ program = "standalone" /\ main = "starting" /\ end_clocks = FALSE
    /\ IF program = "standalone" THEN server = "off" ELSE server \in {"off", "serving"}
    /\ plc = Null /\ cli = Null
    /\ built = {} /\ livePlc = {} /\ liveCli = {}
    /\ thread = [t \in Threads |-> "none"]
    /\ runs = [t \in Threads |-> Null]
    /\ handlers = {}
    /\ call = "none"
    /\ kills = {} /\ died = {}
    /\ doubled = FALSE

-----------------------------------------------------------------------------
(* new ClockClient, new PhaseLockedClock, new std::thread *)

New(c) ==
    /\ c \notin built /\ built' = built \cup {c}
    /\ livePlc' = livePlc \cup {c} /\ liveCli' = liveCli \cup {c}

\* kissnet finds no server of that name: exit(1), or it aborts.
BuildFails ==
    /\ \/ main = "running" /\ call = "none" /\ plc = Null
          /\ main' \in {"exiting", "aborted"}
       \/ main = "building" /\ main' = "aborted"
    /\ UNCHANGED <<program, objects, updaters, runs, api, killing>>

-----------------------------------------------------------------------------
(* The C API: ckInitialize().  Without a configuration, it changes nothing. *)

\* The script may call anything next.
Ready == main = "running" /\ call = "none"

\* Mutants: atexit() isn't called; the thread is given the plc from before the call;
\* or only the first call starts a thread.
RegisterNot(t) == UNCHANGED handlers
RunOld(t) == runs' = [runs EXCEPT ![t] = plc]

Register(t) == handlers' = handlers \cup {t}
RunNew(t) == runs' = [runs EXCEPT ![t] = plc']

StartOnce(t) ==
    IF \A s \in Threads : thread[s] = "none" THEN U!Start(t) /\ RunNew(t)
    ELSE UNCHANGED <<updaters, runs>>

StartUpdater(t) == U!Start(t) /\ RunNew(t)

\* config.buildClock(), unless there is a clock already.  Either way there is one
\* more handler and one more thread.  (Handlers are told apart by the thread.)
ckInitialize(t) ==
    /\ Ready
    /\ \/ plc # Null /\ UNCHANGED objects
       \/ plc = Null /\ \E c \in Clocks : New(c) /\ plc' = c /\ cli' = c
    /\ Register(t)
    /\ StartUpdater(t)
    /\ doubled' = (doubled \/ livePlc # {})
    /\ UNCHANGED <<program, main, call, killing>>

-----------------------------------------------------------------------------
(* The C API: calls that use the clock.  Without one they do nothing, and *)
(* return an invalid value.                                               *)

\* ckTimeAsValue(), ckTimeAsString(), ckInSync(), ckOffset() may wait for the clock;
\* ckKill() sends a KILL.
UseBegin ==
    /\ Ready /\ plc # Null
    /\ call' = "using"
    /\ kills' \in {kills, kills \cup {plc}}
    /\ UNCHANGED <<program, main, objects, updaters, runs, handlers, doubled, server, died>>

UseEnd ==
    /\ main = "running" /\ call = "using"
    /\ call' = "none"
    /\ UNCHANGED <<program, main, objects, updaters, runs, handlers, doubled, killing>>

-----------------------------------------------------------------------------
(* The C API: ckTerminate(), called by the script, or by the exit handlers *)

\* Mutant: plc is deleted but not cleared.
DeletePlcOnly ==
    /\ call = "none" /\ call' = "terminating"
    /\ livePlc' = livePlc \ {plc}
    /\ UNCHANGED <<program, main, plc, cli, built, liveCli, updaters, runs, doubled, killing>>

DeletePlc ==
    /\ call = "none" /\ call' = "terminating"
    /\ livePlc' = livePlc \ {plc} /\ plc' = Null
    /\ UNCHANGED <<program, main, cli, built, liveCli, updaters, runs, doubled, killing>>

ckTerminate == main = "running" /\ DeletePlc /\ UNCHANGED handlers

atexit_handler(t) ==
    /\ main = "exiting" /\ t \in handlers /\ handlers' = handlers \ {t}
    /\ DeletePlc

\* Mutant: cli is deleted but not cleared.
DeleteCliOnly ==
    /\ main \in {"running", "exiting"} /\ call = "terminating"
    /\ call' = "none"
    /\ liveCli' = liveCli \ {cli}
    /\ UNCHANGED <<program, main, plc, cli, built, livePlc, updaters, runs, handlers,
                   doubled, killing>>

DeleteCli ==
    /\ main \in {"running", "exiting"} /\ call = "terminating"
    /\ call' = "none"
    /\ liveCli' = liveCli \ {cli} /\ cli' = Null
    /\ UNCHANGED <<program, main, plc, built, livePlc, updaters, runs, handlers,
                   doubled, killing>>

Script ==
    \/ \E t \in Threads : ckInitialize(t) \/ atexit_handler(t)
    \/ UseBegin \/ UseEnd \/ ckTerminate \/ DeleteCli

-----------------------------------------------------------------------------
(* main() of ckphaselock and cktest-standalone *)

\* cktest-standalone: std::thread th_server.
StartServer ==
    /\ main = "starting" /\ main' = "building"
    /\ server' = "binding"
    /\ UNCHANGED <<program, objects, updaters, runs, api, kills, died>>

\* One clock, or in cktest-standalone any number of them.
BuildClock(t) ==
    /\ main = "building" /\ (program = "ckphaselock" => built = {})
    /\ \E c \in Clocks : New(c) /\ runs' = [runs EXCEPT ![t] = c]
    /\ U!Start(t)
    /\ UNCHANGED <<program, main, plc, cli, api, killing>>

\* The loop prints offsets and times.
Loop ==
    /\ main = "building" /\ built # {} /\ main' = "looping"
    /\ UNCHANGED <<program, objects, updaters, runs, api, killing>>

\* Its time is up, unless it was to go on forever.
LoopEnds ==
    /\ main = "looping" /\ main' = "dying"
    /\ end_clocks' = TRUE
    /\ UNCHANGED <<program, objects, thread, runs, api, killing>>

\* plc->die(), one clock after the other: their clients send a KILL.
Die ==
    /\ main = "dying"
    /\ \E c \in built \ died : died' = died \cup {c} /\ kills' = kills \cup {c}
    /\ main' = IF died' = built THEN "joining" ELSE "dying"
    /\ UNCHANGED <<program, objects, updaters, runs, api, server>>

\* Mutants: main() waits for the server first; or doesn't wait for the updaters.
JoinServerFirst ==
    /\ main = "joining" /\ main' = "deleting"
    /\ program = "standalone" => server = "returned"
    /\ \A t \in Threads : thread[t] \in {"none", "returned"}
    /\ UNCHANGED <<program, objects, updaters, runs, api, killing>>

JoinNot ==
    /\ main = "joining" /\ main' = "deleting"
    /\ UNCHANGED <<program, objects, updaters, runs, api, killing>>

Join ==
    /\ main = "joining" /\ main' = "deleting"
    /\ \A t \in Threads : thread[t] \in {"none", "returned"}
    /\ UNCHANGED <<program, objects, updaters, runs, api, killing>>

\* Clocks first, then clients.
Delete ==
    /\ main = "deleting"
    /\ \/ \E c \in livePlc : livePlc' = livePlc \ {c} /\ UNCHANGED liveCli
       \/ livePlc = {} /\ UNCHANGED livePlc /\ \E c \in liveCli : liveCli' = liveCli \ {c}
    /\ main' = IF liveCli' # {} THEN "deleting"
               ELSE IF program = "standalone" THEN "joining server" ELSE "exiting"
    /\ UNCHANGED <<program, plc, cli, built, updaters, runs, api, killing>>

\* cktest-standalone: th_server.join().
JoinServer ==
    /\ main = "joining server" /\ server = "returned" /\ main' = "exiting"
    /\ UNCHANGED <<program, objects, updaters, runs, api, killing>>

Main ==
    \/ StartServer \/ (\E t \in Threads : BuildClock(t)) \/ Loop \/ LoopEnds
    \/ Die \/ Join \/ Delete \/ JoinServer

-----------------------------------------------------------------------------
(* The server, and the KILL packets, which may be lost *)

\* ClockServer::run() binds its socket.  If it cannot, it exits the process.
Bind ==
    /\ server = "binding" /\ ~Over
    /\ \/ server' = "serving" /\ UNCHANGED main
       \/ server' = "returned" /\ main' = "aborted"
    /\ UNCHANGED <<program, objects, updaters, runs, api, kills, died>>

\* Mutant: the server returns from run() without a KILL, as after a corrupt packet.
ServeAny ==
    /\ server = "serving" /\ server' = "returned"
    /\ UNCHANGED <<program, main, objects, updaters, runs, api, kills, died>>

ServeKill ==
    /\ server = "serving" /\ server' = "returned"
    /\ \E c \in kills : kills' = kills \ {c}
    /\ UNCHANGED <<program, main, objects, updaters, runs, api, died>>

\* The network loses it, or nobody listens yet or any more.
LoseKill ==
    /\ \E c \in kills : kills' = kills \ {c}
    /\ UNCHANGED <<program, main, objects, updaters, runs, api, server, died>>

-----------------------------------------------------------------------------
(* The updater threads, and the process *)

\* run().  It holds a pointer to the clock, whose client it uses.
Update(t) ==
    /\ ~Over /\ U!Run(t)
    /\ UNCHANGED <<program, main, objects, runs, api, killing>>

UsesDeleted(t) == thread[t] = "updating" /\ runs[t] \notin livePlc \cap liveCli

\* An update of a deleted clock may do anything, such as crash.
Segfault ==
    /\ ~Over /\ (\E t \in Threads : UsesDeleted(t)) /\ main' = "aborted"
    /\ UNCHANGED <<program, objects, updaters, runs, api, killing>>

\* The script calls exit(), or ends, or has trapped a signal in order to exit.
Exit ==
    /\ Ready /\ main' = "exiting"
    /\ UNCHANGED <<program, objects, updaters, runs, api, killing>>

\* After the last handler the process ends, and its threads with it.
ExitEnd ==
    /\ main = "exiting" /\ call = "none" /\ handlers = {} /\ main' = "ended"
    /\ UNCHANGED <<program, objects, updaters, runs, api, killing>>

\* pkill, untrapped, ends the process at once, without any handlers.
Sigterm ==
    /\ ~Over /\ main' = "killed"
    /\ UNCHANGED <<program, objects, updaters, runs, api, killing>>

Rest == Over /\ UNCHANGED vars

Hang == main = "joining server" /\ server # "returned" /\ kills = {} /\ UNCHANGED vars

Next ==
    \/ Script \/ Main \/ BuildFails \/ Bind \/ ServeKill \/ LoseKill
    \/ \E t \in Threads : Update(t)
    \/ Segfault \/ Exit \/ ExitEnd \/ Sigterm \/ Rest \/ Hang

\* Once main() is to end it goes on, and so do updates and exits.  A packet arrives
\* or is lost.  Nothing obliges a script, or a loop, to end.
Fairness ==
    /\ WF_vars(Die \/ Join \/ Delete \/ JoinServer)
    /\ WF_vars(main = "building" /\ end_clocks /\ (Loop \/ \E t \in Threads : BuildClock(t)))
    /\ WF_vars(main = "looping" /\ end_clocks /\ LoopEnds)
    /\ \A t \in Threads : WF_vars(Update(t))
    /\ WF_vars(ServeKill \/ LoseKill)
    /\ WF_vars(ExitEnd \/ (\E t \in Threads : atexit_handler(t)) \/ (main = "exiting" /\ DeleteCli))

Spec == Init /\ [][Next]_vars /\ Fairness

-----------------------------------------------------------------------------
(* Safety *)

\* Whatever API calls come in whatever order, also twice or not at all: each pointer
\* is null or valid, so that nothing is used or deleted after it was deleted; the
\* clock is deleted before the client that it refers to; what is not yet deleted
\* is still pointed to.
PointersValid ==
    program = "script" =>
        /\ livePlc = {plc} \ {Null}
        /\ liveCli = {cli} \ {Null}
        /\ plc = cli \/ (plc = Null /\ call = "terminating")

\* A clock has one updater thread, unless ckInitialize() was called again while
\* there was a clock: updates are not meant to run concurrently with themselves.
OneUpdater ==
    \A s, t \in Threads : runs[s] = runs[t] /\ runs[t] # Null => s = t \/ doubled

\* A process that ends by itself, however many clocks it has had, has deleted them all.
CleanExit == main = "ended" => livePlc = {} /\ liveCli = {}

\* The clocks that run() uses are there as long as it runs: "Destroy the primary and
\* reference clocks only after destroying this, lest this segfault".
UpdatesLiveClock == \A t \in Threads : ~UsesDeleted(t)

\* So it is in ckphaselock and cktest-standalone, whatever they wait for.
MainsUpdateLiveClocks == program # "script" => UpdatesLiveClock

\* cktest-standalone's server serves until all clocks have been told to end.
ServesToTheEnd == program = "standalone" /\ server = "returned" => end_clocks \/ Over

-----------------------------------------------------------------------------
(* Liveness *)

\* Once it is to end, a program does, whatever is lost and though a script's updaters
\* never return; except that cktest-standalone waits forever for a server that
\* gets none of the KILLs.
ProgramEnds ==
    (program # "script" /\ end_clocks) \/ main = "exiting" ~>
        Over \/ (main = "joining server" /\ server # "returned" /\ kills = {})

\* As long as there is a clock and end_clocks isn't set, it is updated again and again:
\* by the thread of the first ckInitialize(), and also by that of another one after a
\* ckTerminate(); and so is each of the many clocks of cktest-standalone.
UpdatesGoOn ==
    \A c \in Clocks, place \in {"asleep", "updating"} :
        []<>(\/ c \notin livePlc \/ end_clocks \/ Over
            \/ \E t \in Threads : runs[t] = c /\ thread[t] = place)
=============================================================================
