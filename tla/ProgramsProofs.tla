--------------------------- MODULE ProgramsProofs ---------------------------
(***************************************************************************)
(* The safety properties of Programs, for any number of clocks and threads *)
(* and for any sequence of API calls.                                      *)
(***************************************************************************)
EXTENDS Programs, TLAPS

-----------------------------------------------------------------------------
(* The inductive invariant *)

\* Only a script calls the API, and only the others have a main() of their own.
ApiInv ==
    /\ program = "script" => main \notin Mains
    /\ program # "script" => main # "running" /\ handlers = {} /\ call = "none"

\* ckTerminate() has a handler to call it at exit as long as there is a clock.
HandlerInv ==
    /\ program = "script" /\ plc # Null => handlers # {}
    /\ call = "terminating" => plc = Null

\* Where main() has not yet waited for its updaters; and where it has.
BeforeJoin == {"starting", "building", "looping", "dying", "joining"}
AfterJoin == {"deleting", "joining server", "exiting", "ended"}

\* main() deletes what it has built after its updaters returned, and clients after clocks.
OwnerInv ==
    program # "script" =>
        /\ main \in BeforeJoin => livePlc = built /\ liveCli = built
        /\ main = "deleting" /\ livePlc # {} => liveCli = built
        /\ main \in {"joining server", "exiting", "ended"} => livePlc = {} /\ liveCli = {}
        /\ main \in AfterJoin => \A t \in Threads : thread[t] \in {"none", "returned"}

\* main() sends a KILL only once it has set end_clocks.
KillInv ==
    program # "script" =>
        /\ main \in {"dying", "joining"} \cup AfterJoin => end_clocks
        /\ kills # {} => end_clocks

\* Each clock that is there has been given to a thread, and only end_clocks ends a thread.
Given == \A c \in livePlc : \E t \in Threads : runs[t] = c
ReturnInv == \A t \in Threads : thread[t] = "returned" => end_clocks

IInv ==
    /\ TypeOK /\ ApiInv /\ HandlerInv /\ OwnerInv /\ KillInv
    /\ Given /\ ReturnInv
    /\ PointersValid /\ OneUpdater /\ CleanExit
    /\ MainsUpdateLiveClocks /\ ServesToTheEnd

-----------------------------------------------------------------------------

\* Every program starts with the invariant: it owns nothing yet.
LEMMA Initially == Init => IInv
BY NullAssumption
DEF Init, IInv, TypeOK, ApiInv, HandlerInv, OwnerInv, KillInv, Given, ReturnInv,
    PointersValid, OneUpdater, CleanExit, MainsUpdateLiveClocks, UpdatesLiveClock, UsesDeleted,
    ServesToTheEnd, Over, Mains, BeforeJoin, AfterJoin, U!TypeOK

-----------------------------------------------------------------------------

\* Most steps keep the objects and the threads, and only move main(), the server or a KILL.
Kept == UNCHANGED <<program, objects, updaters, runs, api>>

Places == Mains \cup {"running", "exiting", "ended", "killed", "aborted"}
Servers == {"off", "binding", "serving", "returned"}

\* What such a step cannot break.
LEMMA KeptFacts ==
    ASSUME IInv, Kept,
           main' \in Places, server' \in Servers, kills' \subseteq built, died' \subseteq built
    PROVE  /\ TypeOK' /\ HandlerInv' /\ PointersValid' /\ OneUpdater'
           /\ Given' /\ ReturnInv'
           /\ MainsUpdateLiveClocks'
<1>1. /\ program' = program /\ plc' = plc /\ cli' = cli /\ built' = built
      /\ livePlc' = livePlc /\ liveCli' = liveCli /\ thread' = thread
      /\ end_clocks' = end_clocks /\ runs' = runs /\ handlers' = handlers
      /\ call' = call /\ doubled' = doubled
  BY DEF Kept, objects, updaters, api
<1>2. TypeOK
  BY DEF IInv
<1>3. U!TypeOK'
  BY <1>1, <1>2, Zenon DEF TypeOK, U!TypeOK
<1>4. (\A t \in Threads : runs[t] = Null <=> thread[t] = "none")'
  BY <1>1, <1>2, Zenon DEF TypeOK
<1>5. TypeOK'
  BY <1>1, <1>2, <1>3, <1>4, Zenon DEF TypeOK, Places, Servers
<1>6. HandlerInv' /\ PointersValid'
  BY <1>1 DEF IInv, HandlerInv, PointersValid
<1>7. Given' /\ ReturnInv' /\ OneUpdater'
  BY <1>1, Zenon DEF IInv, Given, ReturnInv, OneUpdater
<1>8. MainsUpdateLiveClocks'
  BY <1>1, Zenon DEF IInv, MainsUpdateLiveClocks, UpdatesLiveClock, UsesDeleted
<1> QED
  BY <1>5, <1>6, <1>7, <1>8

\* The places of main() are all different, and so are the programs that have them.
LEMMA Control ==
    ASSUME IInv
    PROVE  /\ main \in Places /\ server \in Servers
           /\ built \subseteq Clocks /\ livePlc \subseteq built /\ liveCli \subseteq built
           /\ kills \subseteq built /\ died \subseteq built
           /\ ApiInv /\ HandlerInv /\ OwnerInv /\ KillInv /\ CleanExit /\ ServesToTheEnd
BY DEF IInv, TypeOK, Places, Servers

\* What is left to show of such a step.
ControlInv == ApiInv /\ OwnerInv /\ KillInv /\ CleanExit /\ ServesToTheEnd

LEMMA KeptInv ==
    ASSUME IInv, Kept, ControlInv',
           main' \in Places, server' \in Servers, kills' \subseteq built, died' \subseteq built
    PROVE  IInv'
BY KeptFacts DEF IInv, ControlInv

\* main() moves on within BeforeJoin, or a process ends otherwise than by itself.
LEMMA Moves ==
    ASSUME IInv, Kept, server' = server, kills' = kills, died' = died,
           \/ main' \in {"killed", "aborted"}
           \/ /\ main \in {"starting", "building", "looping", "dying"}
              /\ main' \in {"building", "looping"}
    PROVE  IInv'
<1>1. /\ program' = program /\ livePlc' = livePlc /\ liveCli' = liveCli
      /\ built' = built /\ thread' = thread /\ end_clocks' = end_clocks
      /\ handlers' = handlers /\ call' = call
  BY DEF Kept, objects, updaters, api
<1>2. main' \in Places
  BY DEF Places, Mains
<1> HIDE DEF Kept
<1>3. ApiInv' /\ KillInv'
  BY <1>1, Control DEF ApiInv, KillInv, AfterJoin, Mains, Places
<1>4. OwnerInv'
  BY <1>1, Control DEF ApiInv, OwnerInv, BeforeJoin, AfterJoin, Mains, Places
<1>5. CleanExit' /\ ServesToTheEnd'
  BY <1>1, Control DEF CleanExit, ServesToTheEnd, Over
<1> QED
  BY <1>2, <1>3, <1>4, <1>5, Control, KeptInv DEF ControlInv

\* The steps that keep the objects and the threads.
LEMMA KeepingSteps ==
    ASSUME IInv,
           \/ BuildFails \/ StartServer \/ Loop \/ Die \/ Join \/ JoinServer
           \/ Bind \/ ServeKill \/ LoseKill \/ Segfault \/ Exit \/ ExitEnd \/ Sigterm
           \/ UNCHANGED vars
    PROVE  IInv'
<1> USE Control
<1> USE DEF ControlInv, ApiInv, OwnerInv, KillInv, CleanExit, ServesToTheEnd, Over,
            BeforeJoin, AfterJoin, Mains, Places, Servers, objects, updaters, api
<1>1. CASE BuildFails
  <2>1. CASE main' = "aborted"
    BY <1>1, <2>1, Moves DEF BuildFails, Kept, killing
  <2>2. CASE main = "running" /\ main' = "exiting"
    <3>1. Kept /\ program = "script" /\ UNCHANGED <<server, kills, died>>
      BY <1>1, <2>2 DEF BuildFails, Kept, killing
    <3>2. ControlInv'
      BY <2>2, <3>1 DEF Kept
    <3> QED
      BY <2>2, <3>1, <3>2, KeptInv
  <2> QED
    BY <1>1, <2>1, <2>2 DEF BuildFails
<1>2. CASE StartServer
  <2>1. Kept /\ main' = "building" /\ server' = "binding" /\ UNCHANGED <<kills, died>>
    BY <1>2 DEF StartServer, Kept
  <2>2. ControlInv'
    BY <1>2, <2>1 DEF StartServer, Kept
  <2> QED
    BY <2>1, <2>2, KeptInv
<1>3. CASE Loop \/ Segfault \/ Sigterm
  BY <1>3, Moves DEF Loop, Segfault, Sigterm, Kept, killing
<1>4. CASE Die
  <2>1. Kept /\ main' \in {"dying", "joining"} /\ server' = server
    BY <1>4 DEF Die, Kept
  <2>2. kills' \subseteq built /\ died' \subseteq built
    BY <1>4 DEF Die
  <2>3. ControlInv'
    BY <1>4, <2>1 DEF Die, Kept
  <2> QED
    BY <2>1, <2>2, <2>3, KeptInv
<1>5. CASE Join
  <2>1. Kept /\ main' = "deleting" /\ UNCHANGED <<server, kills, died>>
    BY <1>5 DEF Join, Kept, killing
  <2>2. ControlInv'
    BY <1>5, <2>1 DEF Join, Kept
  <2> QED
    BY <2>1, <2>2, KeptInv
<1>6. CASE JoinServer
  <2>1. Kept /\ main' = "exiting" /\ UNCHANGED <<server, kills, died>>
    BY <1>6 DEF JoinServer, Kept, killing
  <2>2. main = "joining server" /\ program # "script" /\ end_clocks
    BY <1>6 DEF JoinServer
  <2>3. ControlInv'
    BY <2>1, <2>2 DEF Kept
  <2> QED
    BY <2>1, <2>3, KeptInv
<1>7. CASE Bind
  <2>1. CASE main' = "aborted"
    <3>1. Kept /\ server' \in Servers /\ UNCHANGED <<kills, died>>
      BY <1>7, <2>1 DEF Bind, Kept
    <3>2. ControlInv'
      BY <2>1, <3>1 DEF Kept
    <3> QED
      BY <2>1, <3>1, <3>2, KeptInv
  <2>2. CASE main' = main /\ server' = "serving"
    <3>1. Kept /\ UNCHANGED <<kills, died>>
      BY <1>7 DEF Bind, Kept
    <3>2. ControlInv'
      BY <2>2, <3>1 DEF Kept
    <3> QED
      BY <2>2, <3>1, <3>2, KeptInv
  <2> QED
    BY <1>7, <2>1, <2>2 DEF Bind
<1>8. CASE ServeKill
  <2>1. Kept /\ main' = main /\ server' = "returned" /\ died' = died
    BY <1>8 DEF ServeKill, Kept
  <2>2. kills # {} /\ kills' \subseteq kills
    BY <1>8 DEF ServeKill
  <2>3. ControlInv'
    BY <2>1, <2>2 DEF Kept
  <2> QED
    BY <2>1, <2>2, <2>3, KeptInv
<1>9. CASE LoseKill \/ UNCHANGED vars
  <2>1. Kept /\ UNCHANGED <<main, server, died>> /\ kills' \subseteq kills
    BY <1>9 DEF LoseKill, Kept, vars, killing
  <2>2. ControlInv'
    BY <2>1 DEF Kept
  <2> QED
    BY <2>1, <2>2, KeptInv
<1>10. CASE Exit
  <2>1. Kept /\ program = "script" /\ main' = "exiting" /\ UNCHANGED <<server, kills, died>>
    BY <1>10 DEF Exit, Ready, Kept, killing
  <2>2. ControlInv'
    BY <2>1 DEF Kept
  <2> QED
    BY <2>1, <2>2, KeptInv
<1>11. CASE ExitEnd
  <2>1. Kept /\ main = "exiting" /\ main' = "ended" /\ UNCHANGED <<server, kills, died>>
    BY <1>11 DEF ExitEnd, Kept, killing
  <2>2. PointersValid
    BY DEF IInv
  <2>3. livePlc = {} /\ liveCli = {}
    <3>1. CASE program = "script"
      BY <1>11, <2>2, <3>1 DEF PointersValid, HandlerInv, ExitEnd
    <3>2. CASE program # "script"
      BY <2>1, <3>2
    <3> QED
      BY <3>1, <3>2
  <2>4. ControlInv'
    BY <2>1, <2>3 DEF Kept
  <2> QED
    BY <2>1, <2>4, KeptInv
<1> QED
  BY <1>1, <1>2, <1>3, <1>4, <1>5, <1>6, <1>7, <1>8, <1>9, <1>10, <1>11

-----------------------------------------------------------------------------

\* What the invariant says of a script, and of every type.
LEMMA ScriptFacts ==
    ASSUME IInv
    PROVE  /\ program \in {"script", "ckphaselock", "standalone"}
           /\ main \in Places /\ server \in Servers /\ call \in {"none", "using", "terminating"}
           /\ plc \in Clocks \cup {Null} /\ cli \in Clocks \cup {Null}
           /\ built \subseteq Clocks /\ livePlc \subseteq built /\ liveCli \subseteq built
           /\ handlers \subseteq Threads /\ kills \subseteq built /\ died \subseteq built
           /\ doubled \in BOOLEAN /\ end_clocks \in BOOLEAN
           /\ \/ call # "none" \/ handlers # {} \/ main = "running" => program = "script"
           /\ program = "script" => main \notin Mains
           /\ HandlerInv /\ PointersValid
BY Zenon DEF IInv, TypeOK, U!TypeOK, ApiInv, Places, Servers

LEMMA ThreadFacts ==
    ASSUME IInv
    PROVE  /\ thread \in [Threads -> {"none", "asleep", "updating", "returned"}]
           /\ runs \in [Threads -> built \cup {Null}]
           /\ \A t \in Threads : runs[t] = Null <=> thread[t] = "none"
BY Zenon DEF IInv, TypeOK, U!TypeOK

\* TypeOK, from the two groups of variables.
LEMMA Typed ==
    ASSUME program' \in {"script", "ckphaselock", "standalone"},
           main' \in Places, server' \in Servers, call' \in {"none", "using", "terminating"},
           plc' \in Clocks \cup {Null}, cli' \in Clocks \cup {Null},
           built' \subseteq Clocks, livePlc' \subseteq built', liveCli' \subseteq built',
           handlers' \subseteq Threads, kills' \subseteq built', died' \subseteq built',
           doubled' \in BOOLEAN, end_clocks' \in BOOLEAN,
           thread' \in [Threads -> {"none", "asleep", "updating", "returned"}],
           runs' \in [Threads -> built' \cup {Null}],
           \A t \in Threads : runs'[t] = Null <=> thread'[t] = "none"
    PROVE  TypeOK'
BY Zenon DEF TypeOK, U!TypeOK, Places, Servers

\* A call of the API that starts no thread.
LEMMA Calls ==
    ASSUME IInv, program = "script",
           UNCHANGED <<program, main, built, updaters, runs, server, died>>,
           main # "ended",
           plc' \in Clocks \cup {Null}, cli' \in Clocks \cup {Null},
           livePlc' \subseteq livePlc, liveCli' \subseteq liveCli,
           handlers' \subseteq handlers, kills' \subseteq built, doubled' = doubled,
           call' \in {"none", "using", "terminating"},
           HandlerInv', PointersValid'
    PROVE  IInv'
<1>1. /\ program' = "script" /\ main' = main /\ built' = built /\ server' = server
      /\ died' = died /\ thread' = thread /\ end_clocks' = end_clocks /\ runs' = runs
  BY DEF updaters
<1>2. TypeOK'
  BY <1>1, ScriptFacts, ThreadFacts, Typed
<1>3. ApiInv' /\ OwnerInv' /\ KillInv' /\ CleanExit' /\ ServesToTheEnd'
  BY <1>1, ScriptFacts
  DEF ApiInv, OwnerInv, KillInv, CleanExit, ServesToTheEnd
<1>4. Given' /\ ReturnInv' /\ OneUpdater'
  BY <1>1 DEF IInv, Given, ReturnInv, OneUpdater
<1>5. MainsUpdateLiveClocks'
  BY <1>1 DEF MainsUpdateLiveClocks
<1> QED
  BY <1>2, <1>3, <1>4, <1>5 DEF IInv

\* ckTerminate(), also as an exit handler calls it, and the calls that use the clock.
LEMMA CallSteps ==
    ASSUME IInv,
           \/ UseBegin \/ UseEnd \/ ckTerminate \/ DeleteCli
           \/ \E t \in Threads : atexit_handler(t)
    PROVE  IInv'
<1> USE NullAssumption, ScriptFacts DEF HandlerInv, PointersValid, objects, api, killing
<1>1. CASE UseBegin
  <2>1. /\ program = "script" /\ main = "running" /\ plc # Null /\ call' = "using"
        /\ UNCHANGED <<program, main, objects, updaters, runs, handlers, doubled, server, died>>
        /\ kills' \subseteq kills \cup {plc}
    BY <1>1 DEF UseBegin, Ready
  <2>2. kills' \subseteq built
    BY <2>1
  <2>3. HandlerInv' /\ PointersValid'
    BY <1>1, <2>1 DEF UseBegin, Ready
  <2> QED
    BY <2>1, <2>2, <2>3, Calls
<1>2. CASE UseEnd
  <2>1. /\ program = "script" /\ main = "running" /\ call = "using" /\ call' = "none"
        /\ UNCHANGED <<program, main, objects, updaters, runs, handlers, doubled, killing>>
    BY <1>2 DEF UseEnd
  <2>2. HandlerInv' /\ PointersValid'
    BY <2>1
  <2> QED
    BY <2>1, <2>2, Calls
<1>3. CASE ckTerminate \/ \E t \in Threads : atexit_handler(t)
  <2>1. /\ call = "none" /\ call' = "terminating" /\ livePlc' = livePlc \ {plc} /\ plc' = Null
        /\ main \in {"running", "exiting"} /\ handlers' \subseteq handlers
        /\ UNCHANGED <<program, main, cli, built, liveCli, updaters, runs, doubled, killing>>
    BY <1>3 DEF ckTerminate, atexit_handler, DeletePlc
  <2>2. program = "script"
    BY <1>3 DEF ckTerminate, atexit_handler
  <2>3. HandlerInv' /\ PointersValid'
    BY <2>1, <2>2
  <2> QED
    BY <2>1, <2>2, <2>3, Calls
<1>4. CASE DeleteCli
  <2>1. /\ call = "terminating" /\ call' = "none" /\ liveCli' = liveCli \ {cli} /\ cli' = Null
        /\ main \in {"running", "exiting"}
        /\ UNCHANGED <<program, main, plc, built, livePlc, updaters, runs, handlers, doubled,
                       killing>>
    BY <1>4 DEF DeleteCli
  <2>2. program = "script"
    BY <2>1
  <2>3. HandlerInv' /\ PointersValid'
    BY <2>1, <2>2
  <2> QED
    BY <2>1, <2>2, <2>3, Calls
<1> QED
  BY <1>1, <1>2, <1>3, <1>4

\* A new clock with a new thread to run it, or a new thread for the clock there is.
LEMMA Starts ==
    ASSUME IInv, NEW t \in Threads, NEW c \in Clocks,
           thread[t] = "none",
           thread' = [thread EXCEPT ![t] = "asleep"], runs' = [runs EXCEPT ![t] = c],
           end_clocks' = end_clocks,
           \/ UNCHANGED <<built, livePlc, liveCli>> /\ c \in livePlc /\ doubled'
           \/ /\ c \notin built /\ built' = built \cup {c}
              /\ livePlc' = livePlc \cup {c} /\ liveCli' = liveCli \cup {c}
              /\ doubled => doubled'
    PROVE  /\ thread' \in [Threads -> {"none", "asleep", "updating", "returned"}]
           /\ runs' \in [Threads -> built' \cup {Null}]
           /\ \A s \in Threads : runs'[s] = Null <=> thread'[s] = "none"
           /\ livePlc' \subseteq built' /\ liveCli' \subseteq built' /\ built' \subseteq Clocks
           /\ Given' /\ ReturnInv' /\ OneUpdater'
<1> USE NullAssumption, ThreadFacts, ScriptFacts
<1>1. runs[t] = Null /\ c \in built' /\ c # Null
  OBVIOUS
<1>2. \A s \in Threads : s # t => runs'[s] = runs[s] /\ thread'[s] = thread[s]
  OBVIOUS
<1>3. runs'[t] = c /\ thread'[t] = "asleep"
  OBVIOUS
<1>4. runs' \in [Threads -> built' \cup {Null}]
  BY <1>1
<1>5. \A s \in Threads : runs'[s] = Null <=> thread'[s] = "none"
  BY <1>1, <1>2, <1>3
<1>6. Given' /\ ReturnInv'
  <2>1. \A d \in livePlc : \E s \in Threads : runs[s] = d /\ s # t
    BY <1>1 DEF IInv, Given
  <2>2. livePlc' \subseteq livePlc \cup {c}
    OBVIOUS
  <2>3. Given'
    BY <1>2, <1>3, <2>1, <2>2 DEF Given
  <2>4. ReturnInv'
    BY <1>2, <1>3 DEF IInv, ReturnInv
  <2> QED
    BY <2>3, <2>4
<1>7. OneUpdater'
  <2> SUFFICES ASSUME NEW r \in Threads, NEW s \in Threads, r # s,
                      runs'[r] = runs'[s], runs'[r] # Null
               PROVE  doubled'
    BY DEF OneUpdater
  <2>1. CASE r # t /\ s # t
    <3>1. doubled
      BY <1>2, <2>1 DEF IInv, OneUpdater
    <3> QED
      BY <3>1
  <2>2. CASE r = t \/ s = t
    <3>1. \E q \in Threads : runs[q] = c
      BY <1>2, <1>3, <2>2
    <3>2. c \in built
      BY <1>1, <3>1
    <3> QED
      BY <3>2
  <2> QED
    BY <2>1, <2>2
<1> QED
  BY <1>4, <1>5, <1>6, <1>7

LEMMA ckInitializeStep ==
    ASSUME IInv, NEW t \in Threads, ckInitialize(t)
    PROVE  IInv'
<1> USE NullAssumption, ScriptFacts
<1>1. /\ program = "script" /\ main = "running" /\ call = "none"
      /\ UNCHANGED <<program, main, call, end_clocks, server, kills, died>>
      /\ handlers' = handlers \cup {t} /\ thread[t] = "none"
      /\ thread' = [thread EXCEPT ![t] = "asleep"] /\ runs' = [runs EXCEPT ![t] = plc']
      /\ doubled' = (doubled \/ livePlc # {})
  BY DEF ckInitialize, Ready, Register, StartUpdater, RunNew, U!Start, U!Becomes, killing
<1>2. PICK c \in Clocks :
         /\ plc' = c /\ cli' = c
         /\ \/ c = plc /\ UNCHANGED <<built, livePlc, liveCli>>
            \/ plc = Null /\ New(c)
  BY <1>1 DEF ckInitialize, objects, PointersValid
<1>3. /\ livePlc' = {c} /\ liveCli' = {c} /\ built' = built \cup {c}
      /\ \/ UNCHANGED <<built, livePlc, liveCli>> /\ c \in livePlc
         \/ /\ c \notin built /\ built' = built \cup {c}
            /\ livePlc' = livePlc \cup {c} /\ liveCli' = liveCli \cup {c}
  BY <1>1, <1>2 DEF PointersValid, New
<1>4. (doubled => doubled') /\ (livePlc # {} => doubled') /\ doubled' \in BOOLEAN
  BY <1>1
<1>5. /\ thread' \in [Threads -> {"none", "asleep", "updating", "returned"}]
      /\ runs' \in [Threads -> built' \cup {Null}]
      /\ \A s \in Threads : runs'[s] = Null <=> thread'[s] = "none"
      /\ livePlc' \subseteq built' /\ liveCli' \subseteq built' /\ built' \subseteq Clocks
      /\ Given' /\ ReturnInv' /\ OneUpdater'
  <2>1. runs' = [runs EXCEPT ![t] = c]
    BY <1>1, <1>2
  <2>2. \/ UNCHANGED <<built, livePlc, liveCli>> /\ c \in livePlc /\ doubled'
        \/ /\ c \notin built /\ built' = built \cup {c}
           /\ livePlc' = livePlc \cup {c} /\ liveCli' = liveCli \cup {c}
           /\ doubled => doubled'
    BY <1>3, <1>4
  <2> HIDE ScriptFacts
  <2> QED
    BY <1>1, <2>1, <2>2, Starts
<1>6. TypeOK'
  BY <1>1, <1>2, <1>4, <1>5, <1>3, Typed
<1>7. HandlerInv' /\ PointersValid'
  BY <1>1, <1>2, <1>3 DEF HandlerInv, PointersValid
<1>8. ApiInv' /\ OwnerInv' /\ KillInv' /\ CleanExit' /\ ServesToTheEnd'
  BY <1>1 DEF ApiInv, OwnerInv, KillInv, CleanExit, ServesToTheEnd, Mains
<1>9. MainsUpdateLiveClocks'
  BY <1>1 DEF MainsUpdateLiveClocks
<1> QED
  BY <1>5, <1>6, <1>7, <1>8, <1>9 DEF IInv

LEMMA BuildClockStep ==
    ASSUME IInv, NEW t \in Threads, BuildClock(t)
    PROVE  IInv'
<1> USE NullAssumption, ScriptFacts, Control
<1>1. /\ main = "building" /\ program # "script"
      /\ UNCHANGED <<program, main, plc, cli, handlers, call, doubled, end_clocks, server,
                     kills, died>>
      /\ thread[t] = "none" /\ thread' = [thread EXCEPT ![t] = "asleep"]
  BY DEF BuildClock, U!Start, U!Becomes, api, killing, Mains
<1>2. PICK c \in Clocks :
         /\ c \notin built /\ built' = built \cup {c}
         /\ livePlc' = livePlc \cup {c} /\ liveCli' = liveCli \cup {c}
         /\ runs' = [runs EXCEPT ![t] = c]
  BY DEF BuildClock, New
<1>3. /\ thread' \in [Threads -> {"none", "asleep", "updating", "returned"}]
      /\ runs' \in [Threads -> built' \cup {Null}]
      /\ \A s \in Threads : runs'[s] = Null <=> thread'[s] = "none"
      /\ livePlc' \subseteq built' /\ liveCli' \subseteq built' /\ built' \subseteq Clocks
      /\ Given' /\ ReturnInv' /\ OneUpdater'
  <2> HIDE ScriptFacts, Control
  <2> QED
    BY <1>1, <1>2, Starts
<1>4. TypeOK'
  <2> HIDE Control
  <2>1. kills' \subseteq built' /\ died' \subseteq built'
    BY <1>1, <1>2
  <2> QED
    BY <1>1, <1>3, <2>1, Typed
<1>5. HandlerInv' /\ PointersValid'
  BY <1>1 DEF HandlerInv, PointersValid
<1>6. ApiInv' /\ KillInv' /\ CleanExit' /\ ServesToTheEnd'
  BY <1>1 DEF ApiInv, KillInv, CleanExit, ServesToTheEnd, Over, Mains, AfterJoin
<1>7. OwnerInv'
  BY <1>1, <1>2 DEF OwnerInv, BeforeJoin, AfterJoin
<1>8. MainsUpdateLiveClocks'
  <2>1. \A s \in Threads \ {t} : thread'[s] = thread[s] /\ runs'[s] = runs[s]
    BY <1>1, <1>2, ThreadFacts
  <2>2. thread'[t] = "asleep"
    BY <1>1, ThreadFacts
  <2>3. \A s \in Threads : thread[s] = "updating" => runs[s] \in livePlc \cap liveCli
    BY <1>1 DEF IInv, MainsUpdateLiveClocks, UpdatesLiveClock, UsesDeleted
  <2> QED
    BY <1>2, <2>1, <2>2, <2>3 DEF MainsUpdateLiveClocks, UpdatesLiveClock, UsesDeleted
<1> QED
  BY <1>3, <1>4, <1>5, <1>6, <1>7, <1>8 DEF IInv

\* main() sets end_clocks; and later it deletes what it has built.
LEMMA LoopEndsStep ==
    ASSUME IInv, LoopEnds
    PROVE  IInv'
<1> USE ScriptFacts, Control
<1>1. /\ main = "looping" /\ program # "script" /\ main' = "dying" /\ end_clocks' = TRUE
      /\ program' = program /\ plc' = plc /\ cli' = cli /\ built' = built
      /\ livePlc' = livePlc /\ liveCli' = liveCli /\ thread' = thread /\ runs' = runs
      /\ handlers' = handlers /\ call' = call /\ doubled' = doubled /\ server' = server
      /\ kills' = kills /\ died' = died
  BY DEF LoopEnds, objects, api, killing, Mains
<1>2. TypeOK'
  <2>1. main' \in Places
    BY <1>1 DEF Places, Mains
  <2> HIDE Control
  <2> QED
    BY <1>1, <2>1, ThreadFacts, Typed
<1>3. ApiInv' /\ HandlerInv' /\ KillInv' /\ PointersValid' /\ CleanExit' /\ ServesToTheEnd'
  BY <1>1
  DEF ApiInv, HandlerInv, KillInv, PointersValid, CleanExit, ServesToTheEnd, Mains
<1>4. OwnerInv'
  BY <1>1 DEF OwnerInv, BeforeJoin, AfterJoin
<1>5. Given' /\ ReturnInv' /\ OneUpdater' /\ MainsUpdateLiveClocks'
  BY <1>1, Zenon
  DEF IInv, Given, ReturnInv, OneUpdater, MainsUpdateLiveClocks, UpdatesLiveClock, UsesDeleted
<1> QED
  BY <1>2, <1>3, <1>4, <1>5 DEF IInv

LEMMA DeleteStep ==
    ASSUME IInv, Delete
    PROVE  IInv'
<1> USE ScriptFacts, Control
<1>1. /\ main = "deleting" /\ program # "script"
      /\ livePlc' \subseteq livePlc /\ liveCli' \subseteq liveCli
      /\ program' = program /\ plc' = plc /\ cli' = cli /\ built' = built
      /\ thread' = thread /\ end_clocks' = end_clocks /\ runs' = runs
      /\ handlers' = handlers /\ call' = call /\ doubled' = doubled /\ server' = server
      /\ kills' = kills /\ died' = died
  BY DEF Delete, updaters, api, killing, Mains
<1>2. \/ main' = "deleting" /\ (livePlc' # {} => liveCli' = built)
      \/ main' \in {"joining server", "exiting"} /\ livePlc' = {} /\ liveCli' = {}
         /\ (main' = "joining server" => program = "standalone")
  BY <1>1 DEF Delete, OwnerInv
<1>3. \A t \in Threads : thread[t] \in {"none", "returned"}
  BY <1>1 DEF OwnerInv, AfterJoin
<1>4. TypeOK'
  <2>1. main' \in Places /\ livePlc' \subseteq built' /\ liveCli' \subseteq built'
    BY <1>1, <1>2 DEF Places, Mains
  <2> HIDE Control
  <2> QED
    BY <1>1, <2>1, ThreadFacts, Typed
<1>5. ApiInv' /\ HandlerInv' /\ KillInv' /\ PointersValid' /\ CleanExit' /\ ServesToTheEnd'
  BY <1>1, <1>2
  DEF ApiInv, HandlerInv, KillInv, PointersValid, CleanExit, ServesToTheEnd, AfterJoin
<1>6. OwnerInv'
  BY <1>1, <1>2, <1>3 DEF OwnerInv, BeforeJoin, AfterJoin
<1>7. Given' /\ ReturnInv' /\ OneUpdater'
  BY <1>1 DEF IInv, Given, ReturnInv, OneUpdater
<1>8. MainsUpdateLiveClocks'
  BY <1>1, <1>3 DEF MainsUpdateLiveClocks, UpdatesLiveClock, UsesDeleted
<1> QED
  BY <1>4, <1>5, <1>6, <1>7, <1>8 DEF IInv

LEMMA UpdateStep ==
    ASSUME IInv, NEW t \in Threads, Update(t)
    PROVE  IInv'
<1> USE ScriptFacts, ThreadFacts
<1>1. /\ program' = program /\ main' = main /\ plc' = plc /\ cli' = cli /\ built' = built
      /\ livePlc' = livePlc /\ liveCli' = liveCli /\ end_clocks' = end_clocks
      /\ runs' = runs /\ handlers' = handlers /\ call' = call /\ doubled' = doubled
      /\ server' = server /\ kills' = kills /\ died' = died /\ ~Over
  BY DEF Update, U!Run, U!UpdateBegin, U!UpdateEnd, U!Return, objects, api, killing
<1>2. /\ thread[t] \in {"asleep", "updating"}
      /\ \E state \in {"asleep", "updating", "returned"} :
            /\ thread' = [thread EXCEPT ![t] = state]
            /\ state = "returned" => end_clocks
  BY DEF Update, U!Run, U!UpdateBegin, U!UpdateEnd, U!Return, U!Becomes
<1>3. /\ thread' \in [Threads -> {"none", "asleep", "updating", "returned"}]
      /\ \A s \in Threads : runs'[s] = Null <=> thread'[s] = "none"
      /\ \A s \in Threads \ {t} : thread'[s] = thread[s]
  BY <1>1, <1>2
<1>4. TypeOK'
  BY <1>1, <1>3, Typed
<1>5. program # "script" => main \in BeforeJoin \cup {"exiting"}
  BY <1>1, <1>2, Control
  DEF OwnerInv, ApiInv, AfterJoin, BeforeJoin, Over, Places, Mains
<1>6. program # "script" => main \in BeforeJoin
  BY <1>2, <1>5, Control DEF OwnerInv, AfterJoin
<1>7. OwnerInv'
  BY <1>1, <1>6, Control DEF OwnerInv, BeforeJoin, AfterJoin
<1>8. MainsUpdateLiveClocks'
  <2>1. program # "script" => runs[t] \in livePlc \cap liveCli
    BY <1>2, <1>6, Control DEF OwnerInv
  <2> QED
    BY <1>1, <1>3, <2>1
    DEF IInv, MainsUpdateLiveClocks, UpdatesLiveClock, UsesDeleted
<1>9. ApiInv' /\ HandlerInv' /\ KillInv' /\ PointersValid' /\ CleanExit' /\ ServesToTheEnd'
  BY <1>1, Control
  DEF ApiInv, HandlerInv, KillInv, PointersValid, CleanExit, ServesToTheEnd, Over
<1>10. Given' /\ OneUpdater'
  BY <1>1 DEF IInv, Given, OneUpdater
<1>11. ReturnInv'
  BY <1>1, <1>2, <1>3 DEF IInv, ReturnInv
<1> QED
  BY <1>4, <1>7, <1>8, <1>9, <1>10, <1>11 DEF IInv

-----------------------------------------------------------------------------

\* No step of a program, of its updaters, of the server or of the network breaks it.
LEMMA Inductively == IInv /\ [Next]_vars => IInv'
<1> SUFFICES ASSUME IInv, [Next]_vars PROVE IInv'
  OBVIOUS
<1>1. CASE Script
  BY <1>1, CallSteps, ckInitializeStep DEF Script
<1>2. CASE Main
  BY <1>2, KeepingSteps, BuildClockStep, LoopEndsStep, DeleteStep DEF Main
<1>3. CASE \E t \in Threads : Update(t)
  BY <1>3, UpdateStep
<1> QED
  BY <1>1, <1>2, <1>3, KeepingSteps DEF Next, Rest, Hang

-----------------------------------------------------------------------------
(* The theorems *)

LEMMA Invariance == Spec => []IInv
BY Initially, Inductively, PTL DEF Spec

\* Every variable keeps its type, for any number of clocks and threads.
THEOREM ProgramsTypeCorrect == Spec => []TypeOK
<1>1. IInv => TypeOK
  BY DEF IInv
<1> QED
  BY <1>1, Invariance, PTL

\* Whatever API calls come in whatever order, plc and cli are null or valid, nothing
\* is deleted twice, and nothing that is not deleted is lost.
THEOREM PointersAreValid == Spec => []PointersValid
<1>1. IInv => PointersValid
  BY DEF IInv
<1> QED
  BY <1>1, Invariance, PTL

\* Every clock that is there has a thread that was started for it and that is within
\* run(), asleep or updating, until end_clocks is set: after any sequence of
\* ckInitialize() and ckTerminate(), and for all the clocks of cktest-standalone.
HasUpdater ==
    \A c \in livePlc :
        end_clocks \/ \E t \in Threads : runs[t] = c /\ thread[t] \in {"asleep", "updating"}

THEOREM ClocksHaveUpdaters == Spec => []HasUpdater
<1>1. IInv => HasUpdater
  BY NullAssumption, ThreadFacts, ScriptFacts DEF IInv, HasUpdater, Given, ReturnInv
<1> QED
  BY <1>1, Invariance, PTL

\* No clock has two updater threads, unless ckInitialize() was called twice in a row.
THEOREM UpdatersAreAlone == Spec => []OneUpdater
<1>1. IInv => OneUpdater
  BY DEF IInv
<1> QED
  BY <1>1, Invariance, PTL

\* A program that ends by itself leaves no clock or client undeleted.
THEOREM ExitIsClean == Spec => []CleanExit
<1>1. IInv => CleanExit
  BY DEF IInv
<1> QED
  BY <1>1, Invariance, PTL

\* ckphaselock and cktest-standalone never delete a clock or a client in use by an updater.
THEOREM MainsOutliveUpdaters == Spec => []MainsUpdateLiveClocks
<1>1. IInv => MainsUpdateLiveClocks
  BY DEF IInv
<1> QED
  BY <1>1, Invariance, PTL

\* The server of cktest-standalone does not return before end_clocks is set.
THEOREM ServerOutlivesLoop == Spec => []ServesToTheEnd
<1>1. IInv => ServesToTheEnd
  BY DEF IInv
<1> QED
  BY <1>1, Invariance, PTL
=============================================================================
