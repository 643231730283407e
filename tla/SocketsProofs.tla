---------------------------- MODULE SocketsProofs ----------------------------
(***************************************************************************)
(* That every socket is open where it is used, and closed once and for all *)
(* when it is gone; that a packet is, on every host, what another wrote;   *)
(* and that the server replies to a host, prints of it, and is killed by it*)
(* only as that host's own packets say: for any number of clients that are *)
(* made and deleted any number of times, and whatever they and other       *)
(* programs send.                                                          *)
(***************************************************************************)
EXTENDS Sockets, SequenceTheorems, FiniteSetTheorems, WellFoundedInduction, TLAPS

-----------------------------------------------------------------------------
(* Sockets *)

\* Where a process uses its socket, and where it has none.
Using == {"bind()", "ready", "select()", "recv()"}
Without == {"no client", "socket()", "returned"}

FunctionsInv ==
    /\ DOMAIN pc = Procs /\ DOMAIN init = Procs
    /\ DOMAIN sock = Procs /\ DOMAIN addrinfo = Procs /\ DOMAIN open = Procs

\* A process has one descriptor open while it may use its socket, and none before or
\* after: so the descriptor that the constructor gets cannot add to an old one.
DescriptorInv(p) ==
    /\ pc[p] \in Using => addrinfo[p] /\ open[p] = {sock[p]}
    /\ pc[p] \in Without => open[p] = {}
    /\ open[p] \subseteq {sock[p]}

BoundInv == pc[Server] \in Using \ {"bind()"} => bound

IInv == FunctionsInv /\ (\A p \in Procs : DescriptorInv(p)) /\ BoundInv

LEMMA ServerIsNoClient == Server \in Procs /\ Server \notin Clients
BY SocketsAssumption DEF Procs

\* A process moves on, and its socket stays as it is.
LEMMA GotoStep ==
    ASSUME IInv, NEW p \in Procs, NEW place, Goto(p, place), UNCHANGED sockets,
           place \in Using => pc[p] \in Using, place \in Without => pc[p] \in Without,
           bound' = bound \/ bound', p = Server => bound' \/ place \notin Using
    PROVE  IInv'
<1>1. FunctionsInv'
  BY DEF IInv, FunctionsInv, Goto, sockets
<1>2. ASSUME NEW q \in Procs PROVE DescriptorInv(q)'
  BY <1>2 DEF IInv, FunctionsInv, DescriptorInv, Goto, sockets
<1>3. BoundInv'
  BY ServerIsNoClient DEF IInv, FunctionsInv, BoundInv, Goto
<1> QED
  BY <1>1, <1>2, <1>3 DEF IInv

\* The socket is destroyed.
LEMMA DestroyedStep ==
    ASSUME IInv, NEW p \in Procs, NEW place, Goto(p, place), Destroyed(p),
           place \in Without, bound' = bound
    PROVE  IInv'
<1>1. FunctionsInv'
  BY DEF IInv, FunctionsInv, Goto, Destroyed
<1>2. ASSUME NEW q \in Procs PROVE DescriptorInv(q)'
  BY <1>2 DEF IInv, FunctionsInv, DescriptorInv, Goto, Destroyed, Using, Without
<1>3. BoundInv'
  BY ServerIsNoClient DEF IInv, FunctionsInv, BoundInv, Goto, Using, Without
<1> QED
  BY <1>1, <1>2, <1>3 DEF IInv

LEMMA MakeStep ==
    ASSUME IInv, NEW p \in Procs, Make(p)
    PROVE  IInv'
<1> DEFINE next == IF p = Server THEN "bind()" ELSE "ready"
<1>0. pc[p] = "socket()" /\ bound' = bound
  BY DEF Make, Construct, serving
<1>1. CASE /\ Goto(p, next)
           /\ sock' = [sock EXCEPT ![p] = NewDescriptor(p)]
           /\ open' = [open EXCEPT ![p] = open[p] \cup {NewDescriptor(p)}]
           /\ addrinfo' = [addrinfo EXCEPT ![p] = TRUE]
           /\ init' = [init EXCEPT ![p] = TRUE]
  <2> DEFINE d == NewDescriptor(p)
  <2> HIDE DEF d
  <2>1. sock' = [sock EXCEPT ![p] = d] /\ open' = [open EXCEPT ![p] = open[p] \cup {d}]
    BY <1>1 DEF d
  <2>2. FunctionsInv'
    BY <1>1, <2>1 DEF IInv, FunctionsInv, Goto
  <2>3. open[p] = {}
    BY <1>0 DEF IInv, DescriptorInv, Without
  <2>4. ASSUME NEW q \in Procs PROVE DescriptorInv(q)'
    <3>1. CASE q = p
      <4>1. /\ pc'[p] = next /\ sock'[p] = d /\ open'[p] = {d} /\ addrinfo'[p]
        BY <1>1, <2>1, <2>3 DEF IInv, FunctionsInv, Goto
      <4>2. next \in {"bind()", "ready"}
        OBVIOUS
      <4> HIDE DEF next
      <4> QED
        BY <3>1, <4>1, <4>2 DEF DescriptorInv, Using, Without
    <3>2. CASE q # p
      BY <1>1, <2>1, <3>2 DEF IInv, FunctionsInv, DescriptorInv, Goto
    <3> QED
      BY <3>1, <3>2
  <2>5. BoundInv'
    BY <1>0, <1>1, ServerIsNoClient DEF IInv, FunctionsInv, BoundInv, Goto, Using
  <2> QED
    BY <2>2, <2>4, <2>5 DEF IInv
<1>2. CASE Fatal(p, next) /\ UNCHANGED sockets
  <2>1. PICK place \in {"abort()", "exit(1)"} : Goto(p, place)
    BY <1>2 DEF Fatal
  <2>2. FunctionsInv'
    BY <1>2, <2>1 DEF IInv, FunctionsInv, Goto, sockets
  <2>3. ASSUME NEW q \in Procs PROVE DescriptorInv(q)'
    BY <1>0, <1>2, <2>1, <2>3 DEF IInv, FunctionsInv, DescriptorInv, Goto, Using, Without, sockets
  <2>4. BoundInv'
    BY <1>0, <1>2, <2>1, ServerIsNoClient
    DEF IInv, FunctionsInv, BoundInv, Goto, Using
  <2> QED
    BY <2>2, <2>3, <2>4 DEF IInv
<1> QED
  BY <1>1, <1>2 DEF Make, Construct

-----------------------------------------------------------------------------

LEMMA InitInv == Init => IInv
BY ServerIsNoClient DEF Init, IInv, FunctionsInv, DescriptorInv, BoundInv, Using, Without

LEMMA Invariance == Spec => []IInv
<1>1. IInv /\ [Next]_vars => IInv'
  <2> SUFFICES ASSUME IInv, [Next]_vars PROVE IInv'
    OBVIOUS
  <2> USE DEF Using, Without
  <2>1. ASSUME NEW p \in Procs, Make(p) PROVE IInv'
    BY <2>1, MakeStep
  <2>2. CASE Bind
    <3>1. pc[Server] = "bind()" /\ UNCHANGED sockets
      BY <2>2 DEF Bind
    <3>2. CASE Goto(Server, "ready") /\ bound' = TRUE
      BY <3>1, <3>2, ServerIsNoClient, GotoStep
    <3>3. CASE Fatal(Server, "ready") /\ UNCHANGED bound
      <4>1. PICK place \in {"abort()", "exit(1)"} : Goto(Server, place)
        BY <3>3 DEF Fatal
      <4> QED
        BY <3>1, <3>3, <4>1, ServerIsNoClient, GotoStep
    <3> QED
      BY <2>2, <3>2, <3>3 DEF Bind
  <2>3. CASE UNCHANGED <<pc, sockets, bound>>
    BY <2>3 DEF IInv, FunctionsInv, DescriptorInv, BoundInv, sockets
  <2>4. ASSUME NEW d \in net, Reply(d) \/ Acknowledge(d) \/ Ignore(d) PROVE IInv'
    BY <2>3, <2>4 DEF Reply, Acknowledge, Ignore, Receive
  <2>5. ASSUME NEW d \in net, Return(d) PROVE IInv'
    BY <2>5, ServerIsNoClient, DestroyedStep DEF Return, Receive
  <2>6. ASSUME NEW c \in Clients, Client(c) PROVE IInv'
    <3>1. c \in Procs /\ c # Server
      BY ServerIsNoClient DEF Procs
    <3>2. CASE New(c)
      BY <3>1, <3>2, GotoStep DEF New, serving
    <3>3. CASE Delete(c)
      BY <3>1, <3>3, DestroyedStep DEF Delete, serving
    <3>4. CASE Die(c)
      BY <2>3, <3>4 DEF Die, serving
    <3>5. CASE Request(c)
      <4>1. PICK place \in {"ready", "select()"} : Goto(c, place)
        BY <3>5 DEF Request
      <4> QED
        BY <3>1, <3>5, <4>1, GotoStep DEF Request, serving
    <3>6. CASE Select(c)
      BY <3>1, <3>6, GotoStep DEF Select, serving
    <3>7. CASE Recv(c)
      <4>1. PICK place \in {"ready", "select()"} : Goto(c, place)
        BY <3>7 DEF Recv
      <4> QED
        BY <3>1, <3>7, <4>1, GotoStep DEF Recv, serving
    <3> QED
      BY <2>6, <3>2, <3>3, <3>4, <3>5, <3>6, <3>7 DEF Client
  <2>7. CASE UNCHANGED vars
    BY <2>3, <2>7 DEF vars, sockets
  <2> QED
    BY <2>1, <2>2, <2>4, <2>5, <2>6, <2>7 DEF Next, Run
<1> QED
  BY InitInv, <1>1, PTL DEF Spec

-----------------------------------------------------------------------------
(* Lemmas about numbers *)

\* A set of numbers has a least one: so induction is possible.
LEMMA Least ==
    ASSUME NEW T \in SUBSET Nat, T # {}
    PROVE  \E x \in T : \A y \in T : x <= y
<1> DEFINE R == OpToRel(<, Nat)
<1>1. \E x \in T : \A y \in T : ~ (<<y, x>> \in R)
  <2>1. IsWellFoundedOn(R, Nat)
    BY NatLessThanWellFounded
  <2> HIDE DEF R
  <2> QED
    BY <2>1, WFMin
<1>2. \A x, y \in Nat : y < x => <<y, x>> \in R
  BY DEF OpToRel
<1> HIDE DEF R
<1>3. \A x, y \in Nat : ~(y < x) => x <= y
  OBVIOUS
<1> QED
  BY <1>1, <1>2, <1>3, Zenon

LEMMA Induction ==
    ASSUME NEW S, 0 \in S, \A n \in Nat : n \in S => n + 1 \in S
    PROVE  Nat \subseteq S
<1> DEFINE T == Nat \ S
<1>1. SUFFICES ASSUME T # {} PROVE FALSE
  OBVIOUS
<1>2. PICK x \in T : \A y \in T : x <= y
  <2>1. T \in SUBSET Nat
    OBVIOUS
  <2> HIDE DEF T
  <2> QED
    BY <1>1, <2>1, Least
<1>3. x # 0 /\ x - 1 \in Nat
  OBVIOUS
<1>4. x - 1 \in S
  BY <1>2, <1>3
<1> QED
  BY <1>3, <1>4

LEMMA DivFacts ==
    ASSUME NEW a \in Int, NEW b \in Nat \ {0}
    PROVE  /\ a \div b \in Int /\ a % b \in 0 .. b - 1
           /\ a = b * (a \div b) + (a % b)
OBVIOUS

\* A multiple that is less than one is none.
LEMMA NoMultiple ==
    ASSUME NEW b \in Nat \ {0}, NEW k \in Int, b * k < b, -b < b * k
    PROVE  k = 0
<1>1. CASE k >= 1
  <2>1. b * k = b + b * (k - 1) /\ b * (k - 1) \in Nat
    BY <1>1
  <2> QED
    BY <2>1
<1>2. CASE k <= -1
  <2>1. b * k = -b - b * (-k - 1) /\ b * (-k - 1) \in Nat
    BY <1>2
  <2> QED
    BY <2>1
<1> QED
  BY <1>1, <1>2

\* Quotient and remainder are the only ones.
LEMMA DivUnique ==
    ASSUME NEW a \in Int, NEW b \in Nat \ {0}, NEW k \in Int, NEW r \in 0 .. b - 1,
           a = b * k + r
    PROVE  a \div b = k /\ a % b = r
<1> DEFINE q == a \div b
           s == a % b
<1>1. q \in Int /\ s \in 0 .. b - 1 /\ a = b * q + s
  BY DivFacts
<1> HIDE DEF q, s
<1>2. b * (q - k) = b * q - b * k /\ b * q \in Int /\ b * k \in Int
  BY <1>1
<1>3. b * (q - k) < b /\ -b < b * (q - k)
  BY <1>1, <1>2
<1>4. q - k = 0
  BY <1>1, <1>3, NoMultiple
<1>5. q = k
  BY <1>1, <1>4
<1> QED
  BY <1>1, <1>2, <1>5 DEF q, s

LEMMA DivPlus ==
    ASSUME NEW a \in Int, NEW b \in Nat \ {0}, NEW k \in Int
    PROVE  (a + b * k) \div b = (a \div b) + k /\ (a + b * k) % b = a % b
<1> DEFINE q == a \div b
           s == a % b
<1>1. q \in Int /\ s \in 0 .. b - 1 /\ a = b * q + s
  BY DivFacts
<1> HIDE DEF q, s
<1>2. a + b * k = b * (q + k) + s /\ a + b * k \in Int /\ q + k \in Int
  BY <1>1
<1>3. (a + b * k) \div b = q + k /\ (a + b * k) % b = s
  BY <1>1, <1>2, DivUnique
<1> QED
  BY <1>3 DEF q, s

LEMMA TimesType ==
    /\ \A a, b \in Int : a * b \in Int
    /\ \A a, b \in Nat : a * b \in Nat
    /\ \A a, b \in Nat \ {0} : a * b \in Nat \ {0}
<1>1. \A a, b \in Nat \ {0} : a * b \in Nat \ {0}
  <2> TAKE a, b \in Nat \ {0}
  <2>1. a * b = a + a * (b - 1) /\ a * (b - 1) \in Nat
    OBVIOUS
  <2> QED
    BY <2>1
<1> QED
  BY <1>1

\* Dividing by m and then by b is dividing by m * b; and what remains.
LEMMA DivTwice ==
    ASSUME NEW a \in Int, NEW m \in Nat \ {0}, NEW b \in Nat \ {0}
    PROVE  /\ a \div (m * b) = (a \div m) \div b
           /\ a % (m * b) = (a % m) + m * ((a \div m) % b)
<1> DEFINE q == a \div m
           r == a % m
           p == q \div b
           s == q % b
<1>1. q \in Int /\ r \in 0 .. m - 1 /\ a = m * q + r
  BY DivFacts
<1>2. p \in Int /\ s \in 0 .. b - 1 /\ q = b * p + s
  <2> HIDE DEF q
  <2> QED
    BY <1>1, DivFacts
<1> HIDE DEF q, r, p, s
<1>3. m * b \in Nat \ {0} /\ m * s \in Nat
  BY <1>2, TimesType
<1>4. a = (m * b) * p + (r + m * s)
  <2>1. m * q = m * (b * p) + m * s
    BY <1>2
  <2>2. m * (b * p) = (m * b) * p
    BY <1>2
  <2>3. m * (b * p) \in Int /\ m * q \in Int
    BY <1>1, <1>2
  <2> QED
    BY <1>1, <1>3, <2>1, <2>2, <2>3
<1>5. r + m * s \in 0 .. m * b - 1
  <2>1. m * b = m * s + (m + m * ((b - s) - 1)) /\ m * ((b - s) - 1) \in Nat
    BY <1>2
  <2> QED
    BY <1>1, <1>3, <2>1
<1>6. a \div (m * b) = p /\ a % (m * b) = r + m * s
  BY <1>2, <1>3, <1>4, <1>5, DivUnique
<1> QED
  BY <1>6 DEF q, r, p, s

-----------------------------------------------------------------------------
(* Digits *)

Power(n) == Base^n
Half == Base^Width \div 2
Digit(t, n) == (t \div Power(n)) % Base

LEMMA ConstantsType ==
    /\ Base \in Nat \ {0} /\ Width \in Nat \ {0} /\ Million \in Nat \ {0}
    /\ IntRange \in Nat \ {0} /\ Base % 2 = 0 /\ IntRange % 2 = 0
BY TimestampsAssumption

LEMMA PowerFacts ==
    /\ Power(0) = 1
    /\ \A n \in 0 .. Width - 1 : Power(n + 1) = Base * Power(n)
BY PowersAssumption, Zenon DEF Power

LEMMA PowerType == \A n \in 0 .. Width : Power(n) \in Nat \ {0}
<1> DEFINE S == {n \in Nat : n <= Width => Power(n) \in Nat \ {0}}
<1>1. 0 \in S
  BY PowerFacts
<1>2. ASSUME NEW n \in Nat, n \in S PROVE n + 1 \in S
  <2>1. CASE n + 1 <= Width
    <3>1. n \in 0 .. Width - 1 /\ Power(n) \in Nat \ {0} /\ Base \in Nat \ {0}
      BY <1>2, <2>1, ConstantsType
    <3>2. Power(n + 1) = Base * Power(n)
      BY <3>1, PowerFacts
    <3>3. Base * Power(n) \in Nat \ {0}
      BY <3>1, TimesType
    <3> QED
      BY <3>2, <3>3
  <2>2. CASE ~(n + 1 <= Width)
    BY <2>2
  <2> QED
    BY <2>1, <2>2
<1> HIDE DEF S
<1>3. Nat \subseteq S
  BY <1>1, <1>2, Induction
<1> QED
  BY <1>3, ConstantsType DEF S

LEMMA PowerPlus ==
    ASSUME NEW k \in Nat
    PROVE  \A n \in Nat : k + n <= Width => Power(k + n) = Power(k) * Power(n)
<1> DEFINE S == {n \in Nat : k + n <= Width => Power(k + n) = Power(k) * Power(n)}
<1>1. 0 \in S
  <2>1. k + 0 = k /\ (k <= Width => Power(k) \in Nat)
    BY PowerType, ConstantsType
  <2>2. k <= Width => Power(k) = Power(k) * 1
    BY <2>1
  <2> QED
    BY <2>1, <2>2, PowerFacts
<1>2. ASSUME NEW n \in Nat, n \in S PROVE n + 1 \in S
  <2>1. CASE k + (n + 1) <= Width
    <3> DEFINE p == Power(k)
               q == Power(n)
    <3>1. /\ k \in 0 .. Width /\ n \in 0 .. Width - 1 /\ k + n \in 0 .. Width - 1
          /\ k + (n + 1) = (k + n) + 1 /\ k + n <= Width
      BY <2>1, ConstantsType
    <3>2. p \in Nat /\ q \in Nat /\ Base \in Nat
      BY <3>1, PowerType, ConstantsType
    <3>3. Power(k + (n + 1)) = Base * Power(k + n) /\ Power(n + 1) = Base * q
      BY <3>1, PowerFacts
    <3>4. Power(k + n) = p * q
      BY <1>2, <3>1
    <3> HIDE DEF p, q
    <3>5. Base * (p * q) = p * (Base * q)
      BY <3>2
    <3>6. Power(k + (n + 1)) = p * Power(n + 1)
      BY <3>3, <3>4, <3>5
    <3> QED
      BY <3>6 DEF p
  <2>2. CASE ~(k + (n + 1) <= Width)
    BY <2>2
  <2> QED
    BY <2>1, <2>2
<1> HIDE DEF S
<1>3. Nat \subseteq S
  BY <1>1, <1>2, Induction
<1> QED
  BY <1>3 DEF S

LEMMA DigitType ==
    ASSUME NEW t \in Int, NEW n \in 0 .. Width
    PROVE  t \div Power(n) \in Int /\ Digit(t, n) \in 0 .. Base - 1
<1>1. Power(n) \in Nat \ {0} /\ Base \in Nat \ {0}
  BY PowerType, ConstantsType
<1>2. t \div Power(n) \in Int
  BY <1>1, DivFacts
<1> QED
  BY <1>1, <1>2, DivFacts DEF Digit

\* What is added at the nth digit does not change the lower ones.
LEMMA HigherDigit ==
    ASSUME NEW t \in Int, NEW c \in Int, NEW n \in 0 .. Width, NEW k \in 0 .. n - 1
    PROVE  Digit(t + Power(n) * c, k) = Digit(t, k)
<1> DEFINE p == Power(k)
           q == Power((n - k) - 1)
           d == t \div p
<1>1. /\ k \in 0 .. Width - 1 /\ (n - k) - 1 \in Nat /\ k + ((n - k) - 1) = n - 1
      /\ n - 1 \in 0 .. Width - 1 /\ (n - 1) + 1 = n /\ n - 1 <= Width
      /\ (n - k) - 1 \in 0 .. Width
  BY ConstantsType
<1>2. p \in Nat \ {0} /\ q \in Nat \ {0} /\ Base \in Nat \ {0}
  BY <1>1, PowerType, ConstantsType
<1>3. Power(n) = Base * Power(n - 1)
  BY <1>1, PowerFacts
<1>4. Power(n - 1) = p * q
  BY <1>1, PowerPlus
<1>5. d \in Int
  BY <1>2, DivFacts
<1> HIDE DEF p, q, d
<1>6. Power(n) * c = p * (Base * (q * c)) /\ Base * (q * c) \in Int /\ q * c \in Int
  <2>1. q * c \in Int
    BY <1>2
  <2>2. (Base * (p * q)) * c = p * (Base * (q * c))
    BY <1>2
  <2> QED
    BY <1>2, <1>3, <1>4, <2>1, <2>2
<1>7. (t + p * (Base * (q * c))) \div p = d + Base * (q * c)
  BY <1>2, <1>6, DivPlus DEF d
<1>8. (d + Base * (q * c)) % Base = d % Base
  BY <1>2, <1>5, <1>6, DivPlus
<1> QED
  BY <1>6, <1>7, <1>8, Zenon DEF Digit, p, d

\* The next digit of a remainder.
LEMMA NextDigit ==
    ASSUME NEW t \in Int, NEW n \in 0 .. Width - 1
    PROVE  t % Power(n + 1) = (t % Power(n)) + Power(n) * Digit(t, n)
<1>1. Power(n) \in Nat \ {0} /\ Base \in Nat \ {0}
  BY PowerType, ConstantsType
<1>2. Power(n + 1) = Power(n) * Base
  BY <1>1, PowerFacts
<1>3. t % (Power(n) * Base) = (t % Power(n)) + Power(n) * ((t \div Power(n)) % Base)
  BY <1>1, DivTwice
<1> QED
  BY <1>2, <1>3 DEF Digit

\* The digits are the remainder's.
LEMMA SameDigits ==
    ASSUME NEW t \in Int, NEW u \in Int, \A k \in 0 .. Width - 1 : Digit(t, k) = Digit(u, k)
    PROVE  t % Power(Width) = u % Power(Width)
<1> DEFINE S == {n \in Nat : n <= Width => t % Power(n) = u % Power(n)}
<1>1. 0 \in S
  <2>1. t % 1 = 0 /\ u % 1 = 0
    OBVIOUS
  <2> QED
    BY <2>1, PowerFacts
<1>2. ASSUME NEW n \in Nat, n \in S PROVE n + 1 \in S
  <2>1. CASE n + 1 <= Width
    <3>1. n \in 0 .. Width - 1 /\ n <= Width
      BY <2>1, ConstantsType
    <3>2. /\ t % Power(n + 1) = (t % Power(n)) + Power(n) * Digit(t, n)
          /\ u % Power(n + 1) = (u % Power(n)) + Power(n) * Digit(u, n)
      BY <3>1, NextDigit
    <3>3. t % Power(n) = u % Power(n) /\ Digit(t, n) = Digit(u, n)
      BY <1>2, <3>1
    <3> QED
      BY <3>2, <3>3
  <2>2. CASE ~(n + 1 <= Width)
    BY <2>2
  <2> QED
    BY <2>1, <2>2
<1> HIDE DEF S
<1>3. Nat \subseteq S
  BY <1>1, <1>2, Induction
<1> QED
  BY <1>3, ConstantsType DEF S

\* Any digits are those of a number.
LEMMA AnyDigits ==
    ASSUME NEW b \in [0 .. Width - 1 -> 0 .. Base - 1]
    PROVE  \E v \in 0 .. Power(Width) - 1 : \A k \in 0 .. Width - 1 : Digit(v, k) = b[k]
<1> DEFINE Has(n) == \E v \in 0 .. Power(n) - 1 : \A k \in 0 .. n - 1 : Digit(v, k) = b[k]
           S == {n \in Nat : n <= Width => Has(n)}
<1>1. 0 \in S
  <2>1. 0 \in 0 .. Power(0) - 1 /\ 0 .. 0 - 1 = {}
    BY PowerFacts
  <2> QED
    BY <2>1
<1>2. ASSUME NEW n \in Nat, n \in S PROVE n + 1 \in S
  <2>1. ASSUME n + 1 <= Width PROVE Has(n + 1)
    <3> DEFINE p == Power(n)
    <3>1. n \in 0 .. Width - 1 /\ n \in 0 .. Width /\ n <= Width
      BY <2>1, ConstantsType
    <3>2. p \in Nat \ {0} /\ Base \in Nat \ {0} /\ Power(n + 1) = Base * p
      BY <3>1, PowerFacts, PowerType, ConstantsType
    <3>3. PICK v \in 0 .. p - 1 : \A k \in 0 .. n - 1 : Digit(v, k) = b[k]
      BY <1>2, <3>1
    <3>4. b[n] \in 0 .. Base - 1
      BY <3>1
    <3> DEFINE c == b[n]
               w == v + p * c
    <3> HIDE DEF c
    <3>5. c \in 0 .. Base - 1
      BY <3>4 DEF c
    <3>6. w \in 0 .. Power(n + 1) - 1
      <4> HIDE DEF p
      <4>1. Base * p = p * c + (p + p * ((Base - c) - 1)) /\ p * ((Base - c) - 1) \in Nat
            /\ p * c \in Nat
        BY <3>2, <3>5
      <4> QED
        BY <3>2, <3>3, <3>5, <4>1
    <3>7. ASSUME NEW k \in 0 .. n - 1 PROVE Digit(w, k) = b[k]
      <4>1. Digit(v + Power(n) * c, k) = Digit(v, k)
        BY <3>1, <3>2, <3>3, <3>5, HigherDigit
      <4> QED
        BY <3>3, <4>1
    <3>8. Digit(w, n) = c
      <4> HIDE DEF p
      <4>1. w \in Int /\ w = p * c + v
        BY <3>2, <3>3, <3>5
      <4>2. c = Base * 0 + c /\ c \in Int
        BY <3>2, <3>5
      <4> HIDE DEF w
      <4>3. w \div p = c
        BY <3>2, <3>3, <4>1, <4>2, DivUnique
      <4>4. c % Base = c
        BY <3>2, <3>5, <4>2, DivUnique
      <4> QED
        BY <4>3, <4>4 DEF Digit, p
    <3> HIDE DEF w
    <3>9. \A k \in 0 .. (n + 1) - 1 : Digit(w, k) = b[k]
      <4>1. \A k \in 0 .. (n + 1) - 1 : k \in 0 .. n - 1 \/ k = n
        OBVIOUS
      <4> QED
        BY <3>7, <3>8, <4>1 DEF c
    <3> QED
      BY <3>6, <3>9
  <2> QED
    BY <2>1
<1> HIDE DEF S
<1>3. Nat \subseteq S
  BY <1>1, <1>2, Induction
<1>4. Width \in S
  BY <1>3, ConstantsType
<1> HIDE DEF Has
<1>5. Has(Width)
  BY <1>4, ConstantsType DEF S
<1> QED
  BY <1>5 DEF Has

-----------------------------------------------------------------------------
(* Bytes *)

Byte == 0 .. Base - 1
Words == [1..Width -> Byte]

LEMMA SameWord ==
    ASSUME NEW v \in Words, NEW w \in Words, \A i \in 1..Width : v[i] = w[i]
    PROVE  v = w
<1>1. v = [i \in 1..Width |-> v[i]] /\ w = [i \in 1..Width |-> w[i]]
  BY DEF Words
<1> QED
  BY <1>1, Zenon

LEMMA HalfFacts == Half \in Nat \ {0} /\ Power(Width) = 2 * Half
<1> DEFINE p == Power(Width - 1)
           b == Base \div 2
<1>1. b \in Nat \ {0} /\ Base = 2 * b
  BY ConstantsType
<1>2. p \in Nat \ {0} /\ Power(Width) = Base * p
  <2>1. Width - 1 \in 0 .. Width - 1 /\ Width - 1 \in 0 .. Width /\ (Width - 1) + 1 = Width
    BY ConstantsType
  <2> QED
    BY <2>1, PowerFacts, PowerType
<1> HIDE DEF p, b
<1>3. b * p \in Nat \ {0} /\ Base * p = 2 * (b * p)
  <2>1. (2 * b) * p = 2 * (b * p)
    BY <1>1, <1>2
  <2> QED
    BY <1>1, <1>2, <2>1, TimesType
<1>4. Power(Width) \div 2 = b * p
  BY <1>2, <1>3
<1> QED
  BY <1>2, <1>3, <1>4 DEF Half, Power

LEMMA Int64Facts == Int64 = -Half .. Half - 1 /\ Int64 \subseteq Int /\ usecInvalid = Half - 1
<1>1. Int64 = -Half .. Half - 1 /\ usecInvalid = Half - 1
  BY DEF Int64, usecInvalid, Half
<1> QED
  BY <1>1, HalfFacts

LEMMA BigEndianFacts ==
    ASSUME NEW t \in Int
    PROVE  /\ BigEndian(t) \in Words
           /\ \A i \in 1..Width : BigEndian(t)[i] = Digit(t, Width - i)
<1>1. BigEndian(t) = [i \in 1..Width |-> Digit(t, Width - i)]
  BY Zenon DEF BigEndian, Digit, Power
<1>2. \A i \in 1..Width : Digit(t, Width - i) \in Byte
  BY DigitType, ConstantsType DEF Byte
<1> QED
  BY <1>1, <1>2 DEF Words

\* Different numbers have different bytes.
LEMMA BigEndianInjective ==
    ASSUME NEW t \in Int64, NEW u \in Int64, BigEndian(t) = BigEndian(u)
    PROVE  t = u
<1> DEFINE p == Power(Width)
           q == t \div p
           r == u \div p
           s == t % p
<1>1. t \in Int /\ u \in Int /\ p \in Nat \ {0}
  BY Int64Facts, HalfFacts
<1>2. ASSUME NEW k \in 0 .. Width - 1 PROVE Digit(t, k) = Digit(u, k)
  <2>1. Width - k \in 1..Width /\ Width - (Width - k) = k
    BY ConstantsType
  <2> QED
    BY <1>1, <2>1, BigEndianFacts
<1>3. t % p = u % p
  BY <1>1, <1>2, SameDigits
<1>4. q \in Int /\ r \in Int /\ s \in Int /\ t = p * q + s /\ u = p * r + s
  <2> HIDE DEF p
  <2> QED
    BY <1>1, <1>3, DivFacts
<1> HIDE DEF p, q, r, s
<1>5. t - u \in Int /\ t - u < p /\ -p < t - u
  BY Int64Facts, HalfFacts DEF p
<1>6. p * (q - r) = p * q - p * r /\ p * q \in Int /\ p * r \in Int
  BY <1>1, <1>4
<1>7. p * (q - r) = t - u
  BY <1>4, <1>6
<1>8. q - r = 0
  BY <1>1, <1>4, <1>5, <1>7, NoMultiple
<1>9. q = r
  BY <1>4, <1>8
<1> QED
  BY <1>4, <1>9

\* Any bytes are those of a number.
LEMMA BigEndianSurjective ==
    ASSUME NEW bytes \in Words
    PROVE  \E t \in Int64 : BigEndian(t) = bytes
<1> DEFINE b == [k \in 0 .. Width - 1 |-> bytes[Width - k]]
           p == Power(Width)
<1>1. \A k \in 0 .. Width - 1 : Width - k \in 1..Width
  BY ConstantsType
<1>2. b \in [0 .. Width - 1 -> 0 .. Base - 1]
  BY <1>1 DEF Words, Byte
<1>3. PICK v \in 0 .. p - 1 : \A k \in 0 .. Width - 1 : Digit(v, k) = b[k]
  BY <1>2, AnyDigits
<1>4. p = 2 * Half /\ Half \in Nat /\ p \in Nat
  BY HalfFacts
<1>5. PICK t \in Int64 : t = v \/ t = v + p * (-1)
  <2> HIDE DEF p
  <2>1. p * (-1) = -p
    BY <1>4
  <2>2. v \in -Half .. Half - 1 \/ v + p * (-1) \in -Half .. Half - 1
    BY <1>4, <2>1
  <2> QED
    BY <2>2, Int64Facts
<1>6. ASSUME NEW k \in 0 .. Width - 1 PROVE Digit(t, k) = Digit(v, k)
  <2>1. v \in Int /\ Width \in 0 .. Width /\ -1 \in Int
    BY <1>4, ConstantsType
  <2>2. Digit(v + Power(Width) * (-1), k) = Digit(v, k)
    BY <2>1, HigherDigit
  <2> QED
    BY <1>5, <2>2
<1>7. t \in Int
  BY Int64Facts
<1>8. ASSUME NEW i \in 1..Width PROVE BigEndian(t)[i] = bytes[i]
  <2>1. Width - i \in 0 .. Width - 1 /\ Width - (Width - i) = i
    BY ConstantsType
  <2>2. b[Width - i] = bytes[i]
    BY <2>1
  <2> HIDE DEF b
  <2> QED
    BY <1>3, <1>6, <1>7, <2>1, <2>2, BigEndianFacts
<1>9. BigEndian(t) = bytes
  BY <1>7, <1>8, BigEndianFacts, SameWord
<1> QED
  BY <1>9

\* So a number and its bytes are as good as one another.
LEMMA NumberFacts ==
    /\ \A bytes \in Words : Number[bytes] \in Int64 /\ BigEndian(Number[bytes]) = bytes
    /\ \A t \in Int64 : BigEndian(t) \in Words /\ Number[BigEndian(t)] = t
<1>1. ASSUME NEW bytes \in Words
      PROVE  Number[bytes] \in Int64 /\ BigEndian(Number[bytes]) = bytes
  <2>1. Number[bytes] = CHOOSE t \in Int64 : BigEndian(t) = bytes
    BY DEF Number, Words, Byte
  <2> QED
    BY <2>1, BigEndianSurjective
<1>2. ASSUME NEW t \in Int64
      PROVE  BigEndian(t) \in Words /\ Number[BigEndian(t)] = t
  <2>1. BigEndian(t) \in Words
    BY Int64Facts, BigEndianFacts
  <2> QED
    BY <1>1, <2>1, BigEndianInjective
<1> QED
  BY <1>1, <1>2

LEMMA ReverseFacts ==
    ASSUME NEW bytes \in Words
    PROVE  Reverse(bytes) \in Words /\ Reverse(Reverse(bytes)) = bytes
<1>1. Width \in Nat
  BY ConstantsType
<1>2. \A w \in Words : Len(w) = Width
  BY <1>1 DEF Words
<1>3. ASSUME NEW w \in Words
      PROVE  /\ Reverse(w) = [i \in 1..Width |-> w[(Width - i) + 1]]
             /\ Reverse(w) \in Words
  <2>1. Reverse(w) = [i \in 1..Width |-> w[(Width - i) + 1]]
    BY <1>2 DEF Reverse
  <2>2. \A i \in 1..Width : (Width - i) + 1 \in 1..Width
    BY <1>1
  <2> QED
    BY <2>1, <2>2 DEF Words
<1>4. ASSUME NEW i \in 1..Width PROVE Reverse(Reverse(bytes))[i] = bytes[i]
  <2>1. PICK j \in 1..Width : j = (Width - i) + 1 /\ (Width - j) + 1 = i
    BY <1>1
  <2>2. Reverse(bytes) \in Words /\ Reverse(bytes)[j] = bytes[i]
    BY <1>3, <2>1
  <2>3. Reverse(Reverse(bytes))[i] = Reverse(bytes)[j]
    BY <1>3, <2>1, <2>2
  <2> QED
    BY <2>2, <2>3
<1> QED
  BY <1>3, <1>4, SameWord

\* A time that one host makes into bytes is what another, of any byte order, makes of them.
LEMMA RoundTrip ==
    ASSUME NEW from \in Orders, NEW to \in Orders, NEW t \in Int64
    PROVE  /\ BytesFromTp(from, t) \in Words
           /\ TpFromBytes(to, BytesFromTp(from, t)) = t
<1> DEFINE b == BigEndian(t)
<1>1. b \in Words /\ Number[b] = t
  BY NumberFacts
<1>2. Reverse(b) \in Words /\ Reverse(Reverse(b)) = b
  BY <1>1, ReverseFacts
<1> HIDE DEF b
<1>3. BytesFromTp(from, t) = b
  <2>1. CASE from = "big endian"
    BY <2>1 DEF BytesFromTp, InMemory, REORDER, b
  <2>2. CASE from = "little endian"
    <3>1. BytesFromTp(from, t) = Reverse(BigEndian(Number[Reverse(b)]))
      BY <2>2 DEF BytesFromTp, InMemory, REORDER, bswap64, b
    <3>2. BigEndian(Number[Reverse(b)]) = Reverse(b)
      BY <1>2, NumberFacts
    <3> QED
      BY <1>2, <3>1, <3>2
  <2> QED
    BY <2>1, <2>2 DEF Orders
<1>4. TpFromBytes(to, b) = t
  <2>1. CASE to = "big endian"
    BY <1>1, <2>1 DEF TpFromBytes, FromMemory, REORDER
  <2>2. CASE to = "little endian"
    <3>1. TpFromBytes(to, b) = Number[Reverse(BigEndian(Number[Reverse(b)]))]
      BY <2>2 DEF TpFromBytes, FromMemory, REORDER, bswap64
    <3>2. BigEndian(Number[Reverse(b)]) = Reverse(b)
      BY <1>2, NumberFacts
    <3> QED
      BY <1>1, <1>2, <3>1, <3>2
  <2> QED
    BY <2>1, <2>2 DEF Orders
<1> QED
  BY <1>1, <1>3, <1>4

\* Any bytes make a time.
LEMMA TpType ==
    ASSUME NEW order, NEW bytes \in Words
    PROVE  TpFromBytes(order, bytes) \in Int64
<1>1. FromMemory(order, bytes) \in Int64
  BY NumberFacts, ReverseFacts DEF FromMemory
<1>2. \A t \in Int64 : bswap64(t) \in Int64
  BY NumberFacts, ReverseFacts DEF bswap64
<1> QED
  BY <1>1, <1>2 DEF TpFromBytes, REORDER

-----------------------------------------------------------------------------
(* Packets *)

Packets ==
    [type : Nat, sequenceNumber : Nat, clientRequestTime : Int64, serverReplyTime : Int64,
     clientReceiveTime : Int64]

Buffers == {b \in Seq(Nat) : Octets(b) /\ Len(b) = PACKET_LENGTH}

\* A packet's times, in the order of their bytes.
Time(packet, n) == IF n = 0 THEN packet.clientRequestTime
                   ELSE IF n = 1 THEN packet.serverReplyTime ELSE packet.clientReceiveTime

LEMMA LengthFacts ==
    /\ PACKET_LENGTH \in Nat /\ PACKET_LENGTH = (2 + 2 * Width) + Width
    /\ PACKET_LENGTH >= 3
BY ConstantsType DEF PACKET_LENGTH

LEMMA OctetsFacts ==
    ASSUME NEW b, Octets(b)
    PROVE  /\ b \in Seq(Nat) /\ Len(b) \in Nat
           /\ \A i \in 1 .. Len(b) : b[i] \in Nat
           /\ \A i \in 3 .. Len(b) : b[i] \in Byte
BY DEF Octets, Byte

LEMMA BuffersFacts ==
    ASSUME NEW b \in Buffers
    PROVE  Octets(b) /\ b \in Seq(Nat) /\ Len(b) = PACKET_LENGTH
BY DEF Buffers

LEMMA WordsFacts ==
    /\ \A s \in Seq(Byte) : Len(s) = Width => s \in Words
    /\ \A w \in Words : w \in Seq(Nat) /\ Len(w) = Width
<1>1. Width \in Nat /\ Byte \subseteq Nat
  BY ConstantsType DEF Byte
<1>2. ASSUME NEW s \in Seq(Byte), Len(s) = Width PROVE s \in Words
  BY <1>2, LenProperties DEF Words
<1>3. ASSUME NEW w \in Words PROVE w \in Seq(Nat) /\ Len(w) = Width
  <2>1. w \in [1..Width -> Nat] /\ DOMAIN w = 1..Width
    BY <1>1 DEF Words
  <2>2. w \in Seq(Nat)
    BY <1>1, <2>1, SeqDef, Zenon
  <2> QED
    BY <1>1, <2>1, <2>2
<1> QED
  BY <1>2, <1>3

LEMMA FieldFacts ==
    ASSUME NEW b, Octets(b), Len(b) >= PACKET_LENGTH, NEW n \in 0..2
    PROVE  /\ Field(b, n) \in Words
           /\ \A i \in 1..Width : Field(b, n)[i] = b[(2 + n * Width) + i]
<1> DEFINE m == 3 + n * Width
           k == 2 + (n + 1) * Width
           s == SubSeq(b, m, k)
<1>1. /\ Width \in Nat /\ Width >= 1 /\ n * Width \in Nat /\ (n + 1) * Width = n * Width + Width
      /\ n * Width <= 2 * Width
  <2>1. n = 0 \/ n = 1 \/ n = 2
    OBVIOUS
  <2> QED
    BY <2>1, ConstantsType
<1>2. m \in Int /\ k \in Int /\ m <= k /\ (k - m) + 1 = Width /\ k <= PACKET_LENGTH /\ m >= 3
  BY <1>1, LengthFacts
<1>3. \A i \in m .. k : b[i] \in Byte
  <2> HIDE DEF m, k
  <2>1. \A i \in m .. k : i \in 3 .. Len(b)
    BY <1>2, LengthFacts, OctetsFacts
  <2> QED
    BY <2>1, OctetsFacts
<1> HIDE DEF m, k
<1>4. /\ s \in Seq(Byte) /\ Len(s) = Width
      /\ \A i \in 1..Width : s[i] = b[(m + i) - 1]
  BY <1>1, <1>2, <1>3, SubSeqProperties
<1>5. s \in Words
  BY <1>4, WordsFacts
<1>6. \A i \in 1..Width : (m + i) - 1 = (2 + n * Width) + i
  BY <1>1 DEF m
<1> QED
  BY <1>4, <1>5, <1>6 DEF Field, m, k

\* A word after some bytes.
LEMMA ConcatWord ==
    ASSUME NEW s \in Seq(Nat), NEW n \in Nat, Len(s) = n, NEW w \in Words
    PROVE  /\ s \o w \in Seq(Nat) /\ Len(s \o w) = n + Width
           /\ \A i \in 1 .. n : (s \o w)[i] = s[i]
           /\ \A i \in 1 .. Width : (s \o w)[n + i] = w[i]
<1>1. Width \in Nat /\ Byte \subseteq Nat
  BY ConstantsType DEF Byte
<1>2. w \in Seq(Nat) /\ Len(w) = Width
  BY WordsFacts
<1>3. /\ s \o w \in Seq(Nat) /\ Len(s \o w) = n + Width
      /\ \A i \in 1 .. n + Width : (s \o w)[i] = IF i <= n THEN s[i] ELSE w[i - n]
  BY <1>2, ConcatProperties
<1>4. ASSUME NEW i \in 1 .. n PROVE (s \o w)[i] = s[i]
  BY <1>1, <1>3
<1>5. ASSUME NEW i \in 1 .. Width PROVE (s \o w)[n + i] = w[i]
  <2>1. n + i \in 1 .. n + Width /\ ~(n + i <= n) /\ (n + i) - n = i
    BY <1>1
  <2> QED
    BY <1>3, <2>1
<1> QED
  BY <1>3, <1>4, <1>5

\* What a packet is as bytes.
LEMMA WriteFacts ==
    ASSUME NEW order \in Orders, NEW p \in Packets
    PROVE  /\ write(order, p) \in Buffers
           /\ write(order, p)[1] = p.type /\ write(order, p)[2] = p.sequenceNumber
           /\ \A n \in 0..2 : Field(write(order, p), n) = BytesFromTp(order, Time(p, n))
<1> DEFINE h == <<p.type, p.sequenceNumber>>
           x == BytesFromTp(order, p.clientRequestTime)
           y == BytesFromTp(order, p.serverReplyTime)
           z == BytesFromTp(order, p.clientReceiveTime)
           b == write(order, p)
<1>1. x \in Words /\ y \in Words /\ z \in Words
  BY RoundTrip DEF Packets
<1>2. /\ h \in Seq(Nat) /\ Len(h) = 2 /\ h[1] = p.type /\ h[2] = p.sequenceNumber
  BY DEF Packets
<1>3. b = ((h \o x) \o y) \o z
  BY DEF write
<1> HIDE DEF h, x, y, z, b
<1> DEFINE hx == h \o x
           hxy == hx \o y
<1>4. /\ hx \in Seq(Nat) /\ Len(hx) = 2 + Width
      /\ \A i \in 1 .. 2 : hx[i] = h[i]
      /\ \A i \in 1 .. Width : hx[2 + i] = x[i]
  <2>1. 2 \in Nat
    OBVIOUS
  <2> HIDE DEF hxy
  <2> QED
    BY <1>1, <1>2, <2>1, ConcatWord, Zenon
<1> HIDE DEF hx
<1>5. /\ hxy \in Seq(Nat) /\ Len(hxy) = (2 + Width) + Width
      /\ \A i \in 1 .. 2 + Width : hxy[i] = hx[i]
      /\ \A i \in 1 .. Width : hxy[(2 + Width) + i] = y[i]
  <2>1. 2 + Width \in Nat
    BY ConstantsType
  <2> QED
    BY <1>1, <1>4, <2>1, ConcatWord
<1>6. /\ b \in Seq(Nat) /\ Len(b) = ((2 + Width) + Width) + Width
      /\ \A i \in 1 .. (2 + Width) + Width : b[i] = hxy[i]
      /\ \A i \in 1 .. Width : b[((2 + Width) + Width) + i] = z[i]
  <2>1. (2 + Width) + Width \in Nat /\ b = hxy \o z
    BY <1>3, ConstantsType DEF hx
  <2> DEFINE n == (2 + Width) + Width
  <2>2. n \in Nat /\ Len(hxy) = n /\ hxy \in Seq(Nat) /\ z \in Words /\ b = hxy \o z
    BY <1>1, <1>5, <2>1
  <2> HIDE DEF hxy, n
  <2>3. /\ b \in Seq(Nat) /\ Len(b) = n + Width
        /\ \A i \in 1 .. n : b[i] = hxy[i]
        /\ \A i \in 1 .. Width : b[n + i] = z[i]
    BY <2>2, ConcatWord
  <2> QED
    BY <2>3 DEF n
<1> HIDE DEF hxy
<1>7. Width \in Nat /\ Width >= 1
  BY ConstantsType
<1>8. b[1] = p.type /\ b[2] = p.sequenceNumber
  <2>1. hx[1] = h[1] /\ hx[2] = h[2]
    BY <1>4
  <2>2. hxy[1] = hx[1] /\ hxy[2] = hx[2]
    BY <1>5, <1>7
  <2>3. b[1] = hxy[1] /\ b[2] = hxy[2]
    BY <1>6, <1>7
  <2> QED
    BY <1>2, <2>1, <2>2, <2>3
<1>9. ASSUME NEW i \in 1 .. Width
      PROVE  b[2 + i] = x[i] /\ b[(2 + Width) + i] = y[i] /\ b[((2 + Width) + Width) + i] = z[i]
  <2>1. b[2 + i] = x[i]
    <3>1. 2 + i \in 1 .. 2 + Width /\ 2 + i \in 1 .. (2 + Width) + Width
      BY <1>7
    <3> QED
      BY <1>4, <1>5, <1>6, <3>1
  <2>2. b[(2 + Width) + i] = y[i]
    <3>1. (2 + Width) + i \in 1 .. (2 + Width) + Width
      BY <1>7
    <3> QED
      BY <1>5, <1>6, <3>1
  <2> QED
    BY <1>6, <2>1, <2>2
<1>10. Octets(b) /\ Len(b) = PACKET_LENGTH
  <2>1. ASSUME NEW j \in 3 .. Len(b) PROVE b[j] \in Byte
    <3>1. PICK i \in 1 .. Width : \/ j = 2 + i
                                  \/ j = (2 + Width) + i
                                  \/ j = ((2 + Width) + Width) + i
      <4>1. \/ j - 2 \in 1 .. Width
            \/ j - (2 + Width) \in 1 .. Width
            \/ j - ((2 + Width) + Width) \in 1 .. Width
        BY <1>6, <1>7
      <4>2. /\ j = 2 + (j - 2) /\ j = (2 + Width) + (j - (2 + Width))
            /\ j = ((2 + Width) + Width) + (j - ((2 + Width) + Width))
        BY <1>7
      <4> QED
        BY <4>1, <4>2
    <3>2. x[i] \in Byte /\ y[i] \in Byte /\ z[i] \in Byte
      BY <1>1 DEF Words
    <3> QED
      BY <1>9, <3>1, <3>2
  <2> QED
    BY <1>6, <1>7, <2>1, LengthFacts DEF Octets, Byte
<1>11. Field(b, 0) = x /\ Field(b, 1) = y /\ Field(b, 2) = z
  <2>1. /\ 0 * Width = 0 /\ 1 * Width = Width /\ 2 + 2 * Width = (2 + Width) + Width
        /\ 0 \in 0..2 /\ 1 \in 0..2 /\ 2 \in 0..2 /\ Len(b) >= PACKET_LENGTH
    BY <1>7, <1>10, LengthFacts
  <2>2. Field(b, 0) = x
    <3>1. Field(b, 0) \in Words /\ \A i \in 1..Width : Field(b, 0)[i] = b[(2 + 0) + i]
      BY <1>10, <2>1, FieldFacts
    <3>2. \A i \in 1..Width : Field(b, 0)[i] = x[i]
      BY <1>9, <3>1
    <3> QED
      BY <1>1, <3>1, <3>2, SameWord
  <2>3. Field(b, 1) = y
    <3>1. Field(b, 1) \in Words /\ \A i \in 1..Width : Field(b, 1)[i] = b[(2 + Width) + i]
      BY <1>10, <2>1, FieldFacts
    <3> QED
      BY <1>1, <1>9, <3>1, SameWord
  <2>4. Field(b, 2) = z
    <3>1. Field(b, 2) \in Words /\ \A i \in 1..Width : Field(b, 2)[i] = b[((2 + Width) + Width) + i]
      BY <1>10, <2>1, FieldFacts
    <3> QED
      BY <1>1, <1>9, <3>1, SameWord
  <2> QED
    BY <2>2, <2>3, <2>4
<1>12. ASSUME NEW n \in 0..2 PROVE Field(b, n) = BytesFromTp(order, Time(p, n))
  <2>1. n = 0 \/ n = 1 \/ n = 2
    OBVIOUS
  <2> QED
    BY <1>11, <2>1 DEF Time, x, y, z
<1> QED
  BY <1>6, <1>8, <1>10, <1>12 DEF Buffers, b

\* A packet is, on every host, what one of them wrote.
LEMMA PacketRoundTrip ==
    ASSUME NEW from \in Orders, NEW to \in Orders, NEW p \in Packets
    PROVE  ClockPacket(to, write(from, p)) = p
<1> DEFINE b == write(from, p)
<1>1. b[1] = p.type /\ b[2] = p.sequenceNumber
  BY WriteFacts
<1>2. ASSUME NEW n \in 0..2 PROVE TpFromBytes(to, Field(b, n)) = Time(p, n)
  <2>1. Time(p, n) \in Int64
    BY DEF Time, Packets
  <2>2. Field(b, n) = BytesFromTp(from, Time(p, n))
    BY WriteFacts
  <2> QED
    BY <2>1, <2>2, RoundTrip
<1> HIDE DEF b
<1>3. /\ TpFromBytes(to, Field(b, 0)) = p.clientRequestTime
      /\ TpFromBytes(to, Field(b, 1)) = p.serverReplyTime
      /\ TpFromBytes(to, Field(b, 2)) = p.clientReceiveTime
  BY <1>2 DEF Time
<1>4. ClockPacket(to, b) = p
  BY <1>1, <1>3 DEF ClockPacket, Packets
<1> QED
  BY <1>4 DEF b

\* Any bytes, if enough, make a packet.
LEMMA PacketType ==
    ASSUME NEW order, NEW b, Octets(b), Len(b) >= PACKET_LENGTH
    PROVE  ClockPacket(order, b) \in Packets
<1>1. b[1] \in Nat /\ b[2] \in Nat
  BY LengthFacts DEF Octets
<1>2. ASSUME NEW n \in 0..2 PROVE TpFromBytes(order, Field(b, n)) \in Int64
  BY FieldFacts, TpType
<1> QED
  BY <1>1, <1>2 DEF ClockPacket, Packets

\* What recvfrom() leaves in a buffer.
LEMMA FilledFacts ==
    ASSUME NEW buf \in Buffers, NEW bytes, Octets(bytes)
    PROVE  /\ Filled(buf, bytes) \in Buffers
           /\ Whole(bytes) => /\ Len(bytes) >= PACKET_LENGTH
                              /\ \A i \in 1 .. PACKET_LENGTH : Filled(buf, bytes)[i] = bytes[i]
<1> DEFINE n == Smaller(Len(bytes), PACKET_LENGTH)
           u == SubSeq(bytes, 1, n)
           v == SubSeq(buf, n + 1, PACKET_LENGTH)
<1>1. PACKET_LENGTH \in Nat /\ Len(bytes) \in Nat /\ Len(buf) = PACKET_LENGTH
  BY LengthFacts DEF Octets, Buffers
<1>2. n \in 0 .. PACKET_LENGTH /\ n <= Len(bytes)
  BY <1>1 DEF Smaller
<1> HIDE DEF n
<1>3. /\ u \in Seq(Nat) /\ Len(u) = n /\ \A i \in 1 .. n : u[i] = bytes[i]
  <2>1. \A i \in 1 .. n : bytes[i] \in Nat
    BY <1>1, <1>2 DEF Octets
  <2>2. /\ u \in Seq(Nat) /\ Len(u) = IF 1 <= n THEN (n - 1) + 1 ELSE 0
        /\ \A i \in 1 .. (n - 1) + 1 : u[i] = bytes[(1 + i) - 1]
    BY <1>1, <1>2, <2>1, SubSeqProperties
  <2> QED
    BY <1>1, <1>2, <2>2
<1>4. /\ v \in Seq(Nat) /\ Len(v) = PACKET_LENGTH - n
      /\ \A i \in 1 .. PACKET_LENGTH - n : v[i] = buf[n + i]
  <2>1. \A i \in n + 1 .. PACKET_LENGTH : buf[i] \in Nat
    BY <1>1, <1>2 DEF Buffers
  <2>2. /\ v \in Seq(Nat)
        /\ Len(v) = IF n + 1 <= PACKET_LENGTH THEN (PACKET_LENGTH - (n + 1)) + 1 ELSE 0
        /\ \A i \in 1 .. (PACKET_LENGTH - (n + 1)) + 1 : v[i] = buf[((n + 1) + i) - 1]
    BY <1>1, <1>2, <2>1, SubSeqProperties
  <2> QED
    BY <1>1, <1>2, <2>2
<1> HIDE DEF u, v
<1>5. /\ u \o v \in Seq(Nat) /\ Len(u \o v) = PACKET_LENGTH
      /\ \A i \in 1 .. PACKET_LENGTH : (u \o v)[i] = IF i <= n THEN u[i] ELSE v[i - n]
  <2>1. /\ u \o v \in Seq(Nat) /\ Len(u \o v) = Len(u) + Len(v)
        /\ \A i \in 1 .. Len(u) + Len(v) : (u \o v)[i] = IF i <= Len(u) THEN u[i] ELSE v[i - Len(u)]
    BY <1>3, <1>4, ConcatProperties
  <2>2. Len(u) + Len(v) = PACKET_LENGTH
    BY <1>1, <1>2, <1>3, <1>4
  <2> QED
    BY <1>3, <2>1, <2>2
<1>6. Filled(buf, bytes) = u \o v
  BY DEF Filled, u, v, n
<1>7. ASSUME NEW i \in 1 .. PACKET_LENGTH
      PROVE  (u \o v)[i] = IF i <= n THEN bytes[i] ELSE buf[i]
  <2>1. CASE i <= n
    BY <1>1, <1>2, <1>3, <1>5, <2>1
  <2>2. CASE ~(i <= n)
    <3>1. i - n \in 1 .. PACKET_LENGTH - n /\ n + (i - n) = i
      BY <1>1, <1>2, <2>2
    <3> QED
      BY <1>4, <1>5, <2>2, <3>1
  <2> QED
    BY <2>1, <2>2
<1>8. Octets(u \o v)
  <2>1. ASSUME NEW i \in 3 .. PACKET_LENGTH PROVE (u \o v)[i] \in 0 .. Base - 1
    <3>1. i \in 1 .. PACKET_LENGTH
      OBVIOUS
    <3>2. CASE i <= n
      <4>1. i \in 3 .. Len(bytes)
        BY <1>1, <1>2, <3>2
      <4>2. bytes[i] \in Byte
        BY <4>1, OctetsFacts
      <4> QED
        BY <1>7, <3>1, <3>2, <4>2 DEF Byte
    <3>3. CASE ~(i <= n)
      <4>1. buf[i] \in Byte
        BY <1>1, BuffersFacts, OctetsFacts
      <4> QED
        BY <1>7, <3>1, <3>3, <4>1 DEF Byte
    <3> QED
      BY <3>2, <3>3
  <2> QED
    BY <1>5, <2>1 DEF Octets
<1>9. ASSUME Whole(bytes)
      PROVE  Len(bytes) >= PACKET_LENGTH /\ \A i \in 1 .. PACKET_LENGTH : (u \o v)[i] = bytes[i]
  <2>1. n = PACKET_LENGTH
    BY <1>9 DEF Whole, n
  <2> QED
    <3>1. Len(bytes) >= PACKET_LENGTH
      BY <1>1, <1>2, <2>1
    <3>2. \A i \in 1 .. PACKET_LENGTH : i <= n
      BY <1>1, <2>1
    <3> QED
      BY <1>7, <3>1, <3>2
<1> QED
  BY <1>5, <1>6, <1>8, <1>9 DEF Buffers

\* A whole packet is read from the buffer as it came.
LEMMA WholePacket ==
    ASSUME NEW buf \in Buffers, NEW bytes, Octets(bytes), Whole(bytes), NEW order
    PROVE  ClockPacket(order, Filled(buf, bytes)) = ClockPacket(order, bytes)
<1> DEFINE f == Filled(buf, bytes)
<1>1. /\ Octets(f) /\ Len(f) >= PACKET_LENGTH /\ Len(bytes) >= PACKET_LENGTH
      /\ \A i \in 1 .. PACKET_LENGTH : f[i] = bytes[i]
  <2>1. /\ f \in Buffers /\ Len(bytes) >= PACKET_LENGTH
        /\ \A i \in 1 .. PACKET_LENGTH : f[i] = bytes[i]
    BY FilledFacts
  <2> HIDE DEF f
  <2> QED
    BY <2>1, BuffersFacts, LengthFacts
<1> HIDE DEF f
<1>2. f[1] = bytes[1] /\ f[2] = bytes[2]
  BY <1>1, LengthFacts
<1>3. ASSUME NEW n \in 0..2 PROVE Field(f, n) = Field(bytes, n)
  <2>1. ASSUME NEW i \in 1 .. Width PROVE Field(f, n)[i] = Field(bytes, n)[i]
    <3>1. (2 + n * Width) + i \in 1 .. PACKET_LENGTH
      <4>1. n = 0 \/ n = 1 \/ n = 2
        OBVIOUS
      <4> QED
        BY <4>1, ConstantsType, LengthFacts
    <3> QED
      BY <1>1, <3>1, FieldFacts
  <2> QED
    BY <1>1, <2>1, FieldFacts, SameWord
<1>4. Field(f, 0) = Field(bytes, 0) /\ Field(f, 1) = Field(bytes, 1) /\ Field(f, 2) = Field(bytes, 2)
  BY <1>3
<1> QED
  BY <1>2, <1>4 DEF ClockPacket, f

-----------------------------------------------------------------------------
(* Types *)

Others == Clients \cup Strays

\* Every datagram goes from or to the server, and the server sends none to itself.
Route(d) ==
    \/ d.from = ServerAddress /\ d.to.host \in Others
    \/ d.to = ServerAddress /\ d.from.host \in Others

ProcsInv ==
    /\ pc \in [Procs -> Places]
    /\ init \in [Procs -> BOOLEAN]
    /\ sock \in [Procs -> Nat \cup {NoSocket}]
    /\ addrinfo \in [Procs -> BOOLEAN]
    /\ open \in [Procs -> SUBSET Nat]
    /\ bound \in BOOLEAN /\ killed \in BOOLEAN
    /\ objects \in [Clients -> Nat]
    /\ sequence \in [Clients -> 0..MaxRequests]

Printed == [address : Hosts, offset : Int, rtt : Int, time : [sec : Int, usec : Int]]

DataInv ==
    /\ buffer \in Buffers
    /\ \A d \in net : d \in Datagrams /\ Octets(d.bytes) /\ Route(d)
    /\ printed \subseteq Printed

LEMMA HostsFacts ==
    /\ Server \in Procs /\ Procs \subseteq Hosts /\ Others \subseteq Hosts /\ Server \notin Others
    /\ Clients \subseteq Procs /\ Clients \subseteq Others /\ Server \notin Clients
    /\ \A h \in Others : h \in Clients \/ h \in Strays
    /\ \A c \in Clients : c \notin Strays
    /\ \A h \in Hosts : Order[h] \in Orders /\ ClockOf[h] \subseteq Int64
    /\ ServerAddress \in Addresses /\ ServerAddress.host = Server
    /\ usecInvalid \in Int64 /\ Int64 \subseteq Int
<1>1. Server \notin Clients \cup Strays /\ Clients \cap Strays = {}
  BY SocketsAssumption
<1>2. \A h \in Hosts : Order[h] \in Orders /\ ClockOf[h] \subseteq Int64
  BY SocketsAssumption
<1>3. usecInvalid \in Int64 /\ Int64 \subseteq Int
  BY Int64Facts, HalfFacts
<1> QED
  BY <1>1, <1>2, <1>3 DEF Procs, Hosts, Others, ServerAddress, Addresses

LEMMA DescriptorType ==
    ASSUME IInv, NEW p \in Procs, pc[p] = "socket()"
    PROVE  NewDescriptor(p) \in Nat
<1>1. open[p] = {}
  BY DEF IInv, DescriptorInv, Without
<1>2. Cardinality({}) = 0
  BY FS_EmptySet
<1>3. 1..(Cardinality(open[p]) + 1) = {1} /\ \A e \in 1..(1 - 1) : FALSE
  BY <1>1, <1>2
<1>4. \E d \in {1} : d \notin open[p] /\ \A e \in 1..(d - 1) : e \in open[p]
  BY <1>1, <1>3
<1>5. NewDescriptor(p) \in {1}
  BY <1>3, <1>4 DEF NewDescriptor
<1> QED
  BY <1>5

\* A client's address is not the server's.
LEMMA AddressFacts ==
    ASSUME ProcsInv, NEW c \in Clients
    PROVE  /\ AddressOf(c) \in Addresses /\ AddressOf(c).host = c
           /\ AddressOf(c) # ServerAddress
BY HostsFacts DEF ProcsInv, AddressOf, Addresses, ServerAddress

LEMMA NewPacketType ==
    ASSUME NEW type \in Nat, NEW seqNum \in Nat, NEW time \in Int64
    PROVE  NewPacket(type, seqNum, time) \in Packets
BY HostsFacts DEF NewPacket, Packets

LEMMA TypesFacts == /\ INVALID \in Nat /\ REQUEST \in Nat /\ REPLY \in Nat
                    /\ ACKNOWLEDGE \in Nat /\ KILL \in Nat
                    /\ REPLY # REQUEST /\ ACKNOWLEDGE # KILL /\ REQUEST # KILL
                    /\ ACKNOWLEDGE # REQUEST /\ REPLY # KILL /\ REPLY # ACKNOWLEDGE
BY DEF INVALID, REQUEST, REPLY, ACKNOWLEDGE, KILL

\* The packet that the server gets.
LEMMA RequestType ==
    ASSUME DataInv, NEW d \in net
    PROVE  Filled(buffer, d.bytes) \in Buffers /\ Packet(Filled(buffer, d.bytes)) \in Packets
<1>1. Filled(buffer, d.bytes) \in Buffers
  BY FilledFacts DEF DataInv
<1>2. PACKET_LENGTH >= PACKET_LENGTH
  BY LengthFacts
<1> QED
  BY <1>1, <1>2, BuffersFacts, PacketType DEF Packet

-----------------------------------------------------------------------------
(* What is sent *)

\* The server's reply to a REQUEST.
Replied(e) ==
    \E d \in net, now \in ClockOf[Server] \ {usecInvalid} :
        LET request == ClockPacket(Order[Server], d.bytes)
            reply == [request EXCEPT !.type = REPLY, !.serverReplyTime = now]
        IN  /\ d.to = ServerAddress /\ Whole(d.bytes) /\ request.type = REQUEST
            /\ e = [from |-> ServerAddress, to |-> d.from, bytes |-> write(Order[Server], reply)]

ByClient(e, c, packet) ==
    e = [from |-> AddressOf(c), to |-> ServerAddress, bytes |-> write(Order[c], packet)]

Requested(e) ==
    \E c \in Clients, now \in Int64, n \in Nat :
        now \in ClockOf[c] /\ ByClient(e, c, NewPacket(REQUEST, n, now))

Killed(e) == killed' /\ \E c \in Clients : ByClient(e, c, NewPacket(KILL, 0, usecInvalid))

Acknowledged(e) ==
    \E c \in Clients, d \in net, now \in Int64 :
        LET packet == ClockPacket(Order[c], d.bytes)
            answer == [packet EXCEPT !.type = ACKNOWLEDGE, !.clientReceiveTime = now]
        IN  /\ now \in ClockOf[c] /\ d.to = AddressOf(c) /\ Whole(d.bytes)
            /\ packet.type = REPLY /\ InTime(answer) /\ ByClient(e, c, answer)

Fresh(e) == Replied(e) \/ Requested(e) \/ Killed(e) \/ Acknowledged(e)

Grows == net' = net \/ \E e : Fresh(e) /\ net' \in {net, net \cup {e}}

LEMMA ReplyGrows ==
    ASSUME DataInv, NEW d \in net, Reply(d)
    PROVE  Grows
<1>1. PICK now \in ClockOf[Server] \ {usecInvalid} :
        LET request == Packet(Filled(buffer, d.bytes))
            reply == [request EXCEPT !.type = REPLY, !.serverReplyTime = now]
            bytes == write(Order[Server], reply)
        IN  /\ d.to = ServerAddress /\ Whole(d.bytes) /\ request.type = REQUEST
            /\ Sent({[from |-> ServerAddress, to |-> d.from, bytes |-> bytes]})
  BY DEF Reply
<1> DEFINE request == ClockPacket(Order[Server], d.bytes)
           reply == [request EXCEPT !.type = REPLY, !.serverReplyTime = now]
           e == [from |-> ServerAddress, to |-> d.from, bytes |-> write(Order[Server], reply)]
<1>2. Packet(Filled(buffer, d.bytes)) = request
  BY <1>1, WholePacket DEF DataInv, Packet
<1> HIDE DEF request
<1>3. /\ d.to = ServerAddress /\ Whole(d.bytes) /\ request.type = REQUEST
      /\ Sent({e})
  BY <1>1, <1>2
<1> HIDE DEF e
<1>4. net' \in {net, net \cup {e}}
  BY <1>3 DEF Sent
<1>5. Replied(e)
  BY <1>3 DEF Replied, e, request
<1> QED
  BY <1>4, <1>5 DEF Grows, Fresh

LEMMA RequestGrows ==
    ASSUME ProcsInv, NEW c \in Clients, Request(c)
    PROVE  Grows
<1>1. PICK now \in ClockOf[c] : Sent(FromClient(c, NewPacket(REQUEST, sequence[c] + 1, now)))
  BY DEF Request
<1>2. now \in Int64 /\ sequence[c] + 1 \in Nat
  <2>1. sequence[c] \in 0 .. MaxRequests /\ MaxRequests \in Nat
    BY SocketsAssumption DEF ProcsInv
  <2> QED
    BY <2>1, HostsFacts
<1> DEFINE e == [from |-> AddressOf(c), to |-> ServerAddress,
                 bytes |-> write(Order[c], NewPacket(REQUEST, sequence[c] + 1, now))]
<1>3. Requested(e)
  BY <1>2 DEF Requested, ByClient
<1>4. net' \in {net, net \cup {e}}
  BY <1>1 DEF Sent, FromClient
<1> HIDE DEF e
<1> QED
  BY <1>3, <1>4 DEF Grows, Fresh

LEMMA DieGrows ==
    ASSUME NEW c \in Clients, Die(c)
    PROVE  Grows
<1> DEFINE e == [from |-> AddressOf(c), to |-> ServerAddress,
                 bytes |-> write(Order[c], NewPacket(KILL, 0, usecInvalid))]
<1>1. Killed(e)
  BY DEF Killed, ByClient, Die
<1>2. net' \in {net, net \cup {e}}
  BY DEF Sent, FromClient, Die
<1> HIDE DEF e
<1> QED
  BY <1>1, <1>2 DEF Grows, Fresh

LEMMA RecvGrows ==
    ASSUME NEW c \in Clients, Recv(c)
    PROVE  Grows
<1>1. CASE net' = net
  BY <1>1 DEF Grows
<1>2. CASE net' # net
  <2>1. PICK d \in Inbox(c), now \in ClockOf[c] :
          LET packet == ClockPacket(Order[c], d.bytes)
              answer == [packet EXCEPT !.type = ACKNOWLEDGE, !.clientReceiveTime = now]
          IN  /\ Whole(d.bytes) /\ packet.type = REPLY /\ InTime(answer)
              /\ Sent(FromClient(c, answer))
    BY <1>2 DEF Recv
  <2> DEFINE packet == ClockPacket(Order[c], d.bytes)
             answer == [packet EXCEPT !.type = ACKNOWLEDGE, !.clientReceiveTime = now]
             e == [from |-> AddressOf(c), to |-> ServerAddress, bytes |-> write(Order[c], answer)]
  <2>2. d \in net /\ d.to = AddressOf(c) /\ now \in Int64
    BY HostsFacts DEF Inbox
  <2>3. Acknowledged(e)
    BY <2>1, <2>2 DEF Acknowledged, ByClient
  <2>4. net' \in {net, net \cup {e}}
    BY <2>1 DEF Sent, FromClient
  <2> HIDE DEF e
  <2> QED
    BY <2>3, <2>4 DEF Grows, Fresh
<1> QED
  BY <1>1, <1>2

LEMMA NetGrows == ProcsInv /\ DataInv /\ [Next]_vars => Grows
<1> SUFFICES ASSUME ProcsInv, DataInv, [Next]_vars PROVE Grows
  OBVIOUS
<1>1. ASSUME NEW d \in net, Reply(d) PROVE Grows
  BY <1>1, ReplyGrows
<1>2. ASSUME NEW c \in Clients, Request(c) \/ Die(c) \/ Recv(c) PROVE Grows
  BY <1>2, RequestGrows, DieGrows, RecvGrows
<1>3. ASSUME net' = net PROVE Grows
  BY <1>3 DEF Grows
<1>4. ASSUME NEW d \in net, Acknowledge(d) \/ Return(d) \/ Ignore(d) PROVE Grows
  BY <1>3, <1>4 DEF Acknowledge, Return, Ignore
<1>5. ASSUME NEW c \in Clients, New(c) \/ Delete(c) \/ Select(c) PROVE Grows
  BY <1>3, <1>5 DEF New, Delete, Select
<1>6. ASSUME NEW p \in Procs, Make(p) PROVE Grows
  BY <1>3, <1>6 DEF Make
<1>7. CASE Bind \/ UNCHANGED vars
  BY <1>3, <1>7 DEF Bind, vars
<1> QED
  BY <1>1, <1>2, <1>4, <1>5, <1>6, <1>7 DEF Next, Run, Client

-----------------------------------------------------------------------------
(* Types, step by step *)

LEMMA GotoType ==
    ASSUME ProcsInv, NEW p \in Procs, NEW place \in Places, Goto(p, place)
    PROVE  pc' \in [Procs -> Places]
BY DEF ProcsInv, Goto

LEMMA MakeType ==
    ASSUME IInv, ProcsInv, NEW p \in Procs, Make(p)
    PROVE  ProcsInv'
<1> DEFINE next == IF p = Server THEN "bind()" ELSE "ready"
<1>1. next \in Places /\ "abort()" \in Places /\ "exit(1)" \in Places
  BY DEF Places
<1>2. pc[p] = "socket()" /\ UNCHANGED <<bound, killed, objects, sequence>>
  BY DEF Make, Construct, serving
<1> HIDE DEF next
<1>3. CASE /\ Goto(p, next)
           /\ sock' = [sock EXCEPT ![p] = NewDescriptor(p)]
           /\ open' = [open EXCEPT ![p] = open[p] \cup {NewDescriptor(p)}]
           /\ addrinfo' = [addrinfo EXCEPT ![p] = TRUE]
           /\ init' = [init EXCEPT ![p] = TRUE]
  <2>1. NewDescriptor(p) \in Nat
    BY <1>2, DescriptorType
  <2>2. pc' \in [Procs -> Places]
    BY <1>1, <1>3, GotoType
  <2>3. /\ init' \in [Procs -> BOOLEAN] /\ sock' \in [Procs -> Nat \cup {NoSocket}]
        /\ addrinfo' \in [Procs -> BOOLEAN] /\ open' \in [Procs -> SUBSET Nat]
    BY <1>3, <2>1 DEF ProcsInv
  <2> QED
    BY <1>2, <2>2, <2>3 DEF ProcsInv
<1>4. CASE Fatal(p, next) /\ UNCHANGED sockets
  <2>1. PICK place \in {"abort()", "exit(1)"} : Goto(p, place)
    BY <1>4 DEF Fatal
  <2>2. pc' \in [Procs -> Places]
    BY <1>1, <2>1, GotoType
  <2> QED
    BY <1>2, <1>4, <2>2 DEF ProcsInv, sockets
<1> QED
  BY <1>3, <1>4 DEF Make, Construct, next

LEMMA DestroyedType ==
    ASSUME ProcsInv, NEW p \in Procs, Destroyed(p)
    PROVE  /\ sock' \in [Procs -> Nat \cup {NoSocket}]
           /\ open' \in [Procs -> SUBSET Nat]
           /\ addrinfo' \in [Procs -> BOOLEAN] /\ init' = init
BY DEF ProcsInv, Destroyed

LEMMA ProcsStep == IInv /\ ProcsInv /\ [Next]_vars => ProcsInv'
<1> SUFFICES ASSUME IInv, ProcsInv, [Next]_vars PROVE ProcsInv'
  OBVIOUS
<1>1. ASSUME NEW p \in Procs, Make(p) PROVE ProcsInv'
  BY <1>1, MakeType
<1>2. CASE Bind
  <2>1. UNCHANGED <<sockets, objects, sequence, killed>> /\ bound' \in BOOLEAN
    BY <1>2 DEF Bind, ProcsInv
  <2>2. PICK place \in Places : Goto(Server, place)
    BY <1>2 DEF Bind, Fatal, Places
  <2>3. pc' \in [Procs -> Places]
    BY <2>2, GotoType, HostsFacts
  <2> QED
    BY <2>1, <2>3 DEF ProcsInv, sockets
<1>3. CASE UNCHANGED <<pc, sockets, bound, objects, sequence, killed>>
  BY <1>3 DEF ProcsInv, sockets
<1>4. ASSUME NEW d \in net, Reply(d) \/ Acknowledge(d) \/ Ignore(d) PROVE ProcsInv'
  BY <1>3, <1>4 DEF Reply, Acknowledge, Ignore, Receive
<1>5. ASSUME NEW d \in net, Return(d) PROVE ProcsInv'
  <2>1. Goto(Server, "returned") /\ Destroyed(Server) /\ UNCHANGED <<bound, objects, sequence, killed>>
    BY <1>5 DEF Return, Receive
  <2>2. pc' \in [Procs -> Places]
    BY <2>1, GotoType, HostsFacts DEF Places
  <2> QED
    BY <2>1, <2>2, DestroyedType, HostsFacts DEF ProcsInv
<1>6. ASSUME NEW c \in Clients, Client(c) PROVE ProcsInv'
  <2>1. c \in Procs
    BY HostsFacts
  <2>2. CASE New(c)
    <3>1. pc' \in [Procs -> Places]
      BY <2>1, <2>2, GotoType DEF New, Places
    <3>2. objects' \in [Clients -> Nat]
      <4>1. objects \in [Clients -> Nat] /\ objects' = [objects EXCEPT ![c] = objects[c] + 1]
        BY <2>2 DEF New, ProcsInv
      <4>2. objects[c] + 1 \in Nat
        BY <4>1
      <4> QED
        BY <4>1, <4>2, Zenon
    <3>3. sequence' \in [Clients -> 0..MaxRequests]
      <4>1. /\ sequence \in [Clients -> 0..MaxRequests] /\ sequence' = [sequence EXCEPT ![c] = 0]
            /\ MaxRequests \in Nat
        BY <2>2, SocketsAssumption DEF New, ProcsInv
      <4>2. 0 \in 0..MaxRequests
        BY <4>1
      <4> QED
        BY <4>1, <4>2, Zenon
    <3> QED
      BY <2>2, <3>1, <3>2, <3>3 DEF New, ProcsInv, sockets, serving
  <2>3. CASE Delete(c)
    <3>1. pc' \in [Procs -> Places]
      BY <2>1, <2>3, GotoType DEF Delete, Places
    <3> QED
      BY <2>1, <2>3, <3>1, DestroyedType DEF Delete, ProcsInv, serving
  <2>4. CASE Die(c)
    BY <2>4 DEF Die, ProcsInv, sockets, serving
  <2>5. CASE Request(c)
    <3>1. PICK place \in Places : Goto(c, place)
      BY <2>5 DEF Request, Places
    <3>2. pc' \in [Procs -> Places]
      BY <2>1, <3>1, GotoType
    <3>3. sequence' \in [Clients -> 0..MaxRequests]
      <4>1. /\ sequence[c] \in 0..MaxRequests /\ sequence[c] < MaxRequests /\ MaxRequests \in Nat
            /\ sequence' = [sequence EXCEPT ![c] = sequence[c] + 1]
        BY <2>5, SocketsAssumption DEF Request, ProcsInv
      <4>2. sequence[c] + 1 \in 0..MaxRequests
        BY <4>1
      <4> QED
        BY <4>1, <4>2 DEF ProcsInv
    <3> QED
      BY <2>5, <3>2, <3>3 DEF Request, ProcsInv, sockets, serving
  <2>6. CASE Select(c) \/ Recv(c)
    <3>1. PICK place \in Places : Goto(c, place)
      BY <2>6 DEF Select, Recv, Places
    <3>2. pc' \in [Procs -> Places]
      BY <2>1, <3>1, GotoType
    <3> QED
      BY <2>6, <3>2 DEF Select, Recv, ProcsInv, sockets, serving
  <2> QED
    BY <1>6, <2>2, <2>3, <2>4, <2>5, <2>6 DEF Client
<1>7. CASE UNCHANGED vars
  BY <1>3, <1>7 DEF vars, sockets
<1> QED
  BY <1>1, <1>2, <1>4, <1>5, <1>6, <1>7 DEF Next, Run

\* A reply's packet.
LEMMA ReplyType ==
    ASSUME DataInv, NEW d \in net, Whole(d.bytes), NEW order
    PROVE  ClockPacket(order, d.bytes) \in Packets
<1>1. Octets(d.bytes) /\ buffer \in Buffers
  BY DEF DataInv
<1>2. Len(d.bytes) >= PACKET_LENGTH
  BY <1>1, FilledFacts
<1> QED
  BY <1>1, <1>2, PacketType

LEMMA NewType ==
    ASSUME ProcsInv, DataInv, NEW e, Fresh(e)
    PROVE  e \in Datagrams /\ Octets(e.bytes) /\ Route(e)
<1>1. CASE Replied(e)
  <2>1. PICK d \in net, now \in ClockOf[Server] \ {usecInvalid} :
          LET request == ClockPacket(Order[Server], d.bytes)
              reply == [request EXCEPT !.type = REPLY, !.serverReplyTime = now]
          IN  /\ d.to = ServerAddress /\ Whole(d.bytes) /\ request.type = REQUEST
              /\ e = [from |-> ServerAddress, to |-> d.from, bytes |-> write(Order[Server], reply)]
    BY <1>1 DEF Replied
  <2> DEFINE request == ClockPacket(Order[Server], d.bytes)
             reply == [request EXCEPT !.type = REPLY, !.serverReplyTime = now]
  <2>2. request \in Packets
    BY <2>1, ReplyType
  <2>3. now \in Int64 /\ Order[Server] \in Orders
    BY HostsFacts
  <2>4. reply \in Packets
    <3> HIDE DEF request
    <3> QED
      BY <2>2, <2>3, TypesFacts DEF Packets
  <2>5. e = [from |-> ServerAddress, to |-> d.from, bytes |-> write(Order[Server], reply)]
    BY <2>1
  <2> HIDE DEF reply
  <2>6. write(Order[Server], reply) \in Seq(Nat) /\ Octets(write(Order[Server], reply))
    BY <2>3, <2>4, WriteFacts, BuffersFacts
  <2>7. d.from \in Addresses /\ d.from.host \in Others
    <3>1. d \in Datagrams /\ Route(d) /\ d.to = ServerAddress
      BY <2>1 DEF DataInv
    <3> QED
      BY <3>1, HostsFacts DEF Route, Datagrams
  <2> QED
    BY <2>5, <2>6, <2>7, HostsFacts DEF Datagrams, Route
<1>2. ASSUME NEW c \in Clients, NEW packet \in Packets, ByClient(e, c, packet)
      PROVE  e \in Datagrams /\ Octets(e.bytes) /\ Route(e)
  <2>1. Order[c] \in Orders
    BY HostsFacts
  <2>2. write(Order[c], packet) \in Seq(Nat) /\ Octets(write(Order[c], packet))
    BY <2>1, WriteFacts, BuffersFacts
  <2> QED
    BY <1>2, <2>2, AddressFacts, HostsFacts DEF ByClient, Datagrams, Route
<1>3. CASE Requested(e)
  BY <1>2, <1>3, NewPacketType, TypesFacts DEF Requested
<1>4. CASE Killed(e)
  BY <1>2, <1>4, NewPacketType, TypesFacts, HostsFacts DEF Killed
<1>5. CASE Acknowledged(e)
  <2>1. PICK c \in Clients, d \in net, now \in Int64 :
          LET packet == ClockPacket(Order[c], d.bytes)
              answer == [packet EXCEPT !.type = ACKNOWLEDGE, !.clientReceiveTime = now]
          IN  Whole(d.bytes) /\ ByClient(e, c, answer)
    BY <1>5 DEF Acknowledged
  <2> DEFINE packet == ClockPacket(Order[c], d.bytes)
             answer == [packet EXCEPT !.type = ACKNOWLEDGE, !.clientReceiveTime = now]
  <2>2. packet \in Packets
    BY <2>1, ReplyType
  <2>3. answer \in Packets
    <3> HIDE DEF packet
    <3> QED
      BY <2>2, TypesFacts DEF Packets
  <2>4. ByClient(e, c, answer)
    BY <2>1
  <2> HIDE DEF answer
  <2> QED
    BY <1>2, <2>3, <2>4
<1> QED
  BY <1>1, <1>3, <1>4, <1>5 DEF Fresh

LEMMA QuotientType ==
    ASSUME NEW a \in Int, NEW b \in Nat \ {0}
    PROVE  Quotient(a, b) \in Int /\ Remainder(a, b) \in Int
<1>1. -a \in Int
  OBVIOUS
<1>2. a \div b \in Int /\ (-a) \div b \in Int
  BY <1>1, DivFacts
<1>3. Quotient(a, b) \in Int
  BY <1>2 DEF Quotient
<1>4. b * Quotient(a, b) \in Int
  BY <1>3, TimesType
<1> QED
  BY <1>3, <1>4 DEF Remainder

LEMMA ToIntType ==
    ASSUME NEW n \in Int
    PROVE  ToInt(n) \in Int
<1>1. IntRange \in Nat \ {0} /\ IntRange \div 2 \in Int
  BY ConstantsType
<1>2. n + IntRange \div 2 \in Int
  BY <1>1
<1>3. (n + IntRange \div 2) % IntRange \in Int
  BY <1>1, <1>2, DivFacts
<1> QED
  BY <1>1, <1>3 DEF ToInt

LEMMA StringType ==
    ASSUME NEW t \in Int
    PROVE  StringFromTp(t) \in [sec : Int, usec : Int]
BY ConstantsType, QuotientType, ToIntType DEF StringFromTp

LEMMA OffsetType ==
    ASSUME NEW p \in Packets
    PROVE  getClockOffset(p) \in Int /\ rtt(p) \in Int
<1>1. /\ p.clientRequestTime \in Int /\ p.serverReplyTime \in Int /\ p.clientReceiveTime \in Int
      /\ usecInvalid \in Int
  BY HostsFacts DEF Packets
<1>2. rtt(p) \in Int
  BY <1>1 DEF rtt, diff
<1>3. Quotient(rtt(p), 2) \in Int
  BY <1>2, QuotientType
<1> QED
  BY <1>1, <1>2, <1>3 DEF getClockOffset

LEMMA DataStep == ProcsInv /\ DataInv /\ [Next]_vars => DataInv'
<1> SUFFICES ASSUME ProcsInv, DataInv, [Next]_vars PROVE DataInv'
  OBVIOUS
<1>1. \A d \in net' : d \in Datagrams /\ Octets(d.bytes) /\ Route(d)
  <2>1. CASE net' = net
    BY <2>1 DEF DataInv
  <2>2. ASSUME NEW e, Fresh(e), net' \in {net, net \cup {e}}
        PROVE  \A d \in net' : d \in Datagrams /\ Octets(d.bytes) /\ Route(d)
    BY <2>2, NewType DEF DataInv
  <2> QED
    BY <2>1, <2>2, NetGrows DEF Grows
<1>2. ASSUME NEW d \in net PROVE Filled(buffer, d.bytes) \in Buffers
  BY RequestType
<1>3. ASSUME NEW d \in net, Receive(d) PROVE buffer' \in Buffers
  BY <1>2, <1>3 DEF Receive
<1>4. ASSUME NEW d \in net, Reply(d) PROVE buffer' \in Buffers /\ printed' = printed
  <2>1. PICK now \in ClockOf[Server] \ {usecInvalid} :
          LET request == Packet(Filled(buffer, d.bytes))
              reply == [request EXCEPT !.type = REPLY, !.serverReplyTime = now]
          IN  buffer' = write(Order[Server], reply)
    BY <1>4 DEF Reply
  <2> DEFINE request == Packet(Filled(buffer, d.bytes))
             reply == [request EXCEPT !.type = REPLY, !.serverReplyTime = now]
  <2>2. request \in Packets
    BY RequestType
  <2>3. now \in Int64 /\ Order[Server] \in Orders
    BY HostsFacts
  <2>4. reply \in Packets
    <3> HIDE DEF request
    <3> QED
      BY <2>2, <2>3, TypesFacts DEF Packets
  <2>5. buffer' = write(Order[Server], reply)
    BY <2>1
  <2> HIDE DEF reply
  <2> QED
    BY <1>4, <2>3, <2>4, <2>5, WriteFacts DEF Reply
<1>5. ASSUME NEW d \in net, Acknowledge(d) PROVE printed' \subseteq Printed
  <2>1. PICK now \in ClockOf[Server] \ {usecInvalid} :
          LET packet == Packet(Filled(buffer, d.bytes))
          IN  /\ d.to = ServerAddress
              /\ printed' = {[address |-> Endpoint(d.from), offset |-> getClockOffset(packet),
                                   rtt |-> rtt(packet), time |-> StringFromTp(now)]}
    BY <1>5 DEF Acknowledge, Receive
  <2> DEFINE packet == Packet(Filled(buffer, d.bytes))
  <2>2. packet \in Packets
    BY RequestType
  <2>3. printed' = {[address |-> Endpoint(d.from), offset |-> getClockOffset(packet),
                     rtt |-> rtt(packet), time |-> StringFromTp(now)]}
    BY <2>1
  <2> HIDE DEF packet
  <2>4. Endpoint(d.from) \in Hosts
    BY DEF DataInv, Datagrams, Addresses, Endpoint
  <2>5. getClockOffset(packet) \in Int /\ rtt(packet) \in Int
    BY <2>2, OffsetType
  <2>6. StringFromTp(now) \in [sec : Int, usec : Int]
    BY HostsFacts, StringType
  <2> QED
    BY <2>3, <2>4, <2>5, <2>6 DEF Printed
<1>6. buffer' \in Buffers /\ printed' \subseteq Printed
  <2>1. CASE UNCHANGED <<buffer, printed>>
    BY <2>1 DEF DataInv
  <2>2. ASSUME NEW d \in net, Reply(d) \/ Acknowledge(d) \/ Return(d) \/ Ignore(d)
        PROVE  buffer' \in Buffers /\ printed' \subseteq Printed
    BY <1>3, <1>4, <1>5, <2>2 DEF Acknowledge, Return, Ignore, DataInv
  <2>3. CASE Bind \/ UNCHANGED vars
    BY <2>1, <2>3 DEF Bind, vars
  <2>4. ASSUME NEW c \in Clients, Client(c) PROVE buffer' \in Buffers /\ printed' \subseteq Printed
    BY <2>1, <2>4 DEF Client, New, Delete, Die, Request, Select, Recv, serving
  <2>5. ASSUME NEW p \in Procs, Make(p) PROVE buffer' \in Buffers /\ printed' \subseteq Printed
    BY <2>1, <2>5 DEF Make, serving
  <2> QED
    BY <2>2, <2>3, <2>4, <2>5 DEF Next, Run
<1> QED
  BY <1>1, <1>6 DEF DataInv

LEMMA TypesInit == Init => ProcsInv /\ DataInv
<1> SUFFICES ASSUME Init PROVE ProcsInv /\ DataInv
  OBVIOUS
<1>1. ProcsInv
  <2>1. 0 \in Nat /\ 0 \in 0..MaxRequests
    BY SocketsAssumption
  <2>2. objects \in [Clients -> Nat] /\ sequence \in [Clients -> 0..MaxRequests]
    BY <2>1 DEF Init
  <2>3. pc \in [Procs -> Places]
    BY DEF Init, Places
  <2>4. /\ init \in [Procs -> BOOLEAN] /\ sock \in [Procs -> Nat \cup {NoSocket}]
        /\ addrinfo \in [Procs -> BOOLEAN] /\ open \in [Procs -> SUBSET Nat]
        /\ bound \in BOOLEAN /\ killed \in BOOLEAN
    BY DEF Init
  <2> QED
    BY <2>2, <2>3, <2>4 DEF ProcsInv
<1>2. buffer \in Buffers
  BY SocketsAssumption DEF Init, Buffers, Octets
<1>3. ASSUME NEW d \in net PROVE d \in Datagrams /\ Octets(d.bytes) /\ Route(d)
  <2>1. PICK h \in Strays : d \in FromStray(h)
    BY <1>3 DEF Init
  <2>2. PICK b \in StrayBytes[h] :
          d = [from |-> [host |-> h, port |-> 0], to |-> ServerAddress, bytes |-> b]
    BY <2>1 DEF FromStray
  <2>3. Octets(b) /\ b \in Seq(Nat)
    BY SocketsAssumption DEF Octets
  <2>4. h \in Others /\ [host |-> h, port |-> 0] \in Addresses
    BY HostsFacts DEF Others, Addresses
  <2> QED
    BY <2>2, <2>3, <2>4, HostsFacts DEF Datagrams, Route
<1>4. printed \subseteq Printed
  BY DEF Init
<1> QED
  BY <1>1, <1>2, <1>3, <1>4 DEF DataInv

LEMMA TypesInvariance == Spec => [](ProcsInv /\ DataInv)
BY Invariance, TypesInit, ProcsStep, DataStep, PTL DEF Spec

-----------------------------------------------------------------------------
(* Whose packets they are *)

\* No program that isn't a client sends a KILL.
StraysDontKill ==
    \A h \in Strays : \A b \in StrayBytes[h] : Whole(b) => b[1] # KILL

KillInv ==
    \A d \in net : d.to = ServerAddress /\ Whole(d.bytes) /\ d.bytes[1] = KILL => killed

\* What the others send to the server is not from the server's address.
LEMMA SentTo ==
    ASSUME ProcsInv, DataInv, NEW e, Fresh(e)
    PROVE  /\ Replied(e) => e.from = ServerAddress /\ e.to # ServerAddress
           /\ Requested(e) \/ Killed(e) \/ Acknowledged(e)
                => e.to = ServerAddress /\ e.from # ServerAddress /\ e.from.host \in Clients
<1>1. ASSUME Replied(e) PROVE e.from = ServerAddress /\ e.to # ServerAddress
  <2>1. PICK d \in net : d.to = ServerAddress /\ e.from = ServerAddress /\ e.to = d.from
    BY <1>1 DEF Replied
  <2>2. Route(d)
    BY DEF DataInv
  <2> QED
    BY <2>1, <2>2, HostsFacts DEF Route
<1>2. ASSUME NEW c \in Clients, NEW packet, ByClient(e, c, packet)
      PROVE  e.to = ServerAddress /\ e.from # ServerAddress /\ e.from.host \in Clients
  BY <1>2, AddressFacts DEF ByClient
<1> QED
  BY <1>1, <1>2 DEF Requested, Killed, Acknowledged

LEMMA ByClientType ==
    ASSUME NEW e, NEW c \in Clients, NEW packet \in Packets, ByClient(e, c, packet)
    PROVE  /\ e.bytes[1] = packet.type
           /\ ClockPacket(Order[Server], e.bytes) = packet
<1>1. Order[c] \in Orders /\ Order[Server] \in Orders
  BY HostsFacts
<1>2. e.bytes = write(Order[c], packet)
  BY DEF ByClient
<1> QED
  BY <1>1, <1>2, WriteFacts, PacketRoundTrip

\* What a client sends is a packet of a type of its own.
LEMMA RequestedPacket ==
    ASSUME NEW e, Requested(e)
    PROVE  \E c \in Clients, packet \in Packets :
              /\ ByClient(e, c, packet) /\ packet.type = REQUEST
              /\ packet.clientRequestTime \in ClockOf[c]
<1>1. PICK c \in Clients, now \in Int64, n \in Nat :
        now \in ClockOf[c] /\ ByClient(e, c, NewPacket(REQUEST, n, now))
  BY DEF Requested
<1>2. NewPacket(REQUEST, n, now) \in Packets
  BY NewPacketType, TypesFacts
<1>3. /\ NewPacket(REQUEST, n, now).type = REQUEST
      /\ NewPacket(REQUEST, n, now).clientRequestTime = now
  BY DEF NewPacket
<1> QED
  BY <1>1, <1>2, <1>3

LEMMA AcknowledgedPacket ==
    ASSUME DataInv, NEW e, Acknowledged(e)
    PROVE  \E c \in Clients, packet \in Packets, d \in net :
              /\ ByClient(e, c, packet) /\ packet.type = ACKNOWLEDGE
              /\ packet.clientReceiveTime \in ClockOf[c] /\ rtt(packet) # usecInvalid
              /\ d.to = AddressOf(c)
              /\ packet.clientRequestTime = ClockPacket(Order[c], d.bytes).clientRequestTime
              /\ packet.serverReplyTime = ClockPacket(Order[c], d.bytes).serverReplyTime
<1>1. PICK c \in Clients, d \in net, now \in Int64 :
        LET packet == ClockPacket(Order[c], d.bytes)
            answer == [packet EXCEPT !.type = ACKNOWLEDGE, !.clientReceiveTime = now]
        IN  /\ now \in ClockOf[c] /\ d.to = AddressOf(c) /\ Whole(d.bytes)
            /\ rtt(answer) # usecInvalid /\ ByClient(e, c, answer)
  BY DEF Acknowledged, InTime
<1> DEFINE packet == ClockPacket(Order[c], d.bytes)
           answer == [packet EXCEPT !.type = ACKNOWLEDGE, !.clientReceiveTime = now]
<1>2. packet \in Packets
  BY <1>1, ReplyType
<1>3. /\ answer \in Packets /\ answer.type = ACKNOWLEDGE /\ answer.clientReceiveTime = now
      /\ answer.clientRequestTime = packet.clientRequestTime
      /\ answer.serverReplyTime = packet.serverReplyTime
  <2> HIDE DEF packet
  <2> QED
    BY <1>2, TypesFacts DEF Packets
<1>4. /\ now \in ClockOf[c] /\ d.to = AddressOf(c) /\ ByClient(e, c, answer)
      /\ rtt(answer) # usecInvalid
  BY <1>1
<1> HIDE DEF answer
<1> QED
  BY <1>3, <1>4

LEMMA KillStep ==
    ASSUME ProcsInv, DataInv, KillInv, [Next]_vars
    PROVE  KillInv'
<1>1. killed => killed'
  BY DEF Next, Run, Bind, Reply, Acknowledge, Return, Ignore, Receive, Client, New, Delete, Die,
         Request, Select, Recv, Make, vars
<1>2. ASSUME NEW e, Fresh(e), e.to = ServerAddress, e.bytes[1] = KILL PROVE killed'
  <2>1. CASE Replied(e)
    BY <1>2, <2>1, SentTo
  <2>2. CASE Requested(e)
    BY <1>2, <2>2, RequestedPacket, ByClientType, TypesFacts
  <2>3. CASE Killed(e)
    BY <2>3 DEF Killed
  <2>4. CASE Acknowledged(e)
    BY <1>2, <2>4, AcknowledgedPacket, ByClientType, TypesFacts
  <2> QED
    BY <1>2, <2>1, <2>2, <2>3, <2>4 DEF Fresh
<1>3. ASSUME NEW d \in net', d.to = ServerAddress, Whole(d.bytes), d.bytes[1] = KILL PROVE killed'
  BY <1>1, <1>2, <1>3, NetGrows DEF Grows, KillInv
<1> QED
  BY <1>3 DEF KillInv

\* The server returns for a KILL, whole as it came.
LEMMA ReturnsForKill ==
    ASSUME DataInv, NEW d \in net, Return(d)
    PROVE  d.to = ServerAddress /\ Whole(d.bytes) /\ d.bytes[1] = KILL
<1>1. /\ d.to = ServerAddress /\ Whole(d.bytes)
      /\ Packet(Filled(buffer, d.bytes)).type = KILL
  BY DEF Return, Receive
<1>2. ClockPacket(Order[Server], d.bytes).type = KILL
  BY <1>1, WholePacket DEF DataInv, Packet
<1> QED
  BY <1>1, <1>2 DEF ClockPacket

LEMMA KilledStep ==
    ASSUME ProcsInv, DataInv, KillInv, EndsByKill, [Next]_vars
    PROVE  EndsByKill'
<1>1. killed => killed'
  BY DEF Next, Run, Bind, Reply, Acknowledge, Return, Ignore, Receive, Client, New, Delete, Die,
         Request, Select, Recv, Make, vars
<1>2. ASSUME NEW d \in net, Return(d) PROVE killed'
  BY <1>1, <1>2, ReturnsForKill DEF KillInv
<1>3. ASSUME NEW p \in Procs, NEW place, Goto(p, place), p = Server => place # "returned"
      PROVE  pc'[Server] = "returned" => pc[Server] = "returned"
  BY <1>3, HostsFacts DEF ProcsInv, Goto
<1>4. CASE Bind
  <2>1. PICK place \in {"ready", "abort()", "exit(1)"} : Goto(Server, place)
    BY <1>4 DEF Bind, Fatal
  <2> QED
    BY <1>1, <1>3, <2>1, HostsFacts DEF EndsByKill
<1>5. ASSUME NEW p \in Procs, Make(p) PROVE EndsByKill'
  <2>1. PICK place \in {"bind()", "ready", "abort()", "exit(1)"} : Goto(p, place)
    BY <1>5 DEF Make, Construct, Fatal
  <2> QED
    BY <1>1, <1>3, <2>1 DEF EndsByKill
<1>6. ASSUME NEW c \in Clients, Client(c) PROVE EndsByKill'
  <2>1. c \in Procs /\ c # Server
    BY HostsFacts
  <2>2. pc' = pc \/ \E place : Goto(c, place)
    BY <1>6 DEF Client, New, Delete, Die, Request, Select, Recv
  <2> QED
    BY <1>1, <1>3, <2>1, <2>2 DEF EndsByKill
<1>7. ASSUME NEW d \in net, Reply(d) \/ Acknowledge(d) \/ Ignore(d) PROVE EndsByKill'
  BY <1>1, <1>7 DEF Reply, Acknowledge, Ignore, EndsByKill
<1>8. CASE UNCHANGED vars
  BY <1>8 DEF vars, EndsByKill
<1> QED
  BY <1>2, <1>4, <1>5, <1>6, <1>7, <1>8 DEF Next, Run, EndsByKill

\* A packet that host h sends to the server has its own clock's times, and the server's.
Own(h, packet) ==
    /\ packet.type = REQUEST => packet.clientRequestTime \in ClockOf[h]
    /\ packet.type = ACKNOWLEDGE =>
         /\ packet.clientRequestTime \in ClockOf[h] /\ packet.clientReceiveTime \in ClockOf[h]
         /\ rtt(packet) # usecInvalid
         /\ packet.serverReplyTime \in ValidTimes(Server)

\* The server's, to host h.
Answers(h, packet) ==
    /\ packet.type = REPLY
    /\ packet.clientRequestTime \in ClockOf[h]
    /\ packet.serverReplyTime \in ValidTimes(Server)

\* So other programs' packets, if they are whole.
StraysSendTheirOwn ==
    \A h \in Strays : \A b \in StrayBytes[h] :
        Whole(b) => Own(h, ClockPacket(Order[Server], b))

\* A client's clock, when it isn't corrupt, may have any time halfway between two that it may
\* have.  (An offset is the server's time minus such a time.)
TimesBetween ==
    \A h \in Others : \A a, b \in ValidTimes(h) : b - Quotient(b - a, 2) \in ValidTimes(h)

\* The seconds of the server's times fit into an int.
TimesFit ==
    /\ Million <= IntRange \div 2
    /\ \A t \in ClockOf[Server] \ {usecInvalid} :
         Quotient(t, Million) \in -(IntRange \div 2) .. IntRange \div 2 - 1

OwnInv ==
    \A d \in net :
        /\ d.to = ServerAddress /\ Whole(d.bytes)
             => Own(d.from.host, ClockPacket(Order[Server], d.bytes))
        /\ d.from = ServerAddress
             => Answers(d.to.host, ClockPacket(Order[d.to.host], d.bytes))

PrintedInv ==
    \A e \in printed :
        /\ e.offset \in {s - c : s \in ValidTimes(Server), c \in ValidTimes(e.address)}
        /\ e.time.sec * Million + e.time.usec \in ValidTimes(Server)

\* The server's reply, as its receiver reads it.
LEMMA RepliedPacket ==
    ASSUME DataInv, OwnInv, NEW e, Replied(e)
    PROVE  Answers(e.to.host, ClockPacket(Order[e.to.host], e.bytes))
<1>1. PICK d \in net, now \in ClockOf[Server] \ {usecInvalid} :
        LET request == ClockPacket(Order[Server], d.bytes)
            reply == [request EXCEPT !.type = REPLY, !.serverReplyTime = now]
        IN  /\ d.to = ServerAddress /\ Whole(d.bytes) /\ request.type = REQUEST
            /\ e = [from |-> ServerAddress, to |-> d.from, bytes |-> write(Order[Server], reply)]
  BY DEF Replied
<1> DEFINE request == ClockPacket(Order[Server], d.bytes)
           reply == [request EXCEPT !.type = REPLY, !.serverReplyTime = now]
           h == d.from.host
<1>2. request \in Packets
  BY <1>1, ReplyType
<1>3. request.clientRequestTime \in ClockOf[h]
  BY <1>1 DEF OwnInv, Own
<1>4. d.to = ServerAddress /\ e.to.host = h /\ e.bytes = write(Order[Server], reply)
  BY <1>1
<1>5. h \in Others
  BY <1>4, HostsFacts DEF DataInv, Route
<1>6. now \in Int64 /\ Order[Server] \in Orders /\ Order[h] \in Orders
  BY <1>5, HostsFacts
<1> HIDE DEF request, h
<1>7. /\ reply \in Packets /\ reply.type = REPLY /\ reply.serverReplyTime = now
      /\ reply.clientRequestTime = request.clientRequestTime
  BY <1>2, <1>6, TypesFacts DEF Packets
<1> HIDE DEF reply
<1>8. ClockPacket(Order[h], e.bytes) = reply
  BY <1>4, <1>6, <1>7, PacketRoundTrip
<1> QED
  BY <1>3, <1>4, <1>7, <1>8 DEF Answers, ValidTimes

LEMMA OwnStep ==
    ASSUME ProcsInv, DataInv, OwnInv, [Next]_vars
    PROVE  OwnInv'
<1> DEFINE Right(d) ==
             /\ d.to = ServerAddress /\ Whole(d.bytes)
                  => Own(d.from.host, ClockPacket(Order[Server], d.bytes))
             /\ d.from = ServerAddress
                  => Answers(d.to.host, ClockPacket(Order[d.to.host], d.bytes))
<1>1. ASSUME NEW e, Replied(e) PROVE Right(e)
  BY <1>1, RepliedPacket, SentTo DEF Fresh
<1>2. ASSUME NEW e, NEW c \in Clients, NEW packet \in Packets, ByClient(e, c, packet),
             Own(c, packet)
      PROVE  Right(e)
  <2>1. ClockPacket(Order[Server], e.bytes) = packet
    BY <1>2, ByClientType
  <2>2. e.from.host = c /\ e.from # ServerAddress
    BY <1>2, AddressFacts DEF ByClient
  <2> QED
    BY <1>2, <2>1, <2>2
<1>3. ASSUME NEW e, Requested(e) PROVE Right(e)
  <2>1. PICK c \in Clients, packet \in Packets :
          /\ ByClient(e, c, packet) /\ packet.type = REQUEST
          /\ packet.clientRequestTime \in ClockOf[c]
    BY <1>3, RequestedPacket
  <2>2. Own(c, packet)
    BY <2>1, TypesFacts DEF Own
  <2> QED
    BY <1>2, <2>1, <2>2
<1>4. ASSUME NEW e, Killed(e) PROVE Right(e)
  <2>1. PICK c \in Clients : ByClient(e, c, NewPacket(KILL, 0, usecInvalid))
    BY <1>4 DEF Killed
  <2>2. NewPacket(KILL, 0, usecInvalid) \in Packets
    BY NewPacketType, TypesFacts, HostsFacts
  <2>3. Own(c, NewPacket(KILL, 0, usecInvalid))
    BY TypesFacts DEF Own, NewPacket
  <2> QED
    BY <1>2, <2>1, <2>2, <2>3
<1>5. ASSUME NEW e, Acknowledged(e) PROVE Right(e)
  <2>1. PICK c \in Clients, packet \in Packets, d \in net :
          /\ ByClient(e, c, packet) /\ packet.type = ACKNOWLEDGE
          /\ packet.clientReceiveTime \in ClockOf[c] /\ rtt(packet) # usecInvalid
          /\ d.to = AddressOf(c)
          /\ packet.clientRequestTime = ClockPacket(Order[c], d.bytes).clientRequestTime
          /\ packet.serverReplyTime = ClockPacket(Order[c], d.bytes).serverReplyTime
    BY <1>5, AcknowledgedPacket
  <2>2. d.from = ServerAddress /\ d.to.host = c
    BY <2>1, AddressFacts DEF DataInv, Route
  <2>3. Answers(c, ClockPacket(Order[c], d.bytes))
    BY <2>2 DEF OwnInv
  <2>4. Own(c, packet)
    BY <2>1, <2>3, TypesFacts DEF Own, Answers
  <2> QED
    BY <1>2, <2>1, <2>4
<1>6. \A d \in net : Right(d)
  BY DEF OwnInv
<1> HIDE DEF Right
<1>7. \A d \in net' : Right(d)
  BY <1>1, <1>3, <1>4, <1>5, <1>6, NetGrows DEF Grows, Fresh
<1> QED
  BY <1>7 DEF OwnInv, Right

-----------------------------------------------------------------------------
(* What is printed *)

\* A client's offset, between the times of its request and of its receipt of the reply.
LEMMA OffsetFacts ==
    ASSUME TimesBetween, NEW h \in Others, NEW p \in Packets, p.type = ACKNOWLEDGE, Own(h, p)
    PROVE  getClockOffset(p) \in {s - c : s \in ValidTimes(Server), c \in ValidTimes(h)}
<1> DEFINE a == p.clientRequestTime
           b == p.clientReceiveTime
           s == p.serverReplyTime
           half == Quotient(b - a, 2)
<1>1. /\ a \in ClockOf[h] /\ b \in ClockOf[h] /\ s \in ValidTimes(Server)
      /\ rtt(p) # usecInvalid
  BY DEF Own
<1>2. a # usecInvalid /\ b # usecInvalid /\ rtt(p) = b - a
  BY <1>1 DEF rtt, diff
<1>3. a \in Int /\ b \in Int /\ s \in Int
  BY HostsFacts DEF Packets
<1>4. half \in Int
  <2>1. b - a \in Int
    BY <1>3
  <2> QED
    BY <2>1, QuotientType
<1>5. b - half \in ValidTimes(h)
  BY <1>1, <1>2 DEF TimesBetween, ValidTimes
<1>6. getClockOffset(p) = (s - b) + half
  BY <1>1, <1>2 DEF getClockOffset, ValidTimes
<1> HIDE DEF a, b, s, half
<1>7. (s - b) + half = s - (b - half)
  BY <1>3, <1>4
<1> QED
  BY <1>1, <1>5, <1>6, <1>7

LEMMA RemainderRange ==
    ASSUME NEW t \in Int, NEW b \in Nat \ {0}
    PROVE  Remainder(t, b) \in -(b - 1) .. b - 1
<1>1. CASE t < 0
  <2> DEFINE q == (-t) \div b
             r == (-t) % b
  <2>1. q \in Int /\ r \in 0 .. b - 1 /\ -t = b * q + r
    <3>1. PICK u \in Int : u = -t
      OBVIOUS
    <3>2. u \div b \in Int /\ u % b \in 0 .. b - 1 /\ u = b * (u \div b) + (u % b)
      BY DivFacts, Zenon
    <3> QED
      BY <3>1, <3>2, Zenon
  <2>2. Remainder(t, b) = t - b * (-q)
    BY <1>1 DEF Remainder, Quotient
  <2> HIDE DEF q, r
  <2>3. b * (-q) = -(b * q) /\ b * q \in Int
    BY <2>1
  <2>4. Remainder(t, b) = -r
    BY <2>1, <2>2, <2>3
  <2> QED
    BY <2>1, <2>4
<1>2. CASE ~(t < 0)
  <2> DEFINE q == t \div b
             r == t % b
  <2>1. q \in Int /\ r \in 0 .. b - 1 /\ t = b * q + r
    BY DivFacts
  <2>2. Remainder(t, b) = t - b * q
    BY <1>2 DEF Remainder, Quotient
  <2> HIDE DEF q, r
  <2>3. b * q \in Int
    BY <2>1
  <2>4. Remainder(t, b) = r
    BY <2>1, <2>2, <2>3
  <2> QED
    BY <2>1, <2>4
<1> QED
  BY <1>1, <1>2

LEMMA ToIntSame ==
    ASSUME NEW n \in -(IntRange \div 2) .. IntRange \div 2 - 1
    PROVE  ToInt(n) = n
<1> DEFINE h == IntRange \div 2
<1>1. h \in Nat \ {0} /\ IntRange = 2 * h /\ IntRange \in Nat \ {0} /\ n \in -h .. h - 1
  BY ConstantsType
<1> HIDE DEF h
<1>2. n + h \in 0 .. IntRange - 1 /\ n + h = IntRange * 0 + (n + h) /\ n + h \in Int
  BY <1>1
<1>3. (n + h) % IntRange = n + h
  BY <1>1, <1>2, DivUnique
<1>4. ToInt(n) = ((n + h) % IntRange) - h
  BY DEF ToInt, h
<1> QED
  BY <1>1, <1>3, <1>4

LEMMA StringFacts ==
    ASSUME TimesFit, NEW t \in ClockOf[Server] \ {usecInvalid}
    PROVE  StringFromTp(t).sec * Million + StringFromTp(t).usec = t
<1> DEFINE q == Quotient(t, Million)
           r == Remainder(t, Million)
<1>1. t \in Int /\ Million \in Nat \ {0}
  BY HostsFacts, ConstantsType
<1>2. q \in -(IntRange \div 2) .. IntRange \div 2 - 1 /\ q \in Int
  BY <1>1, QuotientType DEF TimesFit
<1>3. r \in -(IntRange \div 2) .. IntRange \div 2 - 1
  <2>1. r \in -(Million - 1) .. Million - 1
    BY <1>1, RemainderRange
  <2>2. Million <= IntRange \div 2 /\ IntRange \div 2 \in Nat
    BY ConstantsType DEF TimesFit
  <2> HIDE DEF r
  <2> QED
    BY <1>1, <2>1, <2>2
<1>4. ToInt(q) = q /\ ToInt(r) = r
  BY <1>2, <1>3, ToIntSame
<1>5. r = t - Million * q
  BY DEF Remainder
<1>6. StringFromTp(t) = [sec |-> q, usec |-> r]
  BY <1>4 DEF StringFromTp
<1> HIDE DEF q, r
<1>7. q * Million = Million * q /\ Million * q \in Int
  BY <1>1, <1>2
<1> QED
  BY <1>1, <1>5, <1>6, <1>7

LEMMA PrintedStep ==
    ASSUME TimesBetween, TimesFit, DataInv, OwnInv, PrintedInv, [Next]_vars
    PROVE  PrintedInv'
<1>1. CASE printed' = printed
  BY <1>1 DEF PrintedInv
<1>2. ASSUME NEW d \in net, Acknowledge(d) PROVE PrintedInv'
  <2>1. PICK now \in ClockOf[Server] \ {usecInvalid} :
          LET packet == Packet(Filled(buffer, d.bytes))
          IN  /\ d.to = ServerAddress /\ Whole(d.bytes) /\ packet.type = ACKNOWLEDGE
              /\ printed' = {[address |-> Endpoint(d.from), offset |-> getClockOffset(packet),
                                   rtt |-> rtt(packet), time |-> StringFromTp(now)]}
    BY <1>2 DEF Acknowledge, Receive
  <2> DEFINE packet == ClockPacket(Order[Server], d.bytes)
             h == d.from.host
  <2>2. Packet(Filled(buffer, d.bytes)) = packet
    BY <2>1, WholePacket DEF DataInv, Packet
  <2>3. packet \in Packets
    BY <2>1, ReplyType
  <2>4. Own(h, packet)
    BY <2>1 DEF OwnInv
  <2>5. h \in Others
    BY <2>1, HostsFacts DEF DataInv, Route
  <2> HIDE DEF packet, h
  <2>6. /\ packet.type = ACKNOWLEDGE
        /\ printed' = {[address |-> h, offset |-> getClockOffset(packet),
                        rtt |-> rtt(packet), time |-> StringFromTp(now)]}
    BY <2>1, <2>2 DEF Endpoint, h
  <2>7. getClockOffset(packet) \in {s - c : s \in ValidTimes(Server), c \in ValidTimes(h)}
    BY <2>3, <2>4, <2>5, <2>6, OffsetFacts
  <2>8. StringFromTp(now).sec * Million + StringFromTp(now).usec \in ValidTimes(Server)
    BY StringFacts DEF ValidTimes
  <2> QED
    BY <2>6, <2>7, <2>8 DEF PrintedInv
<1>3. ASSUME NEW d \in net, Reply(d) \/ Return(d) \/ Ignore(d) PROVE PrintedInv'
  BY <1>1, <1>3 DEF Reply, Return, Ignore
<1>4. CASE Bind \/ UNCHANGED vars
  BY <1>1, <1>4 DEF Bind, vars
<1>5. ASSUME NEW c \in Clients, Client(c) PROVE PrintedInv'
  BY <1>1, <1>5 DEF Client, New, Delete, Die, Request, Select, Recv, serving
<1>6. ASSUME NEW p \in Procs, Make(p) PROVE PrintedInv'
  BY <1>1, <1>6 DEF Make, serving
<1> QED
  BY <1>2, <1>3, <1>4, <1>5, <1>6 DEF Next, Run

-----------------------------------------------------------------------------
(* The theorems *)

\* A packet that one host writes is the same packet for any host that reads it, whatever
\* their byte orders: ClockPacket::write() and the constructor from bytes are inverses.
THEOREM PacketsSurvive ==
    \A from, to \in Orders : \A p \in Packets : ClockPacket(to, write(from, p)) = p
BY PacketRoundTrip

\* ClockServer::run() and ClockClient never use a socket that is closed, not yet made, or
\* not bound, nor leave one open, although they check only what recv() and sendto() return:
\* SocketsUsable, for any number of clients, each made and deleted any number of times.
THEOREM SocketsAreUsable == Spec => []SocketsUsable
<1>1. IInv => SocketsUsable
  BY ServerIsNoClient
  DEF IInv, DescriptorInv, BoundInv, SocketsUsable, Using, Without
<1> QED
  BY Invariance, <1>1, PTL

\* What the server's buffer, the datagrams and what is printed are, and that the buffer keeps
\* its length whatever is received: Spec => []TypeOK.
THEOREM SocketsTypeCorrect == Spec => []TypeOK
<1>1. ProcsInv /\ DataInv => TypeOK
  <2> SUFFICES ASSUME ProcsInv, DataInv PROVE TypeOK
    OBVIOUS
  <2>1. buffer \in Seq(Nat) /\ Len(buffer) = PACKET_LENGTH
    BY BuffersFacts DEF DataInv
  <2>2. net \subseteq Datagrams
    BY DEF DataInv
  <2> QED
    BY <2>1, <2>2 DEF ProcsInv, DataInv, TypeOK, Printed
<1> QED
  BY TypesInvariance, <1>1, PTL

\* ClockServer::run() returns only if a client called die(), as long as no other program
\* sends a whole KILL: not for one that is too short, nor for what an earlier packet left in
\* the buffer: Spec => []EndsByKill.
THEOREM ServerEndsByKill == StraysDontKill => (Spec => []EndsByKill)
<1> SUFFICES ASSUME StraysDontKill PROVE Spec => []EndsByKill
  OBVIOUS
<1>1. Init => KillInv /\ EndsByKill
  <2> SUFFICES ASSUME Init PROVE KillInv /\ EndsByKill
    OBVIOUS
  <2>1. ASSUME NEW d \in net PROVE Whole(d.bytes) => d.bytes[1] # KILL
    <3>1. PICK h \in Strays : d \in FromStray(h)
      BY DEF Init
    <3>2. PICK b \in StrayBytes[h] : d.bytes = b
      BY <3>1 DEF FromStray
    <3> QED
      BY <3>2 DEF StraysDontKill
  <2>2. pc[Server] = "socket()"
    BY HostsFacts DEF Init
  <2> QED
    BY <2>1, <2>2 DEF KillInv, EndsByKill
<1>2. ProcsInv /\ DataInv /\ KillInv /\ EndsByKill /\ [Next]_vars => KillInv' /\ EndsByKill'
  BY KillStep, KilledStep
<1> QED
  BY TypesInvariance, <1>1, <1>2, PTL DEF Spec

\* What the server replies to a host, or prints of it, is what that host and the server
\* measured, also when a clock of theirs is corrupt now and then: no invalid time gets into an
\* offset.  If other programs' packets are no lies, clocks may have the times between their
\* times, and the server's time fits into an int: Spec => []AttributedRight.
THEOREM AttributionIsRight ==
    StraysSendTheirOwn /\ TimesBetween /\ TimesFit => (Spec => []AttributedRight)
<1> SUFFICES ASSUME StraysSendTheirOwn, TimesBetween, TimesFit PROVE Spec => []AttributedRight
  OBVIOUS
<1>1. Init => OwnInv /\ PrintedInv
  <2> SUFFICES ASSUME Init PROVE OwnInv /\ PrintedInv
    OBVIOUS
  <2>1. ASSUME NEW d \in net
        PROVE  /\ Whole(d.bytes) => Own(d.from.host, ClockPacket(Order[Server], d.bytes))
               /\ d.from # ServerAddress
    <3>1. PICK h \in Strays : d \in FromStray(h)
      BY DEF Init
    <3>2. PICK b \in StrayBytes[h] : d.from.host = h /\ d.bytes = b
      BY <3>1 DEF FromStray
    <3>3. h # Server
      BY HostsFacts DEF Others
    <3> QED
      BY <3>2, <3>3, HostsFacts DEF StraysSendTheirOwn
  <2>2. printed = {}
    BY DEF Init
  <2> QED
    BY <2>1, <2>2 DEF OwnInv, PrintedInv
<1>2. ProcsInv /\ DataInv /\ OwnInv /\ PrintedInv /\ [Next]_vars => OwnInv' /\ PrintedInv'
  BY OwnStep, PrintedStep
<1>3. OwnInv /\ PrintedInv => AttributedRight
  BY DEF OwnInv, PrintedInv, Answers, AttributedRight
<1> QED
  BY TypesInvariance, <1>1, <1>2, <1>3, PTL DEF Spec
=============================================================================
