-------------------------- MODULE HomeClientProofs --------------------------
(***************************************************************************)
(* Proofs about HomeClient, for every number of attempts, descriptors and   *)
(* packets.                                                                *)
(*                                                                         *)
(* The code has no lock, so the argument is about who may run: as long as   *)
(* every receive loop ends at its own disconnect(), at most one thread is   *)
(* active at any time, because the alert comes onto the screen, where the   *)
(* user can touch it, only when the thread that shows it has nothing left    *)
(* to do but to set a flag and to leave its loop.                           *)
(***************************************************************************)
EXTENDS HomeClient, WellFoundedInduction, TLAPS

(* The thread has nothing to do.                                            *)
Quiet(t) == pc[t] \in {"idle", "none", "done"}

(* It only has to set visible, or to leave the loop it was told to stop.     *)
Finishing(t) ==
    \/ pc[t] = "setVisible"
    \/ t \in Attempt /\ loop[t] = "stopped" /\ pc[t] \in {"test", "empty"}

Active(t) == ~ Quiet(t) /\ ~ Finishing(t)

(* It runs connectToServer() and has opened the socket of this attempt.      *)
Opening(t) ==
    pc[t] \in {"connect", "sslNew", "sslConnect", "setConnected", "startThread"}

(* It is in a receive loop that nobody told to stop.                         *)
Reading(t) ==
    \/ pc[t] \in {"read", "blocked"}
    \/ t \in Attempt /\ loop[t] = "running" /\ pc[t] = "test"

(* Which thread runs which code.                                            *)
PlaceInv ==
    /\ pc[Main] \in {"idle"} \union ConnectStates \union DisconnectStates
    /\ pc[Ui] \in {"idle"} \union (ConnectStates \ {"init"})
                    \union DisconnectStates \union HideStates
    /\ \A k \in Attempt :
        /\ pc[k] \in ReceiveStates \union DisconnectStates
        /\ k > attempts => pc[k] = "none"
        /\ pc[k] = "none" => loop[k] = "running"
    /\ \A t \in Thread : Opening(t) => attempts \in Attempt

(* At most one thread is active, and none while the alert can be touched.    *)
OneActive ==
    /\ \A t, u \in Thread : Active(t) /\ Active(u) => t = u
    /\ onScreen => \A t \in Thread : ~ Active(t)

(* The active thread works on the socket and the object of this attempt: a   *)
(* live object wherever it is read or freed.                                *)
ObjectOf(t) ==
    /\ Opening(t) => pc[attempts] = "none"
    /\ pc[t] \in {"connect", "sslNew"} => sock = attempts
    /\ \/ pc[t] \in {"sslConnect", "setConnected", "startThread", "stop", "free"}
       \/ Reading(t)
       => object[ssl] = "live"
    /\ pc[t] = "startThread" \/ Reading(t) => connected

ObjectInv == \A t \in Thread : ObjectOf(t)

(* A receive thread is told to stop by its own disconnect() and nowhere else. *)
LoopOf(k) ==
    /\ pc[k] \in {"free", "close", "event", "show", "addBox", "setVisible",
                  "empty"}
        => loop[k] = "stopped"
    /\ pc[k] \in {"read", "blocked", "stop"} => loop[k] = "running"
    /\ pc[k] = "blocked" => reading[k] = ssl

LoopInv == \A k \in Attempt : LoopOf(k)

WorkInv == OneActive /\ ObjectInv /\ LoopInv

UseInv == LoopStops => ~ misused /\ (alive => WorkInv)

(* As long as no touch comes while a loop that was told to stop has not been  *)
(* left, the loop finds connected FALSE: by the time somebody connects       *)
(* again, nobody is on the way out.                                         *)
TurnInv ==
    ~ rushed =>
        /\ LoopStops
        /\ \A k \in Attempt : loop[k] = "stopped" /\ ~ Quiet(k) => ~ connected
        /\ \A c \in {Main, Ui} : Active(c) =>
               \A k \in Attempt : loop[k] = "stopped" => Quiet(k)

(* main has connected before there is anybody else, and the thread of an      *)
(* attempt under way has not been started.                                  *)
FreshInv ==
    /\ pc[Main] \in ConnectStates =>
           /\ pc[Ui] = "idle" /\ ~ onScreen
           /\ \A k \in Attempt : pc[k] = "none"
    /\ \A c \in {Main, Ui} : Opening(c) => pc[attempts] = "none"

(* The thread is about to show the alert, or is about to say so.             *)
Showing(t) == pc[t] \in {"addBox", "setVisible"}

(* visible is what the screen shows, but for the step in between; hide()      *)
(* finds the alert complete.                                                *)
AlertInv ==
    ~ crossed =>
        IF pc[Ui] = "setHidden"
        THEN visible /\ ~ onScreen /\ \A t \in Thread : ~ Showing(t)
        ELSE /\ visible \/ (\E t \in Thread : pc[t] = "setVisible") => onScreen
             /\ onScreen => visible \/ \E t \in Thread : pc[t] = "setVisible"

(* The thread will come to onDisconnect() and add an entry to the alert: it   *)
(* connects, is in disconnect(), or reads as long as it is connected; or it  *)
(* is the user's on the way to reconnect.                                   *)
Due(t) ==
    \/ pc[t] \in (ConnectStates \ {"startThread"}) \union HideStates
    \/ pc[t] \in {"stop", "free", "close", "event"}
    \/ connected /\ pc[t] \in {"startThread", "test", "read", "blocked", "empty"}

(* An alert with an entry is on the screen, or a thread is about to put it    *)
(* there.                                                                  *)
Offered ==
    /\ entries > 0
    /\ onScreen \/ \E t \in Thread : pc[t] \in {"show", "addBox"}

WayInv ==
    alive /\ ~ crossed /\ ~ silent /\ ~ dismissed =>
        (\E t \in Thread : Due(t)) \/ Offered
----------------------------------------------------------------------------
(* Induction over the naturals, as the existence of a least counterexample.  *)

Below == {p \in Nat \X Nat : p[1] < p[2]}

LEMMA BelowFounded == IsWellFoundedOn(Below, Nat)
  <1>1. OpToRel(<, Nat) = Below
    BY DEF OpToRel, Below
  <1> QED
    BY <1>1, NatLessThanWellFounded

LEMMA Smallest ==
    ASSUME NEW T, T \subseteq Nat, T # {}
    PROVE  \E x \in T : \A y \in T : x <= y
  <1>1. PICK x \in T : \A y \in T : <<y, x>> \notin Below
    BY BelowFounded, WFMin
  <1>2. ASSUME NEW y \in T PROVE x <= y
    <2>1. <<y, x>> \notin Below
      BY <1>1
    <2> QED
      BY <2>1 DEF Below
  <1> QED
    BY <1>2

(* The step of the recursion goes down, and stops at 0.                    *)
LEMMA Half ==
    ASSUME NEW n \in Nat
    PROVE  /\ n \div 2 \in Nat /\ n \div 2 <= n
           /\ n # 0 => n \div 2 < n
  OBVIOUS
----------------------------------------------------------------------------
(* Leftover is defined by recursion: that some function satisfies its        *)
(* equation is shown by joining functions that satisfy it up to a number.    *)

Halved(f, n) ==
    IF n = 0 THEN 0 ELSE IF n % 2 = 0 THEN n \div 2 ELSE f[n \div 2]

UpTo(f, n) == \A m \in 0 .. n : f[m] = Halved(f, m) /\ f[m] \in Nat

LEMMA Approximated == \A n \in Nat : \E f : UpTo(f, n)
  <1> DEFINE Bad == {n \in Nat : \A f : ~ UpTo(f, n)}
  <1>1. SUFFICES Bad = {}
    OBVIOUS
  <1>2. SUFFICES ASSUME Bad # {} PROVE FALSE
    OBVIOUS
  <1>3. PICK n \in Bad : \A m \in Bad : n <= m
    <2>1. Bad \subseteq Nat
      OBVIOUS
    <2> HIDE DEF Bad
    <2> QED
      BY <1>2, <2>1, Smallest
  <1>4. n \in Nat /\ \A f : ~ UpTo(f, n)
    OBVIOUS
  <1>5. CASE n = 0
    <2>1. UpTo([m \in {0} |-> 0], 0)
      BY DEF UpTo, Halved
    <2> QED
      BY <1>4, <1>5, <2>1
  <1>6. CASE n # 0
    <2>1. n - 1 \in Nat
      BY <1>4, <1>6
    <2>2. n - 1 \notin Bad
      <3>1. ~ (n <= n - 1)
        BY <1>4
      <3> QED
        BY <1>3, <3>1
    <2>3. PICK f : UpTo(f, n - 1)
      BY <2>1, <2>2
    <2> HIDE DEF Bad
    <2> DEFINE g == [m \in 0 .. n |-> IF m = n THEN Halved(f, n) ELSE f[m]]
    <2>4. ASSUME NEW m \in 0 .. n
          PROVE  /\ m \div 2 \in 0 .. n
                 /\ m # 0 => m \div 2 # n /\ m \div 2 \in 0 .. n - 1
      BY <1>4, Half
    <2>5. ASSUME NEW m \in 0 .. n PROVE Halved(g, m) = Halved(f, m)
      <3>1. m # 0 => g[m \div 2] = f[m \div 2]
        BY <2>4
      <3> HIDE DEF g
      <3> QED
        BY <3>1 DEF Halved
    <2>6. ASSUME NEW m \in 0 .. n PROVE g[m] = Halved(f, m)
      <3>1. CASE m = n
        BY <3>1
      <3>2. CASE m # n
        <4>1. m \in 0 .. n - 1
          BY <3>2, <1>4
        <4>2. f[m] = Halved(f, m)
          BY <4>1, <2>3 DEF UpTo
        <4> QED
          BY <4>2, <3>2
      <3> QED
        BY <3>1, <3>2
    <2>7. ASSUME NEW m \in 0 .. n PROVE Halved(f, m) \in Nat
      <3>1. m # 0 => f[m \div 2] \in Nat
        BY <2>4, <2>3 DEF UpTo
      <3>2. m \div 2 \in Nat
        BY <2>4
      <3> QED
        BY <3>1, <3>2 DEF Halved
    <2> HIDE DEF g
    <2>8. UpTo(g, n)
      BY <2>5, <2>6, <2>7 DEF UpTo
    <2> QED
      BY <2>8, <1>4
  <1> QED
    BY <1>5, <1>6

(* Two functions that satisfy the equation up to n agree up to n.          *)
LEMMA OnlyOne ==
    ASSUME NEW f, NEW g, NEW n \in Nat, UpTo(f, n), UpTo(g, n)
    PROVE  \A m \in 0 .. n : f[m] = g[m]
  <1> DEFINE Bad == {m \in 0 .. n : f[m] # g[m]}
  <1>1. SUFFICES Bad = {}
    OBVIOUS
  <1>2. SUFFICES ASSUME Bad # {} PROVE FALSE
    OBVIOUS
  <1>3. PICK m \in Bad : \A k \in Bad : m <= k
    <2>1. Bad \subseteq Nat
      OBVIOUS
    <2> HIDE DEF Bad
    <2> QED
      BY <1>2, <2>1, Smallest
  <1>4. m \in 0 .. n /\ f[m] # g[m]
    OBVIOUS
  <1>5. m # 0 => f[m \div 2] = g[m \div 2]
    <2>1. m # 0 => m \div 2 \in 0 .. n /\ ~ (m <= m \div 2)
      BY <1>4, Half
    <2>2. m # 0 => m \div 2 \notin Bad
      BY <2>1, <1>3
    <2> QED
      BY <2>1, <2>2
  <1> HIDE DEF Bad
  <1>6. f[m] = Halved(f, m) /\ g[m] = Halved(g, m)
    BY <1>4 DEF UpTo
  <1>7. Halved(f, m) = Halved(g, m)
    BY <1>5 DEF Halved
  <1> QED
    BY <1>4, <1>6, <1>7

(* The loop of Alert::hide() ends for every number of entries, and it erases  *)
(* at least half of them.                                                   *)
THEOREM HideErasesHalf ==
    /\ Leftover \in [Nat -> Nat]
    /\ \A n \in Nat : Leftover[n] = Halved(Leftover, n)
    /\ \A n \in Nat : Remaining(n) \in 0 .. n \div 2
  <1> DEFINE Pick(n) == CHOOSE f : UpTo(f, n)
             F == [n \in Nat |-> Pick(n)[n]]
  <1>1. ASSUME NEW n \in Nat PROVE UpTo(Pick(n), n)
    BY Approximated
  <1> HIDE DEF Pick
  <1>2. ASSUME NEW n \in Nat, NEW m \in 0 .. n PROVE Pick(m)[m] = Pick(n)[m]
    <2>1. m \in Nat /\ m \in 0 .. m
      OBVIOUS
    <2>2. UpTo(Pick(m), m)
      BY <1>1, <2>1
    <2>3. UpTo(Pick(n), m)
      BY <1>1 DEF UpTo
    <2> QED
      BY <2>1, <2>2, <2>3, OnlyOne
  <1>3. ASSUME NEW n \in Nat PROVE F[n] = Halved(F, n) /\ F[n] \in Nat
    <2>1. Pick(n)[n] = Halved(Pick(n), n) /\ Pick(n)[n] \in Nat
      BY <1>1 DEF UpTo
    <2>2. Pick(n \div 2)[n \div 2] = Pick(n)[n \div 2]
      <3>1. n \div 2 \in 0 .. n
        BY Half
      <3> QED
        BY <3>1, <1>2
    <2>3. Halved(Pick(n), n) = Halved(F, n)
      <3>1. F[n \div 2] = Pick(n)[n \div 2]
        BY <2>2, Half
      <3> HIDE DEF F
      <3> QED
        BY <3>1 DEF Halved
    <2> QED
      BY <2>1, <2>3
  <1>4. F = [n \in Nat |-> Halved(F, n)]
    <2> DEFINE G == [n \in Nat |-> Halved(F, n)]
    <2>1. ASSUME NEW n \in Nat PROVE F[n] = G[n]
      BY <1>3
    <2>2. F = [n \in Nat |-> F[n]]
      OBVIOUS
    <2>3. G = [n \in Nat |-> G[n]]
      OBVIOUS
    <2> HIDE DEF F
    <2> QED
      BY <2>1, <2>2
  <1> HIDE DEF F
  <1>5. Leftover = [n \in Nat |-> Halved(Leftover, n)]
    BY <1>4 DEF Leftover, Halved
  <1>6. \A n \in Nat : Leftover[n] = Halved(Leftover, n)
    BY <1>5
  <1>7. \A n \in Nat : Leftover[n] \in 0 .. n \div 2
    <2> DEFINE Bad == {n \in Nat : Leftover[n] \notin 0 .. n \div 2}
    <2>1. SUFFICES Bad = {}
      OBVIOUS
    <2>2. SUFFICES ASSUME Bad # {} PROVE FALSE
      OBVIOUS
    <2>3. PICK n \in Bad : \A k \in Bad : n <= k
      <3>1. Bad \subseteq Nat
        OBVIOUS
      <3> HIDE DEF Bad
      <3> QED
        BY <2>2, <3>1, Smallest
    <2>4. n \in Nat /\ Leftover[n] \notin 0 .. n \div 2
      OBVIOUS
    <2>5. n # 0 => n \div 2 \in Nat /\ ~ (n <= n \div 2)
      BY <2>4, Half
    <2>6. n # 0 => Leftover[n \div 2] \in 0 .. (n \div 2) \div 2
      BY <2>3, <2>5
    <2>7. (n \div 2) \div 2 <= n \div 2
      BY <2>4, Half
    <2>8. n # 0 => Leftover[n \div 2] \in 0 .. n \div 2
      BY <2>4, <2>5, <2>6, <2>7, Half
    <2> HIDE DEF Bad
    <2>9. CASE n = 0
      BY <1>6, <2>4, <2>9 DEF Halved
    <2>10. CASE n # 0 /\ n % 2 = 0
      BY <1>6, <2>4, <2>5, <2>10 DEF Halved
    <2>11. CASE n # 0 /\ n % 2 # 0
      BY <1>6, <2>4, <2>8, <2>11 DEF Halved
    <2> QED
      BY <2>9, <2>10, <2>11
  <1>8. \A n \in Nat : Leftover[n] \in Nat
    BY <1>7, Half
  <1> QED
    BY <1>5, <1>6, <1>7, <1>8 DEF Remaining
----------------------------------------------------------------------------
States ==
    {"idle"} \union ConnectStates \union DisconnectStates \union HideStates
        \union ReceiveStates

(* No connection holds more packets than the server sent.                    *)
BoxInv == \A k \in 0 .. MaxAttempts : inbox[k] <= sent

LEMMA ThreadsNumbered ==
    /\ Attempt \subseteq Thread /\ Attempt \subseteq Nat
    /\ Main \in Thread /\ Ui \in Thread /\ Main # Ui
    /\ Main \notin Attempt /\ Ui \notin Attempt /\ 0 \in 0 .. MaxAttempts
    /\ Thread = Attempt \union {Main, Ui}
    /\ Attempt \subseteq 0 .. MaxAttempts
  BY LimitAssumption DEF Thread, Attempt, Main, Ui

LEMMA NextThread ==
    ASSUME NEW t, NEW to, pc \in [Thread -> States], t \in Thread,
           to \in States, Go(t, to)
    PROVE  /\ pc' \in [Thread -> States]
           /\ pc'[t] = to
           /\ \A u \in Thread : u # t => pc'[u] = pc[u]
  BY DEF Go

(* Every variable keeps its type.                                           *)
THEOREM ClientTyped == Spec => []TypeOK
  <1>1. Init => TypeOK /\ BoxInv
    <2> SUFFICES ASSUME Init PROVE TypeOK /\ BoxInv
      OBVIOUS
    <2>1. pc \in [Thread -> States]
      BY DEF Init, States, ConnectStates, ReceiveStates
    <2>2. 0 \in 0 .. MaxAttempts /\ 0 \in 0 .. MaxPackets /\ 0 \in 0 .. 0
      BY LimitAssumption
    <2>3. BoxInv
      BY DEF Init, BoxInv
    <2>4. /\ inbox \in [0 .. MaxAttempts -> 0 .. MaxPackets]
          /\ reading \in [Attempt -> 0 .. MaxAttempts]
          /\ sent \in 0 .. MaxPackets
      BY <2>2 DEF Init
    <2> QED
      BY <2>1, <2>2, <2>3, <2>4 DEF Init, TypeOK, States
  <1>2. TypeOK /\ BoxInv /\ [Next]_vars => TypeOK' /\ BoxInv'
    <2> SUFFICES ASSUME TypeOK, BoxInv, [Next]_vars PROVE TypeOK' /\ BoxInv'
      OBVIOUS
    <2>1. CASE InitClient
      BY <2>1, ThreadsNumbered
         DEF InitClient, Goes, At, Go, TypeOK, BoxInv, touchVars, networkVars,
             alertVars, ConnectStates
    <2>2. ASSUME NEW c \in {Main, Ui}, Connect(c) PROVE TypeOK' /\ BoxInv'
      <3>1. c \in Thread
        BY ThreadsNumbered
      <3>2. CASE OpenSocket(c)
        <4>1. pc' \in [Thread -> States]
          BY <3>1, <3>2 DEF OpenSocket, Go, TypeOK, States, ConnectStates
        <4>2. attempts' \in 0 .. MaxAttempts /\ sock' \in 0 .. attempts'
          BY <3>2, LimitAssumption DEF OpenSocket, TypeOK
        <4>3. ssl' \in 0 .. attempts'
          BY <3>2, LimitAssumption DEF OpenSocket, TypeOK
        <4>4. socket' \in [0 .. MaxAttempts -> {"none", "open", "closed"}]
          BY <3>2, LimitAssumption DEF OpenSocket, TypeOK
        <4>5. silent' \in BOOLEAN
          BY <3>2 DEF OpenSocket, TypeOK
        <4> QED
          BY <3>2, <4>1, <4>2, <4>3, <4>4, <4>5
             DEF OpenSocket, TypeOK, BoxInv, touchVars, networkVars,
                 alertVars, States
      <3>3. CASE ConnectSocket(c)
        BY <3>1, <3>3, LimitAssumption
           DEF ConnectSocket, Goes, At, Go, TypeOK, BoxInv, touchVars,
               clientVars, alertVars, ConnectStates
      <3>4. CASE ConnectRefused(c)
        BY <3>1, <3>4
           DEF ConnectRefused, AfterRefusal, Goes, At, Go, TypeOK, BoxInv,
               touchVars, clientVars, networkVars, alertVars, DisconnectStates
      <3>5. CASE SslNew(c)
        BY <3>1, <3>5, LimitAssumption
           DEF SslNew, Goes, At, Go, TypeOK, BoxInv, touchVars, networkVars,
               alertVars, ConnectStates
      <3>6. CASE SslConnect(c)
        BY <3>1, <3>6
           DEF SslConnect, Goes, At, Go, TypeOK, BoxInv, touchVars, clientVars,
               networkVars, alertVars, ConnectStates, DisconnectStates
      <3>7. CASE SetConnected(c)
        BY <3>1, <3>7
           DEF SetConnected, Goes, At, Go, TypeOK, BoxInv, touchVars,
               networkVars, alertVars, ConnectStates
      <3>8. CASE StartReceiveThread(c)
        <4>1. pc' \in [Thread -> States]
          <5>1. pc \in [Thread -> States] /\ {"idle", "test"} \subseteq States
            BY DEF TypeOK, States, ReceiveStates
          <5>2. \/ pc' = [pc EXCEPT ![c] = "idle", ![attempts] = "test"]
                \/ pc' = [pc EXCEPT ![c] = "idle"]
            BY <3>8 DEF StartReceiveThread, Go
          <5> QED
            BY <5>1, <5>2
        <4>2. silent' \in BOOLEAN
          BY <3>8 DEF StartReceiveThread, TypeOK
        <4> QED
          BY <3>8, <4>1, <4>2
             DEF StartReceiveThread, TypeOK, BoxInv, touchVars, States,
                 clientVars, networkVars, alertVars
      <3> QED
        BY <2>2, <3>2, <3>3, <3>4, <3>5, <3>6, <3>7, <3>8 DEF Connect
    <2>3. ASSUME NEW t \in Thread, Disconnect(t) PROVE TypeOK' /\ BoxInv'
      <3>1. CASE StopLoop(t)
        BY <3>1
           DEF StopLoop, Goes, At, Go, TypeOK, BoxInv, touchVars, networkVars,
               alertVars, DisconnectStates
      <3>2. CASE FreeSsl(t)
        <4>1. misused' \in BOOLEAN /\ alive' \in BOOLEAN
          BY <3>2 DEF FreeSsl, TypeOK
        <4>2. object' \in [0 .. MaxAttempts -> {"none", "live", "freed"}]
          BY <3>2, LimitAssumption DEF FreeSsl, TypeOK
        <4> QED
          BY <3>2, <4>1, <4>2
             DEF FreeSsl, Goes, At, Go, TypeOK, BoxInv, touchVars, clientVars,
                 networkVars, alertVars, DisconnectStates
      <3>3. CASE CloseSocket(t)
        BY <3>3, LimitAssumption
           DEF CloseSocket, Goes, At, Go, TypeOK, BoxInv, touchVars,
               clientVars, networkVars, alertVars, DisconnectStates
      <3>4. CASE OnDisconnect(t)
        BY <3>4
           DEF OnDisconnect, Goes, At, Go, TypeOK, BoxInv, touchVars,
               clientVars, networkVars, DisconnectStates
      <3>5. CASE Show(t)
        <4>1. PICK to \in {"addBox", "idle", "test", "empty"} : Go(t, to)
          BY <3>5 DEF Show, AfterEvent
        <4>2. pc' \in [Thread -> States]
          BY <4>1 DEF Go, TypeOK, States, DisconnectStates, ReceiveStates
        <4> QED
          BY <3>5, <4>2
             DEF Show, TypeOK, BoxInv, touchVars, clientVars, networkVars,
                 alertVars, States
      <3>6. CASE AddBox(t)
        BY <3>6
           DEF AddBox, Goes, At, Go, TypeOK, BoxInv, touchVars, clientVars,
               networkVars, DisconnectStates
      <3>7. CASE SetVisible(t)
        BY <3>7
           DEF SetVisible, AfterEvent, Goes, At, Go, TypeOK, BoxInv, touchVars,
               clientVars, networkVars, ReceiveStates
      <3> QED
        BY <2>3, <3>1, <3>2, <3>3, <3>4, <3>5, <3>6, <3>7 DEF Disconnect
    <2>4. ASSUME NEW k \in Attempt, Receive(k) \/ ServerSends(k) \/ LinkEnds(k)
          PROVE  TypeOK' /\ BoxInv'
      <3>1. k \in Thread /\ k \in 0 .. MaxAttempts /\ reading[k] \in 0 .. MaxAttempts
        BY ThreadsNumbered DEF TypeOK
      <3>2. CASE TestConnected(k)
        BY <3>1, <3>2
           DEF TestConnected, LoopCondition, Goes, At, Go, TypeOK, BoxInv,
               touchVars, clientVars, networkVars, alertVars, ReceiveStates
      <3>3. CASE CallRead(k)
        <4>1. ssl \in 0 .. MaxAttempts
          BY LimitAssumption DEF TypeOK
        <4> QED
          BY <3>1, <3>3, <4>1
             DEF CallRead, Goes, At, Go, TypeOK, BoxInv, touchVars, clientVars,
                 networkVars, alertVars, ReceiveStates
      <3>4. CASE ReadPacket(k)
        <4>1. inbox' \in [0 .. MaxAttempts -> 0 .. MaxPackets]
          <5>1. /\ inbox[reading[k]] \in 0 .. MaxPackets
                /\ inbox[reading[k]] > 0
            BY <3>1, <3>4 DEF ReadPacket, TypeOK
          <5>2. inbox[reading[k]] - 1 \in 0 .. MaxPackets
            BY <5>1, LimitAssumption
          <5> QED
            BY <3>4, <5>2 DEF ReadPacket, TypeOK
        <4> QED
          BY <3>1, <3>4, <4>1
             DEF ReadPacket, Goes, At, Go, TypeOK, BoxInv, touchVars,
                 clientVars, alertVars, ReceiveStates
      <3>5. CASE ReadEnd(k)
        BY <3>1, <3>5
           DEF ReadEnd, AfterEnd, Goes, At, Go, TypeOK, BoxInv, touchVars,
               clientVars, networkVars, alertVars, DisconnectStates
      <3>6. CASE ReadFreed(k)
        BY <3>1, <3>6
           DEF ReadFreed, Goes, At, Go, TypeOK, BoxInv, touchVars, clientVars,
               networkVars, alertVars, DisconnectStates, ReceiveStates
      <3>7. CASE ReceiveEmpty(k)
        BY <3>1, <3>7
           DEF ReceiveEmpty, Goes, At, Go, TypeOK, BoxInv, touchVars,
               clientVars, networkVars, alertVars, ReceiveStates
      <3>8. CASE ServerSends(k)
        BY <3>1, <3>8, LimitAssumption
           DEF ServerSends, TypeOK, BoxInv, touchVars, clientVars, alertVars
      <3>9. CASE LinkEnds(k)
        BY <3>1, <3>9
           DEF LinkEnds, TypeOK, BoxInv, touchVars, clientVars, alertVars
      <3> QED
        BY <2>4, <3>2, <3>3, <3>4, <3>5, <3>6, <3>7, <3>8, <3>9 DEF Receive
    <2>5. CASE TouchOk \/ TouchReconnect
      <3>1. /\ rushed' \in BOOLEAN /\ crossed' \in BOOLEAN
            /\ dismissed' \in BOOLEAN
        BY <2>5 DEF TouchOk, TouchReconnect, Touch, TypeOK
      <3>2. pc' \in [Thread -> States]
        BY <2>5, ThreadsNumbered
           DEF TouchOk, TouchReconnect, Touch, Go, TypeOK, States, HideStates
      <3>3. onScreen' \in BOOLEAN
        BY <2>5 DEF TouchOk, TouchReconnect, Touch
      <3> QED
        BY <2>5, <3>1, <3>2, <3>3
           DEF TouchOk, TouchReconnect, Touch, TypeOK, BoxInv, touchVars,
               clientVars, networkVars, States
    <2>6. CASE SetHidden
      BY <2>6, ThreadsNumbered
         DEF SetHidden, Goes, At, Go, TypeOK, BoxInv, touchVars, clientVars,
             networkVars, HideStates
    <2>7. CASE EraseEntries
      <3>1. Remaining(entries) \in Nat
        BY HideErasesHalf DEF Remaining, TypeOK
      <3> QED
        BY <2>7, <3>1, ThreadsNumbered
           DEF EraseEntries, Goes, At, Go, TypeOK, BoxInv, touchVars,
               clientVars, networkVars, ConnectStates
    <2>8. CASE UNCHANGED vars
      BY <2>8 DEF vars, clientVars, networkVars, alertVars, TypeOK, BoxInv,
                  touchVars
    <2> QED
      BY <2>1, <2>2, <2>3, <2>4, <2>5, <2>6, <2>7, <2>8 DEF Next
  <1> QED
    BY <1>1, <1>2, PTL DEF Spec
----------------------------------------------------------------------------
(* The steps of a program whose state is one moving thread.                  *)

Moves(t, to) ==
    /\ pc'[t] = to
    /\ \A u \in Thread : u # t => pc'[u] = pc[u]

(* A step from one control state to another moves one thread.              *)
LEMMA GoMoves ==
    ASSUME NEW t \in Thread, NEW to, TypeOK, Go(t, to)
    PROVE  Moves(t, to)
  BY DEF Go, Moves, TypeOK

(* No thread comes into code that is not its own.                          *)
LEMMA PlaceStep ==
    ASSUME TypeOK, PlaceInv, [Next]_vars
    PROVE  PlaceInv'
  <1>1. CASE InitClient
    <2>1. Moves(Main, "socket") /\ attempts' = attempts /\ loop' = loop
      BY <1>1, GoMoves, ThreadsNumbered DEF InitClient, Goes
    <2> QED
      BY <2>1, ThreadsNumbered
         DEF Moves, PlaceInv, Opening, ConnectStates
  <1>2. ASSUME NEW c \in {Main, Ui}, Connect(c), ~ StartReceiveThread(c)
        PROVE  PlaceInv'
    <2>1. loop' = loop
      BY <1>2
         DEF Connect, OpenSocket, ConnectSocket, ConnectRefused, SslNew,
             SslConnect, SetConnected
    <2>2. attempts' = attempts \/ attempts' = attempts + 1
      BY <1>2
         DEF Connect, OpenSocket, ConnectSocket, ConnectRefused, SslNew,
             SslConnect, SetConnected
    <2>4. \/ attempts' = attempts /\ attempts \in Attempt
          \/ attempts' = attempts /\ Moves(c, "idle")
          \/ attempts' \in Attempt
      <3>1. CASE OpenSocket(c)
        <4>1. \/ attempts < MaxAttempts /\ attempts' = attempts + 1
              \/ attempts' = attempts /\ Go(c, "idle")
          BY <3>1 DEF OpenSocket
        <4>2. attempts < MaxAttempts => attempts + 1 \in Attempt
          BY LimitAssumption DEF TypeOK, Attempt
        <4> QED
          BY <4>1, <4>2, GoMoves, ThreadsNumbered
      <3>2. CASE ~ OpenSocket(c)
        <4>1. attempts' = attempts /\ Opening(c)
          BY <1>2, <3>2
             DEF Connect, ConnectSocket, ConnectRefused, SslNew, SslConnect,
                 SetConnected, Goes, At, Opening
        <4> QED
          BY <4>1, ThreadsNumbered DEF PlaceInv
      <3> QED
        BY <3>1, <3>2
    <2>3. \E to \in {"idle", "connect", "sslNew", "event", "sslConnect",
                     "setConnected", "stop", "startThread"} : Moves(c, to)
      BY <1>2, GoMoves, ThreadsNumbered
         DEF Connect, OpenSocket, ConnectSocket, ConnectRefused, AfterRefusal,
             SslNew, SslConnect, SetConnected, Goes
    <2> QED
      BY <2>1, <2>2, <2>3, <2>4, ThreadsNumbered
         DEF Moves, PlaceInv, Opening, ConnectStates, DisconnectStates, TypeOK
  <1>3. ASSUME NEW c \in {Main, Ui}, StartReceiveThread(c)
        PROVE  PlaceInv'
    <2>1. loop' = loop /\ attempts' = attempts
      BY <1>3 DEF StartReceiveThread
    <2>2. attempts \in Attempt /\ attempts # c
      BY <1>3, ThreadsNumbered DEF StartReceiveThread, At, PlaceInv, Opening
    <2>3. \/ Moves(c, "idle")
          \/ /\ pc'[c] = "idle" /\ pc'[attempts] = "test"
             /\ \A u \in Thread : u # c /\ u # attempts => pc'[u] = pc[u]
      <3>1. CASE Go(c, "idle")
        BY <3>1, GoMoves, ThreadsNumbered
      <3>2. CASE pc' = [pc EXCEPT ![c] = "idle", ![attempts] = "test"]
        BY <2>2, <3>2, ThreadsNumbered DEF TypeOK
      <3> QED
        BY <1>3, <3>1, <3>2 DEF StartReceiveThread
    <2> QED
      BY <2>1, <2>2, <2>3, ThreadsNumbered
         DEF Moves, PlaceInv, Opening, ReceiveStates, TypeOK
  <1>4. ASSUME NEW t \in Thread, Disconnect(t)
        PROVE  PlaceInv'
    <2>1. attempts' = attempts /\ pc[t] \in DisconnectStates
      BY <1>4
         DEF Disconnect, StopLoop, FreeSsl, CloseSocket, OnDisconnect, Show,
             AddBox, SetVisible, DisconnectStates, Goes, At
    <2>2. \A k \in Attempt : k # t => loop'[k] = loop[k]
      BY <1>4
         DEF Disconnect, StopLoop, FreeSsl, CloseSocket, OnDisconnect, Show,
             AddBox, SetVisible, TypeOK
    <2>3. \/ \E to \in {"free", "close", "event", "show", "addBox", "setVisible"} :
                 Moves(t, to)
          \/ t \notin Attempt /\ Moves(t, "idle")
          \/ t \in Attempt /\ \E to \in {"test", "empty"} : Moves(t, to)
      BY <1>4, GoMoves
         DEF Disconnect, StopLoop, FreeSsl, CloseSocket, OnDisconnect, Show,
             AddBox, SetVisible, Goes, AfterEvent
    <2> QED
      BY <2>1, <2>2, <2>3, ThreadsNumbered
         DEF Moves, PlaceInv, Opening, DisconnectStates, ReceiveStates, TypeOK
  <1>5. ASSUME NEW k \in Attempt, Receive(k)
        PROVE  PlaceInv'
    <2>1. attempts' = attempts /\ pc[k] \in {"test", "read", "blocked", "empty"}
      BY <1>5
         DEF Receive, TestConnected, CallRead, ReadPacket, ReadEnd, ReadFreed,
             ReceiveEmpty, Goes, At
    <2>2. \A j \in Attempt : j # k => loop'[j] = loop[j]
      BY <1>5
         DEF Receive, TestConnected, CallRead, ReadPacket, ReadEnd, ReadFreed,
             ReceiveEmpty, TypeOK
    <2>3. \E to \in {"read", "done", "blocked", "test", "stop"} : Moves(k, to)
      BY <1>5, GoMoves, ThreadsNumbered
         DEF Receive, TestConnected, CallRead, ReadPacket, ReadEnd, AfterEnd,
             ReadFreed, ReceiveEmpty, Goes
    <2> QED
      BY <2>1, <2>2, <2>3, ThreadsNumbered
         DEF Moves, PlaceInv, Opening, DisconnectStates, ReceiveStates, TypeOK
  <1>6. CASE TouchOk \/ TouchReconnect \/ SetHidden \/ EraseEntries
    <2>1. attempts' = attempts /\ loop' = loop
      BY <1>6
         DEF TouchOk, TouchReconnect, Touch, SetHidden, EraseEntries
    <2>2. \E to \in {"setHidden", "erase", "idle", "socket"} : Moves(Ui, to)
      BY <1>6, GoMoves, ThreadsNumbered
         DEF TouchOk, TouchReconnect, Touch, SetHidden, EraseEntries, Goes
    <2> QED
      BY <2>1, <2>2, ThreadsNumbered
         DEF Moves, PlaceInv, Opening, ConnectStates, HideStates
  <1>7. CASE UNCHANGED vars \/ \E k \in Attempt : ServerSends(k) \/ LinkEnds(k)
    BY <1>7 DEF vars, ServerSends, LinkEnds, PlaceInv, Opening
  <1> QED
    BY <1>1, <1>2, <1>3, <1>4, <1>5, <1>6, <1>7 DEF Next
----------------------------------------------------------------------------
(* A thread moves while all others rest: they go on resting, and only its    *)
(* own new place has to be looked at.                                       *)
LEMMA MoverWorks ==
    ASSUME TypeOK, LoopInv, NEW t \in Thread, NEW to, Moves(t, to),
           \A u \in Thread : u # t => ~ Active(u),
           \A k \in Attempt : k # t => loop'[k] = loop[k],
           ObjectOf(t)', t \in Attempt => LoopOf(t)',
           onScreen' => ~ Active(t)'
    PROVE  WorkInv'
  <1>1. ASSUME NEW u \in Thread, u # t
        PROVE  ~ Active(u)' /\ ObjectOf(u)' /\ (u \in Attempt => LoopOf(u)')
    <2>1. pc'[u] = pc[u] /\ (u \in Attempt => loop'[u] = loop[u])
      BY <1>1 DEF Moves
    <2>2. Quiet(u) \/ Finishing(u)
      BY <1>1 DEF Active
    <2>3. u \in Attempt /\ pc[u] = "setVisible" => loop[u] = "stopped"
      BY DEF LoopInv, LoopOf
    <2> QED
      BY <2>1, <2>2, <2>3, ThreadsNumbered
         DEF Active, Quiet, Finishing, ObjectOf, LoopOf, Opening, Reading
  <1>2. OneActive'
    BY <1>1 DEF OneActive
  <1>3. ObjectInv' /\ LoopInv'
    BY <1>1, ThreadsNumbered DEF ObjectInv, LoopInv
  <1> QED
    BY <1>2, <1>3 DEF WorkInv

(* A thread that only has to finish disturbs nobody.                         *)
LEMMA FinisherWorks ==
    ASSUME TypeOK, WorkInv, NEW t \in Thread, NEW to, Moves(t, to),
           Finishing(t), Quiet(t)' \/ Finishing(t)', to # "none",
           UNCHANGED <<loop, reading, attempts, connected, sock, ssl, object,
                       onScreen>>,
           t \in Attempt => LoopOf(t)'
    PROVE  WorkInv'
  <1>1. ~ Active(t)' /\ ~ Active(t) /\ pc[t] # "none" /\ ObjectOf(t)'
    BY DEF Active, Finishing, Quiet, ObjectOf, Opening, Reading
  <1>2. ASSUME NEW u \in Thread, u # t
        PROVE  /\ Active(u)' <=> Active(u)
               /\ ObjectOf(u)'
               /\ u \in Attempt => LoopOf(u)'
    <2>1. pc'[u] = pc[u]
      BY <1>2 DEF Moves
    <2>2. Active(u)' <=> Active(u)
      BY <2>1 DEF Active, Quiet, Finishing
    <2>3. Opening(u)' <=> Opening(u)
      BY <2>1 DEF Opening
    <2>4. Reading(u)' <=> Reading(u)
      BY <2>1 DEF Reading
    <2>5. ObjectOf(u) /\ (u \in Attempt => LoopOf(u))
      BY DEF WorkInv, ObjectInv, LoopInv
    <2>6. Opening(u)' => pc'[attempts'] = "none"
      <3>1. Opening(u) => pc[attempts] = "none"
        BY <2>5 DEF ObjectOf
      <3>2. attempts \in Thread
        BY ThreadsNumbered, LimitAssumption
           DEF TypeOK, Thread, Attempt, Main
      <3> QED
        BY <1>1, <2>3, <3>1, <3>2 DEF Moves
    <2>7. ObjectOf(u)'
      BY <2>1, <2>4, <2>5, <2>6 DEF ObjectOf
    <2>8. u \in Attempt => LoopOf(u)'
      BY <2>1, <2>5 DEF LoopOf
    <2> QED
      BY <2>2, <2>7, <2>8
  <1>3. OneActive'
    BY <1>1, <1>2 DEF WorkInv, OneActive
  <1>4. ObjectInv' /\ LoopInv'
    BY <1>1, <1>2, ThreadsNumbered DEF ObjectInv, LoopInv
  <1> QED
    BY <1>3, <1>4 DEF WorkInv

(* Whoever is active is alone, and the alert is not on the screen.           *)
LEMMA ActiveAlone ==
    ASSUME WorkInv, NEW t \in Thread, Active(t)
    PROVE  ~ onScreen /\ \A u \in Thread : u # t => ~ Active(u)
  BY DEF WorkInv, OneActive

(* connectToServer() in main or in the user interface: the thread that runs*)
(* it stays the one that is active, until it starts a receive thread and is*)
(* done.                                                                   *)
LEMMA ConnectWorks ==
    ASSUME TypeOK, PlaceInv, WorkInv, NEW c \in {Main, Ui}, Connect(c)
    PROVE  misused' = misused /\ (alive' => WorkInv')
  <1>1. misused' = misused /\ loop' = loop /\ onScreen' = onScreen
    BY DEF Connect, OpenSocket, ConnectSocket, ConnectRefused, SslNew,
           SslConnect, SetConnected, StartReceiveThread, alertVars
  <1>2. /\ c \in Thread /\ c \notin Attempt
        /\ pc[c] \in {"socket", "connect", "sslNew", "sslConnect",
                      "setConnected", "startThread"}
    BY ThreadsNumbered
       DEF Connect, OpenSocket, ConnectSocket, ConnectRefused, SslNew,
           SslConnect, SetConnected, StartReceiveThread, Goes, At
  <1>3. Active(c) /\ (pc[c] # "socket" => Opening(c))
    BY <1>2 DEF Active, Quiet, Finishing, Opening
  <1>4. ~ onScreen /\ \A u \in Thread : u # c => ~ Active(u)
    BY <1>2, <1>3, ActiveAlone
  <1>5. ObjectOf(c) /\ LoopInv
    BY <1>2 DEF WorkInv, ObjectInv
  <1>6. pc[c] # "socket" => attempts \in Attempt /\ attempts # c
    BY <1>2, <1>3, ThreadsNumbered DEF PlaceInv
  <1>7. CASE StartReceiveThread(c)
    <2>1. /\ attempts' = attempts /\ object' = object /\ connected' = connected
          /\ ssl' = ssl /\ reading' = reading /\ pc[c] = "startThread"
      BY <1>7 DEF StartReceiveThread, clientVars, At
    <2>2. CASE Go(c, "idle")
      <3>1. Moves(c, "idle")
        BY <1>2, <2>2, GoMoves
      <3>2. ObjectOf(c)' /\ ~ Active(c)'
        BY <1>2, <3>1
           DEF Moves, ObjectOf, Opening, Reading, Active, Quiet
      <3> QED
        BY <1>1, <1>2, <1>4, <1>5, <3>1, <3>2, MoverWorks
    <2>3. CASE pc' = [pc EXCEPT ![c] = "idle", ![attempts] = "test"]
      <3>0. PICK k \in Attempt : k = attempts
        BY <1>6, <2>1
      <3>1. /\ k \in Attempt /\ k \in Thread /\ k # c
            /\ pc[k] = "none" /\ loop[k] = "running"
        BY <1>2, <1>3, <1>5, <1>6, <2>1, <3>0, ThreadsNumbered
           DEF ObjectOf, PlaceInv
      <3>2. /\ pc'[c] = "idle" /\ pc'[k] = "test"
            /\ \A u \in Thread : u # c /\ u # k => pc'[u] = pc[u]
        BY <1>2, <2>3, <3>0, <3>1 DEF TypeOK
      <3>3. object[ssl] = "live" /\ connected
        BY <1>5, <2>1 DEF ObjectOf
      <3>4. ASSUME NEW u \in Thread, u # k
            PROVE  ~ Active(u)' /\ ObjectOf(u)' /\ (u \in Attempt => LoopOf(u)')
        <4>1. CASE u = c
          BY <1>2, <3>2, <4>1
             DEF Active, Quiet, ObjectOf, Opening, Reading
        <4>2. CASE u # c
          <5>1. pc'[u] = pc[u] /\ (u \in Attempt => LoopOf(u))
            BY <3>2, <3>4, <4>2, <1>5 DEF LoopInv
          <5>2. Quiet(u) \/ Finishing(u)
            BY <4>2, <1>4 DEF Active
          <5> QED
            BY <5>1, <5>2, <1>1, ThreadsNumbered
               DEF Active, Quiet, Finishing, ObjectOf, LoopOf, Opening, Reading
        <4> QED
          BY <4>1, <4>2
      <3>5. ObjectOf(k)' /\ LoopOf(k)'
        BY <3>1, <3>2, <3>3, <2>1, <1>1
           DEF ObjectOf, LoopOf, Opening, Reading
      <3>6. OneActive'
        BY <3>4, <1>1, <1>4 DEF OneActive
      <3>7. ObjectInv' /\ LoopInv'
        BY <3>1, <3>4, <3>5, ThreadsNumbered DEF ObjectInv, LoopInv
      <3> QED
        BY <1>1, <3>6, <3>7 DEF WorkInv
    <2> QED
      BY <1>7, <2>2, <2>3 DEF StartReceiveThread
  <1>8. ASSUME ~ StartReceiveThread(c), alive'
        PROVE  \E to : Moves(c, to) /\ ObjectOf(c)'
    <2>1. CASE OpenSocket(c) /\ Go(c, "idle")
      BY <2>1, <1>2, GoMoves DEF Moves, ObjectOf, Opening, Reading
    <2>2. CASE OpenSocket(c) /\ ~ Go(c, "idle")
      <3>1. Moves(c, "connect") /\ attempts' = attempts + 1 /\ sock' = attempts'
        BY <2>2, <1>2, GoMoves DEF OpenSocket
      <3>2. attempts + 1 \in Attempt
        BY <2>2, LimitAssumption DEF OpenSocket, Attempt, TypeOK
      <3>3. pc'[attempts + 1] = "none"
        <4>1. attempts + 1 > attempts
          BY DEF TypeOK
        <4>2. pc[attempts + 1] = "none"
          BY <3>2, <4>1 DEF PlaceInv
        <4> QED
          BY <3>1, <3>2, <4>2, <1>2, ThreadsNumbered DEF Moves
      <3> QED
        BY <3>1, <3>3, <1>2 DEF Moves, ObjectOf, Opening, Reading
    <2>3. CASE ConnectSocket(c) \/ ConnectRefused(c)
      <3>1. /\ pc[c] = "connect" /\ attempts' = attempts /\ sock' = sock
            /\ Moves(c, "sslNew") \/ Moves(c, "event")
        BY <2>3, <1>2, GoMoves
           DEF ConnectSocket, ConnectRefused, AfterRefusal, Goes, At,
               clientVars
      <3>2. Opening(c) /\ pc'[attempts] = "none"
        BY <3>1, <1>3, <1>5, <1>6, ThreadsNumbered DEF ObjectOf, Moves
      <3> QED
        BY <3>1, <3>2, <1>2, <1>5 DEF Moves, ObjectOf, Opening, Reading
    <2>4. CASE SslNew(c)
      <3>1. /\ pc[c] = "sslNew" /\ attempts' = attempts /\ Moves(c, "sslConnect")
            /\ ssl' = sock /\ object' = [object EXCEPT ![sock] = "live"]
        BY <2>4, <1>2, <1>8, GoMoves DEF SslNew, Goes, At
      <3>2. sock \in 0 .. MaxAttempts
        BY LimitAssumption DEF TypeOK
      <3>3. object'[ssl'] = "live"
        BY <3>1, <3>2 DEF TypeOK
      <3>4. Opening(c) /\ pc'[attempts] = "none"
        BY <3>1, <1>3, <1>5, <1>6, ThreadsNumbered DEF ObjectOf, Moves
      <3> QED
        BY <3>1, <3>3, <3>4, <1>2 DEF Moves, ObjectOf, Opening, Reading
    <2>5. CASE SslConnect(c) \/ SetConnected(c)
      <3>1. /\ pc[c] \in {"sslConnect", "setConnected"} /\ attempts' = attempts
            /\ ssl' = ssl /\ object' = object
            /\ \/ Moves(c, "setConnected") \/ Moves(c, "stop")
               \/ Moves(c, "startThread") /\ connected'
        <4>1. CASE SslConnect(c)
          BY <4>1, <1>2, GoMoves DEF SslConnect, Goes, At, clientVars
        <4>2. CASE SetConnected(c)
          BY <4>2, <1>2, GoMoves DEF SetConnected, Goes, At
        <4> QED
          BY <2>5, <4>1, <4>2
      <3>2. Opening(c) /\ pc'[attempts] = "none"
        BY <3>1, <1>3, <1>5, <1>6, ThreadsNumbered DEF ObjectOf, Moves
      <3> QED
        BY <3>1, <3>2, <1>2, <1>5 DEF Moves, ObjectOf, Opening, Reading
    <2> QED
      BY <1>8, <2>1, <2>2, <2>3, <2>4, <2>5 DEF Connect
  <1> QED
    BY <1>1, <1>2, <1>4, <1>5, <1>7, <1>8, MoverWorks

(* disconnect() and showing the alert: when the alert is on the screen, the*)
(* thread that showed it is not active any more.                           *)
LEMMA DisconnectWorks ==
    ASSUME TypeOK, PlaceInv, WorkInv, ~ misused, NEW t \in Thread, Disconnect(t)
    PROVE  ~ misused' /\ (alive' => WorkInv')
  <1>1. ObjectOf(t) /\ LoopInv /\ (t \in Attempt => LoopOf(t))
    BY DEF WorkInv, ObjectInv, LoopInv
  <1>2. CASE SetVisible(t)
    <2>1. \E to \in {"idle", "test", "empty"} :
            Moves(t, to) /\ (t \in Attempt => to # "idle")
                         /\ (t \notin Attempt => to = "idle")
      BY <1>2, GoMoves DEF SetVisible, Goes, AfterEvent
    <2>2. pc[t] = "setVisible" /\ misused' = misused
      BY <1>2 DEF SetVisible, Goes, At
    <2>3. UNCHANGED <<loop, reading, attempts, connected, sock, ssl, object,
                      onScreen>>
      BY <1>2 DEF SetVisible, clientVars
    <2>4. t \in Attempt => loop[t] = "stopped"
      BY <1>1, <2>2 DEF LoopOf
    <2>5. PICK to \in {"idle", "test", "empty"} :
             Moves(t, to) /\ (t \notin Attempt => to = "idle")
      BY <2>1
    <2>6. Finishing(t) /\ (Quiet(t)' \/ Finishing(t)')
      BY <2>2, <2>3, <2>4, <2>5 DEF Finishing, Quiet, Moves
    <2>7. t \in Attempt => LoopOf(t)'
      BY <2>3, <2>4, <2>5 DEF LoopOf, Moves
    <2> QED
      BY <2>2, <2>3, <2>5, <2>6, <2>7, FinisherWorks
  <1>3. ASSUME ~ SetVisible(t)
        PROVE  ~ misused' /\ (alive' => WorkInv')
    <2>1. pc[t] \in {"stop", "free", "close", "event", "show", "addBox"}
      BY <1>3
         DEF Disconnect, StopLoop, FreeSsl, CloseSocket, OnDisconnect, Show,
             AddBox, Goes, At
    <2>2. Active(t)
      BY <2>1 DEF Active, Quiet, Finishing
    <2>3. ~ onScreen /\ \A u \in Thread : u # t => ~ Active(u)
      BY <2>2, ActiveAlone
    <2>4. \A k \in Attempt : k # t => loop'[k] = loop[k]
      BY <1>3
         DEF Disconnect, StopLoop, FreeSsl, CloseSocket, OnDisconnect, Show,
             AddBox, TypeOK
    <2>5. t \in Attempt =>
            loop[t] = (IF pc[t] = "stop" THEN "running" ELSE "stopped")
      BY <1>1, <2>1 DEF LoopOf
    <2>6. t \in Attempt => loop'[t] = "stopped"
      BY <1>3, <2>5
         DEF Disconnect, StopLoop, FreeSsl, CloseSocket, OnDisconnect, Show,
             AddBox, TypeOK, Goes, At
    <2>7. ~ misused'
      <3>1. CASE FreeSsl(t)
        <4>1. object[ssl] = "live"
          BY <3>1, <1>1 DEF FreeSsl, Goes, At, ObjectOf
        <4> QED
          BY <3>1, <4>1 DEF FreeSsl
      <3>2. CASE \/ StopLoop(t) \/ CloseSocket(t) \/ OnDisconnect(t)
                 \/ Show(t) \/ AddBox(t)
        BY <3>2 DEF StopLoop, CloseSocket, OnDisconnect, Show, AddBox
      <3> QED
        BY <1>3, <3>1, <3>2 DEF Disconnect
    <2>8. CASE StopLoop(t)
      <3>1. Moves(t, "free") /\ ssl' = ssl /\ object' = object /\ pc[t] = "stop"
            /\ onScreen' = onScreen
        BY <2>8, GoMoves DEF StopLoop, Goes, At, alertVars
      <3>2. ObjectOf(t)' /\ (t \in Attempt => LoopOf(t)')
        BY <3>1, <2>6, <1>1 DEF Moves, ObjectOf, LoopOf, Opening, Reading
      <3> QED
        BY <2>3, <2>4, <2>7, <1>1, <3>1, <3>2, MoverWorks
    <2>9. CASE FreeSsl(t) \/ CloseSocket(t) \/ OnDisconnect(t)
      <3>1. /\ \E to \in {"close", "event", "show"} : Moves(t, to)
            /\ onScreen' = onScreen
        BY <2>9, GoMoves DEF FreeSsl, CloseSocket, OnDisconnect, Goes,
                             alertVars
      <3>2. ObjectOf(t)' /\ (t \in Attempt => LoopOf(t)')
        BY <3>1, <2>6, <1>1 DEF Moves, ObjectOf, LoopOf, Opening, Reading
      <3> QED
        BY <2>3, <2>4, <2>7, <1>1, <3>1, <3>2, MoverWorks
    <2>10. CASE Show(t)
      <3>1. /\ onScreen' = onScreen
            /\ \E to \in {"addBox", "idle", "test", "empty"} :
                Moves(t, to) /\ (t \notin Attempt => to \in {"addBox", "idle"})
        BY <2>10, GoMoves DEF Show, AfterEvent, alertVars
      <3>2. ObjectOf(t)' /\ (t \in Attempt => LoopOf(t)')
        BY <3>1, <2>6 DEF Moves, ObjectOf, LoopOf, Opening, Reading
      <3> QED
        BY <2>3, <2>4, <2>7, <1>1, <3>1, <3>2, MoverWorks
    <2>11. CASE AddBox(t)
      <3>1. Moves(t, "setVisible")
        BY <2>11, GoMoves DEF AddBox, Goes
      <3>2. ObjectOf(t)' /\ (t \in Attempt => LoopOf(t)')
        BY <3>1, <2>6 DEF Moves, ObjectOf, LoopOf, Opening, Reading
      <3>3. ~ Active(t)'
        BY <3>1 DEF Moves, Active, Finishing
      <3> QED
        BY <2>3, <2>4, <2>7, <1>1, <3>1, <3>2, <3>3, MoverWorks
    <2> QED
      BY <1>3, <2>7, <2>8, <2>9, <2>10, <2>11 DEF Disconnect
  <1> QED
    BY <1>2, <1>3

(* With a loop that ends in time, what is read from is live.                 *)
LEMMA ReceiveWorks ==
    ASSUME TypeOK, PlaceInv, WorkInv, ~ misused, LoopStops',
           NEW k \in Attempt, Receive(k)
    PROVE  ~ misused' /\ (alive' => WorkInv')
  <1>1. k \in Thread /\ ObjectOf(k) /\ LoopInv /\ LoopOf(k)
    BY ThreadsNumbered DEF WorkInv, ObjectInv, LoopInv
  <1>2. UNCHANGED <<attempts, connected, sock, ssl, object, onScreen>>
    BY DEF Receive, TestConnected, CallRead, ReadPacket, ReadEnd, ReadFreed,
           ReceiveEmpty, clientVars, alertVars
  <1>3. CASE TestConnected(k) /\ loop[k] = "stopped"
    <2>1. ~ connected
      <3>1. connected => loop'[k] = "outlived"
        BY <1>3 DEF TestConnected, LoopCondition, TypeOK
      <3> QED
        BY <3>1 DEF LoopStops
    <2>2. Moves(k, "done") /\ pc[k] = "test" /\ UNCHANGED <<loop, reading, misused>>
      BY <1>1, <1>3, <2>1, GoMoves DEF TestConnected, LoopCondition, Goes, At
    <2>3. Finishing(k) /\ Quiet(k)' /\ LoopOf(k)'
      BY <1>3, <2>2 DEF Finishing, Quiet, LoopOf, Moves
    <2> QED
      BY <1>1, <1>2, <2>2, <2>3, FinisherWorks
  <1>4. CASE ReceiveEmpty(k)
    <2>1. Moves(k, "test") /\ pc[k] = "empty" /\ UNCHANGED <<loop, reading, misused>>
      BY <1>1, <1>4, GoMoves DEF ReceiveEmpty, Goes, At
    <2>2. loop[k] = "stopped"
      BY <1>1, <2>1 DEF LoopOf
    <2>3. Finishing(k) /\ Finishing(k)' /\ LoopOf(k)'
      BY <2>1, <2>2 DEF Finishing, LoopOf, Moves
    <2> QED
      BY <1>1, <1>2, <2>1, <2>3, FinisherWorks
  <1>5. ASSUME ~ ReceiveEmpty(k), ~ (TestConnected(k) /\ loop[k] = "stopped")
        PROVE  ~ misused' /\ (alive' => WorkInv')
    <2>1. loop[k] = "running" /\ pc[k] \in {"test", "read", "blocked"}
      <3>1. pc[k] \in {"test", "read", "blocked"}
        BY <1>5
           DEF Receive, TestConnected, CallRead, ReadPacket, ReadEnd,
               ReadFreed, Goes, At
      <3>2. pc[k] = "test" => TestConnected(k)
        BY <1>5
           DEF Receive, CallRead, ReadPacket, ReadEnd, ReadFreed, Goes, At
      <3>3. pc[k] = "test" /\ loop[k] # "stopped" => loop'[k] = loop[k]
        BY <3>2 DEF TestConnected
      <3>4. loop'[k] # "outlived" /\ loop[k] \in {"running", "stopped", "outlived"}
        BY DEF LoopStops, TypeOK
      <3> QED
        BY <1>1, <1>5, <3>1, <3>2, <3>3, <3>4 DEF LoopOf
    <2>2. Reading(k) /\ Active(k)
      BY <2>1 DEF Reading, Active, Quiet, Finishing
    <2>3. object[ssl] = "live" /\ connected
      BY <1>1, <2>2 DEF ObjectOf
    <2>4. ~ onScreen /\ \A u \in Thread : u # k => ~ Active(u)
      BY <1>1, <2>2, ActiveAlone
    <2>5. loop' = loop
      BY <1>5, <2>1
         DEF Receive, TestConnected, CallRead, ReadPacket, ReadEnd, ReadFreed
    <2>6. pc[k] = "blocked" => object[reading[k]] = "live"
      BY <1>1, <2>3 DEF LoopOf
    <2>7. ~ misused'
      BY <1>5, <2>6
         DEF Receive, TestConnected, CallRead, ReadPacket, ReadEnd, ReadFreed,
             Goes, At
    <2>8. \/ \E to \in {"read", "test", "stop"} : Moves(k, to)
          \/ Moves(k, "blocked") /\ reading'[k] = ssl
      <3>1. CASE TestConnected(k)
        BY <3>1, <1>1, <2>3, GoMoves DEF TestConnected, LoopCondition, Goes
      <3>2. CASE CallRead(k)
        BY <3>2, <1>1, GoMoves DEF CallRead, Goes, TypeOK
      <3>3. CASE ReadPacket(k) \/ ReadEnd(k) \/ ReadFreed(k)
        BY <3>3, <1>1, GoMoves
           DEF ReadPacket, ReadEnd, AfterEnd, ReadFreed, Goes
      <3> QED
        BY <1>5, <3>1, <3>2, <3>3 DEF Receive
    <2>9. ObjectOf(k)' /\ LoopOf(k)'
      BY <1>2, <2>1, <2>3, <2>5, <2>8
         DEF Moves, ObjectOf, LoopOf, Opening, Reading
    <2> QED
      BY <1>1, <1>2, <2>4, <2>5, <2>7, <2>8, <2>9, MoverWorks
  <1> QED
    BY <1>3, <1>4, <1>5

(* A touch makes the thread of the user interface the active one, which it *)
(* can be as there was none.                                               *)
LEMMA TouchWorks ==
    ASSUME TypeOK, PlaceInv, WorkInv,
           TouchOk \/ TouchReconnect \/ SetHidden \/ EraseEntries
    PROVE  misused' = misused /\ WorkInv'
  <1>1. LoopInv /\ Ui \in Thread /\ Ui \notin Attempt
    BY ThreadsNumbered DEF WorkInv
  <1>2. misused' = misused /\ loop' = loop
    BY DEF TouchOk, TouchReconnect, Touch, SetHidden, EraseEntries
  <1>3. \E to \in {"setHidden", "erase", "idle", "socket"} : Moves(Ui, to)
    BY <1>1, GoMoves
       DEF TouchOk, TouchReconnect, Touch, SetHidden, EraseEntries, Goes
  <1>4. ~ onScreen' /\ \A u \in Thread : u # Ui => ~ Active(u)
    <2>1. CASE TouchOk \/ TouchReconnect
      BY <2>1 DEF TouchOk, TouchReconnect, Touch, WorkInv, OneActive
    <2>2. CASE SetHidden \/ EraseEntries
      <3>1. Active(Ui) /\ onScreen' = onScreen
        BY <2>2
           DEF SetHidden, EraseEntries, Goes, At, Active, Quiet, Finishing
      <3> QED
        BY <1>1, <3>1, ActiveAlone
    <2> QED
      BY <2>1, <2>2
  <1>5. ObjectOf(Ui)'
    BY <1>1, <1>3 DEF Moves, ObjectOf, Opening, Reading
  <1> QED
    BY <1>1, <1>2, <1>3, <1>4, <1>5, MoverWorks

(* While no loop outlives its disconnect(), at most one thread is active,  *)
(* and it works on a live object.                                          *)
LEMMA UseStep ==
    ASSUME TypeOK, PlaceInv, UseInv, [Next]_vars
    PROVE  UseInv'
  <1> SUFFICES ASSUME LoopStops' PROVE ~ misused' /\ (alive' => WorkInv')
    BY DEF UseInv
  <1>1. ASSUME NEW k \in Attempt, loop[k] = "outlived"
        PROVE  loop'[k] = "outlived"
    <2>1. \/ loop' = loop
          \/ \E t \in Thread : StopLoop(t)
          \/ \E j \in Attempt : TestConnected(j)
      BY DEF Next, vars, InitClient, Connect, OpenSocket, ConnectSocket,
             ConnectRefused, SslNew, SslConnect, SetConnected,
             StartReceiveThread, Disconnect, FreeSsl, CloseSocket,
             OnDisconnect, Show, AddBox, SetVisible, Receive, CallRead,
             ReadPacket, ReadEnd, ReadFreed, ReceiveEmpty, ServerSends,
             LinkEnds, TouchOk, TouchReconnect, Touch, SetHidden, EraseEntries
    <2> QED
      BY <1>1, <2>1 DEF StopLoop, TestConnected, TypeOK
  <1>2. LoopStops /\ ~ misused /\ (alive => WorkInv)
    BY <1>1 DEF LoopStops, UseInv
  <1>3. CASE InitClient
    <2>1. /\ Main \in Thread /\ Main \notin Attempt /\ pc[Main] = "init"
          /\ Moves(Main, "socket") /\ loop' = loop /\ onScreen' = onScreen
          /\ misused' = misused /\ alive
      BY <1>3, GoMoves, ThreadsNumbered DEF InitClient, Goes, At, alertVars
    <2>2. WorkInv /\ LoopInv /\ Active(Main)
      BY <1>2, <2>1 DEF WorkInv, Active, Quiet, Finishing
    <2>3. ~ onScreen /\ \A u \in Thread : u # Main => ~ Active(u)
      BY <2>1, <2>2, ActiveAlone
    <2>4. ObjectOf(Main)'
      BY <2>1 DEF Moves, ObjectOf, Opening, Reading
    <2> QED
      BY <1>2, <2>1, <2>2, <2>3, <2>4, MoverWorks
  <1>4. ASSUME NEW c \in {Main, Ui}, Connect(c)
        PROVE  ~ misused' /\ (alive' => WorkInv')
    <2>1. alive
      BY <1>4
         DEF Connect, OpenSocket, ConnectSocket, ConnectRefused, SslNew,
             SslConnect, SetConnected, StartReceiveThread, Goes, At
    <2> QED
      BY <1>2, <1>4, <2>1, ConnectWorks
  <1>5. ASSUME NEW t \in Thread, Disconnect(t)
        PROVE  ~ misused' /\ (alive' => WorkInv')
    <2>1. alive
      BY <1>5
         DEF Disconnect, StopLoop, FreeSsl, CloseSocket, OnDisconnect, Show,
             AddBox, SetVisible, Goes, At
    <2> QED
      BY <1>2, <1>5, <2>1, DisconnectWorks
  <1>6. ASSUME NEW k \in Attempt, Receive(k)
        PROVE  ~ misused' /\ (alive' => WorkInv')
    <2>1. alive
      BY <1>6
         DEF Receive, TestConnected, CallRead, ReadPacket, ReadEnd, ReadFreed,
             ReceiveEmpty, Goes, At
    <2> QED
      BY <1>2, <1>6, <2>1, ReceiveWorks
  <1>7. CASE TouchOk \/ TouchReconnect \/ SetHidden \/ EraseEntries
    <2>1. alive
      BY <1>7
         DEF TouchOk, TouchReconnect, Touch, SetHidden, EraseEntries, Goes, At
    <2> QED
      BY <1>2, <1>7, <2>1, TouchWorks
  <1>8. CASE UNCHANGED vars \/ \E k \in Attempt : ServerSends(k) \/ LinkEnds(k)
    <2>1. UNCHANGED <<pc, loop, reading, attempts, connected, sock, ssl, object,
                      onScreen, misused, alive>>
      BY <1>8 DEF vars, ServerSends, LinkEnds, clientVars, alertVars
    <2> QED
      BY <1>2, <2>1
         DEF WorkInv, OneActive, ObjectInv, ObjectOf, LoopInv, LoopOf, Active,
             Quiet, Finishing, Opening, Reading
  <1> QED
    BY <1>3, <1>4, <1>5, <1>6, <1>7, <1>8 DEF Next
----------------------------------------------------------------------------
(* What a touch that comes too early leaves behind stays.                   *)
LEMMA TouchStays ==
    ASSUME TypeOK, [Next]_vars
    PROVE  /\ ~ rushed' => ~ rushed
           /\ ~ crossed' => ~ crossed
           /\ TouchOk \/ TouchReconnect =>
                  /\ ~ rushed' =>
                         \A k \in Attempt : loop[k] = "stopped" => pc[k] = "done"
                  /\ ~ crossed' => \A t \in Thread : ~ Showing(t)
  <1>1. TouchOk \/ TouchReconnect \/ (rushed' = rushed /\ crossed' = crossed)
    BY DEF Next, vars, touchVars, InitClient, Connect, OpenSocket,
           ConnectSocket, ConnectRefused, SslNew, SslConnect, SetConnected,
           StartReceiveThread, Disconnect, StopLoop, FreeSsl, CloseSocket,
           OnDisconnect, Show, AddBox, SetVisible, Receive, TestConnected,
           CallRead, ReadPacket, ReadEnd, ReadFreed, ReceiveEmpty, ServerSends,
           LinkEnds, SetHidden, EraseEntries
  <1>2. CASE TouchOk \/ TouchReconnect
    <2>1. Touch
      BY <1>2 DEF TouchOk, TouchReconnect
    <2> QED
      BY <2>1 DEF Touch, Showing
  <1> QED
    BY <1>1, <1>2

(* Who comes to set connected finds no loop that is still to be left: while a  *)
(* thread connects, nobody else is active, and the touch found nobody.       *)
LEMMA TurnStep ==
    ASSUME TypeOK, PlaceInv, UseInv, TurnInv, [Next]_vars
    PROVE  TurnInv'
  <1> SUFFICES ASSUME ~ rushed' PROVE TurnInv'
    BY DEF TurnInv
  <1>1. ~ rushed
    BY TouchStays
  <1>2. /\ LoopStops
        /\ \A k \in Attempt : loop[k] = "stopped" /\ ~ Quiet(k) => ~ connected
        /\ \A c \in {Main, Ui} : Active(c) =>
               \A k \in Attempt : loop[k] = "stopped" => Quiet(k)
    BY <1>1 DEF TurnInv
  <1>3. ASSUME loop' = loop,
               \A k \in Attempt : loop[k] = "stopped" => Quiet(k) /\ pc'[k] = pc[k]
        PROVE  TurnInv'
    BY <1>2, <1>3 DEF TurnInv, LoopStops, Quiet
  <1>4. ASSUME loop' = loop, connected' = connected,
               \A c \in {Main, Ui} : Active(c)' => Active(c),
               \A k \in Attempt : ~ Quiet(k)' => ~ Quiet(k)
        PROVE  TurnInv'
    BY <1>2, <1>4 DEF TurnInv, LoopStops
  <1>5. CASE InitClient
    <2>1. pc[Main] = "init" /\ Moves(Main, "socket") /\ loop' = loop
      BY <1>5, GoMoves, ThreadsNumbered DEF InitClient, Goes, At
    <2>2. Active(Main)
      BY <2>1 DEF Active, Quiet, Finishing, Main, Attempt
    <2> QED
      BY <1>2, <1>3, <2>1, <2>2, ThreadsNumbered DEF Moves
  <1>6. ASSUME NEW c \in {Main, Ui}, Connect(c)
        PROVE  TurnInv'
    <2>1. /\ c \in Thread /\ c \notin Attempt /\ loop' = loop /\ alive
          /\ pc[c] \in {"socket", "connect", "sslNew", "sslConnect",
                        "setConnected", "startThread"}
      BY <1>6, ThreadsNumbered
         DEF Connect, OpenSocket, ConnectSocket, ConnectRefused, SslNew,
             SslConnect, SetConnected, StartReceiveThread, Goes, At
    <2>2. Active(c)
      BY <2>1 DEF Active, Quiet, Finishing
    <2>3. CASE StartReceiveThread(c) /\ ~ Go(c, "idle")
      <3>1. pc[c] = "startThread"
        BY <2>3 DEF StartReceiveThread, At
      <3>2. PICK k \in Attempt : k = attempts
        BY <2>1, <3>1 DEF PlaceInv, Opening
      <3>3. \A u \in Thread : u # c /\ u # k => pc'[u] = pc[u]
        BY <2>1, <2>3, <3>2, ThreadsNumbered DEF StartReceiveThread, TypeOK
      <3>4. loop[k] = "running"
        BY <1>2, <2>1, <3>1, <3>2
           DEF UseInv, WorkInv, ObjectInv, ObjectOf, Opening, PlaceInv
      <3> QED
        BY <1>2, <1>3, <2>1, <2>2, <3>3, <3>4, ThreadsNumbered
    <2>4. CASE ~ (StartReceiveThread(c) /\ ~ Go(c, "idle"))
      <3>1. \E to : Go(c, to)
        BY <1>6, <2>4
           DEF Connect, OpenSocket, ConnectSocket, ConnectRefused, SslNew,
               SslConnect, SetConnected, StartReceiveThread, Goes
      <3>2. \A u \in Thread : u # c => pc'[u] = pc[u]
        BY <3>1, <2>1, GoMoves DEF Moves
      <3> QED
        BY <1>2, <1>3, <2>1, <2>2, <3>2, ThreadsNumbered
    <2> QED
      BY <2>3, <2>4
  <1>7. ASSUME NEW t \in Thread, Disconnect(t)
        PROVE  TurnInv'
    <2>1. \E to : Go(t, to)
      BY <1>7
         DEF Disconnect, StopLoop, FreeSsl, CloseSocket, OnDisconnect, Show,
             AddBox, SetVisible, Goes
    <2>2. \A u \in Thread : u # t => pc'[u] = pc[u]
      BY <2>1, GoMoves DEF Moves
    <2>3. CASE SetVisible(t)
      <3>1. /\ pc[t] = "setVisible" /\ loop' = loop /\ connected' = connected
            /\ \E to \in {"idle", "test", "empty"} :
                   Moves(t, to) /\ (t \notin Attempt => to = "idle")
        BY <2>3, GoMoves DEF SetVisible, AfterEvent, Goes, At, clientVars
      <3>2. ~ Quiet(t) /\ (t \notin Attempt => Quiet(t)')
        BY <3>1 DEF Quiet, Moves
      <3>3. \A c \in {Main, Ui} : Active(c)' => Active(c)
        BY <2>2, <3>2, ThreadsNumbered DEF Active, Quiet, Finishing
      <3>4. \A k \in Attempt : ~ Quiet(k)' => ~ Quiet(k)
        BY <2>2, <3>2, ThreadsNumbered DEF Quiet
      <3> QED
        BY <1>4, <3>1, <3>3, <3>4
    <2>4. ASSUME ~ SetVisible(t) PROVE TurnInv'
      <3>1. /\ pc[t] \in {"stop", "free", "close", "event", "show", "addBox"}
            /\ alive
        BY <1>7, <2>4
           DEF Disconnect, StopLoop, FreeSsl, CloseSocket, OnDisconnect, Show,
               AddBox, Goes, At
      <3>2. Active(t)
        BY <3>1 DEF Active, Quiet, Finishing
      <3>3. CASE t \notin Attempt
        <4>1. t \in {Main, Ui}
          BY <3>3, ThreadsNumbered
        <4>2. loop' = loop
          <5>1. CASE StopLoop(t)
            <6>1. \A k \in Attempt : loop'[k] = loop[k]
              BY <3>3, <5>1 DEF StopLoop
            <6> QED
              BY <5>1, <6>1 DEF StopLoop, TypeOK
          <5>2. CASE ~ StopLoop(t)
            BY <1>7, <2>4, <5>2
               DEF Disconnect, FreeSsl, CloseSocket, OnDisconnect, Show, AddBox
          <5> QED
            BY <5>1, <5>2
        <4>3. \A k \in Attempt : pc'[k] = pc[k]
          BY <2>2, <3>3, ThreadsNumbered
        <4> QED
          BY <1>2, <1>3, <3>2, <4>1, <4>2, <4>3
      <3>4. CASE t \in Attempt
        <4>1. \A c \in {Main, Ui} : ~ Active(c) /\ c # t
          BY <1>2, <3>1, <3>2, <3>4, ActiveAlone, ThreadsNumbered DEF UseInv
        <4>2. \A c \in {Main, Ui} : ~ Active(c)'
          BY <2>2, <4>1, ThreadsNumbered DEF Active, Quiet, Finishing
        <4>3. /\ ~ connected'
              /\ \A k \in Attempt : loop'[k] # "outlived"
          <5>1. CASE StopLoop(t)
            BY <1>2, <5>1 DEF StopLoop, LoopStops
          <5>2. CASE ~ StopLoop(t)
            <6>1. loop' = loop /\ connected' = connected /\ pc[t] # "stop"
              BY <1>7, <2>4, <5>2
                 DEF Disconnect, FreeSsl, CloseSocket, OnDisconnect, Show,
                     AddBox, clientVars, Goes, At
            <6>2. loop[t] = "stopped" /\ ~ Quiet(t)
              BY <1>2, <3>1, <3>4, <6>1
                 DEF UseInv, WorkInv, LoopInv, LoopOf, Quiet
            <6> QED
              BY <1>2, <3>4, <6>1, <6>2 DEF LoopStops
          <5> QED
            BY <5>1, <5>2
        <4> QED
          BY <4>2, <4>3 DEF TurnInv, LoopStops
      <3> QED
        BY <3>3, <3>4
    <2> QED
      BY <2>3, <2>4
  <1>8. ASSUME NEW k \in Attempt, Receive(k)
        PROVE  TurnInv'
    <2>1. k \in Thread /\ ~ Quiet(k) /\ connected' = connected
      BY <1>8, ThreadsNumbered
         DEF Receive, TestConnected, CallRead, ReadPacket, ReadEnd, ReadFreed,
             ReceiveEmpty, Goes, At, Quiet, clientVars
    <2>2. \E to : Go(k, to)
      BY <1>8
         DEF Receive, TestConnected, CallRead, ReadPacket, ReadEnd, ReadFreed,
             ReceiveEmpty, Goes
    <2>3. \A u \in Thread : u # k => pc'[u] = pc[u]
      BY <2>1, <2>2, GoMoves DEF Moves
    <2>4. loop' = loop
      <3>1. ~ (connected /\ loop[k] = "stopped")
        BY <1>2, <2>1
      <3> QED
        BY <1>8, <3>1
           DEF Receive, TestConnected, LoopCondition, CallRead, ReadPacket,
               ReadEnd, ReadFreed, ReceiveEmpty
    <2>5. \A c \in {Main, Ui} : Active(c)' => Active(c)
      BY <2>3, ThreadsNumbered DEF Active, Quiet, Finishing
    <2>6. \A j \in Attempt : ~ Quiet(j)' => ~ Quiet(j)
      BY <2>1, <2>3, ThreadsNumbered DEF Quiet
    <2> QED
      BY <1>4, <2>1, <2>4, <2>5, <2>6
  <1>9. CASE TouchOk \/ TouchReconnect \/ SetHidden \/ EraseEntries
    <2>1. Ui \in Thread /\ Ui \notin Attempt /\ loop' = loop
      BY <1>9, ThreadsNumbered
         DEF TouchOk, TouchReconnect, Touch, SetHidden, EraseEntries
    <2>2. \A k \in Attempt : loop[k] = "stopped" => Quiet(k)
      <3>1. CASE TouchOk \/ TouchReconnect
        BY <3>1, TouchStays DEF Quiet
      <3>2. CASE SetHidden \/ EraseEntries
        <4>1. Active(Ui)
          BY <3>2, <2>1
             DEF SetHidden, EraseEntries, Goes, At, Active, Quiet, Finishing
        <4> QED
          BY <1>2, <4>1
      <3> QED
        BY <1>9, <3>1, <3>2
    <2>3. \E to : Go(Ui, to)
      BY <1>9 DEF TouchOk, TouchReconnect, Touch, SetHidden, EraseEntries, Goes
    <2>4. \A k \in Attempt : pc'[k] = pc[k]
      BY <2>1, <2>3, GoMoves, ThreadsNumbered DEF Moves
    <2> QED
      BY <1>3, <2>1, <2>2, <2>4
  <1>10. CASE UNCHANGED vars \/ \E k \in Attempt : ServerSends(k) \/ LinkEnds(k)
    <2>1. UNCHANGED <<pc, loop, connected>>
      BY <1>10 DEF vars, ServerSends, LinkEnds, clientVars
    <2> QED
      BY <1>4, <2>1 DEF Active, Quiet, Finishing
  <1> QED
    BY <1>5, <1>6, <1>7, <1>8, <1>9, <1>10 DEF Next
----------------------------------------------------------------------------
(* Only main connects before there is anybody else, and a thread that moves   *)
(* is not one that is still to be started.                                  *)
LEMMA FreshStep ==
    ASSUME TypeOK, PlaceInv, PlaceInv', FreshInv, [Next]_vars
    PROVE  FreshInv'
  <1>1. Main \in Thread /\ Ui \in Thread /\ Main # Ui
    BY ThreadsNumbered
  <1>2. ASSUME NEW t \in Thread, NEW to, Moves(t, to), pc[t] # "none",
               t # Main => pc[t] # "idle", attempts' = attempts,
               t = Main /\ to \in ConnectStates =>
                   pc[t] \in ConnectStates /\ onScreen' = onScreen,
               Opening(t)' => Opening(t)
        PROVE  FreshInv'
    <2>1. ASSUME pc'[Main] \in ConnectStates
          PROVE  /\ pc'[Ui] = "idle" /\ ~ onScreen'
                 /\ \A k \in Attempt : pc'[k] = "none"
      <3>1. pc[Main] \in ConnectStates
        BY <1>1, <1>2, <2>1 DEF Moves
      <3>2. /\ pc[Ui] = "idle" /\ ~ onScreen
            /\ \A k \in Attempt : pc[k] = "none"
        BY <3>1 DEF FreshInv
      <3>3. t = Main
        BY <1>2, <3>2, ThreadsNumbered
      <3> QED
        BY <1>2, <2>1, <3>2, <3>3, ThreadsNumbered DEF Moves
    <2>2. ASSUME NEW c \in {Main, Ui}, Opening(c)'
          PROVE  pc'[attempts'] = "none"
      <3>1. Opening(c) /\ c \in Thread
        BY <1>1, <1>2, <2>2 DEF Opening, Moves
      <3>2. pc[attempts] = "none" /\ attempts \in Thread
        BY <3>1, ThreadsNumbered DEF FreshInv, PlaceInv
      <3> QED
        BY <1>2, <3>2 DEF Moves
    <2> QED
      BY <2>1, <2>2 DEF FreshInv
  <1>3. CASE InitClient
    <2>1. /\ pc[Main] = "init" /\ Moves(Main, "socket")
          /\ attempts' = attempts /\ onScreen' = onScreen
      BY <1>3, <1>1, GoMoves DEF InitClient, Goes, At, alertVars
    <2>2. pc[Main] \in ConnectStates /\ ~ Opening(Main)'
      BY <2>1 DEF ConnectStates, Opening, Moves
    <2> QED
      BY <1>1, <1>2, <2>1, <2>2
  <1>4. ASSUME NEW c \in {Main, Ui}, Connect(c)
        PROVE  FreshInv'
    <2>1. /\ c \in Thread /\ c \notin Attempt /\ onScreen' = onScreen
          /\ pc[c] \in ConnectStates
      BY <1>4, ThreadsNumbered
         DEF Connect, OpenSocket, ConnectSocket, ConnectRefused, SslNew,
             SslConnect, SetConnected, StartReceiveThread, Goes, At, alertVars,
             ConnectStates
    <2>2. pc[c] # "none" /\ pc[c] # "idle"
      BY <2>1 DEF ConnectStates
    <2>3. c = Ui => pc[Main] \notin ConnectStates
      BY <2>2 DEF FreshInv
    <2>4. CASE OpenSocket(c) /\ attempts' # attempts
      <3>1. attempts' = attempts + 1 /\ attempts' \in Attempt
        BY <2>4, LimitAssumption DEF OpenSocket, TypeOK, Attempt
      <3>2. Moves(c, "connect")
        BY <2>1, <2>4, GoMoves DEF OpenSocket
      <3>3. pc[attempts'] = "none"
        BY <3>1 DEF PlaceInv, TypeOK
      <3>4. pc'[attempts'] = "none"
        BY <2>1, <3>1, <3>2, <3>3, ThreadsNumbered DEF Moves
      <3>5. ASSUME pc'[Main] \in ConnectStates
            PROVE  /\ pc'[Ui] = "idle" /\ ~ onScreen'
                   /\ \A k \in Attempt : pc'[k] = "none"
        <4>1. c = Main /\ pc[Main] \in ConnectStates
          BY <1>1, <2>1, <2>3, <3>2, <3>5 DEF Moves
        <4> QED
          BY <2>1, <3>2, <4>1, ThreadsNumbered DEF FreshInv, Moves
      <3> QED
        BY <3>4, <3>5 DEF FreshInv
    <2>5. CASE StartReceiveThread(c) /\ ~ Go(c, "idle")
      <3>1. pc[c] = "startThread" /\ attempts' = attempts
        BY <2>5 DEF StartReceiveThread, At
      <3>2. PICK k \in Attempt : k = attempts
        BY <2>1, <3>1 DEF PlaceInv, Opening
      <3>3. /\ pc'[c] = "idle"
            /\ \A u \in Thread : u # c /\ u # k => pc'[u] = pc[u]
        BY <2>1, <2>5, <3>2, ThreadsNumbered DEF StartReceiveThread, TypeOK
      <3>4. \A d \in {Main, Ui} :
                d # c => pc[d] \notin ConnectStates /\ pc'[d] = pc[d]
        <4>1. ASSUME NEW d \in {Main, Ui}, d # c
              PROVE  d \in Thread /\ d # k
          BY <4>1, ThreadsNumbered
        <4>2. ASSUME NEW d \in {Main, Ui}, d # c
              PROVE  pc[d] \notin ConnectStates
          <5>1. CASE c = Ui
            BY <2>3, <4>2, <5>1
          <5>2. CASE c = Main
            <6>1. d = Ui /\ pc[d] = "idle"
              BY <2>1, <4>2, <5>2 DEF FreshInv
            <6> QED
              BY <6>1 DEF ConnectStates
          <5> QED
            BY <1>4, <5>1, <5>2
        <4> QED
          BY <3>3, <4>1, <4>2
      <3>5. \A d \in {Main, Ui} : pc'[d] \notin ConnectStates
        BY <3>3, <3>4 DEF ConnectStates
      <3>6. \A d \in {Main, Ui} : ~ Opening(d)'
        BY <3>5 DEF Opening, ConnectStates
      <3> QED
        BY <3>5, <3>6 DEF FreshInv
    <2>6. CASE /\ ~ (OpenSocket(c) /\ attempts' # attempts)
               /\ ~ (StartReceiveThread(c) /\ ~ Go(c, "idle"))
      <3>1. attempts' = attempts
        BY <1>4, <2>6
           DEF Connect, OpenSocket, ConnectSocket, ConnectRefused, SslNew,
               SslConnect, SetConnected, StartReceiveThread
      <3>2. CASE OpenSocket(c) \/ StartReceiveThread(c)
        <4>1. attempts + 1 # attempts
          BY DEF TypeOK
        <4>2. Go(c, "idle")
          BY <2>6, <3>2, <4>1 DEF OpenSocket
        <4>3. Moves(c, "idle") /\ "idle" \notin ConnectStates
          BY <2>1, <4>2, GoMoves DEF ConnectStates
        <4>4. ~ Opening(c)'
          BY <4>3 DEF Opening, Moves
        <4> QED
          BY <1>2, <2>1, <2>2, <3>1, <4>3, <4>4
      <3>3. CASE ~ OpenSocket(c) /\ ~ StartReceiveThread(c)
        <4>1. Opening(c)
          BY <1>4, <3>3
             DEF Connect, ConnectSocket, ConnectRefused, SslNew, SslConnect,
                 SetConnected, Goes, At, Opening
        <4>2. \E to : Go(c, to)
          BY <1>4, <3>3
             DEF Connect, ConnectSocket, ConnectRefused, SslNew, SslConnect,
                 SetConnected, Goes
        <4> QED
          BY <1>2, <2>1, <2>2, <3>1, <4>1, <4>2, GoMoves
      <3> QED
        BY <3>2, <3>3
    <2> QED
      BY <2>4, <2>5, <2>6
  <1>5. ASSUME NEW t \in Thread, Disconnect(t) \/ (t \in Attempt /\ Receive(t))
        PROVE  FreshInv'
    <2>1. attempts' = attempts /\ pc[t] \notin {"none", "idle"}
      BY <1>5
         DEF Disconnect, StopLoop, FreeSsl, CloseSocket, OnDisconnect, Show,
             AddBox, SetVisible, Receive, TestConnected, CallRead, ReadPacket,
             ReadEnd, ReadFreed, ReceiveEmpty, Goes, At
    <2>2. \E to : /\ Go(t, to) /\ to \notin ConnectStates
      BY <1>5
         DEF Disconnect, StopLoop, FreeSsl, CloseSocket, OnDisconnect, Show,
             AddBox, SetVisible, AfterEvent, Receive, TestConnected, CallRead,
             ReadPacket, ReadEnd, AfterEnd, ReadFreed, ReceiveEmpty, Goes,
             ConnectStates
    <2>3. PICK to : Moves(t, to) /\ to \notin ConnectStates
      BY <2>2, GoMoves
    <2>4. ~ Opening(t)'
      BY <2>3 DEF Opening, Moves, ConnectStates
    <2> QED
      BY <1>2, <2>1, <2>3, <2>4
  <1>6. CASE TouchOk \/ TouchReconnect
    <2>1. /\ pc[Ui] = "idle" /\ onScreen /\ attempts' = attempts
          /\ Moves(Ui, "setHidden")
      BY <1>1, <1>6, GoMoves DEF TouchOk, TouchReconnect, Touch, At
    <2>2. pc'[Main] = pc[Main] /\ pc[Main] \notin ConnectStates
      BY <1>1, <2>1 DEF FreshInv, Moves
    <2>3. ~ Opening(Main)' /\ ~ Opening(Ui)'
      BY <2>1, <2>2 DEF Opening, ConnectStates, Moves
    <2> QED
      BY <2>2, <2>3 DEF FreshInv
  <1>7. CASE SetHidden \/ EraseEntries
    <2>1. /\ pc[Ui] \in HideStates /\ attempts' = attempts
          /\ \E to \in {"erase", "idle", "socket"} : Go(Ui, to)
      BY <1>7 DEF SetHidden, EraseEntries, Goes, At, HideStates
    <2>2. PICK to \in {"erase", "idle", "socket"} : Moves(Ui, to)
      BY <1>1, <2>1, GoMoves
    <2>3. ~ Opening(Ui)' /\ pc[Ui] \notin {"none", "idle"}
      BY <2>1, <2>2 DEF Opening, Moves, HideStates
    <2> QED
      BY <1>1, <1>2, <2>1, <2>2, <2>3
  <1>8. CASE UNCHANGED vars \/ \E k \in Attempt : ServerSends(k) \/ LinkEnds(k)
    <2>1. UNCHANGED <<pc, attempts, onScreen>>
      BY <1>8 DEF vars, ServerSends, LinkEnds, alertVars
    <2> QED
      BY <2>1 DEF FreshInv, Opening
  <1> QED
    BY <1>3, <1>4, <1>5, <1>6, <1>7, <1>8, ThreadsNumbered DEF Next
----------------------------------------------------------------------------
Marked == {"addBox", "setVisible", "setHidden"}

(* The steps that neither touch the alert nor bring a thread to a place       *)
(* where it matters.                                                       *)
LEMMA AlertUntouched ==
    ASSUME TypeOK, AlertInv, ~ crossed, visible' = visible,
           onScreen' = onScreen,
           \A t \in Thread :
               pc'[t] = pc[t] \/ (pc[t] \notin Marked /\ pc'[t] \notin Marked)
    PROVE  AlertInv'
  <1>1. \A t \in Thread : /\ Showing(t)' <=> Showing(t)
                          /\ pc'[t] = "setVisible" <=> pc[t] = "setVisible"
                          /\ pc'[t] = "setHidden" <=> pc[t] = "setHidden"
    BY DEF Showing, Marked
  <1>2. Ui \in Thread
    BY ThreadsNumbered
  <1> QED
    BY <1>1, <1>2 DEF AlertInv

(* However show() and hide() overlap, hide() takes an alert off the screen    *)
(* that is complete, and a show() that starts during a hide() finds visible  *)
(* TRUE and leaves the screen alone.                                        *)
LEMMA AlertStep ==
    ASSUME TypeOK, PlaceInv, FreshInv, AlertInv, [Next]_vars
    PROVE  AlertInv'
  <1> SUFFICES ASSUME ~ crossed' PROVE AlertInv'
    BY DEF AlertInv
  <1>1. ~ crossed /\ Ui \in Thread
    BY TouchStays, ThreadsNumbered
  <1>2. IF pc[Ui] = "setHidden"
        THEN visible /\ ~ onScreen /\ \A t \in Thread : ~ Showing(t)
        ELSE /\ visible \/ (\E t \in Thread : pc[t] = "setVisible") => onScreen
             /\ onScreen => visible \/ \E t \in Thread : pc[t] = "setVisible"
    BY <1>1 DEF AlertInv
  <1>3. ASSUME NEW t \in Thread, NEW to, Moves(t, to),
               pc[t] \notin Marked, to \notin Marked,
               visible' = visible, onScreen' = onScreen
        PROVE  AlertInv'
    BY <1>1, <1>3, AlertUntouched DEF Moves
  <1>4. CASE InitClient
    BY <1>3, <1>4, GoMoves, ThreadsNumbered
       DEF InitClient, Goes, At, alertVars, Marked
  <1>5. ASSUME NEW c \in {Main, Ui}, Connect(c)
        PROVE  AlertInv'
    <2>1. /\ c \in Thread /\ visible' = visible /\ onScreen' = onScreen
          /\ pc[c] \notin Marked
      BY <1>5, ThreadsNumbered
         DEF Connect, OpenSocket, ConnectSocket, ConnectRefused, SslNew,
             SslConnect, SetConnected, StartReceiveThread, Goes, At, alertVars,
             Marked
    <2>2. CASE StartReceiveThread(c) /\ ~ Go(c, "idle")
      <3>1. pc[c] = "startThread"
        BY <2>2 DEF StartReceiveThread, At
      <3>2. PICK k \in Attempt : k = attempts
        BY <2>1, <3>1 DEF PlaceInv, Opening
      <3>3. k \in Thread /\ k # c /\ pc[k] = "none"
        BY <3>1, <3>2, ThreadsNumbered DEF FreshInv, Opening
      <3>4. /\ pc'[c] = "idle" /\ pc'[k] = "test"
            /\ \A u \in Thread : u # c /\ u # k => pc'[u] = pc[u]
        BY <2>1, <2>2, <3>2, <3>3 DEF StartReceiveThread, TypeOK
      <3> QED
        BY <1>1, <2>1, <3>3, <3>4, AlertUntouched DEF Marked
    <2>3. CASE ~ (StartReceiveThread(c) /\ ~ Go(c, "idle"))
      <3>1. \E to : Go(c, to) /\ to \notin Marked
        BY <1>5, <2>3
           DEF Connect, OpenSocket, ConnectSocket, ConnectRefused,
               AfterRefusal, SslNew, SslConnect, SetConnected,
               StartReceiveThread, Goes, Marked
      <3> QED
        BY <1>3, <2>1, <3>1, GoMoves
    <2> QED
      BY <2>2, <2>3
  <1>6. ASSUME NEW t \in Thread, Disconnect(t)
        PROVE  AlertInv'
    <2>1. CASE StopLoop(t) \/ FreeSsl(t) \/ CloseSocket(t) \/ OnDisconnect(t)
      <3>1. /\ pc[t] \notin Marked
            /\ visible' = visible /\ onScreen' = onScreen
            /\ \E to \in {"free", "close", "event", "show"} : Go(t, to)
        BY <2>1
           DEF StopLoop, FreeSsl, CloseSocket, OnDisconnect, Goes, At,
               alertVars, Marked
      <3> QED
        BY <1>3, <3>1, GoMoves DEF Marked
    <2>2. CASE Show(t)
      <3>1. pc[t] = "show" /\ visible' = visible /\ onScreen' = onScreen
        BY <2>2 DEF Show, At, alertVars
      <3>2. CASE visible
        <4>1. \E to \in {"idle", "test", "empty"} : Go(t, to)
          BY <2>2, <3>2 DEF Show, AfterEvent
        <4> QED
          BY <1>3, <3>1, <4>1, GoMoves DEF Marked
      <3>3. CASE ~ visible
        <4>1. Moves(t, "addBox") /\ pc[Ui] # "setHidden"
          BY <1>2, <2>2, <3>3, GoMoves DEF Show
        <4>2. /\ pc'[Ui] # "setHidden"
              /\ \A u \in Thread : pc'[u] = "setVisible" <=> pc[u] = "setVisible"
          BY <1>1, <3>1, <4>1 DEF Moves
        <4> QED
          BY <1>2, <3>1, <4>1, <4>2 DEF AlertInv
      <3> QED
        BY <3>2, <3>3
    <2>3. CASE AddBox(t) \/ SetVisible(t)
      <3>1. Showing(t) /\ pc[Ui] # "setHidden"
        BY <1>2, <2>3 DEF AddBox, SetVisible, Goes, At, Showing
      <3>2. PICK to \in {"setVisible", "idle", "test", "empty"} : Moves(t, to)
        BY <2>3, GoMoves DEF AddBox, SetVisible, AfterEvent, Goes
      <3>3. pc'[Ui] # "setHidden"
        BY <1>1, <3>1, <3>2 DEF Moves
      <3>4. CASE AddBox(t)
        <4>1. onScreen' = TRUE /\ pc'[t] = "setVisible"
          BY <3>4, GoMoves DEF AddBox, Goes, Moves
        <4> QED
          BY <3>3, <4>1 DEF AlertInv
      <3>5. CASE SetVisible(t)
        <4>1. pc[t] = "setVisible" /\ visible' = TRUE /\ onScreen' = onScreen
          BY <3>5 DEF SetVisible, Goes, At
        <4>2. onScreen' = TRUE
          BY <1>2, <3>1, <4>1 DEF TypeOK
        <4> QED
          BY <3>3, <4>1, <4>2 DEF AlertInv
      <3> QED
        BY <2>3, <3>4, <3>5
    <2> QED
      BY <1>6, <2>1, <2>2, <2>3 DEF Disconnect
  <1>7. ASSUME NEW k \in Attempt, Receive(k)
        PROVE  AlertInv'
    <2>1. /\ k \in Thread /\ pc[k] \notin Marked
          /\ visible' = visible /\ onScreen' = onScreen
      BY <1>7, ThreadsNumbered
         DEF Receive, TestConnected, CallRead, ReadPacket, ReadEnd, ReadFreed,
             ReceiveEmpty, Goes, At, alertVars, Marked
    <2>2. \E to : Go(k, to) /\ to \notin Marked
      BY <1>7
         DEF Receive, TestConnected, CallRead, ReadPacket, ReadEnd, AfterEnd,
             ReadFreed, ReceiveEmpty, Goes, Marked
    <2> QED
      BY <1>3, <2>1, <2>2, GoMoves
  <1>8. CASE TouchOk \/ TouchReconnect
    <2>1. /\ pc[Ui] = "idle" /\ onScreen /\ onScreen' = FALSE
          /\ visible' = visible /\ Moves(Ui, "setHidden")
      BY <1>1, <1>8, GoMoves DEF TouchOk, TouchReconnect, Touch, At
    <2>2. \A t \in Thread : ~ Showing(t)
      BY <1>8, TouchStays
    <2>3. visible
      BY <1>2, <2>1, <2>2 DEF Showing
    <2>4. \A t \in Thread : ~ Showing(t)'
      BY <2>1, <2>2 DEF Showing, Moves
    <2> QED
      BY <2>1, <2>3, <2>4 DEF AlertInv, Moves
  <1>9. CASE SetHidden
    <2>1. /\ visible' = FALSE /\ onScreen' = onScreen /\ Moves(Ui, "erase")
          /\ pc[Ui] = "setHidden"
      BY <1>1, <1>9, GoMoves DEF SetHidden, Goes, At
    <2>2. onScreen' = FALSE /\ \A t \in Thread : pc'[t] # "setVisible"
      BY <1>2, <2>1 DEF TypeOK, Showing, Moves
    <2> QED
      BY <2>1, <2>2 DEF AlertInv, Moves
  <1>10. CASE EraseEntries
    <2>1. /\ pc[Ui] = "erase" /\ visible' = visible /\ onScreen' = onScreen
          /\ \E to \in {"idle", "socket"} : Go(Ui, to)
      BY <1>10 DEF EraseEntries, Goes, At
    <2> QED
      BY <1>1, <1>3, <2>1, GoMoves DEF Marked
  <1>11. CASE UNCHANGED vars \/ \E k \in Attempt : ServerSends(k) \/ LinkEnds(k)
    <2>1. UNCHANGED <<pc, visible, onScreen>>
      BY <1>11 DEF vars, ServerSends, LinkEnds, alertVars
    <2> QED
      BY <1>1, <2>1, AlertUntouched
  <1> QED
    BY <1>4, <1>5, <1>6, <1>7, <1>8, <1>9, <1>10, <1>11 DEF Next
----------------------------------------------------------------------------
(* The alert appears with an entry after every attempt and every connection   *)
(* that ends with an event, and a show() that leaves the screen alone found  *)
(* the alert on it or a hide() on the way to reconnect.                      *)
LEMMA WayStep ==
    ASSUME TypeOK, PlaceInv, FreshInv, AlertInv, WayInv, [Next]_vars
    PROVE  WayInv'
  <1> SUFFICES ASSUME alive', ~ crossed', ~ silent', ~ dismissed'
               PROVE  WayInv'
    BY DEF WayInv
  <1>1. ~ crossed /\ Main \in Thread /\ Ui \in Thread
    BY TouchStays, ThreadsNumbered
  <1>2. ASSUME NEW t \in Thread, Due(t)'
        PROVE  WayInv'
    BY <1>2 DEF WayInv
  <1>3. ASSUME alive, ~ silent, ~ dismissed
        PROVE  (\E t \in Thread : Due(t)) \/ Offered
    BY <1>1, <1>3 DEF WayInv
  <1>4. ASSUME alive, ~ silent, ~ dismissed,
               NEW t \in Thread, NEW to, Moves(t, to), connected' = connected,
               ~ Due(t), Offered => Offered'
        PROVE  WayInv'
    <2>1. ASSUME NEW u \in Thread, Due(u) PROVE Due(u)'
      <3>1. pc'[u] = pc[u]
        BY <1>4, <2>1 DEF Moves
      <3> QED
        BY <1>4, <2>1, <3>1 DEF Due
    <2> QED
      BY <1>3, <1>4, <2>1 DEF WayInv
  <1>5. CASE InitClient
    <2>1. Moves(Main, "socket")
      BY <1>1, <1>5, GoMoves DEF InitClient, Goes
    <2> QED
      BY <1>1, <1>2, <2>1 DEF Moves, Due, ConnectStates
  <1>6. ASSUME NEW c \in {Main, Ui}, Connect(c)
        PROVE  WayInv'
    <2>1. c \in Thread /\ c \notin Attempt
      BY ThreadsNumbered
    <2>2. CASE StartReceiveThread(c)
      <3>1. /\ pc[c] = "startThread" /\ alive /\ connected' = connected
            /\ dismissed' = dismissed /\ entries' = entries
            /\ onScreen' = onScreen
            /\ silent' = silent
            /\ pc' = [pc EXCEPT ![c] = "idle", ![attempts] = "test"]
        BY <2>2
           DEF StartReceiveThread, At, clientVars, alertVars, touchVars, TypeOK
      <3>2. PICK k \in Attempt : k = attempts
        BY <2>1, <3>1 DEF PlaceInv, Opening
      <3>3. k \in Thread /\ k # c /\ pc[k] = "none"
        BY <2>1, <3>1, <3>2, ThreadsNumbered DEF FreshInv, Opening
      <3>4. /\ pc'[k] = "test"
            /\ \A u \in Thread : u # c /\ u # k => pc'[u] = pc[u]
        BY <2>1, <3>1, <3>2, <3>3 DEF TypeOK
      <3>5. CASE connected
        BY <1>2, <3>1, <3>3, <3>4, <3>5 DEF Due
      <3>6. CASE ~ connected
        <4>1. ~ Due(c) /\ ~ Due(k)
          BY <3>1, <3>3, <3>6 DEF Due, ConnectStates, HideStates
        <4>2. ASSUME NEW u \in Thread, Due(u) PROVE WayInv'
          <5>1. pc'[u] = pc[u]
            BY <3>4, <4>1, <4>2
          <5> QED
            BY <1>2, <3>1, <4>2, <5>1 DEF Due
        <4>3. Offered => Offered'
          BY <3>1, <3>3, <3>4 DEF Offered
        <4> QED
          BY <1>3, <3>1, <4>2, <4>3 DEF WayInv
      <3> QED
        BY <3>5, <3>6
    <2>3. CASE ~ StartReceiveThread(c)
      <3>1. \E to : /\ Go(c, to)
                    /\ \/ to \in {"connect", "event", "sslNew", "sslConnect",
                                  "setConnected", "stop"}
                       \/ to = "startThread" /\ connected'
        BY <1>6, <2>3
           DEF Connect, OpenSocket, ConnectSocket, ConnectRefused,
               AfterRefusal, SslNew, SslConnect, SetConnected, Goes
      <3>2. Due(c)'
        BY <2>1, <3>1, GoMoves DEF Moves, Due, ConnectStates
      <3> QED
        BY <1>2, <2>1, <3>2
    <2> QED
      BY <2>2, <2>3
  <1>7. ASSUME NEW t \in Thread, Disconnect(t)
        PROVE  WayInv'
    <2>1. alive /\ ~ silent /\ ~ dismissed
      <3>1. silent' = silent /\ dismissed' = dismissed
        BY <1>7
           DEF Disconnect, StopLoop, FreeSsl, CloseSocket, OnDisconnect, Show,
               AddBox, SetVisible, touchVars
      <3>2. alive
        BY <1>7
           DEF Disconnect, StopLoop, FreeSsl, CloseSocket, OnDisconnect, Show,
               AddBox, SetVisible, Goes, At
      <3> QED
        BY <3>1, <3>2
    <2>2. CASE StopLoop(t) \/ FreeSsl(t) \/ CloseSocket(t)
      <3>1. \E to \in {"free", "close", "event"} : Go(t, to)
        BY <2>2 DEF StopLoop, FreeSsl, CloseSocket, Goes
      <3> QED
        BY <1>2, <3>1, GoMoves DEF Moves, Due
    <2>3. CASE OnDisconnect(t)
      <3>1. Moves(t, "show") /\ entries' > 0
        BY <2>3, GoMoves DEF OnDisconnect, Goes, TypeOK
      <3> QED
        BY <3>1 DEF Moves, Offered, WayInv
    <2>4. CASE Show(t) \/ AddBox(t) \/ SetVisible(t)
      <3>1. /\ pc[t] \in {"show", "addBox", "setVisible"} /\ ~ Due(t)
            /\ connected' = connected /\ entries' = entries
        BY <2>4
           DEF Show, AddBox, SetVisible, Goes, At, clientVars, alertVars, Due,
               ConnectStates, HideStates
      <3>2. CASE Show(t) /\ visible
        <4>1. pc[t] = "show" /\ onScreen' = onScreen
          BY <3>2 DEF Show, At, alertVars
        <4>2. PICK to : Moves(t, to)
          BY <3>2, GoMoves DEF Show
        <4>3. CASE pc[Ui] = "setHidden"
          <5>1. pc'[Ui] = "setHidden"
            BY <1>1, <4>1, <4>2, <4>3 DEF Moves
          <5> QED
            BY <1>1, <1>2, <5>1 DEF Due, HideStates
        <4>4. CASE pc[Ui] # "setHidden"
          <5>1. onScreen
            BY <1>1, <3>2, <4>4 DEF AlertInv
          <5>2. Offered => Offered'
            BY <3>1, <4>1, <5>1 DEF Offered
          <5> QED
            BY <1>4, <2>1, <3>1, <4>2, <5>2
        <4> QED
          BY <4>3, <4>4
      <3>3. CASE Show(t) /\ ~ visible
        <4>1. Moves(t, "addBox")
          BY <3>3, GoMoves DEF Show
        <4>2. Offered => Offered'
          BY <3>1, <4>1 DEF Offered, Moves
        <4> QED
          BY <1>4, <2>1, <3>1, <4>1, <4>2
      <3>4. CASE AddBox(t)
        <4>1. Moves(t, "setVisible") /\ onScreen' = TRUE
          BY <3>4, GoMoves DEF AddBox, Goes
        <4>2. Offered => Offered'
          BY <3>1, <4>1 DEF Offered
        <4> QED
          BY <1>4, <2>1, <3>1, <4>1, <4>2
      <3>5. CASE SetVisible(t)
        <4>1. pc[t] = "setVisible" /\ onScreen' = onScreen
          BY <3>5 DEF SetVisible, Goes, At
        <4>2. PICK to : Moves(t, to)
          BY <3>5, GoMoves DEF SetVisible, Goes
        <4>3. Offered => Offered'
          BY <3>1, <4>1, <4>2 DEF Offered, Moves
        <4> QED
          BY <1>4, <2>1, <3>1, <4>2, <4>3
      <3> QED
        BY <2>4, <3>2, <3>3, <3>4, <3>5
    <2> QED
      BY <1>7, <2>2, <2>3, <2>4 DEF Disconnect
  <1>8. ASSUME NEW k \in Attempt, Receive(k)
        PROVE  WayInv'
    <2>1. /\ alive /\ ~ silent /\ ~ dismissed /\ k \in Thread
          /\ connected' = connected /\ entries' = entries
          /\ onScreen' = onScreen
          /\ pc[k] \in {"test", "read", "blocked", "empty"}
      <3>1. /\ connected' = connected /\ entries' = entries
            /\ onScreen' = onScreen
        BY <1>8
           DEF Receive, TestConnected, CallRead, ReadPacket, ReadEnd,
               ReadFreed, ReceiveEmpty, clientVars, alertVars
      <3>2. silent' = silent /\ dismissed' = dismissed
        BY <1>8
           DEF Receive, TestConnected, CallRead, ReadPacket, ReadEnd,
               ReadFreed, ReceiveEmpty, touchVars
      <3>3. alive /\ pc[k] \in {"test", "read", "blocked", "empty"}
        BY <1>8
           DEF Receive, TestConnected, CallRead, ReadPacket, ReadEnd,
               ReadFreed, ReceiveEmpty, Goes, At
      <3> QED
        BY <3>1, <3>2, <3>3, ThreadsNumbered
    <2>2. \E to : /\ Go(k, to)
                  /\ connected => to \in {"test", "read", "blocked", "stop"}
      BY <1>8
         DEF Receive, TestConnected, LoopCondition, CallRead, ReadPacket,
             ReadEnd, AfterEnd, ReadFreed, ReceiveEmpty, Goes
    <2>3. PICK to : /\ Moves(k, to)
                    /\ connected => to \in {"test", "read", "blocked", "stop"}
      BY <2>1, <2>2, GoMoves
    <2>4. CASE connected
      BY <1>2, <2>1, <2>3, <2>4 DEF Moves, Due
    <2>5. CASE ~ connected
      <3>1. ~ Due(k)
        BY <2>1, <2>5 DEF Due, ConnectStates, HideStates
      <3>2. Offered => Offered'
        BY <2>1, <2>3 DEF Offered, Moves
      <3> QED
        BY <1>4, <2>1, <2>3, <3>1, <3>2
    <2> QED
      BY <2>4, <2>5
  <1>9. CASE TouchOk \/ TouchReconnect \/ SetHidden \/ EraseEntries
    <2>1. \E to \in {"setHidden", "erase", "socket"} : Go(Ui, to)
      <3>1. EraseEntries => ~ dismissed
        BY DEF EraseEntries, touchVars
      <3>2. ~ TouchOk
        BY DEF TouchOk
      <3> QED
        BY <1>9, <3>1, <3>2
           DEF TouchReconnect, Touch, SetHidden, EraseEntries, Goes
    <2>2. Due(Ui)'
      BY <1>1, <2>1, GoMoves DEF Moves, Due, HideStates, ConnectStates
    <2> QED
      BY <1>1, <1>2, <2>2
  <1>10. CASE UNCHANGED vars \/ \E k \in Attempt : ServerSends(k) \/ LinkEnds(k)
    <2>1. UNCHANGED <<pc, connected, entries, onScreen, alive, silent, dismissed>>
      BY <1>10
         DEF vars, ServerSends, LinkEnds, clientVars, alertVars, touchVars
    <2>2. (\E t \in Thread : Due(t)) \/ Offered
      BY <1>3, <2>1
    <2> QED
      BY <2>1, <2>2 DEF WayInv, Due, Offered
  <1> QED
    BY <1>5, <1>6, <1>7, <1>8, <1>9, <1>10 DEF Next
----------------------------------------------------------------------------
(* The inductive invariant, with TypeOK.                                    *)
Inv == PlaceInv /\ UseInv /\ TurnInv /\ FreshInv /\ AlertInv /\ WayInv

LEMMA ClientInitially == Init => Inv
  <1> SUFFICES ASSUME Init PROVE Inv
    OBVIOUS
  <1>1. /\ pc[Main] = "init" /\ pc[Ui] = "idle"
        /\ \A k \in Attempt : pc[k] = "none" /\ loop[k] = "running"
    BY ThreadsNumbered DEF Init
  <1>2. \A t \in Thread : t # Main => pc[t] \in {"idle", "none"}
    BY <1>1, ThreadsNumbered
  <1>3. \A t \in Thread : (Quiet(t) <=> t # Main) /\ (Active(t) <=> t = Main)
    BY <1>1, <1>2, ThreadsNumbered DEF Quiet, Active, Finishing
  <1>4. PlaceInv
    BY <1>1, <1>2
       DEF PlaceInv, Opening, ConnectStates, ReceiveStates
  <1>5. OneActive
    BY <1>3 DEF OneActive, Init
  <1>6. ObjectInv
    BY <1>1, <1>2, ThreadsNumbered DEF ObjectInv, ObjectOf, Opening, Reading
  <1>7. LoopInv
    BY <1>1 DEF LoopInv, LoopOf
  <1>8. UseInv
    BY <1>5, <1>6, <1>7 DEF UseInv, WorkInv, Init
  <1>9. TurnInv
    <2>1. \A k \in Attempt : loop[k] # "stopped" /\ loop[k] # "outlived"
      BY <1>1
    <2> QED
      BY <2>1 DEF TurnInv, LoopStops
  <1>10. FreshInv
    BY <1>1 DEF FreshInv, Opening, Init
  <1>11. AlertInv
    BY <1>1, <1>2 DEF AlertInv, Init
  <1>12. WayInv
    <2>1. Due(Main)
      BY <1>1 DEF Due, ConnectStates
    <2> QED
      BY <2>1, ThreadsNumbered DEF WayInv
  <1> QED
    BY <1>4, <1>8, <1>9, <1>10, <1>11, <1>12 DEF Inv

LEMMA ClientInvariants == Spec => [](TypeOK /\ Inv)
  <1>1. TypeOK /\ TypeOK' /\ Inv /\ [Next]_vars => Inv'
    <2> SUFFICES ASSUME TypeOK, TypeOK', Inv, [Next]_vars PROVE Inv'
      OBVIOUS
    <2>1. PlaceInv /\ UseInv /\ TurnInv /\ FreshInv /\ AlertInv /\ WayInv
      BY DEF Inv
    <2>2. PlaceInv'
      BY <2>1, PlaceStep
    <2>3. UseInv'
      BY <2>1, UseStep
    <2>4. TurnInv'
      BY <2>1, TurnStep
    <2>5. FreshInv'
      BY <2>1, <2>2, FreshStep
    <2>6. AlertInv'
      BY <2>1, AlertStep
    <2>7. WayInv'
      BY <2>1, WayStep
    <2> QED
      BY <2>2, <2>3, <2>4, <2>5, <2>6, <2>7 DEF Inv
  <1> QED
    BY <1>1, ClientInitially, ClientTyped, PTL DEF Spec

(* disconnect() stops the receive loop it was called from, unless the user    *)
(* has touched a button while such a loop was still to be left.              *)
THEOREM LoopsStop == Spec => []LoopStopsInTime
  <1>1. Inv => LoopStopsInTime
    BY DEF Inv, TurnInv, LoopStopsInTime
  <1> QED
    BY <1>1, ClientInvariants, PTL

(* No thread reads from or frees an SSL object that is not live, as long as   *)
(* no receive loop outlives its disconnect(): neither refused connections    *)
(* nor failed handshakes nor hasty touches do that by themselves.           *)
THEOREM ObjectsLive == Spec => []SslUsedWhileAlive
  <1>1. Inv => SslUsedWhileAlive
    BY DEF Inv, UseInv, SslUsedWhileAlive
  <1> QED
    BY <1>1, ClientInvariants, PTL

(* However show() and hide() overlap, the flag of the alert tells what is on  *)
(* the screen but for the step in between, unless a touch has found a show() *)
(* between its test and its last step.                                      *)
THEOREM AlertTells == Spec => []AlertConsistent
  <1>1. TypeOK /\ Inv => AlertConsistent
    <2> SUFFICES ASSUME TypeOK, AlertInv, ~ crossed,
                        \A t \in Thread :
                            pc[t] \notin {"setVisible", "setHidden"}
                 PROVE  visible = onScreen
      BY DEF Inv, AlertConsistent
    <2>1. pc[Ui] # "setHidden"
      BY ThreadsNumbered
    <2>2. visible <=> onScreen
      BY <2>1 DEF AlertInv
    <2> QED
      BY <2>2 DEF TypeOK
  <1> QED
    BY <1>1, ClientInvariants, PTL

(* When all threads are done the user sees a button to reconnect, but after   *)
(* "ok", after an attempt that failed without an event, and after a touch    *)
(* that found a show() between its test and its last step.                   *)
THEOREM ReconnectOffered == Spec => []WayBack
  <1>1. Inv => WayBack
    <2> SUFFICES ASSUME WayInv, alive, Settled, ~ crossed, ~ silent, ~ dismissed
                 PROVE  onScreen /\ entries > 0
      BY DEF Inv, WayBack
    <2>1. \A t \in Thread : pc[t] \in {"idle", "none", "done"}
      BY ThreadsNumbered DEF Settled
    <2>2. \A t \in Thread : ~ Due(t)
      BY <2>1 DEF Due, ConnectStates, HideStates
    <2> QED
      BY <2>1, <2>2 DEF WayInv, Offered
  <1> QED
    BY <1>1, ClientInvariants, PTL
=============================================================================
