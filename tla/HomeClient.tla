----------------------------- MODULE HomeClient -----------------------------
(***************************************************************************)
(* The app's side of the home protocol: home::Client with its receive      *)
(* threads (protocol/src/Client.cpp), the callbacks of the app that raise   *)
(* an alert and reconnect (client/src/main.cpp) and the alert itself        *)
(* (client/src/ui/Alert.cpp).                                              *)
(*                                                                         *)
(* connectToServer() runs in main once and in the thread of the user       *)
(* interface each time the user touches "Reconnect"; each success starts a  *)
(* receive thread.  All of them share one Client and one Alert without a    *)
(* lock.  Attempts to connect are numbered from 1; an attempt's number also *)
(* names the socket, the SSL object and the receive thread it creates.      *)
(***************************************************************************)
EXTENDS Integers, FiniteSets

CONSTANTS
    MaxSockets,   \* descriptors the process may have open
    MaxAttempts,  \* bound: attempts to connect
    MaxPackets    \* bound: packets from the server

ASSUME LimitAssumption ==
    MaxSockets \in Nat /\ MaxAttempts \in Nat /\ MaxPackets \in Nat

Attempt == 1 .. MaxAttempts
Main    == 0                  \* the thread that runs main()
Ui      == MaxAttempts + 1    \* the thread that handles touches
Thread  == Attempt \union {Main, Ui}

VARIABLES
    pc,         \* control state of each thread
    reading,    \* of each receive thread: the SSL object SSL_read() was given
    attempts,   \* attempts made
    ctx,        \* TRUE iff the SSL context of Client was created
    connected, sock, ssl,  \* fields of Client; 0 where none was created
    socket,     \* of each attempt: "none", "open" or "closed"
    object,     \* its SSL object: "none", "live" or "freed"
    link,       \* its connection: "none", "up", "closed" or "broken"
    inbox,      \* packets waiting in it
    sent,       \* packets the server sent
    visible,    \* Alert::visible
    onScreen,   \* TRUE iff rootBox is a child of rootView
    entries,    \* number of entries in entryBox, each with a button
    alive,      \* FALSE once the app crashed
    misused,    \* history: an SSL object was used that is not live
    loop,       \* history: of each receive thread, "running", "stopped" by its
                \* own disconnect(), or "outlived" that
    rushed,     \* history: a button was touched before a receive thread that
                \* was told to stop had left its loop
    crossed,    \* history: a button was touched while a show() was between
                \* its test of visible and its last step
    dismissed,  \* history: the last touch was on "ok"
    silent      \* history: an attempt failed without calling onDisconnectFunc

clientVars  == <<ctx, connected, sock, ssl>>
networkVars == <<link, inbox, sent>>
alertVars   == <<visible, onScreen, entries>>
touchVars   == <<rushed, crossed, dismissed>>
vars == <<pc, reading, attempts, clientVars, socket, object, networkVars,
          alertVars, alive, misused, loop, touchVars, silent>>
----------------------------------------------------------------------------
ConnectStates    == {"init", "socket", "connect", "sslNew", "sslConnect",
                     "setConnected", "startThread"}
DisconnectStates == {"stop", "free", "close", "event", "show", "addBox",
                     "setVisible"}
HideStates       == {"setHidden", "erase"}
ReceiveStates    == {"none", "test", "read", "blocked", "empty", "done"}

(* Every variable has its type.                                             *)
TypeOK ==
    /\ pc \in [Thread -> {"idle"} \union ConnectStates \union DisconnectStates
                             \union HideStates \union ReceiveStates]
    /\ reading \in [Attempt -> 0 .. MaxAttempts]
    /\ attempts \in 0 .. MaxAttempts
    /\ ctx \in BOOLEAN /\ connected \in BOOLEAN
    /\ sock \in 0 .. attempts /\ ssl \in 0 .. attempts
    /\ socket \in [0 .. MaxAttempts -> {"none", "open", "closed"}]
    /\ object \in [0 .. MaxAttempts -> {"none", "live", "freed"}]
    /\ link \in [0 .. MaxAttempts -> {"none", "up", "closed", "broken"}]
    /\ inbox \in [0 .. MaxAttempts -> 0 .. MaxPackets]
    /\ sent \in 0 .. MaxPackets
    /\ visible \in BOOLEAN /\ onScreen \in BOOLEAN
    /\ entries \in Nat
    /\ alive \in BOOLEAN /\ misused \in BOOLEAN
    /\ loop \in [Attempt -> {"running", "stopped", "outlived"}]
    /\ rushed \in BOOLEAN /\ crossed \in BOOLEAN
    /\ dismissed \in BOOLEAN /\ silent \in BOOLEAN

(* main has created the client.                                             *)
Init ==
    /\ pc = [t \in Thread |-> IF t = Main THEN "init"
                              ELSE IF t = Ui THEN "idle" ELSE "none"]
    /\ reading = [k \in Attempt |-> 0]
    /\ attempts = 0
    /\ ctx = FALSE /\ connected = FALSE /\ sock = 0 /\ ssl = 0
    /\ socket = [k \in 0 .. MaxAttempts |-> "none"]
    /\ object = [k \in 0 .. MaxAttempts |-> "none"]
    /\ link = [k \in 0 .. MaxAttempts |-> "none"]
    /\ inbox = [k \in 0 .. MaxAttempts |-> 0]
    /\ sent = 0
    /\ visible = FALSE /\ onScreen = FALSE /\ entries = 0
    /\ alive = TRUE
    /\ loop = [k \in Attempt |-> "running"]
    /\ misused = FALSE /\ rushed = FALSE /\ crossed = FALSE
    /\ dismissed = FALSE /\ silent = FALSE

At(t, state) == alive /\ pc[t] = state
Go(t, state) == pc' = [pc EXCEPT ![t] = state]
Goes(t, from, to) == At(t, from) /\ Go(t, to)
----------------------------------------------------------------------------
(* init() in main: SSL_CTX_new() fails where the library has no SSLv3 any    *)
(* more.  That is only logged.                                              *)
InitClient ==
    /\ Goes(Main, "init", "socket")
    /\ ctx' \in BOOLEAN
    /\ UNCHANGED <<reading, attempts, connected, sock, ssl, socket, object,
                   networkVars, alertVars, alive, misused, loop, touchVars,
                   silent>>

(* connectToServer(), in main or in the thread of the user interface.       *)

(* socket() fails when the process has no descriptor left.  Then the call   *)
(* returns without an event.                                               *)
OpenSocket(c) ==
    /\ At(c, "socket")
    /\ IF Cardinality({k \in Attempt : socket[k] = "open"}) < MaxSockets
       THEN /\ attempts < MaxAttempts
            /\ attempts' = attempts + 1
            /\ sock' = attempts + 1
            /\ socket' = [socket EXCEPT ![attempts + 1] = "open"]
            /\ Go(c, "connect")
            /\ UNCHANGED silent
       ELSE /\ sock' = 0
            /\ silent' = TRUE
            /\ Go(c, "idle")
            /\ UNCHANGED <<attempts, socket>>
    /\ UNCHANGED <<reading, ctx, connected, ssl, object, networkVars, alertVars,
                   alive, misused, loop, touchVars>>

ConnectSocket(c) ==
    /\ Goes(c, "connect", "sslNew")
    /\ link' = [link EXCEPT ![sock] = "up"]
    /\ UNCHANGED <<reading, attempts, clientVars, socket, object, inbox, sent,
                   alertVars, alive, misused, loop, touchVars, silent>>

(* Mutants of AfterRefusal: disconnect() is called, or nobody.               *)
DisconnectAfterRefusal == "stop"
SilenceAfterRefusal    == "idle"

AfterRefusal == "event"

(* Refused: onDisconnectFunc() is called, the socket stays open and the      *)
(* field ssl keeps what an earlier attempt left in it.                      *)
ConnectRefused(c) ==
    /\ Goes(c, "connect", AfterRefusal)
    /\ UNCHANGED <<reading, attempts, clientVars, socket, object, networkVars,
                   alertVars, alive, misused, loop, touchVars, silent>>

(* Without a context SSL_new() returns no object, and SSL_set_fd() crashes.   *)
SslNew(c) ==
    /\ Goes(c, "sslNew", "sslConnect")
    /\ IF ctx THEN /\ ssl' = sock
                   /\ object' = [object EXCEPT ![sock] = "live"]
                   /\ UNCHANGED alive
       ELSE alive' = FALSE /\ UNCHANGED <<ssl, object>>
    /\ UNCHANGED <<reading, attempts, ctx, connected, sock, socket, networkVars,
                   alertVars, misused, loop, touchVars, silent>>

(* A handshake that fails calls disconnect().  SSL_connect() may also return *)
(* 0, which is a failure the code takes for success: the connection is then  *)
(* one that breaks before anything is read.                                 *)
SslConnect(c) ==
    /\ \E next \in {"setConnected", "stop"} : Goes(c, "sslConnect", next)
    /\ UNCHANGED <<reading, attempts, clientVars, socket, object, networkVars,
                   alertVars, alive, misused, loop, touchVars, silent>>

SetConnected(c) ==
    /\ Goes(c, "setConnected", "startThread")
    /\ connected' = TRUE
    /\ UNCHANGED <<reading, attempts, ctx, sock, ssl, socket, object,
                   networkVars, alertVars, alive, misused, loop, touchVars,
                   silent>>

(* startReceiveThread(): a thread that cannot be created is only logged.     *)
StartReceiveThread(c) ==
    /\ At(c, "startThread")
    /\ \/ pc' = [pc EXCEPT ![c] = "idle", ![attempts] = "test"]
          /\ UNCHANGED silent
       \/ Go(c, "idle") /\ silent' = TRUE
    /\ UNCHANGED <<reading, attempts, clientVars, socket, object, networkVars,
                   alertVars, alive, misused, loop, touchVars>>
----------------------------------------------------------------------------
(* disconnect(), in a connecting or a receiving thread.  Each step works on  *)
(* the fields as they are when it is taken.                                 *)

StopLoop(t) ==
    /\ Goes(t, "stop", "free")
    /\ connected' = FALSE
    /\ loop' = [k \in Attempt |-> IF k = t /\ loop[k] = "running"
                                THEN "stopped" ELSE loop[k]]
    /\ UNCHANGED <<reading, attempts, ctx, sock, ssl, socket, object,
                   networkVars, alertVars, alive, misused, touchVars, silent>>

(* Freeing what is no live object is undefined: the app crashes or goes on.  *)
FreeSsl(t) ==
    /\ Goes(t, "free", "close")
    /\ \/ /\ object[ssl] = "live"
          /\ object' = [object EXCEPT ![ssl] = "freed"]
          /\ UNCHANGED <<misused, alive>>
       \/ /\ object[ssl] # "live"
          /\ misused' = TRUE
          /\ alive' \in BOOLEAN
          /\ UNCHANGED object
    /\ UNCHANGED <<reading, attempts, clientVars, socket, networkVars,
                   alertVars, loop, touchVars, silent>>

CloseSocket(t) ==
    /\ Goes(t, "close", "event")
    /\ socket' = [socket EXCEPT ![sock] = IF @ = "open" THEN "closed" ELSE @]
    /\ UNCHANGED <<reading, attempts, clientVars, object, networkVars,
                   alertVars, alive, misused, loop, touchVars, silent>>

(* onDisconnect() of the app: Alert::show() adds an entry with a button ...  *)
OnDisconnect(t) ==
    /\ Goes(t, "event", "show")
    /\ entries' = entries + 1
    /\ UNCHANGED <<reading, attempts, clientVars, socket, object, networkVars,
                   visible, onScreen, alive, misused, loop, touchVars,
                   silent>>

(* Where a thread goes on after onDisconnect().  receiveBytes() returns      *)
(* false at the end of the connection, and no value after an error: the     *)
(* buffer of zeros may then be taken for a packet.                          *)
AfterEvent(t) ==
    IF t \notin Attempt THEN {"idle"}
    ELSE IF link[reading[t]] = "closed" THEN {"test"}
    ELSE {"test", "empty"}

(* ... and puts the box on the screen if visible says that it is not there:  *)
(* the test, the change of the tree and that of the flag are three steps.    *)
Show(t) ==
    /\ At(t, "show")
    /\ \/ ~visible /\ Go(t, "addBox")
       \/ visible /\ \E next \in AfterEvent(t) : Go(t, next)
    /\ UNCHANGED <<reading, attempts, clientVars, socket, object, networkVars,
                   alertVars, alive, misused, loop, touchVars,
                   silent>>

AddBox(t) ==
    /\ Goes(t, "addBox", "setVisible")
    /\ onScreen' = TRUE
    /\ UNCHANGED <<reading, attempts, clientVars, socket, object, networkVars,
                   visible, entries, alive, misused, loop, touchVars, silent>>

SetVisible(t) ==
    /\ \E next \in AfterEvent(t) : Goes(t, "setVisible", next)
    /\ visible' = TRUE
    /\ UNCHANGED <<reading, attempts, clientVars, socket, object, networkVars,
                   onScreen, entries, alive, misused, loop, touchVars,
                   silent>>
----------------------------------------------------------------------------
(* thread_receive(), receiveLoop() and receiveBytes().                       *)

(* Mutant of LoopCondition: the loop does not look at the flag.              *)
LoopForever == TRUE

LoopCondition == connected

TestConnected(k) ==
    /\ Goes(k, "test", IF LoopCondition THEN "read" ELSE "done")
    /\ loop' = IF LoopCondition /\ loop[k] = "stopped"
               THEN [loop EXCEPT ![k] = "outlived"] ELSE loop
    /\ UNCHANGED <<reading, attempts, clientVars, socket, object, networkVars,
                   alertVars, alive, misused, touchVars, silent>>

(* SSL_read() is called with the object that the field names now.           *)
CallRead(k) ==
    /\ Goes(k, "read", "blocked")
    /\ reading' = [reading EXCEPT ![k] = ssl]
    /\ UNCHANGED <<attempts, clientVars, socket, object, networkVars,
                   alertVars, alive, misused, loop, touchVars, silent>>

ReadPacket(k) ==
    /\ Goes(k, "blocked", "test")
    /\ object[reading[k]] = "live" /\ inbox[reading[k]] > 0
    /\ inbox' = [inbox EXCEPT ![reading[k]] = @ - 1]
    /\ UNCHANGED <<reading, attempts, clientVars, socket, object, link, sent,
                   alertVars, alive, misused, loop, touchVars, silent>>

(* Mutant of AfterEnd: the end of the connection is taken for a packet.      *)
ReadOnAfterEnd == "test"

AfterEnd == "stop"

(* The server closed the connection or the connection broke: disconnect().   *)
ReadEnd(k) ==
    /\ Goes(k, "blocked", AfterEnd)
    /\ object[reading[k]] = "live" /\ inbox[reading[k]] = 0
    /\ link[reading[k]] # "up"
    /\ UNCHANGED <<reading, attempts, clientVars, socket, object, networkVars,
                   alertVars, alive, misused, loop, touchVars, silent>>

(* Reading from an object that was freed: a crash, a packet or an error.     *)
ReadFreed(k) ==
    /\ \E next \in {"test", "stop"} : Goes(k, "blocked", next)
    /\ object[reading[k]] # "live"
    /\ misused' = TRUE
    /\ alive' \in BOOLEAN
    /\ UNCHANGED <<reading, attempts, clientVars, socket, object, networkVars,
                   alertVars, loop, touchVars, silent>>

(* The buffer of zeros becomes a Packet that onReceive() casts to KnxPacket: *)
(* it reads behind the object, and crashes or shows some text.              *)
ReceiveEmpty(k) ==
    /\ Goes(k, "empty", "test")
    /\ alive' \in BOOLEAN
    /\ UNCHANGED <<reading, attempts, clientVars, socket, object, networkVars,
                   alertVars, misused, loop, touchVars, silent>>
----------------------------------------------------------------------------
(* The user and Alert::hide().                                              *)

(* A button of the alert can be touched as soon as it is on the screen.  Both *)
(* buttons call hide(), which first takes the box off the screen.           *)
Touch ==
    /\ At(Ui, "idle") /\ onScreen
    /\ Go(Ui, "setHidden")
    /\ onScreen' = FALSE
    /\ rushed' =
           (rushed \/ \E k \in Attempt : loop[k] = "stopped" /\ pc[k] # "done")
    /\ crossed' =
           (crossed \/ \E t \in Thread : pc[t] \in {"addBox", "setVisible"})
    /\ UNCHANGED <<reading, attempts, clientVars, socket, object, networkVars,
                   visible, entries, alive, misused, loop, silent>>

TouchOk == Touch /\ dismissed' = TRUE

TouchReconnect ==
    /\ entries > 0 /\ attempts < MaxAttempts
    /\ Touch /\ dismissed' = FALSE

(* Mutant of SetHidden: visible is not reset.                                *)
SetHiddenForgotten ==
    /\ Goes(Ui, "setHidden", "erase")
    /\ UNCHANGED <<reading, attempts, clientVars, socket, object, networkVars,
                   alertVars, alive, misused, loop, touchVars, silent>>

SetHidden ==
    /\ Goes(Ui, "setHidden", "erase")
    /\ visible' = FALSE
    /\ UNCHANGED <<reading, attempts, clientVars, socket, object, networkVars,
                   onScreen, entries, alive, misused, loop, touchVars,
                   silent>>

(* The loop of hide() advances its iterator twice, once in erase(it++) and   *)
(* once in the header: it erases every other entry.  When the last entry is  *)
(* erased the iterator steps over end() of the list to the first entry.      *)
Leftover[n \in Nat] ==
    IF n = 0 THEN 0 ELSE IF n % 2 = 0 THEN n \div 2 ELSE Leftover[n \div 2]

(* Mutant of Remaining: the loop erases one entry too many.                  *)
RemainingTooFew(n) == Leftover[n] - 1

Remaining(n) == Leftover[n]

EraseEntries ==
    /\ Goes(Ui, "erase", IF dismissed THEN "idle" ELSE "socket")
    /\ entries' = Remaining(entries)
    /\ UNCHANGED <<reading, attempts, clientVars, socket, object, networkVars,
                   visible, onScreen, alive, misused, loop, touchVars,
                   silent>>
----------------------------------------------------------------------------
(* The home server, which relays telegrams and goes away at any time.  What  *)
(* becomes of a connection the client has closed makes no difference.       *)

ServerSends(k) ==
    /\ alive /\ socket[k] = "open" /\ link[k] = "up" /\ sent < MaxPackets
    /\ inbox' = [inbox EXCEPT ![k] = @ + 1]
    /\ sent' = sent + 1
    /\ UNCHANGED <<pc, reading, attempts, clientVars, socket, object, link,
                   alertVars, alive, misused, loop, touchVars, silent>>

LinkEnds(k) ==
    /\ alive /\ socket[k] = "open" /\ link[k] = "up"
    /\ \E how \in {"closed", "broken"} : link' = [link EXCEPT ![k] = how]
    /\ UNCHANGED <<pc, reading, attempts, clientVars, socket, object, inbox,
                   sent, alertVars, alive, misused, loop, touchVars,
                   silent>>
----------------------------------------------------------------------------
Connect(c) ==
    \/ OpenSocket(c) \/ ConnectSocket(c) \/ ConnectRefused(c) \/ SslNew(c)
    \/ SslConnect(c) \/ SetConnected(c) \/ StartReceiveThread(c)

Disconnect(t) ==
    \/ StopLoop(t) \/ FreeSsl(t) \/ CloseSocket(t)
    \/ OnDisconnect(t) \/ Show(t) \/ AddBox(t) \/ SetVisible(t)

Receive(k) ==
    \/ TestConnected(k) \/ CallRead(k) \/ ReadPacket(k) \/ ReadEnd(k)
    \/ ReadFreed(k) \/ ReceiveEmpty(k)

Next ==
    \/ InitClient
    \/ \E c \in {Main, Ui} : Connect(c)
    \/ \E t \in Thread : Disconnect(t)
    \/ \E k \in Attempt : Receive(k) \/ ServerSends(k) \/ LinkEnds(k)
    \/ TouchOk \/ TouchReconnect \/ SetHidden \/ EraseEntries

(* The receive threads are scheduled; the user and the server need not act.  *)
Spec ==
    /\ Init /\ [][Next]_vars
    /\ \A k \in Attempt : WF_vars(Receive(k) \/ Disconnect(k))
----------------------------------------------------------------------------
(* disconnect() stops the receive loop it is called from, whenever the user   *)
(* reconnects: a thread that has been through disconnect() reads nothing any *)
(* more, so that there are never two threads that read one connection.      *)
LoopStops == \A k \in Attempt : loop[k] # "outlived"

(* It does if no button is touched while a receive thread that was told to    *)
(* stop is still on its way out of the loop.                                *)
LoopStopsInTime == LoopStops \/ rushed

(* No thread reads from or frees an SSL object that is not live, but for a    *)
(* receive thread that outlived its disconnect(): refused connections and    *)
(* failed handshakes, in whatever order, free each object once.             *)
SslUsedWhileAlive == misused => ~LoopStops

(* All threads of the client are done.                                      *)
Settled ==
    /\ pc[Main] = "idle" /\ pc[Ui] = "idle"
    /\ \A k \in Attempt : pc[k] \in {"none", "done"}

(* Then the user sees a button to reconnect, however the threads that show    *)
(* and hide the alert overlapped.  The code has three ways to lose it: "ok"   *)
(* hides it with the alert, an attempt whose socket() or pthread_create()    *)
(* fails returns without an event, and a touch that finds a show() between   *)
(* its test of visible and its last step may leave the flag wrong.           *)
WayBack ==
    alive /\ Settled =>
        (onScreen /\ entries > 0) \/ dismissed \/ silent \/ crossed

(* Alert::visible tells whether the box is on the screen, but for a show()    *)
(* or a hide() between its change of the tree and that of the flag, however  *)
(* these overlap.  The one exception is a touch that finds a show() between  *)
(* its test of visible and its last step: the flag may be wrong from then on. *)
AlertConsistent ==
    \/ visible = onScreen
    \/ \E t \in Thread : pc[t] \in {"setVisible", "setHidden"}
    \/ crossed

(* Once the server is gone, the thread that reads from it puts the alert on  *)
(* the screen, unless the app has crashed.  Nothing is said once a touch of   *)
(* one of the two kinds above has come: the flag may then be wrong, or two    *)
(* threads share one connection.                                            *)
LossNoticed ==
    \A k \in Attempt :
        link[k] # "up" /\ pc[k] \notin {"none", "done"}
            ~> onScreen \/ ~alive \/ crossed \/ rushed
=============================================================================
