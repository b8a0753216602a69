--------------------------- MODULE KnxConnection ---------------------------
(***************************************************************************)
(* The tunnel between the server program and the KNX/IP router:            *)
(* server/src/knx/KnxConnection.cpp with the packet classes it sends and   *)
(* parses, driven the way server/src/main.cpp drives it.                   *)
(*                                                                         *)
(* Three threads share one KnxConnection object without a lock:            *)
(*   main     connect(), later disconnect() and waitDisconnectFinished();  *)
(*   receive  thread_receive / receiveLoop, created by a successful        *)
(*            connect();                                                   *)
(*   home     the receive thread of home::Server, which sends a            *)
(*            TunnelingRequest for every packet of a client.               *)
(* An action is the code of one thread between two accesses to what the    *)
(* threads share: `connected', `sock', `chanelId' and the socket itself.   *)
(*                                                                         *)
(* The router and the network are external.  The network is UDP: it loses, *)
(* duplicates (both counted by `faults') and reorders datagrams.  A        *)
(* network is a set of datagrams, so two equal datagrams in flight count   *)
(* as one.                                                                 *)
(***************************************************************************)
EXTENDS KnxIp, Sequences, FiniteSets

CONSTANTS
    Channel,        \* the channel ids the router has to give
    StaleSessions,  \* channels the router still holds open from an earlier
                    \* run of the server: the program always binds one port
    UninitBytes,    \* stand-ins for the content of uninitialised memory
    SeqMod,         \* values of the sequence counter on the wire: 256
    MaxTelegrams,   \* bound: telegrams the router tunnels to the server
    MaxSends,       \* bound: telegrams the home thread sends
    MaxFaults       \* bound: datagrams the network loses or duplicates

ASSUME ChannelAssumption == Channel \subseteq 1..255
ASSUME StaleAssumption   == StaleSessions \subseteq Channel
ASSUME UninitAssumption  == UninitBytes \subseteq Byte /\ UninitBytes # {}
ASSUME SeqModAssumption  == SeqMod \in 1..256
ASSUME BoundsAssumption  == /\ MaxTelegrams \in Nat
                            /\ MaxSends \in Nat
                            /\ MaxFaults \in Nat

VARIABLES
    mainPc,         \* control state of the main thread
    connectResult,  \* what connect() returned, "pending" until it did
    recvPc,         \* control state of the receive thread
    homePc,         \* control state of the home thread
    homePacket,     \* bytes of the request the home thread is sending
    alive,          \* FALSE once undefined behaviour killed the process
    connected,      \* KnxConnection::connected
    sock,           \* KnxConnection::sock: no socket yet, open or closed
    chanelId,       \* KnxConnection::chanelId
    counter,        \* TunnelingRequest::counter
    toRouter,       \* datagrams in flight to the router
    toClient,       \* datagrams in flight to the server
    sessions,       \* channels open at the router
    telegrams,      \* number of telegrams the router has tunnelled
    faults,         \* number of datagrams lost or duplicated
    attempted,      \* history: counter byte of each request handed to sendto
    delivered,      \* history: calls of onReceivePackerFunc
    acked,          \* history: tunnelling responses sent
    notified        \* history: calls of onDisconnectFunc

mainVars    == <<mainPc, connectResult>>
homeVars    == <<homePc, homePacket, counter, attempted>>
routerVars  == <<sessions, telegrams>>
netVars     == <<toRouter, toClient, faults>>
historyVars == <<delivered, acked, notified>>
vars == <<mainVars, recvPc, homeVars, alive, connected, sock, chanelId,
          netVars, routerVars, historyVars>>
----------------------------------------------------------------------------
MainPc == {"connectServer", "connectionRequest", "connectionResponse",
           "stateRequest", "stateResponse", "disconnect", "join", "joined"}
RecvPc == {"none", "test", "receive", "deliver", "ack",
           "answer", "stop", "close", "notify", "exited"}

TypeOK ==
    /\ mainPc \in MainPc
    /\ connectResult \in {"pending", "true", "false"}
    /\ recvPc \in RecvPc
    /\ homePc \in {"idle", "filled"}
    /\ homePacket \in Datagram
    /\ alive \in BOOLEAN
    /\ connected \in BOOLEAN
    /\ sock \in {"none", "open", "closed"}
    /\ chanelId \in Byte
    /\ counter \in Nat
    /\ toRouter \subseteq Datagram
    /\ toClient \subseteq Datagram
    /\ sessions \subseteq Channel
    /\ telegrams \in Nat
    /\ faults \in Nat
    /\ attempted \in Seq(Byte)
    /\ delivered \in Nat
    /\ acked \in Nat
    /\ notified \in Nat

(* The constructor of KnxConnection sets only connected; chanelId is        *)
(* whatever the heap held.                                                 *)
Init ==
    /\ mainPc = "connectServer"
    /\ connectResult = "pending"
    /\ recvPc = "none"
    /\ homePc = "idle"
    /\ homePacket = [type |-> "TunnelingRequest", chan |-> 0, num |-> 0]
    /\ alive = TRUE
    /\ connected = FALSE
    /\ sock = "none"
    /\ chanelId \in UninitBytes
    /\ counter = 0
    /\ toRouter = {}
    /\ toClient = {}
    /\ sessions = StaleSessions
    /\ telegrams = 0
    /\ faults = 0
    /\ attempted = <<>>
    /\ delivered = 0
    /\ acked = 0
    /\ notified = 0
----------------------------------------------------------------------------
(* Mutant of SendBytes: nothing is sent before connect() has succeeded.     *)
SendBytesWhenConnected(d) ==
    toRouter' = IF connected THEN toRouter \union {d} ELSE toRouter

(* sendBytes: sendto on the socket.  On a closed or missing descriptor it   *)
(* fails, is logged, and no caller looks at the result.                    *)
SendBytes(d) ==
    toRouter' = IF sock = "open" THEN toRouter \union {d} ELSE toRouter

(* receiveBytes: recvfrom blocks (there is no receive timeout) until some   *)
(* datagram arrives, which the network may deliver once more later.        *)
ReceiveBytes(d) ==
    /\ sock = "open"
    /\ d \in toClient
    /\ \/ toClient' = toClient \ {d} /\ UNCHANGED faults
       \/ /\ faults < MaxFaults
          /\ faults' = faults + 1
          /\ UNCHANGED toClient

----------------------------------------------------------------------------
(* Main thread: connect() is connectServer(), connectionRequest() and       *)
(* connectionStateRequest(), each of which makes connect() return false     *)
(* when it fails.  main() ignores the result.                              *)

ConnectReturns(result) ==
    /\ mainPc' = "disconnect"
    /\ connectResult' = result

ConnectServer ==
    /\ alive
    /\ mainPc = "connectServer"
    /\ \/ sock' = "open" /\ mainPc' = "connectionRequest"
                         /\ UNCHANGED connectResult
       \/ sock' = "none" /\ ConnectReturns("false")  \* gethostbyname, socket
       \/ sock' = "open" /\ ConnectReturns("false")  \* bind
    /\ UNCHANGED <<recvPc, homeVars, alive, connected, chanelId, netVars,
                   routerVars, historyVars>>

SendConnectionRequest ==
    /\ alive
    /\ mainPc = "connectionRequest"
    /\ SendBytes([type |-> "ConnectionRequest", chan |-> 0, num |-> 0])
    /\ mainPc' = "connectionResponse"
    /\ UNCHANGED <<connectResult, recvPc, homeVars, alive, connected, sock,
                   chanelId, toClient, faults, routerVars, historyVars>>

(* The channel id is taken from byte 6 before the answer is looked at.      *)
ConnectionAccepted(d) == Byte7(d) = NoError /\ d.type = "ConnectionResponse"

ReceiveConnectionResponse ==
    /\ alive
    /\ mainPc = "connectionResponse"
    /\ \E d \in toClient :
          /\ ReceiveBytes(d)
          /\ chanelId' = Byte6(d)
          /\ IF ConnectionAccepted(d)
             THEN mainPc' = "stateRequest" /\ UNCHANGED connectResult
             ELSE ConnectReturns("false")
    /\ UNCHANGED <<recvPc, homeVars, alive, connected, sock, toRouter,
                   routerVars, historyVars>>

SendConnectionStateRequest ==
    /\ alive
    /\ mainPc = "stateRequest"
    /\ SendBytes([type |-> "ConnectionStateRequest", chan |-> chanelId,
                  num |-> 0])
    /\ mainPc' = "stateResponse"
    /\ UNCHANGED <<connectResult, recvPc, homeVars, alive, connected, sock,
                   chanelId, toClient, faults, routerVars, historyVars>>

(* Mutant of StateConfirmed: looks at the status byte only.                 *)
StateConfirmedByStatus(d) == Byte7(d) = NoError

StateConfirmed(d) == Byte7(d) = NoError /\ d.type = "ConnectionStateResponse"

(* pthread_create may fail; connected is TRUE and connect() returns true    *)
(* all the same.                                                           *)
StartReceiveThread == recvPc' \in {"test", "none"}

ReceiveConnectionStateResponse ==
    /\ alive
    /\ mainPc = "stateResponse"
    /\ \E d \in toClient :
          /\ ReceiveBytes(d)
          /\ IF StateConfirmed(d)
             THEN /\ connected' = TRUE
                  /\ StartReceiveThread
                  /\ ConnectReturns("true")
             ELSE /\ ConnectReturns("false")
                  /\ UNCHANGED <<connected, recvPc>>
    /\ UNCHANGED <<homeVars, alive, sock, chanelId, toRouter, routerVars,
                   historyVars>>

(* disconnect() only sends the request.  Reading chanelId and sendto are    *)
(* one step here: a datagram sent later with an older id is one that the    *)
(* network delayed.                                                        *)
Disconnect ==
    /\ alive
    /\ mainPc = "disconnect"
    /\ SendBytes([type |-> "DisconnectRequest", chan |-> chanelId, num |-> 0])
    /\ mainPc' = "join"
    /\ UNCHANGED <<connectResult, recvPc, homeVars, alive, connected, sock,
                   chanelId, toClient, faults, routerVars, historyVars>>

(* waitDisconnectFinished() joins the receive thread.  Without one,         *)
(* thread_receive_id was never written: pthread_join returns an error or    *)
(* crashes.                                                                *)
WaitDisconnectFinished ==
    /\ alive
    /\ mainPc = "join"
    /\ \/ recvPc = "exited" /\ mainPc' = "joined" /\ UNCHANGED alive
       \/ recvPc = "none"   /\ mainPc' = "joined" /\ UNCHANGED alive
       \/ recvPc = "none"   /\ alive' = FALSE     /\ UNCHANGED mainPc
    /\ UNCHANGED <<connectResult, recvPc, homeVars, connected, sock, chanelId,
                   netVars, routerVars, historyVars>>
----------------------------------------------------------------------------
(* Receive thread.                                                         *)

TestConnected ==
    /\ alive
    /\ recvPc = "test"
    /\ recvPc' = IF connected THEN "receive" ELSE "exited"
    /\ UNCHANGED <<mainVars, homeVars, alive, connected, sock, chanelId,
                   netVars, routerVars, historyVars>>

(* Mutants of Branch: the answer to a disconnect is ignored; a disconnect   *)
(* request is announced but does not stop the loop.                        *)
BranchIgnoresResponse(d) ==
    CASE d.type = "TunnelingRequest"  -> "deliver"
      [] d.type = "DisconnectRequest" -> "answer"
      [] OTHER                        -> "test"
BranchOnlyNotifies(d) ==
    CASE d.type = "TunnelingRequest"   -> "deliver"
      [] d.type = "DisconnectRequest"  -> "notify"
      [] d.type = "DisconnectResponse" -> "stop"
      [] OTHER                         -> "test"

(* Where receiveLoop's switch goes.                                        *)
Branch(d) == CASE d.type = "TunnelingRequest"   -> "deliver"
               [] d.type = "DisconnectRequest"  -> "answer"
               [] d.type = "DisconnectResponse" -> "stop"
               [] OTHER                         -> "test"

(* receiveBytes, then KnxPacket::getPacket, whose constructors already      *)
(* write chanelId.                                                         *)
Receive ==
    /\ alive
    /\ recvPc = "receive"
    /\ \E d \in toClient :
          /\ d.type \in KnownType
          /\ ReceiveBytes(d)
          /\ chanelId' = ChanelIdFromBytes(d, chanelId)
          /\ recvPc' = Branch(d)
    /\ UNCHANGED <<mainVars, homeVars, alive, connected, sock, toRouter,
                   routerVars, historyVars>>

(* getPacket returns no value for a type without a class: the call          *)
(* packet->getType() goes through an arbitrary pointer.  It crashes, or     *)
(* reads a number that matches no case.                                    *)
ReceiveUnknown ==
    /\ alive
    /\ recvPc = "receive"
    /\ \E d \in toClient : d.type \notin KnownType /\ ReceiveBytes(d)
    /\ \/ recvPc' = "test"   /\ UNCHANGED alive
       \/ alive' = FALSE     /\ UNCHANGED recvPc
    /\ UNCHANGED <<mainVars, homeVars, connected, sock, chanelId, toRouter,
                   routerVars, historyVars>>

(* onReceivePackerFunc(r)                                                  *)
Deliver ==
    /\ alive
    /\ recvPc = "deliver"
    /\ delivered' = delivered + 1
    /\ recvPc' = "ack"
    /\ UNCHANGED <<mainVars, homeVars, alive, connected, sock, chanelId,
                   netVars, routerVars, acked, notified>>

(* TunnelingResponse(this).send(): the answer copies the current chanelId,  *)
(* and byte 8 is the constant 1, whatever counter the request carried.      *)
Acknowledge ==
    /\ alive
    /\ recvPc = "ack"
    /\ SendBytes([type |-> "TunnelingResponse", chan |-> chanelId, num |-> 1])
    /\ acked' = acked + 1
    /\ recvPc' = "test"
    /\ UNCHANGED <<mainVars, homeVars, alive, connected, sock, chanelId,
                   toClient, faults, routerVars, delivered, notified>>

(* DisconnectRespose::toBytes puts conHeaderLenght, which nobody set, into  *)
(* byte 6 and the channel into byte 7.                                     *)
AnswerDisconnect ==
    /\ alive
    /\ recvPc = "answer"
    /\ \E b \in UninitBytes :
          SendBytes([type |-> "DisconnectResponse", chan |-> b,
                     num |-> chanelId])
    /\ recvPc' = "stop"
    /\ UNCHANGED <<mainVars, homeVars, alive, connected, sock, chanelId,
                   toClient, faults, routerVars, historyVars>>

StopLoop ==
    /\ alive
    /\ recvPc = "stop"
    /\ connected' = FALSE
    /\ recvPc' = "close"
    /\ UNCHANGED <<mainVars, homeVars, alive, sock, chanelId, netVars,
                   routerVars, historyVars>>

CloseSocket ==
    /\ alive
    /\ recvPc = "close"
    /\ sock' = "closed"
    /\ recvPc' = "notify"
    /\ UNCHANGED <<mainVars, homeVars, alive, connected, chanelId, netVars,
                   routerVars, historyVars>>

(* onDisconnectFunc()                                                      *)
NotifyDisconnect ==
    /\ alive
    /\ recvPc = "notify"
    /\ notified' = notified + 1
    /\ recvPc' = "test"
    /\ UNCHANGED <<mainVars, homeVars, alive, connected, sock, chanelId,
                   netVars, routerVars, delivered, acked>>
----------------------------------------------------------------------------
(* Home thread: TunnelingRequest::send() for a client's packet, at any time *)
(* after connect() returned, whatever it returned and whatever became of    *)
(* the connection.  toBytes reads counter and chanelId, sendto comes later, *)
(* then the counter advances whether sendto worked or not.                  *)

FillTunnelingRequest ==
    /\ alive
    /\ homePc = "idle"
    /\ connectResult # "pending"
    /\ counter < MaxSends
    /\ homePacket' = [type |-> "TunnelingRequest", chan |-> chanelId,
                      num |-> counter % SeqMod]
    /\ homePc' = "filled"
    /\ UNCHANGED <<mainVars, recvPc, counter, attempted, alive, connected,
                   sock, chanelId, netVars, routerVars, historyVars>>

(* Mutant of NextCounter: advances only while the socket is open.          *)
NextCounterIfOpen == IF sock = "open" THEN counter + 1 ELSE counter

NextCounter == counter + 1

SendTunnelingRequest ==
    /\ alive
    /\ homePc = "filled"
    /\ SendBytes(homePacket)
    /\ counter' = NextCounter
    /\ attempted' = Append(attempted, homePacket.num)
    /\ homePc' = "idle"
    /\ UNCHANGED <<mainVars, recvPc, homePacket, alive, connected, sock,
                   chanelId, toClient, faults, routerVars, historyVars>>
----------------------------------------------------------------------------
(* The router and the network (external).                                  *)

RouterReceives(d) ==
    /\ d \in toRouter
    /\ \/ toRouter' = toRouter \ {d} /\ UNCHANGED faults
       \/ /\ faults < MaxFaults
          /\ faults' = faults + 1
          /\ UNCHANGED toRouter

RouterSends(type, chan, num) ==
    toClient' = toClient \union {[type |-> type, chan |-> chan, num |-> num]}

clientVars == <<mainVars, recvPc, homeVars, alive, connected, sock, chanelId,
                historyVars>>

(* A session is given a free channel; without one it is refused.            *)
RouterConnect ==
    /\ \E d \in toRouter : /\ d.type = "ConnectionRequest"
                           /\ RouterReceives(d)
    /\ \/ \E c \in Channel \ sessions :
             /\ sessions' = sessions \union {c}
             /\ RouterSends("ConnectionResponse", c, NoError)
       \/ /\ RouterSends("ConnectionResponse", 0, NoConnections)
          /\ UNCHANGED sessions
    /\ UNCHANGED <<clientVars, telegrams>>

RouterConnectionState ==
    /\ \E d \in toRouter :
          /\ d.type = "ConnectionStateRequest"
          /\ RouterReceives(d)
          /\ RouterSends("ConnectionStateResponse", d.chan,
                         IF d.chan \in sessions THEN NoError
                                                ELSE NoSuchChannel)
    /\ UNCHANGED <<clientVars, routerVars>>

RouterDisconnected ==
    /\ \E d \in toRouter :
          /\ d.type = "DisconnectRequest"
          /\ RouterReceives(d)
          /\ RouterSends("DisconnectResponse", d.chan,
                         IF d.chan \in sessions THEN NoError
                                                ELSE NoSuchChannel)
          /\ sessions' = sessions \ {d.chan}
    /\ UNCHANGED <<clientVars, telegrams>>

(* The router acknowledges a telegram for the bus; it ignores responses.    *)
RouterTelegram ==
    /\ \E d \in toRouter :
          /\ d.type = "TunnelingRequest"
          /\ RouterReceives(d)
          /\ RouterSends("TunnelingResponse", d.chan, d.num)
    /\ UNCHANGED <<clientVars, routerVars>>

RouterIgnores ==
    /\ \E d \in toRouter :
          /\ d.type \in {"TunnelingResponse", "DisconnectResponse"}
          /\ RouterReceives(d)
    /\ UNCHANGED <<clientVars, toClient, routerVars>>

(* A telegram from the bus.                                                *)
RouterTunnel ==
    /\ telegrams < MaxTelegrams
    /\ telegrams' = telegrams + 1
    /\ \E c \in sessions :
          RouterSends("TunnelingRequest", c, telegrams % SeqMod)
    /\ UNCHANGED <<clientVars, toRouter, faults, sessions>>

(* The router ends a session: it times out, because the server asks for the *)
(* connection state only once, or it restarts.                             *)
RouterDisconnect ==
    /\ \E c \in sessions : /\ sessions' = sessions \ {c}
                           /\ RouterSends("DisconnectRequest", c, 0)
    /\ UNCHANGED <<clientVars, toRouter, faults, telegrams>>

Lose ==
    /\ faults < MaxFaults
    /\ faults' = faults + 1
    /\ \/ \E d \in toRouter : toRouter' = toRouter \ {d} /\ UNCHANGED toClient
       \/ \E d \in toClient : toClient' = toClient \ {d} /\ UNCHANGED toRouter
    /\ UNCHANGED <<clientVars, routerVars>>
----------------------------------------------------------------------------
MainNext == \/ ConnectServer
            \/ SendConnectionRequest
            \/ ReceiveConnectionResponse
            \/ SendConnectionStateRequest
            \/ ReceiveConnectionStateResponse
            \/ Disconnect
            \/ WaitDisconnectFinished

RecvNext == \/ TestConnected
            \/ Receive
            \/ ReceiveUnknown
            \/ Deliver
            \/ Acknowledge
            \/ AnswerDisconnect
            \/ StopLoop
            \/ CloseSocket
            \/ NotifyDisconnect

HomeNext == FillTunnelingRequest \/ SendTunnelingRequest

RouterAnswers == RouterConnect \/ RouterConnectionState \/ RouterDisconnected

EnvNext == \/ RouterAnswers
           \/ RouterTelegram
           \/ RouterIgnores
           \/ RouterTunnel
           \/ RouterDisconnect
           \/ Lose

Next == MainNext \/ RecvNext \/ HomeNext \/ EnvNext

Spec == Init /\ [][Next]_vars

(* The three threads run, and a router that is up answers what reaches it.  *)
(* Nothing obliges the router to tunnel telegrams or to end a session, the  *)
(* home thread to have a packet, or the network to lose anything.          *)
Fairness == /\ WF_vars(MainNext)
            /\ WF_vars(RecvNext)
            /\ WF_vars(SendTunnelingRequest)
            /\ WF_vars(RouterConnect)
            /\ WF_vars(RouterConnectionState)
            /\ WF_vars(RouterDisconnected)

FairSpec == Spec /\ Fairness
----------------------------------------------------------------------------
(* Properties.                                                             *)

(* Nothing was lost or duplicated and the router held no session of an      *)
(* earlier run.                                                            *)
Undisturbed == faults = 0 /\ StaleSessions = {}

DisconnectPending ==
    \/ \E d \in toClient : d.type \in {"DisconnectRequest",
                                       "DisconnectResponse"}
    \/ recvPc \in {"answer", "stop"}

(* As long as the network is undisturbed, a connected server and the router *)
(* agree on the session and its channel, unless the news of its end is on   *)
(* the way or being handled: connect() never succeeds on a session that was *)
(* refused or is already over, and no packet the receive thread parses      *)
(* moves chanelId away from it.                                            *)
SessionAgreement ==
    Undisturbed /\ connected =>
        sessions = {chanelId} \/ DisconnectPending

(* Whatever the threads send after a successful connect() carries, as long  *)
(* as the router has the session, that session's channel, although all      *)
(* threads read chanelId while the receive thread writes it from every      *)
(* packet.                                                                 *)
OwnChannel ==
    Undisturbed /\ connectResult = "true" /\ sessions # {} =>
        \A d \in toRouter : d.type # "ConnectionRequest" => d.chan \in sessions

(* A server that disconnected in order leaves no session open at the        *)
(* router, whichever side asked first.                                     *)
DisconnectReleases ==
    Undisturbed /\ mainPc = "joined" /\ recvPc = "exited" => sessions = {}

(* When waitDisconnectFinished() returns to main, which then destroys the   *)
(* server, the tunnel is at rest: flag cleared, socket closed, the end      *)
(* announced once, every telegram answered.                                *)
JoinedMeansClosed ==
    mainPc = "joined" /\ recvPc # "none" =>
        ~connected /\ sock = "closed" /\ notified = 1 /\ acked = delivered

(* Requests less than a whole cycle of the counter apart never carry the    *)
(* same counter byte, also across failed sends and disconnects.            *)
NoSequenceReuse ==
    \A i, j \in DOMAIN attempted :
        i < j /\ j - i < SeqMod => attempted[i] # attempted[j]

(* The application is called with a telegram only while the connection is   *)
(* up, never after onDisconnect, and onDisconnect is called at most once.   *)
NoCallAfterEnd ==
    [][/\ delivered' # delivered => connected /\ notified = 0
       /\ notified' # notified => notified = 0]_vars

(* In an undisturbed network connect() returns, although it waits for       *)
(* answers without a timeout.                                              *)
ConnectReturned == <>(connectResult # "pending")

(* In an undisturbed network waitDisconnectFinished() returns whenever      *)
(* there is a receive thread, also when the disconnect requests of both     *)
(* sides cross.                                                            *)
DisconnectCompletes == mainPc = "join" /\ recvPc # "none" ~> mainPc = "joined"
----------------------------------------------------------------------------
(* Refinement of TunnelSession: the session is up from connect() returning  *)
(* true to the announcement of its end.                                    *)
phase == IF connectResult = "pending"    THEN "idle"
         ELSE IF connectResult = "false" THEN "failed"
         ELSE IF notified = 0            THEN "up"
         ELSE "ended"

Session == INSTANCE TunnelSession
           WITH phase <- phase, delivered <- delivered, acked <- acked

(* KnxConnection keeps what TunnelSession promises, whatever the network    *)
(* and the router do.                                                      *)
SessionSpec == Session!Spec
----------------------------------------------------------------------------
(* The inductive invariant: which states of the receive thread go with      *)
(* which values of the variables it shares.                                *)

Looping == {"receive", "deliver", "ack", "answer", "stop"}

(* The flag is TRUE exactly until the receive thread clears it.            *)
FlagInv ==
    /\ connected => connectResult = "true"
    /\ recvPc # "none" => connectResult = "true"
    /\ recvPc \in Looping => connected
    /\ recvPc \in {"close", "notify", "exited"} => ~connected

(* The socket is open until the receive thread closes it.                  *)
SocketInv ==
    /\ connected \/ recvPc = "close" => sock = "open"
    /\ recvPc \in {"notify", "exited"} => sock = "closed"
    /\ recvPc = "test" /\ ~connected => sock = "closed"

(* The end has been announced once the loop is left.                       *)
NotifyInv ==
    notified = IF recvPc = "exited" \/ (recvPc = "test" /\ ~connected)
               THEN 1 ELSE 0

(* At most the telegram in hand is unanswered.                             *)
AckInv == delivered = IF recvPc = "ack" THEN acked + 1 ELSE acked

(* The main thread waits for the receive thread.                           *)
MainInv ==
    /\ mainPc \in {"disconnect", "join", "joined"} <=>
           connectResult # "pending"
    /\ mainPc \in {"connectionRequest", "connectionResponse", "stateRequest",
                   "stateResponse"} => sock = "open"
    /\ mainPc = "joined" => recvPc \in {"exited", "none"}

(* The conjunction, which is inductive.                                    *)
TunnelInv == /\ TypeOK
             /\ FlagInv
             /\ SocketInv
             /\ NotifyInv
             /\ AckInv
             /\ MainInv
============================================================================
