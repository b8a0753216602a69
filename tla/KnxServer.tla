----------------------------- MODULE KnxServer -----------------------------
(***************************************************************************)
(* The server program, server/src/main.cpp: what joins the tunnel to the   *)
(* bus, the server of the apps and the database.                           *)
(*                                                                         *)
(* The tunnel takes part as the session it promises to be (TunnelSession,  *)
(* which KnxConnection implements); its receive thread runs onKnxReceive   *)
(* between handing over a telegram and answering it.  The home server takes *)
(* part as the list of clients it promises to keep (ClientList, which       *)
(* HomeServer implements); onKnxReceive reads it in the other thread,       *)
(* without a lock.  Save::init() (ServerStorage) runs before everything     *)
(* else and nothing reads the database afterwards.                         *)
(*                                                                         *)
(* A member of Client is one connection of an app, its Host and its node   *)
(* in the list.                                                            *)
(***************************************************************************)
EXTENDS Naturals, Sequences, FiniteSets, SequencesExt

CONSTANTS
    Client,        \* the connections apps make
    Nobody,        \* the position behind the last client
    MaxTelegrams,  \* bound: telegrams from the bus
    MaxPackets     \* bound: packets from the clients

ASSUME NobodyAssumption == Nobody \notin Client
ASSUME NameAssumption ==
    {"none", "knx", "free", "server", "used", "hostFreed", "freed"}
        \intersect (Client \union {Nobody}) = {}
ASSUME BoundsAssumption == MaxTelegrams \in Nat /\ MaxPackets \in Nat

VARIABLES
    savePc, inserts, transaction, work, disk, flawed,  \* the database
    phase, delivered, acked,  \* the session of the tunnel
    mainPc,    \* control state of main()
    server,    \* what the global `server' points to
    knxPc,     \* control state of the tunnel's receive thread
    at,        \* iterator of onKnxReceive: a client or Nobody
    homePc,    \* control state of the home server's receive thread
    leaver,    \* the client being removed
    hosts,     \* server->socksClients
    memory,    \* of each client: what became of its Host and list node;
               \* a client when that client's node took the memory
    app,       \* the app behind each connection
    knxFd,     \* who owns the descriptor stored in KnxConnection::sock
    alive,     \* FALSE once the process is gone
    packets,   \* number of packets from clients
    got,       \* history: clients the present telegram was sent to
    stayed,    \* history: clients on the list since it arrived
    removed,   \* history: a client was being removed since then
    strayed    \* history: clients into whose connection telegrams
               \* for the bus went

database == <<savePc, inserts, transaction, work, disk, flawed>>
session  == <<phase, delivered, acked>>
vars == <<database, session, mainPc, server, knxPc, at, homePc, leaver, hosts,
          memory, app, knxFd, alive, packets, got, stayed, removed, strayed>>

Session == INSTANCE TunnelSession
               WITH phase <- phase, delivered <- delivered, acked <- acked
List    == INSTANCE ClientList
               WITH NoClient <- Nobody,
                    gone <- {c \in Client : memory[c] \notin
                                                {"none", "used", "hostFreed"}}
Storage == INSTANCE ServerStorage
----------------------------------------------------------------------------
(* Every variable has its type; clients on the list have a node.            *)
TypeOK ==
    /\ Storage!StorageTypeOK
    /\ phase \in {"idle", "up", "failed", "ended"}
    /\ delivered \in Nat /\ acked \in 0 .. delivered
    /\ mainPc \in {"connect", "create", "init", "start", "disconnect", "join",
                   "destroy", "exit", "exited"}
    /\ server \in {"null", "created", "started", "destroyed"}
    /\ knxPc \in {"none", "receive", "forward", "send", "next", "ack",
                  "closed", "exited"}
    /\ at \in Client \union {Nobody}
    /\ homePc \in {"none", "loop", "erase"}
    /\ leaver \in Client \union {Nobody}
    /\ hosts \in Seq({c \in Client : memory[c] \in {"used", "hostFreed"}})
    /\ memory \in [Client -> {"none", "used", "hostFreed", "freed"} \union Client]
    /\ app \in [Client -> {"away", "up", "left"}]
    /\ knxFd \in {"none", "knx", "free", "server"} \union Client
    /\ alive \in BOOLEAN
    /\ packets \in Nat
    /\ got \subseteq Client /\ stayed \subseteq Client
    /\ removed \in BOOLEAN
    /\ strayed \subseteq Client

Init ==
    /\ Storage!Init /\ Session!Init
    /\ hosts = <<>>
    /\ mainPc = "connect"
    /\ server = "null"
    /\ knxPc = "none"
    /\ at = Nobody
    /\ homePc = "none"
    /\ leaver = Nobody
    /\ memory = [c \in Client |-> "none"]
    /\ app = [c \in Client |-> "away"]
    /\ knxFd = "none"
    /\ alive = TRUE
    /\ packets = 0
    /\ got = {}
    /\ stayed = {}
    /\ removed = FALSE
    /\ strayed = {}
----------------------------------------------------------------------------
telegramVars == <<got, stayed, removed>>
tunnelVars == <<session, knxPc, at, telegramVars>>
homeVars   == <<homePc, leaver, hosts, memory, app>>
mainVars   == <<mainPc, server>>

(* sendto() on the descriptor the tunnel has, or had.  When the number was  *)
(* closed or never opened the call fails; when the listening socket has it  *)
(* now the process is killed (SIGPIPE); when a client's connection has it   *)
(* the bytes go there, or kill the process if the app has left.             *)
SendToRouter ==
    \/ knxFd # "server" /\ UNCHANGED alive
    \/ /\ knxFd = "server" \/ knxFd \in {c \in Client : app[c] = "left"}
       /\ alive' = FALSE

(* Save::init(), during which the process may be killed and started again.  *)
InitStorage ==
    /\ alive
    /\ mainPc = "connect"
    /\ Storage!Next
    /\ UNCHANGED <<mainVars, tunnelVars, homeVars, knxFd, alive, packets,
                   strayed>>

(* No step of the program, but a reduction of the state space: nothing reads  *)
(* the database after Save::init(), and Save::close() commits nothing, so    *)
(* from here on its contents are not told apart.                            *)
ForgetDatabase ==
    /\ savePc = "filled"
    /\ inserts' = 0 /\ work' = 0 /\ disk' = 0 /\ flawed' = TRUE
    /\ UNCHANGED <<savePc, transaction>>

(* knx->connect(), whose result main ignores.  The receive thread, if it    *)
(* could be created, runs from here on.                                    *)
Connect ==
    /\ alive
    /\ mainPc = "connect"
    /\ ForgetDatabase
    /\ \/ Session!Open /\ knxPc' \in {"receive", "none"} /\ knxFd' = "knx"
       \/ Session!Fail /\ knxFd' \in {"knx", "none"} /\ UNCHANGED knxPc
    /\ mainPc' = "create"
    /\ UNCHANGED <<server, at, homeVars, alive, packets,
                   telegramVars, strayed>>

(* server = new home::Server(5049)                                         *)
Create ==
    /\ alive
    /\ mainPc = "create"
    /\ server' = "created"
    /\ mainPc' = "init"
    /\ UNCHANGED <<database, tunnelVars, homeVars, knxFd, alive, packets,
                   strayed>>

(* server->init() ends the process when it cannot load its certificates.    *)
InitHome ==
    /\ alive
    /\ mainPc = "init"
    /\ \/ mainPc' = "start" /\ UNCHANGED alive
       \/ alive' = FALSE /\ UNCHANGED mainPc
    /\ UNCHANGED <<database, tunnelVars, server, homeVars, knxFd, packets,
                   strayed>>

(* server->start(), whose result main ignores too.  The listening socket    *)
(* takes the lowest number, which is the tunnel's if that is closed.        *)
StartHome ==
    /\ alive
    /\ mainPc = "start"
    /\ \/ UNCHANGED <<server, homePc, knxFd>>
       \/ /\ knxFd' = IF knxFd = "free" THEN "server" ELSE knxFd
          /\ \/ UNCHANGED <<server, homePc>>
             \/ server' = "started" /\ homePc' \in {"loop", "none"}
    /\ mainPc' = "disconnect"
    /\ UNCHANGED <<database, tunnelVars, leaver, hosts, memory, app, alive,
                   packets, strayed>>

Disconnect ==
    /\ alive
    /\ mainPc = "disconnect"
    /\ SendToRouter
    /\ mainPc' = "join"
    /\ UNCHANGED <<database, tunnelVars, server, homeVars, knxFd, packets,
                   strayed>>

(* Mutant of Joinable: main does not wait for the receive thread.           *)
JoinableAtOnce == mainPc = "join"

Joinable == knxPc \in {"exited", "none"}

(* knx->waitDisconnectFinished(); see KnxConnection for the missing thread. *)
Join ==
    /\ alive
    /\ mainPc = "join"
    /\ \/ Joinable /\ mainPc' = "destroy" /\ UNCHANGED alive
       \/ knxPc = "none" /\ alive' = FALSE /\ UNCHANGED mainPc
    /\ UNCHANGED <<database, tunnelVars, server, homeVars, knxFd, packets,
                   strayed>>

(* server->~Server(): the listening socket is closed, the list destroyed.   *)
Destroy ==
    /\ alive
    /\ mainPc = "destroy"
    /\ server' = "destroyed"
    /\ knxFd' = IF knxFd = "server" THEN "free" ELSE knxFd
    /\ mainPc' = "exit"
    /\ UNCHANGED <<database, tunnelVars, homeVars, alive, packets, strayed>>

(* Save::close() and the end of main(), which ends all threads.             *)
Exit ==
    /\ alive
    /\ mainPc = "exit"
    /\ mainPc' = "exited"
    /\ alive' = FALSE
    /\ UNCHANGED <<database, tunnelVars, server, homeVars, knxFd, packets,
                   strayed>>
----------------------------------------------------------------------------
(* Receive thread of the tunnel.                                           *)

(* receiveLoop calls onKnxReceive, which converts the telegram.             *)
Receive ==
    /\ alive
    /\ knxPc = "receive"
    /\ delivered < MaxTelegrams
    /\ Session!Deliver
    /\ knxPc' = "forward"
    /\ stayed' = {c \in ToSet(hosts) : memory[c] = "used"}
    /\ removed' = (homePc = "erase")
    /\ got' = {}
    /\ UNCHANGED <<database, mainVars, at, homeVars, knxFd, alive, packets,
                   strayed>>

(* Where the walk begins.                                                   *)
First == IF hosts = <<>> THEN Nobody ELSE Head(hosts)

(* server->socksClients.begin(): a null pointer is dereferenced when main   *)
(* has not created the server yet.                                         *)
Begin ==
    /\ alive
    /\ knxPc = "forward"
    /\ IF server = "null"
       THEN alive' = FALSE /\ UNCHANGED <<knxPc, at>>
       ELSE /\ at' = First
            /\ knxPc' = IF First = Nobody THEN "ack" ELSE "send"
            /\ UNCHANGED alive
    /\ UNCHANGED <<database, mainVars, session, homeVars, knxFd, packets,
                   telegramVars, strayed>>

(* The client whose node is where c's was: the memory of a freed node can   *)
(* go to a client that is added later.                                     *)
Node(c) == IF memory[c] \in Client THEN memory[c] ELSE c

(* server->send(clientPacket, host).  The Host may have been freed: the     *)
(* process crashes, or nothing is sent.  Writing to an app that has left    *)
(* may kill the process (SIGPIPE).                                         *)
Send ==
    /\ alive
    /\ knxPc = "send"
    /\ \/ /\ got' = got \union {c \in {Node(at)} : memory[c] = "used"}
          /\ knxPc' = "next"
          /\ UNCHANGED alive
       \/ /\ memory[Node(at)] # "used" \/ app[Node(at)] = "left"
          /\ alive' = FALSE
          /\ UNCHANGED <<got, knxPc>>
    /\ UNCHANGED <<database, mainVars, session, at, homeVars, knxFd, packets,
                   stayed, removed, strayed>>

(* Mutants of After: a client is left out; the iterator stays.              *)
AfterNext(c) == LET i == CHOOSE i \in DOMAIN hosts : hosts[i] = c
                IN  IF i + 1 >= Len(hosts) THEN Nobody ELSE hosts[i + 2]
AfterStays(c) == c

(* The client behind c in the list.                                        *)
After(c) == LET i == CHOOSE i \in DOMAIN hosts : hosts[i] = c
            IN  IF i = Len(hosts) THEN Nobody ELSE hosts[i + 1]

(* ++iterator: a node that was freed and not used again has no successor    *)
(* any more, and the process crashes.                                      *)
Advance ==
    /\ alive
    /\ knxPc = "next"
    /\ IF memory[Node(at)] \in {"used", "hostFreed"}
       THEN /\ at' = After(Node(at))
            /\ knxPc' = IF After(Node(at)) = Nobody THEN "ack" ELSE "send"
            /\ UNCHANGED alive
       ELSE alive' = FALSE /\ UNCHANGED <<at, knxPc>>
    /\ UNCHANGED <<database, mainVars, session, homeVars, knxFd, packets,
                   telegramVars, strayed>>

(* onKnxReceive returns, the telegram is answered.                         *)
Acknowledge ==
    /\ alive
    /\ knxPc = "ack"
    /\ Session!Acknowledge
    /\ knxPc' = "receive"
    /\ got' = {} /\ stayed' = {} /\ removed' = FALSE
    /\ UNCHANGED <<database, mainVars, at, homeVars, knxFd, alive, packets,
                   strayed>>

(* The session ends on either side's wish: the socket is closed ...         *)
CloseSocket ==
    /\ alive
    /\ knxPc = "receive"
    /\ knxFd' = "free"
    /\ knxPc' = "closed"
    /\ UNCHANGED <<database, mainVars, session, at, homeVars, alive, packets,
                   telegramVars, strayed>>

(* ... and onDisconnect called, which only writes to the log.               *)
NotifyDisconnect ==
    /\ alive
    /\ knxPc = "closed"
    /\ Session!End
    /\ knxPc' = "exited"
    /\ UNCHANGED <<database, mainVars, at, homeVars, knxFd, alive, packets,
                   telegramVars, strayed>>
----------------------------------------------------------------------------
(* Receive thread of the home server.  ~Server() does not stop it: it goes   *)
(* on with the destroyed members, finding them as they were or crashing.    *)

HomeRuns == alive /\ homePc = "loop"

(* Mutant of Placed: the node is not taken into account.                    *)
NotPlaced(c, old) == [d \in Client |-> IF d # c /\ old \in {d, memory[d]}
                                       THEN c ELSE memory[d]]

(* The node of c is in fresh memory or in that of a freed node.             *)
Placed(c, old) == [d \in Client |-> IF d = c THEN "used"
                                    ELSE IF old \in {d, memory[d]} THEN c
                                    ELSE memory[d]]

(* accept() gives the lowest number: the tunnel's, once that is closed.  It  *)
(* fails when ~Server() has closed the listening socket.                    *)
AddClient(c) ==
    /\ HomeRuns
    /\ server = "started"
    /\ app[c] = "away"
    /\ app' = [app EXCEPT ![c] = "up"]
    /\ \E old \in {d \in Client : memory[d] = "freed"} \union {Nobody} :
          memory' = Placed(c, old)
    /\ List!Join(c)
    /\ knxFd' = IF knxFd = "free" THEN c ELSE knxFd
    /\ UNCHANGED <<database, mainVars, tunnelVars, homePc, leaver, alive,
                   packets, strayed>>

(* A packet of c is read.                                                   *)
ReadPacket(c) ==
    /\ HomeRuns
    /\ app[c] = "up"
    /\ packets < MaxPackets
    /\ packets' = packets + 1
    /\ UNCHANGED <<database, mainVars, tunnelVars, homeVars, knxFd>>

(* onHomeServerReceive: a TunnelingRequest for the bus.                     *)
ForwardToBus(c) ==
    /\ ReadPacket(c)
    /\ SendToRouter
    /\ strayed' = strayed \union ({knxFd} \intersect Client)

(* The factory returns no value for a device packet.  onHomeServerReceive    *)
(* takes what it finds instead for a packet to forward, or crashes over it. *)
UseNoPacket(c) ==
    /\ ReadPacket(c)
    /\ alive' = FALSE
    /\ UNCHANGED strayed

(* FD_SET of a descriptor outside the fd_set, which a client beyond          *)
(* FD_SETSIZE has and one whose accept() failed: a build that checks aborts. *)
(* Which descriptors the clients have is not modelled here.                 *)
OverflowFdSet ==
    /\ HomeRuns
    /\ hosts # <<>>
    /\ alive' = FALSE
    /\ UNCHANGED <<database, mainVars, tunnelVars, homeVars, knxFd, packets,
                   strayed>>

(* The list, its nodes and the TLS context are freed memory.                *)
UseDestroyed ==
    /\ alive
    /\ server = "destroyed" /\ homePc # "none"
    /\ alive' = FALSE
    /\ UNCHANGED <<database, mainVars, tunnelVars, homeVars, knxFd, packets,
                   strayed>>

(* Mutant of AtEnd: a client from which nothing could be read has left.     *)
AtEndOrIdle(c) == app[c] # "away"

AtEnd(c) == app[c] = "left"

(* SSL_read = 0: SSL_free, close, free of the Host ...                       *)
FreeHost(c) ==
    /\ HomeRuns
    /\ AtEnd(c)
    /\ memory[c] = "used"
    /\ memory' = [memory EXCEPT ![c] = "hostFreed"]
    /\ knxFd' = IF knxFd = c THEN "free" ELSE knxFd
    /\ leaver' = c
    /\ homePc' = "erase"
    /\ stayed' = stayed \ {c}
    /\ removed' = (acked < delivered)
    /\ UNCHANGED <<database, mainVars, session, knxPc, at, got, hosts, app,
                   alive, packets, strayed>>

(* Mutant of EraseNode: the node of the freed Host stays on the list.       *)
EraseForgotten ==
    /\ alive
    /\ homePc = "erase"
    /\ leaver' = Nobody
    /\ homePc' = "loop"
    /\ UNCHANGED <<database, mainVars, tunnelVars, hosts, memory, app, knxFd,
                   alive, packets, strayed>>

(* ... then the list lets go of the node.                                  *)
EraseNode ==
    /\ alive
    /\ homePc = "erase"
    /\ memory' = [memory EXCEPT ![leaver] = "freed"]
    /\ List!Leave(leaver)
    /\ leaver' = Nobody
    /\ homePc' = "loop"
    /\ UNCHANGED <<database, mainVars, tunnelVars, app, knxFd, alive, packets,
                   strayed>>

(* An app closes its connection, or loses it (external).                    *)
Leave(c) ==
    /\ alive
    /\ app[c] = "up"
    /\ app' = [app EXCEPT ![c] = "left"]
    /\ UNCHANGED <<database, mainVars, tunnelVars, homePc, leaver, hosts,
                   memory, knxFd, alive, packets, strayed>>
----------------------------------------------------------------------------
MainNext == \/ InitStorage
            \/ Connect
            \/ Create
            \/ InitHome
            \/ StartHome
            \/ Disconnect
            \/ Join
            \/ Destroy
            \/ Exit

KnxNext == \/ Receive
           \/ Begin
           \/ Send
           \/ Advance
           \/ Acknowledge
           \/ CloseSocket
           \/ NotifyDisconnect

HomeNext == \/ \E c \in Client : \/ AddClient(c) \/ ForwardToBus(c)
                                 \/ UseNoPacket(c) \/ FreeHost(c)
            \/ EraseNode
            \/ OverflowFdSet
            \/ UseDestroyed

Next == MainNext \/ KnxNext \/ HomeNext \/ \E c \in Client : Leave(c)

Spec == Init /\ [][Next]_vars

(* main, unless the process is killed, and the tunnel's receive thread run,  *)
(* and the session ends once main has asked for it                          *)
(* (KnxConnection!DisconnectCompletes).                                    *)
Fairness == /\ WF_vars(MainNext)
            /\ WF_vars(Begin \/ Send \/ Advance \/ Acknowledge)
            /\ WF_vars(mainPc = "join" /\ CloseSocket)
            /\ WF_vars(NotifyDisconnect)

FairSpec == Spec /\ Fairness
----------------------------------------------------------------------------
(* Properties.                                                             *)

(* main destroys the home server only when no telegram is in the hands of   *)
(* the tunnel's receive thread and none can come: onKnxReceive never finds  *)
(* a destroyed list.                                                       *)
NoCallOnDestroyed ==
    server = "destroyed" =>
        knxPc \in {"exited", "none"} /\ delivered = acked

(* A telegram is answered to the router only after it was sent to every     *)
(* client that was connected all the time, if no client was removed         *)
(* meanwhile; clients that join meanwhile do no harm.                       *)
ForwardedUnlessRemoved == knxPc = "ack" /\ ~removed => stayed \subseteq got

(* While a telegram is sent around, the tunnel's thread stands on a client   *)
(* that is on the list, with its Host, in a home server that exists; unless a *)
(* client was removed since the telegram came.  So a walk that uses freed    *)
(* memory has met a removal: clients that came and went before, joins during *)
(* the walk and the end of main() do no such harm.                          *)
WalkOnList ==
    knxPc \in {"send", "next"} /\ ~removed =>
        /\ server \in {"created", "started"}
        /\ at \in ToSet(hosts) /\ memory[at] = "used"

(* Storage!DataWhole: main connects only over a database that holds all      *)
(* entries, and a start that is cut short leaves all or none of them, unless *)
(* a statement failed.                                                      *)
DataWhole == mainPc = "connect" => Storage!DataWhole

(* "send to all clients" (main.cpp:175): every client that is connected     *)
(* from the arrival of a telegram to its answer is sent it.                 *)
ForwardedToAll == knxPc = "ack" => stayed \subseteq got

(* "send to knx bus" (main.cpp:205): what clients want sent to the bus goes *)
(* there or nowhere, never into an app's connection.                        *)
SentToBus == strayed = {}

(* The program shuts down: whatever telegrams and clients do meanwhile,     *)
(* join and the rest of main() are reached and the process ends.            *)
ShutdownCompletes == mainPc = "join" ~> ~alive
============================================================================
