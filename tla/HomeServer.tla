---------------------------- MODULE HomeServer -----------------------------
(***************************************************************************)
(* The server the apps connect to: protocol/src/Server.cpp.                *)
(*                                                                         *)
(* One thread runs receiveLoop: it waits in select() for the listening     *)
(* socket and the sockets of all clients, accepts one new client, and then *)
(* walks once through the list of clients and reads from those that are    *)
(* ready.  The main thread only initialises, starts and finally destroys   *)
(* the server.  TLS is kept to what the loop sees of it: whether the       *)
(* handshake succeeded, and what SSL_read returns.                         *)
(*                                                                         *)
(* Clients, TCP and the descriptor table of the process are external.  A   *)
(* member of Client is one connection of an app; an app that reconnects is *)
(* another member.                                                         *)
(***************************************************************************)
EXTENDS Integers, Sequences, FiniteSets, SequencesExt

CONSTANTS
    Client,          \* the connections apps make, in any order
    NoClient,        \* the peer of a Host whose accept() failed
    FirstFd,         \* lowest descriptor that is free when start() runs
    MaxFd,           \* highest descriptor the process may open
    FdSetSize,       \* FD_SETSIZE: an fd_set holds 0..FdSetSize-1
    MaxPackets,      \* bound: packets one client sends
    MaxAcceptErrors  \* bound: failing calls of accept()

ASSUME NoClientAssumption == NoClient \notin Client
ASSUME ReservedAssumption == {"free", "server"} \intersect Client = {}
ASSUME FdAssumption == FirstFd \in Nat /\ MaxFd \in Nat /\ FdSetSize \in Nat
ASSUME LimitAssumption == MaxPackets \in Nat /\ MaxAcceptErrors \in Nat

Fd    == FirstFd..MaxFd
NoFd  == -1   \* what accept() returns when it fails

(* struct Host: socket and SSL state; peer identifies the object.           *)
Host == [sock : Fd \union {NoFd}, ssl : {"ok", "failed"},
         peer : Client \union {NoClient}]

VARIABLES
    serverPc,      \* life of the Server object, driven by main
    homePc,        \* control state of the receive thread
    alive,         \* FALSE once the process aborted or exited
    connected,     \* Server::connected
    sockServer,    \* Server::sockServer
    sockMax,       \* Server::sockMax
    socksClients,  \* Server::socksClients
    socksAll,      \* Server::socksAll: requested before, ready after select
    cursor,        \* position of `current' in socksClients
    client,        \* result of accept(), local to receiveLoop
    file,          \* descriptor table: who is behind a descriptor
    conn,          \* TCP connection of each client
    health,        \* whether the client is up, has closed or was reset
    inbox,         \* packets of each client that wait to be read
    sent,          \* packets each client has sent
    received,      \* history: calls of onReceiveFunc for each client
    visited,       \* history: the clients the walk has been at
    acceptErrors   \* number of failed accept() calls

objectVars == <<connected, sockServer, sockMax, socksClients>>
loopVars   == <<homePc, socksAll, cursor, client>>
clientVars == <<conn, health, inbox, sent>>
historyVars == <<received, visited>>
vars == <<serverPc, alive, objectVars, loopVars, file, clientVars,
          historyVars, acceptErrors>>
----------------------------------------------------------------------------
TypeOK ==
    /\ serverPc \in {"new", "init", "started", "failed", "destroyed"}
    /\ homePc \in {"none", "test", "fill", "select", "accept", "handshake",
                   "scan", "exited"}
    /\ alive \in BOOLEAN
    /\ connected \in BOOLEAN
    /\ sockServer \in Fd \union {NoFd}
    /\ sockMax \in Fd \union {NoFd}
    /\ socksClients \in Seq(Host)
    /\ socksAll \subseteq Fd
    /\ cursor \in Nat
    /\ client \in Fd \union {NoFd}
    /\ file \in [Fd -> {"free", "server"} \union Client]
    /\ conn \in [Client -> {"away", "queued", "accepted", "closed"}]
    /\ health \in [Client -> {"up", "left", "reset"}]
    /\ inbox \in [Client -> Nat]
    /\ sent \in [Client -> Nat]
    /\ received \in [Client -> Nat]
    /\ visited \subseteq Client \union {NoClient}
    /\ acceptErrors \in Nat

Init ==
    /\ serverPc = "new"
    /\ homePc = "none"
    /\ alive = TRUE
    /\ connected = FALSE
    /\ sockServer = NoFd
    /\ sockMax = NoFd
    /\ socksClients = <<>>
    /\ socksAll = {}
    /\ cursor = 0
    /\ client = NoFd
    /\ file = [f \in Fd |-> "free"]
    /\ conn = [c \in Client |-> "away"]
    /\ health = [c \in Client |-> "up"]
    /\ inbox = [c \in Client |-> 0]
    /\ sent = [c \in Client |-> 0]
    /\ received = [c \in Client |-> 0]
    /\ visited = {}
    /\ acceptErrors = 0
----------------------------------------------------------------------------
(* Main thread.                                                            *)

(* init() exits the process when a certificate cannot be loaded.            *)
InitServer ==
    /\ alive
    /\ serverPc = "new"
    /\ \/ serverPc' = "init" /\ UNCHANGED alive
       \/ alive' = FALSE     /\ UNCHANGED serverPc
    /\ UNCHANGED <<objectVars, loopVars, file, clientVars, historyVars,
                   acceptErrors>>

FreeFds == {f \in Fd : file[f] = "free"}

(* socket() and accept() return the lowest free descriptor.                 *)
IsLowest(f, S) == f \in S /\ \A g \in S : f <= g

(* start(): false from socket(), or from bind() or listen() with the        *)
(* descriptor left open; otherwise connected, also when pthread_create has  *)
(* failed and there is no receive thread.                                  *)
Start ==
    /\ alive
    /\ serverPc = "init"
    /\ \/ /\ sockServer' = NoFd
          /\ serverPc' = "failed"
          /\ UNCHANGED <<connected, sockMax, homePc, file>>
       \/ /\ \E f \in Fd : /\ IsLowest(f, FreeFds)
                           /\ sockServer' = f
                           /\ file' = [file EXCEPT ![f] = "server"]
          /\ \/ /\ serverPc' = "failed"
                /\ UNCHANGED <<connected, sockMax, homePc>>
             \/ /\ serverPc' = "started"
                /\ sockMax' = sockServer'
                /\ connected' = TRUE
                /\ homePc' \in {"test", "none"}
    /\ UNCHANGED <<alive, socksClients, socksAll, cursor, client, clientVars,
                   historyVars, acceptErrors>>

(* ~Server() closes the listening socket, frees the TLS context and, with   *)
(* the other members, the list; the receive thread is neither told nor      *)
(* awaited.                                                                *)
Destroy ==
    /\ alive
    /\ serverPc \in {"started", "failed"}
    /\ serverPc' = "destroyed"
    /\ file' = [f \in Fd |-> IF f = sockServer THEN "free" ELSE file[f]]
    /\ UNCHANGED <<alive, objectVars, loopVars, clientVars, historyVars,
                   acceptErrors>>
----------------------------------------------------------------------------
(* Receive thread.                                                         *)

TestConnected ==
    /\ alive
    /\ homePc = "test"
    /\ homePc' = IF connected THEN "fill" ELSE "exited"
    /\ UNCHANGED <<serverPc, alive, objectVars, socksAll, cursor, client,
                   file, clientVars, historyVars, acceptErrors>>

ClientFds == {socksClients[i].sock : i \in DOMAIN socksClients}

(* FD_SET outside 0..FD_SETSIZE-1 writes outside of the fd_set: a build     *)
(* that checks aborts, another one goes on without the descriptor.         *)
OutsideFdSet(f) == f = NoFd \/ f >= FdSetSize

FillSocksAll ==
    /\ alive
    /\ homePc = "fill"
    /\ \/ /\ socksAll' = {f \in {sockServer} \union ClientFds :
                             ~OutsideFdSet(f)}
          /\ homePc' = "select"
          /\ UNCHANGED alive
       \/ /\ \E f \in {sockServer} \union ClientFds : OutsideFdSet(f)
          /\ alive' = FALSE
          /\ UNCHANGED <<socksAll, homePc>>
    /\ UNCHANGED <<serverPc, objectVars, cursor, client, file, clientVars,
                   historyVars, acceptErrors>>

(* What select() reports as readable: a connection to accept, data, the end *)
(* of the stream or an error.                                              *)
Readable(f) ==
    \/ file[f] = "server" /\ \E c \in Client : conn[c] = "queued"
    \/ file[f] \in Client /\ (inbox[file[f]] > 0 \/ health[file[f]] # "up")

(* select() looks at the descriptors up to sockMax.  It fails at once, and  *)
(* leaves socksAll as it was, when one of them is closed.                  *)
Select ==
    /\ alive
    /\ homePc = "select"
    /\ LET watched == {f \in socksAll : f <= sockMax}
           ready   == {f \in watched : Readable(f)}
       IN  IF \E f \in watched : file[f] = "free"
           THEN UNCHANGED socksAll
           ELSE ready # {} /\ socksAll' = ready
    /\ homePc' = IF sockServer \in socksAll' THEN "accept" ELSE "scan"
    /\ cursor' = 1
    /\ visited' = {}
    /\ UNCHANGED <<serverPc, alive, objectVars, client, file, clientVars,
                   received, acceptErrors>>

(* accept().  A failing call is logged and its result -1 is used like a     *)
(* descriptor.                                                             *)
Accept ==
    /\ alive
    /\ homePc = "accept"
    /\ \/ /\ file[sockServer] = "server"
          /\ \E c \in Client, f \in Fd :
                /\ conn[c] = "queued"
                /\ IsLowest(f, FreeFds)
                /\ conn' = [conn EXCEPT ![c] = "accepted"]
                /\ file' = [file EXCEPT ![f] = c]
                /\ client' = f
          /\ UNCHANGED acceptErrors
       \/ /\ acceptErrors < MaxAcceptErrors
          /\ acceptErrors' = acceptErrors + 1
          /\ client' = NoFd
          /\ UNCHANGED <<conn, file>>
    /\ homePc' = "handshake"
    /\ UNCHANGED <<serverPc, alive, objectVars, socksAll, cursor, health,
                   inbox, sent, historyVars>>

(* Mutant of LargerSock: the maximum is taken over by the last client.      *)
LastSock(f) == f

LargerSock(f) == IF f > sockMax THEN f ELSE sockMax

(* socksClients.push_back(new Host(...)), then the update of sockMax.       *)
AddHost(ssl, peer) ==
    /\ socksClients' = Append(socksClients, [sock |-> client, ssl |-> ssl,
                                             peer |-> peer])
    /\ sockMax' = LargerSock(client)

(* SSL_accept() blocks until the client has completed the handshake, or     *)
(* fails; the client is added to the list in every case.                   *)
Handshake ==
    /\ alive
    /\ homePc = "handshake"
    /\ \/ client = NoFd /\ AddHost("failed", NoClient)
       \/ client # NoFd /\ AddHost("failed", file[client])
       \/ /\ client # NoFd
          /\ health[file[client]] = "up"
          /\ AddHost("ok", file[client])
    /\ homePc' = "scan"
    /\ UNCHANGED <<serverPc, alive, connected, sockServer, socksAll, cursor,
                   client, file, clientVars, historyVars, acceptErrors>>

(* Mutant of IsReady: every client is taken to be ready.                    *)
AssumeReady(h) == h.sock # NoFd

(* The walk through the list: one step per client.                          *)
current == socksClients[cursor]

Scanning == alive /\ homePc = "scan" /\ cursor <= Len(socksClients)

IsReady(h) == h.sock \in socksAll

Skip ==
    /\ Scanning
    /\ ~IsReady(current)
    /\ cursor' = cursor + 1
    /\ visited' = visited \union {current.peer}
    /\ UNCHANGED <<serverPc, alive, objectVars, homePc, socksAll, client,
                   file, clientVars, received, acceptErrors>>

(* SSL_read returns a packet; the application is called with it.            *)
ReadPacket ==
    /\ Scanning
    /\ IsReady(current)
    /\ current.ssl = "ok"
    /\ inbox[current.peer] > 0
    /\ inbox' = [inbox EXCEPT ![current.peer] = @ - 1]
    /\ received' = [received EXCEPT ![current.peer] = @ + 1]
    /\ cursor' = cursor + 1
    /\ visited' = visited \union {current.peer}
    /\ UNCHANGED <<serverPc, alive, objectVars, homePc, socksAll, client,
                   file, conn, health, sent, acceptErrors>>

(* SSL_read < 0: always after a failed handshake, and once after a reset,   *)
(* which the next read reports as the end of the stream.                   *)
ReadError ==
    /\ Scanning
    /\ IsReady(current)
    /\ \/ current.ssl = "failed" /\ UNCHANGED health
       \/ /\ current.ssl = "ok"
          /\ inbox[current.peer] = 0
          /\ health[current.peer] = "reset"
          /\ health' = [health EXCEPT ![current.peer] = "left"]
    /\ cursor' = cursor + 1
    /\ visited' = visited \union {current.peer}
    /\ UNCHANGED <<serverPc, alive, objectVars, homePc, socksAll, client,
                   file, conn, inbox, sent, received, acceptErrors>>

(* Mutants of Erase: the list keeps the Host; the first one goes.           *)
EraseNothing(i) == socksClients
EraseFirst(i) == RemoveAt(socksClients, 1)

(* socksClients.erase() at position i.                                     *)
Erase(i) == RemoveAt(socksClients, i)

(* SSL_read = 0: close, free and erase; erase(current++) leaves `current'   *)
(* on the next client, which moves up to this position.                    *)
RemoveClient ==
    /\ Scanning
    /\ IsReady(current)
    /\ current.ssl = "ok"
    /\ inbox[current.peer] = 0
    /\ health[current.peer] = "left"
    /\ file' = [file EXCEPT ![current.sock] = "free"]
    /\ conn' = [conn EXCEPT ![current.peer] = "closed"]
    /\ socksClients' = Erase(cursor)
    /\ UNCHANGED <<serverPc, alive, connected, sockServer, sockMax, loopVars,
                   health, inbox, sent, historyVars, acceptErrors>>

EndScan ==
    /\ alive
    /\ homePc = "scan"
    /\ cursor > Len(socksClients)
    /\ homePc' = "test"
    /\ UNCHANGED <<serverPc, alive, objectVars, socksAll, cursor, client,
                   file, clientVars, historyVars, acceptErrors>>

(* After the destructor the thread works on freed memory: the list, its     *)
(* nodes and the TLS context.  It crashes, or finds them as they were.      *)
UseDestroyed ==
    /\ alive
    /\ serverPc = "destroyed"
    /\ homePc \notin {"none", "exited"}
    /\ alive' = FALSE
    /\ UNCHANGED <<serverPc, objectVars, loopVars, file, clientVars,
                   historyVars, acceptErrors>>
----------------------------------------------------------------------------
(* Clients (external).                                                     *)

Secured(c) == \E i \in DOMAIN socksClients :
                 socksClients[i].peer = c /\ socksClients[i].ssl = "ok"

processVars == <<serverPc, alive, objectVars, loopVars, file, historyVars,
                 acceptErrors>>

ClientConnects(c) ==
    /\ serverPc = "started"
    /\ conn[c] = "away"
    /\ conn' = [conn EXCEPT ![c] = "queued"]
    /\ UNCHANGED <<processVars, health, inbox, sent>>

ClientSends(c) ==
    /\ Secured(c)
    /\ health[c] = "up"
    /\ sent[c] < MaxPackets
    /\ sent' = [sent EXCEPT ![c] = @ + 1]
    /\ inbox' = [inbox EXCEPT ![c] = @ + 1]
    /\ UNCHANGED <<processVars, conn, health>>

(* The app closes the connection, or the connection breaks.                 *)
ClientLeaves(c) ==
    /\ conn[c] \in {"queued", "accepted"}
    /\ health[c] = "up"
    /\ \E h \in {"left", "reset"} : health' = [health EXCEPT ![c] = h]
    /\ UNCHANGED <<processVars, conn, inbox, sent>>
----------------------------------------------------------------------------
MainNext == InitServer \/ Start \/ Destroy

Read == ReadPacket \/ ReadError \/ RemoveClient

HomeNext == \/ TestConnected
            \/ FillSocksAll
            \/ Select
            \/ Accept
            \/ Handshake
            \/ Skip
            \/ Read
            \/ EndScan
            \/ UseDestroyed

ClientNext == \E c \in Client : \/ ClientConnects(c)
                                \/ ClientSends(c)
                                \/ ClientLeaves(c)

Next == MainNext \/ HomeNext \/ ClientNext

Spec == Init /\ [][Next]_vars

(* The receive thread runs; in particular every client ends its handshake,  *)
(* for better or worse.  main starts the server; nothing obliges it to      *)
(* destroy it, nor a client to do anything else.                           *)
Fairness == WF_vars(HomeNext) /\ WF_vars(InitServer \/ Start)

FairSpec == Spec /\ Fairness
----------------------------------------------------------------------------
(* Properties.                                                             *)

(* select() is asked about every descriptor in the set: sockMax, which only *)
(* grows, covers the listening socket and all clients, also after clients   *)
(* were removed and their descriptors given to new ones.                   *)
SelectCoversAll ==
    homePc = "select" => \A f \in {sockServer} \union ClientFds : f <= sockMax

(* The list of clients and the descriptor table agree: a Host's socket is   *)
(* the connection it was made for, no two share one, and no connection is   *)
(* open without a Host, except the one being accepted.  So nothing is       *)
(* leaked, closed twice or closed under a client that reused a descriptor.  *)
HostsOwnSockets ==
    /\ \A i \in DOMAIN socksClients :
          socksClients[i].sock # NoFd =>
              file[socksClients[i].sock] = socksClients[i].peer
    /\ \A i, j \in DOMAIN socksClients :
          i # j /\ socksClients[i].sock # NoFd =>
              socksClients[i].sock # socksClients[j].sock
    /\ \A f \in Fd : file[f] \in Client =>
          f \in ClientFds \/ (homePc = "handshake" /\ f = client)

(* SSL_read is called on a socket only when it will not block: nobody else  *)
(* reads it, and a client accepted in the same round is not taken for one   *)
(* that select() reported.  Only the destructor, which makes select() fail, *)
(* breaks this.                                                            *)
ReadsDoNotBlock ==
    Scanning /\ IsReady(current) /\ serverPc # "destroyed" =>
        current.ssl = "failed" \/ Readable(current.sock)

(* A walk through the list looks at every client, although it erases        *)
(* clients on the way.                                                     *)
WalkSkipsNobody ==
    homePc = "scan" =>
        \A i \in DOMAIN socksClients :
            i < cursor => socksClients[i].peer \in visited

(* Every packet of a client whose handshake succeeded reaches the           *)
(* application, however busy the other clients are, as long as the process  *)
(* and the server object exist.                                            *)
PacketsReceived ==
    \A c \in Client, k \in 1..MaxPackets :
        sent[c] >= k ~> received[c] >= k \/ ~alive \/ serverPc = "destroyed"

(* What the list is to those who walk over it.                              *)
peers  == [i \in DOMAIN socksClients |-> socksClients[i].peer]
closed == {c \in Client : conn[c] = "closed"}

List == INSTANCE ClientList WITH hosts <- peers, gone <- closed

(* The list behaves as onKnxReceive expects (ClientList): clients join at    *)
(* its end, each once, leave one at a time, and never come back.            *)
ListSpec == List!Spec

(* A client whose handshake had succeeded is closed and removed from the    *)
(* list after it closed or lost its connection.                            *)
LeaversRemoved ==
    \A c \in Client :
        Secured(c) /\ health[c] # "up" ~>
            \/ conn[c] = "closed" /\ \A i \in DOMAIN socksClients :
                                       socksClients[i].peer # c
            \/ ~alive \/ serverPc = "destroyed"
----------------------------------------------------------------------------
(* The inductive invariant.                                                *)

(* The receive thread exists from a successful start() on; without it there *)
(* is no client.  The destructor takes the listening socket away for good.  *)
ServerInv ==
    /\ serverPc \in {"new", "init", "failed"} => homePc = "none"
    /\ homePc = "none" => /\ socksClients = <<>>
                          /\ \A f \in Fd : file[f] \notin Client
    /\ homePc # "none" =>
          /\ sockServer \in Fd /\ sockMax \in Fd /\ sockServer <= sockMax
          /\ file[sockServer] = IF serverPc = "started" THEN "server"
                                                        ELSE "free"

(* sockMax covers every client, not only while select() is called.          *)
MaxInv == \A i \in DOMAIN socksClients : socksClients[i].sock <= sockMax

(* One descriptor per open connection.                                     *)
FileInv ==
    /\ \A f \in Fd : file[f] \in Client => conn[file[f]] = "accepted"
    /\ \A f, g \in Fd : file[f] \in Client /\ file[f] = file[g] => f = g

(* A Host stands for the connection behind its socket, or for none.         *)
HostInv ==
    /\ \A i \in DOMAIN socksClients :
          IF socksClients[i].sock = NoFd
          THEN socksClients[i].ssl = "failed" /\ socksClients[i].peer = NoClient
          ELSE /\ socksClients[i].peer \in Client
               /\ file[socksClients[i].sock] = socksClients[i].peer
    /\ \A i, j \in DOMAIN socksClients :
          i # j /\ socksClients[i].sock # NoFd =>
              socksClients[i].sock # socksClients[j].sock

(* The connection being accepted has no Host yet, every other one has.      *)
AcceptInv ==
    /\ homePc = "handshake" /\ client # NoFd =>
          file[client] \in Client /\ client \notin ClientFds
    /\ \A f \in Fd : file[f] \in Client =>
          f \in ClientFds \/ (homePc = "handshake" /\ f = client)

(* What select() reported stays readable until the walk has been there, and *)
(* the client accepted in between is not among it.                         *)
ReadyInv ==
    serverPc # "destroyed" =>
        /\ homePc = "select" => socksAll \subseteq {sockServer} \union ClientFds
        /\ homePc = "accept" => \A f \in socksAll : file[f] # "free"
        /\ homePc = "handshake" => client \notin socksAll
        /\ homePc \in {"accept", "handshake", "scan"} =>
              \A i \in DOMAIN socksClients :
                  /\ homePc = "scan" => i >= cursor
                  /\ socksClients[i].sock \in socksAll
                  /\ socksClients[i].ssl = "ok"
                  => Readable(socksClients[i].sock)

(* The walk starts at the first client.                                    *)
WalkInv ==
    /\ homePc \in {"accept", "handshake"} => cursor = 1
    /\ homePc = "scan" => cursor >= 1
    /\ WalkSkipsNobody

(* The conjunction, which is inductive.                                    *)
HomeInv == /\ TypeOK
           /\ ServerInv
           /\ MaxInv
           /\ FileInv
           /\ HostInv
           /\ AcceptInv
           /\ ReadyInv
           /\ WalkInv
============================================================================
