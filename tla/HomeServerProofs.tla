------------------------- MODULE HomeServerProofs --------------------------
(***************************************************************************)
(* Machine-checked proofs about HomeServer, for any set of clients and any *)
(* descriptor limits.                                                      *)
(***************************************************************************)
EXTENDS HomeServer, ListLemmas

----------------------------------------------------------------------------
(* Lemmas about the list of clients.                                       *)

(* Descriptors are natural numbers, -1 is none of them.                    *)
LEMMA Descriptors == Fd \subseteq Nat /\ NoFd \notin Fd /\ NoFd \in Int
  BY FdAssumption DEF Fd, NoFd

(* What AddHost leaves of the list, and what it adds to it.                 *)
LEMMA AddHostList ==
    ASSUME socksClients \in Seq(Host), client \in Fd \union {NoFd},
           NEW s \in {"ok", "failed"}, NEW p \in Client \union {NoClient},
           AddHost(s, p)
    PROVE  /\ socksClients' \in Seq(Host)
           /\ Len(socksClients') = Len(socksClients) + 1
           /\ DOMAIN socksClients' = 1..(Len(socksClients) + 1)
           /\ \A i \in DOMAIN socksClients : socksClients'[i] = socksClients[i]
           /\ socksClients'[Len(socksClients) + 1] =
                 [sock |-> client, ssl |-> s, peer |-> p]
  <1>1. [sock |-> client, ssl |-> s, peer |-> p] \in Host
    BY DEF Host
  <1> QED
    BY <1>1, AppendProperties DEF AddHost, LargerSock

(* What RemoveClient leaves of the list.                                   *)
LEMMA RemovedList ==
    ASSUME socksClients \in Seq(Host), cursor \in 1..Len(socksClients),
           socksClients' = RemoveAt(socksClients, cursor)
    PROVE  /\ socksClients' \in Seq(Host)
           /\ Len(socksClients') = Len(socksClients) - 1
           /\ DOMAIN socksClients' = 1..(Len(socksClients) - 1)
           /\ \A i \in 1..(cursor - 1) : socksClients'[i] = socksClients[i]
           /\ \A i \in cursor..(Len(socksClients) - 1) :
                 socksClients'[i] = socksClients[i + 1]
  BY RemoveAtProperties

(* Every member of the list is a Host.                                     *)
LEMMA HostTypes ==
    ASSUME TypeOK, NEW i \in DOMAIN socksClients
    PROVE  socksClients[i] \in Host
  BY ElementOfSeq DEF TypeOK

(* The host `current' points at.                                           *)
LEMMA CurrentHost ==
    ASSUME TypeOK, WalkInv, Scanning
    PROVE  /\ cursor \in 1..Len(socksClients)
           /\ cursor \in DOMAIN socksClients
           /\ current \in Host
  <1>1. cursor \in 1..Len(socksClients)
    BY DEF TypeOK, WalkInv, Scanning
  <1> QED
    BY <1>1, ElementOfSeq DEF TypeOK, current

(* The host that is read from has a socket, which is its client's.          *)
LEMMA CurrentClient ==
    ASSUME TypeOK, WalkInv, HostInv, Scanning, IsReady(current)
    PROVE  /\ current.sock \in Fd
           /\ current.peer \in Client
           /\ file[current.sock] = current.peer
  <1>1. cursor \in DOMAIN socksClients
    BY CurrentHost
  <1>2. current.sock \in Fd
    BY DEF IsReady, TypeOK
  <1>3. current.sock # NoFd
    BY <1>2, Descriptors
  <1> QED
    BY <1>1, <1>2, <1>3 DEF HostInv, current

----------------------------------------------------------------------------
(* The type invariant.                                                     *)

LEMMA TypeInit == Init => TypeOK
  <1> SUFFICES ASSUME Init PROVE TypeOK
    OBVIOUS
  <1>1. socksClients \in Seq(Host) /\ socksAll \subseteq Fd
        /\ visited \subseteq Client \union {NoClient}
    BY EmptySeq DEF Init
  <1>2. file \in [Fd -> {"free", "server"} \union Client]
    BY DEF Init
  <1> QED
    BY <1>1, <1>2 DEF Init, TypeOK

LEMMA TypeMain == TypeOK /\ MainNext => TypeOK'
  <1> SUFFICES ASSUME TypeOK, MainNext PROVE TypeOK'
    OBVIOUS
  <1> USE DEF TypeOK, objectVars, loopVars, clientVars, historyVars
  <1>1. CASE InitServer
    BY <1>1 DEF InitServer
  <1>2. CASE Start
    <2>1. sockServer' \in Fd \union {NoFd}
      BY <1>2 DEF Start
    <2>2. file' \in [Fd -> {"free", "server"} \union Client]
      BY <1>2 DEF Start
    <2>3. sockMax' \in Fd \union {NoFd}
      BY <1>2, <2>1 DEF Start
    <2> QED
      BY <1>2, <2>1, <2>2, <2>3 DEF Start
  <1>3. CASE Destroy
    BY <1>3 DEF Destroy
  <1> QED
    BY <1>1, <1>2, <1>3 DEF MainNext

LEMMA TypeHome == HomeInv /\ HomeNext => TypeOK'
  <1> SUFFICES ASSUME TypeOK, WalkInv, AcceptInv, HostInv, HomeNext
               PROVE  TypeOK'
    BY DEF HomeInv
  <1> USE DEF TypeOK, objectVars, loopVars, clientVars, historyVars
  <1>1. CASE TestConnected
    BY <1>1 DEF TestConnected
  <1>2. CASE FillSocksAll
    <2>1. ClientFds \subseteq Fd \union {NoFd}
      BY HostTypes DEF ClientFds, Host
    <2>2. {f \in {sockServer} \union ClientFds : ~OutsideFdSet(f)} \subseteq Fd
      BY <2>1 DEF OutsideFdSet
    <2>3. socksAll' \subseteq Fd
      BY <1>2, <2>2 DEF FillSocksAll
    <2> QED
      BY <1>2, <2>3 DEF FillSocksAll
  <1>3. CASE Select
    <2>1. socksAll' \subseteq Fd
      BY <1>3 DEF Select
    <2> QED
      BY <1>3, <2>1 DEF Select
  <1>4. CASE Accept
    <2>1. /\ conn' \in [Client -> {"away", "queued", "accepted", "closed"}]
          /\ file' \in [Fd -> {"free", "server"} \union Client]
          /\ client' \in Fd \union {NoFd}
          /\ acceptErrors' \in Nat
      <3>1. CASE client' = NoFd /\ UNCHANGED <<conn, file>>
        BY <1>4, <3>1 DEF Accept
      <3>2. CASE \E c \in Client, f \in Fd :
                    /\ conn' = [conn EXCEPT ![c] = "accepted"]
                    /\ file' = [file EXCEPT ![f] = c]
                    /\ client' = f
        <4>1. PICK c \in Client, f \in Fd :
                 /\ conn' = [conn EXCEPT ![c] = "accepted"]
                 /\ file' = [file EXCEPT ![f] = c]
                 /\ client' = f
          BY <3>2
        <4>2. acceptErrors' \in Nat
          BY <1>4 DEF Accept
        <4> QED
          BY <4>1, <4>2
      <3> QED
        BY <1>4, <3>1, <3>2 DEF Accept
    <2> QED
      BY <1>4, <2>1 DEF Accept
  <1>5. CASE Handshake
    <2>1. client # NoFd => file[client] \in Client
      BY <1>5 DEF AcceptInv, Handshake
    <2>2. PICK s \in {"ok", "failed"}, p \in Client \union {NoClient} :
             AddHost(s, p)
      BY <1>5, <2>1 DEF Handshake
    <2>3. socksClients' \in Seq(Host) /\ sockMax' \in Fd \union {NoFd}
      BY <2>2, AddHostList DEF AddHost, LargerSock
    <2> QED
      BY <1>5, <2>3 DEF Handshake
  <1>6. CASE Scanning
    <2>1. cursor \in DOMAIN socksClients /\ cursor \in 1..Len(socksClients)
      BY <1>6, CurrentHost
    <2>2. current.peer \in Client \union {NoClient}
      <3>1. current \in Host
        BY <1>6, CurrentHost
      <3> QED
        BY <3>1 DEF Host
    <2>3. CASE Skip
      BY <2>2, <2>3 DEF Skip
    <2>4. CASE ReadPacket
      <3>1. current.peer \in Client
        BY <1>6, <2>4, CurrentClient DEF ReadPacket
      <3>2. inbox' \in [Client -> Nat] /\ received' \in [Client -> Nat]
        BY <2>4, <3>1 DEF ReadPacket
      <3> QED
        BY <2>2, <2>4, <3>2 DEF ReadPacket
    <2>5. CASE ReadError
      <3>1. health' \in [Client -> {"up", "left", "reset"}]
        BY <2>5 DEF ReadError
      <3>2. visited' \subseteq Client \union {NoClient} /\ cursor' \in Nat
        BY <2>2, <2>5 DEF ReadError
      <3> QED
        BY <2>5, <3>1, <3>2 DEF ReadError
    <2>6. CASE RemoveClient
      <3>1. socksClients' \in Seq(Host)
        BY <2>1, <2>6, RemovedList DEF RemoveClient, Erase
      <3> QED
        BY <2>6, <3>1 DEF RemoveClient, Erase
    <2> QED
      BY <1>6, <1>1, <1>2, <1>3, <1>4, <1>5, <2>3, <2>4, <2>5, <2>6
      DEF HomeNext, Read, EndScan, UseDestroyed
  <1>7. CASE EndScan
    BY <1>7 DEF EndScan
  <1>8. CASE UseDestroyed
    BY <1>8 DEF UseDestroyed
  <1> QED
    BY <1>1, <1>2, <1>3, <1>4, <1>5, <1>6, <1>7, <1>8
    DEF HomeNext, Read, Skip, ReadPacket, ReadError, RemoveClient

LEMMA TypeClient == TypeOK /\ ClientNext => TypeOK'
  <1> SUFFICES ASSUME TypeOK, NEW c \in Client,
                      \/ ClientConnects(c)
                      \/ ClientSends(c)
                      \/ ClientLeaves(c)
               PROVE  TypeOK'
    BY DEF ClientNext
  <1> USE DEF TypeOK, processVars, objectVars, loopVars, historyVars
  <1>1. CASE ClientConnects(c)
    BY <1>1 DEF ClientConnects
  <1>2. CASE ClientSends(c)
    BY <1>2 DEF ClientSends
  <1>3. CASE ClientLeaves(c)
    BY <1>3 DEF ClientLeaves
  <1> QED
    BY <1>1, <1>2, <1>3

----------------------------------------------------------------------------
(* Steps that leave the list of clients and the descriptors alone.         *)

(* What select() says of a client's socket.                                *)
LEMMA ReadableClient ==
    ASSUME NEW f, file[f] \in Client
    PROVE  Readable(f) <=> (inbox[file[f]] > 0 \/ health[file[f]] # "up")
  BY ReservedAssumption DEF Readable

(* Nothing in these parts depends on anything else.                        *)
LEMMA ListFrame ==
    ASSUME MaxInv, FileInv, HostInv,
           UNCHANGED <<sockMax, socksClients, file, conn>>
    PROVE  MaxInv' /\ FileInv' /\ HostInv'
  BY DEF MaxInv, FileInv, HostInv

(* The main thread: init(), start() and the destructor.                     *)
LEMMA MainKeeps ==
    ASSUME HomeInv, MainNext
    PROVE  HomeInv'
  <1> USE DEF HomeInv, objectVars, loopVars, clientVars, historyVars
  <1>1. TypeOK'
    BY TypeMain
  <1>2. CASE InitServer
    <2>1. MaxInv' /\ FileInv' /\ HostInv'
      BY <1>2, ListFrame DEF InitServer
    <2>2. ServerInv' /\ AcceptInv' /\ ReadyInv' /\ WalkInv'
      BY <1>2 DEF InitServer, ServerInv, AcceptInv, ReadyInv, WalkInv,
                  WalkSkipsNobody, ClientFds
    <2> QED
      BY <1>1, <2>1, <2>2
  <1>3. CASE Start
    <2>1. homePc = "none" /\ homePc' \in {"none", "test"}
          /\ socksClients = <<>> /\ socksClients' = <<>>
      BY <1>3 DEF Start, ServerInv
    <2>2. \A f \in Fd : file'[f] \notin Client
      <3>1. \A f \in Fd : file[f] \notin Client
        BY <2>1 DEF ServerInv
      <3> QED
        BY <1>3, <3>1, ReservedAssumption DEF Start, TypeOK
    <2>3. homePc' = "test" =>
             /\ sockServer' \in Fd /\ sockMax' = sockServer'
             /\ serverPc' = "started" /\ file'[sockServer'] = "server"
      BY <1>3, <2>1 DEF Start, TypeOK
    <2>4. serverPc' \in {"new", "init", "failed"} => homePc' = "none"
      BY <1>3, <2>1 DEF Start
    <2>5. ServerInv'
      <3>1. CASE homePc' = "none"
        BY <2>1, <2>2, <3>1 DEF ServerInv
      <3>2. CASE homePc' = "test"
        <4>1. sockServer' \in Nat
          BY <2>3, <3>2, Descriptors
        <4>2. sockServer' <= sockMax'
          BY <2>3, <3>2, <4>1
        <4> QED
          BY <2>3, <3>2, <4>2 DEF ServerInv
      <3> QED
        BY <2>1, <3>1, <3>2
    <2>6. DOMAIN socksClients' = {}
      BY <2>1
    <2> QED
      BY <1>1, <2>1, <2>2, <2>5, <2>6
      DEF MaxInv, FileInv, HostInv, AcceptInv, ReadyInv, WalkInv,
          WalkSkipsNobody
  <1>4. CASE Destroy
    <2>1. \A f \in Fd : file'[f] = IF f = sockServer THEN "free" ELSE file[f]
      BY <1>4 DEF Destroy
    <2>2. sockServer \in Fd => file[sockServer] \notin Client
      BY ReservedAssumption DEF ServerInv
    <2>3. \A f \in Fd : file'[f] \in Client <=> file[f] \in Client
      BY <2>1, <2>2, ReservedAssumption
    <2>4. \A f \in Fd : file[f] \in Client => file'[f] = file[f]
      BY <2>1, <2>2
    <2>5. UNCHANGED <<homePc, sockServer, sockMax, socksClients, cursor,
                      client, conn, visited>>
          /\ serverPc' = "destroyed"
      BY <1>4 DEF Destroy
    <2>6. ServerInv'
      BY <2>1, <2>3, <2>5 DEF ServerInv
    <2>7. FileInv'
      BY <2>3, <2>4, <2>5 DEF FileInv
    <2>8. HostInv'
      <3>1. ASSUME NEW i \in DOMAIN socksClients,
                   socksClients[i].sock # NoFd
            PROVE  file'[socksClients[i].sock] = socksClients[i].peer
        <4>1. socksClients[i].sock \in Fd
          BY <3>1, HostTypes DEF Host
        <4>2. file[socksClients[i].sock] = socksClients[i].peer
              /\ socksClients[i].peer \in Client
          BY <3>1 DEF HostInv
        <4> QED
          BY <2>4, <4>1, <4>2
      <3> QED
        BY <2>5, <3>1 DEF HostInv
    <2>9. AcceptInv'
      <3>1. client # NoFd => client \in Fd
        BY DEF TypeOK
      <3>2. ClientFds' = ClientFds
        BY <2>5 DEF ClientFds
      <3> QED
        BY <2>3, <2>4, <2>5, <3>1, <3>2 DEF AcceptInv
    <2> QED
      BY <1>1, <2>5, <2>6, <2>7, <2>8, <2>9
      DEF MaxInv, ReadyInv, WalkInv, WalkSkipsNobody
  <1> QED
    BY <1>2, <1>3, <1>4 DEF MainNext

(* The receive thread up to select().                                      *)
LEMMA PrepareKeeps ==
    ASSUME HomeInv, TestConnected \/ FillSocksAll \/ EndScan
    PROVE  HomeInv'
  <1> USE DEF HomeInv, objectVars, loopVars, clientVars, historyVars
  <1>1. TypeOK'
    BY TypeHome DEF HomeNext
  <1>2. UNCHANGED <<serverPc, sockServer, sockMax, socksClients, cursor,
                    client, file, conn, health, inbox, visited>>
    BY DEF TestConnected, FillSocksAll, EndScan
  <1>3. homePc \in {"test", "fill", "scan"}
        /\ \/ homePc' \in {"fill", "exited", "select", "test"}
           \/ homePc = "fill" /\ homePc' = "fill"
    BY DEF TestConnected, FillSocksAll, EndScan
  <1>4. homePc' = "select" => socksAll' \subseteq {sockServer} \union ClientFds
    BY DEF TestConnected, FillSocksAll, EndScan
  <1>5. MaxInv' /\ FileInv' /\ HostInv'
    BY <1>2, ListFrame
  <1>6. ServerInv'
    BY <1>2, <1>3 DEF ServerInv
  <1>7. ClientFds' = ClientFds
    BY <1>2 DEF ClientFds
  <1> QED
    BY <1>1, <1>2, <1>3, <1>4, <1>5, <1>6, <1>7
    DEF AcceptInv, ReadyInv, WalkInv, WalkSkipsNobody

(* A crash in the memory the destructor has freed.                         *)
LEMMA CrashKeeps ==
    ASSUME HomeInv, UseDestroyed
    PROVE  HomeInv'
  <1> USE DEF HomeInv, objectVars, loopVars, clientVars, historyVars
  <1>1. TypeOK'
    BY TypeHome DEF HomeNext
  <1>2. MaxInv' /\ FileInv' /\ HostInv'
    BY ListFrame DEF UseDestroyed
  <1> QED
    BY <1>1, <1>2 DEF UseDestroyed, ServerInv, AcceptInv, ReadyInv, WalkInv,
       WalkSkipsNobody, ClientFds

(* select().                                                               *)
LEMMA SelectKeeps ==
    ASSUME HomeInv, Select
    PROVE  HomeInv'
  <1> USE DEF HomeInv, objectVars, loopVars, clientVars, historyVars
  <1>1. TypeOK'
    BY TypeHome DEF HomeNext
  <1>2. /\ UNCHANGED <<serverPc, sockServer, sockMax, socksClients, client,
                       file, conn, health, inbox>>
        /\ homePc = "select" /\ homePc' \in {"accept", "scan"}
        /\ cursor' = 1
    BY DEF Select
  <1>3. MaxInv' /\ FileInv' /\ HostInv'
    BY <1>2, ListFrame
  <1>4. ServerInv'
    BY <1>2 DEF ServerInv
  <1>5. ClientFds' = ClientFds
    BY <1>2 DEF ClientFds
  <1>6. AcceptInv' /\ WalkInv'
    BY <1>1, <1>2, <1>5 DEF AcceptInv, WalkInv, WalkSkipsNobody, TypeOK
  <1>7. ASSUME serverPc # "destroyed"
        PROVE  \A f \in socksAll' : Readable(f) /\ file[f] # "free"
    <2>1. serverPc = "started"
      BY <1>2, <1>7 DEF ServerInv, TypeOK
    <2>2. \A f \in socksAll : file[f] # "free"
      <3>1. file[sockServer] # "free"
        BY <1>2, <2>1 DEF ServerInv
      <3>2. ASSUME NEW i \in DOMAIN socksClients,
                   socksClients[i].sock # NoFd
            PROVE  file[socksClients[i].sock] # "free"
        BY <3>2, ReservedAssumption DEF HostInv
      <3>3. socksAll \subseteq {sockServer} \union ClientFds
        BY <1>2, <1>7 DEF ReadyInv
      <3>4. NoFd \notin socksAll
        BY Descriptors DEF TypeOK
      <3> QED
        BY <3>1, <3>2, <3>3, <3>4 DEF ClientFds
    <2> QED
      BY <2>2 DEF Select
  <1>8. ReadyInv'
    <2>1. ASSUME serverPc # "destroyed", NEW f \in socksAll'
          PROVE  Readable(f)'
      BY <1>2, <1>7, <2>1 DEF Readable
    <2> QED
      BY <1>2, <1>7, <2>1 DEF ReadyInv
  <1> QED
    BY <1>1, <1>3, <1>4, <1>6, <1>8

----------------------------------------------------------------------------
(* Steps that add a client.                                                *)

(* A host with a socket: what HostInv says of it.                          *)
LEMMA SocketOf ==
    ASSUME TypeOK, HostInv, NEW i \in DOMAIN socksClients,
           socksClients[i].sock # NoFd
    PROVE  /\ socksClients[i].sock \in Fd
           /\ socksClients[i].peer \in Client
           /\ file[socksClients[i].sock] = socksClients[i].peer
  <1>1. socksClients[i].sock \in Fd
    BY HostTypes DEF Host
  <1> QED
    BY <1>1 DEF HostInv

(* accept().                                                               *)
LEMMA AcceptKeeps ==
    ASSUME HomeInv, Accept
    PROVE  HomeInv'
  <1> USE DEF HomeInv, objectVars, loopVars, clientVars, historyVars
  <1>1. TypeOK'
    BY TypeHome DEF HomeNext
  <1>2. /\ UNCHANGED <<serverPc, sockServer, sockMax, socksClients, socksAll,
                       cursor, health, inbox, visited>>
        /\ homePc = "accept"
        /\ homePc' = "handshake"
    BY DEF Accept
  <1>3. ClientFds' = ClientFds
    BY <1>2 DEF ClientFds
  <1>4. MaxInv' /\ WalkInv'
    BY <1>2 DEF MaxInv, WalkInv, WalkSkipsNobody
  <1>5. CASE UNCHANGED <<conn, file>> /\ client' = NoFd
    <2>1. FileInv' /\ HostInv'
      BY <1>2, <1>5, ListFrame
    <2>2. ServerInv' /\ AcceptInv'
      BY <1>2, <1>3, <1>5 DEF ServerInv, AcceptInv
    <2>3. NoFd \notin socksAll
      BY Descriptors DEF TypeOK
    <2>4. ReadyInv'
      BY <1>2, <1>5, <2>3 DEF ReadyInv, Readable
    <2> QED
      BY <1>1, <1>4, <2>1, <2>2, <2>4
  <1>6. ASSUME NEW c \in Client, NEW f \in Fd,
               file[sockServer] = "server",
               conn[c] = "queued", file[f] = "free",
               conn' = [conn EXCEPT ![c] = "accepted"],
               file' = [file EXCEPT ![f] = c],
               client' = f
        PROVE  HomeInv'
    <2>1. serverPc = "started"
      BY <1>2, <1>6 DEF ServerInv
    <2>2. file'[f] = c /\ \A g \in Fd : g # f => file'[g] = file[g]
      BY <1>6 DEF TypeOK
    <2>3. conn'[c] = "accepted"
          /\ \A d \in Client : conn[d] = "accepted" => conn'[d] = "accepted"
      BY <1>6 DEF TypeOK
    <2>4. \A g \in Fd : file[g] # c
      BY <1>6 DEF FileInv
    <2>5. FileInv'
      <3>1. ASSUME NEW g \in Fd, file'[g] \in Client
            PROVE  conn'[file'[g]] = "accepted"
        BY <2>2, <2>3, <3>1 DEF FileInv
      <3>2. ASSUME NEW g \in Fd, NEW h \in Fd, file'[g] \in Client,
                   file'[g] = file'[h]
            PROVE  g = h
        BY <2>2, <2>4, <3>2 DEF FileInv
      <3> QED
        BY <3>1, <3>2 DEF FileInv
    <2>6. ASSUME NEW i \in DOMAIN socksClients, socksClients[i].sock # NoFd
          PROVE  /\ socksClients[i].sock # f
                 /\ file'[socksClients[i].sock] = file[socksClients[i].sock]
      BY <1>6, <2>2, <2>6, SocketOf, ReservedAssumption
    <2>7. HostInv'
      BY <1>2, <2>6 DEF HostInv
    <2>8. f \notin ClientFds
      BY <2>6, Descriptors DEF ClientFds
    <2>9. AcceptInv'
      <3>1. \A g \in Fd : file'[g] \in Client => g \in ClientFds \/ g = f
        BY <1>2, <2>2 DEF AcceptInv
      <3> QED
        BY <1>2, <1>3, <1>6, <2>2, <2>8, <3>1 DEF AcceptInv
    <2>10. ServerInv'
      BY <1>2, <1>6, <2>1, <2>2 DEF ServerInv
    <2>11. f \notin socksAll
      BY <1>2, <1>6, <2>1 DEF ReadyInv
    <2>12. ASSUME NEW i \in DOMAIN socksClients,
                  socksClients[i].sock \in socksAll,
                  socksClients[i].ssl = "ok"
           PROVE  Readable(socksClients[i].sock)'
      <3>1. socksClients[i].sock # NoFd
        BY <2>12, Descriptors DEF TypeOK
      <3>2. Readable(socksClients[i].sock)
        BY <1>2, <2>1, <2>12 DEF ReadyInv
      <3>3. /\ file[socksClients[i].sock] \in Client
            /\ file'[socksClients[i].sock] = file[socksClients[i].sock]
        BY <2>6, <3>1, SocketOf
      <3>4. inbox[file[socksClients[i].sock]] > 0
            \/ health[file[socksClients[i].sock]] # "up"
        BY <3>2, <3>3, ReadableClient
      <3> QED
        BY <1>2, <3>3, <3>4 DEF Readable
    <2>13. ReadyInv'
      BY <1>2, <1>6, <2>1, <2>11, <2>12 DEF ReadyInv
    <2> QED
      BY <1>1, <1>4, <2>5, <2>7, <2>9, <2>10, <2>13
  <1>7. \/ UNCHANGED <<conn, file>> /\ client' = NoFd
        \/ /\ file[sockServer] = "server"
           /\ \E c \in Client, f \in Fd :
                 /\ conn[c] = "queued" /\ file[f] = "free"
                 /\ conn' = [conn EXCEPT ![c] = "accepted"]
                 /\ file' = [file EXCEPT ![f] = c]
                 /\ client' = f
    BY DEF Accept, IsLowest, FreeFds
  <1> QED
    BY <1>5, <1>6, <1>7

(* The handshake, after which the client is in the list.                   *)
LEMMA HandshakeKeeps ==
    ASSUME HomeInv, Handshake
    PROVE  HomeInv'
  <1> USE DEF HomeInv, objectVars, loopVars, clientVars, historyVars
  <1>1. TypeOK'
    BY TypeHome DEF HomeNext
  <1>2. /\ UNCHANGED <<serverPc, sockServer, socksAll, cursor, client, file,
                       conn, health, inbox, visited>>
        /\ homePc = "handshake" /\ homePc' = "scan"
    BY DEF Handshake
  <1>3. client # NoFd => client \in Fd /\ file[client] \in Client
                         /\ client \notin ClientFds
    BY <1>2 DEF AcceptInv, TypeOK
  <1>4. PICK s \in {"ok", "failed"}, p \in Client \union {NoClient} :
           /\ AddHost(s, p)
           /\ IF client = NoFd THEN s = "failed" /\ p = NoClient
              ELSE p = file[client]
    BY <1>3 DEF Handshake
  <1> DEFINE n == Len(socksClients) + 1
  <1>5. /\ n \in Nat /\ n \notin DOMAIN socksClients
        /\ DOMAIN socksClients' = DOMAIN socksClients \union {n}
        /\ \A i \in DOMAIN socksClients : socksClients'[i] = socksClients[i]
        /\ socksClients'[n] = [sock |-> client, ssl |-> s, peer |-> p]
    <2>1. socksClients \in Seq(Host) /\ client \in Fd \union {NoFd}
      BY DEF TypeOK
    <2>2. /\ DOMAIN socksClients' = 1..n
          /\ \A i \in DOMAIN socksClients : socksClients'[i] = socksClients[i]
          /\ socksClients'[n] = [sock |-> client, ssl |-> s, peer |-> p]
      BY <1>4, <2>1, AddHostList
    <2>3. Len(socksClients) \in Nat
          /\ DOMAIN socksClients = 1..Len(socksClients)
      BY <2>1
    <2> QED
      BY <2>2, <2>3
  <1> HIDE DEF n
  <1>6. ClientFds' = ClientFds \union {client}
    BY <1>5 DEF ClientFds
  <1>7. sockMax \in Nat /\ sockMax' \in Int /\ sockMax <= sockMax'
        /\ client <= sockMax'
    <2>1. sockMax \in Nat /\ client \in Int
      BY <1>2, Descriptors DEF ServerInv, TypeOK
    <2> QED
      BY <1>4, <2>1 DEF AddHost, LargerSock
  <1>8. MaxInv'
    <2>1. ASSUME NEW i \in DOMAIN socksClients
          PROVE  socksClients[i].sock <= sockMax'
      <3>1. socksClients[i].sock \in Int
        <4>1. socksClients[i] \in Host
          BY HostTypes
        <4>2. socksClients[i].sock \in Fd \union {NoFd}
          BY <4>1 DEF Host
        <4>3. \A x \in Fd \union {NoFd} : x \in Int
          BY Descriptors
        <4> QED
          BY <4>2, <4>3
      <3>2. socksClients[i].sock <= sockMax
        BY DEF MaxInv
      <3> QED
        BY <1>7, <3>1, <3>2
    <2> QED
      BY <1>5, <1>7, <2>1 DEF MaxInv
  <1>9. FileInv'
    BY <1>2 DEF FileInv
  <1>10. ServerInv'
    <2>1. sockServer \in Nat /\ sockServer <= sockMax
      BY <1>2, Descriptors DEF ServerInv
    <2>2. sockServer <= sockMax'
      BY <1>7, <2>1
    <2>3. sockMax' \in Fd
      <3>1. sockMax \in Fd
        BY <1>2 DEF ServerInv
      <3>2. client = NoFd => ~(client > sockMax)
        BY <1>7 DEF NoFd
      <3> QED
        BY <1>3, <1>4, <3>1, <3>2 DEF AddHost, LargerSock
    <2> QED
      BY <1>2, <2>2, <2>3 DEF ServerInv
  <1>11. HostInv'
    <2>1. ASSUME NEW i \in DOMAIN socksClients, client # NoFd
          PROVE  socksClients[i].sock # client
      BY <1>3, <2>1 DEF ClientFds
    <2>2. ASSUME NEW i \in DOMAIN socksClients'
          PROVE  IF socksClients'[i].sock = NoFd
                 THEN /\ socksClients'[i].ssl = "failed"
                      /\ socksClients'[i].peer = NoClient
                 ELSE /\ socksClients'[i].peer \in Client
                      /\ file'[socksClients'[i].sock] = socksClients'[i].peer
      BY <1>2, <1>3, <1>4, <1>5 DEF HostInv
    <2>3. ASSUME NEW i \in DOMAIN socksClients', NEW j \in DOMAIN socksClients',
                 i # j, socksClients'[i].sock # NoFd
          PROVE  socksClients'[i].sock # socksClients'[j].sock
      BY <1>5, <2>1, <2>3 DEF HostInv
    <2> QED
      BY <2>2, <2>3 DEF HostInv
  <1>12. AcceptInv'
    BY <1>2, <1>6 DEF AcceptInv
  <1>13. ASSUME serverPc # "destroyed", NEW i \in DOMAIN socksClients',
                socksClients'[i].sock \in socksAll,
                socksClients'[i].ssl = "ok"
         PROVE  Readable(socksClients[i].sock)'
    <2>1. client \notin socksAll
      BY <1>2, <1>13 DEF ReadyInv
    <2>2. i \in DOMAIN socksClients /\ socksClients'[i] = socksClients[i]
      BY <1>5, <1>13, <2>1
    <2>3. Readable(socksClients[i].sock)
      BY <1>2, <1>13, <2>2 DEF ReadyInv
    <2> QED
      BY <1>2, <2>2, <2>3 DEF Readable
  <1>14. ReadyInv'
    BY <1>2, <1>13 DEF ReadyInv
  <1>15. WalkInv'
    <2>1. DOMAIN socksClients' \subseteq Nat
      BY <1>5 DEF TypeOK
    <2>2. cursor' = 1
      BY <1>2 DEF WalkInv
    <2>3. \A i \in DOMAIN socksClients' : i >= 1
      BY <1>1 DEF TypeOK
    <2> QED
      BY <1>2, <2>1, <2>2, <2>3 DEF WalkInv, WalkSkipsNobody
  <1> QED
    BY <1>1, <1>8, <1>9, <1>10, <1>11, <1>12, <1>14, <1>15
----------------------------------------------------------------------------
(* The walk through the list.                                              *)

(* Two hosts with sockets stand for two clients.                           *)
LEMMA DistinctPeers ==
    ASSUME TypeOK, FileInv, HostInv,
           NEW i \in DOMAIN socksClients, NEW j \in DOMAIN socksClients,
           i # j, socksClients[i].sock # NoFd, socksClients[j].sock # NoFd
    PROVE  socksClients[i].peer # socksClients[j].peer
  <1>1. socksClients[i].sock \in Fd /\ socksClients[j].sock \in Fd
    BY SocketOf
  <1>2. /\ file[socksClients[i].sock] = socksClients[i].peer
        /\ file[socksClients[j].sock] = socksClients[j].peer
        /\ socksClients[i].peer \in Client
    BY SocketOf
  <1>3. socksClients[i].sock # socksClients[j].sock
    BY DEF HostInv
  <1> QED
    BY <1>1, <1>2, <1>3 DEF FileInv

(* The steps that leave the list as it is and go on to the next client.     *)
LEMMA AdvanceKeeps ==
    ASSUME HomeInv, Skip \/ ReadPacket \/ ReadError
    PROVE  HomeInv'
  <1> USE DEF HomeInv, objectVars, loopVars, clientVars, historyVars
  <1>1. TypeOK'
    BY TypeHome DEF HomeNext, Read
  <1>2. /\ UNCHANGED <<serverPc, homePc, sockServer, sockMax, socksClients,
                       socksAll, client, file, conn>>
        /\ Scanning
        /\ cursor' = cursor + 1
        /\ visited' = visited \union {current.peer}
    BY DEF Skip, ReadPacket, ReadError
  <1>3. homePc = "scan" /\ cursor \in DOMAIN socksClients /\ cursor \in Nat
    BY <1>2, CurrentHost DEF Scanning, TypeOK
  <1>4. MaxInv' /\ FileInv' /\ HostInv'
    BY <1>2, ListFrame
  <1>5. ServerInv'
    BY <1>2 DEF ServerInv
  <1>6. AcceptInv'
    BY <1>2 DEF AcceptInv, ClientFds
  <1>7. DOMAIN socksClients \subseteq Nat
    BY DEF TypeOK
  <1>8. WalkInv'
    <2>1. ASSUME NEW i \in DOMAIN socksClients, i < cursor + 1
          PROVE  socksClients[i].peer \in visited'
      <3>1. i < cursor \/ i = cursor
        BY <1>3, <1>7, <2>1
      <3>2. i < cursor => socksClients[i].peer \in visited
        BY <1>3 DEF WalkInv, WalkSkipsNobody
      <3> QED
        BY <1>2, <3>1, <3>2 DEF current
    <2>2. cursor' >= 1
      BY <1>2, <1>3
    <2> QED
      BY <1>2, <1>3, <2>1, <2>2 DEF WalkInv, WalkSkipsNobody
  <1>9. ASSUME NEW c \in Client, IsReady(current) => c # current.peer
        PROVE  inbox'[c] = inbox[c] /\ health'[c] = health[c]
    BY <1>9 DEF Skip, ReadPacket, ReadError, TypeOK
  <1>10. ASSUME serverPc # "destroyed", NEW i \in DOMAIN socksClients,
                i >= cursor + 1,
                socksClients[i].sock \in socksAll,
                socksClients[i].ssl = "ok"
         PROVE  LET f == socksClients[i].sock
                IN  /\ file[f] \in Client
                    /\ inbox'[file[f]] > 0 \/ health'[file[f]] # "up"
    <2>1. i >= cursor /\ i # cursor /\ i \in Nat
      BY <1>3, <1>7, <1>10
    <2>2. NoFd \notin socksAll
      BY Descriptors DEF TypeOK
    <2>3. /\ socksClients[i].peer \in Client
          /\ file[socksClients[i].sock] = socksClients[i].peer
      BY <1>10, <2>2, SocketOf
    <2>4. Readable(socksClients[i].sock)
      BY <1>3, <1>10, <2>1 DEF ReadyInv
    <2>5. inbox[socksClients[i].peer] > 0 \/ health[socksClients[i].peer] # "up"
      BY <2>3, <2>4, ReadableClient
    <2>6. IsReady(current) => socksClients[i].peer # current.peer
      BY <1>3, <1>10, <2>1, <2>2, DistinctPeers DEF IsReady, current
    <2> QED
      BY <1>9, <2>3, <2>5, <2>6
  <1>11. ReadyInv'
    <2>1. ASSUME serverPc # "destroyed", NEW i \in DOMAIN socksClients,
                 i >= cursor + 1,
                 socksClients[i].sock \in socksAll,
                 socksClients[i].ssl = "ok"
          PROVE  Readable(socksClients[i].sock)'
      BY <1>2, <1>10, <2>1 DEF Readable
    <2> QED
      BY <1>2, <1>3, <2>1 DEF ReadyInv
  <1> QED
    BY <1>1, <1>4, <1>5, <1>6, <1>8, <1>11

(* The removal of a client.                                                *)
LEMMA RemoveKeeps ==
    ASSUME HomeInv, RemoveClient
    PROVE  HomeInv'
  <1> USE DEF HomeInv, objectVars, loopVars, clientVars, historyVars
  <1>1. TypeOK'
    BY TypeHome DEF HomeNext, Read
  <1>2. /\ UNCHANGED <<serverPc, homePc, sockServer, sockMax, socksAll, client,
                       cursor, inbox, health, visited>>
        /\ Scanning /\ IsReady(current)
        /\ file' = [file EXCEPT ![current.sock] = "free"]
        /\ conn' = [conn EXCEPT ![current.peer] = "closed"]
        /\ socksClients' = RemoveAt(socksClients, cursor)
    BY DEF RemoveClient, Erase
  <1>3. /\ homePc = "scan"
        /\ cursor \in DOMAIN socksClients /\ cursor \in Nat
        /\ current.sock \in Fd /\ current.peer \in Client
        /\ file[current.sock] = current.peer
    BY <1>2, CurrentHost, CurrentClient DEF Scanning, TypeOK
  <1>4. current.sock # NoFd
    BY <1>3, Descriptors
  <1> DEFINE n      == Len(socksClients)
             old(i) == IF i < cursor THEN i ELSE i + 1
  <1>5. /\ n \in Nat /\ DOMAIN socksClients = 1..n
        /\ DOMAIN socksClients' = 1..(n - 1)
        /\ \A i \in 1..(n - 1) : socksClients'[i] = socksClients[old(i)]
    <2>1. socksClients \in Seq(Host) /\ cursor \in 1..Len(socksClients)
      BY <1>3 DEF TypeOK
    <2>2. /\ DOMAIN socksClients' = 1..(n - 1)
          /\ \A i \in 1..(cursor - 1) : socksClients'[i] = socksClients[i]
          /\ \A i \in cursor..(n - 1) : socksClients'[i] = socksClients[i + 1]
      BY <1>2, <2>1, RemovedList
    <2> QED
      BY <2>1, <2>2
  <1>6. \A i \in DOMAIN socksClients' :
           /\ i \in Nat /\ old(i) \in DOMAIN socksClients /\ old(i) # cursor
           /\ i >= cursor => old(i) >= cursor
           /\ i < cursor => old(i) = i
           /\ socksClients'[i] = socksClients[old(i)]
    BY <1>3, <1>5
  <1>7. \A i, j \in DOMAIN socksClients' : i # j => old(i) # old(j)
    BY <1>3, <1>5
  <1>8. \A k \in DOMAIN socksClients :
           k # cursor => \E i \in DOMAIN socksClients' : old(i) = k
    <2> SUFFICES ASSUME NEW k \in DOMAIN socksClients, k # cursor
                 PROVE  \E i \in DOMAIN socksClients' : old(i) = k
      OBVIOUS
    <2> DEFINE i == IF k < cursor THEN k ELSE k - 1
    <2>1. i \in DOMAIN socksClients' /\ old(i) = k
      BY <1>3, <1>5
    <2> QED
      BY <2>1
  <1> HIDE DEF n, old
  <1>9. /\ file'[current.sock] = "free"
        /\ \A g \in Fd : g # current.sock => file'[g] = file[g]
        /\ conn'[current.peer] = "closed"
        /\ \A c \in Client : c # current.peer => conn'[c] = conn[c]
    BY <1>2, <1>3 DEF TypeOK
  <1>10. ASSUME NEW i \in DOMAIN socksClients', socksClients'[i].sock # NoFd
         PROVE  /\ socksClients'[i].sock \in Fd
                /\ socksClients'[i].sock # current.sock
                /\ socksClients'[i].peer \in Client
                /\ file[socksClients'[i].sock] = socksClients'[i].peer
                /\ file'[socksClients'[i].sock] = socksClients'[i].peer
    <2>1. /\ old(i) \in DOMAIN socksClients /\ old(i) # cursor
          /\ socksClients'[i] = socksClients[old(i)]
      BY <1>6
    <2>2. /\ socksClients[old(i)].sock \in Fd
          /\ socksClients[old(i)].peer \in Client
          /\ file[socksClients[old(i)].sock] = socksClients[old(i)].peer
      BY <1>10, <2>1, SocketOf
    <2>3. socksClients[old(i)].sock # current.sock
      BY <1>3, <1>4, <2>1 DEF HostInv, current
    <2> QED
      BY <1>9, <2>1, <2>2, <2>3
  <1>11. ServerInv'
    <2>1. sockServer \in Fd /\ file[sockServer] \notin Client
      BY <1>3, ReservedAssumption DEF ServerInv
    <2>2. file'[sockServer] = file[sockServer]
      BY <1>3, <1>9, <2>1
    <2> QED
      BY <1>2, <1>3, <2>2 DEF ServerInv
  <1>12. MaxInv'
    BY <1>2, <1>6 DEF MaxInv
  <1>13. FileInv'
    <2>1. \A g \in Fd : file'[g] \in Client =>
             g # current.sock /\ file'[g] = file[g] /\ file[g] # current.peer
      BY <1>3, <1>9, ReservedAssumption DEF FileInv
    <2>2. ASSUME NEW g \in Fd, file'[g] \in Client
          PROVE  conn'[file'[g]] = "accepted"
      BY <1>9, <2>1, <2>2 DEF FileInv
    <2>3. ASSUME NEW g \in Fd, NEW h \in Fd, file'[g] \in Client,
                 file'[g] = file'[h]
          PROVE  g = h
      BY <2>1, <2>3 DEF FileInv
    <2> QED
      BY <2>2, <2>3 DEF FileInv
  <1>14. HostInv'
    <2>1. ASSUME NEW i \in DOMAIN socksClients', socksClients'[i].sock = NoFd
          PROVE  /\ socksClients'[i].ssl = "failed"
                 /\ socksClients'[i].peer = NoClient
      BY <1>6, <2>1 DEF HostInv
    <2>2. ASSUME NEW i \in DOMAIN socksClients', NEW j \in DOMAIN socksClients',
                 i # j, socksClients'[i].sock # NoFd
          PROVE  socksClients'[i].sock # socksClients'[j].sock
      <3>1. /\ old(i) \in DOMAIN socksClients /\ old(j) \in DOMAIN socksClients
            /\ socksClients'[i] = socksClients[old(i)]
            /\ socksClients'[j] = socksClients[old(j)]
            /\ old(i) # old(j)
        BY <1>6, <1>7, <2>2
      <3> QED
        BY <2>2, <3>1 DEF HostInv
    <2> QED
      BY <1>10, <2>1, <2>2 DEF HostInv
  <1>15. AcceptInv'
    <2>1. ASSUME NEW g \in Fd, file'[g] \in Client
          PROVE  \E i \in DOMAIN socksClients' : socksClients'[i].sock = g
      <3>1. g # current.sock /\ file[g] \in Client
        BY <1>9, <2>1, ReservedAssumption
      <3>2. PICK k \in DOMAIN socksClients : socksClients[k].sock = g
        BY <1>3, <3>1 DEF AcceptInv, ClientFds
      <3>3. k # cursor
        BY <3>1, <3>2 DEF current
      <3>4. PICK i \in DOMAIN socksClients' : old(i) = k
        BY <1>8, <3>3
      <3> QED
        BY <1>6, <3>2, <3>4
    <2> QED
      BY <1>2, <1>3, <2>1 DEF AcceptInv, ClientFds
  <1>16. ReadyInv'
    <2>1. ASSUME serverPc # "destroyed", NEW i \in DOMAIN socksClients',
                 i >= cursor,
                 socksClients'[i].sock \in socksAll,
                 socksClients'[i].ssl = "ok"
          PROVE  LET f == socksClients'[i].sock
                 IN  /\ file'[f] \in Client
                     /\ inbox[file'[f]] > 0 \/ health[file'[f]] # "up"
      <3>1. socksClients'[i].sock # NoFd
        BY <2>1, Descriptors DEF TypeOK
      <3>2. Readable(socksClients'[i].sock)
        <4>1. /\ old(i) \in DOMAIN socksClients /\ old(i) >= cursor
              /\ socksClients'[i] = socksClients[old(i)]
          BY <1>6, <2>1
        <4>2. Readable(socksClients[old(i)].sock)
          BY <1>3, <2>1, <4>1 DEF ReadyInv
        <4> QED
          BY <4>1, <4>2
      <3>3. /\ file[socksClients'[i].sock] \in Client
            /\ file'[socksClients'[i].sock] = file[socksClients'[i].sock]
        BY <1>10, <3>1
      <3> QED
        BY <3>2, <3>3, ReadableClient
    <2>2. ASSUME serverPc # "destroyed", NEW i \in DOMAIN socksClients',
                 i >= cursor,
                 socksClients'[i].sock \in socksAll,
                 socksClients'[i].ssl = "ok"
          PROVE  Readable(socksClients[i].sock)'
      BY <1>2, <2>1, <2>2 DEF Readable
    <2> QED
      BY <1>2, <1>3, <2>2 DEF ReadyInv
  <1>17. WalkInv'
    <2>1. ASSUME NEW i \in DOMAIN socksClients', i < cursor
          PROVE  socksClients'[i].peer \in visited
      BY <1>3, <1>6, <2>1 DEF WalkInv, WalkSkipsNobody
    <2> QED
      BY <1>2, <1>3, <2>1 DEF WalkInv, WalkSkipsNobody
  <1> QED
    BY <1>1, <1>11, <1>12, <1>13, <1>14, <1>15, <1>16, <1>17

----------------------------------------------------------------------------
(* The clients.                                                            *)

LEMMA ClientKeeps ==
    ASSUME HomeInv, ClientNext
    PROVE  HomeInv'
  <1> USE DEF HomeInv, objectVars, loopVars, historyVars, processVars
  <1>1. TypeOK'
    BY TypeClient
  <1>2. PICK c \in Client :
           ClientConnects(c) \/ ClientSends(c) \/ ClientLeaves(c)
    BY DEF ClientNext
  <1>3. UNCHANGED <<serverPc, homePc, sockServer, sockMax, socksClients,
                    socksAll, cursor, client, file, visited>>
    BY <1>2 DEF ClientConnects, ClientSends, ClientLeaves
  <1>4. \A d \in Client : /\ conn[d] = "accepted" => conn'[d] = "accepted"
                          /\ conn[d] = "queued" => conn'[d] = "queued"
                          /\ inbox[d] > 0 => inbox'[d] > 0
                          /\ health[d] # "up" => health'[d] # "up"
    <2>1. CASE ClientConnects(c)
      BY <2>1 DEF ClientConnects, TypeOK
    <2>2. CASE ClientSends(c)
      BY <2>2 DEF ClientSends, TypeOK
    <2>3. CASE ClientLeaves(c)
      BY <2>3 DEF ClientLeaves, TypeOK
    <2> QED
      BY <1>2, <2>1, <2>2, <2>3
  <1>5. ServerInv' /\ MaxInv' /\ HostInv' /\ WalkInv'
    BY <1>3 DEF ServerInv, MaxInv, HostInv, WalkInv, WalkSkipsNobody
  <1>6. FileInv'
    BY <1>3, <1>4 DEF FileInv
  <1>7. AcceptInv'
    BY <1>3 DEF AcceptInv, ClientFds
  <1>8. ASSUME NEW f, Readable(f)
        PROVE  (file[f] = "server" /\ \E d \in Client : conn'[d] = "queued")
               \/ (file[f] \in Client
                   /\ (inbox'[file[f]] > 0 \/ health'[file[f]] # "up"))
    BY <1>4, <1>8 DEF Readable
  <1>9. ReadyInv'
    <2>1. ASSUME NEW i \in DOMAIN socksClients, Readable(socksClients[i].sock)
          PROVE  Readable(socksClients[i].sock)'
      BY <1>3, <1>8, <2>1 DEF Readable
    <2>2. ClientFds' = ClientFds
      BY <1>3 DEF ClientFds
    <2> QED
      BY <1>3, <2>1, <2>2 DEF ReadyInv
  <1> QED
    BY <1>1, <1>5, <1>6, <1>7, <1>9

----------------------------------------------------------------------------
(* The theorems.                                                           *)

LEMMA HomeInvInit == Init => HomeInv
  <1> SUFFICES ASSUME Init PROVE HomeInv
    OBVIOUS
  <1>1. TypeOK
    BY TypeInit
  <1>2. DOMAIN socksClients = {}
    BY DEF Init
  <1>3. \A f \in Fd : file[f] \notin Client
    BY ReservedAssumption DEF Init
  <1> QED
    BY <1>1, <1>2, <1>3 DEF Init, HomeInv, ServerInv, MaxInv, FileInv, HostInv,
       AcceptInv, ReadyInv, WalkInv, WalkSkipsNobody

LEMMA HomeInvStep == HomeInv /\ [Next]_vars => HomeInv'
  <1> SUFFICES ASSUME HomeInv, [Next]_vars PROVE HomeInv'
    OBVIOUS
  <1>1. CASE MainNext
    BY <1>1, MainKeeps
  <1>2. CASE HomeNext
    BY <1>2, PrepareKeeps, CrashKeeps, SelectKeeps, AcceptKeeps, HandshakeKeeps,
       AdvanceKeeps, RemoveKeeps
    DEF HomeNext, Read
  <1>3. CASE ClientNext
    BY <1>3, ClientKeeps
  <1>4. CASE UNCHANGED vars
    BY <1>4 DEF vars, objectVars, loopVars, clientVars, historyVars, HomeInv,
       TypeOK, ServerInv, MaxInv, FileInv, HostInv, AcceptInv, ReadyInv,
       WalkInv, WalkSkipsNobody, ClientFds, Readable
  <1> QED
    BY <1>1, <1>2, <1>3, <1>4 DEF Next

(* The receive loop keeps its inductive invariant whatever the clients, the *)
(* destructor and the descriptor table do.                                 *)
THEOREM HomeInvariant == Spec => []HomeInv
  <1>1. Init => HomeInv
    BY HomeInvInit
  <1>2. HomeInv /\ [Next]_vars => HomeInv'
    BY HomeInvStep
  <1> QED
    BY <1>1, <1>2, PTL DEF Spec

(* Every variable of the server keeps its type.                            *)
THEOREM HomeTyped == Spec => []TypeOK
  <1>1. HomeInv => TypeOK
    BY DEF HomeInv
  <1> QED
    BY <1>1, HomeInvariant, PTL

(* sockMax covers the listening socket and every client when select() is    *)
(* called, although it never goes down.                                    *)
THEOREM SelectLooksEverywhere == Spec => []SelectCoversAll
  <1>1. HomeInv => SelectCoversAll
    BY DEF HomeInv, SelectCoversAll, MaxInv, ServerInv, ClientFds
  <1> QED
    BY <1>1, HomeInvariant, PTL

(* The list of clients and the descriptor table agree: nothing is leaked,   *)
(* shared or closed under its owner.                                       *)
THEOREM NothingLeaked == Spec => []HostsOwnSockets
  <1>1. HomeInv => HostsOwnSockets
    BY DEF HomeInv, HostsOwnSockets, HostInv, AcceptInv
  <1> QED
    BY <1>1, HomeInvariant, PTL

(* SSL_read is only called where select() saw something to read, or where   *)
(* the handshake has failed, until the server is destroyed.                *)
THEOREM LoopDoesNotBlock == Spec => []ReadsDoNotBlock
  <1>1. HomeInv => ReadsDoNotBlock
    <2> SUFFICES ASSUME HomeInv, Scanning, IsReady(current),
                        serverPc # "destroyed", current.ssl # "failed"
                 PROVE  Readable(current.sock)
      BY DEF ReadsDoNotBlock
    <2>1. TypeOK /\ WalkInv /\ ReadyInv
      BY DEF HomeInv
    <2>2. cursor \in DOMAIN socksClients /\ current \in Host
      BY <2>1, CurrentHost
    <2>3. current.ssl = "ok" /\ cursor >= cursor
      BY <2>1, <2>2 DEF Host, TypeOK
    <2> QED
      BY <2>1, <2>2, <2>3 DEF ReadyInv, Scanning, IsReady, current
  <1> QED
    BY <1>1, HomeInvariant, PTL

(* The walk has been at every client before the cursor, although it erases  *)
(* clients on its way.                                                     *)
THEOREM WalkIsComplete == Spec => []WalkSkipsNobody
  <1>1. HomeInv => WalkSkipsNobody
    BY DEF HomeInv, WalkInv
  <1> QED
    BY <1>1, HomeInvariant, PTL

----------------------------------------------------------------------------
(* The list of clients implements ClientList.                              *)

Peer == Client \union {NoClient}

(* The peers of a list of hosts are a sequence as long as the list.          *)
LEMMA PeersOfHosts ==
    ASSUME NEW s \in Seq(Host)
    PROVE  LET q == [i \in DOMAIN s |-> s[i].peer]
           IN  /\ q \in Seq(Peer)
               /\ Len(q) = Len(s)
               /\ DOMAIN q = 1..Len(s)
               /\ \A i \in 1..Len(s) : q[i] = s[i].peer
  <1> DEFINE q == [i \in DOMAIN s |-> s[i].peer]
  <1>1. Len(s) \in Nat /\ DOMAIN s = 1..Len(s)
    BY LenProperties
  <1>2. \A i \in 1..Len(s) : s[i].peer \in Peer
    <2> TAKE i \in 1..Len(s)
    <2>1. s[i] \in Host
      BY ElementOfSeq
    <2> QED
      BY <2>1 DEF Host, Peer
  <1>3. q \in [1..Len(s) -> Peer]
    BY <1>1, <1>2
  <1>4. q \in Seq(Peer)
    BY <1>1, <1>3, SeqDef
  <1>5. Len(q) = Len(s)
    BY <1>1, <1>3, <1>4, LenProperties
  <1> QED
    BY <1>1, <1>3, <1>4, <1>5

(* A new host adds its peer at the end of the list ...                      *)
LEMMA PeersAppended ==
    ASSUME HomeInv, NEW s \in {"ok", "failed"}, NEW p \in Peer, AddHost(s, p)
    PROVE  peers' = Append(peers, p)
  <1> DEFINE n == Len(socksClients)
  <1>1. socksClients \in Seq(Host) /\ client \in Fd \union {NoFd}
    BY DEF HomeInv, TypeOK
  <1>2. /\ socksClients' \in Seq(Host)
        /\ Len(socksClients') = n + 1
        /\ \A i \in DOMAIN socksClients : socksClients'[i] = socksClients[i]
        /\ socksClients'[n + 1] = [sock |-> client, ssl |-> s, peer |-> p]
    BY <1>1, AddHostList DEF Peer
  <1>3. n \in Nat /\ DOMAIN socksClients = 1..n
    BY <1>1, LenProperties
  <1>4. /\ peers \in Seq(Peer) /\ Len(peers) = n
        /\ \A i \in 1..n : peers[i] = socksClients[i].peer
    BY <1>1, PeersOfHosts DEF peers
  <1>5. /\ peers' \in Seq(Peer) /\ Len(peers') = n + 1
        /\ \A i \in 1..(n + 1) : peers'[i] = socksClients'[i].peer
    BY <1>2, PeersOfHosts DEF peers
  <1>6. /\ Append(peers, p) \in Seq(Peer)
        /\ Len(Append(peers, p)) = n + 1
        /\ \A i \in 1..n : Append(peers, p)[i] = peers[i]
        /\ Append(peers, p)[n + 1] = p
    BY <1>4, AppendProperties
  <1> HIDE DEF n
  <1>7. \A i \in 1..(n + 1) : peers'[i] = Append(peers, p)[i]
    <2> TAKE i \in 1..(n + 1)
    <2>1. CASE i \in 1..n
      BY <1>2, <1>3, <1>4, <1>5, <1>6, <2>1
    <2>2. CASE i = n + 1
      <3>1. peers'[n + 1] = p
        BY <1>2, <1>3, <1>5
      <3> QED
        BY <1>6, <2>2, <3>1
    <2>3. i \in 1..n \/ i = n + 1
      BY <1>3
    <2> QED
      BY <2>1, <2>2, <2>3
  <1> QED
    BY <1>5, <1>6, <1>7, SeqEqual

(* ... and a removal takes the peer under the cursor out of it.             *)
LEMMA PeersRemoved ==
    ASSUME HomeInv, cursor \in DOMAIN socksClients,
           socksClients' = RemoveAt(socksClients, cursor)
    PROVE  /\ cursor \in DOMAIN peers /\ peers[cursor] = current.peer
           /\ peers' = RemoveAt(peers, cursor)
  <1> DEFINE n == Len(socksClients)
  <1>1. socksClients \in Seq(Host) /\ n \in Nat /\ cursor \in 1..n
    BY LenProperties DEF HomeInv, TypeOK
  <1>2. /\ peers \in Seq(Peer) /\ Len(peers) = n /\ DOMAIN peers = 1..n
        /\ \A i \in 1..n : peers[i] = socksClients[i].peer
    BY <1>1, PeersOfHosts DEF peers
  <1>3. /\ socksClients' \in Seq(Host) /\ Len(socksClients') = n - 1
        /\ \A i \in 1..(cursor - 1) : socksClients'[i] = socksClients[i]
        /\ \A i \in cursor..(n - 1) : socksClients'[i] = socksClients[i + 1]
    BY <1>1, RemovedList
  <1>4. /\ peers' \in Seq(Peer) /\ Len(peers') = n - 1
        /\ \A i \in 1..(n - 1) : peers'[i] = socksClients'[i].peer
    BY <1>3, PeersOfHosts DEF peers
  <1> HIDE DEF n
  <1>5. /\ RemoveAt(peers, cursor) \in Seq(Peer)
        /\ Len(RemoveAt(peers, cursor)) = n - 1
        /\ \A i \in 1..(cursor - 1) : RemoveAt(peers, cursor)[i] = peers[i]
        /\ \A i \in cursor..(n - 1) : RemoveAt(peers, cursor)[i] = peers[i + 1]
    <2>1. cursor \in 1..Len(peers) /\ Len(peers) = n
      BY <1>1, <1>2
    <2>2. /\ RemoveAt(peers, cursor) \in Seq(Peer)
          /\ Len(RemoveAt(peers, cursor)) = Len(peers) - 1
          /\ \A i \in 1..(cursor - 1) : RemoveAt(peers, cursor)[i] = peers[i]
          /\ \A i \in cursor..(Len(peers) - 1) :
                RemoveAt(peers, cursor)[i] = peers[i + 1]
      BY <1>2, <2>1, RemoveAtProperties
    <2> QED
      BY <2>1, <2>2
  <1>6. \A i \in 1..(n - 1) : peers'[i] = RemoveAt(peers, cursor)[i]
    <2> TAKE i \in 1..(n - 1)
    <2>1. CASE i \in 1..(cursor - 1)
      <3>1. i \in 1..n
        BY <1>1
      <3>2. /\ peers'[i] = socksClients'[i].peer
            /\ socksClients'[i] = socksClients[i]
            /\ RemoveAt(peers, cursor)[i] = peers[i]
        BY <1>3, <1>4, <1>5, <2>1
      <3> QED
        BY <1>2, <3>1, <3>2
    <2>2. CASE i \in cursor..(n - 1)
      <3>1. i + 1 \in 1..n
        BY <1>1
      <3> QED
        BY <1>2, <1>3, <1>4, <1>5, <2>2, <3>1
    <2>3. i \in 1..(cursor - 1) \/ i \in cursor..(n - 1)
      BY <1>1
    <2> QED
      BY <2>1, <2>2, <2>3
  <1>7. peers' = RemoveAt(peers, cursor)
    BY <1>4, <1>5, <1>6, SeqEqual
  <1> QED
    BY <1>1, <1>2, <1>7 DEF current

(* The connection that is being accepted is neither on the list nor gone.    *)
LEMMA NewcomerIsNew ==
    ASSUME HomeInv, homePc = "handshake", client # NoFd
    PROVE  /\ file[client] \in Client
           /\ file[client] \notin ToSet(peers) \union closed
  <1>1. client \in Fd /\ file[client] \in Client /\ client \notin ClientFds
    BY DEF HomeInv, AcceptInv, TypeOK
  <1>2. conn[file[client]] = "accepted"
    BY <1>1 DEF HomeInv, FileInv
  <1>3. ASSUME NEW i \in DOMAIN socksClients,
               socksClients[i].peer = file[client]
        PROVE  FALSE
    <2>1. socksClients[i].sock # NoFd
      BY <1>1, <1>3, NoClientAssumption DEF HomeInv, HostInv
    <2>2. socksClients[i].sock \in Fd
          /\ file[socksClients[i].sock] = file[client]
      BY <1>3, <2>1, SocketOf DEF HomeInv
    <2>3. socksClients[i].sock = client
      BY <1>1, <2>2 DEF HomeInv, FileInv
    <2> QED
      BY <1>1, <2>3 DEF ClientFds
  <1> QED
    BY <1>1, <1>2, <1>3 DEF ToSet, peers, closed

LEMMA ListInit == Init => List!Init
  <1> SUFFICES ASSUME Init PROVE peers = <<>> /\ closed = {}
    BY DEF List!Init
  <1>1. socksClients = <<>> /\ \A c \in Client : conn[c] = "away"
    BY DEF Init
  <1>2. peers = <<>>
    BY <1>1 DEF peers
  <1> QED
    BY <1>1, <1>2 DEF closed

(* Every step leaves the list alone, or is one of ClientList.               *)
LEMMA ListStep == HomeInv /\ [Next]_vars => [List!Next]_(List!vars)
  <1> SUFFICES ASSUME HomeInv, [Next]_vars PROVE [List!Next]_(List!vars)
    OBVIOUS
  <1> USE DEF objectVars, loopVars, clientVars, historyVars, processVars
  <1>1. CASE socksClients' = socksClients /\ closed' = closed
    <2>1. peers' = peers
      BY <1>1 DEF peers
    <2> QED
      BY <1>1, <2>1 DEF List!vars
  <1>2. CASE Handshake
    <2>1. closed' = closed
      BY <1>2 DEF Handshake, closed
    <2>2. CASE client = NoFd
      <3>1. AddHost("failed", NoClient)
        BY <1>2, <2>2 DEF Handshake
      <3>2. peers' = Append(peers, NoClient)
        BY <3>1, PeersAppended DEF Peer
      <3> QED
        BY <2>1, <3>2, NoClientAssumption DEF List!Next, List!Join
    <2>3. CASE client # NoFd
      <3>1. /\ file[client] \in Client
            /\ file[client] \notin ToSet(peers) \union closed
        BY <1>2, <2>3, NewcomerIsNew DEF Handshake
      <3>2. PICK s \in {"ok", "failed"} : AddHost(s, file[client])
        BY <1>2, <2>3 DEF Handshake
      <3>3. peers' = Append(peers, file[client])
        BY <3>1, <3>2, PeersAppended DEF Peer
      <3>4. List!Join(file[client])
        BY <2>1, <3>1, <3>3 DEF List!Join, List!ToSet, ToSet
      <3> QED
        BY <3>1, <3>4 DEF List!Next
    <2> QED
      BY <2>2, <2>3
  <1>3. CASE RemoveClient
    <2>1. /\ Scanning /\ IsReady(current)
          /\ socksClients' = RemoveAt(socksClients, cursor)
          /\ conn' = [conn EXCEPT ![current.peer] = "closed"]
      BY <1>3 DEF RemoveClient, Erase
    <2>2. cursor \in DOMAIN socksClients /\ current.peer \in Client
      BY <2>1, CurrentHost, CurrentClient DEF HomeInv
    <2>3. /\ cursor \in DOMAIN peers /\ peers[cursor] = current.peer
          /\ peers' = RemoveAt(peers, cursor)
      BY <2>1, <2>2, PeersRemoved
    <2>4. closed' = closed \union {current.peer}
      BY <2>1, <2>2 DEF closed, HomeInv, TypeOK
    <2>5. List!Leave(current.peer)
      BY <2>3, <2>4 DEF List!Leave, List!RemoveAt, RemoveAt
    <2> QED
      BY <2>2, <2>5 DEF List!Next
  <1>4. CASE MainNext \/ UNCHANGED vars
    <2>1. UNCHANGED <<socksClients, conn>>
      BY <1>4 DEF MainNext, InitServer, Start, Destroy, vars
    <2> QED
      BY <1>1, <2>1 DEF closed
  <1>5. CASE HomeNext /\ ~Handshake /\ ~RemoveClient /\ ~Accept
    <2>1. UNCHANGED <<socksClients, conn>>
      BY <1>5 DEF HomeNext, Read, TestConnected, FillSocksAll, Select, Skip,
         ReadPacket, ReadError, EndScan, UseDestroyed
    <2> QED
      BY <1>1, <2>1 DEF closed
  <1>6. CASE Accept
    <2>1. socksClients' = socksClients
      BY <1>6 DEF Accept
    <2>2. \/ conn' = conn
          \/ \E c \in Client : /\ conn[c] = "queued"
                               /\ conn' = [conn EXCEPT ![c] = "accepted"]
      BY <1>6 DEF Accept
    <2>3. \A d \in Client : conn'[d] = "closed" <=> conn[d] = "closed"
      BY <2>2 DEF HomeInv, TypeOK
    <2> QED
      BY <1>1, <2>1, <2>3 DEF closed
  <1>7. CASE ClientNext
    <2>1. PICK c \in Client :
             ClientConnects(c) \/ ClientSends(c) \/ ClientLeaves(c)
      BY <1>7 DEF ClientNext
    <2>2. socksClients' = socksClients
      BY <2>1 DEF ClientConnects, ClientSends, ClientLeaves
    <2>3. \/ conn' = conn
          \/ conn[c] = "away" /\ conn' = [conn EXCEPT ![c] = "queued"]
      BY <2>1 DEF ClientConnects, ClientSends, ClientLeaves
    <2>4. \A d \in Client : conn'[d] = "closed" <=> conn[d] = "closed"
      BY <2>1, <2>3 DEF HomeInv, TypeOK
    <2> QED
      BY <1>1, <2>2, <2>4 DEF closed
  <1> QED
    BY <1>2, <1>3, <1>4, <1>5, <1>6, <1>7 DEF Next

(* Whatever clients, select() and the destructor do, the list changes as     *)
(* onKnxReceive, which walks over it in another thread, may expect: clients  *)
(* are added at the end, each once, and taken out one at a time, for good.   *)
THEOREM ImplementsList == Spec => ListSpec
  BY ListInit, ListStep, HomeInvariant, PTL DEF Spec, ListSpec, List!Spec
============================================================================
