-------------------------- MODULE KnxServerProofs --------------------------
(***************************************************************************)
(* Proofs about the server program: its database is whole when it connects  *)
(* to the bus, its home server is not destroyed under a telegram, the walk  *)
(* over the list of clients misses none that stay and strays off the list    *)
(* only over a removal.                                                     *)
(***************************************************************************)
EXTENDS KnxServer, ListLemmas

StorageFacts == INSTANCE ServerStorageProofs
----------------------------------------------------------------------------
(* The database.                                                           *)

(* Until main connects the database is as Save::init() alone leaves it.      *)
StorageKept == mainPc = "connect" => StorageFacts!StorageInv

LEMMA KeptInit == Init => StorageKept
  <1>1. Init => StorageFacts!Init
    BY DEF Init, Storage!Init, StorageFacts!Init, Storage!Entries,
           StorageFacts!Entries
  <1> QED
    BY <1>1, StorageFacts!StorageInit DEF StorageKept

(* The steps of the database are those of ServerStorage.                    *)
LEMMA SameSteps == Storage!Next => StorageFacts!Next
  BY DEF Storage!Next, StorageFacts!Next, Storage!Goes, StorageFacts!Goes,
         Storage!OpenDatabase, StorageFacts!OpenDatabase,
         Storage!DeleteContent, StorageFacts!DeleteContent,
         Storage!BeginTransaction, StorageFacts!BeginTransaction,
         Storage!InsertRow, StorageFacts!InsertRow,
         Storage!OneMore, StorageFacts!OneMore,
         Storage!Entries, StorageFacts!Entries,
         Storage!EndTransaction, StorageFacts!EndTransaction,
         Storage!Restart, StorageFacts!Restart

LEMMA KeptStep == StorageKept /\ [Next]_vars => StorageKept'
  <1> SUFFICES ASSUME StorageKept, [Next]_vars, mainPc' = "connect"
               PROVE  StorageFacts!StorageInv'
    BY DEF StorageKept
  <1>1. CASE InitStorage
    <2>1. StorageFacts!StorageInv
      BY <1>1 DEF StorageKept, InitStorage
    <2>2. [StorageFacts!Next]_(StorageFacts!saveVars)
      BY <1>1, SameSteps DEF InitStorage
    <2> QED
      BY <2>1, <2>2, StorageFacts!StorageStep
  <1>2. CASE ~InitStorage
    <2>1. mainPc = "connect" /\ UNCHANGED database
      BY <1>2 DEF Next, MainNext, KnxNext, HomeNext, vars, mainVars, Connect,
                  Create, InitHome, StartHome, Disconnect, Join, Destroy,
                  Exit, Receive, Begin, Send, Advance, Acknowledge,
                  CloseSocket, NotifyDisconnect, AddClient, ForwardToBus,
                  UseNoPacket, ReadPacket, OverflowFdSet, UseDestroyed,
                  FreeHost, EraseNode, Leave
    <2>2. StorageFacts!StorageInv
      BY <2>1 DEF StorageKept
    <2>3. [StorageFacts!Next]_(StorageFacts!saveVars)
      BY <2>1 DEF database, StorageFacts!saveVars
    <2> QED
      BY <2>2, <2>3, StorageFacts!StorageStep
  <1> QED
    BY <1>1, <1>2

(* main connects only over a database with all entries, and whenever the     *)
(* start is cut short it holds all of them or none; unless a statement      *)
(* failed.                                                                  *)
THEOREM DatabaseWhole == Spec => []DataWhole
  <1>1. StorageKept => DataWhole
    BY DEF StorageKept, DataWhole, Storage!DataWhole, Storage!Entries,
           StorageFacts!StorageInv, StorageFacts!Progress,
           StorageFacts!Entries
  <1> QED
    BY <1>1, KeptInit, KeptStep, PTL DEF Spec
----------------------------------------------------------------------------
(* The end of main().                                                       *)

(* A telegram is in hand exactly while onKnxReceive runs.                    *)
InHand ==
    /\ acked \in Nat
    /\ knxPc \in {"none", "receive", "forward", "send", "next", "ack",
                  "closed", "exited"}
    /\ delivered = IF knxPc \in {"forward", "send", "next", "ack"}
                   THEN acked + 1 ELSE acked

(* main destroys the server after it has joined the thread, and a thread    *)
(* that has ended or never began stays so.                                 *)
JoinedFirst ==
    /\ mainPc = "connect" => knxPc = "none"
    /\ mainPc \in {"destroy", "exit", "exited"} => knxPc \in {"exited", "none"}
    /\ server = "destroyed" => mainPc \in {"exit", "exited"}

LEMMA EndInit == Init => InHand /\ JoinedFirst
  BY DEF Init, Session!Init, InHand, JoinedFirst

LEMMA HandStep == InHand /\ JoinedFirst /\ [Next]_vars => InHand'
  <1> SUFFICES ASSUME InHand, JoinedFirst, [Next]_vars PROVE InHand'
    OBVIOUS
  <1> USE DEF InHand
  <1>1. CASE Connect
    BY <1>1 DEF JoinedFirst, Connect, Session!Open, Session!Fail
  <1>2. CASE Receive
    BY <1>2 DEF Receive, Session!Deliver
  <1>3. CASE Begin
    BY <1>3 DEF Begin, session
  <1>4. CASE Send
    BY <1>4 DEF Send, session
  <1>5. CASE Advance
    BY <1>5 DEF Advance, session
  <1>6. CASE Acknowledge
    BY <1>6 DEF Acknowledge, Session!Acknowledge
  <1>7. CASE CloseSocket
    BY <1>7 DEF CloseSocket, session
  <1>8. CASE NotifyDisconnect
    BY <1>8 DEF NotifyDisconnect, Session!End
  <1>9. CASE ~(Connect \/ KnxNext)
    <2>1. UNCHANGED <<session, knxPc>>
      BY <1>9 DEF Next, MainNext, HomeNext, vars, tunnelVars, InitStorage,
                  Create, InitHome, StartHome, Disconnect, Join, Destroy,
                  Exit, AddClient, ForwardToBus, UseNoPacket, ReadPacket,
                  OverflowFdSet, UseDestroyed, FreeHost, EraseNode, Leave
    <2> QED
      BY <2>1 DEF session
  <1> QED
    BY <1>1, <1>2, <1>3, <1>4, <1>5, <1>6, <1>7, <1>8, <1>9 DEF KnxNext

LEMMA JoinedStep == InHand /\ JoinedFirst /\ [Next]_vars => JoinedFirst'
  <1> SUFFICES ASSUME InHand, JoinedFirst, [Next]_vars PROVE JoinedFirst'
    OBVIOUS
  <1> USE DEF JoinedFirst
  <1>1. CASE MainNext
    BY <1>1 DEF MainNext, InitStorage, Connect, Create, InitHome, StartHome,
                Disconnect, Join, Joinable, Destroy, Exit, mainVars, tunnelVars
  <1>2. CASE KnxNext
    BY <1>2 DEF KnxNext, Receive, Begin, Send, Advance, Acknowledge,
                CloseSocket, NotifyDisconnect, mainVars
  <1>3. CASE ~(MainNext \/ KnxNext)
    BY <1>3 DEF Next, HomeNext, vars, mainVars, tunnelVars, AddClient,
                ForwardToBus, UseNoPacket, ReadPacket, OverflowFdSet,
                UseDestroyed, FreeHost, EraseNode, Leave
  <1> QED
    BY <1>1, <1>2, <1>3

(* When main destroys the home server no telegram is in the hands of the     *)
(* tunnel's thread, and none can come.                                      *)
THEOREM DestroyedUnused == Spec => []NoCallOnDestroyed
  <1>1. InHand /\ JoinedFirst => NoCallOnDestroyed
    BY DEF InHand, JoinedFirst, NoCallOnDestroyed
  <1>2. Init => InHand /\ JoinedFirst
    BY EndInit
  <1>3. InHand /\ JoinedFirst /\ [Next]_vars => (InHand /\ JoinedFirst)'
    BY HandStep, JoinedStep
  <1> QED
    BY <1>1, <1>2, <1>3, PTL DEF Spec
----------------------------------------------------------------------------
(* The list of clients and the walk over it.                                *)

Listed == {c \in Client : memory[c] \in {"used", "hostFreed"}}

(* On the list is every client with a node, once.  The one whose Host was     *)
(* freed is the one being removed.                                          *)
ListInv ==
    /\ hosts \in Seq(Client)
    /\ \A i, j \in DOMAIN hosts : hosts[i] = hosts[j] => i = j
    /\ \A c \in Client : c \in Listed <=> \E i \in DOMAIN hosts : hosts[i] = c
    /\ \A c \in Client :
          memory[c] = "hostFreed" <=> homePc = "erase" /\ leaver = c
    /\ homePc = "erase" => leaver \in Client
    /\ mainPc \in {"connect", "create", "init", "start"} => homePc = "none"

(* A node is made for an app that connects, and lost only by one that left.  *)
NodeInv ==
    \A c \in Client :
        /\ memory[c] = "none" <=> app[c] = "away"
        /\ memory[c] \notin {"none", "used"} => app[c] = "left"

(* The iterator is at what is or was a node.  If no client was removed since  *)
(* the telegram came, it is at a client of the list, and those before it     *)
(* that were there all the time have been sent the telegram.                *)
AtInv == knxPc \in {"send", "next"} => at \in Client /\ memory[at] # "none"

Sent(last) == \A i \in 1 .. last : hosts[i] \in stayed => hosts[i] \in got

WalkInv ==
    knxPc \in {"forward", "send", "next", "ack"} /\ ~removed =>
        /\ homePc # "erase"
        /\ stayed \subseteq Listed
        /\ knxPc \in {"send", "next"} =>
              \E i \in DOMAIN hosts :
                  at = hosts[i] /\ Sent(IF knxPc = "send" THEN i - 1 ELSE i)
        /\ knxPc = "ack" => stayed \subseteq got

NodeTypes ==
    /\ memory \in [Client -> {"none", "used", "hostFreed", "freed"} \union Client]
    /\ app \in [Client -> {"away", "up", "left"}]

LEMMA NodeTypesStep == NodeTypes /\ [Next]_vars => NodeTypes'
  <1> SUFFICES ASSUME NodeTypes, [Next]_vars PROVE NodeTypes'
    OBVIOUS
  <1>1. ASSUME NEW c \in Client, AddClient(c) \/ FreeHost(c) \/ Leave(c)
        PROVE  NodeTypes'
    <2>1. ASSUME NEW old PROVE Placed(c, old) \in
                 [Client -> {"none", "used", "hostFreed", "freed"} \union Client]
      BY DEF Placed, NodeTypes
    <2> QED
      BY <1>1, <2>1 DEF AddClient, FreeHost, Leave, NodeTypes
  <1>2. CASE EraseNode
    BY <1>2 DEF EraseNode, NodeTypes
  <1>3. CASE ~(EraseNode \/ \E c \in Client :
                                AddClient(c) \/ FreeHost(c) \/ Leave(c))
    <2>1. UNCHANGED <<memory, app>>
      BY <1>3 DEF Next, MainNext, KnxNext, HomeNext, vars, homeVars,
                  InitStorage, Connect, Create, InitHome, StartHome,
                  Disconnect, Join, Destroy, Exit, Receive, Begin, Send,
                  Advance, Acknowledge, CloseSocket, NotifyDisconnect,
                  ForwardToBus, UseNoPacket, ReadPacket, OverflowFdSet,
                  UseDestroyed
    <2> QED
      BY <2>1 DEF NodeTypes
  <1> QED
    BY <1>1, <1>2, <1>3

ListVars == <<hosts, memory, app, homePc, leaver>>

LEMMA Names ==
    \A c \in Client \union {Nobody} :
        c \notin {"none", "used", "hostFreed", "freed"}
  BY NameAssumption

(* The list, as the iterator sees it.                                        *)
LEMMA FirstOf ==
    ASSUME ListInv
    PROVE  \/ hosts = <<>> /\ First = Nobody
           \/ hosts # <<>> /\ 1 \in DOMAIN hosts /\ First = hosts[1]
  <1>1. hosts \in Seq(Client)
    BY DEF ListInv
  <1>2. CASE hosts = <<>>
    BY <1>2 DEF First
  <1>3. CASE hosts # <<>>
    <2>1. Len(hosts) \in Nat \ {0} /\ DOMAIN hosts = 1 .. Len(hosts)
      BY <1>1, <1>3
    <2>2. 1 \in DOMAIN hosts
      BY <2>1
    <2>3. First = hosts[1]
      BY <1>1, <1>3 DEF First
    <2> QED
      BY <1>3, <2>2, <2>3
  <1> QED
    BY <1>2, <1>3

(* The iterator's next step from a client of the list.                     *)
LEMMA AfterOf ==
    ASSUME ListInv, NEW i \in DOMAIN hosts
    PROVE  \/ i = Len(hosts) /\ After(hosts[i]) = Nobody
           \/ /\ i # Len(hosts) /\ i + 1 \in DOMAIN hosts
              /\ After(hosts[i]) = hosts[i + 1]
  <1>1. /\ DOMAIN hosts = 1 .. Len(hosts) /\ Len(hosts) \in Nat
        /\ \A j \in DOMAIN hosts : hosts[j] = hosts[i] => j = i
    BY LenProperties DEF ListInv
  <1>2. (CHOOSE j \in DOMAIN hosts : hosts[j] = hosts[i]) = i
    BY <1>1
  <1>3. After(hosts[i]) = IF i = Len(hosts) THEN Nobody ELSE hosts[i + 1]
    BY <1>2 DEF After
  <1>4. i # Len(hosts) => i + 1 \in DOMAIN hosts
    BY <1>1
  <1> QED
    BY <1>3, <1>4

(* What is on the list are clients with a node.                            *)
LEMMA Elements ==
    ASSUME ListInv, NEW i \in DOMAIN hosts
    PROVE  hosts[i] \in Client /\ hosts[i] \in Listed /\ hosts[i] # Nobody
  <1>1. hosts[i] \in Client
    BY ElementOfSeq DEF ListInv
  <1> QED
    BY <1>1, NobodyAssumption DEF ListInv

(* A client that joins takes the memory of nobody who still has a node.      *)
LEMMA PlacedMemory ==
    ASSUME NEW c \in Client, memory[c] = "none",
           NEW old \in {d \in Client : memory[d] = "freed"} \union {Nobody},
           memory' = Placed(c, old)
    PROVE  /\ memory'[c] = "used"
           /\ \A d \in Client \ {c} :
                 \/ memory'[d] = memory[d]
                 \/ memory'[d] = c
                        /\ memory[d] \notin {"none", "used", "hostFreed"}
  <1>1. memory'[c] = "used"
    BY DEF Placed
  <1>2. ASSUME NEW d \in Client \ {c}
        PROVE  \/ memory'[d] = memory[d]
               \/ memory'[d] = c
                      /\ memory[d] \notin {"none", "used", "hostFreed"}
    <2>1. memory'[d] = IF old \in {d, memory[d]} THEN c ELSE memory[d]
      BY DEF Placed
    <2>2. CASE old = d
      <3>1. memory[d] = "freed"
        BY <2>2, NobodyAssumption
      <3> QED
        BY <2>1, <3>1
    <2>3. CASE old = memory[d]
      <3>1. memory[d] \notin {"none", "used", "hostFreed"}
        BY <2>3, Names
      <3> QED
        BY <2>1, <3>1
    <2> QED
      BY <2>1, <2>2, <2>3
  <1> QED
    BY <1>1, <1>2

(* Joins and removals keep the list and the nodes together.                *)
LEMMA ListStep ==
    NodeTypes /\ ListInv /\ NodeInv /\ [Next]_vars => ListInv' /\ NodeInv'
  <1> SUFFICES ASSUME NodeTypes, ListInv, NodeInv, [Next]_vars
               PROVE  ListInv' /\ NodeInv'
    OBVIOUS
  <1>n. /\ hosts \in Seq(Client)
        /\ \A i, j \in DOMAIN hosts : hosts[i] = hosts[j] => i = j
    BY DEF ListInv
  <1>1. ASSUME NEW c \in Client, AddClient(c) PROVE ListInv' /\ NodeInv'
    <2>1. /\ HomeRuns /\ app[c] = "away" /\ app' = [app EXCEPT ![c] = "up"]
          /\ UNCHANGED <<homePc, leaver, mainPc>>
      BY <1>1 DEF AddClient, mainVars
    <2>2. memory[c] = "none"
      BY <2>1 DEF NodeInv
    <2>3. /\ memory'[c] = "used"
          /\ \A d \in Client \ {c} :
                \/ memory'[d] = memory[d]
                \/ memory'[d] = c
                       /\ memory[d] \notin {"none", "used", "hostFreed"}
      <3>1. PICK old \in {d \in Client : memory[d] = "freed"} \union {Nobody} :
               memory' = Placed(c, old)
        BY <1>1 DEF AddClient
      <3> QED
        BY <2>2, <3>1, PlacedMemory
    <2>4. \A d \in Client \ {c} : \A name \in {"none", "used", "hostFreed"} :
              memory'[d] = name <=> memory[d] = name
      BY <2>3, Names
    <2>5. \A d \in Client : d \in Listed' <=> d \in Listed \/ d = c
      BY <2>3, <2>4 DEF Listed
    <2>6. c \notin Listed
      BY <2>2 DEF Listed
    <2>7. \A i \in DOMAIN hosts : hosts[i] # c
      BY <2>6 DEF ListInv
    <2>8. hosts' = Append(hosts, c)
      BY <1>1 DEF AddClient, List!Join
    <2>9. /\ hosts' \in Seq(Client)
          /\ \A i, j \in DOMAIN hosts' : hosts'[i] = hosts'[j] => i = j
          /\ \A x : (\E i \in DOMAIN hosts' : hosts'[i] = x) <=>
                        x = c \/ \E i \in DOMAIN hosts : hosts[i] = x
      BY <1>n, <2>7, <2>8, AppendOnce
    <2>10. \A d \in Client : d \in Listed' <=> \E i \in DOMAIN hosts' : hosts'[i] = d
      BY <2>5, <2>9 DEF ListInv
    <2>11. \A d \in Client :
              memory'[d] = "hostFreed" <=> homePc' = "erase" /\ leaver' = d
      <3>1. homePc # "erase"
        BY <2>1 DEF HomeRuns
      <3> QED
        BY <2>1, <2>3, <2>4, <3>1 DEF ListInv
    <2>12. ListInv'
      BY <2>1, <2>9, <2>10, <2>11 DEF ListInv
    <2>13. NodeInv'
      <3> SUFFICES ASSUME NEW d \in Client
                   PROVE  /\ memory'[d] = "none" <=> app'[d] = "away"
                          /\ memory'[d] \notin {"none", "used"} => app'[d] = "left"
        BY DEF NodeInv
      <3>1. CASE d = c
        <4>1. app'[c] # "away"
          BY <2>1 DEF NodeTypes
        <4> QED
          BY <2>3, <3>1, <4>1
      <3>2. CASE d # c
        <4>1. app'[d] = app[d]
          BY <2>1, <3>2
        <4> QED
          BY <2>4, <3>2, <4>1 DEF NodeInv
      <3> QED
        BY <3>1, <3>2
    <2> QED
      BY <2>12, <2>13
  <1>2. ASSUME NEW c \in Client, FreeHost(c) PROVE ListInv' /\ NodeInv'
    <2>1. /\ HomeRuns /\ app[c] = "left" /\ memory[c] = "used"
          /\ memory' = [memory EXCEPT ![c] = "hostFreed"]
          /\ leaver' = c /\ homePc' = "erase"
          /\ UNCHANGED <<hosts, app, mainPc>>
      BY <1>2 DEF FreeHost, AtEnd, mainVars
    <2>2. homePc = "loop"
      BY <2>1 DEF HomeRuns
    <2>3. \A d \in Client : memory'[d] = IF d = c THEN "hostFreed" ELSE memory[d]
      BY <2>1 DEF NodeTypes
    <2>4. \A d \in Client : d \in Listed' <=> d \in Listed
      BY <2>1, <2>3 DEF Listed
    <2>5. ListInv'
      BY <2>1, <2>2, <2>3, <2>4 DEF ListInv
    <2> QED
      BY <2>1, <2>3, <2>5 DEF NodeInv
  <1>3. CASE EraseNode
    <2>1. /\ homePc = "erase" /\ homePc' = "loop" /\ leaver' = Nobody
          /\ memory' = [memory EXCEPT ![leaver] = "freed"]
          /\ UNCHANGED <<app, mainPc>>
      BY <1>3 DEF EraseNode, mainVars
    <2>2. leaver \in Client /\ memory[leaver] = "hostFreed"
      BY <2>1 DEF ListInv
    <2>3. PICK k \in DOMAIN hosts : hosts[k] = leaver /\ hosts' = RemoveAt(hosts, k)
      BY <1>3 DEF EraseNode, List!Leave, List!RemoveAt, RemoveAt
    <2>4. k \in 1 .. Len(hosts)
      BY <1>n
    <2>5. /\ hosts' \in Seq(Client)
          /\ \A i, j \in DOMAIN hosts' : hosts'[i] = hosts'[j] => i = j
          /\ \A x : (\E i \in DOMAIN hosts' : hosts'[i] = x) <=>
                        x # leaver /\ \E i \in DOMAIN hosts : hosts[i] = x
      <3>1. LET r == RemoveAt(hosts, k)
            IN  /\ r \in Seq(Client)
                /\ \A i, j \in DOMAIN r : r[i] = r[j] => i = j
                /\ \A x : (\E i \in DOMAIN r : r[i] = x) <=>
                              x # hosts[k] /\ \E i \in DOMAIN hosts : hosts[i] = x
        BY <1>n, <2>4, RemoveAtOnce
      <3> QED
        BY <2>3, <3>1
    <2>6. \A d \in Client : memory'[d] = IF d = leaver THEN "freed" ELSE memory[d]
      BY <2>1 DEF NodeTypes
    <2>7. \A d \in Client : d \in Listed' <=> d \in Listed /\ d # leaver
      BY <2>6 DEF Listed
    <2>8. ListInv'
      <3>1. \A d \in Client : memory'[d] # "hostFreed"
        BY <2>1, <2>6 DEF ListInv
      <3>2. \A d \in Client : d \in Listed' <=> \E i \in DOMAIN hosts' : hosts'[i] = d
        BY <2>5, <2>7 DEF ListInv
      <3> QED
        BY <2>1, <2>5, <3>1, <3>2 DEF ListInv
    <2>9. NodeInv'
      BY <2>1, <2>2, <2>6 DEF NodeInv
    <2> QED
      BY <2>8, <2>9
  <1>4. ASSUME NEW c \in Client, Leave(c) PROVE ListInv' /\ NodeInv'
    <2>1. /\ app[c] = "up" /\ app' = [app EXCEPT ![c] = "left"]
          /\ UNCHANGED <<hosts, memory, homePc, leaver, mainPc>>
      BY <1>4 DEF Leave, mainVars
    <2>2. \A d \in Client : app'[d] = IF d = c THEN "left" ELSE app[d]
      BY <2>1 DEF NodeTypes
    <2>3. ListInv'
      BY <2>1 DEF ListInv, Listed
    <2> QED
      BY <2>1, <2>2, <2>3 DEF NodeInv
  <1>5. CASE StartHome
    <2>1. /\ UNCHANGED <<hosts, memory, app, leaver>>
          /\ homePc = "none" /\ homePc' # "erase" /\ mainPc' = "disconnect"
      BY <1>5 DEF StartHome, ListInv
    <2> QED
      BY <2>1 DEF ListInv, NodeInv, Listed
  <1>6. CASE ~(StartHome \/ EraseNode
                   \/ \E c \in Client : AddClient(c) \/ FreeHost(c) \/ Leave(c))
    <2>1. UNCHANGED ListVars
      BY <1>6 DEF Next, MainNext, KnxNext, HomeNext, ListVars, vars, homeVars,
                  InitStorage, Connect, Create, InitHome, Disconnect, Join,
                  Destroy, Exit, Receive, Begin, Send, Advance, Acknowledge,
                  CloseSocket, NotifyDisconnect, ForwardToBus, UseNoPacket,
                  ReadPacket, OverflowFdSet, UseDestroyed
    <2>2. mainPc' \in {"connect", "create", "init", "start"} =>
              mainPc \in {"connect", "create", "init", "start"}
      BY <1>6 DEF Next, MainNext, KnxNext, HomeNext, vars, mainVars,
                  InitStorage, Connect, Create, InitHome, Disconnect, Join,
                  Destroy, Exit, Receive, Begin, Send, Advance, Acknowledge,
                  CloseSocket, NotifyDisconnect, ForwardToBus, UseNoPacket,
                  ReadPacket, OverflowFdSet, UseDestroyed
    <2> QED
      BY <2>1, <2>2 DEF ListVars, ListInv, NodeInv, Listed
  <1> QED
    BY <1>1, <1>2, <1>3, <1>4, <1>5, <1>6 DEF Next, HomeNext

(* The iterator stays at what is or was a node, whoever is removed.        *)
LEMMA AtStep ==
    NodeTypes /\ ListInv /\ NodeInv /\ AtInv /\ [Next]_vars => AtInv'
  <1> SUFFICES ASSUME NodeTypes, ListInv, NodeInv, AtInv, [Next]_vars,
                      knxPc' \in {"send", "next"}
               PROVE  at' \in Client /\ memory'[at'] # "none"
    BY DEF AtInv
  <1>1. CASE Begin
    <2>1. at' = First /\ First # Nobody /\ memory' = memory
      BY <1>1 DEF Begin, homeVars
    <2>2. PICK i \in DOMAIN hosts : First = hosts[i]
      BY <2>1, FirstOf
    <2> QED
      BY <2>1, <2>2, Elements DEF Listed
  <1>2. CASE Advance
    <2>1. CASE memory[Node(at)] \in {"used", "hostFreed"}
      <3>1. at' = After(Node(at)) /\ After(Node(at)) # Nobody /\ memory' = memory
        BY <1>2, <2>1 DEF Advance, homeVars
      <3>2. Node(at) \in Client
        BY <1>2 DEF Node, Advance, AtInv
      <3>3. PICK i \in DOMAIN hosts : Node(at) = hosts[i]
        BY <2>1, <3>2 DEF ListInv, Listed
      <3>4. i + 1 \in DOMAIN hosts /\ at' = hosts[i + 1]
        BY <3>1, <3>3, AfterOf
      <3> QED
        BY <3>1, <3>4, Elements DEF Listed
    <2>2. CASE memory[Node(at)] \notin {"used", "hostFreed"}
      BY <1>2, <2>2 DEF Advance, AtInv, homeVars
    <2> QED
      BY <2>1, <2>2
  <1>3. CASE ~(Begin \/ Advance)
    <2>1. at' = at /\ knxPc \in {"send", "next"}
      BY <1>3 DEF Next, MainNext, KnxNext, HomeNext, vars, tunnelVars,
                  InitStorage, Connect, Create, InitHome, StartHome,
                  Disconnect, Join, Destroy, Exit, Receive, Send, Acknowledge,
                  CloseSocket, NotifyDisconnect, AddClient, ForwardToBus,
                  UseNoPacket, ReadPacket, OverflowFdSet, UseDestroyed,
                  FreeHost, EraseNode, Leave
    <2>2. at \in Client /\ app[at] # "away"
      BY <2>1 DEF AtInv, NodeInv
    <2>3. app'[at] # "away"
      <3>1. \/ app' = app
            \/ \E c \in Client : \E name \in {"up", "left"} :
                  app' = [app EXCEPT ![c] = name]
        BY DEF Next, MainNext, KnxNext, HomeNext, vars, homeVars, InitStorage,
               Connect, Create, InitHome, StartHome, Disconnect, Join,
               Destroy, Exit, Receive, Begin, Send, Advance, Acknowledge,
               CloseSocket, NotifyDisconnect, AddClient, ForwardToBus,
               UseNoPacket, ReadPacket, OverflowFdSet, UseDestroyed, FreeHost,
               EraseNode, Leave
      <3> QED
        BY <2>2, <3>1 DEF NodeTypes
    <2>4. NodeInv'
      BY ListStep
    <2> QED
      BY <2>1, <2>2, <2>3, <2>4 DEF NodeInv
  <1> QED
    BY <1>1, <1>2, <1>3

(* Without a removal the walk goes on from client to client, past those    *)
(* that join at the end.                                                   *)
LEMMA WalkStep ==
    NodeTypes /\ InHand /\ ListInv /\ NodeInv /\ WalkInv /\ [Next]_vars
        => WalkInv'
  <1> SUFFICES ASSUME NodeTypes, InHand, ListInv, NodeInv, WalkInv, [Next]_vars,
                      knxPc' \in {"forward", "send", "next", "ack"}, ~removed'
               PROVE  /\ homePc' # "erase"
                      /\ stayed' \subseteq Listed'
                      /\ knxPc' \in {"send", "next"} =>
                            \E i \in DOMAIN hosts' :
                                at' = hosts'[i] /\ Sent(IF knxPc = "send"
                                                        THEN i - 1 ELSE i)'
                      /\ knxPc' = "ack" => stayed' \subseteq got'
    BY DEF WalkInv
  <1>1. CASE Receive
    <2>1. /\ knxPc' = "forward" /\ removed' = (homePc = "erase")
          /\ stayed' = {c \in ToSet(hosts) : memory[c] = "used"}
          /\ UNCHANGED <<hosts, memory, homePc>>
      BY <1>1 DEF Receive, homeVars
    <2>2. \A c \in ToSet(hosts) : c \in Listed
      BY Elements DEF ToSet
    <2> QED
      BY <2>1, <2>2 DEF Listed
  <1>2. CASE Begin
    <2>1. /\ UNCHANGED <<hosts, memory, homePc, stayed, removed, got>>
          /\ knxPc = "forward"
      BY <1>2 DEF Begin, homeVars, telegramVars
    <2>2. homePc # "erase" /\ stayed \subseteq Listed
      BY <2>1 DEF WalkInv
    <2>3. Listed' = Listed
      BY <2>1 DEF Listed
    <2>4. CASE server = "null"
      BY <1>2, <2>1, <2>2, <2>3, <2>4 DEF Begin
    <2>5. CASE server # "null" /\ hosts = <<>>
      <3>1. Listed = {}
        BY <2>5 DEF ListInv, Listed
      <3>2. knxPc' = "ack"
        BY <1>2, <2>5 DEF Begin, First
      <3> QED
        BY <2>1, <2>2, <2>3, <3>1, <3>2
    <2>6. CASE server # "null" /\ hosts # <<>>
      <3>1. 1 \in DOMAIN hosts /\ First = hosts[1] /\ First # Nobody
        BY <2>6, FirstOf, Elements
      <3>2. at' = hosts[1] /\ knxPc' = "send"
        BY <1>2, <2>6, <3>1 DEF Begin
      <3>3. Sent(1 - 1)'
        BY DEF Sent
      <3> QED
        BY <2>1, <2>2, <2>3, <3>1, <3>2, <3>3
    <2> QED
      BY <2>4, <2>5, <2>6
  <1>3. CASE Send
    <2>1. /\ UNCHANGED <<hosts, memory, homePc, stayed, removed, at>>
          /\ knxPc = "send"
      BY <1>3 DEF Send, homeVars
    <2>2. homePc # "erase" /\ stayed \subseteq Listed
      BY <2>1 DEF WalkInv
    <2>3. Listed' = Listed
      BY <2>1 DEF Listed
    <2>4. PICK i \in DOMAIN hosts : at = hosts[i] /\ Sent(i - 1)
      BY <2>1 DEF WalkInv
    <2>5. CASE knxPc' = knxPc /\ got' = got
      <3>1. Sent(i - 1)'
        BY <2>1, <2>4, <2>5 DEF Sent
      <3> QED
        BY <2>1, <2>2, <2>3, <2>4, <2>5, <3>1
    <2>6. CASE /\ knxPc' = "next"
               /\ got' = got \union {c \in {Node(at)} : memory[c] = "used"}
      <3>1. at \in Client /\ memory[at] \in {"used", "hostFreed"}
        BY <2>4, Elements DEF Listed
      <3>2. memory[at] = "used"
        BY <2>2, <3>1 DEF ListInv
      <3>3. Node(at) = at
        BY <3>2, Names DEF Node
      <3>4. got' = got \union {at}
        BY <2>6, <3>2, <3>3
      <3>5. \A j \in 1 .. i : j \in 1 .. (i - 1) \/ j = i
        BY LenProperties DEF ListInv
      <3>6. Sent(i)'
        BY <2>1, <2>4, <3>4, <3>5 DEF Sent
      <3> QED
        BY <2>1, <2>2, <2>3, <2>4, <2>6, <3>6
    <2> QED
      BY <1>3, <2>5, <2>6 DEF Send
  <1>4. CASE Advance
    <2>1. /\ UNCHANGED <<hosts, memory, homePc, stayed, removed, got>>
          /\ knxPc = "next"
      BY <1>4 DEF Advance, homeVars, telegramVars
    <2>2. homePc # "erase" /\ stayed \subseteq Listed
      BY <2>1 DEF WalkInv
    <2>3. Listed' = Listed
      BY <2>1 DEF Listed
    <2>4. PICK i \in DOMAIN hosts : at = hosts[i] /\ Sent(i)
      BY <2>1 DEF WalkInv
    <2>5. at \in Client /\ memory[at] \in {"used", "hostFreed"}
      BY <2>4, Elements DEF Listed
    <2>6. Node(at) = at
      BY <2>5, Names DEF Node
    <2>7. at' = After(at) /\ knxPc' = IF After(at) = Nobody THEN "ack" ELSE "send"
      BY <1>4, <2>5, <2>6 DEF Advance
    <2>8. CASE i = Len(hosts) /\ After(hosts[i]) = Nobody
      <3>1. \A c \in stayed : \E j \in DOMAIN hosts : hosts[j] = c
        BY <2>2 DEF ListInv, Listed
      <3>2. DOMAIN hosts = 1 .. i
        BY <2>8, LenProperties DEF ListInv
      <3>3. stayed \subseteq got
        BY <2>4, <3>1, <3>2 DEF Sent
      <3> QED
        BY <2>1, <2>2, <2>3, <2>4, <2>7, <2>8, <3>3
    <2>9. CASE /\ i # Len(hosts) /\ i + 1 \in DOMAIN hosts
               /\ After(hosts[i]) = hosts[i + 1]
      <3>1. hosts[i + 1] # Nobody
        BY <2>9, Elements
      <3>2. knxPc' = "send" /\ at' = hosts[i + 1]
        BY <2>4, <2>7, <2>9, <3>1
      <3>3. Sent(i)'
        BY <2>1, <2>4 DEF Sent
      <3>4. (i + 1) - 1 = i
        BY LenProperties DEF ListInv
      <3> QED
        BY <2>1, <2>2, <2>3, <2>9, <3>2, <3>3, <3>4
    <2> QED
      BY <2>4, <2>8, <2>9, AfterOf
  <1>5. ASSUME NEW c \in Client, AddClient(c)
        PROVE  /\ homePc' # "erase"
               /\ stayed' \subseteq Listed'
               /\ knxPc' \in {"send", "next"} =>
                     \E i \in DOMAIN hosts' :
                         at' = hosts'[i] /\ Sent(IF knxPc = "send"
                                                 THEN i - 1 ELSE i)'
               /\ knxPc' = "ack" => stayed' \subseteq got'
    <2>1. /\ UNCHANGED <<knxPc, at, got, stayed, removed, homePc>>
          /\ hosts' = Append(hosts, c)
      BY <1>5 DEF AddClient, List!Join, tunnelVars, telegramVars
    <2>2. /\ DOMAIN hosts \subseteq DOMAIN hosts'
          /\ \A i \in DOMAIN hosts : hosts'[i] = hosts[i]
      BY <2>1, AppendProperties DEF ListInv
    <2>3. ListInv'
      BY ListStep
    <2>4. Listed \subseteq Listed'
      BY <2>2, <2>3 DEF ListInv, Listed
    <2>5. ASSUME NEW i \in DOMAIN hosts, at = hosts[i],
                 Sent(IF knxPc = "send" THEN i - 1 ELSE i)
          PROVE  Sent(IF knxPc = "send" THEN i - 1 ELSE i)'
      <3>1. \A j \in 1 .. (IF knxPc = "send" THEN i - 1 ELSE i) : j \in DOMAIN hosts
        BY LenProperties DEF ListInv
      <3> QED
        BY <2>1, <2>2, <2>5, <3>1 DEF Sent
    <2> QED
      BY <2>1, <2>2, <2>4, <2>5 DEF WalkInv
  <1>6. ASSUME NEW c \in Client, FreeHost(c) PROVE FALSE
    <2>1. knxPc' = knxPc /\ removed' = (acked < delivered)
      BY <1>6 DEF FreeHost
    <2>2. acked < delivered
      BY <2>1 DEF InHand
    <2> QED
      BY <2>1, <2>2
  <1>7. CASE EraseNode
    <2>1. homePc = "erase" /\ UNCHANGED <<knxPc, removed>>
      BY <1>7 DEF EraseNode, tunnelVars, telegramVars
    <2> QED
      BY <2>1 DEF WalkInv
  <1>8. CASE ~(Receive \/ Begin \/ Send \/ Advance \/ EraseNode
                   \/ \E c \in Client : AddClient(c) \/ FreeHost(c))
    <2>1. UNCHANGED <<knxPc, at, got, stayed, removed, hosts, memory>>
      BY <1>8 DEF Next, MainNext, KnxNext, HomeNext, vars, homeVars,
                  tunnelVars, telegramVars, InitStorage, Connect, Create,
                  InitHome, StartHome, Disconnect, Join, Destroy, Exit,
                  Acknowledge, CloseSocket, NotifyDisconnect, ForwardToBus,
                  UseNoPacket, ReadPacket, OverflowFdSet, UseDestroyed, Leave
    <2>2. homePc' = homePc \/ homePc' \in {"loop", "none"}
      BY <1>8 DEF Next, MainNext, KnxNext, HomeNext, vars, homeVars,
                  InitStorage, Connect, Create, InitHome, StartHome,
                  Disconnect, Join, Destroy, Exit, Acknowledge, CloseSocket,
                  NotifyDisconnect, ForwardToBus, UseNoPacket, ReadPacket,
                  OverflowFdSet, UseDestroyed, Leave
    <2> QED
      BY <2>1, <2>2 DEF WalkInv, Sent, Listed
  <1> QED
    BY <1>1, <1>2, <1>3, <1>4, <1>5, <1>6, <1>7, <1>8

(* The invariant of the list and of the walk.                                *)
WalkingInv ==
    InHand /\ JoinedFirst /\ NodeTypes /\ ListInv /\ NodeInv /\ AtInv /\ WalkInv

LEMMA WalkingInit == Init => WalkingInv
  <1> SUFFICES ASSUME Init PROVE WalkingInv
    OBVIOUS
  <1>1. NodeTypes /\ NodeInv /\ AtInv /\ WalkInv
    BY DEF Init, NodeTypes, NodeInv, AtInv, WalkInv
  <1>2. ListInv
    BY DEF Init, ListInv, Listed
  <1> QED
    BY <1>1, <1>2, EndInit DEF WalkingInv

LEMMA WalkingStep == WalkingInv /\ [Next]_vars => WalkingInv'
  BY HandStep, JoinedStep, NodeTypesStep, ListStep, AtStep, WalkStep
  DEF WalkingInv

LEMMA WalkingAlways == Spec => []WalkingInv
  BY WalkingInit, WalkingStep, PTL DEF Spec

(* The walk of onKnxReceive over the list that the other thread changes       *)
(* without a lock: if no client is removed meanwhile, a telegram is answered *)
(* only after it was sent to every client that was there all the time,       *)
(* however many clients join.                                               *)
THEOREM ForwardedToThoseWhoStay == Spec => []ForwardedUnlessRemoved
  <1>1. WalkingInv => ForwardedUnlessRemoved
    BY DEF WalkingInv, WalkInv, ForwardedUnlessRemoved
  <1> QED
    BY <1>1, WalkingAlways, PTL
----------------------------------------------------------------------------
(* Types.                                                                   *)

ControlTypes ==
    /\ phase \in {"idle", "up", "failed", "ended"}
    /\ mainPc \in {"connect", "create", "init", "start", "disconnect", "join",
                   "destroy", "exit", "exited"}
    /\ server \in {"null", "created", "started", "destroyed"}
    /\ homePc \in {"none", "loop", "erase"}
    /\ knxFd \in {"none", "knx", "free", "server"} \union Client

LEMMA ControlTypesStep == ControlTypes /\ [Next]_vars => ControlTypes'
  <1> SUFFICES ASSUME ControlTypes, [Next]_vars PROVE ControlTypes'
    OBVIOUS
  <1> USE DEF ControlTypes, session, mainVars, tunnelVars, homeVars
  <1>1. CASE MainNext
    BY <1>1 DEF MainNext, InitStorage, Connect, Session!Open, Session!Fail,
                Create, InitHome, StartHome, Disconnect, Join, Destroy, Exit
  <1>2. CASE KnxNext
    BY <1>2 DEF KnxNext, Receive, Session!Deliver, Begin, Send, Advance,
                Acknowledge, Session!Acknowledge, CloseSocket,
                NotifyDisconnect, Session!End
  <1>3. CASE HomeNext \/ (\E c \in Client : Leave(c)) \/ UNCHANGED vars
    BY <1>3 DEF HomeNext, AddClient, ForwardToBus, UseNoPacket, ReadPacket,
                OverflowFdSet, UseDestroyed, FreeHost, EraseNode, Leave, vars
  <1> QED
    BY <1>1, <1>2, <1>3 DEF Next

DataTypes ==
    /\ at \in Client \union {Nobody}
    /\ leaver \in Client \union {Nobody}
    /\ packets \in Nat
    /\ got \subseteq Client /\ stayed \subseteq Client
    /\ strayed \subseteq Client

LEMMA DataTypesStep ==
    WalkingInv /\ DataTypes /\ [Next]_vars => DataTypes'
  <1> SUFFICES ASSUME WalkingInv, DataTypes, [Next]_vars PROVE DataTypes'
    OBVIOUS
  <1>l. ListInv
    BY DEF WalkingInv
  <1> USE DEF DataTypes, tunnelVars, homeVars, telegramVars
  <1>1. CASE Receive
    <2>1. stayed' \subseteq Client
      <3>1. ToSet(hosts) \subseteq Client
        BY <1>l, Elements DEF ToSet
      <3> QED
        BY <1>1, <3>1 DEF Receive
    <2> QED
      BY <1>1, <2>1 DEF Receive
  <1>2. CASE Begin
    <2>1. First \in Client \union {Nobody}
      BY <1>l, FirstOf, Elements
    <2> QED
      BY <1>2, <2>1 DEF Begin
  <1>3. CASE Advance
    <2>1. CASE memory[Node(at)] \in {"used", "hostFreed"}
      <3>1. Node(at) \in Client
        BY <1>3 DEF Node, Advance, WalkingInv, AtInv
      <3>2. PICK i \in DOMAIN hosts : Node(at) = hosts[i]
        BY <1>l, <2>1, <3>1 DEF ListInv, Listed
      <3>3. After(Node(at)) \in Client \union {Nobody}
        <4>1. \/ After(hosts[i]) = Nobody
              \/ i + 1 \in DOMAIN hosts /\ After(hosts[i]) = hosts[i + 1]
          BY <1>l, <3>2, AfterOf
        <4>2. ASSUME i + 1 \in DOMAIN hosts PROVE hosts[i + 1] \in Client
          BY <1>l, <4>2, Elements
        <4> QED
          BY <3>2, <4>1, <4>2
      <3> QED
        BY <1>3, <2>1, <3>3 DEF Advance
    <2> QED
      BY <1>3, <2>1 DEF Advance
  <1>4. CASE Send
    BY <1>4 DEF Send, WalkingInv, AtInv, Node
  <1>5. CASE Acknowledge \/ CloseSocket \/ NotifyDisconnect
    BY <1>5 DEF Acknowledge, CloseSocket, NotifyDisconnect
  <1>6. CASE MainNext
    BY <1>6 DEF MainNext, InitStorage, Connect, Create, InitHome, StartHome,
                Disconnect, Join, Destroy, Exit
  <1>7. CASE HomeNext
    BY <1>7 DEF HomeNext, AddClient, ForwardToBus, UseNoPacket, ReadPacket,
                OverflowFdSet, UseDestroyed, FreeHost, EraseNode
  <1>8. CASE (\E c \in Client : Leave(c)) \/ UNCHANGED vars
    BY <1>8 DEF Leave, vars
  <1> QED
    BY <1>1, <1>2, <1>3, <1>4, <1>5, <1>6, <1>7, <1>8 DEF Next, KnxNext

Booleans == alive \in BOOLEAN /\ removed \in BOOLEAN

LEMMA BooleansStep == Booleans /\ [Next]_vars => Booleans'
  <1> SUFFICES ASSUME Booleans, [Next]_vars PROVE Booleans'
    OBVIOUS
  <1> USE DEF Booleans, tunnelVars, telegramVars
  <1>0. (acked < delivered) \in BOOLEAN /\ (homePc = "erase") \in BOOLEAN
    OBVIOUS
  <1>1. CASE MainNext
    BY <1>1, Zenon DEF MainNext, InitStorage, Connect, Create, InitHome,
       StartHome, Disconnect, SendToRouter, Join, Destroy, Exit
  <1>2. CASE KnxNext
    BY <1>0, <1>2, Zenon DEF KnxNext, Receive, Begin, Send, Advance,
       Acknowledge, CloseSocket, NotifyDisconnect
  <1>3. CASE HomeNext \/ (\E c \in Client : Leave(c)) \/ UNCHANGED vars
    BY <1>0, <1>3, Zenon DEF HomeNext, AddClient, ForwardToBus, UseNoPacket,
                             ReadPacket, OverflowFdSet, UseDestroyed,
                             SendToRouter, FreeHost, EraseNode, Leave, vars
  <1> QED
    BY <1>1, <1>2, <1>3 DEF Next

LEMMA DatabaseTypesStep ==
    Storage!StorageTypeOK /\ [Next]_vars => Storage!StorageTypeOK'
  <1> SUFFICES ASSUME Storage!StorageTypeOK, [Next]_vars
               PROVE  Storage!StorageTypeOK'
    OBVIOUS
  <1> USE DEF Storage!StorageTypeOK, StorageFacts!StorageTypeOK,
              Storage!Entries, StorageFacts!Entries, Storage!RowCount,
              StorageFacts!RowCount
  <1>1. CASE InitStorage
    <2>1. StorageFacts!StorageTypeOK /\ StorageFacts!Next
      BY <1>1, SameSteps DEF InitStorage
    <2>2. StorageFacts!StorageTypeOK'
      BY <2>1, StorageFacts!StorageTypeStep
    <2> QED
      BY <2>2
  <1>2. CASE Connect
    BY <1>2 DEF Connect, ForgetDatabase
  <1>3. CASE ~(InitStorage \/ Connect)
    <2>1. UNCHANGED database
      BY <1>3 DEF Next, MainNext, KnxNext, HomeNext, vars, Create, InitHome,
                  StartHome, Disconnect, Join, Destroy, Exit, Receive, Begin,
                  Send, Advance, Acknowledge, CloseSocket, NotifyDisconnect,
                  AddClient, ForwardToBus, UseNoPacket, ReadPacket,
                  OverflowFdSet, UseDestroyed, FreeHost, EraseNode, Leave
    <2> QED
      BY <2>1 DEF database
  <1> QED
    BY <1>1, <1>2, <1>3

(* Every variable of the server program keeps its type; in particular the     *)
(* iterator of onKnxReceive is at a client or behind the last one, and every *)
(* client on the list has a node.                                           *)
THEOREM ServerTyped == Spec => []TypeOK
  <1> DEFINE Types == /\ ControlTypes /\ DataTypes /\ Booleans
                      /\ Storage!StorageTypeOK
  <1>1. Init => Types
    <2> SUFFICES ASSUME Init PROVE Types
      OBVIOUS
    <2>1. ControlTypes /\ DataTypes /\ Booleans
      BY DEF Init, Session!Init, ControlTypes, DataTypes, Booleans
    <2>2. Storage!StorageTypeOK
      <3>1. StorageFacts!Init
        BY DEF Init, Storage!Init, StorageFacts!Init, Storage!Entries,
               StorageFacts!Entries
      <3>2. StorageFacts!StorageTypeOK
        BY <3>1, StorageFacts!StorageTypeInit
      <3> QED
        BY <3>2 DEF Storage!StorageTypeOK, StorageFacts!StorageTypeOK,
                    Storage!Entries, StorageFacts!Entries, Storage!RowCount,
                    StorageFacts!RowCount
    <2> QED
      BY <2>1, <2>2
  <1>2. WalkingInv /\ Types /\ [Next]_vars => Types'
    BY ControlTypesStep, DataTypesStep, BooleansStep, DatabaseTypesStep
  <1>3. WalkingInv /\ Types => TypeOK
    <2> SUFFICES ASSUME WalkingInv, Types PROVE TypeOK
      OBVIOUS
    <2>1. hosts \in Seq(Listed)
      <3>1. hosts \in Seq(Client) /\ \A i \in DOMAIN hosts : hosts[i] \in Listed
        BY Elements DEF WalkingInv, ListInv
      <3>2. hosts \in [1 .. Len(hosts) -> Listed] /\ Len(hosts) \in Nat
        BY <3>1
      <3> QED
        BY <3>2, IsASeq
    <2>2. delivered \in Nat /\ acked \in 0 .. delivered
      BY DEF WalkingInv, InHand
    <2>3. hosts \in Seq({c \in Client : memory[c] \in {"used", "hostFreed"}})
      BY <2>1 DEF Listed
    <2>4. knxPc \in {"none", "receive", "forward", "send", "next", "ack",
                     "closed", "exited"}
      BY DEF WalkingInv, InHand
    <2>5. /\ memory \in [Client -> {"none", "used", "hostFreed", "freed"}
                                       \union Client]
          /\ app \in [Client -> {"away", "up", "left"}]
      BY DEF WalkingInv, NodeTypes
    <2> QED
      BY <2>2, <2>3, <2>4, <2>5 DEF TypeOK, ControlTypes, DataTypes, Booleans
  <1> HIDE DEF Types
  <1> QED
    BY <1>1, <1>2, <1>3, WalkingAlways, PTL DEF Spec
----------------------------------------------------------------------------
(* Where the walk stands.                                                   *)

(* The walk begins only with a server, which is then there until the thread  *)
(* has ended.                                                               *)
ServerThere == knxPc \in {"send", "next", "ack"} => server # "null"

LEMMA ThereStep == ServerThere /\ [Next]_vars => ServerThere'
  <1> SUFFICES ASSUME ServerThere, [Next]_vars,
                      knxPc' \in {"send", "next", "ack"}
               PROVE  server' # "null"
    BY DEF ServerThere
  <1>1. CASE MainNext
    <2>1. knxPc' = knxPc \/ knxPc' \in {"receive", "none"}
      BY <1>1 DEF MainNext, tunnelVars, InitStorage, Connect, Create, InitHome,
                  StartHome, Disconnect, Join, Destroy, Exit
    <2>2. server' \in {server, "created", "started", "destroyed"}
      BY <1>1 DEF MainNext, mainVars, InitStorage, Connect, Create, InitHome,
                  StartHome, Disconnect, Join, Destroy, Exit
    <2> QED
      BY <2>1, <2>2 DEF ServerThere
  <1>2. CASE Begin
    BY <1>2 DEF Begin, mainVars
  <1>3. CASE ~(MainNext \/ Begin)
    <2>1. server' = server /\ knxPc \in {"send", "next", "ack"}
      BY <1>3 DEF Next, KnxNext, HomeNext, vars, mainVars, tunnelVars,
                  Receive, Send, Advance, Acknowledge, CloseSocket,
                  NotifyDisconnect, AddClient, ForwardToBus, UseNoPacket,
                  ReadPacket, OverflowFdSet, UseDestroyed, FreeHost,
                  EraseNode, Leave
    <2> QED
      BY <2>1 DEF ServerThere
  <1> QED
    BY <1>1, <1>2, <1>3

(* A walk that meets no removal stands on a client of the list with its Host, *)
(* in a server that is neither missing nor destroyed: only a removal makes   *)
(* onKnxReceive use freed memory, whoever joined and whatever was removed    *)
(* before the telegram came.                                                *)
THEOREM WalkStaysOnList == Spec => []WalkOnList
  <1>1. Init => ServerThere
    BY DEF Init, ServerThere
  <1>2. TypeOK /\ WalkingInv /\ ServerThere => WalkOnList
    <2> SUFFICES ASSUME TypeOK, WalkingInv, ServerThere,
                        knxPc \in {"send", "next"}, ~removed
                 PROVE  /\ server \in {"created", "started"}
                        /\ at \in ToSet(hosts) /\ memory[at] = "used"
      BY DEF WalkOnList
    <2>1. server # "null" /\ server # "destroyed"
      BY DEF ServerThere, WalkingInv, JoinedFirst
    <2>2. homePc # "erase"
      BY DEF WalkingInv, WalkInv
    <2>3. PICK i \in DOMAIN hosts : at = hosts[i]
      BY DEF WalkingInv, WalkInv
    <2>4. at \in Client /\ at \in Listed
      BY <2>3, Elements DEF WalkingInv
    <2>5. memory[at] = "used"
      BY <2>2, <2>4 DEF WalkingInv, ListInv, Listed
    <2>6. server \in {"created", "started"}
      BY <2>1 DEF TypeOK
    <2> QED
      BY <2>3, <2>5, <2>6 DEF ToSet
  <1> QED
    BY <1>1, <1>2, WalkingAlways, ThereStep, ServerTyped, PTL DEF Spec
=============================================================================
