# Verification of knxApp

knxApp connects phones to a KNX building bus. A *server program* opens a tunnel
to a KNX/IP router and a TLS server for the *apps*; telegrams from the bus go to
all apps, packets from the apps go to the bus. An *app* keeps one TLS connection
to the server, shows what it receives and raises an alert with a "Reconnect"
button when the connection is gone. All of it is C++ with threads that share
objects without locks; that is where most of the properties below come from.

This directory holds TLA+ modules translated from the code, TLC configurations
that check them on small instances, and proofs that TLAPS checks for all values
of the constants. `PROJECT.json` lists components, runs, mutants, hazards,
findings and theorems, and maps every definition that models code to its lines.

    tlc -config KnxServer_main.cfg KnxServer      # any module with its .cfg
    tlapm HomeServerProofs.tla                    # any *Proofs module

## 1. Inventory

| component | source | state | operations | module |
|---|---|---|---|---|
| tunnel connection | server/src/knx/KnxConnection | `connected`, `sock`, `chanelId`, thread id | connect (3 steps), receive loop, disconnect, waitDisconnectFinished, sendBytes | KnxConnection, TunnelSession |
| KNXnet/IP datagrams | server/src/knx/KnxPacket, Tunneling*, Disconnect* | fields of a datagram, static counter | fromBytes, toBytes, send, getPacket | KnxIp, TelegramPath |
| home server | protocol/src/Server | `socksClients`, `socksAll`, `sockMax`, `sockServer`, `connected` | init, start, receive loop, send, destructor | HomeServer, ClientList |
| server program | server/src/main.cpp | globals `knx`, `server` | main, onKnxReceive, onHomeServerReceive, onDisconnect | KnxServer (with TunnelSession, ClientList, ServerStorage), TelegramPath |
| home packets, values | protocol/src/Packet, KnxPacket, PacketFactory, KnxValue | bytes and ints of a packet | createPacket, get/set addresses, toBytes | TelegramPath |
| home client | protocol/src/Client | `connected`, `sock`, `ssl`, threads | init, connectToServer, disconnect, receive loop | HomeClient |
| app program, alert | client/src/main.cpp, client/src/ui/Alert | `visible`, entries, the view tree | onDisconnect, onReceive, show, hide, buttons | HomeClient |
| database entries | protocol/src/SqlEntry | fields, `inLocalDb`, unique id | fromSql, getField, setValue, syncPush | AppStorage |
| app storage | client/src/Save | the SQLite tables, lists of entries and views | init, dbLoadElements, sqlQuery | AppStorage |
| views | client/src/ui/ContainerView, DeviceValueView, KnxUi | parents, bound entries, `status`, edit box | updateParent, updateKnxValues, getKnxValue, touches, setEdit, removeEdit | AppStorage |
| server storage | server/src/save/Save | the table deviceValues, a transaction | init, close | ServerStorage |
| log, build, documents | protocol/src/log, CMake, README | none | output | not modelled |

How they interact. `main()` of the server empties and refills its database and
calls `knx->connect()`, which starts the tunnel's receive thread; it then creates the home server, whose `start()`
starts a second receive thread. The tunnel's thread calls `onKnxReceive`, which
iterates the home server's list of clients and writes to each TLS connection;
the home server's thread calls `onHomeServerReceive`, which writes to the
tunnel's socket. So two threads use the list, two the tunnel's socket and three
(with main) the channel id. In the app, `connectToServer()` runs in main and
later in the thread of the user interface; its receive threads call
`onReceive` and `onDisconnect`, which change the view tree. The frame renderer
is started before `Save::init()` loads the database, so the first touches on
switches come while main still attaches views and binds values to them.

What is hard here: flags and descriptors read in one thread and changed in
another; a list changed under an iterator; descriptor numbers that the kernel
gives out again; UDP datagrams lost, duplicated or reordered, with no timeout or
retry in the code; the end of a session asked for by both sides at once; joins
and destruction at shutdown; signed and unsigned chars on different machines;
functions that end without returning a value.

What makes each part correct:

- tunnel: it sends only with the channel the router gave it, hands telegrams to
  the application only while connected, answers each one, announces its end
  once, and is at rest when main has joined its thread;
- home server: select looks at every client, a walk over the list misses nobody
  and blocks on nobody, a client's descriptor is closed exactly once, packets
  reach the application, clients that left are removed;
- server program: a telegram reaches every client, what goes to the bus goes to
  the bus, the list is not destroyed under the thread that reads it, a walk
  over it uses freed memory only where a client was removed, and the process
  ends when asked;
- server storage: a start that is cut short leaves no part of the entries;
- packets: addresses and switch values survive all conversions;
- client and alert: one reader per connection, each SSL object freed once, and
  a way back whenever the app is not connected;
- storage and views: a switch shows what the database holds, in one row, also
  after a failed query or a restart; it is on the screen if the tree in the
  database leads from it to the root; the edit box shows what is edited.

## 2. Modules

An action is the code of one thread between two accesses to shared state; the
control state of each thread is a variable (`mainPc`, `recvPc`, ... or
`pc[thread]`). `alive` becomes FALSE where undefined behaviour or a signal ends
the process. History variables are marked as such where they are declared and
guard nothing. A few operators are *mutants* of the one after them: plausible
bugs, used by no specification, which show that each property can be broken.

**KnxIp** has the kinds of datagrams and what each parser leaves in `chanelId`:
`ChanelIdFromBytes` follows `TunnelingRequest::fromBytes`, which is applied to
every datagram, whatever its type, because the object is the base of the loop.

**TunnelSession** is what a tunnel promises its user, without network and
threads: up at most once, telegrams one at a time, each answered, one end.

**KnxConnection** is the tunnel with its three threads and a network that is a
set of datagrams (so reordering is free; `faults` counts losses and
duplicates). `ConnectServer` ... `ReceiveConnectionStateResponse` are connect();
`TestConnected`, `Receive`, `Branch`, `Deliver`, `Acknowledge`,
`AnswerDisconnect`, `StopLoop`, `CloseSocket`, `NotifyDisconnect` the receive
loop; `Disconnect` and `WaitDisconnectFinished` are main's;
`FillTunnelingRequest` and `SendTunnelingRequest` the home thread's. The router
is external and may refuse, grant and end sessions at any moment.
`Session == INSTANCE TunnelSession` with `phase` defined from `connectResult`
and `notified` is the refinement mapping.

**ClientList** is what the home server promises whoever walks over its list,
without sockets, select and TLS: clients join at the end, each once, and leave
one at a time, for good, and the others keep their order.

**HomeServer** is the receive loop of the home server with the descriptor table
of the process: lowest number first, as accept() does it. `List == INSTANCE
ClientList` with `peers` and `closed` is the refinement mapping; elements whose
accept() had failed map to `NoClient`. `MCHomeServer` adds the symmetry of
clients.

**ServerStorage** is `Save::init()` of the server: DELETE, BEGIN, ten rounds
of INSERT, END TRANSACTION. No result is looked at in the code, so every
statement that can fail has a second outcome, and init() simply goes on; the
process may be killed between any two. SQLite is external: `work` is what the
process sees, `disk` what is committed. The UPDATE of each round changes no row
(it looks for a localId in the column id, which INSERT leaves empty).

**KnxServer** is the whole server program and composes the three: the database
fills first (`Storage!Next`, until main connects), the tunnel takes part as its
abstract session (`Session!Deliver`, `Session!Acknowledge`, `Session!End` are
conjuncts of its actions), the home server as its abstract list (`List!Join`,
`List!Leave`). Since KnxConnection and HomeServer are shown to implement
TunnelSession and ClientList, the composition rests on both. It adds what those
leave out: the iterator of `onKnxReceive`, the memory of freed Hosts and nodes,
and the one descriptor number that tunnel and clients may both come to hold. A
packet from a client is forwarded (`ForwardToBus`) or, if it is of the device
type, for which the factory returns no value, may end the process
(`UseNoPacket`); so may an fd_set that is too small (`OverflowFdSet`). `~Server()`
does not stop the home server's thread, which goes on with what it finds in the
freed members or crashes (`UseDestroyed`) until main ends the process.
`ForgetDatabase` is no step of the program but a reduction: after `Save::init()`
nothing reads the database, so its contents are not told apart any more.

**TelegramPath** follows one telegram through all conversions, in both
directions: cEMI bytes, chars (signed or not, per program), ints, home packet,
bytes on the wire, what the app shows. Here the data is the point, and control
is reduced to the order of the conversions; KnxServer has the interleavings.

**HomeClient** is the app: main, the thread of the user interface and one
receive thread per attempt, over the fields of one Client and one Alert. Each
step of disconnect() works on the fields as they are then, which is how a
stale thread gets to free the SSL object of a newer connection. show() is four
steps (`OnDisconnect` adds the entry, `Show` tests `visible`, `AddBox` changes
the screen, `SetVisible` the flag) and hide() three (`Touch`, `SetHidden`,
`EraseEntries`), which interleave. `Leftover` is
what remains of the entries after the loop in hide(), which advances its
iterator twice per round (`children` is taken for the std::list that this use
of `erase` needs).

**AppStorage** is what the app stores and shows of it. main's part is
`LoadElements` (one action: before views are attached nothing can be touched;
the query for knxValues may fail), then one `AttachContainer` for each
container and one `AttachDevice` for each device, and at last, for each
device, either `PassKnxValue` or `ReadKnxValue` and `ShowKnxValue`, as the
loops of `Save::init()` go: main reads the value of an entry and lets the switch
show it later, and touches come in between. `OnScreen` asks whether the boxes attached so far
lead from a switch to the root (`BelowRoot`: no set of containers holds whoever
climbs from it), since touches reach only what is drawn. A touch is `TouchSwitch`,
`GetKnxValue`, `CreateField` (the first one of a switch), `SetValue`, `SyncPush`
in the thread of the user interface, which
runs between main's steps. `CreateField` has both orders the compiler may choose:
creating the field `value` calls `onChangeField()` with an empty string, which
turns the switch off before or after `status` is read. `NewContainers` and
`ParentOf` follow the unique id, which names no table. `SyncPush` sets
`inLocalDb` whether or not its query succeeded. `Restart` kills the app at any
step, any number of times, and starts it on the database as it is.
`MCAppStorage` starts from fewer databases: of the parent that is stored for a
device whose entry a container overwrites, the module asks only whether it is the
container's, so one other parent stands for all.

## 3. Runs

| run | what it checks | bounds |
|---|---|---|
| tunnel_faults | `SessionAgreement`, `OwnChannel`, `DisconnectReleases`, `JoinedMeansClosed`, `NoSequenceReuse`, `TunnelInv`, `NoCallAfterEnd` | 2 channels, 2 telegrams each way, 1 fault, counter modulo 2 |
| tunnel_live | `SessionSpec` (refinement, with its fairness), `ConnectReturned`, `DisconnectCompletes` | a stale session, no faults |
| home_safety | `SelectCoversAll`, `HostsOwnSockets`, `ReadsDoNotBlock`, `WalkSkipsNobody`, `HomeInv`, `ListSpec` (refinement) | 3 clients, 4 descriptors, the last beyond FD_SETSIZE, 1 failing accept |
| home_live | `PacketsReceived`, `LeaversRemoved` | 2 clients with 2 packets each |
| server_main | `TypeOK`, `NoCallOnDestroyed`, `ForwardedUnlessRemoved`, `WalkOnList`, `DataWhole`, `ShutdownCompletes` | 3 clients, 2 telegrams, 1 packet |
| server_all | `ForwardedToAll`: violated | 3 clients |
| server_bus | `SentToBus`: violated | 2 clients |
| reconnect | `TypeOK`, `LoopStopsInTime`, `SslUsedWhileAlive`, `WayBack`, `AlertConsistent`, `LossNoticed` | 2 attempts, 1 descriptor, 1 packet |
| hasty_touch | `LoopStops`: violated | 2 attempts |
| switches | `TypeOK`, `ShownIsStored`, `OneRowEach`, `TouchTurns`, `TreeShown`, `EditConsistent` | 2 switches, 3 containers of which one has the id of a switch, all trees, any number of kills, 1 failing query |
| path | `TypeOK`, `AddressRelayed`, `SwitchRelayed`, `ShownAddress` | signed chars, 5 bytes around the sign bit and the switch bytes |
| path_cast | `OnlyKnxForwarded`: violated | the same |

The type invariants of the tunnel and of the home server are conjuncts of
`TunnelInv` and `HomeInv`.

Why the bounds are enough. The tunnel handles one datagram at a time, so two
telegrams each way show every order of delivery, answer and end; modulo 2 makes
the counter wrap within two sends; two channels tell a right id from a wrong
one; one fault suffices for each single loss or duplicate, and more only for
their combinations. Removal during a walk needs a neighbour before and after:
three clients; the fourth descriptor leaves room for reuse before the limit.
`home_live` needs one client to be served and one to disturb. A stale iterator
needs a client that leaves, one that takes its node and one that is missed:
three. A reconnection needs two attempts, and one descriptor makes a leaked
socket matter on the next attempt. Two switches are one that is touched and one
that main is at; with three containers one can have the id of a switch and two
others can be attached in either order, parent before child or after it. The
run starts from every tree and every combination of rows, and a failed query
and any number of kills may fall on any step of any touch, of which there are as
many as the user likes. The rows that the server inserts are counted as in the
code, up to one more than all. A third attempt in `reconnect`, without a new
kind of step, makes ten million states, over which the safety properties hold
too, and is too much for the liveness property. The five bytes include both values on either
side of 128, both switch bytes and their neighbours; the theorems then cover all
bytes and all combinations of signs.

CHECK_DEADLOCK is off because every one of these systems may stop: the process
ends, crashes, or waits in recvfrom, select or sleep for something that the
outside need not do.

### Fairness

- KnxConnection: weak fairness of main, of the receive thread, of a send under
  way, and of the router's answers. Nothing is assumed of the router's own
  telegrams or of faults; `tunnel_live` has none, because the code neither
  repeats nor times out, so one lost answer blocks connect() for ever.
- HomeServer: weak fairness of the receive thread and of main up to start().
  Clients need not do anything, except that a handshake ends: SSL_accept blocks
  the only thread, and without this assumption `PacketsReceived` is false.
- KnxServer: weak fairness of main (which a kill during `Save::init()` sends back
  to its start; `ShutdownCompletes` begins at the join) and of the tunnel's thread (sending to a
  client ends, crashes or fails), and that the session ends once main waits for
  it. The last is what `DisconnectCompletes` shows of KnxConnection.
- HomeClient: weak fairness of each receive thread. The user, the server and
  the connecting threads need not act.

These threads run on an ordinary scheduler and block only in the calls named;
no strong fairness is used anywhere.

### Findings

Four comments of the code promise what the code does not do.

1. `server_all`: "send to all clients" (server/src/main.cpp:175). The home
   server removes the client under the iterator and gives its list node to the
   next client; the iterator is then at the end of the list and a client that
   was connected all the time is missed. `ForwardedUnlessRemoved` and
   `WalkOnList` are what does hold: only removals do harm, clients that join do
   not.
2. `server_bus`: "send to knx bus" (server/src/main.cpp:205). The router ends
   the session, accept() gives the closed number to a client, and what another
   client sends goes into that client's connection.
3. `path_cast`: "if knx packet" (server/src/main.cpp:189). The test after the
   C-style cast is true for every object, so packets of other types go to the
   bus with bytes from behind the object.
4. `hasty_touch`: "stop receive loop" (protocol/src/Client.cpp:126). The alert
   is up before the old thread tests its flag again; a reconnection in between
   sets it back to true and the old thread reads on beside the new one.
   `LoopStopsInTime` and `SslUsedWhileAlive` say what holds: it takes a touch
   while a thread that was told to stop is on its way out of its loop, and every
   misuse of an SSL object comes from such a thread.

Not made into a run: protocol/README.md gives the packet types as 0x10 and
0x20, puts a datatype in byte 5 and writes a switch as 0 or 1; the code has
0x01 and 0x02, its data in byte 5 and 0x80/0x81. The document describes a
planned layout. `SwitchToByteAsInReadme` is that reading, as a mutant. The app's
log labels the group address of a telegram "src:" (client/src/main.cpp:304, 314),
although it is the destination; `ShownAddress` follows the code, and its mutant
`AppShowsSource` the label.

## 4. Proofs

Every theorem holds for all values of the constants that satisfy the named
ASSUMEs of the module (non-empty sets of bytes, disjoint names, bounds in Nat).
Nothing is assumed to be finite or small: any number of clients, attempts,
telegrams, switches and containers, and any width of the counter. The proof
modules are KnxConnectionProofs, HomeServerProofs, ServerStorageProofs,
KnxServerProofs, TelegramPathProofs, HomeClientProofs and AppStorageProofs.
**ListLemmas** says what adding and removing one element does to a list without
repetitions; the proofs about the thread that changes the list of clients and
about the one that walks over it both rest on it.

Every safety invariant and every action property that a passing run checks is
the statement of one of these theorems, or a conjunct of one.

**KnxConnection.** That `connected` means an open socket (`FlagMeansSocket`) is
not inductive: nothing in it says that the thread which closes the socket has
cleared the flag before.
`TunnelInv` adds, for each state of the receive thread, the values of flag and
socket (`FlagInv`, `SocketInv`), of the announcements (`NotifyInv`) and of
delivered against answered telegrams (`AckInv`), and that main has not returned
from the join before the thread is gone (`MainInv`). It is checked by TLC in
`tunnel_faults` and proved inductive with one lemma for each thread
(`TunnelInvariant`). From it follow `TunnelTyped`, `FlagMeansSocket`,
`JoinIsClean`, the action property `EndIsFinal` and the refinement
`ImplementsSession`: each step of the tunnel is a step of TunnelSession or a
stutter, whatever network and router do.

The agreement of the two ends is a second invariant. `SessionAgreement` alone
says nothing of an answer that has been sent but not read. `FlightInv` adds what
is in flight: nothing before the router was asked (`Unasked`); while it holds a
session, each datagram on the way in either direction and each variable a
thread may send from names that channel (`OpenOn`); and when it holds none,
whoever still believes in one has the news of the end ahead of it, as a
datagram in flight or in the receive thread's hands (`Over`). The steps that
matter are the router's: it may end the session by itself or answer an end at any
moment, with requests of the old session still on their way. It is kept as
long as nothing is lost or duplicated and connect() has not failed
(`SessionInv`), the condition under which the properties are stated. From it
`SessionAgreed`, `ChannelKept` and `SessionReleased`. `SequenceDistinct`
comes from `HomeInv` (request i carries i - 1 modulo the period of the
counter) and a lemma about remainders, `DistinctRemainders`.

**HomeServer.** `HomeInv` relates list, descriptor table and the loop's local
variables: `ServerInv` (the listening socket), `MaxInv` (no client above
`sockMax`), `FileInv` and `HostInv` (each Host whose accept succeeded owns its
descriptor, and nobody else has it; one whose accept failed has neither), `AcceptInv` (the descriptor in hand is on
no list yet), `ReadyInv` (what select reported is still readable, and a
descriptor given out since was not in the set), `WalkInv` (what lies before the
cursor was visited). The difficult step is the removal in the middle of the
walk: the sequence shifts, the cursor stays, and the number goes back to the
table. Theorems: `HomeInvariant`, `HomeTyped`, `SelectLooksEverywhere`,
`NothingLeaked`, `LoopDoesNotBlock`, `WalkIsComplete`, and the refinement
`ImplementsList`: each step is a step of ClientList or a stutter. `FileInv`,
`HostInv` and `AcceptInv` make the join a join (the new client is on no place of
the list and was never removed), `HostInv` makes the removal one of a client.

**ServerStorage.** `DataWhole` looks only at committed rows. `StorageInv` adds
that a transaction is open only in the loop of INSERTs and, as long as no
statement failed, how many rows process and disk see at each point
(`Progress`). Theorem: `StorageWhole`.

**KnxServer.** `DatabaseWhole` carries `StorageInv` over to the whole program,
lemma by lemma, by an instance of ServerStorageProofs: InitStorage is a step of
the database, the others leave it alone while main has not connected.
`DestroyedUnused` (`NoCallOnDestroyed`) needs that a telegram is unanswered
exactly while `onKnxReceive` runs (`InHand`) and that main passes the join only
when the thread is gone, or never was (`JoinedFirst`).

`ForwardedToThoseWhoStay` is about two threads on one list without a lock. The
list is `ListInv` (each client with a node is on it once) and `NodeInv` (a node
is lost only by a client that left); the iterator is `AtInv` (it is at what is
or was a node) and `WalkInv`: without a removal it is at position i of the list
as that is now, and every client before it that was there when the telegram came
has been sent the telegram. A client that joins goes behind the iterator's
successors, so the position stands; a removal is where this fails, and where
`server_all` finds its counterexample. `WalkStaysOnList` (`WalkOnList`) rests on
the same invariant, on `JoinedFirst`, and on `ServerThere`: a walk that has begun
had a server to begin with. `ServerTyped` rests on all of them.

**TelegramPath.** `PathInv` says at each control state that fields, ints and
bytes are the image of the telegram so far. The lemmas under it are arithmetic:
a byte becomes a char and back, an address becomes three ints and back,
whatever the signs. Theorems: `PathInvariant`, `PathTyped`,
`AddressesSurvive`, `SwitchesSurvive`, `ShownIsGroupAddress`.

**HomeClient.** There is no lock to argue with, so the invariant is about who may
run. `PlaceInv` says which thread is in which code. `OneActive`: at most one
thread is *active*, and none while the alert is on the screen; a thread that has
shown the alert is *finishing*, with nothing left to do but to set `visible` and
to leave its loop. `ObjectInv`: the active thread works on the socket and SSL
object of the current attempt, which are live wherever it uses them. `LoopInv`:
a loop is told to stop by its own disconnect() only. These hold while every
loop stops at its disconnect() and the process lives (`UseInv`), from which
`ObjectsLive`, without any assumption on the user: neither refused connections
nor failed handshakes nor early touches alone free an object twice.
`TurnInv`: until a touch comes while a loop that was told to stop has not been
left (`rushed`), such a loop finds `connected` FALSE, since whoever connects
again does so after everybody is out; hence `LoopsStop`. `FreshInv` (main
connects before there is a user, and an attempt's own thread comes last) serves
the two that follow, which do not need that: show() and hide()
may overlap in every other way. `AlertInv`: until a touch comes while a show() is
between its test and its last step (`crossed`), `visible` follows the screen but
for the step between the two writes, hence `AlertTells`. `WayInv`: some thread
will still come to onDisconnect() (`Due`: it connects, disconnects, or reads
while `connected` holds), or an alert with an entry is on the screen or about to be
(`Offered`); when all threads are done, only the latter is left, hence
`ReconnectOffered`, with the exceptions that `WayBack` names. The type of
`entries` needs that `Leftover` returns a number at all: `HideErasesHalf` shows for every n that
the recursive function exists, satisfies its equation and lies between 0 and half
of n. The provers have no induction, so the proof takes a least counterexample
(`Smallest`, from the well-foundedness of < on Nat) and joins functions that
satisfy the equation up to some number.

**AppStorage.** `ShownIsStored` speaks of switches at rest. The inductive
invariant `SwitchInv` says what holds of each one during a touch and during
main's loops: `EntryInv` (an entry is bound from the moment it exists, and its
switch shows its value unless a touch has it in hand or has overtaken main),
`SeenInv` (what main has read and not yet shown is what the entry holds, unless
a touch has overtaken main), `StoreInv` (the last row
is the entry's value, unless a query about it failed; an entry not yet stored
has no more rows than queries failed), `PushInv` (a touch that is about to
store has a value to store) and `AtStart` (before the tables are loaded nothing
can be touched, so LoadElements can be one action). Restart falls on any step:
it throws the entries away and keeps the rows, and `LoadElements` makes the
invariant true again. Theorems: `SwitchesShowRows`, `RowsBounded`. `TurnInv`
(a touch on a switch with a value keeps what it is to show as long as main does
not write to that switch) gives `TouchIsStored`, for both orders of evaluation. `TreeInv`
follows todo and the attached views through both loops, for any tree:
`TreeIsShown`. `StorageTyped` needs `AtStart` and `PushInv`; `EditBox` is
inductive as it stands.

**Only model-checked:** the liveness properties `ConnectReturned`,
`DisconnectCompletes`, `PacketsReceived`, `LeaversRemoved`,
`ShutdownCompletes` and `LossNoticed`, and the fairness in `SessionSpec`, of which
`ImplementsSession` is the safety part. Fairness is about ENABLED, which is out
of the prover's reach, as is the induction along a behaviour that these
need.

Each inductive invariant was checked with TLC on the instances of the runs, and
those of HomeClient also with three attempts, before it was proved.

## 5. What the models assume and leave out

- Undefined behaviour is limited to the outcomes a build plausibly produces: a
  crash, a value out of a small set, or going on without effect. A function that
  ends without a return value yields any value of its type (unoptimised builds).
- A network is a set of datagrams: two equal datagrams in flight are one.
- `recvfrom` returns whole datagrams, `SSL_read` whole packets; it returns 0 at
  the end of a connection and less than 0 on an error, as in the OpenSSL of the
  code's time. SSL_connect returning 0 counts as success, as in the code, and is
  a connection that breaks before anything is read.
- SIGPIPE is not handled and ends the process. Closing a descriptor that another
  thread waits on is modelled by what select does with it: it fails, and the
  set stays as it was.
- The memory of a freed list node may go to a later node (KnxServer); the memory
  of a freed Host going to another Host, and two threads inside one live SSL
  object at the same moment, are not modelled.
- A right shift of a negative int copies the sign, as gcc does it.
- Telegrams carry one data byte; lengths of cEMI frames other than the code's
  own are left out.
- In HomeClient the address of the server always resolves, and user and threads
  do not touch the list of entries in the very same step.
- TLS contents, certificates, logging, layout and drawing are left out, as is
  the daemon part of the server's main(), which is commented out in the source.
- In KnxServer accept() and the insertion into the list are one step, which
  needs a listening socket that is open; which descriptors the clients have
  is HomeServer's matter, so `OverflowFdSet` may happen whenever the list is not
  empty.
- In AppStorage `status` and the painting of the button from it are one write.
- In AppStorage main's insertion into the list of entries and the user
  interface's iteration over it do not meet inside the std::list. The member
  `parent` of a view is not set by any constructor; a crash over it counts as
  `Restart`. A switch can be touched once its box is in the tree. The tables are
  loaded in the order devices, values, containers; the app never writes parents.

Some properties say what goes wrong by naming when it does. `ForwardedUnlessRemoved`
and `WalkOnList` except a telegram during which a client is removed.
`LoopStopsInTime`, `AlertConsistent`, `WayBack` and `LossNoticed` each except the
touches that meet another thread at one place, which their comments name: a
receive thread that was told to stop and is not out of its loop, or a show()
between its test of `visible` and its last step. After such a touch the alert may
stay away for good. `ShownIsStored` excepts a switch whose
value a touch set after main had read the old one and before main showed it
(DeviceValueView.cpp:237): it shows the old value until its next touch. It also
excepts a switch whose query failed: `inLocalDb`, "entry already in local sql db"
(protocol/src/SqlEntry.h:43), is set all the same (SqlEntry.cpp:255), and later
updates find no row. `TouchTurns` excepts the first touch of a switch, which one
order of evaluation loses, and a touch during which main writes to the same
switch. `TreeShown` follows the id that two tables share, `OneRowEach` counts the
doubles of rows that could not be read.

Three hazards are in the models and in no property, because what the code does
there is wrong and nothing promises otherwise: a telegram before the home server
exists (`Begin`), descriptors that run out in the app (`OpenSocket`), and the
first touch (`CreateField`). Nor does a property say what may end the server's
process; in `KnxServer` it is one of these: the null pointer of
`Begin`, SIGPIPE over a client that left, an iterator on freed memory, an fd_set that
is too small, a packet of the device type, the destroyed members of the home
server, certificates that do not load, and a join without a thread. SSL_write
on a client that does not read and a handshake that never ends are excluded by
fairness. Switch bytes the code does not know are modelled with every outcome.

## 6. Not modelled

- Logging, build files, documents, and the headers apart from the fields they
  declare: no control. `client/android` is SDL's glue and SQLite's header, both
  vendored.
- Most of the app's main program and half of the views create, style and lay out
  views. Device views that are not switches store and show no value; adding them
  would multiply the states of `switches` without a new step.
- Code that is commented out (the daemon in the server's main, test rows in the
  app's Save) or never called (`Client::send`, `onError` of the app,
  `removeField`, `DimValue`, the destructor of KnxConnection).
- Failing SELECTs of the app other than that of knxValues: they take views off
  the screen for one run and store nothing.

## 7. Plan

Every safety property is proved. What would add most:

1. The refinement of KnxServer by the detailed parts: KnxConnection and
   HomeServer side by side, with the accesses of one thread to the other's
   state, implement it as long as they share no descriptor.
2. The crash over an fd_set that is too small, and a client that does not read,
   as properties of HomeServer.
3. The SELECTs of the app other than that of knxValues, with each one failing,
   if the app comes to store what they return.
