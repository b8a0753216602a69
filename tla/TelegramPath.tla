---------------------------- MODULE TelegramPath ----------------------------
(***************************************************************************)
(* What becomes of the content of one telegram on its way between the bus  *)
(* and an app: bytes of a tunnelling request, a TunnelingRequest, ints, a  *)
(* home::KnxPacket, bytes on the TLS connection, and back to objects.      *)
(*                                                                         *)
(* Fields are chars.  Whether a char has a sign is the compiler's choice:  *)
(* on x86 it has, on ARM (the Raspberry and Android builds) it has not, and *)
(* server and app need not agree.  On a wire a byte is a member of 0..255.  *)
(***************************************************************************)
EXTENDS Integers

CONSTANTS
    ServerSigned,  \* TRUE iff chars of the server have a sign
    AppSigned,     \* TRUE iff chars of the app have a sign
    Sample,        \* bytes that TLC tries
    NoObject       \* what a variable holds before its object exists

Byte == 0 .. 255

ASSUME SignAssumption == ServerSigned \in BOOLEAN /\ AppSigned \in BOOLEAN
ASSUME SampleAssumption == Sample \subseteq Byte

(* An int stored into a char, and a char's bits.                            *)
Char(signed, n) == IF signed THEN ((n + 128) % 256) - 128 ELSE n % 256
Bits(c) == c % 256
Chars(signed) == IF signed THEN -128 .. 127 ELSE 0 .. 255

HOME_PACKET_KNXTUNNEL == 1
HOME_PACKET_DEVICE    == 2

VARIABLES
    pc,       \* the step the telegram is at
    frame,    \* bytes 14 to 17 and 20 of the tunnelling request
    request,  \* the TunnelingRequest of the server
    packet,   \* the home::KnxPacket of the server
    wire,     \* bytes 0 to 5 of the packet on the TLS connection
    seen,     \* the home::KnxPacket of the app
    shown     \* what the app adds to its output

vars == <<pc, frame, request, packet, wire, seen, shown>>
----------------------------------------------------------------------------
Address(S) == [hi : S, lo : S]
Frame  == [src : Address(Byte), dest : Address(Byte), data : Byte]
Wire   == [type : Byte, src : Address(Byte), dest : Address(Byte), data : Byte]
Object(signed) ==
    [src : Address(Chars(signed)), dest : Address(Chars(signed)), on : BOOLEAN]

ASSUME NoObjectAssumption == NoObject \notin Frame \union Object(ServerSigned)

TypeOK ==
    /\ pc \in {"idle", "framed", "parsed", "converted", "sentToApp", "seen",
               "shown", "fromApp", "created", "other", "requested", "sentToBus",
               "crashed"}
    /\ frame \in Frame \union {NoObject}
    /\ request \in Object(ServerSigned) \union {NoObject}
    /\ packet \in Object(ServerSigned) \union {NoObject}
    /\ wire \in Wire \union {NoObject}
    /\ seen \in Object(AppSigned) \union {NoObject}
    /\ shown \in [main : Int, middle : Int, sub : Int, on : BOOLEAN]
                     \union {NoObject}

Init ==
    /\ pc = "idle"
    /\ frame = NoObject /\ request = NoObject /\ packet = NoObject
    /\ wire = NoObject /\ seen = NoObject /\ shown = NoObject
----------------------------------------------------------------------------
(* getDestinationAddr, getSourcAddr, setDestinationAddr and setSourcAddr,    *)
(* the same in both classes.  >> keeps the sign and & 7 is a remainder; the *)
(* two operands of | have no bit in common.                                *)
GetAddr(a) == [main |-> a.hi \div 8, middle |-> a.hi % 8, sub |-> a.lo]

(* Mutant of SetAddr: the main group is taken for four bits in front of a    *)
(* four bit middle group.                                                   *)
SetAddrFourBits(signed, g) ==
    [hi |-> Char(signed, (g.middle % 16) + 16 * g.main), lo |-> Char(signed, g.sub)]

SetAddr(signed, g) ==
    [hi |-> Char(signed, (g.middle % 8) + 8 * g.main), lo |-> Char(signed, g.sub)]

(* Fields from bytes and bytes from fields.                                *)
AddrFromBytes(signed, b) ==
    [hi |-> Char(signed, b.hi), lo |-> Char(signed, b.lo)]

(* Mutant of AddrToBytes: without the masks.                                *)
AddrToBytesUnmasked(a) == [hi |-> a.hi, lo |-> a.lo]

AddrToBytes(a) == [hi |-> Bits(a.hi), lo |-> Bits(a.lo)]

ON_BYTE  == 129
OFF_BYTE == 128

(* SwitchValue::fromBytes on a new object: a byte it does not know leaves    *)
(* the value the memory happens to have.                                   *)
SwitchFromByte(b) == IF b = ON_BYTE THEN {TRUE}
                     ELSE IF b = OFF_BYTE THEN {FALSE} ELSE BOOLEAN

(* Mutant of SwitchToByte: the bytes of protocol/README.md.                 *)
SwitchToByteAsInReadme(on) == IF on THEN 1 ELSE 0

SwitchToByte(on) == IF on THEN ON_BYTE ELSE OFF_BYTE

FromBytes(signed, b) ==
    {[src  |-> AddrFromBytes(signed, b.src),
      dest |-> AddrFromBytes(signed, b.dest),
      on   |-> on] : on \in SwitchFromByte(b.data)}

(* The two callbacks hand addresses over as ints and share the value.       *)
Convert(signed, o) == [src  |-> SetAddr(signed, GetAddr(o.src)),
                       dest |-> SetAddr(signed, GetAddr(o.dest)),
                       on   |-> o.on]
----------------------------------------------------------------------------
(* From the bus to an app.                                                 *)

(* A tunnelling request of the router (external).                           *)
RouterSends ==
    /\ pc = "idle"
    /\ frame' \in [src : Address(Sample), dest : Address(Sample), data : Sample]
    /\ pc' = "framed"
    /\ UNCHANGED <<request, packet, wire, seen, shown>>

ParseRequest ==
    /\ pc = "framed"
    /\ request' \in FromBytes(ServerSigned, frame)
    /\ pc' = "parsed"
    /\ UNCHANGED <<frame, packet, wire, seen, shown>>

OnKnxReceive ==
    /\ pc = "parsed"
    /\ packet' = Convert(ServerSigned, request)
    /\ pc' = "converted"
    /\ UNCHANGED <<frame, request, wire, seen, shown>>

(* Server::send: KnxPacket::toBytes.  The seventh byte that it sends is     *)
(* never written and never read.                                          *)
SendToApp ==
    /\ pc = "converted"
    /\ wire' = [type |-> HOME_PACKET_KNXTUNNEL,
                src  |-> AddrToBytes(packet.src),
                dest |-> AddrToBytes(packet.dest),
                data |-> SwitchToByte(packet.on)]
    /\ pc' = "sentToApp"
    /\ UNCHANGED <<frame, request, packet, seen, shown>>

(* The app's receive loop: PacketFactory::createPacket.                     *)
AppReceives ==
    /\ pc = "sentToApp"
    /\ wire.type = HOME_PACKET_KNXTUNNEL
    /\ seen' \in FromBytes(AppSigned, wire)
    /\ pc' = "seen"
    /\ UNCHANGED <<frame, request, packet, wire, shown>>

(* Mutant of AppShows: the app shows what its text announces ("src: ").     *)
AppShowsSource ==
    /\ pc = "seen"
    /\ LET g == GetAddr(seen.src)
       IN  shown' = [main |-> g.main, middle |-> g.middle, sub |-> g.sub,
                     on |-> seen.on]
    /\ pc' = "shown"
    /\ UNCHANGED <<frame, request, packet, wire, seen>>

(* onReceive of the app.                                                   *)
AppShows ==
    /\ pc = "seen"
    /\ LET g == GetAddr(seen.dest)
       IN  shown' = [main |-> g.main, middle |-> g.middle, sub |-> g.sub,
                     on |-> seen.on]
    /\ pc' = "shown"
    /\ UNCHANGED <<frame, request, packet, wire, seen>>
----------------------------------------------------------------------------
(* From an app to the bus.                                                 *)

(* Any packet an app may send (external); the rest of a short one is zero.   *)
AppSends ==
    /\ pc = "idle"
    /\ wire' \in [type : Sample, src : Address(Sample), dest : Address(Sample),
                  data : Sample]
    /\ pc' = "fromApp"
    /\ UNCHANGED <<frame, request, packet, seen, shown>>

(* PacketFactory::createPacket in the server.  For a device packet it       *)
(* returns no value: the callback finds null or a wild pointer.             *)
CreatePacket ==
    /\ pc = "fromApp"
    /\ \/ /\ wire.type = HOME_PACKET_KNXTUNNEL
          /\ packet' \in FromBytes(ServerSigned, wire)
          /\ pc' = "created"
       \/ /\ wire.type = HOME_PACKET_DEVICE
          /\ pc' \in {"idle", "crashed"}
          /\ UNCHANGED packet
       \/ /\ wire.type \notin {HOME_PACKET_KNXTUNNEL, HOME_PACKET_DEVICE}
          /\ pc' = "other"
          /\ UNCHANGED packet
    /\ wire' = IF pc' = "idle" THEN NoObject ELSE wire
    /\ UNCHANGED <<frame, request, seen, shown>>

OnHomeServerReceive ==
    /\ pc = "created"
    /\ request' = Convert(ServerSigned, packet)
    /\ pc' = "requested"
    /\ UNCHANGED <<frame, packet, wire, seen, shown>>

(* The cast makes a KnxPacket of a plain Packet, whose addresses and value   *)
(* are memory behind its fields: a crash, or any telegram.                  *)
CastOther ==
    /\ pc = "other"
    /\ \/ /\ \E a, b \in Sample :
                LET any == AddrFromBytes(ServerSigned, [hi |-> a, lo |-> b])
                IN  request' \in [src : {any}, dest : {any}, on : BOOLEAN]
          /\ pc' = "requested"
       \/ pc' = "crashed" /\ UNCHANGED request
    /\ UNCHANGED <<frame, packet, wire, seen, shown>>

(* TunnelingRequest::toBytes, called by send().                             *)
SendToBus ==
    /\ pc = "requested"
    /\ frame' = [src  |-> AddrToBytes(request.src),
                 dest |-> AddrToBytes(request.dest),
                 data |-> SwitchToByte(request.on)]
    /\ pc' = "sentToBus"
    /\ UNCHANGED <<request, packet, wire, seen, shown>>

(* The next telegram.                                                      *)
Again ==
    /\ pc \in {"shown", "sentToBus"}
    /\ pc' = "idle"
    /\ frame' = NoObject /\ request' = NoObject /\ packet' = NoObject
    /\ wire' = NoObject /\ seen' = NoObject /\ shown' = NoObject
----------------------------------------------------------------------------
Next ==
    \/ RouterSends \/ ParseRequest \/ OnKnxReceive \/ SendToApp
    \/ AppReceives \/ AppShows
    \/ AppSends \/ CreatePacket \/ OnHomeServerReceive \/ CastOther \/ SendToBus
    \/ Again

Spec == Init /\ [][Next]_vars
----------------------------------------------------------------------------
(* Properties.                                                             *)

(* Both addresses of a telegram come out of the gateway bit by bit as they   *)
(* went in, in both directions, although the ints in between are negative   *)
(* for half of them and the two programs may disagree on signs.             *)
AddressRelayed ==
    /\ pc \in {"seen", "shown"} =>
          /\ AddrToBytes(seen.src) = frame.src
          /\ AddrToBytes(seen.dest) = frame.dest
    /\ pc = "sentToBus" /\ packet # NoObject =>
          frame.src = wire.src /\ frame.dest = wire.dest

(* A switch telegram means the same on the bus and in the app.              *)
SwitchRelayed ==
    /\ pc = "shown" /\ frame.data \in {ON_BYTE, OFF_BYTE} =>
          shown.on = (frame.data = ON_BYTE)
    /\ pc = "sentToBus" /\ packet # NoObject /\ wire.data \in {ON_BYTE, OFF_BYTE} =>
          frame.data = wire.data

(* The address the app shows is the group address of the telegram, if chars  *)
(* have no sign in the app or the address needs none of the sign bits: main  *)
(* groups up to 15 and sub groups up to 127.  The app's text calls it "src:"  *)
(* (client main.cpp:304, 314), although it is the destination.              *)
ShownAddress ==
    pc = "shown" /\ (AppSigned => frame.dest.hi < 128 /\ frame.dest.lo < 128) =>
        /\ shown.main = frame.dest.hi \div 8
        /\ shown.middle = frame.dest.hi % 8
        /\ shown.sub = frame.dest.lo

(* "if knx packet" (server main.cpp:189): only what an app sent as a tunnel  *)
(* packet goes to the bus.                                                 *)
OnlyKnxForwarded ==
    pc = "sentToBus" => wire.type = HOME_PACKET_KNXTUNNEL
============================================================================
