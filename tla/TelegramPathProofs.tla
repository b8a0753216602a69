------------------------- MODULE TelegramPathProofs -------------------------
(***************************************************************************)
(* Theorems about TelegramPath: what the runs try for a few bytes and one   *)
(* choice of signs holds for all bytes and for any two compilers.           *)
(***************************************************************************)
EXTENDS TelegramPath, TLAPS

(* The inductive invariant: at each step, each object is the image of the    *)
(* one before it.                                                          *)
ToApp == {"parsed", "converted", "sentToApp", "seen", "shown"}

FrameInv ==
    /\ pc \in {"framed", "sentToBus"} \union ToApp => frame \in Frame
    /\ pc \in ToApp => request \in FromBytes(ServerSigned, frame)

PacketInv ==
    /\ pc \in {"converted", "sentToApp", "seen", "shown"} => packet = request
    /\ pc \in {"idle", "framed", "parsed", "fromApp", "other"} => packet = NoObject
    /\ pc = "created" => packet \in FromBytes(ServerSigned, wire)
    /\ pc \in {"requested", "sentToBus"} =>
          /\ request \in Object(ServerSigned)
          /\ packet # NoObject =>
                /\ packet \in FromBytes(ServerSigned, wire)
                /\ request = packet

WireInv ==
    /\ pc \in {"sentToApp", "seen", "shown"} =>
          wire = [type |-> HOME_PACKET_KNXTUNNEL, src |-> frame.src,
                  dest |-> frame.dest, data |-> SwitchToByte(request.on)]
    /\ pc \in {"fromApp", "created", "other", "requested", "sentToBus"} =>
          wire \in Wire

EndInv ==
    /\ pc \in {"seen", "shown"} => seen \in FromBytes(AppSigned, wire)
    /\ pc = "shown" =>
          shown = [main |-> GetAddr(seen.dest).main,
                   middle |-> GetAddr(seen.dest).middle,
                   sub |-> GetAddr(seen.dest).sub, on |-> seen.on]
    /\ pc = "sentToBus" =>
          frame = [src |-> AddrToBytes(request.src),
                   dest |-> AddrToBytes(request.dest),
                   data |-> SwitchToByte(request.on)]

PathInv == TypeOK /\ FrameInv /\ PacketInv /\ WireInv /\ EndInv
----------------------------------------------------------------------------
(* A byte that became a char has kept its bits.                            *)
LEMMA CharBits ==
    ASSUME NEW signed \in BOOLEAN, NEW b \in Byte
    PROVE  Char(signed, b) \in Chars(signed) /\ Bits(Char(signed, b)) = b
<1>1. CASE signed
      BY <1>1, SMT DEF Char, Chars, Bits, Byte
<1>2. CASE ~signed
      BY <1>2, SMT DEF Char, Chars, Bits, Byte
<1> QED  BY <1>1, <1>2

(* The bits of a char are a byte.                                          *)
LEMMA BitsByte ==
    ASSUME NEW signed \in BOOLEAN, NEW c \in Chars(signed)
    PROVE  Bits(c) \in Byte
<1>1. c \in Int  BY DEF Chars
<1> QED  BY <1>1, SMT DEF Bits, Byte

(* A char that is stored into a char stays what it is.                      *)
LEMMA CharChar ==
    ASSUME NEW signed \in BOOLEAN, NEW c \in Chars(signed)
    PROVE  Char(signed, c) = c
<1>1. CASE signed
      BY <1>1, SMT DEF Char, Chars
<1>2. CASE ~signed
      BY <1>2, SMT DEF Char, Chars
<1> QED  BY <1>1, <1>2

(* Splitting an address into ints and putting it together again changes     *)
(* nothing, whatever the sign of its bytes.                                *)
LEMMA AddrKept ==
    ASSUME NEW signed \in BOOLEAN, NEW a \in Address(Chars(signed))
    PROVE  SetAddr(signed, GetAddr(a)) = a
<1>1. a = [hi |-> a.hi, lo |-> a.lo] /\ a.hi \in Chars(signed)
          /\ a.lo \in Chars(signed)
      BY DEF Address
<1>2. a.hi \in Int  BY <1>1 DEF Chars
<1>3. ((a.hi % 8) % 8) + 8 * (a.hi \div 8) = a.hi
      BY <1>2, SMT
<1>4. Char(signed, a.hi) = a.hi /\ Char(signed, a.lo) = a.lo
      BY <1>1, CharChar
<1> QED  BY <1>1, <1>3, <1>4 DEF SetAddr, GetAddr

(* Bytes of an address to fields and back.                                 *)
LEMMA AddrBytes ==
    ASSUME NEW signed \in BOOLEAN, NEW b \in Address(Byte)
    PROVE  /\ AddrFromBytes(signed, b) \in Address(Chars(signed))
           /\ AddrToBytes(AddrFromBytes(signed, b)) = b
<1>1. b = [hi |-> b.hi, lo |-> b.lo] /\ b.hi \in Byte /\ b.lo \in Byte
      BY DEF Address
<1>2. /\ Char(signed, b.hi) \in Chars(signed) /\ Bits(Char(signed, b.hi)) = b.hi
      /\ Char(signed, b.lo) \in Chars(signed) /\ Bits(Char(signed, b.lo)) = b.lo
      BY <1>1, CharBits
<1> QED  BY <1>1, <1>2 DEF AddrFromBytes, AddrToBytes, Address

(* Fields of an address to bytes.                                          *)
LEMMA AddrOnWire ==
    ASSUME NEW signed \in BOOLEAN, NEW a \in Address(Chars(signed))
    PROVE  AddrToBytes(a) \in Address(Byte)
<1>1. a.hi \in Chars(signed) /\ a.lo \in Chars(signed)
      BY DEF Address
<1>2. Bits(a.hi) \in Byte /\ Bits(a.lo) \in Byte
      BY <1>1, BitsByte
<1> QED  BY <1>2 DEF AddrToBytes, Address

(* What a constructor from bytes leaves in an object.                      *)
LEMMA Parsed ==
    ASSUME NEW signed \in BOOLEAN, NEW b, b.src \in Address(Byte),
           b.dest \in Address(Byte), NEW o \in FromBytes(signed, b)
    PROVE  /\ o \in Object(signed)
           /\ AddrToBytes(o.src) = b.src
           /\ AddrToBytes(o.dest) = b.dest
           /\ o.dest = AddrFromBytes(signed, b.dest)
           /\ b.data = ON_BYTE => o.on = TRUE
           /\ b.data = OFF_BYTE => o.on = FALSE
<1>1. PICK on \in SwitchFromByte(b.data) :
          o = [src |-> AddrFromBytes(signed, b.src),
               dest |-> AddrFromBytes(signed, b.dest), on |-> on]
      BY DEF FromBytes
<1>2. on \in BOOLEAN
      BY DEF SwitchFromByte
<1>4. ASSUME b.data = ON_BYTE PROVE on = TRUE
  <2>1. on \in {TRUE}  BY <1>4, Zenon DEF SwitchFromByte
  <2> QED  BY <2>1, Zenon
<1>5. ASSUME b.data = OFF_BYTE PROVE on = FALSE
  <2>1. ON_BYTE # OFF_BYTE  BY SMT DEF ON_BYTE, OFF_BYTE
  <2>2. on \in {FALSE}  BY <1>5, <2>1, Zenon DEF SwitchFromByte
  <2> QED  BY <2>2, Zenon
<1>3. /\ AddrFromBytes(signed, b.src) \in Address(Chars(signed))
      /\ AddrToBytes(AddrFromBytes(signed, b.src)) = b.src
      /\ AddrFromBytes(signed, b.dest) \in Address(Chars(signed))
      /\ AddrToBytes(AddrFromBytes(signed, b.dest)) = b.dest
      BY AddrBytes
<1> QED  BY <1>1, <1>2, <1>3, <1>4, <1>5 DEF Object

(* The callbacks hand on what they are given.                              *)
LEMMA Converted ==
    ASSUME NEW signed \in BOOLEAN, NEW o \in Object(signed)
    PROVE  Convert(signed, o) = o
<1>1. o = [src |-> o.src, dest |-> o.dest, on |-> o.on]
      /\ o.src \in Address(Chars(signed)) /\ o.dest \in Address(Chars(signed))
      BY DEF Object
<1>2. SetAddr(signed, GetAddr(o.src)) = o.src
      /\ SetAddr(signed, GetAddr(o.dest)) = o.dest
      BY <1>1, AddrKept
<1> QED  BY <1>1, <1>2 DEF Convert

LEMMA SwitchByte ==
    ASSUME NEW on \in BOOLEAN
    PROVE  SwitchToByte(on) \in Byte
BY SMT DEF SwitchToByte, ON_BYTE, OFF_BYTE, Byte

(* The ints an address is shown as.                                        *)
LEMMA ShownInts ==
    ASSUME NEW signed \in BOOLEAN, NEW a \in Address(Chars(signed))
    PROVE  GetAddr(a).main \in Int /\ GetAddr(a).middle \in Int
           /\ GetAddr(a).sub \in Int
<1>1. a.hi \in Int /\ a.lo \in Int
      BY DEF Address, Chars
<1> QED  BY <1>1, SMT DEF GetAddr
----------------------------------------------------------------------------
(* The invariant holds initially ...                                       *)
LEMMA PathInit == Init => PathInv
BY DEF Init, PathInv, TypeOK, FrameInv, PacketInv, WireInv, EndInv, ToApp

(* ... and every step keeps it.                                            *)
LEMMA PathStep == PathInv /\ [Next]_vars => PathInv'
<1> SUFFICES ASSUME PathInv, [Next]_vars
             PROVE  PathInv'
    OBVIOUS
<1>s. ServerSigned \in BOOLEAN /\ AppSigned \in BOOLEAN
      BY SignAssumption
<1>1. CASE RouterSends
  <2>1. frame' \in Frame
    <3>1. PICK f \in [src : Address(Sample), dest : Address(Sample), data : Sample] :
              frame' = f
          BY <1>1 DEF RouterSends
    <3>2. f = [src |-> f.src, dest |-> f.dest, data |-> f.data]
          /\ f.src \in Address(Sample) /\ f.dest \in Address(Sample)
          /\ f.data \in Byte
          BY <3>1, SampleAssumption
    <3>3. f.src \in Address(Byte) /\ f.dest \in Address(Byte)
          BY <3>2, SampleAssumption DEF Address
    <3> QED  BY <3>1, <3>2, <3>3 DEF Frame
  <2> QED  BY <2>1, <1>1 DEF RouterSends, PathInv, TypeOK, FrameInv, PacketInv,
                             WireInv, EndInv, ToApp
<1>2. CASE ParseRequest
  <2>1. request' \in Object(ServerSigned)
    <3>1. frame \in Frame  BY <1>2 DEF ParseRequest, PathInv, FrameInv
    <3>2. frame.src \in Address(Byte) /\ frame.dest \in Address(Byte)
          BY <3>1 DEF Frame
    <3> QED  BY <1>s, <1>2, <3>2, Parsed DEF ParseRequest
  <2> QED  BY <2>1, <1>2 DEF ParseRequest, PathInv, TypeOK, FrameInv, PacketInv,
                             WireInv, EndInv, ToApp
<1>3. CASE OnKnxReceive
  <2>1. frame \in Frame /\ request \in FromBytes(ServerSigned, frame)
        BY <1>3 DEF OnKnxReceive, PathInv, FrameInv, ToApp
  <2>2. frame.src \in Address(Byte) /\ frame.dest \in Address(Byte)
        BY <2>1 DEF Frame
  <2>3. request \in Object(ServerSigned)
        BY <1>s, <2>1, <2>2, Parsed
  <2>4. packet' = request
        BY <1>s, <1>3, <2>3, Converted DEF OnKnxReceive
  <2> QED  BY <2>3, <2>4, <1>3 DEF OnKnxReceive, PathInv, TypeOK, FrameInv,
                                   PacketInv, WireInv, EndInv, ToApp
<1>4. CASE SendToApp
  <2>1. frame \in Frame /\ request \in FromBytes(ServerSigned, frame)
        /\ packet = request
        BY <1>4 DEF SendToApp, PathInv, FrameInv, PacketInv, ToApp
  <2>2. frame.src \in Address(Byte) /\ frame.dest \in Address(Byte)
        BY <2>1 DEF Frame
  <2>3. /\ request \in Object(ServerSigned)
        /\ AddrToBytes(request.src) = frame.src
        /\ AddrToBytes(request.dest) = frame.dest
        BY <1>s, <2>1, <2>2, Parsed
  <2>4. SwitchToByte(request.on) \in Byte
        BY <2>3, SwitchByte DEF Object
  <2>5. wire' = [type |-> HOME_PACKET_KNXTUNNEL, src |-> frame.src,
                 dest |-> frame.dest, data |-> SwitchToByte(request.on)]
        BY <2>1, <2>3, <1>4 DEF SendToApp
  <2>6. wire' \in Wire
        BY <2>2, <2>4, <2>5 DEF Wire, HOME_PACKET_KNXTUNNEL, Byte
  <2> QED  BY <2>5, <2>6, <1>4 DEF SendToApp, PathInv, TypeOK, FrameInv,
                                   PacketInv, WireInv, EndInv, ToApp
<1>5. CASE AppReceives
  <2>1. frame \in Frame
        /\ wire = [type |-> HOME_PACKET_KNXTUNNEL, src |-> frame.src,
                   dest |-> frame.dest, data |-> SwitchToByte(request.on)]
        BY <1>5 DEF AppReceives, PathInv, FrameInv, WireInv, ToApp
  <2>2. wire.src \in Address(Byte) /\ wire.dest \in Address(Byte)
        BY <2>1 DEF Frame
  <2>3. seen' \in Object(AppSigned)
        BY <1>s, <1>5, <2>2, Parsed DEF AppReceives
  <2> QED  BY <2>3, <1>5 DEF AppReceives, PathInv, TypeOK, FrameInv,
                             PacketInv, WireInv, EndInv, ToApp
<1>6. CASE AppShows
  <2>1. frame \in Frame
        /\ wire = [type |-> HOME_PACKET_KNXTUNNEL, src |-> frame.src,
                   dest |-> frame.dest, data |-> SwitchToByte(request.on)]
        /\ seen \in FromBytes(AppSigned, wire)
        BY <1>6 DEF AppShows, PathInv, FrameInv, WireInv, EndInv, ToApp
  <2>2. wire.src \in Address(Byte) /\ wire.dest \in Address(Byte)
        BY <2>1 DEF Frame
  <2>3. seen \in Object(AppSigned)
        BY <1>s, <2>1, <2>2, Parsed
  <2>4. seen.on \in BOOLEAN /\ seen.dest \in Address(Chars(AppSigned))
        BY <2>3 DEF Object
  <2>5. shown' = [main |-> GetAddr(seen.dest).main,
                  middle |-> GetAddr(seen.dest).middle,
                  sub |-> GetAddr(seen.dest).sub, on |-> seen.on]
        BY <1>6 DEF AppShows
  <2>6. shown' \in [main : Int, middle : Int, sub : Int, on : BOOLEAN]
        BY <1>s, <2>4, <2>5, ShownInts
  <2> QED  BY <2>5, <2>6, <1>6 DEF AppShows, PathInv, TypeOK, FrameInv,
                                   PacketInv, WireInv, EndInv, ToApp
<1>7. CASE AppSends
  <2>1. wire' \in Wire
    <3>1. PICK w \in [type : Sample, src : Address(Sample), dest : Address(Sample),
                      data : Sample] : wire' = w
          BY <1>7 DEF AppSends
    <3>2. w = [type |-> w.type, src |-> w.src, dest |-> w.dest, data |-> w.data]
          /\ w.src \in Address(Sample) /\ w.dest \in Address(Sample)
          /\ w.type \in Byte /\ w.data \in Byte
          BY <3>1, SampleAssumption
    <3>3. w.src \in Address(Byte) /\ w.dest \in Address(Byte)
          BY <3>2, SampleAssumption DEF Address
    <3> QED  BY <3>1, <3>2, <3>3 DEF Wire
  <2> QED  BY <2>1, <1>7 DEF AppSends, PathInv, TypeOK, FrameInv, PacketInv,
                             WireInv, EndInv, ToApp
<1>8. CASE CreatePacket
  <2>1. wire \in Wire  BY <1>8 DEF CreatePacket, PathInv, WireInv
  <2>2. wire.src \in Address(Byte) /\ wire.dest \in Address(Byte)
        BY <2>1 DEF Wire
  <2>3. packet = NoObject  BY <1>8 DEF CreatePacket, PathInv, PacketInv
  <2>4. CASE pc' = "created" /\ packet' \in FromBytes(ServerSigned, wire)
             /\ wire' = wire
    <3>1. packet' \in Object(ServerSigned)
          BY <1>s, <2>2, <2>4, Parsed
    <3> QED  BY <3>1, <2>1, <2>4, <1>8
             DEF CreatePacket, PathInv, TypeOK, FrameInv, PacketInv, WireInv,
                 EndInv, ToApp
  <2>5. CASE pc' \in {"idle", "crashed", "other"} /\ packet' = packet
             /\ wire' \in {NoObject, wire} /\ (pc' = "other" => wire' = wire)
        BY <2>1, <2>3, <2>5, <1>8
        DEF CreatePacket, PathInv, TypeOK, FrameInv, PacketInv, WireInv,
            EndInv, ToApp
  <2> QED  BY <2>4, <2>5, <1>8 DEF CreatePacket
<1>9. CASE OnHomeServerReceive
  <2>1. wire \in Wire /\ packet \in FromBytes(ServerSigned, wire)
        BY <1>9 DEF OnHomeServerReceive, PathInv, PacketInv, WireInv
  <2>2. wire.src \in Address(Byte) /\ wire.dest \in Address(Byte)
        BY <2>1 DEF Wire
  <2>3. packet \in Object(ServerSigned)
        BY <1>s, <2>1, <2>2, Parsed
  <2>4. request' = packet
        BY <1>s, <1>9, <2>3, Converted DEF OnHomeServerReceive
  <2> QED  BY <2>1, <2>3, <2>4, <1>9
           DEF OnHomeServerReceive, PathInv, TypeOK, FrameInv, PacketInv,
               WireInv, EndInv, ToApp
<1>10. CASE CastOther
  <2>1. wire \in Wire /\ packet = NoObject
        BY <1>10 DEF CastOther, PathInv, PacketInv, WireInv
  <2>2. CASE pc' = "crashed" /\ UNCHANGED <<frame, request, packet, wire, seen, shown>>
        BY <2>1, <2>2 DEF PathInv, TypeOK, FrameInv, PacketInv, WireInv,
                          EndInv, ToApp
  <2>3. ASSUME NEW a \in Sample, NEW b \in Sample,
               LET any == AddrFromBytes(ServerSigned, [hi |-> a, lo |-> b])
               IN  request' \in [src : {any}, dest : {any}, on : BOOLEAN],
               pc' = "requested", UNCHANGED <<frame, packet, wire, seen, shown>>
        PROVE  PathInv'
    <3>1. [hi |-> a, lo |-> b] \in Address(Byte)
          BY SampleAssumption DEF Address
    <3>2. AddrFromBytes(ServerSigned, [hi |-> a, lo |-> b])
              \in Address(Chars(ServerSigned))
          BY <1>s, <3>1, AddrBytes
    <3>3. request' \in Object(ServerSigned)
          BY <2>3, <3>2 DEF Object
    <3> QED  BY <2>1, <2>3, <3>3 DEF PathInv, TypeOK, FrameInv, PacketInv,
                                     WireInv, EndInv, ToApp
  <2> QED  BY <2>2, <2>3, <1>10 DEF CastOther
<1>11. CASE SendToBus
  <2>1. request \in Object(ServerSigned)
        BY <1>11 DEF SendToBus, PathInv, PacketInv
  <2>2. /\ request.src \in Address(Chars(ServerSigned))
        /\ request.dest \in Address(Chars(ServerSigned))
        /\ request.on \in BOOLEAN
        BY <2>1 DEF Object
  <2>3. /\ AddrToBytes(request.src) \in Address(Byte)
        /\ AddrToBytes(request.dest) \in Address(Byte)
        /\ SwitchToByte(request.on) \in Byte
        BY <1>s, <2>2, AddrOnWire, SwitchByte
  <2>4. frame' \in Frame
        BY <1>11, <2>3 DEF SendToBus, Frame
  <2> QED  BY <2>4, <1>11 DEF SendToBus, PathInv, TypeOK, FrameInv, PacketInv,
                              WireInv, EndInv, ToApp
<1>12. CASE Again
       BY <1>12 DEF Again, PathInv, TypeOK, FrameInv, PacketInv, WireInv,
                    EndInv, ToApp
<1>13. CASE UNCHANGED vars
       BY <1>13 DEF vars, PathInv, TypeOK, FrameInv, PacketInv, WireInv,
                    EndInv, ToApp
<1> QED  BY <1>1, <1>2, <1>3, <1>4, <1>5, <1>6, <1>7, <1>8, <1>9, <1>10,
            <1>11, <1>12, <1>13 DEF Next

(* At each step of its way a telegram is the image of what it was before,   *)
(* for all bytes and all choices of signs.                                 *)
THEOREM PathInvariant == Spec => []PathInv
BY PathInit, PathStep, PTL DEF Spec

(* The variables of the path keep their types.                             *)
THEOREM PathTyped == Spec => []TypeOK
<1>1. PathInv => TypeOK  BY DEF PathInv
<1> QED  BY <1>1, PathInvariant, PTL
----------------------------------------------------------------------------
(* What the invariant says of a telegram that reached the app ...           *)
LEMMA AtApp ==
    ASSUME PathInv, pc \in {"seen", "shown"}
    PROVE  /\ frame.src \in Address(Byte) /\ frame.dest \in Address(Byte)
           /\ request \in FromBytes(ServerSigned, frame)
           /\ wire.src = frame.src /\ wire.dest = frame.dest
           /\ wire.data = SwitchToByte(request.on)
           /\ seen \in FromBytes(AppSigned, wire)
<1>1. /\ frame \in Frame
      /\ request \in FromBytes(ServerSigned, frame)
      /\ wire = [type |-> HOME_PACKET_KNXTUNNEL, src |-> frame.src,
                 dest |-> frame.dest, data |-> SwitchToByte(request.on)]
      /\ seen \in FromBytes(AppSigned, wire)
      BY DEF PathInv, FrameInv, WireInv, EndInv, ToApp
<1> QED  BY <1>1 DEF Frame

(* ... and of a tunnel packet of an app that reached the bus.               *)
LEMMA AtBus ==
    ASSUME PathInv, pc = "sentToBus", packet # NoObject
    PROVE  /\ wire.src \in Address(Byte) /\ wire.dest \in Address(Byte)
           /\ request \in FromBytes(ServerSigned, wire)
           /\ frame = [src |-> AddrToBytes(request.src),
                       dest |-> AddrToBytes(request.dest),
                       data |-> SwitchToByte(request.on)]
<1>1. wire \in Wire /\ request \in FromBytes(ServerSigned, wire)
      BY DEF PathInv, PacketInv, WireInv
<1>2. frame = [src |-> AddrToBytes(request.src),
               dest |-> AddrToBytes(request.dest),
               data |-> SwitchToByte(request.on)]
      BY DEF PathInv, EndInv
<1> QED  BY <1>1, <1>2 DEF Wire

(* Addresses pass the gateway unchanged in both directions.                 *)
THEOREM AddressesSurvive == Spec => []AddressRelayed
<1>1. ASSUME PathInv PROVE AddressRelayed
  <2>s. ServerSigned \in BOOLEAN /\ AppSigned \in BOOLEAN
        BY SignAssumption
  <2>1. ASSUME pc \in {"seen", "shown"}
        PROVE  AddrToBytes(seen.src) = frame.src /\ AddrToBytes(seen.dest) = frame.dest
    <3>1. /\ wire.src \in Address(Byte) /\ wire.dest \in Address(Byte)
          /\ wire.src = frame.src /\ wire.dest = frame.dest
          /\ seen \in FromBytes(AppSigned, wire)
          BY <1>1, <2>1, AtApp
    <3> QED  BY <2>s, <3>1, Parsed
  <2>2. ASSUME pc = "sentToBus", packet # NoObject
        PROVE  frame.src = wire.src /\ frame.dest = wire.dest
    <3>1. /\ wire.src \in Address(Byte) /\ wire.dest \in Address(Byte)
          /\ request \in FromBytes(ServerSigned, wire)
          /\ frame.src = AddrToBytes(request.src)
          /\ frame.dest = AddrToBytes(request.dest)
          BY <1>1, <2>2, AtBus
    <3>2. /\ AddrToBytes(request.src) = wire.src
          /\ AddrToBytes(request.dest) = wire.dest
          BY <2>s, <3>1, Parsed
    <3> QED  BY <3>1, <3>2
  <2> QED  BY <2>1, <2>2 DEF AddressRelayed
<1> QED  BY <1>1, PathInvariant, PTL

(* A switch value that left as on or off arrives as on or off.              *)
THEOREM SwitchesSurvive == Spec => []SwitchRelayed
<1>1. ASSUME PathInv PROVE SwitchRelayed
  <2>s. ServerSigned \in BOOLEAN /\ AppSigned \in BOOLEAN
        BY SignAssumption
  <2>n. ON_BYTE # OFF_BYTE  BY SMT DEF ON_BYTE, OFF_BYTE
  <2>1. ASSUME pc = "shown", frame.data \in {ON_BYTE, OFF_BYTE}
        PROVE  shown.on = (frame.data = ON_BYTE)
    <3>1. /\ frame.src \in Address(Byte) /\ frame.dest \in Address(Byte)
          /\ request \in FromBytes(ServerSigned, frame)
          /\ wire.src \in Address(Byte) /\ wire.dest \in Address(Byte)
          /\ wire.data = SwitchToByte(request.on)
          /\ seen \in FromBytes(AppSigned, wire)
          BY <1>1, <2>1, AtApp
    <3>2. shown.on = seen.on
          BY <1>1, <2>1 DEF PathInv, EndInv
    <3>3. CASE frame.data = ON_BYTE
      <4>1. request.on = TRUE  BY <2>s, <3>1, <3>3, Parsed
      <4>2. wire.data = ON_BYTE  BY <3>1, <4>1 DEF SwitchToByte
      <4>3. seen.on = TRUE  BY <2>s, <3>1, <4>2, Parsed
      <4>4. (frame.data = ON_BYTE) = TRUE  BY <3>3, Zenon
      <4> QED  BY <3>2, <4>3, <4>4, Zenon
    <3>4. CASE frame.data = OFF_BYTE
      <4>1. request.on = FALSE  BY <2>s, <3>1, <3>4, Parsed
      <4>2. wire.data = OFF_BYTE  BY <3>1, <4>1 DEF SwitchToByte
      <4>3. seen.on = FALSE  BY <2>s, <3>1, <4>2, Parsed
      <4>4. (frame.data = ON_BYTE) = FALSE  BY <2>n, <3>4, Zenon
      <4> QED  BY <3>2, <4>3, <4>4, Zenon
    <3> QED  BY <2>1, <3>3, <3>4
  <2>2. ASSUME pc = "sentToBus", packet # NoObject, wire.data \in {ON_BYTE, OFF_BYTE}
        PROVE  frame.data = wire.data
    <3>1. /\ wire.src \in Address(Byte) /\ wire.dest \in Address(Byte)
          /\ request \in FromBytes(ServerSigned, wire)
          /\ frame.data = SwitchToByte(request.on)
          BY <1>1, <2>2, AtBus
    <3>2. CASE wire.data = ON_BYTE
      <4>1. request.on = TRUE  BY <2>s, <3>1, <3>2, Parsed
      <4> QED  BY <3>1, <3>2, <4>1 DEF SwitchToByte
    <3>3. CASE wire.data = OFF_BYTE
      <4>1. request.on = FALSE  BY <2>s, <3>1, <3>3, Parsed
      <4> QED  BY <3>1, <3>3, <4>1 DEF SwitchToByte
    <3> QED  BY <2>2, <3>2, <3>3
  <2> QED  BY <2>1, <2>2 DEF SwitchRelayed
<1> QED  BY <1>1, PathInvariant, PTL

(* The app shows the group address of a telegram wherever signs allow it.   *)
THEOREM ShownIsGroupAddress == Spec => []ShownAddress
<1>1. ASSUME PathInv PROVE ShownAddress
  <2> SUFFICES ASSUME pc = "shown",
                      AppSigned => frame.dest.hi < 128 /\ frame.dest.lo < 128
               PROVE  /\ shown.main = frame.dest.hi \div 8
                      /\ shown.middle = frame.dest.hi % 8
                      /\ shown.sub = frame.dest.lo
      BY DEF ShownAddress
  <2>1. /\ frame.dest \in Address(Byte)
        /\ wire.src \in Address(Byte) /\ wire.dest \in Address(Byte)
        /\ wire.dest = frame.dest
        /\ seen \in FromBytes(AppSigned, wire)
        BY <1>1, AtApp
  <2>2. seen.dest = AddrFromBytes(AppSigned, wire.dest)
        BY <2>1, SignAssumption, Parsed
  <2>3. frame.dest.hi \in Byte /\ frame.dest.lo \in Byte
        BY <2>1 DEF Address
  <2>4. Char(AppSigned, frame.dest.hi) = frame.dest.hi
    <3>1. CASE AppSigned   BY <3>1, <2>3, SMT DEF Char, Byte
    <3>2. CASE ~AppSigned  BY <3>2, <2>3, SMT DEF Char, Byte
    <3> QED  BY <3>1, <3>2
  <2>5. Char(AppSigned, frame.dest.lo) = frame.dest.lo
    <3>1. CASE AppSigned   BY <3>1, <2>3, SMT DEF Char, Byte
    <3>2. CASE ~AppSigned  BY <3>2, <2>3, SMT DEF Char, Byte
    <3> QED  BY <3>1, <3>2
  <2>6. seen.dest.hi = frame.dest.hi /\ seen.dest.lo = frame.dest.lo
        BY <2>1, <2>2, <2>4, <2>5 DEF AddrFromBytes
  <2>7. shown = [main |-> GetAddr(seen.dest).main,
                 middle |-> GetAddr(seen.dest).middle,
                 sub |-> GetAddr(seen.dest).sub, on |-> seen.on]
        BY <1>1 DEF PathInv, EndInv
  <2>8. /\ GetAddr(seen.dest).main = seen.dest.hi \div 8
        /\ GetAddr(seen.dest).middle = seen.dest.hi % 8
        /\ GetAddr(seen.dest).sub = seen.dest.lo
        BY Zenon DEF GetAddr
  <2> QED  BY <2>6, <2>7, <2>8
<1> QED  BY <1>1, PathInvariant, PTL
=============================================================================
