------------------------------- MODULE KnxIp -------------------------------
(***************************************************************************)
(* The KNXnet/IP datagrams that KnxConnection exchanges with the router,   *)
(* as server/src/knx builds and parses them.                               *)
(*                                                                         *)
(* A datagram is abstracted to its service type and to the two bytes that  *)
(* differ between datagrams of one type and decide what the program does:  *)
(* the channel id, and "num", which is the status byte of a response and   *)
(* the sequence counter of a tunnelling request.                           *)
(*                                                                         *)
(* What is kept exactly is where a parser looks: several parsers read a    *)
(* fixed offset whatever the type, so byte 6 and byte 7 are operators on   *)
(* the datagram and not fields of it.                                      *)
(***************************************************************************)
EXTENDS Naturals

Byte == 0..255

(* Status byte of a successful answer, and of the router's refusals: no     *)
(* more connections, and no such connection.                               *)
NoError       == 0
NoConnections == 36
NoSuchChannel == 33

ServiceType == {"ConnectionRequest",      "ConnectionResponse",
                "ConnectionStateRequest", "ConnectionStateResponse",
                "TunnelingRequest",       "TunnelingResponse",
                "DisconnectRequest",      "DisconnectResponse"}

(* The types KnxPacket::getPacket has a class for; its switch falls off the *)
(* end of the function for every other one.                                *)
KnownType == {"TunnelingRequest",  "TunnelingResponse",
              "DisconnectRequest", "DisconnectResponse"}

Datagram == [type : ServiceType, chan : Byte, num : Byte]

Tunneling(d) == d.type \in {"TunnelingRequest", "TunnelingResponse"}

(* A tunnelling datagram has a connection header: its length (4) is byte 6, *)
(* the channel byte 7 and the counter byte 8.  All others carry the channel *)
(* in byte 6; byte 7 is the status of a response and reserved (0) in a      *)
(* request.                                                                *)
HeaderLength == 4

Byte6(d) == IF Tunneling(d) THEN HeaderLength ELSE d.chan

Byte7(d) == IF Tunneling(d)                     THEN d.chan
            ELSE IF d.type = "DisconnectRequest" THEN 0
            ELSE d.num

(* Mutant of ChanelIdFromBytes: every class reads byte 6.                   *)
ChanelIdFromByte6(d, old) ==
    IF d.type \in KnownType \ {"TunnelingResponse"} THEN Byte6(d) ELSE old

(* What the constructor called by KnxPacket::getPacket leaves in            *)
(* connection->chanelId, to which three of the four packet classes hold a   *)
(* pointer: TunnelingRequest and DisconnectRespose store byte 7 there and   *)
(* DisconnectRequest byte 6.  TunnelingResponse has a copy of its own.      *)
ChanelIdFromBytes(d, old) ==
    CASE d.type = "TunnelingRequest"   -> Byte7(d)
      [] d.type = "DisconnectRequest"  -> Byte6(d)
      [] d.type = "DisconnectResponse" -> Byte7(d)
      [] OTHER                         -> old
============================================================================
