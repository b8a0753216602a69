------------------------ MODULE KnxConnectionProofs ------------------------
(***************************************************************************)
(* Machine-checked proofs about KnxConnection, for any channels, any stale *)
(* sessions, any width of the counter and any bounds.                      *)
(***************************************************************************)
EXTENDS KnxConnection, SequenceTheorems, TLAPS

----------------------------------------------------------------------------
(* Lemmas about the datagrams.                                             *)

(* Every byte a parser takes out of a datagram is a byte.                  *)
LEMMA ParsedBytes ==
    ASSUME NEW d \in Datagram
    PROVE  /\ Byte6(d) \in Byte
           /\ Byte7(d) \in Byte
           /\ \A old \in Byte : ChanelIdFromBytes(d, old) \in Byte
  <1>1. d.chan \in Byte /\ d.num \in Byte
    BY DEF Datagram
  <1>2. 0 \in Byte /\ 4 \in Byte
    BY DEF Byte
  <1>3. Byte6(d) \in Byte
    BY <1>1, <1>2 DEF Byte6, HeaderLength
  <1>4. Byte7(d) \in Byte
    BY <1>1, <1>2 DEF Byte7
  <1>5. ASSUME NEW old \in Byte PROVE ChanelIdFromBytes(d, old) \in Byte
    BY <1>3, <1>4 DEF ChanelIdFromBytes
  <1> QED
    BY <1>3, <1>4, <1>5

(* A service type and two bytes make a datagram.                           *)
LEMMA MakeDatagram ==
    ASSUME NEW t \in ServiceType, NEW c \in Byte, NEW n \in Byte
    PROVE  [type |-> t, chan |-> c, num |-> n] \in Datagram
  BY DEF Datagram

(* The constants the datagrams are built from are bytes.                   *)
LEMMA ByteConstants ==
    /\ 0 \in Byte /\ 1 \in Byte
    /\ {NoError, NoConnections, NoSuchChannel} \subseteq Byte
    /\ Channel \subseteq Byte
  BY ChannelAssumption DEF Byte, NoError, NoConnections, NoSuchChannel

(* Sending a datagram leaves only datagrams in flight.                     *)
LEMMA SendBytesType ==
    ASSUME toRouter \subseteq Datagram, NEW d \in Datagram, SendBytes(d)
    PROVE  toRouter' \subseteq Datagram
  BY DEF SendBytes

(* The counter byte of a request is a byte.                                *)
LEMMA CounterByte ==
    ASSUME NEW n \in Nat
    PROVE  n % SeqMod \in Byte
  BY SeqModAssumption DEF Byte

(* Receiving takes no new datagram into flight.                            *)
LEMMA ReceiveBytesType ==
    ASSUME faults \in Nat, NEW d \in toClient, ReceiveBytes(d)
    PROVE  toClient' \subseteq toClient /\ faults' \in Nat
  BY DEF ReceiveBytes

----------------------------------------------------------------------------
(* The type invariant, one step per group of actions.                      *)

LEMMA TypeInit == Init => TypeOK
  <1> SUFFICES ASSUME Init PROVE TypeOK
    OBVIOUS
  <1>1. homePacket \in Datagram
    BY MakeDatagram, ByteConstants DEF Init, ServiceType
  <1>2. chanelId \in Byte
    BY UninitAssumption DEF Init
  <1>3. sessions \subseteq Channel
    BY StaleAssumption DEF Init
  <1>4. attempted \in Seq(Byte)
    BY DEF Init
  <1> QED
    BY <1>1, <1>2, <1>3, <1>4 DEF Init, TypeOK, MainPc, RecvPc

LEMMA TypeMain == TypeOK /\ MainNext => TypeOK'
  <1> SUFFICES ASSUME TypeOK, MainNext PROVE TypeOK'
    OBVIOUS
  <1> USE DEF TypeOK, MainPc, RecvPc, mainVars, homeVars, routerVars, netVars,
              historyVars
  <1>1. CASE ConnectServer
    BY <1>1 DEF ConnectServer, ConnectReturns
  <1>2. CASE SendConnectionRequest
    <2>1. [type |-> "ConnectionRequest", chan |-> 0, num |-> 0] \in Datagram
      BY MakeDatagram, ByteConstants DEF ServiceType
    <2>2. toRouter' \subseteq Datagram
      BY <1>2, <2>1, SendBytesType DEF SendConnectionRequest
    <2> QED
      BY <1>2, <2>2 DEF SendConnectionRequest
  <1>3. CASE ReceiveConnectionResponse
    <2>1. PICK d \in toClient :
             /\ ReceiveBytes(d)
             /\ chanelId' = Byte6(d)
             /\ IF ConnectionAccepted(d)
                THEN mainPc' = "stateRequest" /\ UNCHANGED connectResult
                ELSE ConnectReturns("false")
      BY <1>3 DEF ReceiveConnectionResponse
    <2>2. chanelId' \in Byte
      BY <2>1, ParsedBytes
    <2> QED
      BY <1>3, <2>1, <2>2
      DEF ReceiveConnectionResponse, ReceiveBytes, ConnectReturns
  <1>4. CASE SendConnectionStateRequest
    <2>1. [type |-> "ConnectionStateRequest", chan |-> chanelId, num |-> 0] \in Datagram
      BY MakeDatagram, ByteConstants DEF ServiceType
    <2>2. toRouter' \subseteq Datagram
      BY <1>4, <2>1, SendBytesType DEF SendConnectionStateRequest
    <2> QED
      BY <1>4, <2>2 DEF SendConnectionStateRequest
  <1>5. CASE ReceiveConnectionStateResponse
    <2>1. PICK d \in toClient :
             /\ ReceiveBytes(d)
             /\ IF StateConfirmed(d)
                THEN /\ connected' = TRUE
                     /\ StartReceiveThread
                     /\ ConnectReturns("true")
                ELSE /\ ConnectReturns("false")
                     /\ UNCHANGED <<connected, recvPc>>
      BY <1>5 DEF ReceiveConnectionStateResponse
    <2>2. toClient' \subseteq Datagram /\ faults' \in Nat
      BY <2>1, ReceiveBytesType
    <2>3. connected' \in BOOLEAN /\ recvPc' \in RecvPc
      BY <2>1 DEF StartReceiveThread
    <2> QED
      BY <1>5, <2>1, <2>2, <2>3
      DEF ReceiveConnectionStateResponse, ConnectReturns
  <1>6. CASE Disconnect
    <2>1. [type |-> "DisconnectRequest", chan |-> chanelId, num |-> 0] \in Datagram
      BY MakeDatagram, ByteConstants DEF ServiceType
    <2>2. toRouter' \subseteq Datagram
      BY <1>6, <2>1, SendBytesType DEF Disconnect
    <2> QED
      BY <1>6, <2>2 DEF Disconnect
  <1>7. CASE WaitDisconnectFinished
    BY <1>7 DEF WaitDisconnectFinished
  <1> QED
    BY <1>1, <1>2, <1>3, <1>4, <1>5, <1>6, <1>7 DEF MainNext

LEMMA TypeRecv == TypeOK /\ RecvNext => TypeOK'
  <1> SUFFICES ASSUME TypeOK, RecvNext PROVE TypeOK'
    OBVIOUS
  <1> USE DEF TypeOK, RecvPc, mainVars, homeVars, routerVars, netVars,
              historyVars
  <1>1. CASE TestConnected
    BY <1>1 DEF TestConnected
  <1>2. CASE Receive
    <2>1. PICK d \in toClient : /\ ReceiveBytes(d)
                                /\ chanelId' = ChanelIdFromBytes(d, chanelId)
                                /\ recvPc' = Branch(d)
      BY <1>2 DEF Receive
    <2>2. chanelId' \in Byte
      BY <2>1, ParsedBytes
    <2>3. toClient' \subseteq Datagram /\ faults' \in Nat
      BY <2>1, ReceiveBytesType
    <2>4. recvPc' \in RecvPc
      BY <2>1 DEF Branch
    <2> QED
      BY <1>2, <2>2, <2>3, <2>4 DEF Receive
  <1>3. CASE ReceiveUnknown
    <2>1. PICK d \in toClient : ReceiveBytes(d)
      BY <1>3 DEF ReceiveUnknown
    <2>2. toClient' \subseteq Datagram /\ faults' \in Nat
      BY <2>1, ReceiveBytesType
    <2> QED
      BY <1>3, <2>2 DEF ReceiveUnknown
  <1>4. CASE Deliver
    BY <1>4 DEF Deliver
  <1>5. CASE Acknowledge
    <2>1. [type |-> "TunnelingResponse", chan |-> chanelId, num |-> 1] \in Datagram
      BY MakeDatagram, ByteConstants DEF ServiceType
    <2>2. toRouter' \subseteq Datagram
      BY <1>5, <2>1, SendBytesType DEF Acknowledge
    <2> QED
      BY <1>5, <2>2 DEF Acknowledge
  <1>6. CASE AnswerDisconnect
    <2>1. PICK b \in UninitBytes :
             SendBytes([type |-> "DisconnectResponse", chan |-> b,
                        num |-> chanelId])
      BY <1>6 DEF AnswerDisconnect
    <2>2. [type |-> "DisconnectResponse", chan |-> b, num |-> chanelId]
             \in Datagram
      BY MakeDatagram, UninitAssumption DEF ServiceType
    <2>3. toRouter' \subseteq Datagram
      BY <2>1, <2>2, SendBytesType
    <2> QED
      BY <1>6, <2>3 DEF AnswerDisconnect
  <1>7. CASE StopLoop
    BY <1>7 DEF StopLoop
  <1>8. CASE CloseSocket
    BY <1>8 DEF CloseSocket
  <1>9. CASE NotifyDisconnect
    BY <1>9 DEF NotifyDisconnect
  <1> QED
    BY <1>1, <1>2, <1>3, <1>4, <1>5, <1>6, <1>7, <1>8, <1>9 DEF RecvNext

LEMMA TypeHome == TypeOK /\ HomeNext => TypeOK'
  <1> SUFFICES ASSUME TypeOK, HomeNext PROVE TypeOK'
    OBVIOUS
  <1> USE DEF TypeOK, mainVars, homeVars, routerVars, netVars, historyVars
  <1>1. CASE FillTunnelingRequest
    <2>1. counter % SeqMod \in Byte
      BY CounterByte
    <2>2. homePacket' \in Datagram
      BY <1>1, <2>1 DEF FillTunnelingRequest, Datagram, ServiceType
    <2> QED
      BY <1>1, <2>2 DEF FillTunnelingRequest
  <1>2. CASE SendTunnelingRequest
    <2>1. homePacket.num \in Byte
      BY DEF Datagram
    <2>2. attempted' \in Seq(Byte)
      BY <1>2, <2>1, AppendProperties DEF SendTunnelingRequest
    <2> QED
      BY <1>2, <2>2 DEF SendTunnelingRequest, SendBytes, NextCounter
  <1> QED
    BY <1>1, <1>2 DEF HomeNext

LEMMA TypeEnv == TypeOK /\ EnvNext => TypeOK'
  <1> SUFFICES ASSUME TypeOK, EnvNext PROVE TypeOK'
    OBVIOUS
  <1> USE DEF TypeOK, clientVars, mainVars, homeVars, routerVars, historyVars
  <1>0. ASSUME NEW t \in ServiceType, NEW c \in Byte, NEW n \in Byte,
               RouterSends(t, c, n)
        PROVE  toClient' \subseteq Datagram
    BY <1>0, MakeDatagram DEF RouterSends
  <1>a. \A d \in toRouter : RouterReceives(d) =>
            toRouter' \subseteq Datagram /\ faults' \in Nat
    BY DEF RouterReceives
  <1>d. \A d \in toRouter : d.chan \in Byte /\ d.num \in Byte
    BY DEF Datagram
  <1>1. CASE RouterConnect
    <2>1. sessions' \subseteq Channel /\ toClient' \subseteq Datagram
      <3>1. CASE \E c \in Channel \ sessions :
                   /\ sessions' = sessions \union {c}
                   /\ RouterSends("ConnectionResponse", c, NoError)
        BY <3>1, <1>0, ByteConstants DEF ServiceType
      <3>2. CASE /\ RouterSends("ConnectionResponse", 0, NoConnections)
                 /\ UNCHANGED sessions
        BY <3>2, <1>0, ByteConstants DEF ServiceType
      <3> QED
        BY <1>1, <3>1, <3>2 DEF RouterConnect
    <2> QED
      BY <1>1, <2>1, <1>a DEF RouterConnect
  <1>2. CASE RouterConnectionState
    <2>1. PICK d \in toRouter :
             /\ RouterReceives(d)
             /\ RouterSends("ConnectionStateResponse", d.chan,
                            IF d.chan \in sessions THEN NoError
                                                   ELSE NoSuchChannel)
      BY <1>2 DEF RouterConnectionState
    <2>2. toClient' \subseteq Datagram
      BY <2>1, <1>0, <1>d, ByteConstants DEF ServiceType
    <2> QED
      BY <1>2, <2>1, <2>2, <1>a DEF RouterConnectionState
  <1>3. CASE RouterDisconnected
    <2>1. PICK d \in toRouter :
             /\ RouterReceives(d)
             /\ RouterSends("DisconnectResponse", d.chan,
                            IF d.chan \in sessions THEN NoError
                                                   ELSE NoSuchChannel)
             /\ sessions' = sessions \ {d.chan}
      BY <1>3 DEF RouterDisconnected
    <2>2. toClient' \subseteq Datagram
      BY <2>1, <1>0, <1>d, ByteConstants DEF ServiceType
    <2> QED
      BY <1>3, <2>1, <2>2, <1>a DEF RouterDisconnected
  <1>4. CASE RouterTelegram
    <2>1. PICK d \in toRouter :
             /\ RouterReceives(d)
             /\ RouterSends("TunnelingResponse", d.chan, d.num)
      BY <1>4 DEF RouterTelegram
    <2>2. toClient' \subseteq Datagram
      BY <2>1, <1>0, <1>d DEF ServiceType
    <2> QED
      BY <1>4, <2>1, <2>2, <1>a DEF RouterTelegram
  <1>5. CASE RouterIgnores
    BY <1>5 DEF RouterIgnores, RouterReceives
  <1>6. CASE RouterTunnel
    <2>1. telegrams % SeqMod \in Byte
      BY CounterByte
    <2>2. toClient' \subseteq Datagram
      BY <1>6, <1>0, <2>1, ByteConstants DEF RouterTunnel, ServiceType
    <2> QED
      BY <1>6, <2>2 DEF RouterTunnel
  <1>7. CASE RouterDisconnect
    <2>1. toClient' \subseteq Datagram
      BY <1>7, <1>0, ByteConstants DEF RouterDisconnect, ServiceType
    <2> QED
      BY <1>7, <2>1 DEF RouterDisconnect
  <1>8. CASE Lose
    BY <1>8 DEF Lose
  <1> QED
    BY <1>1, <1>2, <1>3, <1>4, <1>5, <1>6, <1>7, <1>8
    DEF EnvNext, RouterAnswers

LEMMA TypeNext == TypeOK /\ [Next]_vars => TypeOK'
  <1>1. TypeOK /\ UNCHANGED vars => TypeOK'
    BY DEF TypeOK, vars, mainVars, homeVars, netVars, routerVars, historyVars
  <1> QED
    BY <1>1, TypeMain, TypeRecv, TypeHome, TypeEnv DEF Next

(* Every variable of the tunnel keeps its type in every behaviour: parsing  *)
(* at fixed offsets and cutting the counter to a char never leave the       *)
(* range of a byte.                                                        *)
THEOREM TunnelTyped == Spec => []TypeOK
  BY TypeInit, TypeNext, PTL DEF Spec

----------------------------------------------------------------------------
(* The inductive invariant.  Its control part is disturbed only by the main *)
(* and the receive thread.                                                 *)

ControlInv == FlagInv /\ SocketInv /\ NotifyInv /\ AckInv /\ MainInv

controlVars == <<mainPc, connectResult, recvPc, connected, sock, delivered,
                 acked, notified>>

LEMMA ControlInit == Init => ControlInv
  BY DEF Init, ControlInv, FlagInv, SocketInv, NotifyInv, AckInv, MainInv,
         Looping

LEMMA ControlFrame == ControlInv /\ UNCHANGED controlVars => ControlInv'
  BY DEF ControlInv, FlagInv, SocketInv, NotifyInv, AckInv, MainInv, Looping,
         controlVars

LEMMA OthersKeepControl ==
    HomeNext \/ EnvNext \/ UNCHANGED vars => UNCHANGED controlVars
  BY DEF HomeNext, FillTunnelingRequest, SendTunnelingRequest, EnvNext,
         RouterAnswers, RouterConnect, RouterConnectionState,
         RouterDisconnected, RouterTelegram, RouterIgnores, RouterTunnel,
         RouterDisconnect, Lose, controlVars, clientVars, vars, mainVars,
         historyVars

(* The main thread: while connect() runs there is no receive thread, so it  *)
(* alone decides about connected and sock.                                 *)
LEMMA ControlMain == TypeOK /\ ControlInv /\ MainNext => ControlInv'
  <1> SUFFICES ASSUME TypeOK, ControlInv, MainNext PROVE ControlInv'
    OBVIOUS
  <1> USE DEF ControlInv, mainVars, historyVars
  <1> USE DEF FlagInv, SocketInv, NotifyInv, AckInv, MainInv, Looping
  <1>0. mainPc \in MainPc /\ recvPc \in RecvPc
    BY DEF TypeOK
  <1>1. CASE ConnectServer
    <2>1. connectResult = "pending" /\ recvPc = "none" /\ ~connected
      BY <1>1 DEF ConnectServer
    <2> QED
      BY <1>1, <2>1 DEF ConnectServer, ConnectReturns
  <1>2. CASE SendConnectionRequest
    BY <1>2 DEF SendConnectionRequest
  <1>3. CASE ReceiveConnectionResponse
    <2>1. connectResult = "pending" /\ recvPc = "none" /\ ~connected
      BY <1>3 DEF ReceiveConnectionResponse
    <2> QED
      BY <1>3, <2>1 DEF ReceiveConnectionResponse, ConnectReturns
  <1>4. CASE SendConnectionStateRequest
    BY <1>4 DEF SendConnectionStateRequest
  <1>5. CASE ReceiveConnectionStateResponse
    <2>1. /\ connectResult = "pending" /\ recvPc = "none" /\ ~connected
          /\ sock = "open"
      BY <1>5 DEF ReceiveConnectionStateResponse
    <2>2. CASE /\ connected' = TRUE
               /\ StartReceiveThread
               /\ ConnectReturns("true")
      BY <1>5, <2>1, <2>2
      DEF ReceiveConnectionStateResponse, ConnectReturns, StartReceiveThread
    <2>3. CASE /\ ConnectReturns("false")
               /\ UNCHANGED <<connected, recvPc>>
      BY <1>5, <2>1, <2>3 DEF ReceiveConnectionStateResponse, ConnectReturns
    <2> QED
      BY <1>5, <2>2, <2>3 DEF ReceiveConnectionStateResponse
  <1>6. CASE Disconnect
    BY <1>6 DEF Disconnect
  <1>7. CASE WaitDisconnectFinished
    BY <1>7 DEF WaitDisconnectFinished
  <1> QED
    BY <1>1, <1>2, <1>3, <1>4, <1>5, <1>6, <1>7 DEF MainNext

(* The receive thread: it clears the flag, then closes the socket, then     *)
(* announces the end, and only then can the loop be left.                  *)
LEMMA ControlRecv == TypeOK /\ ControlInv /\ RecvNext => ControlInv'
  <1> SUFFICES ASSUME TypeOK, ControlInv, RecvNext PROVE ControlInv'
    OBVIOUS
  <1> USE DEF ControlInv, mainVars, historyVars
  <1> USE DEF FlagInv, SocketInv, NotifyInv, AckInv, MainInv, Looping
  <1>0. acked \in Nat /\ delivered \in Nat /\ notified \in Nat
    BY DEF TypeOK
  <1>1. CASE TestConnected
    BY <1>0, <1>1 DEF TestConnected
  <1>2. CASE Receive
    <2>1. recvPc' \in {"deliver", "answer", "stop", "test"}
      BY <1>2 DEF Receive, Branch
    <2> QED
      BY <1>0, <1>2, <2>1 DEF Receive
  <1>3. CASE ReceiveUnknown
    BY <1>0, <1>3 DEF ReceiveUnknown
  <1>4. CASE Deliver
    BY <1>0, <1>4 DEF Deliver
  <1>5. CASE Acknowledge
    BY <1>0, <1>5 DEF Acknowledge
  <1>6. CASE AnswerDisconnect
    BY <1>0, <1>6 DEF AnswerDisconnect
  <1>7. CASE StopLoop
    BY <1>0, <1>7 DEF StopLoop
  <1>8. CASE CloseSocket
    BY <1>0, <1>8 DEF CloseSocket
  <1>9. CASE NotifyDisconnect
    BY <1>0, <1>9 DEF NotifyDisconnect
  <1> QED
    BY <1>1, <1>2, <1>3, <1>4, <1>5, <1>6, <1>7, <1>8, <1>9 DEF RecvNext

LEMMA ControlNext == TypeOK /\ ControlInv /\ [Next]_vars => ControlInv'
  BY ControlMain, ControlRecv, OthersKeepControl, ControlFrame DEF Next

(* The invariant from which the safety theorems follow holds always.        *)
THEOREM TunnelInvariant == Spec => []TunnelInv
  <1>1. Init => TypeOK /\ ControlInv
    BY TypeInit, ControlInit
  <1>2. TypeOK /\ ControlInv /\ [Next]_vars => (TypeOK /\ ControlInv)'
    BY TypeNext, ControlNext
  <1>3. TypeOK /\ ControlInv => TunnelInv
    BY DEF TunnelInv, ControlInv
  <1> QED
    BY <1>1, <1>2, <1>3, PTL DEF Spec

(* `connected' is never TRUE without an open socket: receiveLoop clears the *)
(* flag before it closes the descriptor, so nobody who trusts the flag      *)
(* sends into a descriptor the process may have reused.                    *)
THEOREM FlagMeansSocket == Spec => [](connected => sock = "open")
  <1>1. TunnelInv => (connected => sock = "open")
    BY DEF TunnelInv, SocketInv
  <1> QED
    BY <1>1, TunnelInvariant, PTL

(* When waitDisconnectFinished() has joined a receive thread, the tunnel is *)
(* at rest.                                                                *)
THEOREM JoinIsClean == Spec => []JoinedMeansClosed
  <1>1. TunnelInv => JoinedMeansClosed
    BY DEF TunnelInv, MainInv, FlagInv, SocketInv, NotifyInv, AckInv,
           JoinedMeansClosed
  <1> QED
    BY <1>1, TunnelInvariant, PTL

(* No telegram reaches the application after the end was announced, and the *)
(* end is announced once.                                                  *)
THEOREM EndIsFinal == Spec => NoCallAfterEnd
  <1>1. TunnelInv /\ [Next]_vars =>
           [/\ delivered' # delivered => connected /\ notified = 0
            /\ notified' # notified => notified = 0]_vars
    <2> SUFFICES ASSUME TunnelInv, Next
                 PROVE  /\ delivered' # delivered => connected /\ notified = 0
                        /\ notified' # notified => notified = 0
      OBVIOUS
    <2>1. CASE MainNext
      BY <2>1 DEF MainNext, ConnectServer, SendConnectionRequest,
         ReceiveConnectionResponse, SendConnectionStateRequest,
         ReceiveConnectionStateResponse, Disconnect, WaitDisconnectFinished,
         historyVars
    <2>2. CASE Deliver
      BY <2>2 DEF Deliver, TunnelInv, FlagInv, NotifyInv, Looping
    <2>3. CASE NotifyDisconnect
      BY <2>3 DEF NotifyDisconnect, TunnelInv, NotifyInv
    <2>4. CASE RecvNext /\ ~Deliver /\ ~NotifyDisconnect
      BY <2>4 DEF RecvNext, TestConnected, Receive, ReceiveUnknown,
         Acknowledge, AnswerDisconnect, StopLoop, CloseSocket, historyVars
    <2>5. CASE HomeNext \/ EnvNext
      BY <2>5, OthersKeepControl DEF controlVars
    <2> QED
      BY <2>1, <2>2, <2>3, <2>4, <2>5 DEF Next
  <1> QED
    BY <1>1, TunnelInvariant, PTL DEF Spec, NoCallAfterEnd

----------------------------------------------------------------------------
(* KnxConnection implements TunnelSession: its safety part, since fairness  *)
(* is beyond the prover.                                                   *)

LEMMA SessionInit == Init => Session!Init
  BY DEF Init, Session!Init, phase

(* Steps that change neither connectResult nor a history variable stutter.  *)
LEMMA SessionStutter ==
    UNCHANGED <<connectResult, delivered, acked, notified>> =>
        UNCHANGED Session!vars
  BY DEF Session!vars, phase

LEMMA SessionStep == TunnelInv /\ [Next]_vars => [Session!Next]_(Session!vars)
  <1> SUFFICES ASSUME TunnelInv, [Next]_vars
               PROVE  [Session!Next]_(Session!vars)
    OBVIOUS
  <1>t. connectResult \in {"pending", "true", "false"}
    BY DEF TunnelInv, TypeOK
  <1>1. CASE MainNext
    <2>1. UNCHANGED <<delivered, acked, notified>>
      BY <1>1 DEF MainNext, ConnectServer, SendConnectionRequest,
         ReceiveConnectionResponse, SendConnectionStateRequest,
         ReceiveConnectionStateResponse, Disconnect, WaitDisconnectFinished,
         historyVars
    <2>2. connectResult' = connectResult \/ connectResult = "pending"
      BY <1>1 DEF MainNext, ConnectServer, SendConnectionRequest,
         ReceiveConnectionResponse, SendConnectionStateRequest,
         ReceiveConnectionStateResponse, Disconnect, WaitDisconnectFinished,
         ConnectReturns, mainVars, TunnelInv, MainInv
    <2>3. CASE connectResult' = connectResult
      BY <2>1, <2>3, SessionStutter
    <2>4. CASE connectResult = "pending" /\ connectResult' # connectResult
      <3>1. connectResult' \in {"true", "false"}
        BY <1>1, <2>4, TypeMain DEF TunnelInv, TypeOK
      <3>2. notified = 0
        BY <2>4 DEF TunnelInv, FlagInv, NotifyInv
      <3>3. phase = "idle"
        BY <2>4 DEF phase
      <3>4. notified' = 0
        BY <2>1, <3>2
      <3>5. CASE connectResult' = "true"
        <4>1. phase' = "up"
          BY <3>4, <3>5 DEF phase
        <4> QED
          BY <2>1, <3>3, <4>1 DEF Session!Next, Session!Open
      <3>6. CASE connectResult' = "false"
        <4>1. phase' = "failed"
          BY <3>6 DEF phase
        <4> QED
          BY <2>1, <3>3, <4>1 DEF Session!Next, Session!Fail
      <3> QED
        BY <3>1, <3>5, <3>6
    <2> QED
      BY <2>2, <2>3, <2>4
  <1>2. CASE Deliver
    <2>1. connectResult = "true" /\ notified = 0 /\ delivered = acked
      BY <1>2 DEF Deliver, TunnelInv, FlagInv, NotifyInv, AckInv, Looping
    <2> QED
      BY <1>2, <2>1
      DEF Deliver, mainVars, Session!Next, Session!Deliver, phase
  <1>3. CASE Acknowledge
    <2>1. /\ connectResult = "true" /\ notified = 0
          /\ delivered = acked + 1 /\ acked \in Nat
      BY <1>3
      DEF Acknowledge, TunnelInv, TypeOK, FlagInv, NotifyInv, AckInv, Looping
    <2> QED
      BY <1>3, <2>1
      DEF Acknowledge, mainVars, Session!Next, Session!Acknowledge, phase
  <1>4. CASE NotifyDisconnect
    <2>1. connectResult = "true" /\ notified = 0 /\ delivered = acked
      BY <1>4 DEF NotifyDisconnect, TunnelInv, FlagInv, NotifyInv, AckInv
    <2> QED
      BY <1>4, <2>1
      DEF NotifyDisconnect, mainVars, Session!Next, Session!End, phase
  <1>5. CASE RecvNext /\ ~Deliver /\ ~Acknowledge /\ ~NotifyDisconnect
    <2>1. UNCHANGED <<connectResult, delivered, acked, notified>>
      BY <1>5 DEF RecvNext, TestConnected, Receive, ReceiveUnknown,
         AnswerDisconnect, StopLoop, CloseSocket, historyVars, mainVars
    <2> QED
      BY <2>1, SessionStutter
  <1>6. CASE HomeNext \/ EnvNext \/ UNCHANGED vars
    BY <1>6, OthersKeepControl, SessionStutter DEF controlVars
  <1> QED
    BY <1>1, <1>2, <1>3, <1>4, <1>5, <1>6 DEF Next

(* Whatever the router, the network and the scheduler do, the application   *)
(* sees at most one session, in which telegrams are handed over and         *)
(* answered in turn and whose end is announced once, after the last of      *)
(* them.                                                                   *)
THEOREM ImplementsSession == Spec => Session!SafeSpec
  BY SessionInit, SessionStep, TunnelInvariant, PTL
  DEF Spec, Session!SafeSpec
----------------------------------------------------------------------------
(* The session and the datagrams in flight.  As long as nothing is lost or   *)
(* duplicated and connect() did not fail, everything in flight while the    *)
(* router holds a session belongs to that session, and where it holds none  *)
(* the news of its end has not been handled yet.                            *)

DisconnectNews ==
    \E d \in toClient : d.type \in {"DisconnectRequest", "DisconnectResponse"}

(* Until it is asked for a session the router has none and sends nothing.    *)
Unasked ==
    /\ mainPc \in {"connectServer", "connectionRequest"} =>
        toRouter = {} /\ toClient = {} /\ sessions = {}
    /\ \A d \in toRouter :
        d.type = "ConnectionRequest" =>
            /\ toRouter = {d} /\ toClient = {} /\ sessions = {}
            /\ mainPc = "connectionResponse"

(* The router holds a session on channel c.                                 *)
OpenOn(c) ==
    /\ sessions = {c}
    /\ \A d \in toRouter : d.chan = c
    /\ \A d \in toClient : d.chan = c
    /\ ~ DisconnectNews
    /\ mainPc # "connectionResponse" => chanelId = c
    /\ homePc = "filled" => homePacket.chan = c
    /\ connectResult = "true" => connected /\ recvPc \notin {"answer", "stop"}

(* The router holds no session: an answer that accepted one, and a server    *)
(* that believes in one, are overtaken by the news of its end.              *)
Over ==
    /\ connected => DisconnectPending
    /\ mainPc \in {"stateRequest", "stateResponse"} => DisconnectNews
    /\ mainPc = "connectionResponse" =>
        \A d \in toClient :
            d.type = "ConnectionResponse" /\ d.num = NoError => DisconnectNews

FlightInv ==
    /\ Unasked
    /\ \A c \in sessions : OpenOn(c)
    /\ sessions = {} => Over
    /\ connectResult = "pending" => homePc = "idle"

SessionInv == Undisturbed /\ connectResult # "false" => FlightInv

(* The home thread: request i carries i - 1 in its counter byte.             *)
HomeInv ==
    /\ homePacket.type = "TunnelingRequest"
    /\ Len(attempted) = counter
    /\ \A i \in 1 .. counter : attempted[i] = (i - 1) % SeqMod
    /\ homePc = "filled" => homePacket.num = counter % SeqMod
(* Without faults a datagram that is received is gone.                       *)
LEMMA ReceivedOnce ==
    ASSUME faults \in Nat, faults' = 0
    PROVE  /\ \A d : ReceiveBytes(d) =>
                d \in toClient /\ toClient' = toClient \ {d} /\ faults = 0
           /\ \A d : RouterReceives(d) =>
                d \in toRouter /\ toRouter' = toRouter \ {d} /\ faults = 0
  BY DEF ReceiveBytes, RouterReceives

(* A step of a client thread that moves on, may take a datagram that is no    *)
(* news, and may send one that belongs to the session.                      *)
LEMMA ClientKeepsFlight ==
    ASSUME FlightInv, sessions' = sessions, toClient' \subseteq toClient,
           DisconnectNews => DisconnectNews',
           mainPc \notin {"connectServer", "connectionRequest", "connectionResponse"},
           mainPc' \notin {"connectServer", "connectionRequest", "connectionResponse"},
           NEW x, x.type # "ConnectionRequest",
           \A c \in sessions : x.chan = c,
           toRouter' \subseteq toRouter \union {x},
           \A c \in sessions : chanelId' = c,
           \A c \in sessions : homePc' = "filled" => homePacket'.chan = c,
           \A c \in sessions : connectResult' = "true" =>
                connected' /\ recvPc' \notin {"answer", "stop"},
           connectResult' = "pending" => homePc' = "idle",
           sessions = {} => Over'
    PROVE  FlightInv'
  <1>1. \A d \in toRouter' : d.type # "ConnectionRequest"
    BY DEF FlightInv, Unasked
  <1>2. Unasked'
    BY <1>1 DEF Unasked
  <1>3. ASSUME NEW c \in sessions
        PROVE  OpenOn(c)'
    <2>1. OpenOn(c)
      BY DEF FlightInv
    <2>2. ~ DisconnectNews'
      BY <2>1 DEF OpenOn, DisconnectNews
    <2>3. \A d \in toRouter' : d.chan = c
      BY <2>1 DEF OpenOn
    <2> QED
      BY <2>1, <2>2, <2>3 DEF OpenOn
  <1> QED
    BY <1>2, <1>3 DEF FlightInv

(* The steps of connect(), disconnect() and the join keep FlightInv as long*)
(* as connect() has not failed: it goes on only with the router's own      *)
(* answers.                                                                *)
LEMMA FlightMain ==
    ASSUME TypeOK, ControlInv, FlightInv, MainNext, faults' = 0,
           connectResult' # "false"
    PROVE  FlightInv'
  <1>t. faults \in Nat /\ homePc \in {"idle", "filled"} /\ sessions' = sessions
    BY DEF TypeOK, MainNext, ConnectServer, SendConnectionRequest,
           ReceiveConnectionResponse, SendConnectionStateRequest,
           ReceiveConnectionStateResponse, Disconnect, WaitDisconnectFinished,
           routerVars
  <1>1. CASE ConnectServer
    <2>1. /\ mainPc = "connectServer" /\ mainPc' = "connectionRequest"
          /\ UNCHANGED <<toRouter, toClient, sessions, connected, connectResult,
                         homePc>>
      BY <1>1 DEF ConnectServer, ConnectReturns, netVars, routerVars, homeVars
    <2>2. toRouter' = {} /\ toClient' = {} /\ sessions' = {} /\ ~ connected'
      BY <2>1 DEF FlightInv, Unasked, ControlInv, FlagInv, MainInv
    <2> QED
      BY <2>1, <2>2 DEF FlightInv, Unasked, Over
  <1>2. CASE SendConnectionRequest
    <2> DEFINE x == [type |-> "ConnectionRequest", chan |-> 0, num |-> 0]
    <2>1. /\ mainPc = "connectionRequest" /\ mainPc' = "connectionResponse"
          /\ UNCHANGED <<toClient, sessions, connected, connectResult, homePc>>
          /\ sock = "open"
      BY <1>2
         DEF SendConnectionRequest, netVars, routerVars, homeVars, ControlInv,
             MainInv
    <2>2. /\ toRouter' = {x} /\ toClient' = {} /\ sessions' = {} /\ ~ connected'
      BY <1>2, <2>1
         DEF SendConnectionRequest, SendBytes, FlightInv, Unasked, ControlInv,
             FlagInv, MainInv
    <2> QED
      BY <2>1, <2>2 DEF FlightInv, Unasked, Over
  <1>3. CASE ReceiveConnectionResponse
    <2>1. PICK d \in toClient :
             /\ ReceiveBytes(d) /\ chanelId' = Byte6(d)
             /\ ConnectionAccepted(d) /\ mainPc' = "stateRequest"
      BY <1>3 DEF ReceiveConnectionResponse, ConnectReturns
    <2>2. /\ mainPc = "connectionResponse"
          /\ UNCHANGED <<toRouter, sessions, connected, connectResult, homePc,
                         homePacket, recvPc>>
      BY <1>3, <2>1
         DEF ReceiveConnectionResponse, ConnectReturns, routerVars, homeVars
    <2>3. toClient' = toClient \ {d}
      BY <1>t, <2>1, ReceivedOnce
    <2>4. d.type = "ConnectionResponse" /\ d.num = NoError /\ chanelId' = d.chan
      BY <2>1 DEF ConnectionAccepted, Byte6, Byte7, Tunneling
    <2>5. DisconnectNews' <=> DisconnectNews
      BY <2>3, <2>4 DEF DisconnectNews
    <2>6. Unasked'
      BY <2>1, <2>2, <2>3 DEF FlightInv, Unasked
    <2>7. ~ connected /\ connectResult = "pending"
      BY <2>2 DEF ControlInv, MainInv, FlagInv
    <2>8. ASSUME NEW c \in sessions PROVE OpenOn(c)'
      BY <2>1, <2>2, <2>3, <2>4, <2>5, <2>7 DEF FlightInv, OpenOn
    <2>9. sessions = {} => Over'
      BY <2>1, <2>2, <2>4, <2>5, <2>7 DEF FlightInv, Over
    <2> QED
      BY <2>2, <2>6, <2>8, <2>9 DEF FlightInv
  <1>4. CASE SendConnectionStateRequest \/ Disconnect
    <2> DEFINE x(t) == [type |-> t, chan |-> chanelId, num |-> 0]
    <2>1. /\ mainPc \in {"stateRequest", "disconnect"}
          /\ mainPc' \in {"stateResponse", "join"}
          /\ mainPc' = "stateResponse" => mainPc = "stateRequest"
          /\ UNCHANGED <<toClient, sessions, connected, connectResult, homePc,
                         homePacket, recvPc, chanelId>>
      BY <1>4 DEF SendConnectionStateRequest, Disconnect, routerVars, homeVars
    <2>2. PICK t \in {"ConnectionStateRequest", "DisconnectRequest"} :
            toRouter' \subseteq toRouter \union {x(t)}
      BY <1>4 DEF SendConnectionStateRequest, Disconnect, SendBytes
    <2>3. \A c \in sessions : OpenOn(c) /\ chanelId = c
      BY <2>1 DEF FlightInv, OpenOn
    <2>4. /\ x(t).type # "ConnectionRequest"
          /\ \A c \in sessions : x(t).chan = c
      BY <2>3
    <2>5. DisconnectNews => DisconnectNews'
      BY <2>1 DEF DisconnectNews
    <2>6. sessions = {} => Over'
      BY <2>1, <2>5 DEF FlightInv, Over, DisconnectPending
    <2>7. /\ \A c \in sessions : homePc' = "filled" => homePacket'.chan = c
          /\ \A c \in sessions : connectResult' = "true" =>
                connected' /\ recvPc' \notin {"answer", "stop"}
          /\ \A c \in sessions : chanelId' = c
          /\ connectResult' = "pending" => homePc' = "idle"
          /\ toClient' \subseteq toClient
      BY <2>1, <2>3 DEF OpenOn, FlightInv
    <2> HIDE DEF x
    <2> QED
      BY <1>t, <2>1, <2>2, <2>4, <2>5, <2>6, <2>7, ClientKeepsFlight
  <1>5. CASE ReceiveConnectionStateResponse
    <2>1. PICK d \in toClient :
             /\ ReceiveBytes(d) /\ StateConfirmed(d)
             /\ connected' = TRUE /\ StartReceiveThread /\ ConnectReturns("true")
      BY <1>5 DEF ReceiveConnectionStateResponse, ConnectReturns
    <2>2. /\ mainPc = "stateResponse" /\ mainPc' = "disconnect"
          /\ connectResult' = "true" /\ recvPc' \in {"test", "none"}
          /\ UNCHANGED <<toRouter, sessions, homePc, homePacket, chanelId>>
      BY <1>5, <2>1
         DEF ReceiveConnectionStateResponse, ConnectReturns, routerVars,
             homeVars, StartReceiveThread
    <2>3. toClient' = toClient \ {d} /\ d.type = "ConnectionStateResponse"
      BY <1>t, <2>1, ReceivedOnce DEF StateConfirmed
    <2>4. DisconnectNews' <=> DisconnectNews
      BY <2>3 DEF DisconnectNews
    <2>5. \A e \in toRouter : e.type # "ConnectionRequest"
      BY <2>2 DEF FlightInv, Unasked
    <2>6. Unasked'
      BY <2>2, <2>5 DEF Unasked
    <2>7. ASSUME NEW c \in sessions PROVE OpenOn(c)'
      BY <2>1, <2>2, <2>3, <2>4 DEF FlightInv, OpenOn
    <2>8. sessions = {} => Over'
      BY <2>2, <2>4 DEF FlightInv, Over, DisconnectPending, DisconnectNews
    <2> QED
      BY <2>2, <2>6, <2>7, <2>8 DEF FlightInv
  <1>6. CASE WaitDisconnectFinished
    <2>1. /\ mainPc = "join" /\ mainPc' \in {"join", "joined"}
          /\ UNCHANGED <<toRouter, toClient, sessions, connected, connectResult,
                         homePc, homePacket, recvPc, chanelId>>
      BY <1>6
         DEF WaitDisconnectFinished, routerVars, homeVars, netVars
    <2>2. Unasked'
      BY <2>1 DEF FlightInv, Unasked
    <2>3. ASSUME NEW c \in sessions PROVE OpenOn(c)'
      BY <2>1 DEF FlightInv, OpenOn, DisconnectNews
    <2>4. sessions = {} => Over'
      BY <2>1 DEF FlightInv, Over, DisconnectPending
    <2> QED
      BY <2>1, <2>2, <2>3, <2>4 DEF FlightInv
  <1> QED
    BY <1>1, <1>2, <1>3, <1>4, <1>5, <1>6 DEF MainNext

(* So do the steps of the receive thread: each packet it parses names the  *)
(* session, or is the news of its end.                                     *)
LEMMA FlightRecv ==
    ASSUME TypeOK, ControlInv, FlightInv, RecvNext, faults' = 0
    PROVE  FlightInv'
  <1>1. /\ faults \in Nat
        /\ UNCHANGED <<mainPc, connectResult, homePc, homePacket, sessions>>
    BY DEF TypeOK, RecvNext, TestConnected, Receive, ReceiveUnknown, Deliver,
           Acknowledge, AnswerDisconnect, StopLoop, CloseSocket,
           NotifyDisconnect, mainVars, homeVars, routerVars
  <1>2. recvPc # "none"
    BY DEF RecvNext, TestConnected, Receive, ReceiveUnknown, Deliver,
           Acknowledge, AnswerDisconnect, StopLoop, CloseSocket,
           NotifyDisconnect
  <1>3. connectResult = "true" /\ mainPc \in {"disconnect", "join", "joined"}
    BY <1>2 DEF ControlInv, FlagInv, MainInv
  <1>4. /\ mainPc \notin {"connectServer", "connectionRequest",
                          "connectionResponse"}
        /\ mainPc' \notin {"connectServer", "connectionRequest",
                           "connectionResponse"}
        /\ connectResult' # "pending"
        /\ mainPc' \notin {"stateRequest", "stateResponse"}
    BY <1>1, <1>3
  <1>5. \A c \in sessions : OpenOn(c)
    BY DEF FlightInv
  <1>6. ASSUME NEW c \in sessions
        PROVE  /\ chanelId = c /\ connected /\ recvPc \notin {"answer", "stop"}
               /\ ~ DisconnectNews
               /\ homePc = "filled" => homePacket.chan = c
               /\ \A d \in toClient : d.chan = c
    BY <1>3, <1>4, <1>5 DEF OpenOn
  <1>7. CASE Receive
    <2>1. PICK d \in toClient : /\ d.type \in KnownType
                                /\ ReceiveBytes(d)
                                /\ chanelId' = ChanelIdFromBytes(d, chanelId)
                                /\ recvPc' = Branch(d)
      BY <1>7 DEF Receive
    <2>2. toClient' = toClient \ {d} /\ toRouter' = toRouter /\ connected' = connected
      BY <1>1, <1>7, <2>1, ReceivedOnce DEF Receive
    <2>3. ASSUME NEW c \in sessions
          PROVE  d.type \in {"TunnelingRequest", "TunnelingResponse"}
      BY <1>6, <2>1 DEF DisconnectNews, KnownType
    <2>4. ASSUME NEW c \in sessions
          PROVE  chanelId' = c /\ recvPc' \notin {"answer", "stop"}
      BY <1>6, <2>1, <2>3 DEF ChanelIdFromBytes, Branch, Byte7, Tunneling
    <2>5. ASSUME NEW c \in sessions
          PROVE  OpenOn(c)'
      <3>1. ~ DisconnectNews'
        BY <1>6, <2>2, <2>5 DEF DisconnectNews
      <3> QED
        BY <1>1, <1>5, <1>6, <2>2, <2>4, <3>1 DEF OpenOn
    <2>6. ASSUME sessions = {} PROVE Over'
      <3>1. DisconnectPending
        BY <1>7, <2>6 DEF FlightInv, Over, Receive, ControlInv, FlagInv, Looping
      <3>2. DisconnectNews
        BY <1>7, <3>1 DEF DisconnectPending, DisconnectNews, Receive
      <3>3. CASE d.type \in {"DisconnectRequest", "DisconnectResponse"}
        BY <1>4, <2>1, <3>3 DEF Over, DisconnectPending, Branch
      <3>4. CASE d.type \notin {"DisconnectRequest", "DisconnectResponse"}
        BY <1>4, <2>2, <3>2, <3>4 DEF Over, DisconnectPending, DisconnectNews
      <3> QED
        BY <3>3, <3>4
    <2>7. Unasked'
      BY <1>4, <2>2 DEF FlightInv, Unasked
    <2> QED
      BY <1>1, <1>4, <2>5, <2>6, <2>7 DEF FlightInv
  <1>8. CASE ReceiveUnknown
    <2>1. PICK d \in toClient : d.type \notin KnownType /\ ReceiveBytes(d)
      BY <1>8 DEF ReceiveUnknown
    <2>2. /\ toClient' = toClient \ {d} /\ toRouter' = toRouter
          /\ connected' = connected /\ chanelId' = chanelId
          /\ recvPc = "receive" /\ recvPc' \in {"test", "receive"}
      BY <1>1, <1>8, <2>1, ReceivedOnce DEF ReceiveUnknown
    <2>3. DisconnectNews' <=> DisconnectNews
      BY <2>1, <2>2 DEF DisconnectNews, KnownType
    <2>4. ASSUME NEW c \in sessions PROVE OpenOn(c)'
      BY <1>1, <1>5, <2>2, <2>3 DEF OpenOn
    <2>5. ASSUME sessions = {} PROVE Over'
      BY <1>4, <2>2, <2>3, <2>5
         DEF FlightInv, Over, DisconnectPending, DisconnectNews
    <2>6. Unasked'
      BY <1>4, <2>2 DEF FlightInv, Unasked
    <2> QED
      BY <1>1, <1>4, <2>4, <2>5, <2>6 DEF FlightInv
  <1>9. CASE Acknowledge \/ AnswerDisconnect
    <2>1. PICK x : /\ toRouter' \subseteq toRouter \union {x}
                   /\ x.type \in {"TunnelingResponse", "DisconnectResponse"}
                   /\ Acknowledge => x.chan = chanelId
      <3>1. CASE Acknowledge
        <4> DEFINE y == [type |-> "TunnelingResponse", chan |-> chanelId, num |-> 1]
        <4>1. toRouter' \subseteq toRouter \union {y}
          BY <3>1 DEF Acknowledge, SendBytes
        <4>2. y.type = "TunnelingResponse" /\ y.chan = chanelId
          OBVIOUS
        <4> HIDE DEF y
        <4> QED
          BY <4>1, <4>2
      <3>2. CASE AnswerDisconnect /\ ~ Acknowledge
        <4>1. PICK b \in UninitBytes :
                SendBytes([type |-> "DisconnectResponse", chan |-> b,
                           num |-> chanelId])
          BY <3>2 DEF AnswerDisconnect
        <4> DEFINE y == [type |-> "DisconnectResponse", chan |-> b, num |-> chanelId]
        <4>2. toRouter' \subseteq toRouter \union {y}
          BY <4>1 DEF SendBytes
        <4>3. y.type = "DisconnectResponse"
          OBVIOUS
        <4> HIDE DEF y
        <4> QED
          BY <3>2, <4>2, <4>3
      <3> QED
        BY <1>9, <3>1, <3>2
    <2>2. /\ toClient' = toClient /\ connected' = connected /\ chanelId' = chanelId
          /\ \/ Acknowledge /\ recvPc = "ack" /\ recvPc' = "test"
             \/ recvPc = "answer" /\ recvPc' = "stop"
      BY <1>9 DEF Acknowledge, AnswerDisconnect
    <2>3. \A c \in sessions : x.chan = c /\ recvPc' = "test"
      BY <1>6, <2>1, <2>2
    <2>4. DisconnectNews' <=> DisconnectNews
      BY <2>2 DEF DisconnectNews
    <2>5. sessions = {} => Over'
      BY <1>4, <2>2, <2>4
         DEF FlightInv, Over, DisconnectPending, DisconnectNews
    <2>6. x.type # "ConnectionRequest"
      BY <2>1
    <2>7. /\ \A c \in sessions : chanelId' = c
          /\ \A c \in sessions : homePc' = "filled" => homePacket'.chan = c
          /\ \A c \in sessions : connectResult' = "true" =>
                connected' /\ recvPc' \notin {"answer", "stop"}
      BY <1>1, <1>6, <2>2, <2>3
    <2> QED
      BY <1>1, <1>4, <2>1, <2>2, <2>3, <2>4, <2>5, <2>6, <2>7,
         ClientKeepsFlight
  <1>10. CASE TestConnected \/ Deliver \/ StopLoop \/ CloseSocket \/ NotifyDisconnect
    <2>1. UNCHANGED <<toRouter, toClient, chanelId>>
      BY <1>10
         DEF TestConnected, Deliver, StopLoop, CloseSocket, NotifyDisconnect,
             netVars
    <2>2. /\ recvPc' \notin {"answer", "stop"}
          /\ \/ connected' = connected /\ recvPc # "stop"
             \/ connected' = FALSE /\ recvPc = "stop"
          /\ recvPc # "answer"
      BY <1>10
         DEF TestConnected, Deliver, StopLoop, CloseSocket, NotifyDisconnect
    <2>3. DisconnectNews' <=> DisconnectNews
      BY <2>1 DEF DisconnectNews
    <2>4. ASSUME NEW c \in sessions PROVE OpenOn(c)'
      BY <1>1, <1>5, <1>6, <2>1, <2>2, <2>3 DEF OpenOn
    <2>5. ASSUME sessions = {} PROVE Over'
      BY <1>4, <2>1, <2>2, <2>3, <2>5
         DEF FlightInv, Over, DisconnectPending, DisconnectNews
    <2>6. Unasked'
      BY <1>4, <2>1 DEF FlightInv, Unasked
    <2> QED
      BY <1>1, <1>4, <2>4, <2>5, <2>6 DEF FlightInv
  <1> QED
    BY <1>7, <1>8, <1>9, <1>10 DEF RecvNext

(* And those of the home thread, whose packet was filled with the channel  *)
(* of the session.                                                         *)
LEMMA FlightHome ==
    ASSUME TypeOK, ControlInv, HomeInv, FlightInv, HomeNext, connectResult # "false"
    PROVE  FlightInv'
  <1>1. UNCHANGED <<mainPc, connectResult, recvPc, connected, chanelId, sessions,
                    toClient>>
    BY DEF HomeNext, FillTunnelingRequest, SendTunnelingRequest, mainVars,
           netVars, routerVars
  <1>2. connectResult = "true"
    BY DEF TypeOK, HomeNext, FillTunnelingRequest, SendTunnelingRequest,
           FlightInv
  <1>3. mainPc \in {"disconnect", "join", "joined"}
    BY <1>2 DEF ControlInv, MainInv
  <1>4. \A c \in sessions : OpenOn(c)
    BY DEF FlightInv
  <1>5. ASSUME NEW c \in sessions
        PROVE  /\ chanelId = c /\ connected /\ recvPc \notin {"answer", "stop"}
               /\ homePc = "filled" => homePacket.chan = c
    BY <1>2, <1>3, <1>4 DEF OpenOn
  <1>6. DisconnectNews' <=> DisconnectNews
    BY <1>1 DEF DisconnectNews
  <1>7. sessions = {} => Over'
    BY <1>1, <1>3, <1>6 DEF FlightInv, Over, DisconnectPending, DisconnectNews
  <1> DEFINE z == [type |-> "TunnelingRequest", chan |-> chanelId, num |-> 0]
  <1>8. CASE FillTunnelingRequest
    <2>1. toRouter' = toRouter /\ homePacket'.chan = chanelId
      BY <1>8 DEF FillTunnelingRequest, netVars
    <2>2. /\ z.type # "ConnectionRequest"
          /\ \A c \in sessions : z.chan = c
          /\ toRouter' \subseteq toRouter \union {z}
      BY <1>5, <2>1
    <2> HIDE DEF z
    <2> QED
      BY <1>1, <1>2, <1>3, <1>5, <1>6, <1>7, <2>1, <2>2, ClientKeepsFlight
  <1>9. CASE SendTunnelingRequest
    <2>1. /\ toRouter' \subseteq toRouter \union {homePacket}
          /\ homePacket' = homePacket /\ homePc = "filled" /\ homePc' = "idle"
      BY <1>9 DEF SendTunnelingRequest, SendBytes
    <2>2. /\ homePacket.type # "ConnectionRequest"
          /\ \A c \in sessions : homePacket.chan = c
      BY <1>5, <2>1 DEF HomeInv
    <2> QED
      BY <1>1, <1>2, <1>3, <1>5, <1>6, <1>7, <2>1, <2>2, ClientKeepsFlight
  <1> QED
    BY <1>8, <1>9 DEF HomeNext

(* The router answers and tunnels on the channel of the session; when it      *)
(* ends the session, the news goes out in the same step.                     *)
LEMMA FlightEnv ==
    ASSUME TypeOK, ControlInv, FlightInv, EnvNext, faults' = 0
    PROVE  FlightInv'
  <1>1. /\ faults \in Nat
        /\ UNCHANGED <<mainPc, connectResult, recvPc, homePc, homePacket,
                       connected, chanelId>>
    BY DEF TypeOK, EnvNext, RouterAnswers, RouterConnect,
           RouterConnectionState, RouterDisconnected, RouterTelegram,
           RouterIgnores, RouterTunnel, RouterDisconnect, Lose, clientVars,
           mainVars, homeVars
  <1>2. \A c \in sessions : OpenOn(c)
    BY DEF FlightInv
  <1>3. ASSUME NEW d \in toRouter, RouterReceives(d)
        PROVE  toRouter' = toRouter \ {d}
    BY <1>1, <1>3, ReceivedOnce
  (* The router sends something and holds on to what it held.               *)
  <1>4. ASSUME NEW x, sessions' = sessions, toClient' = toClient \union {x},
               toRouter' \subseteq toRouter,
               \A d \in toRouter' : d.type # "ConnectionRequest",
               mainPc \notin {"connectServer", "connectionRequest"},
               x.type \notin {"ConnectionResponse", "DisconnectRequest"},
               \A c \in sessions : x.chan = c /\ x.type # "DisconnectResponse"
        PROVE  FlightInv'
    <2>1. Unasked'
      BY <1>1, <1>4 DEF Unasked
    <2>2. ASSUME NEW c \in sessions PROVE OpenOn(c)'
      <3>1. ~ DisconnectNews'
        BY <1>2, <1>4, <2>2 DEF OpenOn, DisconnectNews
      <3> QED
        BY <1>1, <1>2, <1>4, <3>1 DEF OpenOn
    <2>3. DisconnectNews => DisconnectNews'
      BY <1>4 DEF DisconnectNews
    <2>4. DisconnectPending => DisconnectPending'
      BY <1>1, <1>4 DEF DisconnectPending
    <2>5. sessions = {} => Over'
      BY <1>1, <1>4, <2>3, <2>4 DEF FlightInv, Over
    <2> QED
      BY <1>1, <1>4, <2>1, <2>2, <2>5 DEF FlightInv
  (* It has no session any more and sent the news.                          *)
  <1>5. ASSUME sessions' = {}, DisconnectNews', toRouter' \subseteq toRouter,
               \A d \in toRouter' : d.type # "ConnectionRequest",
               mainPc \notin {"connectServer", "connectionRequest"}
        PROVE  FlightInv'
    BY <1>1, <1>5 DEF FlightInv, Unasked, Over, DisconnectPending, DisconnectNews
  <1>6. CASE RouterConnect
    <2>1. PICK d \in toRouter : d.type = "ConnectionRequest" /\ RouterReceives(d)
      BY <1>6 DEF RouterConnect
    <2>2. /\ toRouter = {d} /\ toClient = {} /\ sessions = {}
          /\ mainPc = "connectionResponse"
      BY <2>1 DEF FlightInv, Unasked
    <2>3. toRouter' = {}
      BY <1>3, <2>1, <2>2
    <2>4. /\ connectResult = "pending" /\ ~ connected /\ homePc = "idle"
      BY <2>2 DEF ControlInv, MainInv, FlagInv, FlightInv
    <2>5. Unasked'
      BY <1>1, <2>2, <2>3 DEF Unasked
    <2>6. CASE \E c \in Channel \ sessions :
                 /\ sessions' = sessions \union {c}
                 /\ RouterSends("ConnectionResponse", c, NoError)
      <3>1. PICK c \in Channel :
               /\ sessions' = sessions \union {c}
               /\ RouterSends("ConnectionResponse", c, NoError)
        BY <2>6
      <3> DEFINE y == [type |-> "ConnectionResponse", chan |-> c, num |-> NoError]
      <3>2. sessions' = {c} /\ toClient' = {y}
        BY <2>2, <3>1 DEF RouterSends
      <3>3. y.chan = c /\ y.type = "ConnectionResponse"
        OBVIOUS
      <3> HIDE DEF y
      <3>4. OpenOn(c)'
        BY <1>1, <2>2, <2>3, <2>4, <3>2, <3>3 DEF OpenOn, DisconnectNews
      <3> QED
        BY <1>1, <2>4, <2>5, <3>2, <3>4 DEF FlightInv
    <2>7. CASE /\ RouterSends("ConnectionResponse", 0, NoConnections)
               /\ UNCHANGED sessions
      <3>1. sessions' = {}
        BY <2>2, <2>7
      <3>2. \A e \in toClient' : e.num # NoError
        BY <2>2, <2>7 DEF RouterSends, NoError, NoConnections
      <3>3. Over'
        BY <1>1, <2>2, <2>4, <3>2 DEF Over
      <3> QED
        BY <1>1, <2>4, <2>5, <3>1, <3>3 DEF FlightInv
    <2> QED
      BY <1>6, <2>6, <2>7 DEF RouterConnect
  <1>7. ASSUME NEW d \in toRouter, d.type # "ConnectionRequest"
        PROVE  /\ \A e \in toRouter : e.type # "ConnectionRequest"
               /\ mainPc \notin {"connectServer", "connectionRequest"}
    BY <1>7 DEF FlightInv, Unasked
  <1>8. CASE RouterConnectionState \/ RouterTelegram
    <2>0. PICK d \in toRouter :
             /\ d.type # "ConnectionRequest" /\ RouterReceives(d)
             /\ \E t \in {"ConnectionStateResponse", "TunnelingResponse"} :
                    \E n : RouterSends(t, d.chan, n)
      BY <1>8 DEF RouterConnectionState, RouterTelegram
    <2>t. PICK t \in {"ConnectionStateResponse", "TunnelingResponse"} :
            \E n : RouterSends(t, d.chan, n)
      BY <2>0
    <2>1. PICK n : RouterSends(t, d.chan, n)
      BY <2>t
    <2> DEFINE y == [type |-> t, chan |-> d.chan, num |-> n]
    <2>2. sessions' = sessions /\ toClient' = toClient \union {y}
      BY <1>8, <2>1 DEF RouterConnectionState, RouterTelegram, RouterSends,
            routerVars
    <2>3. y.type = t /\ y.chan = d.chan
      OBVIOUS
    <2> HIDE DEF y
    <2>4. \A c \in sessions : y.chan = c
      BY <1>2, <2>3 DEF OpenOn
    <2>5. toRouter' \subseteq toRouter
      BY <1>3, <2>0
    <2>6. y.type \notin {"ConnectionResponse", "DisconnectRequest", "DisconnectResponse"}
      BY <2>t, <2>3
    <2> QED
      BY <1>4, <1>7, <2>0, <2>2, <2>4, <2>5, <2>6
  <1>9. CASE RouterDisconnected
    <2>1. PICK d \in toRouter :
             /\ d.type = "DisconnectRequest"
             /\ RouterReceives(d)
             /\ RouterSends("DisconnectResponse", d.chan,
                            IF d.chan \in sessions THEN NoError
                                                   ELSE NoSuchChannel)
             /\ sessions' = sessions \ {d.chan}
      BY <1>9 DEF RouterDisconnected
    <2>2. sessions' = {}
      BY <1>2, <2>1 DEF OpenOn
    <2>3. DisconnectNews'
      <3> DEFINE y == [type |-> "DisconnectResponse", chan |-> d.chan,
                       num |-> IF d.chan \in sessions THEN NoError
                                                      ELSE NoSuchChannel]
      <3>1. y \in toClient' /\ y.type = "DisconnectResponse"
        BY <2>1 DEF RouterSends
      <3> QED
        BY <3>1 DEF DisconnectNews
    <2>4. toRouter' \subseteq toRouter
      BY <1>3, <2>1
    <2> QED
      BY <1>5, <1>7, <2>1, <2>2, <2>3, <2>4
  <1>10. CASE RouterIgnores
    <2>1. PICK d \in toRouter : /\ d.type \in {"TunnelingResponse", "DisconnectResponse"}
                                /\ RouterReceives(d)
      BY <1>10 DEF RouterIgnores
    <2>2. toRouter' \subseteq toRouter /\ toClient' = toClient /\ sessions' = sessions
      BY <1>3, <1>10, <2>1 DEF RouterIgnores, routerVars
    <2>3. Unasked'
      BY <1>1, <1>7, <2>1, <2>2 DEF Unasked
    <2>4. ASSUME NEW c \in sessions PROVE OpenOn(c)'
      BY <1>1, <1>2, <2>2 DEF OpenOn, DisconnectNews
    <2>5. sessions = {} => Over'
      BY <1>1, <2>2 DEF FlightInv, Over, DisconnectPending, DisconnectNews
    <2> QED
      BY <1>1, <2>2, <2>3, <2>4, <2>5 DEF FlightInv
  <1>11. ASSUME NEW c \in sessions
         PROVE  /\ \A e \in toRouter : e.type # "ConnectionRequest"
                /\ mainPc \notin {"connectServer", "connectionRequest"}
    BY DEF FlightInv, Unasked
  <1>12. CASE RouterTunnel
    <2>1. PICK c \in sessions :
            RouterSends("TunnelingRequest", c, telegrams % SeqMod)
      BY <1>12 DEF RouterTunnel
    <2> DEFINE y == [type |-> "TunnelingRequest", chan |-> c,
                     num |-> telegrams % SeqMod]
    <2>2. /\ sessions' = sessions /\ toRouter' = toRouter
          /\ toClient' = toClient \union {y}
      BY <1>12, <2>1 DEF RouterTunnel, RouterSends
    <2>3. y.type = "TunnelingRequest" /\ y.chan = c
      OBVIOUS
    <2> HIDE DEF y
    <2>4. sessions = {c}
      BY <1>2 DEF OpenOn
    <2> QED
      BY <1>4, <1>11, <2>2, <2>3, <2>4
  <1>13. CASE RouterDisconnect
    <2>1. PICK c \in sessions : /\ sessions' = sessions \ {c}
                                /\ RouterSends("DisconnectRequest", c, 0)
      BY <1>13 DEF RouterDisconnect
    <2>2. sessions' = {} /\ toRouter' = toRouter
      BY <1>2, <1>13, <2>1 DEF OpenOn, RouterDisconnect
    <2>3. DisconnectNews'
      <3> DEFINE y == [type |-> "DisconnectRequest", chan |-> c, num |-> 0]
      <3>1. y \in toClient' /\ y.type = "DisconnectRequest"
        BY <2>1 DEF RouterSends
      <3> QED
        BY <3>1 DEF DisconnectNews
    <2> QED
      BY <1>5, <1>11, <2>2, <2>3
  <1>14. CASE Lose
    BY <1>1, <1>14 DEF Lose
  <1> QED
    BY <1>6, <1>8, <1>9, <1>10, <1>12, <1>13, <1>14 DEF EnvNext, RouterAnswers

(* The number of faults never goes down, and connect() returns once.         *)
LEMMA StaysDisturbed ==
    ASSUME TypeOK, ControlInv, [Next]_vars
    PROVE  /\ faults' = 0 => faults = 0
           /\ connectResult = "false" => connectResult' = "false"
  <1>1. faults \in Nat
    BY DEF TypeOK
  <1>2. faults' = faults \/ faults' = faults + 1
    BY DEF Next, MainNext, ConnectServer, SendConnectionRequest,
           ReceiveConnectionResponse, SendConnectionStateRequest,
           ReceiveConnectionStateResponse, Disconnect, WaitDisconnectFinished,
           RecvNext, TestConnected, Receive, ReceiveUnknown, Deliver,
           Acknowledge, AnswerDisconnect, StopLoop, CloseSocket,
           NotifyDisconnect, HomeNext, FillTunnelingRequest,
           SendTunnelingRequest, EnvNext, RouterAnswers, RouterConnect,
           RouterConnectionState, RouterDisconnected, RouterTelegram,
           RouterIgnores, RouterTunnel, RouterDisconnect, Lose, ReceiveBytes,
           RouterReceives, netVars, vars
  <1>3. connectResult = "false" => connectResult' = "false"
    <2>1. connectResult' = connectResult \/ MainNext
      BY DEF Next, RecvNext, TestConnected, Receive, ReceiveUnknown, Deliver,
             Acknowledge, AnswerDisconnect, StopLoop, CloseSocket,
             NotifyDisconnect, HomeNext, FillTunnelingRequest,
             SendTunnelingRequest, EnvNext, RouterAnswers, RouterConnect,
             RouterConnectionState, RouterDisconnected, RouterTelegram,
             RouterIgnores, RouterTunnel, RouterDisconnect, Lose, clientVars,
             mainVars, vars
    <2>2. CASE connectResult = "false" /\ MainNext
      <3>1. mainPc \in {"disconnect", "join", "joined"}
        BY <2>2 DEF ControlInv, MainInv
      <3> QED
        BY <2>2, <3>1
           DEF MainNext, ConnectServer, SendConnectionRequest,
               ReceiveConnectionResponse, SendConnectionStateRequest,
               ReceiveConnectionStateResponse, Disconnect,
               WaitDisconnectFinished
    <2> QED
      BY <2>1, <2>2
  <1> QED
    BY <1>1, <1>2, <1>3

(* A step of any thread, of the router or of the network keeps SessionInv. *)
LEMMA SessionNext ==
    TypeOK /\ ControlInv /\ HomeInv /\ SessionInv /\ [Next]_vars => SessionInv'
  <1> SUFFICES ASSUME TypeOK, ControlInv, HomeInv, SessionInv, [Next]_vars,
                      Undisturbed', connectResult' # "false"
               PROVE  FlightInv'
    BY DEF SessionInv
  <1>1. faults' = 0 /\ connectResult # "false" /\ FlightInv
    BY StaysDisturbed DEF Undisturbed, SessionInv
  <1>2. CASE UNCHANGED vars
    BY <1>1, <1>2
       DEF vars, mainVars, homeVars, netVars, routerVars, FlightInv, Unasked,
           OpenOn, Over, DisconnectNews, DisconnectPending
  <1> QED
    BY <1>1, <1>2, FlightMain, FlightRecv, FlightHome, FlightEnv DEF Next

LEMMA HomeNextInv == TypeOK /\ HomeInv /\ [Next]_vars => HomeInv'
  <1> SUFFICES ASSUME TypeOK, HomeInv, [Next]_vars PROVE HomeInv'
    OBVIOUS
  <1>1. attempted \in Seq(Byte) /\ counter \in Nat
    BY DEF TypeOK
  <1>2. CASE FillTunnelingRequest
    BY <1>2 DEF FillTunnelingRequest, HomeInv
  <1>3. CASE SendTunnelingRequest
    <2>1. /\ homePacket' = homePacket /\ homePc' = "idle"
          /\ counter' = counter + 1
          /\ attempted' = Append(attempted, homePacket.num)
          /\ homePacket.num = counter % SeqMod
      BY <1>3 DEF SendTunnelingRequest, NextCounter, HomeInv
    <2>2. Len(attempted') = counter'
      BY <1>1, <2>1 DEF HomeInv
    <2>3. ASSUME NEW i \in 1 .. counter'
          PROVE  attempted'[i] = (i - 1) % SeqMod
      <3>1. CASE i = counter + 1
        <4>1. attempted'[i] = counter % SeqMod
          BY <1>1, <2>1, <3>1 DEF HomeInv
        <4>2. i - 1 = counter
          BY <1>1, <3>1
        <4> QED
          BY <4>1, <4>2
      <3>2. CASE i # counter + 1
        <4>1. i \in 1 .. counter
          BY <1>1, <2>1, <3>2
        <4>2. attempted'[i] = attempted[i]
          BY <1>1, <2>1, <4>1 DEF HomeInv
        <4> QED
          BY <4>1, <4>2 DEF HomeInv
      <3> QED
        BY <3>1, <3>2
    <2> QED
      BY <2>1, <2>2, <2>3 DEF HomeInv
  <1>4. CASE ~ HomeNext
    <2>1. UNCHANGED homeVars
      BY <1>4
         DEF Next, MainNext, ConnectServer, SendConnectionRequest,
             ReceiveConnectionResponse, SendConnectionStateRequest,
             ReceiveConnectionStateResponse, Disconnect,
             WaitDisconnectFinished, RecvNext, TestConnected, Receive,
             ReceiveUnknown, Deliver, Acknowledge, AnswerDisconnect, StopLoop,
             CloseSocket, NotifyDisconnect, EnvNext, RouterAnswers,
             RouterConnect, RouterConnectionState, RouterDisconnected,
             RouterTelegram, RouterIgnores, RouterTunnel, RouterDisconnect,
             Lose, clientVars, vars
    <2> QED
      BY <2>1 DEF homeVars, HomeInv
  <1> QED
    BY <1>2, <1>3, <1>4 DEF HomeNext

LEMMA FlightInvariant == Spec => [](TunnelInv /\ HomeInv /\ SessionInv)
  <1>1. Init => HomeInv /\ SessionInv
    <2> SUFFICES ASSUME Init PROVE HomeInv /\ SessionInv
      OBVIOUS
    <2>1. HomeInv
      BY DEF Init, HomeInv
    <2>2. Undisturbed => FlightInv
      BY DEF Init, Undisturbed, FlightInv, Unasked, Over
    <2> QED
      BY <2>1, <2>2 DEF SessionInv
  <1>2. TunnelInv => TypeOK /\ ControlInv
    BY DEF TunnelInv, ControlInv
  <1> QED
    BY <1>1, <1>2, HomeNextInv, SessionNext, TunnelInvariant, PTL DEF Spec

(* In an undisturbed network a connected server and the router agree on the   *)
(* session, or the news of its end is on the way: for all channels, and      *)
(* however the threads and the router take turns.                           *)
THEOREM SessionAgreed == Spec => []SessionAgreement
  <1>1. TunnelInv /\ SessionInv => SessionAgreement
    <2> SUFFICES ASSUME TunnelInv, SessionInv, Undisturbed, connected
                 PROVE  sessions = {chanelId} \/ DisconnectPending
      BY DEF SessionAgreement
    <2>1. connectResult = "true" /\ mainPc # "connectionResponse"
      BY DEF TunnelInv, FlagInv, MainInv
    <2>2. FlightInv
      BY <2>1 DEF SessionInv
    <2>3. CASE sessions = {}
      BY <2>2, <2>3 DEF FlightInv, Over
    <2>4. CASE sessions # {}
      BY <2>1, <2>2, <2>4 DEF FlightInv, OpenOn
    <2> QED
      BY <2>3, <2>4
  <1> QED
    BY <1>1, FlightInvariant, PTL

(* Whatever is on the way to the router while it holds the session names the  *)
(* channel of that session, although three threads read chanelId while one   *)
(* writes it from every packet.                                             *)
THEOREM ChannelKept == Spec => []OwnChannel
  <1>1. SessionInv => OwnChannel
    BY DEF SessionInv, OwnChannel, FlightInv, OpenOn
  <1> QED
    BY <1>1, FlightInvariant, PTL

(* A disconnect that ran its course leaves no session open at the router.     *)
THEOREM SessionReleased == Spec => []DisconnectReleases
  <1>1. TunnelInv /\ SessionInv => DisconnectReleases
    <2> SUFFICES ASSUME TunnelInv, SessionInv, Undisturbed, recvPc = "exited"
                 PROVE  sessions = {}
      BY DEF DisconnectReleases
    <2>1. connectResult = "true" /\ ~ connected
      BY DEF TunnelInv, FlagInv
    <2> QED
      BY <2>1 DEF SessionInv, FlightInv, OpenOn
  <1> QED
    BY <1>1, FlightInvariant, PTL

(* Two numbers less than the modulus apart have different remainders.         *)
LEMMA DistinctRemainders ==
    ASSUME NEW m \in Nat, m > 0, NEW a \in Nat, NEW b \in Nat,
           a < b, b - a < m
    PROVE  a % m # b % m
  <1>1. a = m * (a \div m) + (a % m)
    OBVIOUS
  <1>2. b = m * (b \div m) + (b % m)
    OBVIOUS
  <1>3. a \div m \in Int /\ b \div m \in Int /\ a % m \in Int /\ b % m \in Int
    OBVIOUS
  <1> SUFFICES ASSUME a % m = b % m PROVE FALSE
    OBVIOUS
  <1>4. PICK p \in Int, q \in Int : p = a \div m /\ q = b \div m
    BY <1>3
  <1>5. a = m * p + (a % m) /\ b = m * q + (a % m)
    BY <1>1, <1>2, <1>4
  <1>6. b - a = m * (q - p)
    BY <1>3, <1>4, <1>5
  <1>7. CASE q - p <= 0
    <2>1. m * (q - p) <= 0
      BY <1>4, <1>7
    <2> QED
      BY <1>6, <2>1
  <1>8. CASE q - p >= 1
    <2>1. m * (q - p) >= m
      BY <1>4, <1>8
    <2> QED
      BY <1>4, <1>6, <2>1
  <1> QED
    BY <1>4, <1>7, <1>8

(* Requests less than a cycle of the counter apart carry different bytes, for  *)
(* every width of the counter, whatever became of the sends in between.       *)
THEOREM SequenceDistinct == Spec => []NoSequenceReuse
  <1>1. TunnelInv /\ HomeInv => NoSequenceReuse
    <2> SUFFICES ASSUME TunnelInv, HomeInv,
                        NEW i \in DOMAIN attempted, NEW j \in DOMAIN attempted,
                        i < j, j - i < SeqMod
                 PROVE  attempted[i] # attempted[j]
      BY DEF NoSequenceReuse
    <2>1. attempted \in Seq(Byte) /\ counter \in Nat
      BY DEF TunnelInv, TypeOK
    <2>2. i \in 1 .. counter /\ j \in 1 .. counter
      BY <2>1 DEF HomeInv
    <2>3. attempted[i] = (i - 1) % SeqMod /\ attempted[j] = (j - 1) % SeqMod
      BY <2>2 DEF HomeInv
    <2>4. SeqMod \in 1 .. 256 /\ i \in Int /\ j \in Int /\ 1 <= i /\ 1 <= j
      BY <2>1, <2>2, SeqModAssumption
    <2>5. /\ i - 1 \in Nat /\ j - 1 \in Nat /\ SeqMod \in Nat /\ SeqMod > 0
          /\ i - 1 < j - 1 /\ (j - 1) - (i - 1) < SeqMod
      BY <2>4
    <2>6. (i - 1) % SeqMod # (j - 1) % SeqMod
      BY <2>5, DistinctRemainders
    <2> QED
      BY <2>3, <2>6
  <1> QED
    BY <1>1, FlightInvariant, PTL
============================================================================
