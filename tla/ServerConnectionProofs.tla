------------------------ MODULE ServerConnectionProofs ------------------------
(***************************************************************************)
(* That the server gives everything back, for every behaviour of the       *)
(* bridge, the bus and the faults, whatever the bounds.                    *)
(***************************************************************************)
EXTENDS BridgeLink, TLAPS

\* What is held at each step of main.
Holds(starts, opened, t) ==
  /\ wsa = starts
  /\ handle = [s \in Socket |-> IF s \in opened THEN 1 ELSE 0]
  /\ transport = t

Attached == [network_initialized |-> TRUE, socket_attached |-> TRUE,
             socket_handle |-> "client_socket"]

HeldInv ==
  \/ stage = "start" /\ Holds(0, {}, Detached)
  \/ stage = "socket" /\ Holds(1, {}, Detached)
  \/ stage \in {"bind", "listen", "accept"} /\ Holds(1, {"server_socket"}, Detached)
  \/ stage = "transport" /\ Holds(1, Socket, Detached)
  \/ stage = "serving" /\ Holds(2, Socket, Attached)
  \/ stage = "closing" /\ Holds(1, Socket, Detached)
  \/ stage = "left" /\ Holds(0, {}, Detached)

\* Main starts with nothing.
LEMMA HeldInit == ConnectionInit => HeldInv
  BY DEF ConnectionInit, HeldInv, Holds

\* Opening a socket that is not open adds it to the open ones.
LEMMA OpenedHolds ==
  ASSUME NEW opened \in SUBSET Socket, NEW s \in Socket \ opened,
         Holds(1, opened, Detached), Opened(s), UNCHANGED <<wsa, transport>>
  PROVE  Holds(1, opened \cup {s}, Detached)'
<1>1. handle' = [r \in Socket |-> IF r = s THEN handle[s] + 1 ELSE handle[r]]
  BY DEF Opened, Holds
<1>2. ASSUME NEW r \in Socket
      PROVE  (IF r = s THEN handle[s] + 1 ELSE handle[r])
               = (IF r \in opened \cup {s} THEN 1 ELSE 0)
  BY DEF Holds
<1> QED BY <1>1, <1>2 DEF Holds, Detached

\* The steps of the set-up that succeed.
LEMMA SetUpHolds ==
  ASSUME HeldInv, SetUp \/ Accept
  PROVE  HeldInv'
<1>1. CASE StartNetwork
  BY <1>1 DEF StartNetwork, HeldInv, Holds
<1>2. CASE CreateServerSocket
  <2>1. Holds(1, {}, Detached) /\ stage' = "bind"
    BY <1>2 DEF CreateServerSocket, HeldInv
  <2>2. Holds(1, {} \cup {"server_socket"}, Detached)'
    BY <1>2, <2>1, OpenedHolds DEF CreateServerSocket, Socket
  <2> QED BY <2>1, <2>2 DEF Holds, HeldInv
<1>3. CASE BindServerSocket
  BY <1>3 DEF BindServerSocket, HeldInv, Holds
<1>4. CASE Listen
  BY <1>4 DEF Listen, HeldInv, Holds
<1>5. CASE Accept
  <2>1. Holds(1, {"server_socket"}, Detached) /\ stage' = "transport"
    BY <1>5 DEF Accept, HeldInv
  <2>2. Holds(1, {"server_socket"} \cup {"client_socket"}, Detached)'
    BY <1>5, <2>1, OpenedHolds DEF Accept, Socket
  <2>3. {"server_socket"} \cup {"client_socket"} = Socket
    BY DEF Socket
  <2> QED BY <2>1, <2>2, <2>3 DEF HeldInv
<1>6. CASE StartTransport
  BY <1>6 DEF StartTransport, HeldInv, Holds, Attached
<1> QED BY <1>1, <1>2, <1>3, <1>4, <1>5, <1>6 DEF SetUp

\* Giving up with exactly the open sockets and one start of the library.
LEMMA GiveUpHolds ==
  ASSUME NEW opened \in SUBSET Socket, Holds(1, opened, Detached), GiveUp(opened)
  PROVE  HeldInv'
  BY DEF Holds, GiveUp, Closed, HeldInv

\* The steps of the set-up that fail.
LEMMA SetUpFailsHolds ==
  ASSUME HeldInv, SetUpFails
  PROVE  HeldInv'
<1>1. CASE StartNetworkFails
  BY <1>1 DEF StartNetworkFails, HeldInv, Holds
<1>2. CASE CreateServerSocketFails
  BY <1>2, GiveUpHolds DEF CreateServerSocketFails, HeldInv
<1>3. CASE BindOrListenFails
  BY <1>3, GiveUpHolds DEF BindOrListenFails, HeldInv, Socket
<1>4. CASE AcceptFails
  BY <1>4, GiveUpHolds DEF AcceptFails, HeldInv, Socket
<1>5. CASE StartTransportFails
  BY <1>5, GiveUpHolds DEF StartTransportFails, HeldInv
<1> QED BY <1>1, <1>2, <1>3, <1>4, <1>5 DEF SetUpFails

\* The end of the loop and of main.
LEMMA TearDownHolds ==
  ASSUME HeldInv, DetachTransport \/ CloseSockets
  PROVE  HeldInv'
<1>1. CASE DetachTransport
  BY <1>1 DEF DetachTransport, HeldInv, Holds, Attached
<1>2. CASE CloseSockets
  BY <1>2 DEF CloseSockets, Closed, HeldInv, Holds
<1> QED BY <1>1, <1>2

\* No step of bridge, bus or serving touches the connection.
LEMMA HeldStep ==
  ASSUME HeldInv, [Next]_vars
  PROVE  HeldInv'
<1>1. CASE UNCHANGED connection
  BY <1>1 DEF connection, HeldInv, Holds
<1>2. CASE Server
  BY <1>1, <1>2, SetUpHolds, TearDownHolds
  DEF Server, Starting, AcceptBridge, ServerReceive, ServerSend, CloseConnection
<1>3. CASE StartingFails
  BY <1>3, SetUpFailsHolds DEF StartingFails
<1>4. CASE LeaveLoop
  BY <1>4, TearDownHolds DEF LeaveLoop
<1>5. CASE Bridge
  BY <1>1, <1>5
  DEF Bridge, Register, SkipUnsupported, Ask, Receive, DrainTimeout, ForwardFrame,
      DropMalformed, EndTransaction, ServerGone, server
<1>6. CASE Publish \/ Connect \/ ConnectRefused \/ BridgeStops
  BY <1>1, <1>6 DEF Publish, Connect, ConnectRefused, BridgeStops, server
<1>7. CASE UNCHANGED vars
  BY <1>1, <1>7 DEF vars, server
<1> QED BY <1>2, <1>3, <1>4, <1>5, <1>6, <1>7 DEF Next

\* Whatever fails and however the loop of main ends, every socket is closed once
\* and the library is released as often as main and the transport started it.
THEOREM EverythingReleased == Spec => []AllReleased
<1>1. Init => HeldInv
  BY HeldInit DEF Init
<1>2. HeldInv /\ [Next]_vars => HeldInv'
  BY HeldStep
<1>3. HeldInv => AllReleased
  BY DEF HeldInv, Holds, AllReleased
<1> QED BY <1>1, <1>2, <1>3, PTL DEF Spec
===============================================================================
