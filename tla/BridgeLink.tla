------------------------------- MODULE BridgeLink -------------------------------
(***************************************************************************)
(* reb_bridge.py between the datagrams of the virtual bus and the TCP      *)
(* stream of the server (can_socket_transport.c, reb_server_loop.c).  For  *)
(* every bus message it accepts, the bridge sends one frame, reads a first *)
(* answer without a time limit, then whatever else arrives until nothing   *)
(* has come for 50 ms, and forwards what it read to the bus.  The server   *)
(* accepts every frame the bridge builds (CanStack).  ServerConnection     *)
(* models how the server gets to its loop and what follows it.             *)
(*                                                                         *)
(* Messages are numbered as they appear on the bus; the answers to message *)
(* m are the frames ANSWERS * (m - 1) + 1 .. ANSWERS * m.  A byte on the   *)
(* stream is a pair: the frame it belongs to and its place in it.          *)
(***************************************************************************)
EXTENDS SequencesExt, ServerConnection

CONSTANTS
  FRAME_SIZE,    \* 16
  ANSWERS,       \* 3: the frames of reb_can_adapter_outputs_to_tx
  MaxMessages,   \* bound on the messages published on the bus
  UdpCapacity,   \* frames the bridge's datagram socket holds
  Ignored,       \* messages with an identifier outside SUPPORTED_RX_IDS
  Faults         \* "late": the server is silent for 50 ms in mid-answer
                 \* "loss": a datagram does not arrive
                 \* "stop": the server process or the bridge ends
                 \* "setup": a call that sets up the server's sockets fails

ASSUME BridgeAssumption ==
  /\ {FRAME_SIZE, ANSWERS, UdpCapacity} \subseteq Nat \ {0}
  /\ MaxMessages \in Nat
  /\ Ignored \subseteq 1 .. MaxMessages
  /\ Faults \subseteq {"late", "loss", "stop", "setup"}

VARIABLES
  next,     \* the number of the next message on the bus
  udp,      \* messages waiting at the bridge's datagram socket
  pc,       \* "connect": not started; "register": connected to the server;
            \* "udp": waits for a message; "first", "drain": reads answers;
            \* "forward": publishes them; "stopped"
  chunks,   \* the part of a frame _recv_tcp_frame has read so far
  frames,   \* the frames read in this transaction
  bus,      \* the answers published on the bus
  asked,    \* the messages sent to the server
  up, down, \* the two directions of the TCP stream
  srvIn,    \* the part of a frame the server has read so far
  srvOut,   \* the bytes of its answers it has not sent yet
  late,     \* history: a transaction ended before the server had answered
  split     \* history: ... in the middle of a frame

bridge == <<pc, chunks, frames, bus, asked>>
server == <<connection, srvIn, srvOut>>
vars == <<next, udp, bridge, up, down, server, late, split>>

--------------------------------------------------------------------------------
Bytes(frame) == [k \in 1 .. FRAME_SIZE |-> <<frame, k>>]

\* The answers to a message, as frame numbers.
AnswersTo(m) == [a \in 1 .. ANSWERS |-> ANSWERS * (m - 1) + a]

\* The bytes of several frames, one frame after the other.
Stream(numbers) ==
  [t \in 1 .. FRAME_SIZE * Len(numbers) |->
     <<numbers[((t - 1) \div FRAME_SIZE) + 1], ((t - 1) % FRAME_SIZE) + 1>>]

\* Mutant: a message without effect is not answered.
RepliesToSome(m) == IF m = 2 THEN <<>> ELSE Stream(AnswersTo(m))

\* Every accepted message is answered with all frames, whatever it changed.
Replies(m) == Stream(AnswersTo(m))

\* The first n bytes of a stream, and the rest.
First(stream, n) == SubSeq(stream, 1, n)
After(stream, n) == SubSeq(stream, n + 1, Len(stream))

\* The frame that 16 bytes are read as: 0 when they are no frame of the server.
FrameOf(bytes) == IF bytes = Bytes(bytes[1][1]) THEN bytes[1][1] ELSE 0

\* Mutant: any 16 bytes are taken for a frame.
WellFormedAny(bytes) == TRUE

\* _parse_tcp_can_frame and SUPPORTED_TX_IDS: only a whole frame of the server
\* passes.  Across two frames the version byte or the identifier does not fit.
WellFormed(bytes) == FrameOf(bytes) # 0

ServerIdle == stage = "serving" /\ up = <<>> /\ srvIn = <<>> /\ srvOut = <<>>

\* Registered on the bus, whose hub passes on to known addresses only.
Registered == pc \notin {"connect", "register"}

--------------------------------------------------------------------------------
(* The bus *)

\* A full socket buffer drops the datagram.
Publish ==
  /\ next <= MaxMessages
  /\ next' = next + 1
  /\ \/ Registered /\ Len(udp) < UdpCapacity /\ udp' = Append(udp, next)
     \/ /\ ~Registered \/ Len(udp) = UdpCapacity \/ "loss" \in Faults
        /\ UNCHANGED udp
  /\ UNCHANGED <<bridge, up, down, server, late, split>>

--------------------------------------------------------------------------------
(* REBBridge.start *)

\* _connect_to_reb: the server has called listen, not necessarily accept.
Connect ==
  /\ pc = "connect" /\ Listening
  /\ pc' = "register"
  /\ UNCHANGED <<next, udp, chunks, frames, bus, asked, up, down, server, late, split>>

\* Nobody listens: the exception ends the bridge.
ConnectRefused ==
  /\ pc = "connect" /\ ~Listening
  /\ pc' = "stopped"
  /\ UNCHANGED <<next, udp, chunks, frames, bus, asked, up, down, server, late, split>>

\* _register_on_bus, before the loop looks at the socket.
Register ==
  /\ pc = "register"
  /\ pc' = "udp"
  /\ UNCHANGED <<next, udp, chunks, frames, bus, asked, up, down, server, late, split>>

--------------------------------------------------------------------------------
(* _udp_to_reb_loop *)

SkipUnsupported ==
  /\ pc = "udp" /\ udp # <<>>
  /\ Head(udp) \in Ignored
  /\ udp' = Tail(udp)
  /\ UNCHANGED <<next, bridge, up, down, server, late, split>>

\* Mutant: what is left on the stream is thrown away before a new message.
AskFlushing ==
  /\ pc = "udp" /\ udp # <<>>
  /\ Head(udp) \notin Ignored
  /\ udp' = Tail(udp)
  /\ asked' = Append(asked, Head(udp))
  /\ up' = IF stage # "left" THEN up \o Bytes(Head(udp)) ELSE up
  /\ pc' \in IF stage # "left" THEN {"first"} ELSE {"first", "stopped"}
  /\ down' = <<>>
  /\ UNCHANGED <<next, chunks, frames, bus, server, late, split>>

\* A server that has gone is noticed by sendall now or by recv later.
Ask ==
  /\ pc = "udp" /\ udp # <<>>
  /\ Head(udp) \notin Ignored
  /\ udp' = Tail(udp)
  /\ asked' = Append(asked, Head(udp))
  /\ up' = IF stage # "left" THEN up \o Bytes(Head(udp)) ELSE up
  /\ pc' \in IF stage # "left" THEN {"first"} ELSE {"first", "stopped"}
  /\ UNCHANGED <<next, chunks, frames, bus, down, server, late, split>>

\* Mutant: one answer per message is read.
AfterFrameForward == "forward"

\* After the first frame, and after each of the others.
AfterFrame == "drain"

\* Mutant: every recv asks for a whole frame, not for the rest of one.
ReceiveWhole ==
  /\ pc \in {"first", "drain"}
  /\ \E n \in 1 .. FRAME_SIZE :
       /\ n <= Len(down)
       /\ down' = After(down, n)
       /\ LET read == chunks \o First(down, n) IN
          IF Len(read) >= FRAME_SIZE
          THEN /\ frames' = Append(frames, read)
               /\ chunks' = <<>>
               /\ pc' = AfterFrame
          ELSE /\ chunks' = read
               /\ UNCHANGED <<frames, pc>>
  /\ UNCHANGED <<next, udp, bus, asked, up, server, late, split>>

\* One recv of _recv_tcp_frame: some of the bytes that have arrived.
Receive ==
  /\ pc \in {"first", "drain"}
  /\ \E n \in 1 .. FRAME_SIZE - Len(chunks) :
       /\ n <= Len(down)
       /\ down' = After(down, n)
       /\ LET read == chunks \o First(down, n) IN
          IF Len(read) = FRAME_SIZE
          THEN /\ frames' = Append(frames, read)
               /\ chunks' = <<>>
               /\ pc' = AfterFrame
          ELSE /\ chunks' = read
               /\ UNCHANGED <<frames, pc>>
  /\ UNCHANGED <<next, udp, bus, asked, up, server, late, split>>

\* socket.timeout: what has been read of an unfinished frame is dropped.
DrainTimeout ==
  /\ pc = "drain" /\ down = <<>> /\ stage = "serving"
  /\ ServerIdle \/ "late" \in Faults
  /\ late' = (late \/ ~ServerIdle)
  /\ split' = (split \/ chunks # <<>>)
  /\ chunks' = <<>>
  /\ pc' = "forward"
  /\ UNCHANGED <<next, udp, frames, bus, asked, up, down, server>>

ForwardFrame ==
  /\ pc = "forward" /\ frames # <<>>
  /\ WellFormed(Head(frames))
  /\ bus' = Append(bus, FrameOf(Head(frames)))
  /\ frames' = Tail(frames)
  /\ UNCHANGED <<next, udp, pc, chunks, asked, up, down, server, late, split>>

\* An unsupported identifier is passed over; a ValueError drops the others too.
DropMalformed ==
  /\ pc = "forward" /\ frames # <<>>
  /\ ~WellFormed(Head(frames))
  /\ frames' \in {Tail(frames), <<>>}
  /\ UNCHANGED <<next, udp, pc, chunks, bus, asked, up, down, server, late, split>>

EndTransaction ==
  /\ pc = "forward" /\ frames = <<>>
  /\ pc' = "udp"
  /\ UNCHANGED <<next, udp, chunks, frames, bus, asked, up, down, server, late, split>>

\* ConnectionError: the frames of the transaction are lost, the bridge ends.
ServerGone ==
  /\ pc \in {"first", "drain"}
  /\ stage = "left" /\ down = <<>>
  /\ pc' = "stopped"
  /\ chunks' = <<>>
  /\ frames' = <<>>
  /\ UNCHANGED <<next, udp, bus, asked, up, down, server, late, split>>

\* Ctrl+C, in whatever the bridge is doing: both sockets are closed.
BridgeStops ==
  /\ "stop" \in Faults
  /\ pc # "stopped"
  /\ pc' = "stopped"
  /\ chunks' = <<>>
  /\ frames' = <<>>
  /\ UNCHANGED <<next, udp, bus, asked, up, down, server, late, split>>

--------------------------------------------------------------------------------
(* The server *)

\* accept returns when a client has connected, be it still there or not.
AcceptBridge ==
  /\ pc # "connect"
  /\ Accept
  /\ UNCHANGED <<next, udp, bridge, up, down, srvIn, srvOut, late, split>>

Starting ==
  /\ SetUp
  /\ UNCHANGED <<next, udp, bridge, up, down, srvIn, srvOut, late, split>>

\* Closing a socket with unread bytes resets the connection: answers on the way
\* may be lost with it.
Disconnect ==
  /\ up' = <<>>
  /\ down' \in IF up = <<>> THEN {down} ELSE {down, <<>>}

StartingFails ==
  /\ "setup" \in Faults
  /\ SetUpFails
  /\ Disconnect
  /\ UNCHANGED <<next, udp, bridge, srvIn, srvOut, late, split>>

\* One recv of can_socket_transport_receive_all.
ServerReceive ==
  /\ stage = "serving" /\ TransportReady /\ srvOut = <<>>
  /\ \E n \in 1 .. FRAME_SIZE - Len(srvIn) :
       /\ n <= Len(up)
       /\ up' = After(up, n)
       /\ LET read == srvIn \o First(up, n) IN
          IF Len(read) = FRAME_SIZE
          THEN srvIn' = <<>> /\ srvOut' = Replies(read[1][1])
          ELSE srvIn' = read /\ UNCHANGED srvOut
  /\ UNCHANGED <<next, udp, bridge, down, connection, late, split>>

\* One send of can_socket_transport_send_all: at most the rest of a frame.
ServerSend ==
  /\ stage = "serving" /\ TransportReady /\ srvOut # <<>>
  /\ \E n \in 1 .. ((Len(srvOut) - 1) % FRAME_SIZE) + 1 :
       /\ down' = down \o First(srvOut, n)
       /\ srvOut' = After(srvOut, n)
  /\ UNCHANGED <<next, udp, bridge, up, connection, srvIn, late, split>>

\* A break out of the loop: a frame is refused or a send fails ("stop"), or
\* "Client disconnected".
LeaveLoop ==
  /\ "stop" \in Faults \/ pc = "stopped"
  /\ DetachTransport
  /\ srvIn' = <<>>
  /\ srvOut' = <<>>
  /\ UNCHANGED <<next, udp, bridge, up, down, late, split>>

CloseConnection ==
  /\ CloseSockets
  /\ Disconnect
  /\ UNCHANGED <<next, udp, bridge, srvIn, srvOut, late, split>>

--------------------------------------------------------------------------------
Init ==
  /\ next = 1
  /\ ConnectionInit
  /\ pc = "connect"
  /\ udp = <<>> /\ up = <<>> /\ down = <<>> /\ srvIn = <<>> /\ srvOut = <<>>
  /\ chunks = <<>> /\ frames = <<>> /\ bus = <<>> /\ asked = <<>>
  /\ late = FALSE /\ split = FALSE

Bridge ==
  \/ Register
  \/ SkipUnsupported \/ Ask \/ Receive \/ DrainTimeout
  \/ ForwardFrame \/ DropMalformed \/ EndTransaction \/ ServerGone

Server == Starting \/ AcceptBridge \/ ServerReceive \/ ServerSend \/ CloseConnection

Next ==
  \/ Publish
  \/ Connect \/ ConnectRefused \/ Bridge \/ BridgeStops
  \/ Server \/ StartingFails \/ LeaveLoop

Spec == Init /\ [][Next]_vars

\* Both processes keep running once they are started; nobody has to start the
\* bridge or to publish, nothing has to fail.
FairSpec == Spec /\ WF_vars(Bridge) /\ WF_vars(Server)

--------------------------------------------------------------------------------
TypeOK ==
  /\ next \in 1 .. MaxMessages + 1
  /\ Len(udp) <= UdpCapacity
  /\ pc \in {"connect", "register", "udp", "first", "drain", "forward", "stopped"}
  /\ Len(chunks) < FRAME_SIZE /\ Len(srvIn) < FRAME_SIZE
  /\ \A i \in DOMAIN frames : Len(frames[i]) = FRAME_SIZE
  /\ frames # <<>> => pc \in {"drain", "forward"}
  /\ stage \in {"start", "socket", "bind", "listen", "accept", "transport",
                "serving", "closing", "left"}
  /\ srvIn # <<>> \/ srvOut # <<>> => stage = "serving"

\* The answers to several messages, in order.
AnswersToAll(messages) ==
  [j \in 1 .. ANSWERS * Len(messages) |->
     AnswersTo(messages[((j - 1) \div ANSWERS) + 1])[((j - 1) % ANSWERS) + 1]]

Expected == AnswersToAll(asked)

\* The place of the last published answer among those expected.
Position ==
  IF bus = <<>> \/ Last(bus) \notin Range(Expected) THEN 0
  ELSE CHOOSE j \in DOMAIN Expected : Expected[j] = Last(bus)

Channel == INSTANCE LossyChannel WITH sent <- Expected, received <- bus, at <- Position

\* For the bus the bridge is a lossy channel in order: what it publishes are
\* answers to messages that were asked, each at most once and in the server's
\* order, even after a transaction was cut in the middle of a frame and the
\* stream is read out of step.
ImplementsChannel == Channel!Spec

\* As long as no frame was cut, nothing is left out: an answer that came too
\* late for its transaction is published by a later one.
NoAnswerSkipped == ~split => IsPrefix(bus, Expected)

\* When the server is never silent for 50 ms in mid-answer, a transaction
\* publishes all answers to its message before the next message is looked at.
TransactionComplete == pc = "udp" /\ ~late => bus = Expected

\* A transaction ends: the read without a time limit does not keep the bridge
\* for ever, because every message is answered, also one without effect, and a
\* server that has gone is noticed.
KeepsServing == pc = "first" ~> pc \in {"udp", "stopped"}
===============================================================================
