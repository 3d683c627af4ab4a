--------------------------- MODULE ServerConnection ---------------------------
(***************************************************************************)
(* main of reb_server_loop.c around its loop, with the life cycle of       *)
(* can_socket_transport.c: what is acquired in which order, what is given  *)
(* back when a step in between fails, and what is given back at the end.   *)
(*                                                                         *)
(* WSAStartup and WSACleanup count: main and the transport each start the  *)
(* library, and it is released by as many cleanups.                        *)
(***************************************************************************)
EXTENDS Integers

VARIABLES
  stage,      \* the step of main that is next; "serving": the loop;
              \* "closing": the transport is detached; "left": main has returned
  wsa,        \* WSAStartup calls less WSACleanup calls
  handle,     \* for each socket of main: times opened less times closed
  transport   \* can_socket_transport_t

connection == <<stage, wsa, handle, transport>>

Socket == {"server_socket", "client_socket"}

\* can_socket_transport_init, can_socket_transport_detach_socket
Detached == [network_initialized |-> FALSE, socket_attached |-> FALSE,
             socket_handle |-> "INVALID_SOCKET"]

ConnectionInit ==
  /\ stage = "start"
  /\ wsa = 0
  /\ handle = [s \in Socket |-> 0]
  /\ transport = Detached

Opened(s) == handle' = [handle EXCEPT ![s] = @ + 1]

Closed(sockets) == [s \in Socket |-> IF s \in sockets THEN handle[s] - 1 ELSE handle[s]]

\* closesocket on each of the sockets, WSACleanup, return 1
GiveUp(sockets) ==
  /\ stage' = "left"
  /\ handle' = Closed(sockets)
  /\ wsa' = wsa - 1
  /\ UNCHANGED transport

--------------------------------------------------------------------------------
(* Setting up *)

StartNetwork ==
  /\ stage = "start"
  /\ stage' = "socket"
  /\ wsa' = wsa + 1
  /\ UNCHANGED <<handle, transport>>

StartNetworkFails ==
  /\ stage = "start"
  /\ stage' = "left"
  /\ UNCHANGED <<wsa, handle, transport>>

CreateServerSocket ==
  /\ stage = "socket"
  /\ stage' = "bind"
  /\ Opened("server_socket")
  /\ UNCHANGED <<wsa, transport>>

CreateServerSocketFails == stage = "socket" /\ GiveUp({})

BindServerSocket ==
  /\ stage = "bind"
  /\ stage' = "listen"
  /\ UNCHANGED <<wsa, handle, transport>>

Listen ==
  /\ stage = "listen"
  /\ stage' = "accept"
  /\ UNCHANGED <<wsa, handle, transport>>

\* bind or listen: the port is taken by another server, say.
BindOrListenFails == stage \in {"bind", "listen"} /\ GiveUp({"server_socket"})

\* From listen on the system completes connections, before accept asks for them.
Listening == stage = "accept"

Accept ==
  /\ stage = "accept"
  /\ stage' = "transport"
  /\ Opened("client_socket")
  /\ UNCHANGED <<wsa, transport>>

\* Mutant: the listening socket is forgotten when accept fails.
AcceptFailsLeaking == stage = "accept" /\ GiveUp({})

AcceptFails == stage = "accept" /\ GiveUp({"server_socket"})

\* can_socket_transport_startup on a new transport starts the library again.
\* What accept returned is no INVALID_SOCKET, so that
\* can_socket_transport_attach_socket has no reason to refuse it.
StartTransport ==
  /\ stage = "transport"
  /\ stage' = "serving"
  /\ wsa' = wsa + 1
  /\ transport' = [network_initialized |-> TRUE, socket_attached |-> TRUE,
                   socket_handle |-> "client_socket"]
  /\ UNCHANGED handle

StartTransportFails == stage = "transport" /\ GiveUp(Socket)

SetUp ==
  \/ StartNetwork \/ CreateServerSocket \/ BindServerSocket \/ Listen
  \/ StartTransport

SetUpFails ==
  \/ StartNetworkFails \/ CreateServerSocketFails \/ BindOrListenFails
  \/ AcceptFails \/ StartTransportFails

--------------------------------------------------------------------------------
(* The loop and its end *)

\* What can_socket_transport_send_frame and _receive_frame ask of the transport.
TransportReady ==
  /\ transport.network_initialized
  /\ transport.socket_attached
  /\ transport.socket_handle # "INVALID_SOCKET"

\* Mutant: the transport keeps its start of the library.
DetachTransportOnly ==
  /\ stage = "serving"
  /\ stage' = "closing"
  /\ transport' = [transport EXCEPT !.socket_attached = FALSE,
                                   !.socket_handle = "INVALID_SOCKET"]
  /\ UNCHANGED <<wsa, handle>>

\* The loop was left, for whatever reason: can_socket_transport_detach_socket
\* and can_socket_transport_shutdown ...
DetachTransport ==
  /\ stage = "serving"
  /\ stage' = "closing"
  /\ transport' = Detached
  /\ wsa' = wsa - (IF transport.network_initialized THEN 1 ELSE 0)
  /\ UNCHANGED handle

\* ... then main's own sockets and its start of the library.
CloseSockets ==
  /\ stage = "closing"
  /\ stage' = "left"
  /\ handle' = Closed(Socket)
  /\ wsa' = wsa - 1
  /\ UNCHANGED transport

--------------------------------------------------------------------------------
(* Invariant *)

\* Whichever step fails and however the loop ends, main returns with everything
\* it acquired given back once: no socket is left open or closed twice, and the
\* library is released as often as main and the transport started it.
AllReleased ==
  stage = "left" =>
    /\ wsa = 0
    /\ \A s \in Socket : handle[s] = 0
    /\ transport = Detached
===============================================================================
