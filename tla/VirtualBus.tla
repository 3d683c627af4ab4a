------------------------------ MODULE VirtualBus ------------------------------
(***************************************************************************)
(* virtual_bus.py: a hub that passes every datagram on to the other        *)
(* addresses it has heard from.  A module is known from its first datagram *)
(* on.  Nothing is acknowledged, and a datagram that finds no hub or no    *)
(* listener is lost without a trace; any other may be, too.                *)
(*                                                                         *)
(* The hub handles one datagram after the other, so passing one on takes   *)
(* no time here: the queues of the bridge and the dashboard delay it.  An  *)
(* ECU sends nothing, so that it reads at once shows nowhere.  What a      *)
(* module passes over unread is not put into its queue.  The copy that the *)
(* dashboard gets of its own messages only sets its gauge to what it shows *)
(* and is left out, with dashboard_addr, which is there for it.            *)
(***************************************************************************)
EXTENDS Integers, Sequences

CONSTANTS
  QueueCapacity,   \* bound on the datagrams at one socket
  MaxFaults        \* bound on losses, early starts and restarts together

\* The programs on the bus.
Modules == {"dashboard", "bridge", "engine", "fuel"}
Ecus == {"engine", "fuel"}
Queued == Modules \ Ecus

ASSUME BusAssumption ==
  /\ QueueCapacity \in Nat \ {0}
  /\ MaxFaults \in Nat

VARIABLES
  up,              \* the hub is running
  clients,         \* the modules whose present address it has heard from
  running,         \* modules whose listening loop is running
  inbox,           \* datagrams waiting at the sockets of Queued
  missed,          \* history: <<m, kind>> when the latest datagram of this kind
                   \* did not get to m, or none has since m lost the hub
  faults           \* history: the faults so far

bus == <<up, clients, running, inbox, missed, faults>>

--------------------------------------------------------------------------------
\* SUPPORTED_RX_IDS of the bridge
Commands ==
  { "REB_CMD", "TCU_TO_REB", "VEHICLE_STATE", "BCM_INTRUSION_STATUS",
    "PANEL_AUTH_CMD", "PANEL_CANCEL_CMD", "PANEL_BLOCK_CMD" }

\* The identifiers each module looks at.  That the dashboard displays
\* what the ECUs get too, is left out.
ReadBy ==
  [m \in Modules |->
     CASE m = "bridge"    -> Commands
       [] m = "engine"    -> {"REB_PREVENT_START"}
       [] m = "fuel"      -> {"REB_DERATE_CMD"}
       [] m = "dashboard" -> {"REB_STATUS"}]

\* The bridge treats all commands alike.
KindOf(id) == IF id \in Commands THEN "COMMAND" ELSE id

Marks(ms, id) == {<<m, KindOf(id)>> : m \in ms}
Unheard(ms) == UNION {{<<m, KindOf(id)>> : id \in ReadBy[m]} : m \in ms}

BusInit ==
  /\ up = FALSE
  /\ clients = {}
  /\ running = {}
  /\ inbox = [m \in Queued |-> <<>>]
  /\ missed = {}
  /\ faults = 0

FaultLeft == faults < MaxFaults

--------------------------------------------------------------------------------
(* start_virtual_bus *)

StartHub ==
  /\ ~up
  /\ up' = TRUE
  /\ UNCHANGED <<clients, running, inbox, missed, faults>>

\* Mutant: the hub passes on to everybody.
AddressedAll(from) == Modules \ {from}

\* The modules a datagram is passed on to.
Addressed(from) == clients \ {from}

\* The modules that would read a datagram, and those that it gets to unless lost.
Readers(id) == {m \in Modules : id \in ReadBy[m]}
Reached(from, id) == IF up THEN Readers(id) \cap Addressed(from) \cap running ELSE {}

\* The modules that it may get to: a copy is lost by a fault.
Deliveries(from, id) ==
  IF FaultLeft THEN SUBSET Reached(from, id) ELSE {Reached(from, id)}

\* A module sends, the hub registers it and passes the datagram on to those in kept.
Send(from, msg, kept) ==
  /\ UNCHANGED <<up, running>>
  /\ \A m \in kept \cap Queued : Len(inbox[m]) < QueueCapacity
  /\ faults' = IF kept = Reached(from, msg.id) THEN faults ELSE faults + 1
  /\ inbox' = [m \in Queued |-> IF m \in kept THEN Append(inbox[m], msg) ELSE inbox[m]]
  /\ missed' = (missed \ Marks(kept, msg.id)) \cup Marks(Readers(msg.id) \ kept, msg.id)
  /\ clients' = IF up THEN clients \cup {from} ELSE clients

\* The first message of an inbox is taken out of it.
Take(m) ==
  /\ m \in running
  /\ inbox[m] # <<>>
  /\ inbox' = [inbox EXCEPT ![m] = Tail(@)]
  /\ UNCHANGED <<up, clients, running, missed, faults>>

\* Ctrl+C and a new start: the next hub knows nobody.
RestartHub ==
  /\ up /\ FaultLeft
  /\ clients' = {}
  /\ missed' = Unheard(Modules)
  /\ faults' = faults + 1
  /\ UNCHANGED <<up, running, inbox>>

--------------------------------------------------------------------------------
(* The first datagram of a program makes it known; an ECU sends no other. *)

\* Started before the hub, or again, which only an ECU is here.
Mishap(m) == m \in running \/ ~up

Start(m) ==
  /\ m \in running => m \in Ecus
  /\ Mishap(m) => FaultLeft
  /\ faults' = IF Mishap(m) THEN faults + 1 ELSE faults
  /\ clients' = IF up THEN clients \cup {m} ELSE clients
  /\ missed' = IF m \in running THEN missed \cup Unheard({m}) ELSE missed
  \* the listening loop of an ECU ends on any exception, as when nobody is there
  /\ running' \in {running \cup {m}} \cup
                  IF up \/ m \in Queued THEN {} ELSE {running \ {m}}
  /\ UNCHANGED <<up, inbox>>
===============================================================================
