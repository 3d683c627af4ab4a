------------------------------- MODULE RebSenders -------------------------------
(***************************************************************************)
(* The numbers the commands carry: tcu_module.py and the panel buttons of  *)
(* dashboard.py each count their own presses, and reb_security.c judges    *)
(* both by one window.  The two senders share the dashboard's socket, so   *)
(* their frames stay in order; a datagram may be lost.  The vehicle stands *)
(* still and the clock does not move: a commanded event needs neither.     *)
(***************************************************************************)
EXTENDS RebCanAdapter

CONSTANTS
  WIRE_MODULUS,    \* 2^16: a nonce is two bytes on the wire
  QueueCapacity,   \* bound on the frames in flight
  MaxRestarts      \* bound on the restarts of the dashboard

ASSUME SendersAssumption ==
  /\ WIRE_MODULUS \in 2 .. NONCE_MODULUS
  /\ QueueCapacity \in Nat \ {0}
  /\ MaxRestarts \in Nat
  /\ 0 \in Speeds

VARIABLES
  context, outputs, spent, accepted,   \* as in RebStateMachine
  next_nonce,   \* the number of the next press, for each sender
  queue,        \* the frames between the dashboard and the server
  restarts

core == <<context, outputs, spent, accepted>>
vars == <<core, next_nonce, queue, restarts>>

Core == INSTANCE RebStateMachine WITH Inputs <- RebInputs

Senders == {"tcu", "panel"}
Buttons == {"remote_block", "remote_unblock", "panel_auth", "panel_block", "panel_cancel"}

SenderOf(button) ==
  IF button \in {"remote_block", "remote_unblock"} THEN "tcu" ELSE "panel"

\* send_remote_block, send_remote_unblock, send_panel_auth, ...
Frame(button, nonce) ==
  CASE button = "remote_block"   -> RebCmd(1, nonce)
    [] button = "remote_unblock" -> RebCmd(2, nonce)
    [] button = "panel_auth"     -> PanelAuth(TRUE, nonce)
    [] button = "panel_block"    -> PanelBlock(TRUE, nonce)
    [] button = "panel_cancel"   -> PanelCancel(TRUE)

\* Mutant: the panel sends the same number again.
TakeNonceTcuOnly(sender) ==
  IF sender = "tcu" THEN [next_nonce EXCEPT ![sender] = @ + 1] ELSE next_nonce

\* Mutant: one press advances both counters.
TakeNonceShared(sender) == [s \in Senders |-> next_nonce[s] + 1]

\* _next_panel_nonce, and next_nonce += 1 of the TCU
TakeNonce(sender) == [next_nonce EXCEPT ![sender] = @ + 1]

\* struct.pack("<H") raises once the numbers are used up, and nothing is sent.
Press(button) ==
  /\ next_nonce[SenderOf(button)] < WIRE_MODULUS
  /\ Len(queue) < QueueCapacity
  /\ queue' = Append(queue, Frame(button, next_nonce[SenderOf(button)]))
  /\ next_nonce' = TakeNonce(SenderOf(button))
  /\ UNCHANGED <<core, restarts>>

\* A VEHICLE_STATE of the vehicle at rest: it carries no number.
Report ==
  /\ Len(queue) < QueueCapacity
  /\ queue' = Append(queue, VehicleState(0))
  /\ UNCHANGED <<core, next_nonce, restarts>>

\* The inputs between two messages: nothing transient, the vehicle at rest.
AtRest ==
  [ intrusion_detected |-> FALSE, tcu_ack_received |-> FALSE,
    vehicle_speed_kmh |-> 0, remote_command |-> "NONE",
    timestamp_ms |-> 1, nonce |-> 0 ]

\* One round of the server loop.
Deliver ==
  /\ queue # <<>>
  /\ Core!Step(RxToInputs(Head(queue), AtRest, 1))
  /\ queue' = Tail(queue)
  /\ UNCHANGED <<next_nonce, restarts>>

Lose ==
  /\ queue # <<>>
  /\ queue' = Tail(queue)
  /\ UNCHANGED <<core, next_nonce, restarts>>

\* Both counters are in the dashboard's memory and start at 1.
DashboardRestart ==
  /\ restarts < MaxRestarts
  /\ restarts' = restarts + 1
  /\ next_nonce' = [s \in Senders |-> 1]
  /\ UNCHANGED <<core, queue>>

Init ==
  /\ Core!Init
  /\ next_nonce = [s \in Senders |-> 1]
  /\ queue = <<>>
  /\ restarts = 0

Next ==
  \/ \E button \in Buttons : Press(button)
  \/ Report \/ Deliver \/ Lose \/ DashboardRestart

Spec == Init /\ [][Next]_vars

\* The loop takes what arrives, and an owner whose vehicle is blocked keeps
\* pressing the unlock buttons.
FairSpec ==
  /\ Spec
  /\ WF_vars(Deliver)
  /\ SF_vars(Press("remote_unblock"))
  /\ SF_vars(Press("panel_auth"))

--------------------------------------------------------------------------------
TypeOK ==
  /\ Core!TypeOK
  /\ next_nonce \in [Senders -> 1 .. WIRE_MODULUS]
  /\ Len(queue) <= QueueCapacity
  /\ restarts \in 0 .. MaxRestarts

--------------------------------------------------------------------------------
(* Reach: the numbers with which a sender can still release the lock *)

Acceptable ==
  {n \in 1 .. WIRE_MODULUS - 1 :
     n > context.last_valid_nonce
       /\ n <= context.last_valid_nonce + REB_NONCE_WINDOW_SIZE}

Unlocks(sender) ==
  IF sender = "tcu" THEN {RebCmd(2, n) : n \in Acceptable}
                    ELSE {PanelAuth(TRUE, n) : n \in Acceptable}

InFlight == {queue[i] : i \in DOMAIN queue}

\* An unlock of this sender is under way, or its counter can still get there.
InReach(sender) ==
  \/ Unlocks(sender) \cap InFlight # {}
  \/ \E n \in Acceptable : n >= next_nonce[sender]

Blocked == context.current_state = "BLOCKED"

\* While the vehicle is blocked, a sender's unlock button costs it nothing: only
\* its other buttons, pressed for nothing, and losses bring its counter past the
\* window, however far the other sender has moved the window before.
ReachLostByWasteOnly ==
  [][\A s \in Senders :
       Blocked /\ Blocked' /\ InReach(s) /\ ~InReach(s)' =>
         \/ Lose
         \/ \E button \in Buttons \ {"remote_unblock", "panel_auth"} :
              SenderOf(button) = s /\ Press(button)]_vars

\* Once no sender is in reach, and until the dashboard is restarted, no
\* command is accepted any more and none comes back into reach.
OutOfReachForGood ==
  [][(\A s \in Senders : ~InReach(s)) /\ Blocked =>
       Blocked' /\ (DashboardRestart \/ \A s \in Senders : ~InReach(s)')]_vars

\* A blocked vehicle whose owner keeps pressing an unlock button that is in
\* reach is released, unless that reach is lost (see ReachLostByWasteOnly).
PersistentUnlockReleases ==
  \A s \in Senders : Blocked /\ InReach(s) ~> ~Blocked \/ ~InReach(s)

===============================================================================
