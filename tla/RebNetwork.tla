------------------------------ MODULE RebNetwork ------------------------------
(***************************************************************************)
(* The programs around the virtual bus: the dashboard with its panel, TCU  *)
(* and BCM, the bridge with the server behind it, the engine and fuel ECU. *)
(* They know of each other only what the bus passes on.                    *)
(*                                                                         *)
(* The core is taken as Immobilizer describes it, which RebStateMachine is *)
(* proved to implement: speeds, clocks, windows and nonces are a choice,   *)
(* and no spent nonce is remembered.  The bridge is taken as LossyChannel  *)
(* describes it, which BridgeLink implements: it publishes answers in      *)
(* order and may leave some out.                                           *)
(***************************************************************************)
EXTENDS VirtualBus

CONSTANT Buttons    \* the buttons in use, a subset of AllButtons

AllButtons ==
  { "remote_block", "remote_unblock", "panel_auth", "panel_cancel",
    "panel_block", "bcm_intrusion", "time_tick", "vehicle_state" }

ASSUME NetworkAssumption == Buttons \subseteq AllButtons

VARIABLES
  phase,            \* the core, as in Immobilizer
  answers,          \* the bridge: answers it has not published yet
  last_trigger_source, shown, alerts,   \* the dashboard:
                    \* the source of the last command, "BCM" or "other", the
                    \* state it displays, and whether horn and hazards are on
  starter_locked,   \* the engine ECU
  power_limited,    \* the fuel ECU: power_factor < 1
  published         \* history: the outputs last answered

dashboard == <<last_trigger_source, shown, alerts>>
ecus == <<starter_locked, power_limited>>
vars == <<bus, phase, answers, dashboard, ecus, published>>

Core == INSTANCE Immobilizer WITH spent <- {}, Nonce <- {}

\* What each button sends.
MessageOf(b) ==
  CASE b = "remote_block"   -> [id |-> "REB_CMD", cmd |-> "BLOCK"]
    [] b = "remote_unblock" -> [id |-> "REB_CMD", cmd |-> "UNBLOCK"]
    [] b = "panel_auth"     -> [id |-> "PANEL_AUTH_CMD"]
    [] b = "panel_cancel"   -> [id |-> "PANEL_CANCEL_CMD"]
    [] b = "panel_block"    -> [id |-> "PANEL_BLOCK_CMD"]
    [] b = "bcm_intrusion"  -> [id |-> "BCM_INTRUSION_STATUS"]
    [] b = "time_tick"      -> [id |-> "TCU_TO_REB"]
    [] b = "vehicle_state"  -> [id |-> "VEHICLE_STATE"]

--------------------------------------------------------------------------------
(* The server and the bridge *)

\* The steps of the core on a message.  Cancel is obeyed whenever it can be; an
\* intrusion is, while idle; everything else depends on what is left out here.
\* Every unlock carries its acknowledgement (reb_can_adapter.c): none is in vain.
CoreStep(msg) ==
  \/ msg.id = "BCM_INTRUSION_STATUS" /\ Core!Warn
  \/ /\ msg \in {MessageOf("remote_block"), MessageOf("panel_block")}
     /\ phase = "idle" /\ phase' \in {"armed", "blocking"}    \* Core!Arm
  \/ msg.id = "PANEL_CANCEL_CMD" /\ Core!Cancel
  \/ msg.id # "PANEL_CANCEL_CMD" /\ Core!Engage
  \/ Core!Lock
  \/ /\ msg \in {MessageOf("remote_unblock"), MessageOf("panel_auth")}
     /\ phase = "blocked" /\ phase' = "idle"                  \* Core!Release
  \/ /\ ~(msg.id = "BCM_INTRUSION_STATUS" /\ phase = "idle")
     /\ ~(msg.id = "PANEL_CANCEL_CMD" /\ phase \in {"warned", "armed"})
     /\ UNCHANGED phase

StatusName(p) ==
  CASE p = "idle"              -> "IDLE"
    [] p \in {"warned", "armed"} -> "THEFT_CONFIRMED"
    [] p = "blocking"          -> "BLOCKING"
    [] p = "blocked"           -> "BLOCKED"

\* The answer to a message: the status is that after the step, the outputs are
\* those of the state the step began in.
AnswerTo(before, after, derate) ==
  << [id |-> "REB_STATUS", state |-> StatusName(after)],
     [id |-> "REB_DERATE_CMD", derate |-> derate],
     [id |-> "REB_PREVENT_START", prevent |-> before = "blocked"] >>

\* Whether derate_pct > 0: while blocking, if the vehicle moves; always while blocked.
Derating(before, after) ==
  CASE before = "blocking" /\ after = "blocking" -> BOOLEAN
    [] before = "blocked" -> {TRUE}
    [] OTHER -> {FALSE}

\* Mutant: the bridge does not wait for the answer before the next message.
AskPipelined ==
  /\ Take("bridge")
  /\ CoreStep(Head(inbox["bridge"]))
  /\ \E derate \in Derating(phase, phase') :
       answers' = answers \o AnswerTo(phase, phase', derate)
  /\ UNCHANGED <<dashboard, ecus, published>>

\* A message reaches the server; its answer is still to be published.
Ask ==
  /\ answers = <<>>
  /\ Take("bridge")
  /\ CoreStep(Head(inbox["bridge"]))
  /\ \E derate \in Derating(phase, phase') : answers' = AnswerTo(phase, phase', derate)
  /\ UNCHANGED <<dashboard, ecus, published>>

\* Mutant: an ECU that was told to lock stays locked.
EngineObeyLatching(msg, kept) ==
  starter_locked' = IF "engine" \in kept THEN starter_locked \/ msg.prevent ELSE starter_locked

\* The ECUs hold what the last frame that got to them says.
EngineObey(msg, kept) ==
  starter_locked' = IF "engine" \in kept THEN msg.prevent ELSE starter_locked

\* Mutant: power_factor = derate_pct / 100, which is below 1 for every derate_pct.
FuelObeyInverted(msg, kept) ==
  power_limited' = IF "fuel" \in kept THEN TRUE ELSE power_limited

FuelObey(msg, kept) ==
  power_limited' = IF "fuel" \in kept THEN msg.derate ELSE power_limited

\* One frame of the answer goes to the bus.
Publish ==
  /\ answers # <<>>
  /\ answers' = Tail(answers)
  /\ UNCHANGED <<phase, dashboard>>
  /\ LET msg == Head(answers) IN
       /\ \E kept \in Deliveries("bridge", msg.id) :
            /\ Send("bridge", msg, kept)
            /\ EngineObey(msg, kept)
            /\ FuelObey(msg, kept)
       /\ published' =
            CASE msg.id = "REB_STATUS" -> published
              [] msg.id = "REB_DERATE_CMD" -> [published EXCEPT !.derate = msg.derate]
              [] msg.id = "REB_PREVENT_START" -> [published EXCEPT !.prevent = msg.prevent]

--------------------------------------------------------------------------------
(* The dashboard *)

\* What a button leaves as the last trigger.
TriggerOf(b) ==
  CASE b = "bcm_intrusion" -> "BCM"
    [] b \in {"time_tick", "vehicle_state"} -> last_trigger_source
    [] OTHER -> "other"

Press(b) ==
  /\ "dashboard" \in running
  /\ last_trigger_source' = TriggerOf(b)
  /\ UNCHANGED <<phase, answers, shown, alerts, ecus, published>>
  /\ \E kept \in Deliveries("dashboard", MessageOf(b).id) :
       Send("dashboard", MessageOf(b), kept)

\* Mutant: alerts are switched on by a status and never off.
AlertsForKept(state) ==
  alerts \/ (last_trigger_source = "BCM" /\ state \in {"THEFT_CONFIRMED", "BLOCKING"})

\* update_alerts_from_reb_state: the alarm is for intrusions only.
AlertsFor(state) ==
  last_trigger_source = "BCM" /\ state \in {"THEFT_CONFIRMED", "BLOCKING"}

\* update_ui, for a status
Display ==
  /\ Take("dashboard")
  /\ shown' = Head(inbox["dashboard"]).state
  /\ alerts' = AlertsFor(Head(inbox["dashboard"]).state)
  /\ UNCHANGED <<phase, answers, last_trigger_source, ecus, published>>

--------------------------------------------------------------------------------
(* Starting and stopping *)

StartModule(m) ==
  /\ Start(m)
  /\ starter_locked' = (starter_locked /\ m # "engine")
  /\ power_limited' = (power_limited /\ m # "fuel")
  /\ UNCHANGED <<phase, answers, dashboard, published>>

HubStep == (StartHub \/ RestartHub) /\ UNCHANGED <<phase, answers, dashboard, ecus, published>>

Init ==
  /\ BusInit
  /\ Core!Init
  /\ answers = <<>>
  /\ last_trigger_source = "other" /\ shown = "IDLE" /\ alerts = FALSE
  /\ starter_locked = FALSE /\ power_limited = FALSE
  /\ published = [derate |-> FALSE, prevent |-> FALSE]

Next ==
  \/ HubStep
  \/ \E m \in Modules : StartModule(m)
  \/ Ask \/ Publish
  \/ \E b \in Buttons : Press(b)
  \/ Display

Spec == Init /\ [][Next]_vars

(***************************************************************************)
(* Fairness: the bridge and the dashboard go on with what waits for them,  *)
(* and somebody advances the time as long as the bridge keeps up.          *)
(***************************************************************************)
FairSpec ==
  /\ Spec
  /\ WF_vars(Ask \/ Publish \/ Display)
  /\ WF_vars(Press("time_tick"))

--------------------------------------------------------------------------------
(* Invariants *)

TypeOK ==
  /\ Core!TypeOK
  /\ up \in BOOLEAN /\ alerts \in BOOLEAN
  /\ starter_locked \in BOOLEAN /\ power_limited \in BOOLEAN
  /\ clients \subseteq running /\ running \subseteq Modules
  /\ up \/ clients = {}
  /\ \A m \in Queued :
       /\ Len(inbox[m]) <= QueueCapacity
       /\ \A i \in DOMAIN inbox[m] : inbox[m][i].id \in ReadBy[m]
       /\ inbox[m] # <<>> => m \in running
  /\ Len(answers) <= 3
  /\ faults \in 0 .. MaxFaults

\* Nothing is under way.
Settled == answers = <<>> /\ \A m \in Queued : inbox[m] = <<>>

Heard(m, kind) == <<m, kind>> \notin missed

\* Once nothing is under way, an ECU that got the last frame of its kind holds what
\* the server last answered, however many frames were lost before it.
ListenersAgree ==
  Settled =>
    /\ "engine" \in running /\ Heard("engine", "REB_PREVENT_START") =>
         starter_locked = published.prevent
    /\ "fuel" \in running /\ Heard("fuel", "REB_DERATE_CMD") =>
         power_limited = published.derate

\* The dashboard names the state the core is in, and when the last command got
\* through, too, it sounds the alarm exactly during an event whose last command
\* was an intrusion, although it decides from its own memory of what was pressed
\* when a status arrives.
DashboardShowsCore ==
  Settled /\ Heard("dashboard", "REB_STATUS") =>
    /\ shown = StatusName(phase)
    /\ Heard("bridge", "COMMAND") =>
         alerts = (last_trigger_source = "BCM" /\ phase \in {"warned", "armed", "blocking"})

--------------------------------------------------------------------------------
(* Action property *)

\* The hub does not know m and will not hear from it unasked.
Deaf(m) ==
  /\ m \notin clients
  /\ m = "bridge" => answers = <<>> /\ inbox[m] = <<>>

\* A module that only answers or only listens, and that the hub does not know,
\* because the hub was restarted or came later or the first datagram was lost,
\* stays cut off until it is started again: for the bridge this cuts off the core.
DeafForGood ==
  [][\A m \in Modules \ {"dashboard"} : Deaf(m) /\ ~Deaf(m)' => StartModule(m)]_vars

--------------------------------------------------------------------------------
(* Liveness *)

Connected ==
  up /\ "dashboard" \in running /\ {"bridge", "engine", "fuel"} \subseteq clients \cap running

\* As long as the parts are connected and messages come, the ECUs get to what the
\* core has decided, the lock as well as the release, also after losses and after
\* an ECU was started late or again.
EcuConverges ==
  []<>(Connected /\ phase \in {"idle", "blocked"} =>
         starter_locked = (phase = "blocked") /\ power_limited = (phase = "blocked"))
===============================================================================
