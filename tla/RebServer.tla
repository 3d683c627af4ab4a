------------------------------- MODULE RebServer -------------------------------
(***************************************************************************)
(* reb_server_loop.c with reb_core.c and reb_persistence.c: one thread     *)
(* that receives a message, steps the core, saves the context and answers  *)
(* with three frames, and the ways it can stop and be started again.       *)
(*                                                                         *)
(* pc is where the loop is:                                                *)
(*   "down"     the process is not running, its memory is gone             *)
(*   "receive"  blocked in can_socket_transport_receive_frame              *)
(*   "overrun"  the core has stored a nonce outside the ring buffer        *)
(*   "open"     the core has stepped, the state file is about to be opened *)
(*   "write"    the file is open and empty (fopen "wb" truncates)          *)
(*   "send"     the frames in tx remain to be sent                         *)
(* A message is handled up to "open" in one action: nothing of it is       *)
(* visible outside the process before the file is touched.                 *)
(***************************************************************************)
EXTENDS RebCanAdapter

CONSTANTS
  Messages,             \* the messages other than time ticks that may arrive
  TickDeltas,           \* the steps the dashboard advances its clock by
  START_MS,             \* 1000: now_ms of a new server, sim_time_ms of a new dashboard
  UninitializedRecords, \* contexts that reading a short state file can yield
  Faults                \* what may go wrong, a subset of AllFaults

\* "stop":  the client disconnects, a frame is rejected or a send fails
\* "power": the process dies between any two of its steps ...
\* "torn":  ... including between the truncation and the write of the file
\* "disk":  opening or writing the file fails
\* "fresh": the server is started with --fresh-start
\* "loss":  a time tick does not reach the server
\* "clock": the dashboard is restarted, its clock with it
AllFaults == {"stop", "power", "torn", "disk", "fresh", "loss", "clock"}

ASSUME ServerAssumption ==
  /\ Faults \subseteq AllFaults
  /\ TickDeltas \subseteq Nat \ {0}
  /\ START_MS \in Millis \ {0}

VARIABLES
  context, outputs, spent, accepted,   \* as in RebStateMachine
  pc,
  inputs,      \* RebInputs, latched from one message to the next
  now_ms,      \* the server's clock: the time of the last tick it received
  nvm,         \* the state file
  tx,          \* the frames still to be sent
  bus,         \* the last frame of each kind the rest of the vehicle has seen
  sim_ms,      \* the dashboard's clock
  \* history variables
  waited,      \* the time since the theft event, at most the confirmation window
  moving,      \* the last speed reported to the running process was 1 km/h or more
  announced,   \* last_valid_nonce when the last PREVENT_START was sent
  unbacked     \* the file does not, or not any more, back the last PREVENT_START

core == <<context, outputs, spent, accepted>>
history == <<waited, moving, announced, unbacked>>
vars == <<core, pc, inputs, now_ms, nvm, tx, bus, sim_ms, history>>

Core == INSTANCE RebStateMachine WITH Inputs <- RebInputs

--------------------------------------------------------------------------------
(* reb_persistence.c.  The additive checksum is abstracted: it accepts every   *)
(* complete record, and of what an incomplete file leaves in the uninitialised *)
(* buffer of reb_persistence_load it accepts some outcomes and not others.     *)

Absent == [kind |-> "absent", context |-> Core!InitContext, spent |-> {}]
Torn   == [kind |-> "torn",   context |-> Core!InitContext, spent |-> {}]
Record(ctx, ledger) == [kind |-> "record", context |-> ctx, spent |-> ledger]

\* Mutant: the anti-replay window is not restored.
LoadedWithoutNonce(ctx, ledger) ==
  [context |-> [ctx EXCEPT !.persisted_state_valid = TRUE, !.last_valid_nonce = 0],
   spent |-> ledger]

Loaded(ctx, ledger) ==
  [context |-> [ctx EXCEPT !.persisted_state_valid = TRUE], spent |-> ledger]

NotLoaded == [context |-> Core!InitContext, spent |-> {}]

\* Mutant: what was read is thrown away.
LoadRejected == {NotLoaded}

\* reb_persistence_load and reb_core_init, which falls back on an IDLE context.
LoadOutcomes ==
  CASE nvm.kind = "absent" -> {NotLoaded}
    [] nvm.kind = "record" -> {Loaded(nvm.context, nvm.spent)}
    [] nvm.kind = "torn"   ->
         {NotLoaded} \cup {Loaded(ctx, {}) : ctx \in UninitializedRecords}

--------------------------------------------------------------------------------
(* The loop *)

\* memset(&inputs, 0, ...)
ZeroInputs ==
  [ intrusion_detected |-> FALSE, tcu_ack_received |-> FALSE,
    vehicle_speed_kmh |-> 0, remote_command |-> "NONE",
    timestamp_ms |-> 0, nonce |-> 0 ]

\* Mutant: the speed is cleared with the rest.
ClearTransientAll(in) == ZeroInputs

\* clear_transient_inputs: the speed stays latched.
ClearTransient(in) ==
  [in EXCEPT !.remote_command = "NONE", !.tcu_ack_received = FALSE,
             !.intrusion_detected = FALSE, !.nonce = 0]

IsTimeTick(rx) == rx.msg_id = "TCU_TO_REB" /\ rx.tcu_cmd = "RETRY"

\* The codec hands over fields in the range of their types, time ticks come from
\* Tick alone, and Speeds holds all that can be reported and the memset's zero.
ASSUME MessagesAssumption ==
  /\ 0 \in Speeds
  /\ \A rx \in Messages :
       /\ ~IsTimeTick(rx)
       /\ rx.msg_id = "REB_CMD" => rx.cmd_nonce \in Nonces
       /\ rx.msg_id \in {"PANEL_AUTH_CMD", "PANEL_BLOCK_CMD"} => rx.nonce \in Nonces
       /\ rx.msg_id = "VEHICLE_STATE" =>
            rx.vehicle_speed_centi_kmh \in Nat /\ ReportedSpeed(rx) \in Speeds

\* Mutant: the step takes no notice of a state it does not know.
StepInvalidStateKept ==
  /\ context.current_state \notin RebState
  /\ outputs' = Core!Silent
  /\ accepted' = 0
  /\ UNCHANGED <<context, spent>>

\* default: of the switch in reb_state_machine_step
StepInvalidState ==
  /\ context.current_state \notin RebState
  /\ context' = Core!InitContext
  /\ outputs' = Core!Silent
  /\ spent' = {}
  /\ accepted' = 0

\* From the received message to the end of reb_state_machine_step.
Handle(rx) ==
  LET now == IF IsTimeTick(rx) THEN rx.echo_timestamp ELSE now_ms
      in  == IF IsTimeTick(rx) THEN [inputs EXCEPT !.timestamp_ms = now]
                               ELSE RxToInputs(rx, inputs, now)
  IN /\ pc = "receive"
     /\ Core!Step(in) \/ StepInvalidState
     /\ inputs' = in
     /\ now_ms' = now
     /\ pc' = IF accepted' # 0 /\ context.nonce_history_index \notin HistorySlots
              THEN "overrun" ELSE "open"
     /\ moving' = IF rx.msg_id = "VEHICLE_STATE"
                  THEN rx.vehicle_speed_centi_kmh >= 100 ELSE moving
     /\ UNCHANGED <<nvm, tx, bus, announced, unbacked>>

InTheft == context.current_state = "THEFT_CONFIRMED"

Receive ==
  /\ \E rx \in Messages : Handle(rx)
  /\ waited' = IF InTheft THEN waited ELSE 0
  /\ UNCHANGED sim_ms

\* The end of reb_core_execute, whatever became of the save.
AfterExecute ==
  /\ inputs' = ClearTransient(inputs)
  /\ tx' = OutputsToTx(context, outputs)
  /\ pc' = "send"
  /\ UNCHANGED <<core, now_ms, bus, sim_ms, waited, moving, announced>>

\* The file holds what the last step left behind.
Saved == nvm = Record(context, spent)

\* Mutant: the answer is given without a save.
SaveSkipped == pc = "open" /\ AfterExecute /\ UNCHANGED <<nvm, unbacked>>

\* fopen(..., "wb")
SaveOpen ==
  /\ pc = "open"
  /\ nvm' = Torn
  /\ pc' = "write"
  /\ UNCHANGED <<core, inputs, now_ms, tx, bus, sim_ms, history>>

\* reb_persistence_save returns false and reb_core_execute ignores it.
SaveOpenFails ==
  /\ "disk" \in Faults
  /\ pc = "open"
  /\ AfterExecute
  /\ unbacked' = (unbacked \/ ~Saved)
  /\ UNCHANGED nvm

\* The step that lifts the lock still commands it: see BlockedUnlock.
Releasing == outputs.starter_lock /\ context.current_state # "BLOCKED"

\* fwrite and fclose
SaveWrite ==
  /\ pc = "write"
  /\ nvm' = Record(context, spent)
  /\ unbacked' = (unbacked \/ Releasing)
  /\ AfterExecute

\* The result of fwrite is ignored too: the save reports success.
SaveWriteFails ==
  /\ "disk" \in Faults
  /\ pc = "write"
  /\ AfterExecute
  /\ unbacked' = TRUE
  /\ UNCHANGED nvm

\* can_tx_build_frame and can_socket_transport_send_frame, one frame at a time
Send ==
  LET starter == Head(tx).msg_id = "REB_PREVENT_START"
  IN /\ pc = "send"
     /\ bus' = [bus EXCEPT ![Head(tx).msg_id] = Head(tx)]
     /\ tx' = Tail(tx)
     /\ pc' = IF Len(tx) = 1 THEN "receive" ELSE "send"
     /\ announced' = IF starter THEN context.last_valid_nonce ELSE announced
     /\ unbacked' = (unbacked /\ (starter => Releasing \/ ~Saved))
     /\ UNCHANGED <<core, inputs, now_ms, nvm, sim_ms, waited, moving>>

--------------------------------------------------------------------------------
(* Stopping and starting *)

\* The process ends: memory is lost, the file and what the bus has seen stay.
\* Between truncation and write the file is lost with it.
Halt ==
  /\ pc' = "down"
  /\ context' = Core!InitContext
  /\ outputs' = Core!Silent
  /\ spent' = {}
  /\ accepted' = 0
  /\ inputs' = ZeroInputs
  /\ now_ms' = START_MS
  /\ tx' = <<>>
  /\ moving' = FALSE
  /\ unbacked' = (unbacked \/ pc = "write")
  /\ UNCHANGED <<nvm, bus, sim_ms, waited, announced>>

\* A break out of the loop: the client has gone or its frame was not accepted.
LeaveLoop == "stop" \in Faults /\ pc = "receive" /\ Halt

SendFails == "stop" \in Faults /\ pc = "send" /\ Halt

PowerLoss ==
  /\ "power" \in Faults
  /\ \/ pc \in {"receive", "overrun", "open", "send"}
     \/ pc = "write" /\ "torn" \in Faults
  /\ Halt

\* The start of main, with the context and the ledger it begins with.
Start(ctx, ledger) ==
  /\ pc = "down"
  /\ pc' = "receive"
  /\ context' = ctx
  /\ spent' = ledger
  /\ UNCHANGED <<outputs, accepted, inputs, now_ms, nvm, tx, bus, sim_ms,
                 waited, moving, announced>>

StartPersistent ==
  /\ \E load \in LoadOutcomes : Start(load.context, load.spent)
  /\ UNCHANGED unbacked

\* --fresh-start ignores the state file and does not remove it.
StartFresh ==
  /\ "fresh" \in Faults
  /\ Start(Core!InitContext, {})
  /\ unbacked' = TRUE

(***************************************************************************)
(* reb_security_store_nonce with a write index that a short state file has *)
(* left beyond the ring: undefined.  context is a local variable of main,  *)
(* so the stored word may end the process, or hit the fields behind the    *)
(* ring (unless a release resets them at once) or other locals of main.    *)
(* Of those matter the outputs the frames are built from, the speed, which *)
(* stays latched, and the clock; every other one is rewritten before it is *)
(* read, or is a socket whose loss ends the process.                       *)
(***************************************************************************)
OverrunContext ==
  /\ spent # {}
  /\ \E index \in HistorySlots, attempts \in UInt8, valid \in BOOLEAN :
       context' = [context EXCEPT !.nonce_history_index = index,
                                  !.invalid_unlock_attempts = attempts,
                                  !.persisted_state_valid = valid]
  /\ UNCHANGED <<outputs, inputs, now_ms, unbacked>>

OverrunOutputs ==
  /\ \E lock \in BOOLEAN, percent \in UInt8 :
       outputs' = [outputs EXCEPT !.starter_lock = lock, !.derate_percent = percent]
  /\ unbacked' = TRUE
  /\ UNCHANGED <<context, inputs, now_ms>>

OverrunInputs ==
  /\ \E speed \in Speeds : inputs' = [inputs EXCEPT !.vehicle_speed_kmh = speed]
  /\ UNCHANGED <<context, outputs, now_ms, unbacked>>

OverrunClock ==
  /\ now_ms' \in Millis
  /\ UNCHANGED <<context, outputs, inputs, unbacked>>

OverrunStops == pc = "overrun" /\ Halt

Overrun ==
  /\ pc = "overrun"
  /\ OverrunContext \/ OverrunOutputs \/ OverrunInputs \/ OverrunClock
  /\ pc' = "open"
  /\ UNCHANGED <<spent, accepted, nvm, tx, bus, sim_ms, waited, moving, announced>>

--------------------------------------------------------------------------------
(* The dashboard's clock: send_time_tick.  Its four bytes on the wire end the  *)
(* simulated time before it wraps.                                             *)

Advance(delta) ==
  /\ sim_ms + delta < MILLIS_MODULUS
  /\ sim_ms' = sim_ms + delta
  /\ waited' = IF InTheft
               THEN IF waited + delta < REB_THEFT_CONFIRM_WINDOW_MS
                    THEN waited + delta ELSE REB_THEFT_CONFIRM_WINDOW_MS
               ELSE waited

Tick == \E delta \in TickDeltas : Advance(delta) /\ Handle(TcuToReb("RETRY", sim_ms'))

TickLost ==
  /\ "loss" \in Faults
  /\ \E delta \in TickDeltas : Advance(delta)
  /\ UNCHANGED <<core, pc, inputs, now_ms, nvm, tx, bus, moving, announced, unbacked>>

DashboardRestart ==
  /\ "clock" \in Faults
  /\ sim_ms' = START_MS
  /\ UNCHANGED <<core, pc, inputs, now_ms, nvm, tx, bus, history>>

--------------------------------------------------------------------------------
Init ==
  /\ context = Core!InitContext
  /\ outputs = Core!Silent
  /\ spent = {}
  /\ accepted = 0
  /\ pc = "down"
  /\ inputs = ZeroInputs
  /\ now_ms = START_MS
  /\ nvm = Absent
  /\ tx = <<>>
  /\ bus = [id \in TxIds |->
              CASE id = "REB_STATUS"     -> StatusFrame(Core!InitContext, Core!Silent)
                [] id = "REB_DERATE_CMD" -> DerateFrame(Core!Silent)
                [] OTHER -> PreventStartFrame(Core!InitContext, Core!Silent)]
  /\ sim_ms = START_MS
  /\ waited = 0
  /\ moving = FALSE
  /\ announced = 0
  /\ unbacked = FALSE

Next ==
  \/ Receive \/ Tick
  \/ Overrun \/ OverrunStops
  \/ SaveOpen \/ SaveOpenFails \/ SaveWrite \/ SaveWriteFails
  \/ Send
  \/ LeaveLoop \/ SendFails \/ PowerLoss
  \/ StartPersistent \/ StartFresh
  \/ TickLost \/ DashboardRestart

Spec == Init /\ [][Next]_vars

(***************************************************************************)
(* Fairness: the process keeps running between two messages, the dashboard *)
(* keeps advancing its clock, and the vehicle, once it is being derated,   *)
(* keeps reporting that it stands still.                                   *)
(***************************************************************************)
ReportStationary == Handle(VehicleState(0)) /\ UNCHANGED <<sim_ms, waited>>

FairSpec ==
  /\ Spec
  /\ WF_vars(StartPersistent)
  /\ WF_vars(Overrun \/ OverrunStops)
  /\ WF_vars(SaveOpen \/ SaveOpenFails)
  /\ WF_vars(SaveWrite \/ SaveWriteFails)
  /\ WF_vars(Send)
  /\ SF_vars(Tick)
  /\ SF_vars(ReportStationary)

--------------------------------------------------------------------------------
(* Invariants *)

\* A record that was never written may hold a state the enumeration lacks.
MemoryStates == RebState \cup {ctx.current_state : ctx \in UninitializedRecords}

\* All that is assumed of uninitialised memory: a field has the width of its type.
ASSUME RecordsAssumption == UninitializedRecords \subseteq ContextsIn(MemoryStates)

\* The outputs a step computes, or a stray byte as the percentage.
MemoryOutputs ==
  [ visual_alert       : BOOLEAN,
    acoustic_alert     : BOOLEAN,
    starter_lock       : BOOLEAN,
    derate_percent     : UInt8 \cup 0 .. REB_DERATE_MAX_PERCENT,
    send_status_to_tcu : BOOLEAN ]

\* Beyond the types: whatever was read back, every step leaves a state of the
\* enumeration behind, and nothing else is ever saved.
TypeOK ==
  /\ context \in ContextsIn(MemoryStates)
  /\ pc \notin {"down", "receive"} => context.current_state \in RebState
  /\ outputs \in MemoryOutputs
  /\ spent \subseteq Nonces
  /\ accepted \in Nonces
  /\ pc \in {"down", "receive", "overrun", "open", "write", "send"}
  /\ inputs \in RebInputs
  /\ {now_ms, sim_ms, waited} \subseteq Millis
  /\ nvm.kind \in {"absent", "torn", "record"}
  /\ nvm.context \in RebContext
  /\ nvm.spent \subseteq Nonces
  /\ DOMAIN bus = TxIds /\ \A id \in TxIds : bus[id].msg_id = id
  /\ (tx # <<>>) = (pc = "send")
  /\ \A i \in DOMAIN tx : tx[i].msg_id \in TxIds
  /\ announced \in Nonces
  /\ {moving, unbacked} \subseteq BOOLEAN

\* Whatever the process went through, a nonce in the ledger of the context it
\* runs with is rejected: a restart reloads the window with the context.
SpentNoncesRejected == \A n \in spent : n <= context.last_valid_nonce

LockOnBus == bus["REB_PREVENT_START"].prevent_start = "BLOCK"

\* NFR-REL-001: once the starter ECU has been told to lock, no stop, crash or
\* restart brings the core back in another state than BLOCKED, as long as the file
\* backs what was said: no unlock and no fresh start since, and no save lost.
LockSurvivesRestart ==
  pc = "receive" /\ LockOnBus /\ ~unbacked => context.current_state = "BLOCKED"

\* Nor is a nonce accepted again once the window it moved has been announced: the
\* anti-replay window is saved before the answer too.
AnnouncedNonceStaysSpent ==
  pc = "receive" /\ ~unbacked => announced <= context.last_valid_nonce

\* A confirmed theft does not outlive its window: when the server waits for the
\* next message in THEFT_CONFIRMED, the window is still open.
WindowNotOverstayed ==
  pc = "receive" /\ InTheft => waited < REB_THEFT_CONFIRM_WINDOW_MS

--------------------------------------------------------------------------------
(* Action properties *)

\* FR-008: an automatic event becomes BLOCKING after the whole window only,
\* whatever messages arrive meanwhile.
WindowHonoured ==
  [][InTheft /\ context.automatic_trigger_active
       /\ context'.current_state = "BLOCKING" =>
     waited' = REB_THEFT_CONFIRM_WINDOW_MS]_vars

\* The starter is not locked on the move: BLOCKING turns into BLOCKED only while
\* the latest report is of less than 1 km/h, whatever came between the two.  The
\* speed is latched, and divided down to whole km/h before it is compared.
NoLockOnTheMove ==
  [][context.current_state = "BLOCKING" /\ context'.current_state = "BLOCKED" =>
       ~moving']_vars

(***************************************************************************)
(* The promise of Immobilizer, kept across stops, crashes and restarts:    *)
(* its state is the one the file holds, or is about to hold.               *)
(***************************************************************************)
Durable == IF pc = "write" THEN Record(context, spent) ELSE nvm

DurablePromise == INSTANCE Immobilizer WITH
  Nonce <- Nonces, phase <- Core!PhaseOf(Durable.context), spent <- Durable.spent

\* Every opening of the state file commits one step of Immobilizer or none, and
\* no crash or restart takes a committed step back or commits another.
ImplementsImmobilizer == DurablePromise!Spec

--------------------------------------------------------------------------------
(* Liveness *)

TimeLeft == MILLIS_MODULUS - 1 - sim_ms >= REB_THEFT_CONFIRM_WINDOW_MS

\* A confirmed theft ends, called off or blocking, while there is time left.
TheftResolves == InTheft /\ TimeLeft ~> ~InTheft

\* A vehicle being blocked that keeps reporting standstill gets its starter
\* locked: the frame that says so reaches the bus.
BlockingReachesBus == context.current_state = "BLOCKING" ~> LockOnBus

\* An unlock that was accepted reaches the starter ECU, although the answer to
\* the unlock itself still tells it to lock.
ReleaseReachesBus == Releasing ~> ~LockOnBus

--------------------------------------------------------------------------------
(* What documents of the repository say and the code does not do *)

\* NFR-SAF-001 and the rules of REB_PREVENT_START: the starter is cut at a
\* reported speed of 0 only.
StarterCutAtStandstill ==
  [][~LockOnBus /\ LockOnBus' => inputs.vehicle_speed_kmh = 0]_vars

\* NFR-REL-001 again: power is cut while the lock is in force and the core in
\* BLOCKED, and the file tells the next start so.
LockOutlivesPowerLoss ==
  [][PowerLoss /\ LockOnBus /\ context.current_state = "BLOCKED" =>
       nvm.context.current_state = "BLOCKED"]_vars

\* reb_types.h:97 and FR-012: a cancel aborts the blocking sequence too, as long as
\* neither the engine nor the starter has been told anything.
LateCancelObeyed ==
  [][/\ pc = "receive" /\ pc' = "open"
     /\ context.current_state = "BLOCKING" /\ inputs'.remote_command = "CANCEL"
     /\ bus["REB_DERATE_CMD"].derate_pct = 0 /\ ~LockOnBus
     => context'.current_state = "IDLE"]_vars
===============================================================================
