-------------------------------- MODULE CanStack --------------------------------
(***************************************************************************)
(* The path of a message between the simulator and the server's core:      *)
(* the payloads of tcu_module.py, bcm_module.py and dashboard.py, the      *)
(* 16-byte frame of reb_bridge.py and can_socket_transport.c, can_frame.c, *)
(* can_ids.c, can_rx.c and the decoders of can_codec.c; back through the   *)
(* encoders and can_tx.c to engine_ecu.py and fuel_controller.py; and the  *)
(* bookkeeping of can_monitor.c, called by the server loop on the way.     *)
(*                                                                         *)
(* Data bytes are 0 .. BYTE - 1; the decoded messages are the records of   *)
(* RebCanAdapter.                                                          *)
(***************************************************************************)
EXTENDS RebCanAdapter

CONSTANTS
  BYTE,          \* 256; smaller for TLC, whose integers have 32 bits
  Meant,         \* the messages the simulator sends, ticks excepted
  OtherFrames,   \* buffers another TCP client may send
  Answered,      \* pairs of a state and outputs the core may answer with
  TickDeltas,    \* the steps of the dashboard's clock
  START_MS,
  MaxClock       \* bound on the dashboard's clock

ASSUME CanAssumption ==
  /\ BYTE \in Nat /\ BYTE > REB_DERATE_MAX_PERCENT
  /\ TickDeltas \subseteq Nat \ {0}
  /\ MaxClock \in Nat /\ START_MS \in 0 .. MaxClock
  /\ MaxClock < MILLIS_MODULUS /\ MILLIS_MODULUS <= BYTE * BYTE * BYTE * BYTE

VARIABLES
  phase,     \* "serving", "rejected": a frame was refused, "unsendable"
  now_ms,    \* the server's clock
  monitor,   \* can_monitor_t: for each message the time it was last handled
  answered,  \* the outputs the core answered last
  engine,    \* EngineECU.starter_locked
  power,     \* FuelECU.power_factor, in percent
  age        \* history: the time since a message last arrived

vars == <<phase, now_ms, monitor, answered, engine, power, age>>

--------------------------------------------------------------------------------
(* can_ids.c *)

Desc(direction, timeout, mandatory) ==
  [direction |-> direction, timeout_ms |-> timeout, mandatory |-> mandatory]

MsgTable ==
  [ REB_CMD              |-> Desc("RX", 1000, TRUE),
    REB_STATUS           |-> Desc("TX", 300,  FALSE),
    TCU_TO_REB           |-> Desc("RX", 500,  TRUE),
    REB_DERATE_CMD       |-> Desc("TX", 1000, FALSE),
    REB_PREVENT_START    |-> Desc("TX", 1000, FALSE),
    REB_GPS_REQUEST      |-> Desc("TX", 1000, FALSE),
    VEHICLE_STATE        |-> Desc("RX", 300,  TRUE),
    BCM_INTRUSION_STATUS |-> Desc("RX", 300,  FALSE),
    PANEL_AUTH_CMD       |-> Desc("RX", 500,  FALSE),
    PANEL_CANCEL_CMD     |-> Desc("RX", 500,  FALSE),
    PANEL_BLOCK_CMD      |-> Desc("RX", 500,  FALSE) ]

MsgIds    == DOMAIN MsgTable
RxIds     == {id \in MsgIds : MsgTable[id].direction = "RX"}
Mandatory == {id \in RxIds : MsgTable[id].mandatory}

\* The dlc of every message.
DLC == 8

--------------------------------------------------------------------------------
(* Bytes: struct.pack("<H"), to_bytes(4, "little"), can_codec_read_u16_le, ... *)

Zeros(n) == [i \in 1 .. n |-> 0]

U16Bytes(v) == <<v % BYTE, (v \div BYTE) % BYTE>>
U32Bytes(v) == U16Bytes(v) \o U16Bytes(v \div (BYTE * BYTE))

\* Mutant: the two bytes are read in the other order.
U16Swapped(data, i) == BYTE * data[i] + data[i + 1]

U16(data, i) == data[i] + BYTE * data[i + 1]

U32(data, i) == U16(data, i) + BYTE * BYTE * U16(data, i + 2)

TcuCodes   == [ACK |-> 0, NACK |-> 1, RETRY |-> 2, FAIL |-> 3]
LevelCodes == [NONE |-> 0, LOW |-> 1, MEDIUM |-> 2, HIGH |-> 3]
StateCodes == [IDLE |-> 0, THEFT_CONFIRMED |-> 1, BLOCKING |-> 2, BLOCKED |-> 3]
DerateCodes == [OFF |-> 0, GRADUAL_RAMP |-> 1]

Bit(condition) == IF condition THEN 1 ELSE 0

\* The name a byte stands for: a value outside the enumeration equals none.
NameOf(codes, byte) ==
  IF \E name \in DOMAIN codes : codes[name] = byte
  THEN CHOOSE name \in DOMAIN codes : codes[name] = byte
  ELSE "UNKNOWN"

\* The simulator's messages, each of one of these forms and with fields that fit
\* their bytes: struct.pack and to_bytes raise otherwise and nothing is sent.
ASSUME MeantAssumption ==
  LET Byte  == 0 .. BYTE - 1
      Word  == 0 .. BYTE * BYTE - 1
      DWord == 0 .. BYTE * BYTE * BYTE * BYTE - 1
  IN \A m \in Meant :
       /\ m.msg_id \in RxIds
       /\ m.msg_id = "REB_CMD" =>
            /\ m = RebCmd(m.cmd_type, m.cmd_nonce)
            /\ m.cmd_type \in Byte /\ m.cmd_nonce \in Word
       /\ m.msg_id = "TCU_TO_REB" =>
            /\ m = TcuToReb(m.tcu_cmd, m.echo_timestamp)
            /\ m.tcu_cmd \in {"ACK", "NACK", "FAIL"} /\ m.echo_timestamp \in DWord
       /\ m.msg_id = "VEHICLE_STATE" =>
            /\ m = VehicleState(m.vehicle_speed_centi_kmh)
            /\ m.vehicle_speed_centi_kmh \in Word
       /\ m.msg_id = "BCM_INTRUSION_STATUS" =>
            /\ m = BcmIntrusion(m.intrusion_level)
            /\ m.intrusion_level \in DOMAIN LevelCodes
       /\ m.msg_id = "PANEL_AUTH_CMD" =>
            m = PanelAuth(m.request, m.nonce) /\ m.request \in BOOLEAN /\ m.nonce \in Word
       /\ m.msg_id = "PANEL_BLOCK_CMD" =>
            m = PanelBlock(m.request, m.nonce) /\ m.request \in BOOLEAN /\ m.nonce \in Word
       /\ m.msg_id = "PANEL_CANCEL_CMD" =>
            m = PanelCancel(m.request) /\ m.request \in BOOLEAN

\* The core's answers keep their types (RebStateMachine!TypeOK).
ASSUME AnsweredAssumption ==
  \A answer \in Answered :
    /\ answer.outputs.starter_lock \in BOOLEAN
    /\ answer.outputs.derate_percent \in 0 .. REB_DERATE_MAX_PERCENT

--------------------------------------------------------------------------------
(* The senders: the eight data bytes of a message *)

\* tcu_module.py: cmd_mode 2 with a block, a wall-clock time at the end
RemoteCommandPayload(m) ==
  <<m.cmd_type, IF m.cmd_type = 1 THEN 2 ELSE 0>> \o U16Bytes(m.cmd_nonce) \o <<3, 3, 3, 3>>

\* send_tcu_ack and send_time_tick
TcuPayload(m) == <<TcuCodes[m.tcu_cmd], 0>> \o U32Bytes(m.echo_timestamp) \o Zeros(2)

\* send_vehicle_state: ignition, engine and 2000 rpm follow the speed
VehiclePayload(m) ==
  U16Bytes(m.vehicle_speed_centi_kmh) \o <<1, 1>> \o U16Bytes(2000) \o Zeros(2)

\* trigger_intrusion
IntrusionPayload(m) == <<1, 1, 0, LevelCodes[m.intrusion_level]>> \o Zeros(4)

\* send_panel_auth, send_panel_block: by the local button
PanelPayload(m) == <<Bit(m.request), 1>> \o U16Bytes(m.nonce) \o Zeros(4)

\* send_panel_cancel: the reason, and a nonce nothing reads
CancelPayload(m) == <<Bit(m.request), 3>> \o U16Bytes(1) \o Zeros(4)

Payload(m) ==
  CASE m.msg_id = "REB_CMD"              -> RemoteCommandPayload(m)
    [] m.msg_id = "TCU_TO_REB"           -> TcuPayload(m)
    [] m.msg_id = "VEHICLE_STATE"        -> VehiclePayload(m)
    [] m.msg_id = "BCM_INTRUSION_STATUS" -> IntrusionPayload(m)
    [] m.msg_id \in {"PANEL_AUTH_CMD", "PANEL_BLOCK_CMD"} -> PanelPayload(m)
    [] m.msg_id = "PANEL_CANCEL_CMD"     -> CancelPayload(m)

\* _build_tcp_can_frame: version 1, a standard data frame of eight bytes.
\* range tells whether the identifier fits in 11 bits, in 29 bits, or in neither.
BridgeBuffer(m) ==
  [ version |-> 1, id |-> m.msg_id, range |-> 11, id_type |-> "STANDARD",
    frame_type |-> "DATA", dlc |-> DLC, data |-> Payload(m) ]

--------------------------------------------------------------------------------
(* can_socket_transport_deserialize_frame, can_frame.c *)

\* can_frame_validate
FrameValid(buffer) ==
  /\ buffer.id_type \in {"STANDARD", "EXTENDED"}
  /\ buffer.frame_type \in {"DATA", "REMOTE"}
  /\ buffer.range <= (IF buffer.id_type = "STANDARD" THEN 11 ELSE 29)
  /\ buffer.dlc <= 8

Deserializes(buffer) == buffer.version = 1 /\ FrameValid(buffer)

\* The data bytes: none of a remote frame, none beyond the length.
FrameData(buffer) ==
  [i \in 1 .. 8 |->
     IF buffer.frame_type = "DATA" /\ i <= buffer.dlc THEN buffer.data[i] ELSE 0]

--------------------------------------------------------------------------------
(* can_rx_process_frame and the decoders of can_codec.c.  The frame type is    *)
(* not among what is tested; a decoder tests again what can_rx has tested.     *)

RxAccepts(buffer) ==
  /\ Deserializes(buffer)
  /\ buffer.id \in RxIds /\ buffer.id_type = "STANDARD"
  /\ buffer.dlc = DLC

DecodeRebCmd(data)       == RebCmd(data[1], U16(data, 3))
DecodeTcuToReb(data)     == TcuToReb(NameOf(TcuCodes, data[1]), U32(data, 3))
DecodeVehicleState(data) == VehicleState(U16(data, 1))
DecodeIntrusion(data)    == BcmIntrusion(NameOf(LevelCodes, data[4]))
DecodePanelAuth(data)    == PanelAuth(data[1] # 0, U16(data, 3))
DecodePanelCancel(data)  == PanelCancel(data[1] # 0)
DecodePanelBlock(data)   == PanelBlock(data[1] # 0, U16(data, 3))

Decode(buffer) ==
  LET data == FrameData(buffer) IN
  CASE buffer.id = "REB_CMD"              -> DecodeRebCmd(data)
    [] buffer.id = "TCU_TO_REB"           -> DecodeTcuToReb(data)
    [] buffer.id = "VEHICLE_STATE"        -> DecodeVehicleState(data)
    [] buffer.id = "BCM_INTRUSION_STATUS" -> DecodeIntrusion(data)
    [] buffer.id = "PANEL_AUTH_CMD"       -> DecodePanelAuth(data)
    [] buffer.id = "PANEL_CANCEL_CMD"     -> DecodePanelCancel(data)
    [] buffer.id = "PANEL_BLOCK_CMD"      -> DecodePanelBlock(data)

--------------------------------------------------------------------------------
(* can_tx_build_frame and the encoders of can_codec.c *)

\* Mutant: the limit is the policy's, and excluded.
InTxRangeExclusive(tx) ==
  tx.msg_id = "REB_DERATE_CMD" => tx.derate_pct < REB_DERATE_MAX_PERCENT

\* The range checks.  The values of a C enumeration are in range by their names.
InTxRange(tx) == tx.msg_id = "REB_DERATE_CMD" => tx.derate_pct <= 100

EncodeStatus(tx) == <<StateCodes[tx.status_code], Bit(tx.blocked_flag)>> \o Zeros(6)

\* Mutant: the mode is written where the percentage belongs.
EncodeDerateShifted(tx) ==
  <<DerateCodes[tx.derate_mode], tx.derate_pct, Bit(tx.safety_flag)>> \o Zeros(5)

EncodeDerate(tx) ==
  <<tx.derate_pct, DerateCodes[tx.derate_mode], Bit(tx.safety_flag)>> \o Zeros(5)

EncodePreventStart(tx) ==
  <<Bit(tx.prevent_start = "BLOCK"), tx.auth_token_lsb>> \o Zeros(6)

Encode(tx) ==
  CASE tx.msg_id = "REB_STATUS"        -> EncodeStatus(tx)
    [] tx.msg_id = "REB_DERATE_CMD"    -> EncodeDerate(tx)
    [] tx.msg_id = "REB_PREVENT_START" -> EncodePreventStart(tx)

\* can_codec_prepare_tx_frame and can_socket_transport_serialize_frame
TxBuffer(tx) ==
  [ version |-> 1, id |-> tx.msg_id, range |-> 11, id_type |-> "STANDARD",
    frame_type |-> "DATA", dlc |-> DLC, data |-> Encode(tx) ]

\* _parse_tcp_can_frame and SUPPORTED_TX_IDS: what the bridge passes to the bus.
BridgeForwards(buffer) ==
  /\ buffer.version = 1 /\ buffer.id_type = "STANDARD" /\ buffer.frame_type = "DATA"
  /\ buffer.dlc <= 8
  /\ buffer.id \in MsgIds \ RxIds

\* receive_can of engine_ecu.py and of fuel_controller.py
StarterLocked(data) == data[1] = 1
PowerFactor(data)   == 100 - data[1]

--------------------------------------------------------------------------------
(* can_monitor.c: -1 for a message not seen *)

Unseen == -1

\* can_monitor_on_rx, can_monitor_on_tx: each takes its own direction only.
OnRx(entries, id, now) == [entries EXCEPT ![id] = IF id \in RxIds THEN now ELSE @]

\* Mutant: every answer counts as sent.
OnTxAll(entries, ids, now) ==
  [id \in MsgIds |-> IF id \notin RxIds THEN now ELSE entries[id]]

OnTx(entries, ids, now) ==
  [id \in MsgIds |-> IF id \in ids \ RxIds THEN now ELSE entries[id]]

\* Mutant: a message is fresh up to twice its timeout.
MessageStateLate(id) ==
  IF monitor[id] = Unseen THEN "UNSEEN"
  ELSE IF Elapsed(now_ms, monitor[id]) > 2 * MsgTable[id].timeout_ms
       THEN "STALE" ELSE "FRESH"

\* Mutant: a message is stale as soon as its timeout is reached.
MessageStateEarly(id) ==
  IF monitor[id] = Unseen THEN "UNSEEN"
  ELSE IF Elapsed(now_ms, monitor[id]) >= MsgTable[id].timeout_ms
       THEN "STALE" ELSE "FRESH"

\* can_monitor_get_message_state
MessageState(id) ==
  IF monitor[id] = Unseen THEN "UNSEEN"
  ELSE IF Elapsed(now_ms, monitor[id]) > MsgTable[id].timeout_ms
       THEN "STALE" ELSE "FRESH"

\* can_monitor_is_message_healthy
Healthy(id) == id \in Mandatory /\ MessageState(id) = "FRESH"

\* can_monitor_are_all_mandatory_rx_messages_healthy
AllMandatoryHealthy == \A id \in Mandatory : Healthy(id)

--------------------------------------------------------------------------------
(* One round of the server loop *)

Reject ==
  /\ phase' = "rejected"
  /\ UNCHANGED <<now_ms, monitor, answered, engine, power, age>>

\* The messages before the first that cannot be encoded: the loop ends there.
SentOf(tx) == {tx[i] : i \in {k \in DOMAIN tx : \A j \in 1 .. k : InTxRange(tx[j])}}

\* The data of the frames of a kind that an ECU on the bus receives ...
Heard(sent, id) ==
  {FrameData(TxBuffer(tx)) :
     tx \in {t \in sent : t.msg_id = id /\ BridgeForwards(TxBuffer(t))}}

\* ... and what it keeps: the value it reads from one, else the value it had.
Latch(values, kept) == IF values = {} THEN kept ELSE CHOOSE v \in values : TRUE

\* The reception is recorded with the clock as it was before the message; a tick
\* then moves the clock, and the core answers.
Accept(buffer) ==
  LET rx   == Decode(buffer)
      tick == rx.msg_id = "TCU_TO_REB" /\ rx.tcu_cmd = "RETRY"
      next == IF tick THEN rx.echo_timestamp ELSE now_ms
  IN \E answer \in Answered :
       LET tx   == OutputsToTx(answer.context, answer.outputs)
           sent == SentOf(tx)
       IN /\ now_ms' = next
          /\ answered' = answer.outputs
          /\ age' = [id \in RxIds |->
                       IF id = rx.msg_id THEN 0 ELSE age[id] + Elapsed(next, now_ms)]
          /\ monitor' = OnTx(OnRx(monitor, rx.msg_id, now_ms), {m.msg_id : m \in sent}, next)
          /\ engine' = Latch({StarterLocked(data) : data \in Heard(sent, "REB_PREVENT_START")},
                             engine)
          /\ power' = Latch({PowerFactor(data) : data \in Heard(sent, "REB_DERATE_CMD")}, power)
          /\ phase' = IF Cardinality(sent) = Len(tx) THEN phase ELSE "unsendable"

Process(buffer) ==
  /\ phase = "serving"
  /\ IF RxAccepts(buffer) THEN Accept(buffer) ELSE Reject

\* send_time_tick
TickMessage(delta) == TcuToReb("RETRY", now_ms + delta)

\* A message of the simulator, through the bridge.  The dashboard's clock and the
\* server's are together as long as neither is restarted (RebServer separates them).
Simulator == \E m \in Meant : Process(BridgeBuffer(m))

Tick ==
  \E delta \in TickDeltas :
    /\ now_ms + delta <= MaxClock
    /\ Process(BridgeBuffer(TickMessage(delta)))

\* The clock is the dashboard's alone: no other client sends ticks.
ASSUME OtherFramesAssumption ==
  \A buffer \in OtherFrames :
    RxAccepts(buffer) /\ buffer.id = "TCU_TO_REB" => Decode(buffer).tcu_cmd # "RETRY"

\* The server accepts any one TCP client.
OtherClient == \E buffer \in OtherFrames : Process(buffer)

Init ==
  /\ phase = "serving"
  /\ now_ms = START_MS
  /\ monitor = [id \in MsgIds |-> Unseen]
  /\ answered = [starter_lock |-> FALSE, derate_percent |-> 0]
  /\ engine = FALSE
  /\ power = 100
  /\ age = [id \in RxIds |-> 0]

Next == Simulator \/ Tick \/ OtherClient

Spec == Init /\ [][Next]_vars

--------------------------------------------------------------------------------
TypeOK ==
  /\ phase \in {"serving", "rejected", "unsendable"}
  /\ now_ms \in START_MS .. MaxClock
  /\ \A id \in MsgIds : monitor[id] = Unseen \/ monitor[id] \in START_MS .. now_ms
  /\ engine \in BOOLEAN
  /\ power \in 100 - REB_DERATE_MAX_PERCENT .. 100
  /\ monitor["REB_GPS_REQUEST"] = Unseen     \* never sent

\* Whatever the simulator sends next arrives as its sender meant it, through the
\* sender's layout, the bridge's frame, the transport and the decoder, each in a
\* file, and two of them in a language, of its own.
MeaningPreserved ==
  \A m \in Meant \cup {TickMessage(d) : d \in {x \in TickDeltas : now_ms + x <= MaxClock}} :
    RxAccepts(BridgeBuffer(m)) /\ Decode(BridgeBuffer(m)) = m

\* No message of the simulator and no answer of the core ends the server's loop:
\* only another client's frame can be refused, and every answer can be sent.
OnlyStrangersRefused ==
  [][phase' # "serving" /\ phase = "serving" =>
       \E buffer \in OtherFrames : ~RxAccepts(buffer) /\ phase' = "rejected"]_vars

\* The ECUs end up doing what the core's outputs say, for every output.
EcusObey ==
  phase = "serving" =>
    /\ engine = answered.starter_lock
    /\ power = 100 - answered.derate_percent

\* What the monitor calls fresh did arrive within its timeout, so that a set of
\* healthy mandatory messages means a recent speed and a recent clock.
FreshIsRecent ==
  /\ \A id \in RxIds : MessageState(id) = "FRESH" => age[id] <= MsgTable[id].timeout_ms
  /\ AllMandatoryHealthy => \A id \in Mandatory : age[id] <= MsgTable[id].timeout_ms

\* And what arrived within its timeout is fresh, unless it is the message that
\* moves the clock: a tick is recorded with the time before it.
RecentIsFresh ==
  \A id \in RxIds \ {"TCU_TO_REB"} :
    monitor[id] # Unseen /\ age[id] <= MsgTable[id].timeout_ms => MessageState(id) = "FRESH"
===============================================================================
