----------------------------- MODULE RebCanAdapter -----------------------------
(***************************************************************************)
(* reb_can_adapter.c: what a received message does to the core's inputs,   *)
(* and the three frames every step answers with.  Messages are the decoded *)
(* structures of can_codec; the fields nothing reads (mode, timestamps,    *)
(* method, reason, rpm, ignition) are left out.                            *)
(***************************************************************************)
EXTENDS RebTypes, Sequences

(***************************************************************************)
(* Messages the server accepts.  cmd_type is the byte on the wire.         *)
(***************************************************************************)
RebCmd(type, nonce)    == [msg_id |-> "REB_CMD", cmd_type |-> type, cmd_nonce |-> nonce]
TcuToReb(cmd, ms)      == [msg_id |-> "TCU_TO_REB", tcu_cmd |-> cmd, echo_timestamp |-> ms]
VehicleState(centiKmh) == [msg_id |-> "VEHICLE_STATE", vehicle_speed_centi_kmh |-> centiKmh]
BcmIntrusion(level)    == [msg_id |-> "BCM_INTRUSION_STATUS", intrusion_level |-> level]
PanelAuth(req, nonce)  == [msg_id |-> "PANEL_AUTH_CMD", request |-> req, nonce |-> nonce]
PanelBlock(req, nonce) == [msg_id |-> "PANEL_BLOCK_CMD", request |-> req, nonce |-> nonce]
PanelCancel(req)       == [msg_id |-> "PANEL_CANCEL_CMD", request |-> req]

\* (RebRemoteCommand) cmd_type: the wire's UNBLOCK is the core's UNLOCK, and the
\* wire's 3, STATUS_REQUEST, is the core's CANCEL.
CommandOf(cmd_type) ==
  CASE cmd_type = 0 -> "NONE"
    [] cmd_type = 1 -> "BLOCK"
    [] cmd_type = 2 -> "UNLOCK"
    [] cmd_type = 3 -> "CANCEL"
    [] OTHER        -> "UNKNOWN"

\* The uint16_t of the wire divided as integers: whole km/h only.
ReportedSpeed(rx) == 100 * (rx.vehicle_speed_centi_kmh \div 100)

\* reb_can_adapter_rx_to_inputs.  A panel message whose request flag is 0 and a
\* message without effect change nothing but the timestamp.
RxToInputs(rx, inputs, now) ==
  LET in == [inputs EXCEPT !.timestamp_ms = now] IN
  CASE rx.msg_id = "REB_CMD" ->
         [in EXCEPT !.remote_command = CommandOf(rx.cmd_type),
                    !.nonce = rx.cmd_nonce,
                    !.tcu_ack_received = @ \/ rx.cmd_type = 2]
    [] rx.msg_id = "TCU_TO_REB" ->
         [in EXCEPT !.tcu_ack_received = (rx.tcu_cmd = "ACK")]
    [] rx.msg_id = "VEHICLE_STATE" ->
         [in EXCEPT !.vehicle_speed_kmh = ReportedSpeed(rx)]
    [] rx.msg_id = "BCM_INTRUSION_STATUS" ->
         [in EXCEPT !.intrusion_detected = (rx.intrusion_level # "NONE")]
    [] rx.msg_id = "PANEL_AUTH_CMD" /\ rx.request ->
         [in EXCEPT !.remote_command = "UNLOCK", !.nonce = rx.nonce,
                    !.tcu_ack_received = TRUE]
    [] rx.msg_id = "PANEL_CANCEL_CMD" /\ rx.request ->
         [in EXCEPT !.remote_command = "CANCEL"]
    [] rx.msg_id = "PANEL_BLOCK_CMD" /\ rx.request ->
         [in EXCEPT !.remote_command = "BLOCK", !.nonce = rx.nonce,
                    !.tcu_ack_received = TRUE]
    [] OTHER -> in

--------------------------------------------------------------------------------
TxIds == {"REB_STATUS", "REB_DERATE_CMD", "REB_PREVENT_START"}

\* A state outside the enumeration is reported as IDLE.
StatusCode(ctx) ==
  IF ctx.current_state \in RebState THEN ctx.current_state ELSE "IDLE"

StatusFrame(ctx, out) ==
  [ msg_id |-> "REB_STATUS",
    status_code |-> StatusCode(ctx), blocked_flag |-> out.starter_lock ]

DerateFrame(out) ==
  [ msg_id |-> "REB_DERATE_CMD",
    derate_pct  |-> out.derate_percent,
    derate_mode |-> IF out.derate_percent > 0 THEN "GRADUAL_RAMP" ELSE "OFF",
    safety_flag |-> out.derate_percent > 0 ]

PreventStartFrame(ctx, out) ==
  [ msg_id |-> "REB_PREVENT_START",
    prevent_start  |-> IF out.starter_lock THEN "BLOCK" ELSE "ALLOW",
    auth_token_lsb |-> ctx.last_valid_nonce % 256 ]

\* Mutant: the count is one short and the last frame is never sent.
OutputsToTxShort(ctx, out) == <<StatusFrame(ctx, out), DerateFrame(out)>>

\* Mutant: PREVENT_START is sent to lock only.
OutputsToTxOnLock(ctx, out) ==
  <<StatusFrame(ctx, out), DerateFrame(out)>>
    \o (IF out.starter_lock THEN <<PreventStartFrame(ctx, out)>> ELSE <<>>)

\* reb_can_adapter_outputs_to_tx: status from the context the step left behind,
\* actuation from the outputs it computed.  send_status_to_tcu is not looked at.
OutputsToTx(ctx, out) ==
  <<StatusFrame(ctx, out), DerateFrame(out), PreventStartFrame(ctx, out)>>
===============================================================================
