------------------------------- MODULE RebTypes -------------------------------
(***************************************************************************)
(* The data of the REB core (src/src/reb_core/reb_types.h) and its         *)
(* calibration (src/src/reb_core/reb_config.h).  Speeds are counted in     *)
(* 1/100 km/h, the unit of the VEHICLE_STATE frame, so that the float      *)
(* thresholds 0.5f and 5.0f of the code are the integers 50 and 500.       *)
(***************************************************************************)
EXTENDS Integers, FiniteSets

CONSTANTS
  MILLIS_MODULUS,      \* 2^32: timestamps are uint32_t and wrap
  NONCE_MODULUS,       \* 2^32: nonces are uint32_t inside the core
  UINT8_MODULUS,       \* 2^8:  the ring's write index and the attempt counter
  REB_THEFT_CONFIRM_WINDOW_MS,
  REB_BLOCKED_RETRANSMIT_MS,
  REB_NONCE_WINDOW_SIZE,
  REB_NONCE_HISTORY_SIZE,
  Speeds               \* the vehicle speeds the core can be shown

ASSUME ModuliAssumption ==
  /\ MILLIS_MODULUS \in Nat \ {0}
  /\ NONCE_MODULUS \in Nat \ {0}
  /\ UINT8_MODULUS \in Nat \ {0}

ASSUME CalibrationAssumption ==
  /\ REB_THEFT_CONFIRM_WINDOW_MS \in 1 .. MILLIS_MODULUS - 1
  /\ REB_BLOCKED_RETRANSMIT_MS \in 1 .. MILLIS_MODULUS - 1
  /\ REB_NONCE_WINDOW_SIZE \in Nat \ {0}
  /\ REB_NONCE_HISTORY_SIZE \in 1 .. UINT8_MODULUS

ASSUME SpeedsAssumption == Speeds \subseteq Nat

(***************************************************************************)
(* Thresholds the code compares speeds with, and the derating it commands. *)
(***************************************************************************)
REB_MAX_ALLOWED_SPEED_FOR_LOCK == 50     \* 0.5 km/h
REB_SAFE_MOVING_SPEED_KMH      == 500    \* 5.0 km/h
REB_DERATE_STEP_PERCENT        == 10
REB_DERATE_MAX_PERCENT         == 90
REB_DERATE_MIN_PERCENT         == 20

Millis       == 0 .. MILLIS_MODULUS - 1
Nonces       == 0 .. NONCE_MODULUS - 1
UInt8        == 0 .. UINT8_MODULUS - 1
HistorySlots == 0 .. REB_NONCE_HISTORY_SIZE - 1

RebState         == {"IDLE", "THEFT_CONFIRMED", "BLOCKING", "BLOCKED"}

\* "UNKNOWN" stands for the bytes 4 .. 255, which the cast from the wire lets in.
RebRemoteCommand == {"NONE", "BLOCK", "UNLOCK", "CANCEL", "UNKNOWN"}

(***************************************************************************)
(* Only the inputs reb_state_machine_step reads: it never looks at         *)
(* ignition_on, engine_running, battery_voltage or engine_rpm.             *)
(***************************************************************************)
RebInputs ==
  [ intrusion_detected : BOOLEAN,
    tcu_ack_received   : BOOLEAN,
    vehicle_speed_kmh  : Speeds,
    remote_command     : RebRemoteCommand,
    timestamp_ms       : Millis,
    nonce              : Nonces ]

RebOutputs ==
  [ visual_alert       : BOOLEAN,
    acoustic_alert     : BOOLEAN,
    starter_lock       : BOOLEAN,
    derate_percent     : 0 .. REB_DERATE_MAX_PERCENT,
    send_status_to_tcu : BOOLEAN ]

(***************************************************************************)
(* A context whose state field ranges over states: the enumeration for a   *)
(* running core, more for a record read from uninitialised memory.  The    *)
(* write index is a uint8_t; that it stays inside the ring is no matter of *)
(* its type.                                                               *)
(***************************************************************************)
ContextsIn(states) ==
  [ current_state                : states,
    automatic_trigger_active     : BOOLEAN,
    theft_confirmed_timestamp_ms : Millis,
    vehicle_stopped_timestamp_ms : Millis,
    last_blocked_retx_timestamp_ms : Millis,
    last_valid_nonce             : Nonces,
    nonce_history                : [HistorySlots -> Nonces],
    nonce_history_index          : UInt8,
    invalid_unlock_attempts      : UInt8,
    persisted_state_valid        : BOOLEAN ]

RebContext == ContextsIn(RebState)

\* Unsigned 32-bit subtraction: the time that has passed since a timestamp.
Elapsed(now, since) == (now - since) % MILLIS_MODULUS
===============================================================================
