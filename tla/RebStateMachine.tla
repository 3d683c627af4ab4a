---------------------------- MODULE RebStateMachine ----------------------------
(***************************************************************************)
(* reb_state_machine.c: one call of reb_state_machine_step is one step of  *)
(* Next.  Each path through the switch is an action of its own; the        *)
(* guards of the actions of one state exclude each other, as the code's    *)
(* if/else and break do.                                                   *)
(*                                                                         *)
(* spent and accepted are history variables: the code has no counterpart   *)
(* for them and no guard reads them.                                       *)
(***************************************************************************)
EXTENDS RebSecurity

CONSTANT
  Inputs      \* the input records the caller passes, a subset of RebInputs

ASSUME InputsAssumption == Inputs \subseteq RebInputs

VARIABLES
  context,    \* RebContext: the only state the code keeps between two steps
  outputs,    \* RebOutputs: rewritten from scratch by every step
  spent,      \* the nonces accepted since the context was last initialised
  accepted    \* the nonce the last step accepted, 0 if it accepted none

vars == <<context, outputs, spent, accepted>>

--------------------------------------------------------------------------------
\* reb_state_machine_init: memset to zero, IDLE
InitContext ==
  [ current_state                |-> "IDLE",
    automatic_trigger_active     |-> FALSE,
    theft_confirmed_timestamp_ms |-> 0,
    vehicle_stopped_timestamp_ms |-> 0,
    last_blocked_retx_timestamp_ms |-> 0,
    last_valid_nonce             |-> 0,
    nonce_history                |-> [i \in HistorySlots |-> 0],
    nonce_history_index          |-> 0,
    invalid_unlock_attempts      |-> 0,
    persisted_state_valid        |-> FALSE ]

\* The outputs after the memset that opens every step ...
Silent ==
  [ visual_alert |-> FALSE, acoustic_alert |-> FALSE, starter_lock |-> FALSE,
    derate_percent |-> 0, send_status_to_tcu |-> FALSE ]

\* ... in the two alarm states ...
Alarm == [Silent EXCEPT !.visual_alert = TRUE, !.acoustic_alert = TRUE]

\* ... and in BLOCKED, where due tells whether a status report is due.
Locked(due) ==
  [ visual_alert |-> TRUE, acoustic_alert |-> FALSE, starter_lock |-> TRUE,
    derate_percent |-> REB_DERATE_MAX_PERCENT, send_status_to_tcu |-> due ]

\* reb_apply_derating: the percentage it turns percent into
ApplyDerating(in, percent) ==
  IF in.vehicle_speed_kmh > REB_SAFE_MOVING_SPEED_KMH
  THEN IF percent < REB_DERATE_MAX_PERCENT
       THEN percent + REB_DERATE_STEP_PERCENT ELSE percent
  ELSE REB_DERATE_MIN_PERCENT

Stationary(in)  == in.vehicle_speed_kmh <= 0
SlowEnough(in)  == in.vehicle_speed_kmh <= REB_MAX_ALLOWED_SPEED_FOR_LOCK

\* Mutant: the window ends one tick late.
WindowElapsedStrictly(in) ==
  Elapsed(in.timestamp_ms, context.theft_confirmed_timestamp_ms)
    > REB_THEFT_CONFIRM_WINDOW_MS

WindowElapsed(in) ==
  Elapsed(in.timestamp_ms, context.theft_confirmed_timestamp_ms)
    >= REB_THEFT_CONFIRM_WINDOW_MS

RetransmitDue(in) ==
  Elapsed(in.timestamp_ms, context.last_blocked_retx_timestamp_ms)
    >= REB_BLOCKED_RETRANSMIT_MS

\* The context after the retransmission block of the BLOCKED case.
Retransmitted(in) ==
  IF RetransmitDue(in)
  THEN [context EXCEPT !.last_blocked_retx_timestamp_ms = in.timestamp_ms]
  ELSE context

NothingAccepted == accepted' = 0 /\ UNCHANGED spent
Accept(nonce)   == accepted' = nonce /\ spent' = spent \cup {nonce}

--------------------------------------------------------------------------------
(* case REB_STATE_IDLE *)

IdleIntrusion(in) ==
  /\ context.current_state = "IDLE"
  /\ in.intrusion_detected
  /\ context' = [context EXCEPT !.current_state = "THEFT_CONFIRMED",
                                !.theft_confirmed_timestamp_ms = in.timestamp_ms,
                                !.automatic_trigger_active = TRUE]
  /\ outputs' = Silent
  /\ NothingAccepted

RemoteBlockAccepted(in) ==
  /\ context.current_state = "IDLE"
  /\ ~in.intrusion_detected
  /\ in.remote_command = "BLOCK"
  /\ CommandValid(in, context)

\* Mutant: a vehicle at rest is locked at once.
IdleRemoteBlockAtOnce(in) ==
  /\ RemoteBlockAccepted(in)
  /\ context' = [ConsumeNonce(in, context) EXCEPT
                   !.current_state = IF Stationary(in) THEN "BLOCKED"
                                     ELSE "THEFT_CONFIRMED",
                   !.theft_confirmed_timestamp_ms = in.timestamp_ms,
                   !.automatic_trigger_active = FALSE]
  /\ outputs' = Silent
  /\ Accept(in.nonce)

\* A remote block enters THEFT_CONFIRMED and, on a vehicle at rest, leaves it
\* for BLOCKING in the same step.
IdleRemoteBlock(in) ==
  /\ RemoteBlockAccepted(in)
  /\ context' = [ConsumeNonce(in, context) EXCEPT
                   !.current_state = IF Stationary(in) THEN "BLOCKING"
                                     ELSE "THEFT_CONFIRMED",
                   !.theft_confirmed_timestamp_ms = in.timestamp_ms,
                   !.automatic_trigger_active = FALSE]
  /\ outputs' = Silent
  /\ Accept(in.nonce)

IdleNothing(in) ==
  /\ context.current_state = "IDLE"
  /\ ~in.intrusion_detected
  /\ ~RemoteBlockAccepted(in)
  /\ outputs' = Silent
  /\ UNCHANGED context
  /\ NothingAccepted

--------------------------------------------------------------------------------
(* case REB_STATE_THEFT_CONFIRMED *)

\* Mutant: the flag is not cleared.
TheftCancelFlagKept(in) ==
  /\ context.current_state = "THEFT_CONFIRMED"
  /\ in.remote_command = "CANCEL"
  /\ context' = [context EXCEPT !.current_state = "IDLE"]
  /\ outputs' = Alarm
  /\ NothingAccepted

\* Mutant: a cancel, which needs no nonce, lifts the lock as well.
TheftCancelAlways(in) ==
  /\ context.current_state \in {"THEFT_CONFIRMED", "BLOCKED"}
  /\ in.remote_command = "CANCEL"
  /\ context' = [context EXCEPT !.current_state = "IDLE",
                                !.automatic_trigger_active = FALSE]
  /\ outputs' = Alarm
  /\ NothingAccepted

\* No nonce is asked for: any cancel in this state is obeyed.
TheftCancel(in) ==
  /\ context.current_state = "THEFT_CONFIRMED"
  /\ in.remote_command = "CANCEL"
  /\ context' = [context EXCEPT !.current_state = "IDLE",
                                !.automatic_trigger_active = FALSE]
  /\ outputs' = Alarm
  /\ NothingAccepted

\* Mutant: a vehicle at rest never waits, whatever raised the alarm.
AnyAndStationary(in) == Stationary(in)

CommandedAndStationary(in) ==
  ~context.automatic_trigger_active /\ Stationary(in)

TheftStationary(in) ==
  /\ context.current_state = "THEFT_CONFIRMED"
  /\ in.remote_command # "CANCEL"
  /\ CommandedAndStationary(in)
  /\ context' = [context EXCEPT !.current_state = "BLOCKING"]
  /\ outputs' = Alarm
  /\ NothingAccepted

TheftWindowExpired(in) ==
  /\ context.current_state = "THEFT_CONFIRMED"
  /\ in.remote_command # "CANCEL"
  /\ ~CommandedAndStationary(in)
  /\ WindowElapsed(in)
  /\ context' = [context EXCEPT !.current_state = "BLOCKING",
                                !.automatic_trigger_active = FALSE]
  /\ outputs' = Alarm
  /\ NothingAccepted

\* Mutant: every look at the clock starts the window again.
TheftWaitingRearmed(in) ==
  /\ context.current_state = "THEFT_CONFIRMED"
  /\ in.remote_command # "CANCEL"
  /\ ~CommandedAndStationary(in)
  /\ ~WindowElapsed(in)
  /\ outputs' = Alarm
  /\ context' = [context EXCEPT !.theft_confirmed_timestamp_ms = in.timestamp_ms]
  /\ NothingAccepted

TheftWaiting(in) ==
  /\ context.current_state = "THEFT_CONFIRMED"
  /\ in.remote_command # "CANCEL"
  /\ ~CommandedAndStationary(in)
  /\ ~WindowElapsed(in)
  /\ outputs' = Alarm
  /\ UNCHANGED context
  /\ NothingAccepted

--------------------------------------------------------------------------------
(* case REB_STATE_BLOCKING *)

BlockingMoving(in) ==
  /\ context.current_state = "BLOCKING"
  /\ ~SlowEnough(in)
  /\ context' = [context EXCEPT !.vehicle_stopped_timestamp_ms = 0]
  /\ outputs' = [Alarm EXCEPT !.derate_percent = ApplyDerating(in, @)]
  /\ NothingAccepted

\* The 120 s dwell is commented out in the code: one slow reading is enough.
BlockingStopped(in) ==
  /\ context.current_state = "BLOCKING"
  /\ SlowEnough(in)
  /\ context' = [context EXCEPT !.current_state = "BLOCKED"]
  /\ outputs' = Alarm
  /\ NothingAccepted

--------------------------------------------------------------------------------
(* case REB_STATE_BLOCKED: the speed is not looked at any more *)

BlockedHold(in) ==
  /\ context.current_state = "BLOCKED"
  /\ in.remote_command # "UNLOCK"
  /\ context' = Retransmitted(in)
  /\ outputs' = Locked(RetransmitDue(in))
  /\ NothingAccepted

\* The context is reset at once; the outputs still command the lock.
BlockedUnlock(in) ==
  /\ context.current_state = "BLOCKED"
  /\ in.remote_command = "UNLOCK"
  /\ UnlockAllowed(in, context)
  /\ context' = InitContext
  /\ outputs' = Locked(RetransmitDue(in))
  /\ accepted' = in.nonce
  /\ spent' = {}

\* A valid nonce without the acknowledgement: spent, and one attempt counted.
BlockedUnlockUnacknowledged(in) ==
  /\ context.current_state = "BLOCKED"
  /\ in.remote_command = "UNLOCK"
  /\ CommandValid(in, context)
  /\ ~in.tcu_ack_received
  /\ context' = CountInvalidAttempts(ConsumeNonce(in, Retransmitted(in)), 1)
  /\ outputs' = Locked(RetransmitDue(in))
  /\ Accept(in.nonce)

\* Counted by reb_security_unlock_allowed and again by its caller.
BlockedUnlockInvalid(in) ==
  /\ context.current_state = "BLOCKED"
  /\ in.remote_command = "UNLOCK"
  /\ ~CommandValid(in, context)
  /\ context' = CountInvalidAttempts(Retransmitted(in), 2)
  /\ outputs' = Locked(RetransmitDue(in))
  /\ NothingAccepted

--------------------------------------------------------------------------------
Step(in) ==
  \/ IdleIntrusion(in)
  \/ IdleRemoteBlock(in)
  \/ IdleNothing(in)
  \/ TheftCancel(in)
  \/ TheftStationary(in)
  \/ TheftWindowExpired(in)
  \/ TheftWaiting(in)
  \/ BlockingMoving(in)
  \/ BlockingStopped(in)
  \/ BlockedHold(in)
  \/ BlockedUnlock(in)
  \/ BlockedUnlockUnacknowledged(in)
  \/ BlockedUnlockInvalid(in)

Init ==
  /\ context = InitContext
  /\ outputs = Silent
  /\ spent = {}
  /\ accepted = 0

Next == \E in \in Inputs : Step(in)

Spec == Init /\ [][Next]_vars

--------------------------------------------------------------------------------
(* Invariants *)

\* Every field keeps the range of its C type, and the write index stays inside
\* the ring, which its type does not make it do.
TypeOK ==
  /\ context \in RebContext
  /\ context.nonce_history_index \in HistorySlots
  /\ outputs \in RebOutputs
  /\ spent \subseteq Nonces
  /\ accepted \in Nonces

\* Slot i was written before slot j: the slots from the write index on come
\* first, the ones before it are the latest.
Older(ctx, i, j) ==
  IF (i < ctx.nonce_history_index) = (j < ctx.nonce_history_index)
  THEN i < j
  ELSE j < ctx.nonce_history_index

\* The ring buffer holds spent nonces (or the zeros of the initialisation) in
\* the order they were accepted, newest just before the write index.
HistoryInOrder ==
  /\ \A i \in HistorySlots : context.nonce_history[i] \in spent \cup {0}
  /\ \A i, j \in HistorySlots :
        Older(context, i, j) =>
          context.nonce_history[i] <= context.nonce_history[j]

\* reb_security_store_nonce never forgets a nonce while it still remembers an
\* older one: what has left the ring is older than all that is in it.
HistoryKeepsNewest ==
  \A n \in spent :
    \/ NonceReplayed(context, n)
    \/ \A i \in HistorySlots : n < context.nonce_history[i]

\* A nonce spent since the last reset is behind the window, so no later command
\* of the same epoch can use it, in whatever order the commands arrive and
\* however many the ring buffer has forgotten.
SpentNoncesRejected == \A n \in spent : ~NonceInWindow(context, n)

\* The replay test never decides: a nonce it would reject is out of the window
\* already (reb_security.c:67 runs before :72).
ReplayTestRedundant ==
  \A n \in Nonces : NonceReplayed(context, n) => ~NonceInWindow(context, n)

\* The automatic flag, which decides whether a vehicle at rest must still wait
\* for the confirmation window, never outlives the state it belongs to.
AutomaticOnlyInTheft ==
  context.automatic_trigger_active => context.current_state = "THEFT_CONFIRMED"

--------------------------------------------------------------------------------
(* Action properties *)

\* No nonce is accepted by two steps of one epoch, the release included, even
\* though the release forgets the ledger in the very step that accepts it.
NonceSpentOnce == [][accepted' # 0 => accepted' \notin spent]_vars

\* The starter is never locked out of the blue: the step before the first
\* locking step has sounded both alarms, on every path to BLOCKED.
LockIsAnnounced ==
  [][outputs'.starter_lock /\ ~outputs.starter_lock =>
       outputs.visual_alert /\ outputs.acoustic_alert]_vars

(* The state machine implements the promise of Immobilizer. *)

PhaseOf(ctx) ==
  CASE ctx.current_state = "IDLE"     -> "idle"
    [] ctx.current_state = "THEFT_CONFIRMED" ->
         IF ctx.automatic_trigger_active THEN "warned" ELSE "armed"
    [] ctx.current_state = "BLOCKING" -> "blocking"
    [] ctx.current_state = "BLOCKED"  -> "blocked"

Promise == INSTANCE Immobilizer WITH
             Nonce <- Nonces, phase <- PhaseOf(context), spent <- spent

\* Every step is a step of Immobilizer or leaves phase and ledger alone.
ImplementsImmobilizer == Promise!Spec
===============================================================================
