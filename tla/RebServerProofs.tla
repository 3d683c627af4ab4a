----------------------------- MODULE RebServerProofs -----------------------------
(***************************************************************************)
(* Theorems of RebServer for every set of messages, every clock, every     *)
(* ring buffer, and for the faults each of them names.                     *)
(*                                                                         *)
(* What one step of the core does is not proved again: CP instantiates     *)
(* RebStateMachineProofs on the server's context, and its lemmas about     *)
(* Step are cited once SameStep has identified the two instances.          *)
(***************************************************************************)
EXTENDS RebServer, TLAPS

CP == INSTANCE RebStateMachineProofs WITH Inputs <- RebInputs

--------------------------------------------------------------------------------
(* The core inside the server *)

\* The server's data types are those the core's lemmas speak of.
LEMMA SameTypes ==
  /\ CP!RebInputs = RebInputs
  /\ CP!RebContext = RebContext
  /\ CP!RebOutputs = RebOutputs
  /\ CP!Nonces = Nonces
  /\ CP!InitContext = Core!InitContext
  /\ CP!Silent = Core!Silent
  BY DEF CP!RebInputs, RebInputs, CP!RebContext, RebContext, CP!ContextsIn,
         ContextsIn, CP!RebOutputs, RebOutputs, CP!Nonces, Nonces, CP!Millis,
         Millis, CP!RebState, RebState, CP!HistorySlots, HistorySlots,
         CP!UInt8, UInt8, CP!RebRemoteCommand, RebRemoteCommand,
         CP!REB_DERATE_MAX_PERCENT, REB_DERATE_MAX_PERCENT, CP!InitContext,
         Core!InitContext, Core!HistorySlots, CP!Silent, Core!Silent

\* The step the server takes is the one the core's lemmas are about.
LEMMA SameStep ==
  ASSUME NEW in
  PROVE  Core!Step(in) <=> CP!Step(in)
  BY DEF Core!Step, CP!Step, Core!IdleIntrusion, CP!IdleIntrusion,
      Core!IdleRemoteBlock, CP!IdleRemoteBlock, Core!RemoteBlockAccepted,
      CP!RemoteBlockAccepted, Core!IdleNothing, CP!IdleNothing,
      Core!TheftCancel, CP!TheftCancel, Core!TheftStationary,
      CP!TheftStationary, Core!CommandedAndStationary,
      CP!CommandedAndStationary, Core!TheftWindowExpired,
      CP!TheftWindowExpired, Core!TheftWaiting, CP!TheftWaiting,
      Core!BlockingMoving, CP!BlockingMoving, Core!BlockingStopped,
      CP!BlockingStopped, Core!BlockedHold, CP!BlockedHold,
      Core!BlockedUnlock, CP!BlockedUnlock, Core!BlockedUnlockUnacknowledged,
      CP!BlockedUnlockUnacknowledged, Core!BlockedUnlockInvalid,
      CP!BlockedUnlockInvalid, Core!WindowElapsed, CP!WindowElapsed,
      Core!RetransmitDue, CP!RetransmitDue, Core!Retransmitted,
      CP!Retransmitted, Core!NothingAccepted, CP!NothingAccepted, Core!Accept,
      CP!Accept, Core!InitContext, CP!InitContext, Core!Silent, CP!Silent,
      Core!Alarm, CP!Alarm, Core!Locked, CP!Locked, Core!ApplyDerating,
      CP!ApplyDerating, Core!Stationary, CP!Stationary, Core!SlowEnough,
      CP!SlowEnough, Core!CommandValid, CP!CommandValid, Core!ConsumeNonce,
      CP!ConsumeNonce, Core!StoreNonce, CP!StoreNonce, Core!NonceInWindow,
      CP!NonceInWindow, Core!NonceReplayed, CP!NonceReplayed,
      Core!UnlockAllowed, CP!UnlockAllowed, Core!CountInvalidAttempts,
      CP!CountInvalidAttempts, Core!Elapsed, CP!Elapsed, Core!HistorySlots,
      CP!HistorySlots, Core!REB_MAX_ALLOWED_SPEED_FOR_LOCK,
      CP!REB_MAX_ALLOWED_SPEED_FOR_LOCK, Core!REB_SAFE_MOVING_SPEED_KMH,
      CP!REB_SAFE_MOVING_SPEED_KMH, Core!REB_DERATE_STEP_PERCENT,
      CP!REB_DERATE_STEP_PERCENT, Core!REB_DERATE_MAX_PERCENT,
      CP!REB_DERATE_MAX_PERCENT, Core!REB_DERATE_MIN_PERCENT,
      CP!REB_DERATE_MIN_PERCENT

\* A step of the core is a step from a state of the enumeration.
LEMMA StepState ==
  ASSUME NEW in, Core!Step(in)
  PROVE  context.current_state \in RebState
  BY DEF RebState, Core!Step, Core!IdleIntrusion, Core!IdleRemoteBlock,
         Core!RemoteBlockAccepted, Core!IdleNothing, Core!TheftCancel,
         Core!TheftStationary, Core!TheftWindowExpired, Core!TheftWaiting,
         Core!BlockingMoving, Core!BlockingStopped, Core!BlockedHold,
         Core!BlockedUnlock, Core!BlockedUnlockUnacknowledged,
         Core!BlockedUnlockInvalid

\* The context of a server that is in a state of the enumeration is the core's.
LEMMA CoreTyped ==
  ASSUME TypeOK, context.current_state \in RebState
  PROVE  CP!Typed
<1>1. context \in RebContext
  BY DEF TypeOK, RebContext, ContextsIn
<1>2. QED
  BY <1>1, SameTypes DEF TypeOK, CP!Typed

\* Hence the core's lemmas apply to a step the server makes it take.
LEMMA CoreStep ==
  ASSUME TypeOK, NEW in \in RebInputs, Core!Step(in)
  PROVE  /\ in \in CP!RebInputs
         /\ CP!Step(in)
         /\ CP!Typed
         /\ CP!Typed'
         /\ outputs' \in RebOutputs
<1>1. CP!Step(in) /\ CP!Typed /\ in \in CP!RebInputs
  BY SameTypes, SameStep, StepState, CoreTyped
<1>2. RebInputs \subseteq CP!RebInputs
  BY SameTypes
<1>3. CP!Typed' /\ outputs' \in CP!RebOutputs
  BY <1>1, <1>2, CP!TypedStep, ModuliAssumption, CalibrationAssumption,
     SpeedsAssumption
<1>4. QED
  BY <1>1, <1>3, SameTypes

--------------------------------------------------------------------------------
(* What a message does before the core sees it *)

\* reb_can_adapter_rx_to_inputs keeps the inputs in their type.
LEMMA RxToInputsType ==
  ASSUME NEW rx \in Messages, NEW in \in RebInputs, NEW now \in Millis
  PROVE  RxToInputs(rx, in, now) \in RebInputs
<1>1. [in EXCEPT !.timestamp_ms = now] \in RebInputs
  BY DEF RebInputs
<1>2. CommandOf(rx.cmd_type) \in RebRemoteCommand
  BY DEF CommandOf, RebRemoteCommand
<1>3. CASE rx.msg_id = "REB_CMD"
  <2>1. rx.cmd_nonce \in Nonces
    BY <1>3, MessagesAssumption
  <2>2. QED
    BY <1>1, <1>2, <1>3, <2>1 DEF RxToInputs, RebInputs
<1>4. CASE rx.msg_id = "VEHICLE_STATE"
  <2>1. ReportedSpeed(rx) \in Speeds
    BY <1>4, MessagesAssumption
  <2>2. QED
    BY <1>1, <1>4, <2>1 DEF RxToInputs, RebInputs
<1>5. CASE rx.msg_id \in {"PANEL_AUTH_CMD", "PANEL_BLOCK_CMD"}
  <2>1. rx.nonce \in Nonces
    BY <1>5, MessagesAssumption
  <2>2. QED
    BY <1>1, <1>5, <2>1 DEF RxToInputs, RebInputs, RebRemoteCommand
<1>6. CASE rx.msg_id \notin {"REB_CMD", "VEHICLE_STATE", "PANEL_AUTH_CMD",
                              "PANEL_BLOCK_CMD"}
  BY <1>1, <1>6 DEF RxToInputs, RebInputs, RebRemoteCommand
<1>7. QED
  BY <1>3, <1>4, <1>5, <1>6

\* Every message and every tick gives the core well-typed inputs.
LEMMA HandleStep ==
  ASSUME TypeOK, NEW rx, Handle(rx),
         rx \in Messages \/ \E ms \in Millis : rx = TcuToReb("RETRY", ms)
  PROVE  \E in \in RebInputs :
           /\ Core!Step(in) \/ StepInvalidState
           /\ inputs' = in
           /\ now_ms' \in Millis
<1>1. inputs \in RebInputs /\ now_ms \in Millis
  BY DEF TypeOK
<1>2. CASE rx \in Messages
  <2>1. ~IsTimeTick(rx)
    BY <1>2, MessagesAssumption
  <2>2. RxToInputs(rx, inputs, now_ms) \in RebInputs
    BY <1>1, <1>2, RxToInputsType
  <2>3. QED
    BY <1>1, <2>1, <2>2 DEF Handle
<1>3. CASE \E ms \in Millis : rx = TcuToReb("RETRY", ms)
  <2>1. PICK ms \in Millis : rx = TcuToReb("RETRY", ms)
    BY <1>3
  <2>2. IsTimeTick(rx) /\ rx.echo_timestamp = ms
    BY <2>1 DEF IsTimeTick, TcuToReb
  <2>3. [inputs EXCEPT !.timestamp_ms = ms] \in RebInputs
    BY <1>1 DEF RebInputs
  <2>4. QED
    BY <2>2, <2>3 DEF Handle
<1>4. QED
  BY <1>2, <1>3

--------------------------------------------------------------------------------
(* The inductive invariant of every run of the server *)

\* What remains to be sent is the end of one answer, the last step's.
Answering ==
  IF pc = "send"
  THEN tx \in { OutputsToTx(context, outputs),
                <<DerateFrame(outputs), PreventStartFrame(context, outputs)>>,
                <<PreventStartFrame(context, outputs)>> }
  ELSE tx = <<>>

\* The window in the state file is no older than the ledger it was saved with.
SavedNoncesRejected == \A n \in nvm.spent : n <= nvm.context.last_valid_nonce

IInv ==
  /\ TypeOK
  /\ Answering
  /\ SpentNoncesRejected
  /\ SavedNoncesRejected

\* The types that do not depend on a step of the core.
LEMMA SmallTypes ==
  /\ 0 \in Millis /\ 0 \in Nonces /\ 0 \in Speeds /\ START_MS \in Millis
  /\ ZeroInputs \in RebInputs
  /\ Core!InitContext \in RebContext
  /\ Core!Silent \in RebOutputs
  /\ RebContext \subseteq ContextsIn(MemoryStates)
  /\ RebOutputs \subseteq MemoryOutputs
<1>1. 0 \in Millis /\ 0 \in Nonces /\ 0 \in Speeds /\ START_MS \in Millis
  BY ModuliAssumption, MessagesAssumption, ServerAssumption DEF Millis, Nonces
<1>2. ZeroInputs \in RebInputs
  BY <1>1 DEF ZeroInputs, RebInputs, RebRemoteCommand
<1>3. RebInputs \subseteq CP!RebInputs
  BY SameTypes
<1>4. Core!InitContext \in RebContext
  BY <1>3, SameTypes, CP!InitContextType, ModuliAssumption, CalibrationAssumption,
     SpeedsAssumption
<1>5. Core!Silent \in RebOutputs
  BY DEF Core!Silent, RebOutputs, REB_DERATE_MAX_PERCENT
<1>6. RebContext \subseteq ContextsIn(MemoryStates)
  BY DEF RebContext, ContextsIn, MemoryStates
<1>7. RebOutputs \subseteq MemoryOutputs
  BY DEF MemoryOutputs, RebOutputs
<1>8. QED
  BY <1>1, <1>2, <1>4, <1>5, <1>6, <1>7

\* The frames of an answer, one by one.
LEMMA AnswerFrames ==
  ASSUME NEW ctx, NEW out
  PROVE  /\ StatusFrame(ctx, out).msg_id = "REB_STATUS"
         /\ DerateFrame(out).msg_id = "REB_DERATE_CMD"
         /\ PreventStartFrame(ctx, out).msg_id = "REB_PREVENT_START"
  BY DEF StatusFrame, DerateFrame, PreventStartFrame

\* A loaded context is well typed, however short the file it comes from, and its
\* ledger stays behind its window.
LEMMA LoadTypes ==
  ASSUME IInv, NEW load \in LoadOutcomes
  PROVE  /\ load.context \in ContextsIn(MemoryStates)
         /\ load.spent \subseteq Nonces
         /\ \A n \in load.spent : n <= load.context.last_valid_nonce
<1> DEFINE Good(outcome) ==
             /\ outcome.context \in ContextsIn(MemoryStates)
             /\ outcome.spent \subseteq Nonces
             /\ \A n \in outcome.spent : n <= outcome.context.last_valid_nonce
<1>1. Good(NotLoaded)
  BY SmallTypes DEF NotLoaded
<1>2. ASSUME NEW ctx \in ContextsIn(MemoryStates)
      PROVE  [ctx EXCEPT !.persisted_state_valid = TRUE] \in ContextsIn(MemoryStates)
  BY DEF ContextsIn
<1>3. CASE nvm.kind = "absent"
  BY <1>1, <1>3 DEF LoadOutcomes
<1>4. CASE nvm.kind = "record"
  <2>1. nvm.context \in ContextsIn(MemoryStates) /\ nvm.spent \subseteq Nonces
    BY SmallTypes DEF IInv, TypeOK
  <2>2. load = Loaded(nvm.context, nvm.spent)
    BY <1>4 DEF LoadOutcomes
  <2>3. load.context.last_valid_nonce = nvm.context.last_valid_nonce
    BY <2>1, <2>2 DEF Loaded, ContextsIn
  <2>4. QED
    BY <1>2, <2>1, <2>2, <2>3 DEF Loaded, IInv, SavedNoncesRejected
<1>5. CASE nvm.kind = "torn"
  <2>1. CASE load = NotLoaded
    BY <1>1, <2>1
  <2>2. CASE \E ctx \in UninitializedRecords : load = Loaded(ctx, {})
    <3>1. PICK ctx \in UninitializedRecords : load = Loaded(ctx, {})
      BY <2>2
    <3>2. ctx \in ContextsIn(MemoryStates)
      BY RecordsAssumption
    <3>3. QED
      BY <1>2, <3>1, <3>2 DEF Loaded
  <2>3. QED
    BY <1>5, <2>1, <2>2 DEF LoadOutcomes
<1>6. QED
  BY <1>3, <1>4, <1>5 DEF IInv, TypeOK
--------------------------------------------------------------------------------
(* Preservation, action by action *)

\* reb_state_machine_step, the default of its switch included, leaves a typed
\* context behind whose window covers its ledger.
LEMMA CoreKeepsIInv ==
  ASSUME TypeOK, SpentNoncesRejected, NEW in \in RebInputs,
         Core!Step(in) \/ StepInvalidState
  PROVE  /\ context' \in RebContext
         /\ outputs' \in RebOutputs
         /\ spent' \subseteq Nonces
         /\ accepted' \in Nonces
         /\ SpentNoncesRejected'
<1>1. CASE Core!Step(in)
  <2>1. RebInputs \subseteq CP!RebInputs
    BY SameTypes
  <2>2. /\ in \in CP!RebInputs
        /\ CP!Step(in)
        /\ CP!Typed
        /\ CP!Typed'
        /\ outputs' \in RebOutputs
    BY <1>1, CoreStep
  <2>3. \/ CP!SameLedger
        \/ CP!Enters(in.nonce) /\ in.nonce > context.last_valid_nonce
        \/ CP!Emptied
    BY <2>1, <2>2, CP!LedgerStep, ModuliAssumption, CalibrationAssumption,
       SpeedsAssumption
  <2>4. SpentNoncesRejected'
    <3>1. /\ context.last_valid_nonce \in Int
          /\ in.nonce \in Int
          /\ spent \subseteq Int
      BY <2>2 DEF TypeOK, ContextsIn, RebInputs, Nonces
    <3>2. CASE CP!SameLedger
      BY <3>2 DEF CP!SameLedger, SpentNoncesRejected
    <3>3. CASE CP!Enters(in.nonce) /\ in.nonce > context.last_valid_nonce
      <4>1. spent' = spent \cup {in.nonce} /\ context'.last_valid_nonce = in.nonce
        BY <3>3 DEF CP!Enters
      <4>2. QED
        BY <3>1, <3>3, <4>1 DEF SpentNoncesRejected
    <3>4. CASE CP!Emptied
      BY <3>4 DEF CP!Emptied, SpentNoncesRejected
    <3>5. QED
      BY <2>3, <3>2, <3>3, <3>4
  <2>5. QED
    BY <2>2, <2>4, SameTypes DEF CP!Typed
<1>2. CASE StepInvalidState
  BY <1>2, SmallTypes DEF StepInvalidState, SpentNoncesRejected
<1>3. QED
  BY <1>1, <1>2

\* A message or a tick is handled.
LEMMA HandleKeepsIInv ==
  ASSUME IInv, NEW rx, Handle(rx), sim_ms' \in Millis, waited' \in Millis,
         rx \in Messages \/ \E ms \in Millis : rx = TcuToReb("RETRY", ms)
  PROVE  IInv'
<1>1. PICK in \in RebInputs : /\ Core!Step(in) \/ StepInvalidState
                              /\ inputs' = in
                              /\ now_ms' \in Millis
  BY HandleStep DEF IInv
<1>2. /\ context' \in RebContext
      /\ outputs' \in RebOutputs
      /\ spent' \subseteq Nonces
      /\ accepted' \in Nonces
      /\ SpentNoncesRejected'
  BY <1>1, CoreKeepsIInv DEF IInv
<1>3. /\ pc = "receive" /\ pc' \in {"overrun", "open"}
      /\ UNCHANGED <<nvm, tx, bus, announced, unbacked>>
  BY DEF Handle
<1>4. tx = <<>>
  BY <1>3 DEF IInv, Answering
<1>5. moving' \in BOOLEAN
  <2>1. CASE rx.msg_id = "VEHICLE_STATE"
    <3>1. rx \in Messages
      BY <2>1 DEF TcuToReb
    <3>2. rx.vehicle_speed_centi_kmh \in Nat
      BY <2>1, <3>1, MessagesAssumption
    <3>3. (rx.vehicle_speed_centi_kmh >= 100) \in BOOLEAN
      BY <3>2
    <3>4. moving' = (rx.vehicle_speed_centi_kmh >= 100)
      BY <2>1 DEF Handle
    <3>5. QED
      BY <3>3, <3>4
  <2>2. CASE rx.msg_id # "VEHICLE_STATE"
    BY <2>2 DEF Handle, IInv, TypeOK
  <2>3. QED
    BY <2>1, <2>2
<1>6. context'.current_state \in RebState
  BY <1>2 DEF RebContext, ContextsIn
<1>7. TypeOK'
  BY <1>1, <1>2, <1>3, <1>4, <1>5, <1>6, SmallTypes DEF IInv, TypeOK
<1>8. Answering' /\ SavedNoncesRejected'
  BY <1>3, <1>4 DEF IInv, Answering, SavedNoncesRejected
<1>9. QED
  BY <1>2, <1>7, <1>8 DEF IInv

\* The store outside the ring, whatever it hits.
LEMMA OverrunTypes ==
  ASSUME TypeOK, Overrun
  PROVE  /\ context' \in ContextsIn(MemoryStates)
         /\ context'.current_state = context.current_state
         /\ context'.last_valid_nonce = context.last_valid_nonce
         /\ context'.automatic_trigger_active = context.automatic_trigger_active
         /\ outputs' \in MemoryOutputs
         /\ inputs' \in RebInputs
         /\ now_ms' \in Millis
         /\ unbacked' \in BOOLEAN
<1>1. context \in ContextsIn(MemoryStates) /\ inputs \in RebInputs
  BY DEF TypeOK
<1>2. CASE OverrunContext
  <2>1. PICK index \in HistorySlots, attempts \in UInt8, valid \in BOOLEAN :
          context' = [context EXCEPT !.nonce_history_index = index,
                                     !.invalid_unlock_attempts = attempts,
                                     !.persisted_state_valid = valid]
    BY <1>2 DEF OverrunContext
  <2>2. index \in UInt8
    BY CalibrationAssumption, ModuliAssumption DEF HistorySlots, UInt8
  <2>3. QED
    BY <1>1, <1>2, <2>1, <2>2 DEF OverrunContext, TypeOK, ContextsIn
<1>3. CASE OverrunOutputs
  <2>1. PICK lock \in BOOLEAN, percent \in UInt8 :
          outputs' = [outputs EXCEPT !.starter_lock = lock, !.derate_percent = percent]
    BY <1>3 DEF OverrunOutputs
  <2>2. outputs' \in MemoryOutputs
    BY <2>1 DEF TypeOK, MemoryOutputs
  <2>3. QED
    BY <1>3, <2>2 DEF OverrunOutputs, TypeOK
<1>4. CASE OverrunInputs
  <2>1. inputs' \in RebInputs
    BY <1>1, <1>4 DEF OverrunInputs, RebInputs
  <2>2. QED
    BY <1>4, <2>1 DEF OverrunInputs, TypeOK
<1>5. CASE OverrunClock
  BY <1>5 DEF OverrunClock, TypeOK
<1>6. QED
  BY <1>2, <1>3, <1>4, <1>5 DEF Overrun

\* It does not disturb the invariant.
LEMMA OverrunKeepsIInv ==
  ASSUME IInv, Overrun
  PROVE  IInv'
<1>1. /\ pc = "overrun" /\ pc' = "open"
      /\ UNCHANGED <<spent, accepted, nvm, tx, bus, sim_ms, waited, moving, announced>>
  BY DEF Overrun
<1>2. /\ context' \in ContextsIn(MemoryStates)
      /\ context'.current_state = context.current_state
      /\ context'.last_valid_nonce = context.last_valid_nonce
      /\ outputs' \in MemoryOutputs
      /\ inputs' \in RebInputs
      /\ now_ms' \in Millis
      /\ unbacked' \in BOOLEAN
  BY OverrunTypes DEF IInv
<1>3. TypeOK'
  BY <1>1, <1>2 DEF IInv, TypeOK
<1>4. QED
  BY <1>1, <1>2, <1>3
  DEF IInv, Answering, SpentNoncesRejected, SavedNoncesRejected

\* The inputs after clear_transient_inputs and the answer that is due are typed.
LEMMA AfterExecuteTypes ==
  ASSUME IInv, AfterExecute
  PROVE  /\ inputs' \in RebInputs
         /\ Answering'
         /\ SpentNoncesRejected'
         /\ tx' # <<>> /\ \A i \in DOMAIN tx' : tx'[i].msg_id \in TxIds
         /\ UNCHANGED <<core, now_ms, bus, sim_ms, waited, moving, announced>>
         /\ pc' = "send"
<1>1. inputs' \in RebInputs
  BY SmallTypes DEF IInv, TypeOK, AfterExecute, ClearTransient, RebInputs,
                    RebRemoteCommand
<1>2. tx' = OutputsToTx(context, outputs) /\ pc' = "send"
  BY DEF AfterExecute
<1>3. UNCHANGED <<context, outputs, spent, accepted, now_ms, bus, sim_ms, waited,
                  moving, announced>>
  BY DEF AfterExecute, core
<1>4. Answering' /\ SpentNoncesRejected'
  BY <1>2, <1>3 DEF Answering, IInv, SpentNoncesRejected
<1>5. tx' # <<>> /\ \A i \in DOMAIN tx' : tx'[i].msg_id \in TxIds
  BY <1>2, AnswerFrames DEF OutputsToTx, TxIds
<1>6. QED
  BY <1>1, <1>2, <1>3, <1>4, <1>5 DEF core

\* The save: opened, written or failed.
LEMMA SaveKeepsIInv ==
  ASSUME IInv, SaveOpen \/ SaveOpenFails \/ SaveWrite \/ SaveWriteFails
  PROVE  IInv'
<1>1. CASE SaveOpen
  <2>1. /\ pc = "open" /\ pc' = "write" /\ nvm' = Torn
        /\ UNCHANGED <<context, outputs, spent, accepted, inputs, now_ms, tx, bus,
                       sim_ms, waited, moving, announced, unbacked>>
    BY <1>1 DEF SaveOpen, core, history
  <2>2. tx = <<>>
    BY <2>1 DEF IInv, Answering
  <2>3. TypeOK'
    BY <2>1, <2>2, SmallTypes DEF IInv, TypeOK, Torn
  <2>4. QED
    BY <2>1, <2>2, <2>3
    DEF IInv, Answering, SpentNoncesRejected, SavedNoncesRejected, Torn
<1>2. CASE SaveOpenFails \/ SaveWriteFails
  <2>1. AfterExecute /\ nvm' = nvm /\ pc \in {"open", "write"}
    BY <1>2 DEF SaveOpenFails, SaveWriteFails
  <2>2. unbacked' \in BOOLEAN
    BY <1>2 DEF SaveOpenFails, SaveWriteFails
  <2>3. TypeOK'
    BY <2>1, <2>2, AfterExecuteTypes DEF IInv, TypeOK, core
  <2>4. QED
    BY <2>1, <2>3, AfterExecuteTypes DEF IInv, SavedNoncesRejected
<1>3. CASE SaveWrite
  <2>1. AfterExecute /\ nvm' = Record(context, spent) /\ pc = "write"
    BY <1>3 DEF SaveWrite
  <2>2. unbacked' \in BOOLEAN
    BY <1>3 DEF SaveWrite
  <2>3. context \in RebContext
    BY <2>1 DEF IInv, TypeOK, RebContext, ContextsIn
  <2>4. TypeOK'
    BY <2>1, <2>2, <2>3, AfterExecuteTypes DEF IInv, TypeOK, core, Record
  <2>5. SavedNoncesRejected'
    BY <2>1 DEF IInv, SpentNoncesRejected, SavedNoncesRejected, Record
  <2>6. QED
    BY <2>1, <2>4, <2>5, AfterExecuteTypes DEF IInv
<1>4. QED
  BY <1>1, <1>2, <1>3

\* The first of the frames that remain, and what remains after it.
LEMMA NextFrame ==
  ASSUME Answering, pc = "send"
  PROVE  /\ Head(tx) \in {StatusFrame(context, outputs), DerateFrame(outputs),
                          PreventStartFrame(context, outputs)}
         /\ Head(tx).msg_id \in TxIds
         /\ Head(tx).msg_id = "REB_PREVENT_START" =>
              Head(tx) = PreventStartFrame(context, outputs)
         /\ Len(tx) = 1 => Tail(tx) = <<>>
         /\ Len(tx) # 1 =>
              Tail(tx) \in
                { <<DerateFrame(outputs), PreventStartFrame(context, outputs)>>,
                  <<PreventStartFrame(context, outputs)>> }
<1> DEFINE s == StatusFrame(context, outputs)
           d == DerateFrame(outputs)
           p == PreventStartFrame(context, outputs)
<1>1. tx \in {<<s, d, p>>, <<d, p>>, <<p>>}
  BY DEF Answering, OutputsToTx
<1>2. s.msg_id = "REB_STATUS" /\ d.msg_id = "REB_DERATE_CMD"
        /\ p.msg_id = "REB_PREVENT_START"
  BY AnswerFrames
<1> HIDE DEF s, d, p
<1>3. Head(tx) \in {s, d, p}
  BY <1>1
<1>4. (Len(tx) = 1 => Tail(tx) = <<>>) /\ (Len(tx) # 1 => Tail(tx) \in {<<d, p>>, <<p>>})
  <2>1. Tail(<<s, d, p>>) = <<d, p>> /\ Tail(<<d, p>>) = <<p>> /\ Tail(<<p>>) = <<>>
    OBVIOUS
  <2>2. Len(<<s, d, p>>) # 1 /\ Len(<<d, p>>) # 1 /\ Len(<<p>>) = 1
    OBVIOUS
  <2>3. CASE tx = <<s, d, p>>
    BY <2>1, <2>2, <2>3, Zenon
  <2>4. CASE tx = <<d, p>>
    BY <2>1, <2>2, <2>4, Zenon
  <2>5. CASE tx = <<p>>
    BY <2>1, <2>2, <2>5, Zenon
  <2>6. QED
    BY <1>1, <2>3, <2>4, <2>5
<1>5. QED
  BY <1>2, <1>3, <1>4 DEF s, d, p, TxIds

\* One frame is sent.
LEMMA SendKeepsIInv ==
  ASSUME IInv, Send
  PROVE  IInv'
<1>1. /\ pc = "send"
      /\ bus' = [bus EXCEPT ![Head(tx).msg_id] = Head(tx)]
      /\ tx' = Tail(tx)
      /\ pc' = IF Len(tx) = 1 THEN "receive" ELSE "send"
      /\ announced' \in {announced, context.last_valid_nonce}
      /\ unbacked' \in BOOLEAN
      /\ UNCHANGED <<context, outputs, spent, accepted, inputs, now_ms, nvm, sim_ms,
                     waited, moving>>
  BY DEF Send, core
<1>a. announced' \in Nonces
  BY <1>1 DEF IInv, TypeOK, ContextsIn
<1>2. Answering'
  BY <1>1, NextFrame DEF IInv, Answering
<1>3. DOMAIN bus' = TxIds /\ \A id \in TxIds : bus'[id].msg_id = id
  BY <1>1, NextFrame DEF IInv, TypeOK
<1>4. (tx' # <<>>) = (pc' = "send") /\ \A i \in DOMAIN tx' : tx'[i].msg_id \in TxIds
  <2>1. CASE Len(tx) = 1
    BY <1>1, <2>1, NextFrame DEF IInv
  <2>2. CASE Len(tx) # 1
    <3>1. tx' \in { <<DerateFrame(outputs), PreventStartFrame(context, outputs)>>,
                    <<PreventStartFrame(context, outputs)>> }
      BY <1>1, <2>2, NextFrame DEF IInv
    <3>2. tx' # <<>> /\ \A i \in DOMAIN tx' : tx'[i].msg_id \in TxIds
      BY <3>1, AnswerFrames DEF TxIds
    <3>3. pc' = "send"
      BY <1>1, <2>2
    <3>4. QED
      BY <3>2, <3>3
  <2>3. QED
    BY <2>1, <2>2
<1>5. TypeOK'
  BY <1>1, <1>a, <1>3, <1>4 DEF IInv, TypeOK
<1>6. QED
  BY <1>1, <1>2, <1>5 DEF IInv, SpentNoncesRejected, SavedNoncesRejected

\* The process ends, for whatever reason.
LEMMA HaltKeepsIInv ==
  ASSUME IInv, Halt
  PROVE  IInv'
<1>1. /\ pc' = "down" /\ tx' = <<>> /\ spent' = {} /\ accepted' = 0
      /\ context' = Core!InitContext /\ outputs' = Core!Silent
      /\ inputs' = ZeroInputs /\ now_ms' = START_MS
      /\ moving' \in BOOLEAN /\ unbacked' \in BOOLEAN
      /\ UNCHANGED <<nvm, bus, sim_ms, waited, announced>>
  BY DEF Halt
<1>2. TypeOK'
  BY <1>1, SmallTypes DEF IInv, TypeOK
<1>3. QED
  BY <1>1, <1>2 DEF IInv, Answering, SpentNoncesRejected, SavedNoncesRejected

\* The process starts, from the file or afresh.
LEMMA StartKeepsIInv ==
  ASSUME IInv, StartPersistent \/ StartFresh
  PROVE  IInv'
<1>1. PICK ctx, ledger :
        /\ Start(ctx, ledger)
        /\ ctx \in ContextsIn(MemoryStates)
        /\ ledger \subseteq Nonces
        /\ \A n \in ledger : n <= ctx.last_valid_nonce
        /\ unbacked' \in BOOLEAN
  <2>1. CASE StartPersistent
    <3>1. PICK load \in LoadOutcomes : Start(load.context, load.spent)
      BY <2>1 DEF StartPersistent
    <3>2. unbacked' \in BOOLEAN
      BY <2>1 DEF StartPersistent, IInv, TypeOK
    <3>3. QED
      BY <3>1, <3>2, LoadTypes
  <2>2. CASE StartFresh
    <3>1. Start(Core!InitContext, {}) /\ unbacked' \in BOOLEAN
      BY <2>2 DEF StartFresh
    <3>2. QED
      BY <3>1, SmallTypes
  <2>3. QED
    BY <2>1, <2>2
<1>2. TypeOK'
  BY <1>1 DEF Start, IInv, TypeOK, Answering
<1>3. QED
  BY <1>1, <1>2 DEF Start, IInv, Answering, SpentNoncesRejected, SavedNoncesRejected

\* The dashboard's clock stays within its four bytes, the wait within the window.
LEMMA AdvanceTypes ==
  ASSUME TypeOK, NEW delta \in TickDeltas, Advance(delta)
  PROVE  sim_ms' \in Millis /\ waited' \in Millis
<1>1. /\ delta \in Nat
      /\ REB_THEFT_CONFIRM_WINDOW_MS \in Millis
      /\ MILLIS_MODULUS \in Nat
      /\ sim_ms \in Millis /\ waited \in Millis
  BY ServerAssumption, CalibrationAssumption, ModuliAssumption DEF TypeOK, Millis
<1>2. QED
  BY <1>1 DEF Advance, Millis
\* The initial state satisfies the inductive invariant.
LEMMA IInvInit == Init => IInv
<1> SUFFICES ASSUME Init PROVE IInv
  OBVIOUS
<1>1. DOMAIN bus = TxIds /\ \A id \in TxIds : bus[id].msg_id = id
  <2>1. bus = [id \in TxIds |->
                 CASE id = "REB_STATUS"     -> StatusFrame(Core!InitContext, Core!Silent)
                   [] id = "REB_DERATE_CMD" -> DerateFrame(Core!Silent)
                   [] OTHER -> PreventStartFrame(Core!InitContext, Core!Silent)]
    BY DEF Init
  <2>2. QED
    BY <2>1, AnswerFrames DEF TxIds
<1>2. /\ context \in ContextsIn(MemoryStates) /\ nvm.context \in RebContext
      /\ nvm.kind = "absent" /\ nvm.spent = {}
  BY SmallTypes DEF Init, Absent
<1>3. /\ outputs \in MemoryOutputs /\ inputs \in RebInputs
      /\ spent = {} /\ accepted = 0 /\ pc = "down" /\ tx = <<>>
      /\ moving = FALSE /\ unbacked = FALSE /\ announced = 0
      /\ now_ms = START_MS /\ sim_ms = START_MS /\ waited = 0
  BY SmallTypes DEF Init
<1>4. TypeOK
  <2>1. (tx # <<>>) = (pc = "send") /\ \A i \in DOMAIN tx : tx[i].msg_id \in TxIds
    BY <1>3
  <2>2. /\ {now_ms, sim_ms, waited} \subseteq Millis
        /\ accepted \in Nonces /\ announced \in Nonces
    BY <1>3, SmallTypes
  <2>3. QED
    BY <1>1, <1>2, <1>3, <2>1, <2>2 DEF TypeOK
<1>5. QED
  BY <1>2, <1>3, <1>4 DEF IInv, Answering, SpentNoncesRejected, SavedNoncesRejected

\* Every step preserves the inductive invariant.
LEMMA IInvStep ==
  ASSUME IInv, [Next]_vars
  PROVE  IInv'
<1>a. sim_ms \in Millis /\ waited \in Millis
  BY DEF IInv, TypeOK
<1>1. CASE Receive
  <2>1. PICK rx \in Messages : Handle(rx)
    BY <1>1 DEF Receive
  <2>2. sim_ms' \in Millis /\ waited' \in Millis
    BY <1>1, <1>a, SmallTypes DEF Receive
  <2>3. QED
    BY <2>1, <2>2, HandleKeepsIInv
<1>2. CASE Tick
  <2>1. PICK delta \in TickDeltas : Advance(delta) /\ Handle(TcuToReb("RETRY", sim_ms'))
    BY <1>2 DEF Tick
  <2>2. sim_ms' \in Millis /\ waited' \in Millis
    BY <2>1, AdvanceTypes DEF IInv
  <2>3. QED
    BY <2>1, <2>2, HandleKeepsIInv
<1>3. CASE SaveOpen \/ SaveOpenFails \/ SaveWrite \/ SaveWriteFails
  BY <1>3, SaveKeepsIInv
<1>4. CASE Send
  BY <1>4, SendKeepsIInv
<1>5. CASE LeaveLoop \/ SendFails \/ PowerLoss \/ OverrunStops
  BY <1>5, HaltKeepsIInv DEF LeaveLoop, SendFails, PowerLoss, OverrunStops
<1>6. CASE StartPersistent \/ StartFresh
  BY <1>6, StartKeepsIInv
<1>7. CASE TickLost \/ DashboardRestart
  <2>1. /\ sim_ms' \in Millis /\ waited' \in Millis
        /\ UNCHANGED <<context, outputs, spent, accepted, pc, inputs, now_ms, nvm, tx,
                       bus, moving, announced, unbacked>>
    BY <1>7, <1>a, AdvanceTypes, SmallTypes
    DEF TickLost, DashboardRestart, core, history, IInv
  <2>2. QED
    BY <2>1 DEF IInv, TypeOK, Answering, SpentNoncesRejected, SavedNoncesRejected
<1>8. CASE UNCHANGED vars
  BY <1>8 DEF vars, core, history, IInv, TypeOK, Answering, SpentNoncesRejected,
              SavedNoncesRejected
<1>9. CASE Overrun
  BY <1>9, OverrunKeepsIInv
<1>10. QED
  BY <1>1, <1>2, <1>3, <1>4, <1>5, <1>6, <1>7, <1>8, <1>9 DEF Next

\* The inductive invariant holds in every reachable state.
LEMMA Invariance == Spec => []IInv
  BY IInvInit, IInvStep, PTL DEF Spec

--------------------------------------------------------------------------------
(* Results under all faults *)

\* Under every fault of AllFaults, and whatever bytes a short state file leaves in
\* memory, a write index beyond the ring and the store it causes included, every
\* field keeps the range of its type, every step leaves a state of the enumeration
\* behind, and nothing else is ever saved.
THEOREM TypeCorrect == Spec => []TypeOK
<1>1. IInv => TypeOK
  BY DEF IInv
<1>2. QED
  BY <1>1, Invariance, PTL

\* Under every fault, the ledger the running context was loaded with and has
\* extended since lies behind its nonce window.
THEOREM LoadedLedgerRejected == Spec => []SpentNoncesRejected
<1>1. IInv => SpentNoncesRejected
  BY DEF IInv
<1>2. QED
  BY <1>1, Invariance, PTL
--------------------------------------------------------------------------------
(***************************************************************************)
(* What has been announced survives, under every fault: unbacked tells     *)
(* which announcements the file does not back, and it is set by the faults *)
(* that lose a save (torn, disk), by --fresh-start, by a stray store into  *)
(* the outputs and by an unlock, until the file backs an announcement      *)
(* again.                                                                  *)
(***************************************************************************)

\* A context agrees with what the starter ECU has been told last.
Keeps(ctx) ==
  /\ LockOnBus => ctx.current_state = "BLOCKED"
  /\ announced <= ctx.last_valid_nonce

\* The inductive invariant: as long as the file backs it, what the bus says is in
\* the file, and in memory too until a release is under way.
SavedFirst ==
  /\ nvm.kind = "torn" => pc = "write" \/ unbacked
  /\ nvm.kind = "absent" => nvm = Absent
  /\ ~unbacked =>
       /\ context.current_state \in RebState
       /\ pc = "send" => Saved /\ ~Releasing
       /\ pc = "receive" => nvm.context.current_state = context.current_state
       /\ pc \in {"overrun", "open"} /\ Releasing => nvm.context.current_state = "BLOCKED"
       /\ pc # "write" => Keeps(nvm.context)
       /\ pc # "down" =>
            Keeps(context) \/ (pc \in {"overrun", "open", "write"} /\ Releasing)

\* A step of the core keeps what a context promises, or it is the release.
LEMMA CoreKeepsPromise ==
  ASSUME TypeOK, NEW in \in RebInputs, Core!Step(in), UNCHANGED <<bus, announced>>
  PROVE  /\ context'.current_state \in RebState
         /\ Keeps(context) => Keeps(context)' \/ Releasing'
         /\ Releasing' => context.current_state = "BLOCKED"
<1>1. RebInputs \subseteq CP!RebInputs
  BY SameTypes
<1>2. /\ in \in CP!RebInputs
      /\ CP!Step(in)
      /\ CP!Typed
      /\ CP!Typed'
  BY CoreStep
<1>3. \/ CP!SameLedger
      \/ CP!Enters(in.nonce) /\ in.nonce > context.last_valid_nonce
      \/ CP!Emptied /\ context.current_state = "BLOCKED"
  BY <1>1, <1>2, CP!LedgerStep, ModuliAssumption, CalibrationAssumption,
     SpeedsAssumption
<1>4. context.current_state = "BLOCKED" =>
        /\ outputs'.starter_lock
        /\ context'.current_state \in {"BLOCKED", "IDLE"}
  BY <1>1, <1>2, CP!BlockedStep, ModuliAssumption, CalibrationAssumption,
     SpeedsAssumption
<1>a. context.current_state # "BLOCKED" => ~outputs'.starter_lock
  BY <1>1, <1>2, CP!UnlockedStep, ModuliAssumption, CalibrationAssumption,
     SpeedsAssumption
<1>5. context'.current_state \in RebState
  BY <1>2, SameTypes DEF CP!Typed, RebContext, ContextsIn
<1>6. context'.current_state = "IDLE" \/ ~CP!Emptied
  BY SameTypes DEF CP!Emptied, Core!InitContext
<1>7. ASSUME Keeps(context), ~Releasing'
      PROVE  Keeps(context)'
  <2>1. ~(CP!Emptied /\ context.current_state = "BLOCKED")
    BY <1>4, <1>6, <1>7 DEF Releasing
  <2>2. /\ context.last_valid_nonce \in Int /\ in.nonce \in Int
        /\ announced \in Int
    BY DEF TypeOK, ContextsIn, RebInputs, Nonces
  <2>3. announced <= context'.last_valid_nonce
    <3>1. announced <= context.last_valid_nonce
      BY <1>7 DEF Keeps
    <3>2. CASE CP!SameLedger
      BY <3>1, <3>2 DEF CP!SameLedger
    <3>3. CASE CP!Enters(in.nonce) /\ in.nonce > context.last_valid_nonce
      <4>1. context'.last_valid_nonce = in.nonce
        BY <3>3 DEF CP!Enters
      <4>2. QED
        BY <2>2, <3>1, <3>3, <4>1
    <3>4. QED
      BY <1>3, <2>1, <3>2, <3>3
  <2>4. LockOnBus => context'.current_state = "BLOCKED"
    BY <1>4, <1>7 DEF Keeps, Releasing
  <2>5. LockOnBus' = LockOnBus /\ announced' = announced
    BY DEF LockOnBus
  <2>6. QED
    BY <2>3, <2>4, <2>5 DEF Keeps
<1>8. Releasing' => context.current_state = "BLOCKED"
  BY <1>a DEF Releasing
<1>9. QED
  BY <1>5, <1>7, <1>8

\* The frame that tells the starter ECU is the one the last step computed.
LEMMA SendTellsStarter ==
  ASSUME IInv, Send
  PROVE  \/ /\ Head(tx).msg_id = "REB_PREVENT_START"
            /\ LockOnBus' = outputs.starter_lock
            /\ announced' = context.last_valid_nonce
            /\ unbacked' = (unbacked /\ (Releasing \/ ~Saved))
         \/ /\ Head(tx).msg_id # "REB_PREVENT_START"
            /\ LockOnBus' = LockOnBus
            /\ announced' = announced
            /\ unbacked' = unbacked
<1>1. /\ pc = "send"
      /\ bus' = [bus EXCEPT ![Head(tx).msg_id] = Head(tx)]
      /\ DOMAIN bus = TxIds
      /\ unbacked \in BOOLEAN
      /\ outputs.starter_lock \in BOOLEAN
  BY DEF Send, IInv, TypeOK, MemoryOutputs
<1>2. CASE Head(tx).msg_id = "REB_PREVENT_START"
  <2>1. bus'["REB_PREVENT_START"] = PreventStartFrame(context, outputs)
    BY <1>1, <1>2, NextFrame DEF IInv, TxIds
  <2>2. LockOnBus' = outputs.starter_lock
    BY <1>1, <2>1 DEF PreventStartFrame, LockOnBus
  <2>3. announced' = context.last_valid_nonce
    BY <1>2 DEF Send
  <2>4. unbacked' = (unbacked /\ (Releasing \/ ~Saved))
    BY <1>2 DEF Send
  <2>5. QED
    BY <1>2, <2>2, <2>3, <2>4
<1>3. CASE Head(tx).msg_id # "REB_PREVENT_START"
  <2>1. LockOnBus' = LockOnBus
    BY <1>1, <1>3 DEF LockOnBus, TxIds
  <2>2. announced' = announced
    BY <1>3 DEF Send
  <2>3. unbacked' = (unbacked /\ TRUE)
    BY <1>3 DEF Send
  <2>4. QED
    BY <1>1, <1>3, <2>1, <2>2, <2>3
<1>4. QED
  BY <1>2, <1>3

\* The initial file, bus and memory agree.
LEMMA SavedFirstInit == Init => SavedFirst
<1> SUFFICES ASSUME Init PROVE SavedFirst
  OBVIOUS
<1>1. bus["REB_PREVENT_START"] = PreventStartFrame(Core!InitContext, Core!Silent)
  BY DEF Init, TxIds
<1>2. announced = 0 /\ ~LockOnBus
  BY <1>1 DEF Init, LockOnBus, PreventStartFrame, Core!InitContext, Core!Silent
<1>3. Keeps(Core!InitContext)
  BY <1>2 DEF Keeps, Core!InitContext
<1>4. /\ context = Core!InitContext /\ nvm.context = Core!InitContext
      /\ nvm = Absent /\ nvm.kind = "absent" /\ pc = "down"
  BY DEF Init, Absent
<1>5. QED
  BY <1>2, <1>3, <1>4 DEF SavedFirst, Core!InitContext, RebState

\* A step of the core.
LEMMA HandleSavesFirst ==
  ASSUME IInv, SavedFirst, NEW rx, Handle(rx),
         rx \in Messages \/ \E ms \in Millis : rx = TcuToReb("RETRY", ms)
  PROVE  SavedFirst'
<1>1. PICK in \in RebInputs : Core!Step(in) \/ StepInvalidState
  BY HandleStep DEF IInv
<1>2. /\ pc = "receive" /\ pc' \in {"overrun", "open"}
      /\ UNCHANGED <<nvm, tx, bus, announced, unbacked>>
  BY DEF Handle
<1>3. Keeps(nvm.context)' = Keeps(nvm.context)
  BY <1>2 DEF Keeps, LockOnBus
<1>4. CASE unbacked
  BY <1>2, <1>4 DEF SavedFirst, Absent
<1>5. CASE ~unbacked
  <2>1. Core!Step(in)
    BY <1>1, <1>5 DEF StepInvalidState, SavedFirst
  <2>2. /\ context'.current_state \in RebState
        /\ Keeps(context) => Keeps(context)' \/ Releasing'
        /\ Releasing' => context.current_state = "BLOCKED"
    BY <1>2, <2>1, CoreKeepsPromise DEF IInv
  <2>3. Keeps(context) /\ nvm.context.current_state = context.current_state
    BY <1>2, <1>5 DEF SavedFirst
  <2>4. QED
    BY <1>2, <1>3, <1>5, <2>2, <2>3 DEF SavedFirst, Absent
<1>6. QED
  BY <1>4, <1>5

\* A stray store makes the outputs unaccountable or leaves the promise alone.
LEMMA OverrunSavesFirst ==
  ASSUME IInv, SavedFirst, Overrun
  PROVE  SavedFirst'
<1>1. /\ pc = "overrun" /\ pc' = "open"
      /\ UNCHANGED <<nvm, bus, announced>>
  BY DEF Overrun
<1>2. /\ context'.current_state = context.current_state
      /\ context'.last_valid_nonce = context.last_valid_nonce
      /\ unbacked' \in BOOLEAN
  BY OverrunTypes DEF IInv
<1>3. CASE unbacked'
  <2>1. ~(pc = "write")
    BY <1>1
  <2>2. QED
    BY <1>1, <1>3, <2>1 DEF SavedFirst, Absent
<1>4. CASE ~unbacked'
  <2>1. outputs' = outputs /\ unbacked' = unbacked
    BY <1>4 DEF Overrun, OverrunContext, OverrunOutputs, OverrunInputs, OverrunClock
  <2>2. /\ Keeps(context)' = Keeps(context)
        /\ Keeps(nvm.context)' = Keeps(nvm.context)
        /\ Releasing' = Releasing
    BY <1>1, <1>2, <2>1 DEF Keeps, LockOnBus, Releasing
  <2>3. QED
    BY <1>1, <1>2, <1>4, <2>1, <2>2 DEF SavedFirst, Absent
<1>5. QED
  BY <1>3, <1>4

\* The save: completed, it makes the file hold what will be announced; lost, the
\* file backs what it backed before or nothing.
LEMMA SaveSavesFirst ==
  ASSUME IInv, SavedFirst, SaveOpen \/ SaveOpenFails \/ SaveWrite \/ SaveWriteFails
  PROVE  SavedFirst'
<1>a. unbacked \in BOOLEAN
  BY DEF IInv, TypeOK
<1>1. CASE SaveOpen
  <2>1. /\ pc = "open" /\ pc' = "write" /\ nvm' = Torn
        /\ UNCHANGED <<context, outputs, bus, announced, unbacked>>
    BY <1>1 DEF SaveOpen, core, history
  <2>2. Keeps(context)' = Keeps(context) /\ Releasing' = Releasing
    BY <2>1 DEF Keeps, LockOnBus, Releasing
  <2>3. nvm'.kind = "torn"
    BY <2>1 DEF Torn
  <2>4. QED
    BY <2>1, <2>2, <2>3 DEF SavedFirst
<1>2. CASE SaveOpenFails
  <2>1. /\ pc = "open" /\ pc' = "send"
        /\ unbacked' = (unbacked \/ ~Saved)
        /\ UNCHANGED <<context, outputs, spent, bus, announced, nvm>>
    BY <1>2 DEF SaveOpenFails, AfterExecute, core
  <2>2. /\ Keeps(context)' = Keeps(context)
        /\ Keeps(nvm.context)' = Keeps(nvm.context)
        /\ Releasing' = Releasing /\ Saved' = Saved
    BY <2>1 DEF Keeps, LockOnBus, Releasing, Saved
  <2>3. CASE unbacked'
    BY <2>1, <2>3 DEF SavedFirst, Absent
  <2>4. CASE ~unbacked'
    <3>1. ~unbacked /\ Saved
      BY <2>1, <2>4
    <3>2. nvm.context = context
      BY <3>1 DEF Saved, Record
    <3>3. ~Releasing
      BY <2>1, <3>1, <3>2 DEF SavedFirst, Releasing
    <3>4. Keeps(context) /\ context.current_state \in RebState
      BY <2>1, <3>1, <3>3 DEF SavedFirst
    <3>5. nvm'.kind = "record"
      BY <2>1, <3>1 DEF Saved, Record
    <3>6. QED
      BY <2>1, <2>2, <2>4, <3>1, <3>2, <3>3, <3>4, <3>5 DEF SavedFirst
  <2>5. QED
    BY <2>3, <2>4
<1>3. CASE SaveWrite
  <2>1. /\ pc = "write" /\ pc' = "send"
        /\ nvm' = Record(context, spent)
        /\ unbacked' = (unbacked \/ Releasing)
        /\ UNCHANGED <<context, outputs, spent, bus, announced>>
    BY <1>3 DEF SaveWrite, AfterExecute, core
  <2>2. nvm'.kind = "record" /\ nvm'.context = context
    BY <2>1 DEF Record
  <2>3. Saved'
    BY <2>1 DEF Saved, Record
  <2>4. Keeps(context)' = Keeps(context) /\ Releasing' = Releasing
    BY <2>1 DEF Keeps, LockOnBus, Releasing
  <2>5. Keeps(nvm.context)' = Keeps(context)
    BY <2>1, <2>2 DEF Keeps, LockOnBus
  <2>6. ~unbacked' => Keeps(context) /\ ~Releasing /\ context.current_state \in RebState
    BY <2>1, <1>a DEF SavedFirst
  <2>7. QED
    BY <2>1, <2>2, <2>3, <2>4, <2>5, <2>6 DEF SavedFirst
<1>4. CASE SaveWriteFails
  <2>1. unbacked' = TRUE /\ nvm' = nvm /\ pc' = "send"
    BY <1>4 DEF SaveWriteFails, AfterExecute
  <2>2. QED
    BY <2>1 DEF SavedFirst, Absent
<1>5. QED
  BY <1>1, <1>2, <1>3, <1>4

\* A frame is sent, the one to the starter ECU included.
LEMMA SendSavesFirst ==
  ASSUME IInv, SavedFirst, Send
  PROVE  SavedFirst'
<1>1. /\ pc = "send" /\ pc' \in {"receive", "send"}
      /\ UNCHANGED <<context, outputs, spent, nvm>>
  BY DEF Send, core
<1>2. /\ unbacked \in BOOLEAN
      /\ outputs.starter_lock \in BOOLEAN
      /\ context.current_state \in RebState
      /\ context.last_valid_nonce \in Int
  BY <1>1 DEF IInv, TypeOK, MemoryOutputs, ContextsIn, Nonces
<1>3. Releasing' = Releasing /\ Saved' = Saved
  BY <1>1 DEF Releasing, Saved
<1>4. ~unbacked => Saved /\ ~Releasing /\ Keeps(context)
  BY <1>1 DEF SavedFirst
<1>5. Saved => nvm.context = context /\ nvm.kind = "record"
  BY DEF Saved, Record
<1>6. CASE unbacked'
  <2>1. unbacked
    BY <1>6, SendTellsStarter
  <2>2. QED
    BY <1>1, <1>6, <2>1 DEF SavedFirst, Absent
<1>7. CASE ~unbacked'
  <2>1. Saved /\ ~Releasing /\ Keeps(context)'
    <3>1. CASE /\ Head(tx).msg_id = "REB_PREVENT_START"
               /\ LockOnBus' = outputs.starter_lock
               /\ announced' = context.last_valid_nonce
               /\ unbacked' = (unbacked /\ (Releasing \/ ~Saved))
      <4>1. Saved /\ ~Releasing
        BY <1>2, <1>4, <1>7, <3>1 DEF Releasing
      <4>2. announced' <= context.last_valid_nonce
        BY <1>2, <3>1
      <4>3. LockOnBus' => context.current_state = "BLOCKED"
        BY <3>1, <4>1 DEF Releasing
      <4>4. QED
        BY <1>1, <4>1, <4>2, <4>3 DEF Keeps
    <3>2. CASE /\ Head(tx).msg_id # "REB_PREVENT_START"
               /\ LockOnBus' = LockOnBus
               /\ announced' = announced
               /\ unbacked' = unbacked
      <4>1. Saved /\ ~Releasing /\ Keeps(context)
        BY <1>4, <1>7, <3>2
      <4>2. QED
        BY <1>1, <3>2, <4>1 DEF Keeps
    <3>3. QED
      BY <3>1, <3>2, SendTellsStarter
  <2>2. nvm'.context = context' /\ nvm'.kind = "record"
    BY <1>1, <1>5, <2>1
  <2>3. Keeps(nvm.context)' = Keeps(context)'
    BY <2>2 DEF Keeps
  <2>4. QED
    BY <1>1, <1>2, <1>3, <1>7, <2>1, <2>2, <2>3 DEF SavedFirst
<1>8. QED
  BY <1>6, <1>7

\* The process ends; a file caught between truncation and write backs nothing.
LEMMA HaltSavesFirst ==
  ASSUME SavedFirst, Halt
  PROVE  SavedFirst'
<1>1. /\ pc' = "down" /\ UNCHANGED <<nvm, bus, announced>>
      /\ unbacked' = (unbacked \/ pc = "write")
      /\ context' = Core!InitContext
  BY DEF Halt
<1>2. Keeps(nvm.context)' = Keeps(nvm.context)
  BY <1>1 DEF Keeps, LockOnBus
<1>3. context'.current_state \in RebState
  BY <1>1 DEF Core!InitContext, RebState
<1>4. QED
  BY <1>1, <1>2, <1>3 DEF SavedFirst, Absent

\* A file that was never written, or completely, gives back what it was given.
LEMMA LoadWhole ==
  ASSUME nvm.kind = "absent" => nvm = Absent, nvm.context \in RebContext,
         nvm.kind \in {"absent", "record"}, NEW load \in LoadOutcomes
  PROVE  /\ load.context.current_state = nvm.context.current_state
         /\ load.context.last_valid_nonce = nvm.context.last_valid_nonce
         /\ load.context.automatic_trigger_active = nvm.context.automatic_trigger_active
         /\ load.spent = nvm.spent
<1>1. CASE nvm.kind = "absent"
  BY <1>1 DEF LoadOutcomes, NotLoaded, Absent
<1>2. CASE nvm.kind = "record"
  <2>1. load = Loaded(nvm.context, nvm.spent)
    BY <1>2 DEF LoadOutcomes
  <2>2. QED
    BY <2>1 DEF Loaded, RebContext, ContextsIn
<1>3. QED
  BY <1>1, <1>2

\* The process starts with what the file holds, or the file is ignored.
LEMMA StartSavesFirst ==
  ASSUME IInv, SavedFirst, StartPersistent \/ StartFresh
  PROVE  SavedFirst'
<1>1. /\ pc = "down" /\ pc' = "receive"
      /\ UNCHANGED <<nvm, bus, announced>>
  BY DEF StartPersistent, StartFresh, Start
<1>2. CASE StartPersistent /\ ~unbacked
  <2>1. PICK load \in LoadOutcomes : Start(load.context, load.spent)
    BY <1>2 DEF StartPersistent
  <2>2. context' = load.context /\ unbacked' = unbacked
    BY <1>2, <2>1 DEF Start, StartPersistent
  <2>3. nvm.kind \in {"absent", "record"} /\ nvm.context \in RebContext
    BY <1>1, <1>2 DEF IInv, TypeOK, SavedFirst
  <2>4. /\ load.context.current_state = nvm.context.current_state
        /\ load.context.last_valid_nonce = nvm.context.last_valid_nonce
    BY <2>3, LoadWhole DEF SavedFirst
  <2>5. Keeps(nvm.context) /\ nvm.context.current_state \in RebState
    BY <1>1, <1>2, <2>3 DEF SavedFirst, RebContext, ContextsIn
  <2>6. Keeps(context)' /\ Keeps(nvm.context)'
    BY <1>1, <2>2, <2>4, <2>5 DEF Keeps, LockOnBus
  <2>7. QED
    BY <1>1, <2>2, <2>3, <2>4, <2>5, <2>6 DEF SavedFirst, Absent
<1>3. CASE unbacked'
  <2>1. pc # "write"
    BY <1>1
  <2>2. QED
    BY <1>1, <1>3, <2>1 DEF SavedFirst, Absent
<1>4. QED
  BY <1>2, <1>3 DEF StartPersistent, StartFresh

\* Every step preserves the invariant.
LEMMA SavedFirstStep ==
  ASSUME IInv, SavedFirst, [Next]_vars
  PROVE  SavedFirst'
<1>1. CASE Receive
  BY <1>1, HandleSavesFirst DEF Receive
<1>2. CASE Tick
  <2>1. PICK delta \in TickDeltas : Advance(delta) /\ Handle(TcuToReb("RETRY", sim_ms'))
    BY <1>2 DEF Tick
  <2>2. sim_ms' \in Millis
    BY <2>1, AdvanceTypes DEF IInv
  <2>3. QED
    BY <2>1, <2>2, HandleSavesFirst
<1>3. CASE SaveOpen \/ SaveOpenFails \/ SaveWrite \/ SaveWriteFails
  BY <1>3, SaveSavesFirst
<1>4. CASE Send
  BY <1>4, SendSavesFirst
<1>5. CASE LeaveLoop \/ SendFails \/ PowerLoss \/ OverrunStops
  BY <1>5, HaltSavesFirst DEF LeaveLoop, SendFails, PowerLoss, OverrunStops
<1>6. CASE StartPersistent \/ StartFresh
  BY <1>6, StartSavesFirst
<1>7. CASE TickLost \/ DashboardRestart \/ UNCHANGED vars
  <2>1. UNCHANGED <<context, outputs, spent, pc, nvm, bus, announced, unbacked>>
    BY <1>7 DEF TickLost, DashboardRestart, vars, core, history
  <2>2. /\ Keeps(context)' = Keeps(context) /\ Keeps(nvm.context)' = Keeps(nvm.context)
        /\ Releasing' = Releasing /\ Saved' = Saved
    BY <2>1 DEF Keeps, LockOnBus, Releasing, Saved
  <2>3. QED
    BY <2>1, <2>2 DEF SavedFirst, Absent
<1>8. CASE Overrun
  BY <1>8, OverrunSavesFirst
<1>9. QED
  BY <1>1, <1>2, <1>3, <1>4, <1>5, <1>6, <1>7, <1>8 DEF Next

\* The bus is never ahead of a file that backs it.
LEMMA SavedFirstAlways == Spec => []SavedFirst
<1>1. IInv /\ SavedFirst /\ [Next]_vars => SavedFirst'
  BY SavedFirstStep
<1>2. QED
  BY <1>1, SavedFirstInit, Invariance, PTL DEF Spec

\* NFR-REL-001: a starter the ECU was told to lock is found locked after any
\* stop, crash or restart, under every fault, unless the file does not back what
\* was said: a save was lost, the state file ignored or an unlock accepted.
THEOREM LockIsDurable == Spec => []LockSurvivesRestart
<1>1. SavedFirst => LockSurvivesRestart
  BY DEF SavedFirst, Keeps, LockSurvivesRestart
<1>2. QED
  BY <1>1, SavedFirstAlways, PTL

\* Under the same faults and the same exceptions, the nonce of the last command
\* accepted before a PREVENT_START went out, all 32 bits of it, is behind the
\* window after any stop, crash or restart.
THEOREM WindowIsDurable == Spec => []AnnouncedNonceStaysSpent
<1>1. SavedFirst => AnnouncedNonceStaysSpent
  BY DEF SavedFirst, Keeps, AnnouncedNonceStaysSpent
<1>2. QED
  BY <1>1, SavedFirstAlways, PTL
--------------------------------------------------------------------------------
(***************************************************************************)
(* Refinement.  Seen through the state file, a step of Immobilizer happens *)
(* when the file is opened to save it; until then memory is one step of    *)
(* Immobilizer ahead of the file, or none.  A save that is lost loses the  *)
(* step it was to commit, and --fresh-start all of them: here every save   *)
(* completes and every start reads the file.                               *)
(***************************************************************************)

FileIsKept == Faults \cap {"torn", "disk", "fresh"} = {}

\* The file is whole outside a save and the state in memory one of the enumeration.
FileWhole ==
  /\ (nvm.kind = "torn") = (pc = "write")
  /\ nvm.kind = "absent" => nvm = Absent
  /\ context.current_state \in RebState

\* The steps of Immobilizer and its stutter, as a relation between two states.
Follows(p, s, q, t) ==
  \/ q = p /\ t = s
  \/ /\ t = s
     /\ \/ p = "idle" /\ q = "warned"
        \/ p \in {"warned", "armed"} /\ q \in {"idle", "blocking"}
        \/ p = "blocking" /\ q = "blocked"
  \/ \E n \in Nonces :
       /\ \A m \in s : n > m
       /\ \/ p = "idle" /\ q \in {"armed", "blocking"} /\ t = s \cup {n}
          \/ p = "blocked" /\ q = p /\ t = s \cup {n}
          \/ p = "blocked" /\ q = "idle" /\ t = {}

Committing ==
  /\ pc \in {"overrun", "open"} =>
       Follows(Core!PhaseOf(nvm.context), nvm.spent, Core!PhaseOf(context), spent)
  /\ pc \in {"receive", "send"} =>
       Core!PhaseOf(context) = Core!PhaseOf(nvm.context) /\ spent = nvm.spent

\* The phase depends on two fields of the context, in both instances of the core.
LEMMA PhaseFields ==
  ASSUME NEW ctx, NEW other,
         ctx.current_state = other.current_state,
         ctx.automatic_trigger_active = other.automatic_trigger_active
  PROVE  Core!PhaseOf(ctx) = Core!PhaseOf(other)
  BY DEF Core!PhaseOf

LEMMA SamePhase ==
  ASSUME NEW ctx
  PROVE  CP!PhaseOf(ctx) = Core!PhaseOf(ctx)
  BY DEF CP!PhaseOf, Core!PhaseOf

\* A step of the core is a step of Immobilizer.
LEMMA StepFollows ==
  ASSUME IInv, NEW in \in RebInputs, Core!Step(in)
  PROVE  Follows(Core!PhaseOf(context), spent, Core!PhaseOf(context'), spent')
<1>1. RebInputs \subseteq CP!RebInputs
  BY SameTypes
<1>2. /\ in \in CP!RebInputs
      /\ CP!Step(in)
      /\ CP!Typed
      /\ CP!LedgerBounded
  BY CoreStep DEF IInv, SpentNoncesRejected, CP!LedgerBounded
<1>3. [CP!Promise!Next]_(CP!Promise!vars)
  BY <1>1, <1>2, CP!StepSimulation, ModuliAssumption, CalibrationAssumption,
     SpeedsAssumption
<1> DEFINE p == CP!PhaseOf(context)
           q == CP!PhaseOf(context')
<1>4. Follows(p, spent, q, spent')
  <2>1. CASE CP!Promise!Next
    BY <2>1, SameTypes
    DEF Follows, CP!Promise!Next, CP!Promise!Warn, CP!Promise!Cancel,
        CP!Promise!Engage, CP!Promise!Lock, CP!Promise!Arm, CP!Promise!Burn,
        CP!Promise!Release, CP!Promise!Fresh
  <2>2. CASE UNCHANGED CP!Promise!vars
    BY <2>2 DEF Follows, CP!Promise!vars
  <2>3. QED
    BY <1>3, <2>1, <2>2
<1>5. QED
  BY <1>4, SamePhase

\* What the file is going to hold moves as Immobilizer does.
LEMMA FollowsIsStep ==
  ASSUME Follows(Core!PhaseOf(Durable.context), Durable.spent,
                 Core!PhaseOf(Durable'.context), Durable'.spent)
  PROVE  [DurablePromise!Next]_(DurablePromise!vars)
  BY DEF Follows, DurablePromise!Next, DurablePromise!Warn, DurablePromise!Cancel,
         DurablePromise!Engage, DurablePromise!Lock, DurablePromise!Arm,
         DurablePromise!Burn, DurablePromise!Release, DurablePromise!Fresh,
         DurablePromise!vars

\* With nothing under way the file and the memory agree.
LEMMA CommittingInit == Init => FileWhole /\ Committing
  BY DEF Init, Committing, FileWhole, Absent, Core!InitContext, RebState

\* Every step moves the file as Immobilizer does and keeps memory one step ahead.
LEMMA CommittingStep ==
  ASSUME FileIsKept, IInv, FileWhole, Committing, [Next]_vars
  PROVE  /\ FileWhole' /\ Committing'
         /\ [DurablePromise!Next]_(DurablePromise!vars)
<1>a. ASSUME Durable' = Durable
      PROVE  [DurablePromise!Next]_(DurablePromise!vars)
  BY <1>a, FollowsIsStep DEF Follows
<1>1. ASSUME NEW rx, Handle(rx),
             rx \in Messages \/ \E ms \in Millis : rx = TcuToReb("RETRY", ms)
      PROVE  FileWhole' /\ Committing' /\ Durable' = Durable
  <2>1. PICK in \in RebInputs : Core!Step(in)
    BY <1>1, HandleStep DEF IInv, StepInvalidState, FileWhole
  <2>2. pc = "receive" /\ pc' \in {"overrun", "open"} /\ nvm' = nvm
    BY <1>1 DEF Handle
  <2>3. Follows(Core!PhaseOf(context), spent, Core!PhaseOf(context'), spent')
    BY <2>1, StepFollows
  <2>4. CP!Typed'
    BY <2>1, CoreStep DEF IInv
  <2>5. context'.current_state \in RebState
    BY <2>4, SameTypes DEF CP!Typed, RebContext, ContextsIn
  <2>6. FileWhole'
    BY <2>2, <2>5 DEF FileWhole, Absent
  <2>7. QED
    BY <2>2, <2>3, <2>6 DEF Committing, Durable
<1>2. CASE Receive
  BY <1>2, <1>1, <1>a DEF Receive
<1>3. CASE Tick
  <2>1. PICK delta \in TickDeltas : Advance(delta) /\ Handle(TcuToReb("RETRY", sim_ms'))
    BY <1>3 DEF Tick
  <2>2. sim_ms' \in Millis
    BY <2>1, AdvanceTypes DEF IInv
  <2>3. QED
    BY <2>1, <2>2, <1>1, <1>a
<1>4. CASE SaveOpen
  <2>1. pc = "open" /\ pc' = "write" /\ nvm' = Torn /\ UNCHANGED <<context, spent>>
    BY <1>4 DEF SaveOpen, core
  <2>2. Durable = nvm /\ Durable' = Record(context, spent)
    BY <2>1 DEF Durable, Record
  <2>3. Durable'.context = context /\ Durable'.spent = spent
    BY <2>2 DEF Record
  <2>4. Follows(Core!PhaseOf(Durable.context), Durable.spent,
                Core!PhaseOf(Durable'.context), Durable'.spent)
    BY <2>1, <2>2, <2>3 DEF Committing
  <2>5. Committing'
    BY <2>1 DEF Committing
  <2>6. FileWhole'
    BY <2>1 DEF FileWhole, Torn
  <2>7. QED
    BY <2>4, <2>5, <2>6, FollowsIsStep
<1>5. CASE SaveWrite
  <2>1. /\ pc = "write" /\ pc' = "send" /\ nvm' = Record(context, spent)
        /\ UNCHANGED <<context, spent>>
    BY <1>5 DEF SaveWrite, AfterExecute, core
  <2>2. Durable' = Durable
    BY <2>1 DEF Durable, Record
  <2>3. nvm'.context = context /\ nvm'.spent = spent /\ nvm'.kind = "record"
    BY <2>1 DEF Record
  <2>4. Committing' /\ FileWhole'
    BY <2>1, <2>3 DEF Committing, FileWhole
  <2>5. QED
    BY <2>2, <2>4, <1>a
<1>6. CASE Send
  <2>1. /\ pc = "send" /\ pc' \in {"receive", "send"}
        /\ UNCHANGED <<context, spent, nvm>>
    BY <1>6 DEF Send, core
  <2>2. Committing' /\ FileWhole' /\ Durable' = Durable
    BY <2>1 DEF Committing, FileWhole, Absent, Durable
  <2>3. QED
    BY <2>2, <1>a
<1>7. CASE LeaveLoop \/ SendFails \/ PowerLoss \/ OverrunStops
  <2>1. /\ pc # "write" /\ pc' = "down" /\ nvm' = nvm
        /\ context' = Core!InitContext
    BY <1>7 DEF LeaveLoop, SendFails, PowerLoss, OverrunStops, Halt, FileIsKept
  <2>2. Committing' /\ Durable' = Durable
    BY <2>1 DEF Committing, Durable
  <2>3. FileWhole'
    BY <2>1 DEF FileWhole, Absent, Core!InitContext, RebState
  <2>4. QED
    BY <2>2, <2>3, <1>a
<1>8. CASE StartPersistent
  <2>1. PICK load \in LoadOutcomes : Start(load.context, load.spent)
    BY <1>8 DEF StartPersistent
  <2>2. /\ pc = "down" /\ pc' = "receive" /\ nvm' = nvm
        /\ context' = load.context /\ spent' = load.spent
    BY <2>1 DEF Start
  <2>3. nvm.kind \in {"absent", "record"} /\ nvm.context \in RebContext
    BY <2>2 DEF IInv, TypeOK, FileWhole
  <2>4. /\ load.context.current_state = nvm.context.current_state
        /\ load.context.automatic_trigger_active = nvm.context.automatic_trigger_active
        /\ load.spent = nvm.spent
    BY <2>3, LoadWhole DEF FileWhole
  <2>5. Core!PhaseOf(load.context) = Core!PhaseOf(nvm.context)
    BY <2>4, PhaseFields
  <2>6. Committing' /\ Durable' = Durable
    BY <2>2, <2>4, <2>5 DEF Committing, Durable
  <2>7. FileWhole'
    BY <2>2, <2>3, <2>4 DEF FileWhole, Absent, RebContext, ContextsIn
  <2>8. QED
    BY <2>6, <2>7, <1>a
<1>9. CASE TickLost \/ DashboardRestart \/ UNCHANGED vars
  <2>1. UNCHANGED <<context, spent, pc, nvm>>
    BY <1>9 DEF TickLost, DashboardRestart, vars, core
  <2>2. Committing' /\ FileWhole' /\ Durable' = Durable
    BY <2>1 DEF Committing, FileWhole, Absent, Durable
  <2>3. QED
    BY <2>2, <1>a
<1>10. CASE Overrun
  <2>1. /\ pc = "overrun" /\ pc' = "open"
        /\ UNCHANGED <<nvm, spent>>
    BY <1>10 DEF Overrun
  <2>2. /\ context'.current_state = context.current_state
        /\ context'.automatic_trigger_active = context.automatic_trigger_active
    BY <1>10, OverrunTypes DEF IInv
  <2>3. Core!PhaseOf(context') = Core!PhaseOf(context)
    BY <2>2, PhaseFields
  <2>4. Committing' /\ FileWhole' /\ Durable' = Durable
    BY <2>1, <2>2, <2>3 DEF Committing, FileWhole, Absent, Durable
  <2>5. QED
    BY <2>4, <1>a
<1>11. QED
  BY <1>2, <1>3, <1>4, <1>5, <1>6, <1>7, <1>8, <1>9, <1>10
  DEF Next, FileIsKept, SaveOpenFails, SaveWriteFails, StartFresh

\* Across stops, power loss, lost ticks and dashboard restarts the state file keeps the promise of
\* Immobilizer: an opened save commits one step of it or none, and no restart
\* takes one back.
THEOREM DurableRefinement ==
  ASSUME FileIsKept
  PROVE  Spec => ImplementsImmobilizer
<1>1. Init => DurablePromise!Init
  <2> SUFFICES ASSUME Init PROVE DurablePromise!Init
    OBVIOUS
  <2>1. Durable.context = Core!InitContext /\ Durable.spent = {}
    BY DEF Init, Durable, Absent
  <2>2. Core!PhaseOf(Core!InitContext) = "idle"
    BY DEF Core!PhaseOf, Core!InitContext
  <2>3. QED
    BY <2>1, <2>2 DEF DurablePromise!Init
<1>2. IInv /\ FileWhole /\ Committing /\ [Next]_vars => FileWhole' /\ Committing'
  BY CommittingStep
<1>3. IInv /\ FileWhole /\ Committing /\ [Next]_vars =>
        [DurablePromise!Next]_(DurablePromise!vars)
  BY CommittingStep
<1>4. QED
  BY <1>1, <1>2, <1>3, CommittingInit, Invariance, PTL
  DEF Spec, ImplementsImmobilizer, DurablePromise!Spec
--------------------------------------------------------------------------------
(***************************************************************************)
(* The latched speed.  It is the last report, in whole km/h, as long as no *)
(* stray store can hit it: every save completes, so that the write index   *)
(* never comes from uninitialised memory.                                  *)
(***************************************************************************)

SavesComplete == Faults \cap {"torn", "disk"} = {}

\* The write index is in the ring, and the core has just not stored beyond it.
InRing == pc # "overrun" /\ context.nonce_history_index \in HistorySlots

SpeedLatched ==
  /\ nvm.kind = "torn" => pc = "write"
  /\ nvm.context.nonce_history_index \in HistorySlots
  /\ pc = "down" => context.current_state = "IDLE"
  /\ InRing
  /\ moving = (inputs.vehicle_speed_kmh >= 100)

\* The step that NoLockOnTheMove speaks of.
LocksAtRest ==
  context.current_state = "BLOCKING" /\ context'.current_state = "BLOCKED" => ~moving'

\* A context that has just been initialised is inside the ring.
LEMMA InitInRing == Core!InitContext.nonce_history_index \in HistorySlots
  BY CalibrationAssumption, ModuliAssumption DEF Core!InitContext, HistorySlots

\* A step of the core from inside the ring ends inside the ring.
LEMMA HandleInRing ==
  ASSUME IInv, InRing, NEW rx, Handle(rx),
         rx \in Messages \/ \E ms \in Millis : rx = TcuToReb("RETRY", ms)
  PROVE  InRing' /\ pc' = "open"
<1>1. PICK in \in RebInputs : Core!Step(in) \/ StepInvalidState
  BY HandleStep DEF IInv
<1>2. pc' = "open"
  BY DEF Handle, InRing
<1>3. RebInputs \subseteq CP!RebInputs
  BY SameTypes
<1>4. context'.nonce_history_index \in HistorySlots
  <2>1. CASE Core!Step(in)
    <3>1. in \in CP!RebInputs /\ CP!Step(in) /\ CP!Typed
      BY <2>1, CoreStep DEF IInv
    <3>2. CP!HistorySlots = HistorySlots
      BY DEF CP!HistorySlots, HistorySlots
    <3>3. QED
      BY <1>3, <3>1, <3>2, CP!IndexStep, ModuliAssumption, CalibrationAssumption,
         SpeedsAssumption DEF InRing
  <2>2. CASE StepInvalidState
    BY <2>2, InitInRing DEF StepInvalidState
  <2>3. QED
    BY <1>1, <2>1, <2>2
<1>5. QED
  BY <1>2, <1>4 DEF InRing

\* The starter is locked by a step whose speed is at most half a km/h.
LEMMA LockStep ==
  ASSUME TypeOK, NEW in \in RebInputs, Core!Step(in),
         context.current_state = "BLOCKING", context'.current_state = "BLOCKED"
  PROVE  in.vehicle_speed_kmh <= 50
<1>1. Core!BlockingMoving(in) \/ Core!BlockingStopped(in)
  BY DEF Core!Step, Core!IdleIntrusion, Core!IdleRemoteBlock,
         Core!RemoteBlockAccepted, Core!IdleNothing, Core!TheftCancel,
         Core!TheftStationary, Core!TheftWindowExpired, Core!TheftWaiting,
         Core!BlockedHold, Core!BlockedUnlock, Core!BlockedUnlockUnacknowledged,
         Core!BlockedUnlockInvalid
<1>2. ~Core!BlockingMoving(in)
  BY DEF Core!BlockingMoving, TypeOK, ContextsIn
<1>3. QED
  BY <1>1, <1>2 DEF Core!BlockingStopped, Core!SlowEnough,
                    Core!REB_MAX_ALLOWED_SPEED_FOR_LOCK

\* Whole km/h: a report of 1 km/h or more is a latched speed of 1 km/h or more.
LEMMA WholeKmh ==
  ASSUME NEW centi \in Nat
  PROVE  (centi >= 100) = (100 * (centi \div 100) >= 100)
<1> DEFINE q == centi \div 100
<1>1. q \in Nat /\ 100 * q <= centi /\ centi < 100 * q + 100
  OBVIOUS
<1> HIDE DEF q
<1>2. (centi >= 100) <=> (100 * q >= 100)
  BY <1>1
<1>3. QED
  BY <1>2 DEF q

\* A message latches the speed it reports; no other message touches it.
LEMMA RxSpeed ==
  ASSUME NEW rx \in Messages, NEW in \in RebInputs, NEW now \in Millis
  PROVE  RxToInputs(rx, in, now).vehicle_speed_kmh =
           IF rx.msg_id = "VEHICLE_STATE" THEN ReportedSpeed(rx)
           ELSE in.vehicle_speed_kmh
<1>1. [in EXCEPT !.timestamp_ms = now] \in RebInputs
  BY DEF RebInputs
<1>2. [in EXCEPT !.timestamp_ms = now].vehicle_speed_kmh = in.vehicle_speed_kmh
  BY DEF RebInputs
<1>3. QED
  BY <1>1, <1>2 DEF RxToInputs, RebInputs

\* What is latched agrees with the last report after a tick too.
LEMMA HandleLatches ==
  ASSUME IInv, moving = (inputs.vehicle_speed_kmh >= 100), NEW rx, Handle(rx),
         rx \in Messages \/ \E ms \in Millis : rx = TcuToReb("RETRY", ms)
  PROVE  moving' = (inputs'.vehicle_speed_kmh >= 100)
<1>1. inputs \in RebInputs /\ now_ms \in Millis
  BY DEF IInv, TypeOK
<1>2. CASE rx \in Messages
  <2>1. inputs' = RxToInputs(rx, inputs, now_ms)
    BY <1>2, MessagesAssumption DEF Handle
  <2>2. CASE rx.msg_id = "VEHICLE_STATE"
    <3>1. rx.vehicle_speed_centi_kmh \in Nat
      BY <1>2, <2>2, MessagesAssumption
    <3>2. inputs'.vehicle_speed_kmh = 100 * (rx.vehicle_speed_centi_kmh \div 100)
      BY <1>1, <1>2, <2>1, <2>2, RxSpeed DEF ReportedSpeed
    <3>3. moving' = (rx.vehicle_speed_centi_kmh >= 100)
      BY <2>2 DEF Handle
    <3>4. QED
      BY <3>1, <3>2, <3>3, WholeKmh
  <2>3. CASE rx.msg_id # "VEHICLE_STATE"
    <3>1. inputs'.vehicle_speed_kmh = inputs.vehicle_speed_kmh
      BY <1>1, <1>2, <2>1, <2>3, RxSpeed
    <3>2. moving' = moving
      BY <2>3 DEF Handle
    <3>3. QED
      BY <3>1, <3>2
  <2>4. QED
    BY <2>2, <2>3
<1>3. CASE \E ms \in Millis : rx = TcuToReb("RETRY", ms)
  <2>1. IsTimeTick(rx) /\ rx.msg_id # "VEHICLE_STATE"
    BY <1>3 DEF IsTimeTick, TcuToReb
  <2>2. inputs'.vehicle_speed_kmh = inputs.vehicle_speed_kmh /\ moving' = moving
    BY <1>1, <2>1 DEF Handle, RebInputs
  <2>3. QED
    BY <2>2
<1>4. QED
  BY <1>2, <1>3

\* A message, a tick included, keeps the latch and locks at rest only.
LEMMA HandleLocksAtRest ==
  ASSUME IInv, SpeedLatched, NEW rx, Handle(rx),
         rx \in Messages \/ \E ms \in Millis : rx = TcuToReb("RETRY", ms)
  PROVE  SpeedLatched' /\ LocksAtRest
<1>1. moving' = (inputs'.vehicle_speed_kmh >= 100)
  BY HandleLatches DEF SpeedLatched
<1>2. InRing' /\ pc = "receive" /\ pc' = "open" /\ nvm' = nvm
  BY HandleInRing DEF SpeedLatched, Handle
<1>3. SpeedLatched'
  BY <1>1, <1>2 DEF SpeedLatched
<1>4. ASSUME context.current_state = "BLOCKING", context'.current_state = "BLOCKED"
      PROVE  ~moving'
  <2>1. PICK in \in RebInputs : (Core!Step(in) \/ StepInvalidState) /\ inputs' = in
    BY HandleStep DEF IInv
  <2>2. Core!Step(in)
    BY <1>4, <2>1 DEF StepInvalidState, RebState
  <2>3. in.vehicle_speed_kmh <= 50
    BY <1>4, <2>2, LockStep DEF IInv
  <2>4. in.vehicle_speed_kmh \in Nat
    BY SpeedsAssumption DEF RebInputs
  <2>5. ~(inputs'.vehicle_speed_kmh >= 100)
    BY <2>1, <2>3, <2>4
  <2>6. QED
    BY <1>1, <2>5, Zenon
<1>5. QED
  BY <1>3, <1>4 DEF LocksAtRest

\* A vehicle at rest does not move.
LEMMA AtRest == FALSE = (0 >= 100)
  OBVIOUS

\* A new server has had no report and a speed of 0.
LEMMA SpeedLatchedInit == Init => SpeedLatched
<1> SUFFICES ASSUME Init PROVE SpeedLatched
  OBVIOUS
<1>1. /\ nvm.kind = "absent" /\ nvm.context = Core!InitContext
      /\ context = Core!InitContext /\ pc = "down"
      /\ moving = FALSE /\ inputs.vehicle_speed_kmh = 0
  BY DEF Init, Absent, ZeroInputs
<1>2. Core!InitContext.current_state = "IDLE"
  BY DEF Core!InitContext
<1>3. moving = (inputs.vehicle_speed_kmh >= 100)
  BY <1>1, AtRest, Zenon
<1>4. QED
  BY <1>1, <1>2, <1>3, InitInRing DEF SpeedLatched, InRing

\* Every step keeps the latch, and locks at rest only.
LEMMA SpeedLatchedStep ==
  ASSUME SavesComplete, IInv, SpeedLatched, [Next]_vars
  PROVE  SpeedLatched' /\ LocksAtRest
<1>1. CASE Receive
  BY <1>1, HandleLocksAtRest DEF Receive
<1>2. CASE Tick
  <2>1. PICK delta \in TickDeltas : Advance(delta) /\ Handle(TcuToReb("RETRY", sim_ms'))
    BY <1>2 DEF Tick
  <2>2. sim_ms' \in Millis
    BY <2>1, AdvanceTypes DEF IInv
  <2>3. QED
    BY <2>1, <2>2, HandleLocksAtRest
<1>3. CASE SaveOpen
  <2>1. /\ pc' = "write" /\ nvm' = Torn
        /\ UNCHANGED <<context, inputs, moving>>
    BY <1>3 DEF SaveOpen, core, history
  <2>2. QED
    BY <2>1, InitInRing DEF SpeedLatched, InRing, LocksAtRest, Torn
<1>4. CASE SaveWrite
  <2>1. /\ pc' = "send" /\ nvm' = Record(context, spent)
        /\ UNCHANGED <<context, moving>>
        /\ inputs' = ClearTransient(inputs)
    BY <1>4 DEF SaveWrite, AfterExecute, core
  <2>2. inputs'.vehicle_speed_kmh = inputs.vehicle_speed_kmh
    BY <2>1 DEF ClearTransient, IInv, TypeOK, RebInputs
  <2>3. nvm'.kind = "record" /\ nvm'.context = context
    BY <2>1 DEF Record
  <2>4. QED
    BY <2>1, <2>2, <2>3 DEF SpeedLatched, InRing, LocksAtRest
<1>5. CASE Send
  <2>1. /\ pc = "send" /\ pc' \in {"receive", "send"}
        /\ UNCHANGED <<context, inputs, nvm, moving>>
    BY <1>5 DEF Send, core
  <2>2. QED
    BY <2>1 DEF SpeedLatched, InRing, LocksAtRest
<1>6. CASE LeaveLoop \/ SendFails \/ PowerLoss \/ OverrunStops
  <2>1. /\ pc # "write" /\ pc' = "down" /\ nvm' = nvm /\ moving' = FALSE
        /\ inputs' = ZeroInputs /\ context' = Core!InitContext
    BY <1>6 DEF LeaveLoop, SendFails, PowerLoss, OverrunStops, Halt, SavesComplete
  <2>2. Core!InitContext.current_state = "IDLE" /\ inputs'.vehicle_speed_kmh = 0
    BY <2>1 DEF Core!InitContext, ZeroInputs
  <2>3. moving' = (inputs'.vehicle_speed_kmh >= 100)
    BY <2>1, <2>2, AtRest, Zenon
  <2>4. QED
    BY <2>1, <2>2, <2>3, InitInRing DEF SpeedLatched, InRing, LocksAtRest
<1>7. CASE StartPersistent \/ StartFresh
  <2>1. /\ pc = "down" /\ pc' = "receive"
        /\ UNCHANGED <<inputs, nvm, moving>>
    BY <1>7 DEF StartPersistent, StartFresh, Start
  <2>2. context'.nonce_history_index \in HistorySlots
    <3>1. CASE StartPersistent
      <4>1. PICK load \in LoadOutcomes : context' = load.context
        BY <3>1 DEF StartPersistent, Start
      <4>2. CASE nvm.kind = "absent"
        BY <4>1, <4>2, InitInRing DEF LoadOutcomes, NotLoaded
      <4>3. CASE nvm.kind = "record"
        <5>1. load = Loaded(nvm.context, nvm.spent)
          BY <4>3 DEF LoadOutcomes
        <5>2. nvm.context \in RebContext
          BY DEF IInv, TypeOK
        <5>3. load.context.nonce_history_index = nvm.context.nonce_history_index
          BY <5>1, <5>2 DEF Loaded, RebContext, ContextsIn
        <5>4. QED
          BY <4>1, <5>3 DEF SpeedLatched
      <4>4. QED
        BY <2>1, <4>2, <4>3 DEF SpeedLatched, IInv, TypeOK
    <3>2. CASE StartFresh
      BY <3>2, InitInRing DEF StartFresh, Start
    <3>3. QED
      BY <1>7, <3>1, <3>2
  <2>3. QED
    BY <2>1, <2>2 DEF SpeedLatched, InRing, LocksAtRest
<1>8. CASE TickLost \/ DashboardRestart \/ UNCHANGED vars
  <2>1. UNCHANGED <<context, pc, inputs, nvm, moving>>
    BY <1>8 DEF TickLost, DashboardRestart, vars, core, history
  <2>2. QED
    BY <2>1 DEF SpeedLatched, InRing, LocksAtRest
<1>9. ~Overrun
  BY DEF Overrun, SpeedLatched, InRing
<1>10. QED
  BY <1>1, <1>2, <1>3, <1>4, <1>5, <1>6, <1>7, <1>8, <1>9
  DEF Next, SavesComplete, SaveOpenFails, SaveWriteFails

\* Whatever messages come between the last report and the lock, and across stops,
\* power loss and restarts, the core does not lock the starter while the running
\* process's last report is of 1 km/h or more.
THEOREM LockAtRest ==
  ASSUME SavesComplete
  PROVE  Spec => NoLockOnTheMove
<1>1. IInv /\ SpeedLatched /\ [Next]_vars => SpeedLatched' /\ [LocksAtRest]_vars
  BY SpeedLatchedStep
<1>2. QED
  BY <1>1, SpeedLatchedInit, Invariance, PTL
  DEF Spec, NoLockOnTheMove, LocksAtRest
===============================================================================
