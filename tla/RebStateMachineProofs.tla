------------------------- MODULE RebStateMachineProofs -------------------------
(***************************************************************************)
(* Theorems of RebStateMachine for every size of the ring buffer, every    *)
(* nonce window, every modulus and every calibration, with their proofs.   *)
(*                                                                         *)
(* The argument about nonces: a step leaves the ledger (the history        *)
(* variable spent and the three nonce fields of the context) alone, adds   *)
(* one nonce newer than all it holds, or empties it together with the      *)
(* context (LedgerStep).  Hence last_valid_nonce bounds the ledger and the *)
(* ring buffer stays in order of age.                                      *)
(***************************************************************************)
EXTENDS RebStateMachine, TLAPS

\* What the types alone say, wherever the write index stands.
Typed ==
  /\ context \in RebContext
  /\ spent \subseteq Nonces
  /\ accepted \in Nonces

\* The nonce accepted last is the newest.
LedgerBounded == \A n \in spent : n <= context.last_valid_nonce

\* The lock is on already, or the step that entered BLOCKED gave the alarm.
BlockedIsAnnounced ==
  context.current_state = "BLOCKED" =>
    outputs.starter_lock \/ (outputs.visual_alert /\ outputs.acoustic_alert)

\* The inductive invariant.
IInv ==
  /\ TypeOK
  /\ LedgerBounded
  /\ HistoryInOrder
  /\ HistoryKeepsNewest
  /\ AutomaticOnlyInTheft
  /\ BlockedIsAnnounced

--------------------------------------------------------------------------------
(* Types *)

\* The range of the write index has room for every slot of the ring.
LEMMA SlotsFit == HistorySlots \subseteq UInt8
  BY CalibrationAssumption, ModuliAssumption DEF HistorySlots, UInt8

\* The increment of the write index ends up inside the ring, from wherever it
\* starts, and inside the ring it wraps at the end.
LEMMA NextSlot ==
  ASSUME NEW i \in UInt8
  PROVE  /\ (i + 1) % REB_NONCE_HISTORY_SIZE \in HistorySlots
         /\ i \in HistorySlots =>
              (i + 1) % REB_NONCE_HISTORY_SIZE =
                IF i + 1 = REB_NONCE_HISTORY_SIZE THEN 0 ELSE i + 1
<1>1. i + 1 \in Nat /\ REB_NONCE_HISTORY_SIZE \in Nat \ {0}
  BY CalibrationAssumption, ModuliAssumption DEF UInt8
<1>2. (i + 1) % REB_NONCE_HISTORY_SIZE \in HistorySlots
  BY <1>1 DEF HistorySlots
<1>3. ASSUME i \in HistorySlots
      PROVE  (i + 1) % REB_NONCE_HISTORY_SIZE =
               IF i + 1 = REB_NONCE_HISTORY_SIZE THEN 0 ELSE i + 1
  BY <1>1, <1>3 DEF HistorySlots
<1>4. QED
  BY <1>2, <1>3

\* The context reb_state_machine_init leaves behind is well typed.
LEMMA InitContextType == InitContext \in RebContext
  BY ModuliAssumption, CalibrationAssumption
  DEF InitContext, RebContext, ContextsIn, RebState, Millis, Nonces, UInt8,
      HistorySlots

\* Accepting a nonce keeps the context in its type and brings the write index
\* into the ring.
LEMMA ConsumeNonceType ==
  ASSUME NEW ctx \in RebContext, NEW in \in RebInputs
  PROVE  /\ ConsumeNonce(in, ctx) \in RebContext
         /\ ConsumeNonce(in, ctx).nonce_history_index \in HistorySlots
<1>1. ctx.nonce_history_index \in UInt8
  BY DEF RebContext, ContextsIn
<1>2. (ctx.nonce_history_index + 1) % REB_NONCE_HISTORY_SIZE \in HistorySlots
  BY <1>1, NextSlot
<1>3. QED
  BY <1>2, SlotsFit DEF ConsumeNonce, StoreNonce, RebContext, ContextsIn, RebInputs

\* The uint8_t counter of invalid attempts wraps instead of leaving its range.
LEMMA CountInvalidAttemptsType ==
  ASSUME NEW ctx \in RebContext, NEW n \in Nat
  PROVE  CountInvalidAttempts(ctx, n) \in RebContext
<1>1. (ctx.invalid_unlock_attempts + n) % UINT8_MODULUS \in UInt8
  BY ModuliAssumption DEF RebContext, ContextsIn, UInt8
<1>2. QED
  BY <1>1 DEF CountInvalidAttempts, RebContext, ContextsIn

\* The outputs of every state are well typed, the derating of both speeds included.
LEMMA OutputTypes ==
  /\ Silent \in RebOutputs
  /\ Alarm \in RebOutputs
  /\ \A due \in BOOLEAN : Locked(due) \in RebOutputs
  /\ \A percent \in 0 .. REB_DERATE_MAX_PERCENT :
       [Alarm EXCEPT !.derate_percent = percent] \in RebOutputs
<1> USE DEF RebOutputs, REB_DERATE_MAX_PERCENT
<1>1. Silent \in RebOutputs
  BY DEF Silent
<1>2. Alarm \in RebOutputs
  BY <1>1 DEF Alarm
<1>3. ASSUME NEW due \in BOOLEAN
      PROVE  Locked(due) \in RebOutputs
  BY <1>3 DEF Locked
<1>4. ASSUME NEW percent \in 0 .. REB_DERATE_MAX_PERCENT
      PROVE  [Alarm EXCEPT !.derate_percent = percent] \in RebOutputs
  BY <1>2, <1>4
<1>5. QED
  BY <1>1, <1>2, <1>3, <1>4

\* reb_apply_derating only ever starts from the zero of the memset, so what it
\* commands is one step when fast and the minimum otherwise: never a ramp.
LEMMA DeratingIsFlat ==
  ASSUME NEW in \in RebInputs
  PROVE  ApplyDerating(in, Alarm.derate_percent) \in
           {REB_DERATE_STEP_PERCENT, REB_DERATE_MIN_PERCENT}
<1>1. Alarm.derate_percent = 0
  BY DEF Alarm, Silent
<1>2. QED
  BY <1>1 DEF ApplyDerating, REB_DERATE_MAX_PERCENT, REB_DERATE_STEP_PERCENT,
              REB_DERATE_MIN_PERCENT

\* The initial state is well typed.
LEMMA TypeInit == Init => TypeOK
<1>1. 0 \in HistorySlots /\ 0 \in Nonces
  BY CalibrationAssumption, ModuliAssumption DEF HistorySlots, Nonces
<1>2. InitContext.nonce_history_index \in HistorySlots
  BY <1>1 DEF InitContext
<1>3. QED
  BY <1>1, <1>2, InitContextType, OutputTypes DEF Init, TypeOK

--------------------------------------------------------------------------------
(* What a step does to the ledger *)

SameLedger ==
  /\ spent' = spent
  /\ accepted' = 0
  /\ context'.last_valid_nonce = context.last_valid_nonce
  /\ context'.nonce_history = context.nonce_history
  /\ context'.nonce_history_index = context.nonce_history_index

Enters(n) ==
  /\ spent' = spent \cup {n}
  /\ accepted' = n
  /\ context'.last_valid_nonce = n
  /\ context'.nonce_history =
       [context.nonce_history EXCEPT ![context.nonce_history_index] = n]
  /\ context'.nonce_history_index =
       (context.nonce_history_index + 1) % REB_NONCE_HISTORY_SIZE

Emptied ==
  /\ spent' = {}
  /\ context' = InitContext

\* A nonce enters the ledger only if it is newer than the last one.
LEMMA LedgerStep ==
  ASSUME Typed, NEW in \in RebInputs, Step(in)
  PROVE  \/ SameLedger
         \/ Enters(in.nonce) /\ in.nonce > context.last_valid_nonce
         \/ /\ context.current_state = "BLOCKED"
            /\ Emptied /\ accepted' = in.nonce /\ in.nonce > context.last_valid_nonce
<1> USE DEF Typed, RebContext, ContextsIn, NothingAccepted, SameLedger
<1>1. CASE IdleIntrusion(in)
  BY <1>1 DEF IdleIntrusion
<1>2. CASE IdleRemoteBlock(in)
  BY <1>2 DEF IdleRemoteBlock, RemoteBlockAccepted, CommandValid, NonceInWindow,
              Enters, Accept, ConsumeNonce, StoreNonce
<1>3. CASE IdleNothing(in)
  BY <1>3 DEF IdleNothing
<1>4. CASE TheftCancel(in)
  BY <1>4 DEF TheftCancel
<1>5. CASE TheftStationary(in)
  BY <1>5 DEF TheftStationary
<1>6. CASE TheftWindowExpired(in)
  BY <1>6 DEF TheftWindowExpired
<1>7. CASE TheftWaiting(in)
  BY <1>7 DEF TheftWaiting
<1>8. CASE BlockingMoving(in)
  BY <1>8 DEF BlockingMoving
<1>9. CASE BlockingStopped(in)
  BY <1>9 DEF BlockingStopped
<1>10. CASE BlockedHold(in)
  BY <1>10 DEF BlockedHold, Retransmitted
<1>11. CASE BlockedUnlock(in)
  BY <1>11 DEF BlockedUnlock, UnlockAllowed, CommandValid, NonceInWindow, Emptied
<1>12. CASE BlockedUnlockUnacknowledged(in)
  BY <1>12 DEF BlockedUnlockUnacknowledged, CommandValid, NonceInWindow, Enters,
               Accept, ConsumeNonce, StoreNonce, CountInvalidAttempts, Retransmitted
<1>13. CASE BlockedUnlockInvalid(in)
  BY <1>13 DEF BlockedUnlockInvalid, CountInvalidAttempts, Retransmitted
<1>14. QED
  BY <1>1, <1>2, <1>3, <1>4, <1>5, <1>6, <1>7, <1>8, <1>9, <1>10, <1>11, <1>12,
     <1>13 DEF Step

--------------------------------------------------------------------------------
(* Type correctness *)

\* The context after the retransmission block of BLOCKED is well typed.
LEMMA ContextTypes ==
  ASSUME Typed, NEW in \in RebInputs
  PROVE  /\ Retransmitted(in) \in RebContext
         /\ RetransmitDue(in) \in BOOLEAN
  BY DEF Typed, Retransmitted, RetransmitDue, RebContext, ContextsIn, RebInputs

\* Every path of reb_state_machine_step keeps the types, and what the outputs
\* were before does not matter.
LEMMA TypedStep ==
  ASSUME Typed, NEW in \in RebInputs, Step(in)
  PROVE  Typed' /\ outputs' \in RebOutputs
<1> USE OutputTypes DEF Typed, NothingAccepted
<1>a. 0 \in Millis /\ 0 \in Nonces
  BY ModuliAssumption DEF Millis, Nonces
<1>b. in.nonce \in Nonces /\ in.timestamp_ms \in Millis
  BY DEF RebInputs
<1>1. CASE IdleIntrusion(in)
  BY <1>1, <1>a, <1>b DEF IdleIntrusion, RebContext, ContextsIn, RebState
<1>2. CASE IdleRemoteBlock(in)
  <2>1. ConsumeNonce(in, context) \in RebContext
    BY ConsumeNonceType
  <2>2. context' \in RebContext
    BY <1>2, <2>1, <1>b DEF IdleRemoteBlock, RebContext, ContextsIn, RebState
  <2>3. QED
    BY <1>2, <2>2, <1>b DEF IdleRemoteBlock, Accept
<1>3. CASE IdleNothing(in)
  BY <1>3, <1>a DEF IdleNothing
<1>4. CASE TheftCancel(in)
  BY <1>4, <1>a DEF TheftCancel, RebContext, ContextsIn, RebState
<1>5. CASE TheftStationary(in)
  BY <1>5, <1>a DEF TheftStationary, RebContext, ContextsIn, RebState
<1>6. CASE TheftWindowExpired(in)
  BY <1>6, <1>a DEF TheftWindowExpired, RebContext, ContextsIn, RebState
<1>7. CASE TheftWaiting(in)
  BY <1>7, <1>a DEF TheftWaiting
<1>8. CASE BlockingMoving(in)
  <2>1. context' \in RebContext
    BY <1>8, <1>a DEF BlockingMoving, RebContext, ContextsIn
  <2>2. ApplyDerating(in, Alarm.derate_percent) \in 0 .. REB_DERATE_MAX_PERCENT
    BY DeratingIsFlat DEF REB_DERATE_MAX_PERCENT, REB_DERATE_STEP_PERCENT,
                          REB_DERATE_MIN_PERCENT
  <2>3. outputs' \in RebOutputs
    BY <1>8, <2>2 DEF BlockingMoving
  <2>4. QED
    BY <1>8, <2>1, <2>3, <1>a DEF BlockingMoving
<1>9. CASE BlockingStopped(in)
  BY <1>9, <1>a DEF BlockingStopped, RebContext, ContextsIn, RebState
<1>10. CASE BlockedHold(in)
  BY <1>10, <1>a, ContextTypes DEF BlockedHold
<1>11. CASE BlockedUnlock(in)
  BY <1>11, <1>b, ContextTypes, InitContextType DEF BlockedUnlock
<1>12. CASE BlockedUnlockUnacknowledged(in)
  BY <1>12, <1>b, ContextTypes, ConsumeNonceType, CountInvalidAttemptsType
  DEF BlockedUnlockUnacknowledged, Accept
<1>13. CASE BlockedUnlockInvalid(in)
  BY <1>13, <1>a, ContextTypes, CountInvalidAttemptsType DEF BlockedUnlockInvalid
<1>14. QED
  BY <1>1, <1>2, <1>3, <1>4, <1>5, <1>6, <1>7, <1>8, <1>9, <1>10, <1>11, <1>12,
     <1>13 DEF Step

\* A write index inside the ring stays there.
LEMMA IndexStep ==
  ASSUME Typed, context.nonce_history_index \in HistorySlots, NEW in \in RebInputs,
         Step(in)
  PROVE  context'.nonce_history_index \in HistorySlots
<1>1. (context.nonce_history_index + 1) % REB_NONCE_HISTORY_SIZE \in HistorySlots
  BY SlotsFit, NextSlot
<1>2. 0 \in HistorySlots
  BY CalibrationAssumption, ModuliAssumption DEF HistorySlots
<1>3. SameLedger \/ Enters(in.nonce) \/ Emptied
  BY LedgerStep
<1>4. InitContext.nonce_history_index = 0
  BY DEF InitContext
<1>5. QED
  BY <1>1, <1>2, <1>3, <1>4 DEF SameLedger, Enters, Emptied

\* Every path of reb_state_machine_step keeps the type invariant.
LEMMA TypeStep ==
  ASSUME TypeOK, NEW in \in RebInputs, Step(in)
  PROVE  TypeOK'
<1>1. Typed /\ context.nonce_history_index \in HistorySlots
  BY DEF TypeOK, Typed
<1>2. Typed' /\ outputs' \in RebOutputs
  BY <1>1, TypedStep
<1>3. context'.nonce_history_index \in HistorySlots
  BY <1>1, IndexStep
<1>4. QED
  BY <1>2, <1>3 DEF TypeOK, Typed

\* reb_state_machine_step keeps every field of the context and of the outputs
\* in the range of its type and the write index in the ring, whatever inputs it
\* is called with.
THEOREM TypeCorrect == Spec => []TypeOK
<1>1. Init => TypeOK
  BY TypeInit
<1>2. TypeOK /\ [Next]_vars => TypeOK'
  <2>1. CASE Next
    BY <2>1, TypeStep, InputsAssumption DEF Next
  <2>2. CASE UNCHANGED vars
    BY <2>2 DEF vars, TypeOK
  <2>3. QED
    BY <2>1, <2>2
<1>3. QED
  BY <1>1, <1>2, PTL DEF Spec

--------------------------------------------------------------------------------
(* The ledger *)

\* The nonce part of the inductive invariant.
LedgerInv == LedgerBounded /\ HistoryInOrder /\ HistoryKeepsNewest

\* A step that leaves the anti-replay fields alone keeps what is true of them.
LEMMA LedgerKept ==
  ASSUME LedgerInv, SameLedger
  PROVE  LedgerInv'
  BY DEF LedgerInv, LedgerBounded, HistoryInOrder, HistoryKeepsNewest, Older,
         NonceReplayed, SameLedger

\* The release of the lock makes the ring and the ledger empty again, together.
LEMMA LedgerEmptied ==
  ASSUME Emptied
  PROVE  LedgerInv'
  BY DEF Emptied, LedgerInv, LedgerBounded, HistoryInOrder, HistoryKeepsNewest,
         InitContext

\* The slot that is overwritten holds the oldest nonce of the ring.
LEMMA WriteIndexIsOldest ==
  ASSUME TypeOK, HistoryInOrder, NEW i \in HistorySlots
  PROVE  context.nonce_history[context.nonce_history_index]
           <= context.nonce_history[i]
<1> DEFINE k == context.nonce_history_index
<1>1. k \in HistorySlots /\ context.nonce_history[i] \in Nonces
  BY DEF TypeOK, RebContext, ContextsIn
<1>2. CASE i = k
  BY <1>1, <1>2 DEF Nonces
<1>3. CASE i # k
  <2>1. Older(context, k, i)
    BY <1>1, <1>3 DEF Older, HistorySlots
  <2>2. QED
    BY <1>1, <2>1 DEF HistoryInOrder
<1>4. QED
  BY <1>2, <1>3

\* Accepting a fresh nonce keeps the ring sorted and the newest nonces in it.
LEMMA LedgerGrows ==
  ASSUME TypeOK, LedgerInv, NEW n \in Nonces, n > context.last_valid_nonce, Enters(n)
  PROVE  LedgerInv'
<1> DEFINE k == context.nonce_history_index
           h == context.nonce_history
<1>1. /\ k \in HistorySlots /\ k \in UInt8
      /\ h \in [HistorySlots -> Nonces]
      /\ context.last_valid_nonce \in Nonces
      /\ spent \subseteq Nonces
  BY SlotsFit DEF TypeOK, RebContext, ContextsIn
<1>2. context'.nonce_history = [h EXCEPT ![k] = n]
  BY DEF Enters
<1>3. \A m \in spent : m < n
  BY <1>1 DEF LedgerInv, LedgerBounded, Nonces
<1>4. \A i \in HistorySlots : h[i] < n
  BY <1>1, <1>3 DEF LedgerInv, HistoryInOrder, Nonces
<1>5. LedgerBounded'
  BY <1>1, <1>3 DEF Enters, LedgerBounded, Nonces
<1>6. HistoryInOrder'
  <2>1. \A i \in HistorySlots : context'.nonce_history[i] \in spent' \cup {0}
    BY <1>1, <1>2 DEF LedgerInv, HistoryInOrder, Enters
  <2>2. ASSUME NEW i \in HistorySlots, NEW j \in HistorySlots,
               Older(context, i, j)'
        PROVE  context'.nonce_history[i] <= context'.nonce_history[j]
    <3>1. context'.nonce_history_index =
            IF k + 1 = REB_NONCE_HISTORY_SIZE THEN 0 ELSE k + 1
      BY <1>1, NextSlot DEF Enters
    <3>2. i # k
      BY <1>1, <2>2, <3>1 DEF Older, HistorySlots
    <3>3. CASE j = k
      BY <1>1, <1>2, <1>4, <3>2, <3>3 DEF Nonces
    <3>4. CASE j # k
      <4>1. Older(context, i, j)
        BY <1>1, <2>2, <3>1, <3>2, <3>4 DEF Older, HistorySlots
      <4>2. QED
        BY <1>1, <1>2, <3>2, <3>4, <4>1 DEF LedgerInv, HistoryInOrder
    <3>5. QED
      BY <3>3, <3>4
  <2>3. QED
    BY <2>1, <2>2 DEF HistoryInOrder
<1>7. HistoryKeepsNewest'
  <2>1. \E i \in HistorySlots : context'.nonce_history[i] = n
    BY <1>1, <1>2
  <2>2. ASSUME NEW m \in spent,
               ~\E i \in HistorySlots : context'.nonce_history[i] = m
        PROVE  \A i \in HistorySlots : m < context'.nonce_history[i]
    <3>1. CASE \A i \in HistorySlots : m < h[i]
      BY <1>1, <1>2, <1>3, <3>1
    <3>2. CASE NonceReplayed(context, m)
      <4>1. h[k] = m /\ \A i \in HistorySlots \ {k} : h[i] # m
        BY <1>1, <1>2, <2>2, <3>2 DEF NonceReplayed
      <4>2. \A i \in HistorySlots \ {k} : m < h[i]
        BY <1>1, <4>1, WriteIndexIsOldest DEF LedgerInv, Nonces
      <4>3. QED
        BY <1>1, <1>2, <1>3, <4>2
    <3>3. QED
      BY <3>1, <3>2 DEF LedgerInv, HistoryKeepsNewest
  <2>3. QED
    BY <2>1, <2>2 DEF Enters, HistoryKeepsNewest, NonceReplayed
<1>8. QED
  BY <1>5, <1>6, <1>7 DEF LedgerInv

\* Every path of reb_state_machine_step keeps the anti-replay invariant.
LEMMA LedgerInvStep ==
  ASSUME TypeOK, LedgerInv, NEW in \in RebInputs, Step(in)
  PROVE  LedgerInv'
<1>1. in.nonce \in Nonces
  BY DEF RebInputs
<1>2. Typed
  BY DEF TypeOK, Typed
<1>3. QED
  BY <1>1, <1>2, LedgerStep, LedgerKept, LedgerEmptied, LedgerGrows

--------------------------------------------------------------------------------
(* The automatic flag and the alarm *)

\* Every path of reb_state_machine_step confines the automatic flag.
LEMMA FlagStep ==
  ASSUME Typed, AutomaticOnlyInTheft, NEW in \in RebInputs, Step(in)
  PROVE  AutomaticOnlyInTheft'
<1> USE DEF Typed, RebContext, ContextsIn, AutomaticOnlyInTheft
<1>1. CASE IdleIntrusion(in) \/ IdleNothing(in)
  BY <1>1 DEF IdleIntrusion, IdleNothing
<1>2. CASE IdleRemoteBlock(in)
  <2>1. ConsumeNonce(in, context) \in RebContext
    BY ConsumeNonceType
  <2>2. QED
    BY <1>2, <2>1 DEF IdleRemoteBlock
<1>3. CASE TheftCancel(in) \/ TheftStationary(in) \/ TheftWindowExpired(in)
             \/ TheftWaiting(in)
  BY <1>3 DEF TheftCancel, TheftStationary, TheftWindowExpired, TheftWaiting,
              CommandedAndStationary
<1>4. CASE BlockingMoving(in) \/ BlockingStopped(in)
  BY <1>4 DEF BlockingMoving, BlockingStopped
<1>5. CASE BlockedHold(in)
  BY <1>5 DEF BlockedHold, Retransmitted
<1>6. CASE BlockedUnlock(in)
  BY <1>6 DEF BlockedUnlock, InitContext
<1>7. CASE BlockedUnlockUnacknowledged(in)
  BY <1>7 DEF BlockedUnlockUnacknowledged, ConsumeNonce, StoreNonce, Retransmitted,
              CountInvalidAttempts
<1>8. CASE BlockedUnlockInvalid(in)
  BY <1>8 DEF BlockedUnlockInvalid, Retransmitted, CountInvalidAttempts
<1>9. QED
  BY <1>1, <1>2, <1>3, <1>4, <1>5, <1>6, <1>7, <1>8 DEF Step

\* What the outputs of the three kinds of state command.
LEMMA OutputFacts ==
  /\ \A due \in BOOLEAN : Locked(due).starter_lock
  /\ ~Silent.starter_lock
  /\ ~Alarm.starter_lock
  /\ Alarm.visual_alert
  /\ Alarm.acoustic_alert
  /\ \A percent : ~[Alarm EXCEPT !.derate_percent = percent].starter_lock
<1>1. \A due \in BOOLEAN : Locked(due).starter_lock
  BY DEF Locked
<1>2. ~Silent.starter_lock
  BY DEF Silent
<1>3. /\ ~Alarm.starter_lock
      /\ Alarm.visual_alert
      /\ Alarm.acoustic_alert
  BY DEF Alarm, Silent
<1>4. ASSUME NEW percent
      PROVE  ~[Alarm EXCEPT !.derate_percent = percent].starter_lock
  BY DEF Alarm, Silent
<1>5. QED
  BY <1>1, <1>2, <1>3, <1>4

\* The state and the outputs a step in BLOCKED leaves behind.
LEMMA BlockedStep ==
  ASSUME Typed, NEW in \in RebInputs, Step(in), context.current_state = "BLOCKED"
  PROVE  /\ outputs'.starter_lock
         /\ \/ context'.current_state = "BLOCKED"
            \/ BlockedUnlock(in) /\ context'.current_state = "IDLE"
<1>1. \/ BlockedHold(in) \/ BlockedUnlock(in)
      \/ BlockedUnlockUnacknowledged(in) \/ BlockedUnlockInvalid(in)
  BY DEF Step, IdleIntrusion, IdleRemoteBlock, RemoteBlockAccepted, IdleNothing,
         TheftCancel, TheftStationary, TheftWindowExpired, TheftWaiting,
         BlockingMoving, BlockingStopped
<1>2. outputs' = Locked(RetransmitDue(in)) /\ RetransmitDue(in) \in BOOLEAN
  BY <1>1, ContextTypes DEF BlockedHold, BlockedUnlock,
     BlockedUnlockUnacknowledged, BlockedUnlockInvalid
<1>3. ASSUME ~BlockedUnlock(in)
      PROVE  context'.current_state = "BLOCKED"
  <2> USE DEF Typed, RebContext, ContextsIn
  <2>1. CASE BlockedHold(in)
    BY <2>1 DEF BlockedHold, Retransmitted
  <2>2. CASE BlockedUnlockUnacknowledged(in)
    BY <2>2 DEF BlockedUnlockUnacknowledged, ConsumeNonce, StoreNonce,
                Retransmitted, CountInvalidAttempts
  <2>3. CASE BlockedUnlockInvalid(in)
    BY <2>3 DEF BlockedUnlockInvalid, Retransmitted, CountInvalidAttempts
  <2>4. QED
    BY <1>1, <1>3, <2>1, <2>2, <2>3
<1>4. ASSUME BlockedUnlock(in)
      PROVE  context'.current_state = "IDLE"
  BY <1>4 DEF BlockedUnlock, InitContext
<1>5. QED
  BY <1>2, <1>3, <1>4, OutputFacts

\* Outside BLOCKED the starter is left alone, and BLOCKED is entered only by a
\* step that gives the alarm.
LEMMA UnlockedStep ==
  ASSUME Typed, NEW in \in RebInputs, Step(in), context.current_state # "BLOCKED"
  PROVE  /\ ~outputs'.starter_lock
         /\ context'.current_state = "BLOCKED" =>
              outputs'.visual_alert /\ outputs'.acoustic_alert
<1> USE OutputFacts DEF Typed, RebContext, ContextsIn
<1>1. CASE IdleIntrusion(in) \/ IdleNothing(in)
  BY <1>1 DEF IdleIntrusion, IdleNothing
<1>2. CASE IdleRemoteBlock(in)
  <2>1. ConsumeNonce(in, context) \in RebContext
    BY ConsumeNonceType
  <2>2. QED
    BY <1>2, <2>1 DEF IdleRemoteBlock
<1>3. CASE TheftCancel(in) \/ TheftStationary(in) \/ TheftWindowExpired(in)
             \/ TheftWaiting(in)
  BY <1>3 DEF TheftCancel, TheftStationary, TheftWindowExpired, TheftWaiting
<1>4. CASE BlockingMoving(in) \/ BlockingStopped(in)
  BY <1>4 DEF BlockingMoving, BlockingStopped
<1>5. QED
  BY <1>1, <1>2, <1>3, <1>4
  DEF Step, BlockedHold, BlockedUnlock, BlockedUnlockUnacknowledged,
      BlockedUnlockInvalid

--------------------------------------------------------------------------------
(* The inductive invariant *)

\* The initial context satisfies the inductive invariant.
LEMMA IInvInit == Init => IInv
<1>1. Init => TypeOK
  BY TypeInit
<1>2. QED
  BY <1>1 DEF Init, IInv, LedgerBounded, HistoryInOrder, HistoryKeepsNewest,
              AutomaticOnlyInTheft, BlockedIsAnnounced, InitContext

\* Every step preserves the inductive invariant.
LEMMA IInvStep ==
  ASSUME IInv, [Next]_vars
  PROVE  IInv'
<1>1. ASSUME NEW in \in Inputs, Step(in)
      PROVE  IInv'
  <2>1. in \in RebInputs
    BY InputsAssumption
  <2>2. TypeOK'
    BY <1>1, <2>1, TypeStep DEF IInv
  <2>3. LedgerInv'
    BY <1>1, <2>1, LedgerInvStep DEF IInv, LedgerInv
  <2>4. AutomaticOnlyInTheft'
    BY <1>1, <2>1, FlagStep DEF IInv, TypeOK, Typed
  <2>5. BlockedIsAnnounced'
    BY <1>1, <2>1, BlockedStep, UnlockedStep
    DEF IInv, TypeOK, Typed, BlockedIsAnnounced
  <2>6. QED
    BY <2>2, <2>3, <2>4, <2>5 DEF IInv, LedgerInv
<1>2. CASE UNCHANGED vars
  BY <1>2 DEF vars, IInv, TypeOK, LedgerBounded, HistoryInOrder,
              HistoryKeepsNewest, Older, NonceReplayed, AutomaticOnlyInTheft,
              BlockedIsAnnounced
<1>3. QED
  BY <1>1, <1>2 DEF Next

\* The inductive invariant holds in every reachable state.
LEMMA Invariance == Spec => []IInv
  BY IInvInit, IInvStep, PTL DEF Spec

--------------------------------------------------------------------------------
(* Results *)

\* The ring buffer holds accepted nonces only, sorted by age from the write index.
THEOREM RingBufferSorted == Spec => []HistoryInOrder
<1>1. IInv => HistoryInOrder
  BY DEF IInv
<1>2. QED
  BY <1>1, Invariance, PTL

\* The ring buffer is a first-in first-out memory: it never forgets a nonce while
\* it remembers an older one.
THEOREM RingBufferCorrect == Spec => []HistoryKeepsNewest
<1>1. IInv => HistoryKeepsNewest
  BY DEF IInv
<1>2. QED
  BY <1>1, Invariance, PTL

\* A nonce spent in this epoch is behind the window for the rest of it.
THEOREM NoReplayInEpoch == Spec => []SpentNoncesRejected
<1>1. IInv => SpentNoncesRejected
  BY DEF IInv, LedgerBounded, SpentNoncesRejected, NonceInWindow, TypeOK,
         RebContext, ContextsIn, Nonces
<1>2. QED
  BY <1>1, Invariance, PTL

\* The window test alone decides: dropping reb_security_is_nonce_replayed from
\* reb_security_validate_remote_command would change no answer.
THEOREM ReplayTestNeverDecides == Spec => []ReplayTestRedundant
<1>1. IInv => ReplayTestRedundant
  <2> SUFFICES ASSUME IInv, NEW n \in Nonces, NonceReplayed(context, n),
                      NonceInWindow(context, n)
               PROVE  FALSE
    BY DEF ReplayTestRedundant
  <2>1. PICK i \in HistorySlots : context.nonce_history[i] = n
    BY DEF NonceReplayed
  <2>2. n \in spent \cup {0}
    BY <2>1 DEF IInv, HistoryInOrder
  <2>3. QED
    BY <2>2 DEF IInv, LedgerBounded, NonceInWindow, TypeOK, RebContext, ContextsIn,
                Nonces
<1>2. QED
  BY <1>1, Invariance, PTL

\* A vehicle at rest is spared the confirmation window only when no automatic
\* event is pending: the flag never leaks out of THEFT_CONFIRMED.
THEOREM FlagConfined == Spec => []AutomaticOnlyInTheft
<1>1. IInv => AutomaticOnlyInTheft
  BY DEF IInv
<1>2. QED
  BY <1>1, Invariance, PTL

\* No two steps of one epoch accept the same nonce, the release included.
THEOREM AcceptedAtMostOnce == Spec => NonceSpentOnce
<1>1. IInv /\ [Next]_vars => [accepted' # 0 => accepted' \notin spent]_vars
  <2> SUFFICES ASSUME IInv, NEW in \in Inputs, Step(in), accepted' # 0,
                      accepted' \in spent
               PROVE  FALSE
    BY DEF Next
  <2>1. accepted' > context.last_valid_nonce
    BY LedgerStep, InputsAssumption DEF IInv, TypeOK, Typed, SameLedger, Enters
  <2>2. QED
    BY <2>1, ModuliAssumption
    DEF IInv, LedgerBounded, TypeOK, RebContext, ContextsIn, Nonces
<1>2. QED
  BY <1>1, Invariance, PTL DEF Spec, NonceSpentOnce

\* The first step that locks the starter follows a step that gave both alarms.
THEOREM NoSilentLock == Spec => LockIsAnnounced
<1>1. IInv /\ [Next]_vars =>
        [outputs'.starter_lock /\ ~outputs.starter_lock =>
           outputs.visual_alert /\ outputs.acoustic_alert]_vars
  <2> SUFFICES ASSUME IInv, NEW in \in Inputs, Step(in),
                      outputs'.starter_lock, ~outputs.starter_lock
               PROVE  outputs.visual_alert /\ outputs.acoustic_alert
    BY DEF Next
  <2>1. context.current_state = "BLOCKED"
    BY UnlockedStep, InputsAssumption DEF IInv, TypeOK, Typed
  <2>2. QED
    BY <2>1 DEF IInv, BlockedIsAnnounced
<1>2. QED
  BY <1>1, Invariance, PTL DEF Spec, LockIsAnnounced

--------------------------------------------------------------------------------
(* Refinement *)

\* A nonce inside the window is newer than every nonce of the ledger.
LEMMA LastIsFresh ==
  ASSUME Typed, LedgerBounded, NEW n \in Nonces, n > context.last_valid_nonce
  PROVE  Promise!Fresh(n)
<1>1. \A m \in spent : m <= context.last_valid_nonce
  BY DEF LedgerBounded
<1>2. context.last_valid_nonce \in Nonces /\ spent \subseteq Nonces
  BY DEF Typed, RebContext, ContextsIn
<1>3. QED
  BY <1>1, <1>2, ModuliAssumption DEF Promise!Fresh, Nonces

\* Each step of the state machine is one step of the promise, or none.
LEMMA StepSimulation ==
  ASSUME Typed, LedgerBounded, NEW in \in RebInputs, Step(in)
  PROVE  [Promise!Next]_(Promise!vars)
<1> USE DEF PhaseOf, Promise!vars, Promise!Next
<1>a. /\ context \in RebContext
      /\ in.nonce \in Nonces
  BY DEF Typed, RebInputs
<1> USE <1>a DEF RebContext, ContextsIn
<1>1. CASE IdleIntrusion(in)
  BY <1>1 DEF IdleIntrusion, NothingAccepted, Promise!Warn
<1>2. CASE IdleRemoteBlock(in)
  <2>1. in.nonce > context.last_valid_nonce
    BY <1>2 DEF IdleRemoteBlock, RemoteBlockAccepted, CommandValid, NonceInWindow
  <2>2. Promise!Fresh(in.nonce)
    BY <2>1, LastIsFresh
  <2>3. ConsumeNonce(in, context) \in RebContext
    BY ConsumeNonceType
  <2>4. Promise!Arm(in.nonce)
    BY <1>2, <2>2, <2>3
    DEF IdleRemoteBlock, RemoteBlockAccepted, Accept, Promise!Arm
  <2>5. QED
    BY <2>4
<1>3. CASE IdleNothing(in)
  BY <1>3 DEF IdleNothing, NothingAccepted
<1>4. CASE TheftCancel(in)
  BY <1>4 DEF TheftCancel, NothingAccepted, Promise!Cancel
<1>5. CASE TheftStationary(in)
  BY <1>5 DEF TheftStationary, NothingAccepted, Promise!Engage
<1>6. CASE TheftWindowExpired(in)
  BY <1>6 DEF TheftWindowExpired, NothingAccepted, Promise!Engage
<1>7. CASE TheftWaiting(in)
  BY <1>7 DEF TheftWaiting, NothingAccepted
<1>8. CASE BlockingMoving(in)
  BY <1>8 DEF BlockingMoving, NothingAccepted
<1>9. CASE BlockingStopped(in)
  BY <1>9 DEF BlockingStopped, NothingAccepted, Promise!Lock
<1>10. CASE BlockedHold(in)
  BY <1>10 DEF BlockedHold, Retransmitted, NothingAccepted
<1>11. CASE BlockedUnlock(in)
  <2>1. in.nonce > context.last_valid_nonce
    BY <1>11 DEF BlockedUnlock, UnlockAllowed, CommandValid, NonceInWindow
  <2>2. Promise!Fresh(in.nonce)
    BY <2>1, LastIsFresh
  <2>3. Promise!Release(in.nonce)
    BY <1>11, <2>2 DEF BlockedUnlock, InitContext, Promise!Release
  <2>4. QED
    BY <2>3
<1>12. CASE BlockedUnlockUnacknowledged(in)
  <2>1. in.nonce > context.last_valid_nonce
    BY <1>12 DEF BlockedUnlockUnacknowledged, CommandValid, NonceInWindow
  <2>2. Promise!Fresh(in.nonce)
    BY <2>1, LastIsFresh
  <2>3. Promise!Burn(in.nonce)
    BY <1>12, <2>2 DEF BlockedUnlockUnacknowledged, ConsumeNonce, StoreNonce,
       Retransmitted, CountInvalidAttempts, Accept, Promise!Burn
  <2>4. QED
    BY <2>3
<1>13. CASE BlockedUnlockInvalid(in)
  BY <1>13 DEF BlockedUnlockInvalid, Retransmitted, CountInvalidAttempts,
               NothingAccepted
<1>14. QED
  BY <1>1, <1>2, <1>3, <1>4, <1>5, <1>6, <1>7, <1>8, <1>9, <1>10, <1>11, <1>12,
     <1>13 DEF Step

\* reb_state_machine_step implements the immobiliser's promise: a theft event
\* can be called off only until blocking begins, a locked starter is released only by
\* a command with a nonce newer than every one spent before.
THEOREM Refinement == Spec => ImplementsImmobilizer
<1>1. Init => Promise!Init
  BY DEF Init, InitContext, PhaseOf, Promise!Init
<1>2. IInv /\ [Next]_vars => [Promise!Next]_(Promise!vars)
  <2> SUFFICES ASSUME IInv, [Next]_vars
               PROVE  [Promise!Next]_(Promise!vars)
    OBVIOUS
  <2>1. CASE Next
    BY <2>1, StepSimulation, InputsAssumption DEF Next, IInv, TypeOK, Typed
  <2>2. CASE UNCHANGED vars
    BY <2>2 DEF vars, Promise!vars, PhaseOf
  <2>3. QED
    BY <2>1, <2>2
<1>3. QED
  BY <1>1, <1>2, Invariance, PTL DEF Spec, ImplementsImmobilizer, Promise!Spec
===============================================================================
