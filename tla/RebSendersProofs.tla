---------------------------- MODULE RebSendersProofs ----------------------------
(***************************************************************************)
(* Theorems of RebSenders for every nonce window, every width of a nonce   *)
(* on the wire, every queue and any number of restarts.                    *)
(*                                                                         *)
(* The argument: in a blocked context the only message that moves the      *)
(* window is an unlock inside it, and it lifts the lock (BlockedDelivery). *)
(* So the numbers that can release it stay the same until one does, and a  *)
(* sender's reach is lost by what happens to its frames and its counter.   *)
(*                                                                         *)
(* CP instantiates the core's proofs; see RebServerProofs.                 *)
(***************************************************************************)
EXTENDS RebSenders, TLAPS

CP == INSTANCE RebStateMachineProofs WITH Inputs <- RebInputs

\* Everything a sender can have put into the queue.
Sent ==
  {VehicleState(0)}
    \cup {Frame(button, n) : button \in Buttons, n \in 1 .. WIRE_MODULUS - 1}

\* The inductive invariant.
SInv ==
  /\ CP!IInv
  /\ next_nonce \in [Senders -> 1 .. WIRE_MODULUS]
  /\ queue \in Seq(Sent) /\ Len(queue) <= QueueCapacity
  /\ restarts \in 0 .. MaxRestarts

--------------------------------------------------------------------------------
(* The core inside *)

\* The data types are those the core's lemmas speak of.
LEMMA SameTypes ==
  /\ CP!RebInputs = RebInputs
  /\ CP!RebContext = RebContext
  /\ CP!RebOutputs = RebOutputs
  /\ CP!Nonces = Nonces
  /\ CP!HistorySlots = HistorySlots
  BY DEF CP!RebInputs, RebInputs, CP!RebContext, RebContext, CP!ContextsIn,
         ContextsIn, CP!RebOutputs, RebOutputs, CP!Nonces, Nonces, CP!Millis,
         Millis, CP!RebState, RebState, CP!HistorySlots, HistorySlots,
         CP!UInt8, UInt8, CP!RebRemoteCommand, RebRemoteCommand,
         CP!REB_DERATE_MAX_PERCENT, REB_DERATE_MAX_PERCENT

\* The two instances begin and step alike.
LEMMA SameInit == Core!Init <=> CP!Init
  BY DEF Core!Init, CP!Init, Core!InitContext, CP!InitContext, Core!Silent,
         CP!Silent, Core!HistorySlots, CP!HistorySlots

LEMMA SameStep ==
  ASSUME NEW in
  PROVE  Core!Step(in) <=> CP!Step(in)
  BY DEF Core!Step, CP!Step, Core!IdleIntrusion, CP!IdleIntrusion,
      Core!IdleRemoteBlock, CP!IdleRemoteBlock, Core!RemoteBlockAccepted,
      CP!RemoteBlockAccepted, Core!IdleNothing, CP!IdleNothing,
      Core!TheftCancel, CP!TheftCancel, Core!TheftStationary,
      CP!TheftStationary, Core!CommandedAndStationary,
      CP!CommandedAndStationary, Core!TheftWindowExpired,
      CP!TheftWindowExpired, Core!TheftWaiting, CP!TheftWaiting,
      Core!BlockingMoving, CP!BlockingMoving, Core!BlockingStopped,
      CP!BlockingStopped, Core!BlockedHold, CP!BlockedHold,
      Core!BlockedUnlock, CP!BlockedUnlock, Core!BlockedUnlockUnacknowledged,
      CP!BlockedUnlockUnacknowledged, Core!BlockedUnlockInvalid,
      CP!BlockedUnlockInvalid, Core!WindowElapsed, CP!WindowElapsed,
      Core!RetransmitDue, CP!RetransmitDue, Core!Retransmitted,
      CP!Retransmitted, Core!NothingAccepted, CP!NothingAccepted, Core!Accept,
      CP!Accept, Core!InitContext, CP!InitContext, Core!Silent, CP!Silent,
      Core!Alarm, CP!Alarm, Core!Locked, CP!Locked, Core!ApplyDerating,
      CP!ApplyDerating, Core!Stationary, CP!Stationary, Core!SlowEnough,
      CP!SlowEnough, Core!CommandValid, CP!CommandValid, Core!ConsumeNonce,
      CP!ConsumeNonce, Core!StoreNonce, CP!StoreNonce, Core!NonceInWindow,
      CP!NonceInWindow, Core!NonceReplayed, CP!NonceReplayed,
      Core!UnlockAllowed, CP!UnlockAllowed, Core!CountInvalidAttempts,
      CP!CountInvalidAttempts, Core!Elapsed, CP!Elapsed, Core!HistorySlots,
      CP!HistorySlots, Core!REB_MAX_ALLOWED_SPEED_FOR_LOCK,
      CP!REB_MAX_ALLOWED_SPEED_FOR_LOCK, Core!REB_SAFE_MOVING_SPEED_KMH,
      CP!REB_SAFE_MOVING_SPEED_KMH, Core!REB_DERATE_STEP_PERCENT,
      CP!REB_DERATE_STEP_PERCENT, Core!REB_DERATE_MAX_PERCENT,
      CP!REB_DERATE_MAX_PERCENT, Core!REB_DERATE_MIN_PERCENT,
      CP!REB_DERATE_MIN_PERCENT

LEMMA SameTypeOK == Core!TypeOK <=> CP!TypeOK
  BY DEF Core!TypeOK, CP!TypeOK, CP!RebInputs, RebInputs, CP!RebContext,
         Core!RebContext, CP!ContextsIn, Core!ContextsIn, CP!RebOutputs,
         Core!RebOutputs, CP!Nonces, Core!Nonces, CP!Millis, Core!Millis,
         CP!RebState, Core!RebState, CP!HistorySlots, Core!HistorySlots,
         CP!UInt8, Core!UInt8, CP!REB_DERATE_MAX_PERCENT,
         Core!REB_DERATE_MAX_PERCENT
--------------------------------------------------------------------------------
(* What the senders put into the queue and what it tells the core *)

\* The buttons one by one.
LEMMA SentFrame ==
  ASSUME NEW f
  PROVE  f \in Sent <=>
           \/ f = VehicleState(0)
           \/ \E n \in 1 .. WIRE_MODULUS - 1 :
                \/ f \in {RebCmd(1, n), RebCmd(2, n)}
                \/ f \in {PanelAuth(TRUE, n), PanelBlock(TRUE, n), PanelCancel(TRUE)}
<1>1. \A n : /\ Frame("remote_block", n) = RebCmd(1, n)
             /\ Frame("remote_unblock", n) = RebCmd(2, n)
             /\ Frame("panel_auth", n) = PanelAuth(TRUE, n)
             /\ Frame("panel_block", n) = PanelBlock(TRUE, n)
             /\ Frame("panel_cancel", n) = PanelCancel(TRUE)
  BY DEF Frame
<1>2. f \in Sent <=> \/ f = VehicleState(0)
                     \/ \E button \in Buttons : \E n \in 1 .. WIRE_MODULUS - 1 :
                          f = Frame(button, n)
  BY DEF Sent
<1>3. QED
  BY <1>1, <1>2 DEF Buttons

\* A press puts a frame of the kind into the queue.
LEMMA PressSends ==
  ASSUME NEW button \in Buttons, NEW n \in 1 .. WIRE_MODULUS - 1
  PROVE  Frame(button, n) \in Sent
  BY DEF Sent

\* The constants allow the inputs the server loop builds here.
LEMMA AtRestType == AtRest \in RebInputs /\ 1 \in Millis /\ 0 \in Nonces
<1>1. 1 \in Millis /\ 0 \in Nonces /\ 0 \in Speeds
  BY ModuliAssumption, CalibrationAssumption, SendersAssumption DEF Millis, Nonces
<1>2. QED
  BY <1>1 DEF AtRest, RebInputs, RebRemoteCommand

\* The number on a frame is a nonce of the core.
LEMMA WireNonces == 1 .. WIRE_MODULUS - 1 \subseteq Nonces
  BY SendersAssumption, ModuliAssumption DEF Nonces

\* What the core is told of a frame: an unlock comes from two buttons only, and
\* with its acknowledgement.
LEMMA DeliveredInput ==
  ASSUME NEW f \in Sent
  PROVE  LET in == RxToInputs(f, AtRest, 1) IN
         /\ in \in RebInputs
         /\ in.timestamp_ms = 1
         /\ in.remote_command = "UNLOCK" =>
              /\ in.tcu_ack_received
              /\ in.nonce \in 1 .. WIRE_MODULUS - 1
              /\ f \in {RebCmd(2, in.nonce), PanelAuth(TRUE, in.nonce)}
<1> DEFINE in == RxToInputs(f, AtRest, 1)
<1>a. [AtRest EXCEPT !.timestamp_ms = 1] = AtRest
  BY DEF AtRest
<1>1. CASE f = VehicleState(0)
  <2>1. ReportedSpeed(f) = 0
    BY <1>1 DEF ReportedSpeed, VehicleState
  <2>2. in = [AtRest EXCEPT !.vehicle_speed_kmh = 0]
    BY <1>1, <1>a, <2>1 DEF RxToInputs, VehicleState
  <2>3. in = AtRest
    BY <2>2 DEF AtRest
  <2>4. AtRest.timestamp_ms = 1 /\ AtRest.remote_command # "UNLOCK"
    BY DEF AtRest
  <2>5. QED
    BY <2>3, <2>4, AtRestType
<1>2. CASE \E n \in 1 .. WIRE_MODULUS - 1 : f \in {RebCmd(1, n), RebCmd(2, n)}
  <2>1. PICK n \in 1 .. WIRE_MODULUS - 1 : f \in {RebCmd(1, n), RebCmd(2, n)}
    BY <1>2
  <2>c. CommandOf(1) = "BLOCK" /\ CommandOf(2) = "UNLOCK" /\ ~AtRest.tcu_ack_received
    BY DEF CommandOf, AtRest
  <2>2. CASE f = RebCmd(1, n)
    <3>0. f.msg_id = "REB_CMD" /\ f.cmd_type = 1 /\ f.cmd_nonce = n
      BY <2>2 DEF RebCmd
    <3>1. in = [AtRest EXCEPT !.remote_command = "BLOCK", !.nonce = n,
                              !.tcu_ack_received = FALSE]
      BY <1>a, <2>c, <3>0 DEF RxToInputs, AtRest
    <3>2. QED
      BY <3>1, AtRestType, WireNonces DEF AtRest, RebInputs, RebRemoteCommand
  <2>3. CASE f = RebCmd(2, n)
    <3>0. f.msg_id = "REB_CMD" /\ f.cmd_type = 2 /\ f.cmd_nonce = n
      BY <2>3 DEF RebCmd
    <3>1. in = [AtRest EXCEPT !.remote_command = "UNLOCK", !.nonce = n,
                              !.tcu_ack_received = TRUE]
      BY <1>a, <2>c, <3>0 DEF RxToInputs, AtRest
    <3>2. QED
      BY <2>3, <3>1, AtRestType, WireNonces DEF AtRest, RebInputs, RebRemoteCommand
  <2>4. QED
    BY <2>1, <2>2, <2>3
<1>3. CASE \E n \in 1 .. WIRE_MODULUS - 1 :
             f \in {PanelAuth(TRUE, n), PanelBlock(TRUE, n), PanelCancel(TRUE)}
  <2>1. PICK n \in 1 .. WIRE_MODULUS - 1 :
               f \in {PanelAuth(TRUE, n), PanelBlock(TRUE, n), PanelCancel(TRUE)}
    BY <1>3
  <2>2. CASE f = PanelAuth(TRUE, n)
    <3>1. in = [AtRest EXCEPT !.remote_command = "UNLOCK", !.nonce = n,
                              !.tcu_ack_received = TRUE]
      BY <1>a, <2>2 DEF RxToInputs, PanelAuth
    <3>2. QED
      BY <2>2, <3>1, AtRestType, WireNonces DEF AtRest, RebInputs, RebRemoteCommand
  <2>3. CASE f = PanelBlock(TRUE, n)
    <3>1. in = [AtRest EXCEPT !.remote_command = "BLOCK", !.nonce = n,
                              !.tcu_ack_received = TRUE]
      BY <1>a, <2>3 DEF RxToInputs, PanelBlock
    <3>2. QED
      BY <3>1, AtRestType, WireNonces DEF AtRest, RebInputs, RebRemoteCommand
  <2>4. CASE f = PanelCancel(TRUE)
    <3>1. in = [AtRest EXCEPT !.remote_command = "CANCEL"]
      BY <1>a, <2>4 DEF RxToInputs, PanelCancel
    <3>2. QED
      BY <3>1, AtRestType DEF AtRest, RebInputs, RebRemoteCommand
  <2>5. QED
    BY <2>1, <2>2, <2>3, <2>4
<1>4. QED
  BY <1>1, <1>2, <1>3, SentFrame

\* An unlock frame tells the core to unlock with its number.
LEMMA UnlockInput ==
  ASSUME NEW n
  PROVE  \A f \in {RebCmd(2, n), PanelAuth(TRUE, n)} :
           /\ RxToInputs(f, AtRest, 1).remote_command = "UNLOCK"
           /\ RxToInputs(f, AtRest, 1).nonce = n
  BY DEF RxToInputs, RebCmd, PanelAuth, CommandOf, AtRest
--------------------------------------------------------------------------------
(* The inductive invariant *)

\* The instance of InputsAssumption, as the core's lemmas want it.
LEMMA InputsFit == RebInputs \subseteq CP!RebInputs
  BY SameTypes

LEMMA SInvInit == Init => SInv
<1> SUFFICES ASSUME Init PROVE SInv
  OBVIOUS
<1>1. CP!Init
  BY SameInit DEF Init
<1>2. CP!IInv
  BY <1>1, InputsFit, CP!IInvInit, ModuliAssumption, CalibrationAssumption,
     SpeedsAssumption
<1>3. next_nonce \in [Senders -> 1 .. WIRE_MODULUS]
  BY SendersAssumption DEF Init
<1>4. QED
  BY <1>2, <1>3, SendersAssumption DEF Init, SInv

\* What the core does with the frame at the head of the queue.
LEMMA DeliverStep ==
  ASSUME SInv, Deliver
  PROVE  /\ Head(queue) \in Sent /\ Tail(queue) \in Seq(Sent)
         /\ Len(Tail(queue)) = Len(queue) - 1
         /\ RxToInputs(Head(queue), AtRest, 1) \in RebInputs
         /\ CP!Step(RxToInputs(Head(queue), AtRest, 1))
         /\ CP!IInv'
<1>1. queue \in Seq(Sent) /\ queue # <<>>
  BY DEF SInv, Deliver
<1>2. Head(queue) \in Sent /\ Tail(queue) \in Seq(Sent)
        /\ Len(Tail(queue)) = Len(queue) - 1
  BY <1>1
<1> DEFINE in == RxToInputs(Head(queue), AtRest, 1)
<1>3. in \in RebInputs
  BY <1>2, DeliveredInput
<1>4. CP!Step(in)
  BY SameStep DEF Deliver
<1> HIDE DEF in
<1>5. CP!IInv /\ CP!Next
  BY <1>3, <1>4 DEF SInv, CP!Next
<1>6. CP!IInv'
  BY <1>5, InputsFit, CP!IInvStep, ModuliAssumption, CalibrationAssumption,
     SpeedsAssumption
<1>7. QED
  BY <1>2, <1>3, <1>4, <1>6 DEF in

\* Whatever does not concern the core leaves its invariant alone.
LEMMA CoreUntouched ==
  ASSUME CP!IInv, UNCHANGED core
  PROVE  CP!IInv'
<1>1. [CP!Next]_(CP!vars)
  BY DEF CP!vars, core
<1>2. QED
  BY <1>1, InputsFit, CP!IInvStep, ModuliAssumption, CalibrationAssumption,
     SpeedsAssumption

\* The counter is taken before it is advanced.
LEMMA PressCounts ==
  ASSUME SInv, NEW button \in Buttons, Press(button)
  PROVE  /\ next_nonce[SenderOf(button)] \in 1 .. WIRE_MODULUS - 1
         /\ next_nonce' \in [Senders -> 1 .. WIRE_MODULUS]
         /\ \A s \in Senders :
              next_nonce'[s] = IF s = SenderOf(button) THEN next_nonce[s] + 1
                                                       ELSE next_nonce[s]
<1>1. SenderOf(button) \in Senders
  BY DEF SenderOf, Senders
<1>2. next_nonce \in [Senders -> 1 .. WIRE_MODULUS] /\ WIRE_MODULUS \in Nat
  BY SendersAssumption, ModuliAssumption DEF SInv
<1>3. /\ next_nonce[SenderOf(button)] < WIRE_MODULUS
      /\ next_nonce' = [next_nonce EXCEPT ![SenderOf(button)] = @ + 1]
  BY DEF Press, TakeNonce
<1>4. next_nonce[SenderOf(button)] \in 1 .. WIRE_MODULUS - 1
  BY <1>1, <1>2, <1>3
<1>5. QED
  BY <1>1, <1>2, <1>3, <1>4

LEMMA SInvStep ==
  ASSUME SInv, [Next]_vars
  PROVE  SInv'
<1>q. /\ queue \in Seq(Sent) /\ Len(queue) \in Nat /\ Len(queue) <= QueueCapacity
      /\ QueueCapacity \in Nat
  BY SendersAssumption DEF SInv
<1>1. ASSUME NEW button \in Buttons, Press(button)
      PROVE  SInv'
  <2>1. next_nonce[SenderOf(button)] \in 1 .. WIRE_MODULUS - 1
          /\ next_nonce' \in [Senders -> 1 .. WIRE_MODULUS]
    BY <1>1, PressCounts
  <2>2. Frame(button, next_nonce[SenderOf(button)]) \in Sent
    BY <2>1, PressSends
  <2>3. Len(queue) < QueueCapacity
          /\ queue' = Append(queue, Frame(button, next_nonce[SenderOf(button)]))
    BY <1>1 DEF Press
  <2>4. queue' \in Seq(Sent) /\ Len(queue') <= QueueCapacity
    BY <1>q, <2>2, <2>3
  <2>5. CP!IInv' /\ restarts' \in 0 .. MaxRestarts
    BY <1>1, CoreUntouched DEF Press, SInv
  <2>6. QED
    BY <2>1, <2>4, <2>5 DEF SInv
<1>2. CASE Report
  <2>1. VehicleState(0) \in Sent
    BY DEF Sent
  <2>2. queue' \in Seq(Sent) /\ Len(queue') <= QueueCapacity
    BY <1>2, <1>q, <2>1 DEF Report
  <2>3. CP!IInv'
    BY <1>2, CoreUntouched DEF Report, SInv
  <2>4. QED
    BY <1>2, <2>2, <2>3 DEF Report, SInv
<1>3. CASE Deliver
  <2>1. CP!IInv' /\ Tail(queue) \in Seq(Sent) /\ Len(Tail(queue)) = Len(queue) - 1
    BY <1>3, DeliverStep
  <2>2. queue' = Tail(queue) /\ UNCHANGED <<next_nonce, restarts>>
    BY <1>3 DEF Deliver
  <2>3. queue' \in Seq(Sent) /\ Len(queue') <= QueueCapacity
    BY <1>q, <2>1, <2>2
  <2>4. QED
    BY <2>1, <2>2, <2>3 DEF SInv
<1>4. CASE Lose
  <2>1. queue # <<>> /\ queue' = Tail(queue) /\ UNCHANGED <<core, next_nonce, restarts>>
    BY <1>4 DEF Lose
  <2>2. queue' \in Seq(Sent) /\ Len(queue') <= QueueCapacity
    BY <1>q, <2>1
  <2>3. CP!IInv'
    BY <2>1, CoreUntouched DEF SInv
  <2>4. QED
    BY <2>1, <2>2, <2>3 DEF SInv
<1>5. CASE DashboardRestart
  <2>1. next_nonce' \in [Senders -> 1 .. WIRE_MODULUS]
    BY <1>5, SendersAssumption DEF DashboardRestart
  <2>2. restarts' \in 0 .. MaxRestarts
    BY <1>5, SendersAssumption DEF DashboardRestart, SInv
  <2>3. CP!IInv'
    BY <1>5, CoreUntouched DEF DashboardRestart, SInv
  <2>4. QED
    BY <1>5, <2>1, <2>2, <2>3 DEF DashboardRestart, SInv
<1>6. CASE UNCHANGED vars
  <2>1. CP!IInv'
    BY <1>6, CoreUntouched DEF vars, SInv
  <2>2. QED
    BY <1>6, <2>1 DEF vars, SInv
<1>7. QED
  BY <1>1, <1>2, <1>3, <1>4, <1>5, <1>6 DEF Next

\* The inductive invariant holds in every reachable state.
LEMMA SInvAlways == Spec => []SInv
  BY SInvInit, SInvStep, PTL DEF Spec

\* Under losses, restarts and any order of presses the core keeps its types, and
\* the counters stay within the two bytes a frame has for them.
THEOREM TypeCorrect == Spec => []TypeOK
<1>1. SInv => TypeOK
  BY SameTypeOK DEF SInv, TypeOK, CP!IInv
<1>2. QED
  BY <1>1, SInvAlways, PTL
--------------------------------------------------------------------------------
(* The lock and the window *)

\* An unlock with this number, from either sender.
UnlockFrames(n) == {RebCmd(2, n), PanelAuth(TRUE, n)}

\* A number newer than the last accepted one is in no slot of the ring buffer: all
\* it holds was accepted in this epoch, or is the zero it began with.
LEMMA NewerNotReplayed ==
  ASSUME CP!IInv, NEW n \in Nonces, n > context.last_valid_nonce
  PROVE  ~CP!NonceReplayed(context, n)
<1>1. /\ \A m \in spent : m <= context.last_valid_nonce
      /\ \A i \in HistorySlots : context.nonce_history[i] \in spent \cup {0}
      /\ spent \subseteq Nonces
  BY SameTypes DEF CP!IInv, CP!TypeOK, CP!LedgerBounded, CP!HistoryInOrder
<1>2. context.last_valid_nonce \in Nonces
  BY SameTypes DEF CP!IInv, CP!TypeOK, RebContext, ContextsIn
<1>3. n \in Int /\ context.last_valid_nonce \in Nat
  BY <1>2, ModuliAssumption DEF Nonces
<1>4. n \notin spent /\ n # 0
  BY <1>1, <1>3
<1>5. QED
  BY <1>1, <1>4, SameTypes DEF CP!NonceReplayed

\* In a blocked context the window moves with the release only, and the release
\* comes from an unlock in the window, which is never turned down.
LEMMA BlockedDelivery ==
  ASSUME SInv, Deliver, Blocked
  PROVE  /\ Blocked' => context'.last_valid_nonce = context.last_valid_nonce
         /\ ~Blocked' <=> \E n \in Acceptable : Head(queue) \in UnlockFrames(n)
<1> DEFINE in == RxToInputs(Head(queue), AtRest, 1)
<1>1. /\ Head(queue) \in Sent
      /\ in \in RebInputs
      /\ CP!Step(in)
      /\ CP!IInv /\ CP!TypeOK
      /\ context.current_state = "BLOCKED"
  BY DeliverStep DEF SInv, CP!IInv, Blocked
<1>2. /\ in.timestamp_ms = 1
      /\ in.remote_command = "UNLOCK" =>
           /\ in.tcu_ack_received
           /\ in.nonce \in 1 .. WIRE_MODULUS - 1
           /\ Head(queue) \in UnlockFrames(in.nonce)
  BY <1>1, DeliveredInput DEF UnlockFrames
<1>3. \A n : Head(queue) \in UnlockFrames(n) =>
               in.remote_command = "UNLOCK" /\ in.nonce = n
  BY UnlockInput DEF UnlockFrames
<1> HIDE DEF in
<1>4. context \in RebContext /\ context.last_valid_nonce \in Nat
  BY <1>1, SameTypes, ModuliAssumption DEF CP!TypeOK, RebContext, ContextsIn, Nonces
<1>5. ASSUME in.remote_command = "UNLOCK"
      PROVE  CP!CommandValid(in, context) <=> in.nonce \in Acceptable
  <2>1. in.nonce \in Nonces /\ in.nonce \in 1 .. WIRE_MODULUS - 1 /\ in.nonce \in Int
    BY <1>2, <1>5, WireNonces, SendersAssumption, ModuliAssumption
  <2>2. in.nonce \in Acceptable <=> CP!NonceInWindow(context, in.nonce)
    BY <1>4, <2>1, CalibrationAssumption DEF Acceptable, CP!NonceInWindow
  <2>3. CP!NonceInWindow(context, in.nonce) => ~CP!NonceReplayed(context, in.nonce)
    BY <1>1, <2>1, NewerNotReplayed DEF CP!NonceInWindow
  <2>4. QED
    BY <1>2, <1>5, <2>2, <2>3 DEF CP!CommandValid
<1>6. CP!BlockedHold(in) \/ CP!BlockedUnlock(in)
        \/ CP!BlockedUnlockUnacknowledged(in) \/ CP!BlockedUnlockInvalid(in)
  BY <1>1 DEF CP!Step, CP!IdleIntrusion, CP!IdleRemoteBlock, CP!RemoteBlockAccepted,
              CP!IdleNothing, CP!TheftCancel, CP!TheftStationary,
              CP!TheftWindowExpired, CP!TheftWaiting, CP!BlockingMoving,
              CP!BlockingStopped
<1>7. CASE CP!BlockedHold(in)
  <2>1. in.remote_command # "UNLOCK"
    BY <1>7 DEF CP!BlockedHold
  <2>2. context'.last_valid_nonce = context.last_valid_nonce /\ Blocked'
    BY <1>1, <1>4, <1>7 DEF CP!BlockedHold, CP!Retransmitted, Blocked, RebContext,
                            ContextsIn
  <2>3. QED
    BY <1>3, <2>1, <2>2
<1>8. CASE CP!BlockedUnlock(in)
  <2>1. in.remote_command = "UNLOCK" /\ CP!CommandValid(in, context)
    BY <1>8 DEF CP!BlockedUnlock, CP!UnlockAllowed
  <2>2. ~Blocked'
    BY <1>8 DEF CP!BlockedUnlock, CP!InitContext, Blocked
  <2>3. QED
    BY <1>2, <1>5, <2>1, <2>2
<1>9. CASE CP!BlockedUnlockUnacknowledged(in)
  BY <1>2, <1>9 DEF CP!BlockedUnlockUnacknowledged
<1>10. CASE CP!BlockedUnlockInvalid(in)
  <2>1. in.remote_command = "UNLOCK" /\ ~CP!CommandValid(in, context)
    BY <1>10 DEF CP!BlockedUnlockInvalid
  <2>2. context'.last_valid_nonce = context.last_valid_nonce /\ Blocked'
    BY <1>1, <1>4, <1>10 DEF CP!BlockedUnlockInvalid, CP!Retransmitted,
         CP!CountInvalidAttempts, Blocked, RebContext, ContextsIn
  <2>3. ~\E n \in Acceptable : Head(queue) \in UnlockFrames(n)
    BY <1>3, <1>5, <2>1
  <2>4. QED
    BY <2>2, <2>3
<1>11. QED
  BY <1>6, <1>7, <1>8, <1>9, <1>10

--------------------------------------------------------------------------------
(* Reach *)

\* The unlock of one sender.
UnlockOf(s, n) == IF s = "tcu" THEN RebCmd(2, n) ELSE PanelAuth(TRUE, n)

InQueue(f) == \E i \in DOMAIN queue : queue[i] = f

\* Reach in terms of single numbers, in this state and in the next.
LEMMA ReachOfNumbers ==
  ASSUME NEW s \in Senders
  PROVE  /\ InReach(s) <=> \E n \in Acceptable :
                             InQueue(UnlockOf(s, n)) \/ n >= next_nonce[s]
         /\ InReach(s)' <=> \E n \in Acceptable' :
                              InQueue(UnlockOf(s, n))' \/ n >= next_nonce'[s]
<1>1. InReach(s) <=> \E n \in Acceptable :
                       InQueue(UnlockOf(s, n)) \/ n >= next_nonce[s]
  BY Zenon DEF InReach, Unlocks, InFlight, UnlockOf, InQueue
<1>2. InReach(s)' <=> \E n \in Acceptable' :
                        InQueue(UnlockOf(s, n))' \/ n >= next_nonce'[s]
  BY Zenon DEF InReach, Unlocks, InFlight, UnlockOf, InQueue
<1>3. QED
  BY <1>1, <1>2

\* The frames differ by kind and by number.
LEMMA UnlockOfFrame ==
  ASSUME NEW s \in Senders, NEW n, NEW button \in Buttons, NEW m,
         Frame(button, m) = UnlockOf(s, n)
  PROVE  SenderOf(button) = s /\ m = n
  BY DEF Frame, UnlockOf, Senders, Buttons, SenderOf, RebCmd, PanelAuth, PanelBlock,
         PanelCancel

\* The unlock button of a sender.
LEMMA UnlockButtons ==
  \A n : /\ Frame("remote_unblock", n) = UnlockOf("tcu", n)
         /\ Frame("panel_auth", n) = UnlockOf("panel", n)
         /\ VehicleState(0) # UnlockOf("tcu", n) /\ VehicleState(0) # UnlockOf("panel", n)
  BY DEF Frame, UnlockOf, RebCmd, PanelAuth, VehicleState
\* What joins the queue, and what leaves it.
LEMMA QueueGrows ==
  ASSUME SInv, NEW f \in Sent, queue' = Append(queue, f)
  PROVE  \A g : InQueue(g)' <=> InQueue(g) \/ g = f
<1>1. queue \in Seq(Sent)
  BY DEF SInv
<1>2. /\ Len(queue) \in Nat
      /\ DOMAIN queue = 1 .. Len(queue)
      /\ DOMAIN queue' = 1 .. Len(queue) + 1
      /\ \A i \in 1 .. Len(queue) : queue'[i] = queue[i]
      /\ queue'[Len(queue) + 1] = f
  BY <1>1
<1>3. QED
  BY <1>2 DEF InQueue

LEMMA QueueShrinks ==
  ASSUME SInv, queue # <<>>, queue' = Tail(queue)
  PROVE  /\ InQueue(Head(queue))
         /\ \A g : InQueue(g)' => InQueue(g)
         /\ \A g : InQueue(g) => InQueue(g)' \/ g = Head(queue)
<1>1. queue \in Seq(Sent)
  BY DEF SInv
<1>2. /\ Len(queue) \in Nat \ {0}
      /\ DOMAIN queue = 1 .. Len(queue)
      /\ DOMAIN queue' = 1 .. Len(queue) - 1
      /\ \A i \in 1 .. Len(queue) - 1 : queue'[i] = queue[i + 1]
      /\ queue[1] = Head(queue)
  BY <1>1
<1>3. InQueue(Head(queue))
  BY <1>2 DEF InQueue
<1>4. ASSUME NEW g, InQueue(g)'
      PROVE  InQueue(g)
  BY <1>2, <1>4 DEF InQueue
<1>5. ASSUME NEW g, InQueue(g), g # Head(queue)
      PROVE  InQueue(g)'
  <2>1. PICK i \in 1 .. Len(queue) : queue[i] = g
    BY <1>2, <1>5 DEF InQueue
  <2>2. i - 1 \in 1 .. Len(queue) - 1 /\ queue'[i - 1] = g
    BY <1>2, <1>5, <2>1
  <2>3. QED
    BY <1>2, <2>2 DEF InQueue
<1>6. QED
  BY <1>3, <1>4, <1>5

\* As long as the context is blocked the numbers that release it stay the same.
LEMMA WindowStays ==
  ASSUME SInv, [Next]_vars, Blocked, Blocked'
  PROVE  Acceptable' = Acceptable
<1>1. context'.last_valid_nonce = context.last_valid_nonce
  <2>1. CASE Deliver
    BY <2>1, BlockedDelivery
  <2>2. CASE ~Deliver
    BY <2>2 DEF Next, Press, Report, Lose, DashboardRestart, vars, core
  <2>3. QED
    BY <2>1, <2>2
<1>2. QED
  BY <1>1 DEF Acceptable

\* A sender that is out of reach stays so while the context is blocked, except
\* for a restart of its counter; and its frames do not lift the lock.
LEMMA UnreachedStep ==
  ASSUME SInv, [Next]_vars, Blocked, Blocked', NEW s \in Senders, ~InReach(s)
  PROVE  DashboardRestart \/ ~InReach(s)'
<1>1. SUFFICES ASSUME ~DashboardRestart, NEW n \in Acceptable,
                      InQueue(UnlockOf(s, n))' \/ n >= next_nonce'[s]
               PROVE  FALSE
  BY WindowStays, ReachOfNumbers
<1>2. ~InQueue(UnlockOf(s, n)) /\ ~(n >= next_nonce[s])
  BY <1>1, ReachOfNumbers
<1>3. n \in Int /\ next_nonce[s] \in Int
  BY SendersAssumption, ModuliAssumption DEF Acceptable, SInv
<1>4. ASSUME NEW button \in Buttons, Press(button)
      PROVE  FALSE
  <2>1. DEFINE m == next_nonce[SenderOf(button)]
  <2>2. m \in 1 .. WIRE_MODULUS - 1
          /\ next_nonce'[s] = IF s = SenderOf(button) THEN next_nonce[s] + 1
                                                     ELSE next_nonce[s]
    BY <1>4, PressCounts
  <2>3. ~(n >= next_nonce'[s])
    BY <1>2, <1>3, <2>2
  <2>4. Frame(button, m) \in Sent /\ queue' = Append(queue, Frame(button, m))
    BY <1>4, <2>2, PressSends DEF Press
  <2>5. Frame(button, m) = UnlockOf(s, n)
    BY <1>1, <1>2, <2>3, <2>4, QueueGrows
  <2>6. m = n /\ SenderOf(button) = s
    BY <2>5, UnlockOfFrame
  <2>7. QED
    BY <1>2, <1>3, <2>6
<1>5. CASE Report
  <2>1. VehicleState(0) \in Sent /\ queue' = Append(queue, VehicleState(0))
    BY <1>5 DEF Report, Sent
  <2>2. UnlockOf(s, n) # VehicleState(0)
    BY UnlockButtons DEF Senders
  <2>3. QED
    BY <1>1, <1>2, <1>5, <2>1, <2>2, QueueGrows DEF Report
<1>6. CASE Deliver \/ Lose
  <2>1. queue # <<>> /\ queue' = Tail(queue) /\ UNCHANGED next_nonce
    BY <1>6 DEF Deliver, Lose
  <2>2. QED
    BY <1>1, <1>2, <2>1, QueueShrinks
<1>7. CASE UNCHANGED vars
  BY <1>1, <1>2, <1>7 DEF vars, InQueue
<1>8. QED
  BY <1>1, <1>4, <1>5, <1>6, <1>7 DEF Next

\* The lock is lifted by a sender that was in reach.
LEMMA ReleaseNeedsReach ==
  ASSUME SInv, [Next]_vars, Blocked, ~Blocked'
  PROVE  \E s \in Senders : InReach(s)
<1>1. Deliver
  BY DEF Next, Press, Report, Lose, DashboardRestart, vars, core, Blocked
<1>2. PICK n \in Acceptable : Head(queue) \in UnlockFrames(n)
  BY <1>1, BlockedDelivery
<1>3. InQueue(Head(queue))
  BY <1>1, QueueShrinks DEF Deliver
<1>4. \E s \in Senders : Head(queue) = UnlockOf(s, n)
  BY <1>2 DEF UnlockFrames, UnlockOf, Senders
<1>5. QED
  BY <1>3, <1>4, ReachOfNumbers

\* A sender in reach stays in reach, unless a frame is lost or one of its other
\* buttons is pressed: an unlock press spends the number it puts under way.
LEMMA ReachedStep ==
  ASSUME SInv, [Next]_vars, Blocked, Blocked', NEW s \in Senders, InReach(s),
         ~Lose,
         \A button \in Buttons \ {"remote_unblock", "panel_auth"} :
           ~(SenderOf(button) = s /\ Press(button))
  PROVE  InReach(s)'
<1>1. PICK n \in Acceptable : InQueue(UnlockOf(s, n)) \/ n >= next_nonce[s]
  BY ReachOfNumbers
<1>2. SUFFICES InQueue(UnlockOf(s, n))' \/ n >= next_nonce'[s]
  BY WindowStays, ReachOfNumbers
<1>3. n \in Int /\ next_nonce[s] \in Int /\ n >= 1
  BY SendersAssumption, ModuliAssumption DEF Acceptable, SInv
<1>4. ASSUME NEW button \in Buttons, Press(button)
      PROVE  InQueue(UnlockOf(s, n))' \/ n >= next_nonce'[s]
  <2>1. DEFINE m == next_nonce[SenderOf(button)]
  <2>2. m \in 1 .. WIRE_MODULUS - 1
          /\ next_nonce'[s] = IF s = SenderOf(button) THEN next_nonce[s] + 1
                                                     ELSE next_nonce[s]
    BY <1>4, PressCounts
  <2>3. Frame(button, m) \in Sent /\ queue' = Append(queue, Frame(button, m))
    BY <1>4, <2>2, PressSends DEF Press
  <2>4. \A g : InQueue(g) \/ g = Frame(button, m) => InQueue(g)'
    BY <2>3, QueueGrows
  <2>5. CASE InQueue(UnlockOf(s, n))
    BY <2>4, <2>5
  <2>6. CASE n >= next_nonce[s] /\ SenderOf(button) # s
    BY <2>2, <2>6
  <2>7. CASE n > next_nonce[s]
    BY <1>3, <2>2, <2>7
  <2>8. CASE n = next_nonce[s] /\ SenderOf(button) = s
    <3>1. button \in {"remote_unblock", "panel_auth"}
      BY <1>4, <2>8
    <3>2. Frame(button, m) = UnlockOf(s, n)
      BY <2>8, <3>1, UnlockButtons DEF SenderOf
    <3>3. QED
      BY <2>4, <3>2
  <2>9. QED
    BY <1>1, <1>3, <2>5, <2>6, <2>7, <2>8
<1>5. CASE Report
  <2>1. VehicleState(0) \in Sent /\ queue' = Append(queue, VehicleState(0))
          /\ UNCHANGED next_nonce
    BY <1>5 DEF Report, Sent
  <2>2. QED
    BY <1>1, <2>1, QueueGrows
<1>6. CASE Deliver
  <2>1. queue # <<>> /\ queue' = Tail(queue) /\ UNCHANGED next_nonce
    BY <1>6 DEF Deliver
  <2>2. UnlockOf(s, n) # Head(queue)
    BY <1>6, BlockedDelivery DEF UnlockFrames, UnlockOf
  <2>3. QED
    BY <1>1, <2>1, <2>2, QueueShrinks
<1>7. CASE DashboardRestart
  BY <1>3, <1>7 DEF DashboardRestart
<1>8. CASE UNCHANGED vars
  BY <1>1, <1>8 DEF vars, InQueue
<1>9. QED
  BY <1>4, <1>5, <1>6, <1>7, <1>8 DEF Next

--------------------------------------------------------------------------------
(* The results *)

\* For every window and every number of presses: while the vehicle is blocked, an
\* unlock press never costs its sender the reach, nor does anything the other
\* sender does; waste of the sender's own or a loss must have happened.
THEOREM UnlockPressesAreFree == Spec => ReachLostByWasteOnly
<1>1. SInv /\ [Next]_vars =>
        [\A s \in Senders :
           Blocked /\ Blocked' /\ InReach(s) /\ ~InReach(s)' =>
             \/ Lose
             \/ \E button \in Buttons \ {"remote_unblock", "panel_auth"} :
                  SenderOf(button) = s /\ Press(button)]_vars
  BY ReachedStep
<1>2. QED
  BY <1>1, SInvAlways, PTL DEF Spec, ReachLostByWasteOnly

\* A blocked vehicle that neither sender can reach stays blocked, whatever is
\* pressed and however often, until the dashboard is restarted.
THEOREM StrandedUntilRestart == Spec => OutOfReachForGood
<1>1. SInv /\ [Next]_vars =>
        [(\A s \in Senders : ~InReach(s)) /\ Blocked =>
           Blocked' /\ (DashboardRestart \/ \A s \in Senders : ~InReach(s)')]_vars
  BY UnreachedStep, ReleaseNeedsReach
<1>2. QED
  BY <1>1, SInvAlways, PTL DEF Spec, OutOfReachForGood
===============================================================================
