-------------------------- MODULE RebServerTimingProofs --------------------------
(***************************************************************************)
(* The confirmation window of RebServer, for every window, every pace of   *)
(* the clock and every set of messages, with a disk that may fail.         *)
(*                                                                         *)
(* The argument: as long as the server runs and loses no tick its clock is *)
(* the dashboard's, so the time since the theft event is the difference    *)
(* the code computes, and a tick alone can bring it to the window.         *)
(***************************************************************************)
EXTENDS RebServerProofs

\* The server is not stopped, its ticks arrive and the dashboard is not restarted.
KeepsRunning == Faults \cap {"stop", "power", "loss", "clock"} = {}

\* The latched inputs ask for nothing.
Cleared(in) == in.remote_command = "NONE" /\ ~in.intrusion_detected

\* While a theft waits for its window, waited is what the code computes.
WindowOpen ==
  InTheft =>
    /\ context.theft_confirmed_timestamp_ms <= sim_ms
    /\ waited = sim_ms - context.theft_confirmed_timestamp_ms
    /\ waited < REB_THEFT_CONFIRM_WINDOW_MS

\* The inductive invariant.
WindowKept ==
  /\ now_ms = sim_ms
  /\ InRing
  /\ pc = "down" => nvm.kind = "absent"
  /\ pc \in {"down", "receive", "send"} => Cleared(inputs)
  /\ WindowOpen

\* The step that WindowHonoured speaks of.
Honoured ==
  InTheft /\ context.automatic_trigger_active
    /\ context'.current_state = "BLOCKING" =>
  waited' = REB_THEFT_CONFIRM_WINDOW_MS

\* What a message or a tick does to the clock and to waited: it stamps the inputs
\* with the dashboard's time, and waited keeps pace with it up to the window.
KeepsPace(in) ==
  /\ sim_ms' \in Millis
  /\ sim_ms <= sim_ms'
  /\ in.timestamp_ms = sim_ms'
  /\ ~InTheft => waited' = 0 \/ Cleared(in)
  /\ InTheft /\ waited + (sim_ms' - sim_ms) < REB_THEFT_CONFIRM_WINDOW_MS =>
       waited' = waited + (sim_ms' - sim_ms)
  /\ InTheft /\ waited + (sim_ms' - sim_ms) >= REB_THEFT_CONFIRM_WINDOW_MS =>
       waited' = REB_THEFT_CONFIRM_WINDOW_MS

--------------------------------------------------------------------------------
(* Lemmas on the operators *)

\* Unsigned subtraction is the difference while the clock has not wrapped.
LEMMA ElapsedForward ==
  ASSUME NEW now \in Millis, NEW since \in Millis, since <= now
  PROVE  Core!Elapsed(now, since) = now - since
<1>1. now - since \in 0 .. MILLIS_MODULUS - 1 /\ MILLIS_MODULUS \in Nat \ {0}
  BY ModuliAssumption DEF Millis
<1>2. (now - since) % MILLIS_MODULUS = now - since
  BY <1>1
<1>3. QED
  BY <1>2 DEF Core!Elapsed

\* Every message stamps the inputs with the server's time.
LEMMA RxTimestamp ==
  ASSUME NEW rx \in Messages, NEW in \in RebInputs, NEW now \in Millis
  PROVE  RxToInputs(rx, in, now).timestamp_ms = now
<1>1. [in EXCEPT !.timestamp_ms = now] \in RebInputs
  BY DEF RebInputs
<1>2. QED
  BY <1>1 DEF RxToInputs, RebInputs

\* The two ways to be in THEFT_CONFIRMED after a step, and the one way out of it
\* for an automatic event.
LEMMA TheftStep ==
  ASSUME TypeOK, NEW in \in RebInputs, Core!Step(in)
  PROVE  /\ context'.current_state = "THEFT_CONFIRMED" =>
              \/ /\ InTheft
                 /\ ~Core!WindowElapsed(in)
                 /\ context'.theft_confirmed_timestamp_ms
                      = context.theft_confirmed_timestamp_ms
              \/ /\ ~InTheft
                 /\ ~Cleared(in)
                 /\ context'.theft_confirmed_timestamp_ms = in.timestamp_ms
         /\ InTheft /\ context.automatic_trigger_active
              /\ context'.current_state = "BLOCKING" => Core!WindowElapsed(in)
<1> USE DEF TypeOK, ContextsIn, InTheft, Cleared
<1>1. CASE Core!IdleIntrusion(in) \/ Core!IdleNothing(in)
  BY <1>1 DEF Core!IdleIntrusion, Core!IdleNothing
<1>2. CASE Core!IdleRemoteBlock(in)
  <2>1. context.current_state = "IDLE" /\ ~Cleared(in)
    BY <1>2 DEF Core!IdleRemoteBlock, Core!RemoteBlockAccepted
  <2>2. context'.theft_confirmed_timestamp_ms = in.timestamp_ms
    BY <1>2 DEF Core!IdleRemoteBlock, Core!ConsumeNonce, Core!StoreNonce
  <2>3. QED
    BY <2>1, <2>2
<1>3. CASE Core!TheftCancel(in) \/ Core!TheftStationary(in)
             \/ Core!TheftWindowExpired(in) \/ Core!TheftWaiting(in)
  BY <1>3 DEF Core!TheftCancel, Core!TheftStationary, Core!TheftWindowExpired,
              Core!TheftWaiting, Core!CommandedAndStationary
<1>4. CASE Core!BlockingMoving(in) \/ Core!BlockingStopped(in)
  BY <1>4 DEF Core!BlockingMoving, Core!BlockingStopped
<1>5. CASE Core!BlockedHold(in)
  BY <1>5 DEF Core!BlockedHold, Core!Retransmitted
<1>6. CASE Core!BlockedUnlock(in)
  BY <1>6 DEF Core!BlockedUnlock, Core!InitContext
<1>7. CASE Core!BlockedUnlockUnacknowledged(in)
  BY <1>7 DEF Core!BlockedUnlockUnacknowledged, Core!ConsumeNonce, Core!StoreNonce,
              Core!Retransmitted, Core!CountInvalidAttempts
<1>8. CASE Core!BlockedUnlockInvalid(in)
  BY <1>8 DEF Core!BlockedUnlockInvalid, Core!Retransmitted,
              Core!CountInvalidAttempts
<1>9. QED
  BY <1>1, <1>2, <1>3, <1>4, <1>5, <1>6, <1>7, <1>8 DEF Core!Step
--------------------------------------------------------------------------------
(* Preservation *)

\* A step of the core on inputs that keep pace keeps the window.
LEMMA CoreKeepsWindow ==
  ASSUME IInv, WindowOpen, NEW in \in RebInputs, Core!Step(in), KeepsPace(in)
  PROVE  WindowOpen' /\ Honoured
<1> DEFINE since == context.theft_confirmed_timestamp_ms
<1>a. since \in Millis
  BY DEF IInv, TypeOK, ContextsIn
<1>1. /\ since \in Int /\ sim_ms \in Int /\ sim_ms' \in Int /\ waited \in Int
      /\ REB_THEFT_CONFIRM_WINDOW_MS \in Int /\ REB_THEFT_CONFIRM_WINDOW_MS > 0
  BY <1>a, CalibrationAssumption, ModuliAssumption DEF IInv, TypeOK, Millis, KeepsPace
<1>b. /\ sim_ms <= sim_ms'
      /\ in.timestamp_ms = sim_ms'
      /\ ~InTheft => waited' = 0 \/ Cleared(in)
      /\ InTheft /\ waited + (sim_ms' - sim_ms) < REB_THEFT_CONFIRM_WINDOW_MS =>
           waited' = waited + (sim_ms' - sim_ms)
      /\ InTheft /\ waited + (sim_ms' - sim_ms) >= REB_THEFT_CONFIRM_WINDOW_MS =>
           waited' = REB_THEFT_CONFIRM_WINDOW_MS
      /\ sim_ms' \in Millis
  BY DEF KeepsPace
<1>2. ASSUME InTheft
      PROVE  /\ since <= sim_ms /\ since <= sim_ms'
             /\ waited = sim_ms - since
             /\ Core!WindowElapsed(in) <=>
                  sim_ms' - since >= REB_THEFT_CONFIRM_WINDOW_MS
  <2>1. since <= sim_ms /\ waited = sim_ms - since
    BY <1>2 DEF WindowOpen
  <2>2. since <= sim_ms'
    BY <1>1, <1>b, <2>1
  <2>3. Core!Elapsed(sim_ms', since) = sim_ms' - since
    BY <1>a, <1>b, <2>2, ElapsedForward
  <2>4. QED
    BY <1>b, <2>1, <2>2, <2>3 DEF Core!WindowElapsed
<1>3. ASSUME InTheft'
      PROVE  /\ context'.theft_confirmed_timestamp_ms <= sim_ms'
             /\ waited' = sim_ms' - context'.theft_confirmed_timestamp_ms
             /\ waited' < REB_THEFT_CONFIRM_WINDOW_MS
  <2>1. CASE InTheft
    <3>1. ~Core!WindowElapsed(in) /\ context'.theft_confirmed_timestamp_ms = since
      BY <1>3, <2>1, TheftStep DEF IInv, InTheft
    <3>2. sim_ms' - since < REB_THEFT_CONFIRM_WINDOW_MS
      BY <1>1, <1>2, <2>1, <3>1
    <3>3. waited + (sim_ms' - sim_ms) = sim_ms' - since
      BY <1>1, <1>2, <2>1
    <3>4. waited + (sim_ms' - sim_ms) < REB_THEFT_CONFIRM_WINDOW_MS
      BY <3>2, <3>3
    <3>5. waited' = sim_ms' - since
      BY <1>b, <2>1, <3>3, <3>4
    <3>6. since <= sim_ms'
      BY <1>2, <2>1
    <3>7. waited' < REB_THEFT_CONFIRM_WINDOW_MS
      BY <3>2, <3>5
    <3>8. QED
      BY <3>1, <3>5, <3>6, <3>7
  <2>2. CASE ~InTheft
    <3>1. ~Cleared(in) /\ context'.theft_confirmed_timestamp_ms = sim_ms'
      BY <1>3, <1>b, <2>2, TheftStep DEF IInv, InTheft
    <3>2. waited' = 0
      BY <1>b, <2>2, <3>1
    <3>3. sim_ms' - context'.theft_confirmed_timestamp_ms = 0
      <4>1. \A a \in Int : a - a = 0
        OBVIOUS
      <4>2. QED
        BY <1>1, <3>1, <4>1, Zenon
    <3>4. context'.theft_confirmed_timestamp_ms <= sim_ms'
      BY <1>1, <3>1
    <3>5. waited' < REB_THEFT_CONFIRM_WINDOW_MS
      BY <1>1, <3>2
    <3>6. QED
      BY <3>2, <3>3, <3>4, <3>5
  <2>3. QED
    BY <2>1, <2>2
<1>4. ASSUME InTheft, context.automatic_trigger_active,
             context'.current_state = "BLOCKING"
      PROVE  waited' = REB_THEFT_CONFIRM_WINDOW_MS
  <2>1. sim_ms' - since >= REB_THEFT_CONFIRM_WINDOW_MS
    BY <1>2, <1>4, TheftStep DEF IInv
  <2>2. waited + (sim_ms' - sim_ms) = sim_ms' - since
    BY <1>1, <1>2, <1>4
  <2>3. waited + (sim_ms' - sim_ms) >= REB_THEFT_CONFIRM_WINDOW_MS
    BY <2>1, <2>2
  <2>4. QED
    BY <1>4, <1>b, <2>3
<1>5. QED
  BY <1>3, <1>4 DEF WindowOpen, Honoured
\* So does one that finds the context outside the enumeration.
LEMMA HandleKeepsWindow ==
  ASSUME IInv, WindowOpen, NEW in \in RebInputs, KeepsPace(in),
         Core!Step(in) \/ StepInvalidState
  PROVE  WindowOpen' /\ Honoured
<1>1. CASE Core!Step(in)
  BY <1>1, CoreKeepsWindow
<1>2. CASE StepInvalidState
  <2>1. ~InTheft
    BY <1>2 DEF StepInvalidState, InTheft, RebState
  <2>2. ~InTheft'
    BY <1>2 DEF StepInvalidState, InTheft, Core!InitContext
  <2>3. QED
    BY <2>1, <2>2 DEF WindowOpen, Honoured
<1>3. QED
  BY <1>1, <1>2

\* Time stands still for a message that is not a tick.
LEMMA ReceiveKeepsWindow ==
  ASSUME IInv, WindowKept, Receive
  PROVE  WindowKept' /\ Honoured
<1>1. PICK rx \in Messages : Handle(rx)
  BY DEF Receive
<1>2. inputs \in RebInputs /\ now_ms \in Millis /\ sim_ms \in Millis
  BY DEF IInv, TypeOK
<1>3. ~IsTimeTick(rx)
  BY MessagesAssumption
<1> DEFINE in == RxToInputs(rx, inputs, now_ms)
<1>a. InRing' /\ pc' = "open"
  BY <1>1, HandleInRing DEF WindowKept
<1>4. /\ now_ms' = now_ms
      /\ Core!Step(in) \/ StepInvalidState
  BY <1>1, <1>3 DEF Handle
<1>5. in \in RebInputs /\ in.timestamp_ms = now_ms
  BY <1>2, RxToInputsType, RxTimestamp
<1> HIDE DEF in
<1>6. sim_ms' = sim_ms /\ waited' = IF InTheft THEN waited ELSE 0
  BY DEF Receive
<1>7. now_ms = sim_ms /\ WindowOpen
  BY DEF WindowKept
<1>8. KeepsPace(in)
  <2>1. sim_ms \in Int /\ sim_ms' - sim_ms = 0 /\ waited + (sim_ms' - sim_ms) = waited
    BY <1>2, <1>6 DEF IInv, TypeOK, Millis
  <2>2. InTheft => waited < REB_THEFT_CONFIRM_WINDOW_MS
    BY <1>7 DEF WindowOpen
  <2>3. waited \in Int /\ REB_THEFT_CONFIRM_WINDOW_MS \in Int
    BY CalibrationAssumption DEF IInv, TypeOK, Millis
  <2>4. InTheft => ~(waited + (sim_ms' - sim_ms) >= REB_THEFT_CONFIRM_WINDOW_MS)
    BY <2>1, <2>2, <2>3
  <2>5. sim_ms <= sim_ms' /\ sim_ms' \in Millis
    BY <1>2, <1>6, <2>1
  <2>6. in.timestamp_ms = sim_ms'
    BY <1>5, <1>6, <1>7
  <2>7. InTheft => waited' = waited + (sim_ms' - sim_ms)
    BY <1>6, <2>1
  <2>8. ~InTheft => waited' = 0
    BY <1>6
  <2>9. QED
    BY <2>4, <2>5, <2>6, <2>7, <2>8 DEF KeepsPace
<1>9. WindowOpen' /\ Honoured
  BY <1>4, <1>5, <1>7, <1>8, HandleKeepsWindow
<1>10. now_ms' = sim_ms'
  BY <1>4, <1>6, <1>7
<1>11. QED
  BY <1>a, <1>9, <1>10 DEF WindowKept

\* A tick alone carries time to the server.
LEMMA TickKeepsWindow ==
  ASSUME IInv, WindowKept, Tick
  PROVE  WindowKept' /\ Honoured
<1>1. PICK delta \in TickDeltas : Advance(delta) /\ Handle(TcuToReb("RETRY", sim_ms'))
  BY DEF Tick
<1>2. inputs \in RebInputs /\ sim_ms \in Int /\ waited \in Int /\ delta \in Nat \ {0}
  BY ServerAssumption, ModuliAssumption DEF IInv, TypeOK, Millis
<1>3. sim_ms' \in Millis /\ sim_ms' = sim_ms + delta
  BY <1>1, AdvanceTypes DEF Advance, IInv
<1> DEFINE in == [inputs EXCEPT !.timestamp_ms = sim_ms']
<1>4. IsTimeTick(TcuToReb("RETRY", sim_ms'))
        /\ TcuToReb("RETRY", sim_ms').echo_timestamp = sim_ms'
  BY DEF IsTimeTick, TcuToReb
<1>a. InRing' /\ pc' = "open"
  BY <1>1, <1>3, HandleInRing DEF WindowKept
<1>5. /\ pc = "receive" /\ now_ms' = sim_ms'
      /\ Core!Step(in) \/ StepInvalidState
  BY <1>1, <1>4 DEF Handle
<1>6. /\ in \in RebInputs /\ in.timestamp_ms = sim_ms'
      /\ in.remote_command = inputs.remote_command
      /\ in.intrusion_detected = inputs.intrusion_detected
  BY <1>2, <1>3 DEF RebInputs
<1> HIDE DEF in
<1>7. Cleared(in) /\ WindowOpen
  BY <1>5, <1>6 DEF WindowKept, Cleared
<1>8. KeepsPace(in)
  <2>1. sim_ms' - sim_ms = delta /\ sim_ms <= sim_ms'
    BY <1>2, <1>3
  <2>2. InTheft => waited' = IF waited + delta < REB_THEFT_CONFIRM_WINDOW_MS
                             THEN waited + delta ELSE REB_THEFT_CONFIRM_WINDOW_MS
    BY <1>1 DEF Advance
  <2>3. REB_THEFT_CONFIRM_WINDOW_MS \in Int
    BY CalibrationAssumption
  <2>4. waited + delta >= REB_THEFT_CONFIRM_WINDOW_MS
          => ~(waited + delta < REB_THEFT_CONFIRM_WINDOW_MS)
    BY <1>2, <2>3
  <2>5. QED
    BY <1>3, <1>6, <1>7, <2>1, <2>2, <2>4 DEF KeepsPace
<1>9. WindowOpen' /\ Honoured
  BY <1>5, <1>6, <1>7, <1>8, HandleKeepsWindow
<1>10. QED
  BY <1>a, <1>5, <1>9 DEF WindowKept

\* A save and the answer leave clock and theft alone, and clear what was asked.
LEMMA AnswerKeepsWindow ==
  ASSUME IInv, WindowKept,
         SaveOpen \/ SaveOpenFails \/ SaveWrite \/ SaveWriteFails \/ Send
  PROVE  WindowKept' /\ Honoured
<1>1. UNCHANGED <<context, now_ms, sim_ms, waited>>
  BY DEF SaveOpen, SaveOpenFails, SaveWrite, SaveWriteFails, Send, AfterExecute, core,
         history
<1>2. ~(InTheft /\ context'.current_state = "BLOCKING")
  BY <1>1 DEF InTheft
<1>3. WindowOpen' /\ now_ms' = sim_ms'
  BY <1>1 DEF WindowKept, WindowOpen, InTheft
<1>4. pc' \notin {"down", "overrun"}
  BY DEF SaveOpen, SaveOpenFails, SaveWrite, SaveWriteFails, Send, AfterExecute
<1>5. pc' \in {"down", "receive", "send"} => Cleared(inputs')
  <2>1. CASE SaveOpen
    BY <2>1 DEF SaveOpen
  <2>2. CASE SaveOpenFails \/ SaveWrite \/ SaveWriteFails
    <3>1. inputs' = ClearTransient(inputs) /\ inputs \in RebInputs
      BY <2>2 DEF SaveOpenFails, SaveWrite, SaveWriteFails, AfterExecute, IInv, TypeOK
    <3>2. Cleared(ClearTransient(inputs))
      BY <3>1 DEF ClearTransient, Cleared, RebInputs
    <3>3. QED
      BY <3>1, <3>2
  <2>3. CASE Send
    BY <2>3 DEF Send, WindowKept
  <2>4. QED
    BY <2>1, <2>2, <2>3
<1>6. InRing'
  BY <1>1, <1>4 DEF WindowKept, InRing
<1>7. QED
  BY <1>2, <1>3, <1>4, <1>5, <1>6 DEF WindowKept, Honoured

\* Without a stop the server is started once, from an empty state file.
LEMMA StartKeepsWindow ==
  ASSUME WindowKept, StartPersistent \/ StartFresh
  PROVE  WindowKept' /\ Honoured
<1>1. /\ pc = "down" /\ pc' = "receive"
      /\ UNCHANGED <<inputs, now_ms, nvm, sim_ms, waited>>
  BY DEF StartPersistent, StartFresh, Start
<1>2. context' = Core!InitContext
  <2>1. CASE StartPersistent
    <3>1. PICK load \in LoadOutcomes : Start(load.context, load.spent)
      BY <2>1 DEF StartPersistent
    <3>2. load = NotLoaded
      BY <1>1 DEF WindowKept, LoadOutcomes
    <3>3. QED
      BY <3>1, <3>2 DEF Start, NotLoaded
  <2>2. CASE StartFresh
    BY <2>2 DEF StartFresh, Start
  <2>3. QED
    BY <2>1, <2>2
<1>3. context'.current_state = "IDLE"
  BY <1>2 DEF Core!InitContext
<1>4. InRing'
  BY <1>1, <1>2, InitInRing DEF InRing
<1>5. QED
  BY <1>1, <1>3, <1>4 DEF WindowKept, WindowOpen, Honoured, InTheft

--------------------------------------------------------------------------------
(* The results *)

\* Before the first start there is no theft and no file.
LEMMA WindowKeptInit == Init => WindowKept
<1>1. Init => InRing
  BY InitInRing DEF Init, InRing
<1>2. QED
  BY <1>1 DEF Init, WindowKept, WindowOpen, Absent, Cleared, ZeroInputs, InTheft,
              Core!InitContext

\* Every step of a server that keeps running keeps the window.
LEMMA WindowKeptStep ==
  ASSUME KeepsRunning, IInv, WindowKept, [Next]_vars
  PROVE  WindowKept' /\ (Honoured \/ UNCHANGED vars)
<1>1. CASE Receive \/ Tick
  BY <1>1, ReceiveKeepsWindow, TickKeepsWindow
<1>2. CASE SaveOpen \/ SaveOpenFails \/ SaveWrite \/ SaveWriteFails \/ Send
  BY <1>2, AnswerKeepsWindow
<1>3. CASE StartPersistent \/ StartFresh
  BY <1>3, StartKeepsWindow
<1>4. /\ ~(LeaveLoop \/ SendFails \/ PowerLoss \/ TickLost \/ DashboardRestart)
      /\ ~(Overrun \/ OverrunStops)
  BY DEF KeepsRunning, LeaveLoop, SendFails, PowerLoss, TickLost, DashboardRestart,
         WindowKept, InRing, Overrun, OverrunStops
<1>5. CASE UNCHANGED vars
  BY <1>5 DEF vars, core, history, WindowKept, WindowOpen, InTheft, InRing
<1>6. QED
  BY <1>1, <1>2, <1>3, <1>4, <1>5 DEF Next

\* The inductive invariant of a server that keeps running.
LEMMA WindowAlways ==
  ASSUME KeepsRunning
  PROVE  Spec => [](IInv /\ WindowKept)
<1>1. IInv /\ WindowKept /\ [Next]_vars => (IInv /\ WindowKept)'
  BY IInvStep, WindowKeptStep
<1>2. QED
  BY <1>1, IInvInit, WindowKeptInit, PTL DEF Spec

\* While the server keeps running and every tick arrives, a confirmed theft does
\* not outlive its window: no tick with which it has passed leaves the core in
\* THEFT_CONFIRMED, whatever messages it came between and whatever the disk does.
THEOREM WindowCloses ==
  ASSUME KeepsRunning
  PROVE  Spec => []WindowNotOverstayed
<1>1. WindowKept => WindowNotOverstayed
  BY DEF WindowKept, WindowOpen, WindowNotOverstayed
<1>2. QED
  BY <1>1, WindowAlways, PTL

\* FR-008: and an automatic event blocks after the whole window, never before.
THEOREM WindowIsHonoured ==
  ASSUME KeepsRunning
  PROVE  Spec => WindowHonoured
<1>1. IInv /\ WindowKept /\ [Next]_vars => [Honoured]_vars
  BY WindowKeptStep
<1>2. QED
  BY <1>1, WindowAlways, PTL DEF Spec, WindowHonoured, Honoured
===============================================================================
