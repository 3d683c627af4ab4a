------------------------------- MODULE MCCanStack -------------------------------
(***************************************************************************)
(* A byte has 128 values, which keeps 32-bit times within TLC's integers   *)
(* and the timeouts, the ticks and the percentages those of the code.      *)
(***************************************************************************)
EXTENDS CanStack

\* Every kind of message, nonces and speeds on both sides of a byte boundary.
MCMeant ==
  {RebCmd(1, 127), RebCmd(2, 128), TcuToReb("ACK", 16384),
   VehicleState(99), VehicleState(16300), BcmIntrusion("HIGH"),
   PanelAuth(TRUE, 129), PanelBlock(TRUE, 130), PanelCancel(TRUE)}

\* One deviation from a frame of the bridge at a time.
Good == BridgeBuffer(VehicleState(5000))

MCOtherFrames ==
  { [Good EXCEPT !.version = 2],
    [Good EXCEPT !.id = "other"],
    [Good EXCEPT !.id = "REB_STATUS"],
    [Good EXCEPT !.id_type = "EXTENDED"],
    [Good EXCEPT !.id_type = "invalid"],
    [Good EXCEPT !.range = 29],
    [Good EXCEPT !.frame_type = "REMOTE"],
    [Good EXCEPT !.frame_type = "invalid"],
    [Good EXCEPT !.dlc = 7],
    [Good EXCEPT !.dlc = 9],
    [BridgeBuffer(BcmIntrusion("HIGH")) EXCEPT !.data = [i \in 1 .. 8 |-> 9]] }

Answer(state, lock, derate, nonce) ==
  [ context |-> [current_state |-> state, last_valid_nonce |-> nonce],
    outputs |-> [starter_lock |-> lock, derate_percent |-> derate] ]

\* What RebStateMachine answers with: the first step of a release still carries
\* the outputs computed before the transition.
MCAnswered ==
  { Answer("BLOCKED", FALSE, 0, 1), Answer("BLOCKING", FALSE, 10, 1),
    Answer("IDLE", TRUE, 90, 0) }

MCSpeeds == {0}
===============================================================================
