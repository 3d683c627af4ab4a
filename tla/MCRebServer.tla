------------------------------ MODULE MCRebServer ------------------------------
(***************************************************************************)
(* Small instances of RebServer: one message of every kind that changes    *)
(* the inputs, two or three nonces, a confirmation window of two ticks.    *)
(***************************************************************************)
EXTENDS RebServer

MCSpeeds == {0, 600}

\* Standing still and driving, as the wire reports it: 0.99 km/h is standstill.
Reports == {VehicleState(99), VehicleState(600)}

\* Everything that drives one event from its trigger to its release.
MCMessages ==
  Reports \cup
  { BcmIntrusion("HIGH"), PanelCancel(TRUE), PanelBlock(TRUE, 1),
    PanelBlock(TRUE, 2), PanelAuth(TRUE, 1), PanelAuth(TRUE, 2) }

\* The same event driven by the TCU, with a command the core does not know.
MCRemoteMessages ==
  Reports \cup
  { BcmIntrusion("HIGH"), TcuToReb("ACK", 0),
    RebCmd(1, 1), RebCmd(2, 2), RebCmd(3, 0), RebCmd(9, 0) }

\* Messages that say nothing about commands: a theft event and its timing.
MCTheftMessages ==
  Reports \cup {BcmIntrusion("HIGH"), PanelCancel(TRUE), PanelCancel(FALSE),
                PanelBlock(TRUE, 1), PanelBlock(FALSE, 2), PanelAuth(TRUE, 2)}

NoRecords == {}

\* What a short file may leave in the buffer: an old BLOCKED context, or a state
\* byte that is no member of the enumeration; the write index inside the ring or
\* beyond it.
MCUninitializedRecords ==
  { [Core!InitContext EXCEPT !.current_state = record[1], !.nonce_history_index = record[2]] :
      record \in {<<"GARBAGE", 0>>, <<"BLOCKED", 2>>, <<"IDLE", 2>>} }
===============================================================================
