--------------------------- MODULE MCRebStateMachine ---------------------------
(***************************************************************************)
(* Small instances of RebStateMachine.  The nonces reach three windows and *)
(* twice the ring buffer, the clock wraps after twice the confirmation     *)
(* window, the attempt counter wraps after three double counts.            *)
(***************************************************************************)
EXTENDS RebStateMachine

\* At rest, in the dead zone below 0.5 km/h, crawling, and fast.
MCSpeeds == {0, 50, 51, 501}

\* Combinations that differ only in a field the step does not read are left
\* out: the nonce is read with a block or unlock command only, the
\* acknowledgement with an unlock only, and an unlock is looked at in BLOCKED
\* only, where neither the speed nor the intrusion is.
MCInputs ==
  { in \in RebInputs :
      /\ in.remote_command \in {"NONE", "CANCEL", "UNKNOWN"} => in.nonce = 0
      /\ in.remote_command # "UNLOCK" => ~in.tcu_ack_received
      /\ in.remote_command = "UNLOCK" =>
           in.vehicle_speed_kmh = 0 /\ ~in.intrusion_detected
      /\ in.remote_command = "BLOCK" => in.vehicle_speed_kmh \in {0, 51}
      /\ in.remote_command = "UNKNOWN" => in.vehicle_speed_kmh = 0 }
===============================================================================
