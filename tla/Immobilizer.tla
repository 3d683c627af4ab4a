------------------------------ MODULE Immobilizer ------------------------------
(***************************************************************************)
(* What the REB promises, without clocks, speeds, ring buffers or outputs: *)
(* a theft event is confirmed by a sensor or by a fresh command, can be    *)
(* called off until blocking begins, then only goes forward, and a locked  *)
(* starter is released by one fresh command and nothing else.              *)
(* A command is fresh when its nonce is newer than every nonce spent since *)
(* the last release.  RebStateMachine implements this module.              *)
(***************************************************************************)
EXTENDS Integers

CONSTANT Nonce    \* a set of numbers

VARIABLES
  phase,   \* "warned": automatic event, reversible; "armed": commanded event
  spent    \* the nonces spent since the last release

vars == <<phase, spent>>

Phase == {"idle", "warned", "armed", "blocking", "blocked"}

TypeOK == phase \in Phase /\ spent \subseteq Nonce

Init == phase = "idle" /\ spent = {}

Fresh(n) == \A m \in spent : n > m

\* A sensor reports an intrusion.
Warn == phase = "idle" /\ phase' = "warned" /\ UNCHANGED spent

\* A fresh block command: a vehicle at rest goes straight to blocking.
Arm(n) ==
  /\ phase = "idle"
  /\ Fresh(n)
  /\ phase' \in {"armed", "blocking"}
  /\ spent' = spent \cup {n}

\* Not in "blocking", although reb_types.h:97 lets a cancel abort the blocking
\* sequence too: the code has no path back (LateCancelObeyed of RebServer).
Cancel == phase \in {"warned", "armed"} /\ phase' = "idle" /\ UNCHANGED spent

Engage == phase \in {"warned", "armed"} /\ phase' = "blocking" /\ UNCHANGED spent

Lock == phase = "blocking" /\ phase' = "blocked" /\ UNCHANGED spent

\* An unlock command that lacks its acknowledgement spends its nonce in vain.
Burn(n) == phase = "blocked" /\ Fresh(n) /\ spent' = spent \cup {n} /\ UNCHANGED phase

Release(n) == phase = "blocked" /\ Fresh(n) /\ phase' = "idle" /\ spent' = {}

Next ==
  \/ Warn \/ Cancel \/ Engage \/ Lock
  \/ \E n \in Nonce : Arm(n) \/ Burn(n) \/ Release(n)

Spec == Init /\ [][Next]_vars
===============================================================================
