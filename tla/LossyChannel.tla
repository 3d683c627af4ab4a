----------------------------- MODULE LossyChannel -----------------------------
(***************************************************************************)
(* What a receiver on the bus may count on: it gets some of what was sent, *)
(* each piece at most once and in the order of sending.  Anything may be   *)
(* lost, at any time; nothing is repeated, overtaken or made up.           *)
(* BridgeLink implements this module with the answers of the server.       *)
(***************************************************************************)
EXTENDS Integers, Sequences

VARIABLES
  sent,       \* everything sent so far
  received,   \* everything received so far
  at          \* how many of those sent have been received or passed over

vars == <<sent, received, at>>

Init == sent = <<>> /\ received = <<>> /\ at = 0

\* More is sent; nothing that was sent is taken back.
Send ==
  /\ Len(sent') > Len(sent)
  /\ SubSeq(sent', 1, Len(sent)) = sent
  /\ UNCHANGED <<received, at>>

Receive ==
  \E i \in at + 1 .. Len(sent) :
    /\ received' = Append(received, sent[i])
    /\ at' = i
    /\ UNCHANGED sent

Next == Send \/ Receive

Spec == Init /\ [][Next]_vars
===============================================================================
