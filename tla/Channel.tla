------------------------------ MODULE Channel ------------------------------
(***************************************************************************)
(* What the framing promises: messages arrive whole, as they were sent and *)
(* in the order in which they were sent; the last ones may never arrive.   *)
(***************************************************************************)
EXTENDS Naturals, Sequences

CONSTANTS Messages

VARIABLES sent, received

Init == sent = <<>> /\ received = <<>>

Send ==
  /\ \E m \in Messages : sent' = Append(sent, m)
  /\ UNCHANGED received

Receive ==
  /\ Len(received) < Len(sent)
  /\ received' = Append(received, sent[Len(received) + 1])
  /\ UNCHANGED sent

Next == Send \/ Receive

Spec == Init /\ [][Next]_<<sent, received>>
=============================================================================
