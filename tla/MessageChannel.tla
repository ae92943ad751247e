--------------------------- MODULE MessageChannel ---------------------------
(***************************************************************************)
(* What a message connection promises to its users: messages arrive whole, *)
(* in the order they were sent, once each, however the byte stream under   *)
(* it was cut.                                                             *)
(***************************************************************************)
EXTENDS Sequences, Naturals

CONSTANT Messages
VARIABLES sent, received

Init == sent = <<>> /\ received = <<>>

Send == \E m \in Messages : sent' = Append(sent, m) /\ UNCHANGED received

Deliver ==
  /\ Len(received) < Len(sent)
  /\ received' = Append(received, sent[Len(received) + 1])
  /\ UNCHANGED sent

Next == Send \/ Deliver
Spec == Init /\ [][Next]_<<sent, received>>
=============================================================================
