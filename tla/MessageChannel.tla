---------------------------- MODULE MessageChannel ----------------------------
(***************************************************************************)
(* What one direction of a daemon connection promises: the receiver gets   *)
(* the messages whole, in the order in which they were sent and each once. *)
(* It may stop getting them (`failed': the peer broke off in the middle of *)
(* one, the size limit, a timeout), but it is told of the end only when it *)
(* has had everything that was sent.                                       *)
(***************************************************************************)
EXTENDS Naturals, Sequences

CONSTANT Message

VARIABLES sent, received, state

vars == <<sent, received, state>>

Init == sent = <<>> /\ received = <<>> /\ state = "open"

Put == /\ state # "ended"
       /\ \E m \in Message : sent' = Append(sent, m)
       /\ UNCHANGED <<received, state>>

Get == /\ state = "open"
       /\ Len(received) < Len(sent)
       /\ received' = Append(received, sent[Len(received) + 1])
       /\ UNCHANGED <<sent, state>>

End == state = "open" /\ received = sent /\ state' = "ended" /\ UNCHANGED <<sent, received>>

Fail == state = "open" /\ state' = "failed" /\ UNCHANGED <<sent, received>>

Next == Put \/ Get \/ End \/ Fail

Spec == Init /\ [][Next]_vars
===============================================================================
