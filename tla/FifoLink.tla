------------------------------ MODULE FifoLink ------------------------------
(* What a session promises its two ends: the messages of each end reach the *)
(* other one in the order in which they were sent, each once, none left out *)
(* in between.  A session may end with messages under way; those are lost.  *)
(* Messages are numbered as they are sent.                                  *)
EXTENDS Naturals

CONSTANT Session

VARIABLES
    sent,      \* messages sent so far, per session
    received   \* messages received so far, per session

link == <<sent, received>>

LinkInit ==
    /\ sent = [s \in Session |-> 0]
    /\ received = [s \in Session |-> 0]

SendOn(s) ==
    /\ sent' = [sent EXCEPT ![s] = @ + 1]
    /\ UNCHANGED received

ReceiveOn(s) ==
    /\ received[s] < sent[s]
    /\ received' = [received EXCEPT ![s] = @ + 1]
    /\ UNCHANGED sent

LinkNext == \E s \in Session : SendOn(s) \/ ReceiveOn(s)

LinkSpec == LinkInit /\ [][LinkNext]_link
=============================================================================
