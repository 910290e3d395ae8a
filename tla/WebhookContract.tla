---------------------------- MODULE WebhookContract ----------------------------
(***************************************************************************)
(* What the delivery queue promises of each delivery, whatever the number  *)
(* of workers and however often they fail: it is queued once, its consumer *)
(* may take it in any number of times while it is queued and at no other   *)
(* time, and it settles for good, as "sent" only if the consumer got it.   *)
(***************************************************************************)
EXTENDS Naturals

CONSTANT Deliveries

VARIABLES phase, received

Phases == {"none", "queued", "sent", "dead"}

Init ==
    /\ phase = [d \in Deliveries |-> "none"]
    /\ received = [d \in Deliveries |-> 0]

\* One emission queues a delivery for each subscriber
Queue ==
    /\ \A d \in Deliveries :
          phase'[d] # phase[d] => phase[d] = "none" /\ phase'[d] = "queued"
    /\ phase' \in [Deliveries -> Phases]
    /\ UNCHANGED received

Receive(d) ==
    /\ phase[d] = "queued"
    /\ received' = [received EXCEPT ![d] = @ + 1]
    /\ UNCHANGED phase

\* One commit settles any number of deliveries
Settle ==
    /\ \A d \in Deliveries :
          phase'[d] # phase[d] =>
             /\ phase[d] = "queued"
             /\ \/ phase'[d] = "sent" /\ received[d] > 0
                \/ phase'[d] = "dead"
    /\ phase' \in [Deliveries -> Phases]
    /\ UNCHANGED received

Next == Queue \/ Settle \/ \E d \in Deliveries : Receive(d)

Spec == Init /\ [][Next]_<<phase, received>>
================================================================================
