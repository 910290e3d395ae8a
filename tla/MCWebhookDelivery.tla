--------------------------- MODULE MCWebhookDelivery ---------------------------
(* Instances of WebhookDelivery for TLC *)
EXTENDS WebhookDelivery, TLC

\* Every row has the same URL, the case create_endpoint's check is about
MCUrl == [e \in Endpoints |-> "https://consumer/hook"]

Symmetry == Permutations(Workers)
================================================================================
