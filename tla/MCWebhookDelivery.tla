------------------------- MODULE MCWebhookDelivery -------------------------
(* Small instances of WebhookDelivery for TLC. *)
EXTENDS WebhookDelivery, TLC

\* Every endpoint subscribes to every message (event_types NULL).
Wildcard == [m \in Messages |-> Endpoints]

\* Worker replicas are interchangeable.
Replicas == Permutations(Workers)
=============================================================================
