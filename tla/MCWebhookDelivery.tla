-------------------------- MODULE MCWebhookDelivery --------------------------
(* Instances of WebhookDelivery for TLC. *)
EXTENDS WebhookDelivery, TLC

\* Requests are interchangeable, and so are endpoints.
MCSymmetry == Permutations(Requests) \cup Permutations(Endpoints)
=============================================================================
