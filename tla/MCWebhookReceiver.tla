------------------------- MODULE MCWebhookReceiver -------------------------
(* Model values for WebhookReceiver: one policy that moves between two     *)
(* repositories, and notifications of both, and of one of them twice, as   *)
(* Harbor sends for an artifact of two tags.                               *)
EXTENDS WebhookReceiver

CONSTANTS r1, r2

MCPayloads == {<<r1, r1>>, <<r2, r1>>}
=============================================================================
