----------------------------- MODULE MCWebhooks -----------------------------
(***************************************************************************)
(* Dashboard, and with it WebhookQueue, for TLC.                           *)
(***************************************************************************)
EXTENDS Dashboard

CONSTANTS e1, e2

TwoExt == {e1, e2}

=============================================================================
