----------------------------- MODULE MCWebhooks -----------------------------
(* Webhooks on a small instance: the constants are all given in the config. *)
EXTENDS Webhooks
=============================================================================
