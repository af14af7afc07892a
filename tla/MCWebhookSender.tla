--------------------------- MODULE MCWebhookSender ---------------------------
(***************************************************************************)
(* WebhookSender on a queue of two, three attempts per event and a breaker *)
(* that opens after two give-ups: a full queue, a retry that succeeds, an  *)
(* open breaker and a probe all happen with four event numbers.            *)
(***************************************************************************)
EXTENDS WebhookSender
=============================================================================
