------------------------ MODULE MCWebhookDispatcher ------------------------
(* Filters for TLC: s1 wants every event, s2 leaves out the first.         *)
EXTENDS WebhookDispatcher

CONSTANTS s1, s2

MCWants == [s \in Subs |-> IF s = s1 THEN Events ELSE Events \ {1}]
=============================================================================
