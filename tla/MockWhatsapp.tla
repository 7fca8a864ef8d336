---------------------------- MODULE MockWhatsapp ----------------------------
(* The webhook that the deployment posts to (app/mock_whatsapp/app.py). In    *)
(* fail-first mode it refuses the first post of each trigger id. What it      *)
(* remembers is in its process only.                                          *)
EXTENDS Naturals

CONSTANT FailFirst   \* settings.mock_whatsapp_fail_first_delivery

VARIABLE failed_once   \* trigger ids

Refuses(trigger_id) == FailFirst /\ trigger_id \notin failed_once

AnswerTo(trigger_id) == IF Refuses(trigger_id) THEN 500 ELSE 202

\* receive_notification
Receive(trigger_id) ==
    failed_once' = IF Refuses(trigger_id) THEN failed_once \cup {trigger_id} ELSE failed_once

\* The process starts, or starts again.
Start == failed_once' = {}

=============================================================================
