----------------------------- MODULE MCDelivery -----------------------------
(* Delivery.tla for TLC: values for the constants, and statements of the      *)
(* documentation that the code does not keep.                                 *)
EXTENDS DeliveryService

\* Two entries: with a limit of 4 the second retry waits longer than the first,
\* and the third one reads past the end of the schedule.
MCBackoff == << 1, 2 >>

\* A single entry: every retry but the first reads past the end of the schedule.
MCFlatBackoff == << 2 >>

\* One success, two different failures.
MCAnswers == {200, 500, 503}

\* One success, one failure, one three-digit status that HTTP libraries accept
\* and response_status_http_bounds does not.
MCOddAnswers == {200, 500, 999}

MCPlainAnswers == {200, 500}

\* README.md:163 and :166: failed deliveries are retried with backoff, and a
\* failed cycle is tried again. A row that httpx can post is settled even if
\* another row's URL cannot be posted at all.
HealthySettle ==
    \A d \in Deliveries \ Poison : rows[d].status # "ABSENT" ~> Terminal(d)

=============================================================================
