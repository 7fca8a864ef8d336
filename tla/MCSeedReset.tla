---------------------------- MODULE MCSeedReset ----------------------------
(* SeedReset.tla for TLC.                                                     *)
EXTENDS SeedReset

Shape(reset, users, fields_per_user, forecast_days) ==
    [ reset |-> reset, users |-> users, fields_per_user |-> fields_per_user,
      forecast_days |-> forecast_days ]

\* `make demo`, with and without --reset, and arguments the command refuses.
MCShapes == { Shape(TRUE, 2, 2, 10), Shape(FALSE, 2, 2, 10), Shape(TRUE, 2, 2, 6) }

\* `make up`, a first seed without --reset of the size of README.md:191, and
\* arguments the command refuses.
MCLargeShapes == { Shape(TRUE, 12, 4, 15), Shape(FALSE, 20, 5, 21), Shape(TRUE, 2, 2, 6) }

\* README.md:378: the retry can be shown with MOCK_WHATSAPP_FAIL_FIRST_DELIVERY;
\* a delivered notification was refused once.
RetryIsShown ==
    FailFirst => \A row \in Rows("deliveries") :
                     row.status = "DELIVERED" => Notification(row) \in refused

=============================================================================
