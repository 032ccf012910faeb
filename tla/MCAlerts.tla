------------------------------ MODULE MCAlerts ------------------------------
EXTENDS Alerts, Sequences

\* kea_down, packet_health; utilization_high; pool_exhaustion; pool_forecast;
\* stale_reservation.
Plain == [ok |-> TRUE, repeats |-> FALSE, hysteresis |-> FALSE, departs |-> FALSE,
          swept |-> FALSE]
AllKinds == {Plain, [Plain EXCEPT !.departs = TRUE],
             [Plain EXCEPT !.departs = TRUE, !.hysteresis = TRUE],
             [Plain EXCEPT !.ok = FALSE, !.repeats = TRUE],
             [Plain EXCEPT !.ok = FALSE, !.swept = TRUE]}
Backoff == <<1, 2>>
AllFaults == {"send", "answer", "store", "reload", "crash"}

=============================================================================
