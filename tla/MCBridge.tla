------------------------------ MODULE MCBridge ------------------------------
(* The bridge with the README's key settings and one message of each sort:
   metrics, log, unknown topic, unparsable, and telemetry without a numeric
   reading. *)
EXTENDS Bridge

KeySettings ==
  [identifier |-> <<"ome">>, settings |-> [s \in Settings |-> 0], metricsTopics |-> {},
   logTopics |-> {}, rwURL |-> TRUE, lokiURL |-> TRUE, cacheOn |-> FALSE]

Body(valid, readings) == [valid |-> valid, readings |-> readings, components |-> 0]
Telemetry == [topic |-> <<"ome", "telemetry">>, payload |-> Body(TRUE, 1)]
NoReading == [topic |-> <<"ome", "telemetry">>, payload |-> Body(TRUE, 0)]
Alert     == [topic |-> <<"ome", "alerts">>, payload |-> Body(TRUE, 0)]
Garbage   == [topic |-> <<"ome", "alerts">>, payload |-> Body(FALSE, 0)]
Stray     == [topic |-> <<"other">>, payload |-> Body(TRUE, 0)]

EverySort == {Telemetry, NoReading, Alert, Garbage, Stray}
OnlyTelemetry == {Telemetry}
=============================================================================
