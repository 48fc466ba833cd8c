----------------------------- MODULE MCTelemetry -----------------------------
(* Two words make a torn copy, two attempts a retry and a failure; calls with *)
(* the second half of an action (0), with one action and with a batch.        *)
EXTENDS Telemetry
TwoWords == {"a", "b"}
SomeBatches == {0, 1, 2}
=============================================================================
