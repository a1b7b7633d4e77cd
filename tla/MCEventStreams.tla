--------------------------- MODULE MCEventStreams ---------------------------
\* Tables for model checking the event streams.
EXTENDS EventStreams

Both      == {"events", "telemetry"}
Telemetry == {"telemetry"}
=============================================================================
