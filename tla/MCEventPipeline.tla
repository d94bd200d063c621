--------------------------- MODULE MCEventPipeline ---------------------------
\* Small instances of EventPipeline for TLC.
EXTENDS EventPipeline, TLC

AllFaults == {"call", "deadline", "database", "client", "agent", "manager"}
NoFaults == {}
=============================================================================
