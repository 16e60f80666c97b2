--------------------------- MODULE MCScheduledEvents ---------------------------
EXTENDS ScheduledEvents

CONSTANTS e1, n1, n2
=============================================================================
