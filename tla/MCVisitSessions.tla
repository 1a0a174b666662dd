--------------------------- MODULE MCVisitSessions ---------------------------
EXTENDS VisitSessions
=============================================================================
