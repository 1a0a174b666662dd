---------------------------- MODULE MCVisitStatus ----------------------------
EXTENDS VisitStatus
=============================================================================
