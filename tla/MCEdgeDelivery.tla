--------------------------- MODULE MCEdgeDelivery ---------------------------
EXTENDS EdgeDelivery
=============================================================================
