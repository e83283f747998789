--------------------------- MODULE MCTwinRequests ---------------------------
EXTENDS TwinRequests
=============================================================================
