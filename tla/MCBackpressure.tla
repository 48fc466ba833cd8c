--------------------------- MODULE MCBackpressure ---------------------------
EXTENDS Backpressure
=============================================================================
