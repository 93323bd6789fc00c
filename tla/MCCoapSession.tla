--------------------------- MODULE MCCoapSession ---------------------------
EXTENDS CoapSession
=============================================================================
