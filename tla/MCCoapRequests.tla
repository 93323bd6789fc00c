--------------------------- MODULE MCCoapRequests ---------------------------
EXTENDS CoapRequests, TLC
Symmetry == Permutations(Request)
=============================================================================
