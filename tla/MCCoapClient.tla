---------------------------- MODULE MCCoapClient ----------------------------
EXTENDS CoapClient, CoapService, TLC
Symmetry == Permutations(Ping)
=============================================================================
