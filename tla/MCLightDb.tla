----------------------------- MODULE MCLightDb -----------------------------
EXTENDS LightDb, TLC
Symmetry == Permutations(Request)
=============================================================================
