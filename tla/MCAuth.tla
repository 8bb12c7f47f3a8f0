-------------------------------- MODULE MCAuth --------------------------------
EXTENDS Auth, TLC

MCSymmetry == Permutations(Request) \cup Permutations(Browser)
=============================================================================
